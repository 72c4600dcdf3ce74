----------------------------- MODULE HeapProofs -----------------------------
(* The heap of SYS.ASM keeps a list of blocks that tiles it, and implements  *)
(* the store of disjoint blocks, for every size and every use.               *)
EXTENDS Heap, TLAPS

-----------------------------------------------------------------------------
(* The headers of the heap as a list that tiles it, and what marking, merging *)
(* and splitting blocks does to such a list.                                 *)

\* The segment behind the block with header s.
End(m, s) == s + 1 + m[s].Size

\* The headers H of the memory m are a list that tiles Start .. L-1.
Sorted(m, H) == \A s, t \in H : s < t => End(m, s) <= t
Linked(m, H, L) == \A s \in H : \/ End(m, s) = L /\ m[s].Next = 0
                                \/ End(m, s) \in H /\ m[s].Next = End(m, s)
Back(m, H) == /\ m[Start].Prev = 0
              /\ \A s \in H \ {Start} : m[s].Prev \in H /\ End(m, m[s].Prev) = s
Covered(m, H, L) == \A x \in Start .. L-1 : \E h \in H : h <= x /\ x < End(m, h)

Chain(m, H, L) == /\ Start \in H
                  /\ H \subseteq Start .. L-1
                  /\ Sorted(m, H)
                  /\ Linked(m, H, L)
                  /\ Back(m, H)
                  /\ Covered(m, H, L)

USE DEF BUSY, FREE

-----------------------------------------------------------------------------
\* What is assumed of the constants, without the width of a segment.
LEMMA Constants ==
    /\ Top \in Nat /\ Top >= 1
    /\ Start \in Nat /\ Start > 0
    /\ MinHeap \in Nat /\ MinHeap >= 2
    /\ \A t \in Totals : t \in Nat /\ Start + t <= Top
    /\ \A n \in Sizes : n \in Nat
    /\ Garbage \in Headers
  <1>1. Top \in Nat /\ Top >= 1
    BY HeapAssumption
  <1>2. Start \in Nat /\ Start > 0 /\ MinHeap \in Nat /\ MinHeap >= 2
    BY HeapAssumption
  <1>3. \A t \in Totals : t \in Nat /\ Start + t <= Top
    BY HeapAssumption
  <1>4. (\A n \in Sizes : n \in Nat) /\ Garbage \in Headers
    BY HeapAssumption
  <1> QED
    BY <1>1, <1>2, <1>3, <1>4

\* Segments are numbers, and so is what a header holds.
LEMMA Numbers ==
    /\ Segs \subseteq Nat /\ 0 \in Segs
    /\ \A h \in Headers : h.Prev \in Segs /\ h.Next \in Segs /\ h.Size \in Segs /\ h.State \in Segs
  <1>1. Top \in Nat /\ Top >= 0
    BY Constants
  <1>2. Segs \subseteq Nat /\ 0 \in Segs
    BY <1>1 DEF Segs
  <1>4. \A h \in Headers : h.Prev \in Segs /\ h.Next \in Segs /\ h.Size \in Segs /\ h.State \in Segs
    BY DEF Headers
  <1> QED
    BY <1>2, <1>4

\* A field changed in a header.
LEMMA SetFields ==
    ASSUME NEW h \in Headers, NEW v \in Segs, NEW w \in Segs
    PROVE  LET a == [h EXCEPT !.Size = v, !.Next = w]
               b == [h EXCEPT !.Prev = v]
               c == [h EXCEPT !.State = v]
           IN  /\ a \in Headers /\ a.Size = v /\ a.Next = w /\ a.Prev = h.Prev /\ a.State = h.State
               /\ b \in Headers /\ b.Prev = v /\ b.Next = h.Next /\ b.Size = h.Size /\ b.State = h.State
               /\ c \in Headers /\ c.State = v /\ c.Next = h.Next /\ c.Size = h.Size /\ c.Prev = h.Prev
  <1> QED
    BY DEF Headers

\* Two headers with the same end are one header.
LEMMA EndsDiffer ==
    ASSUME NEW m \in [Segs -> Headers], NEW H, NEW L \in Segs, Chain(m, H, L), H \subseteq Segs,
           NEW s \in H, NEW t \in H, End(m, s) = End(m, t)
    PROVE  s = t
  <1>1. s \in Segs /\ t \in Segs /\ m[s] \in Headers /\ m[t] \in Headers
    OBVIOUS
  <1>2. s \in Nat /\ t \in Nat /\ m[s].Size \in Nat /\ m[t].Size \in Nat
    BY <1>1, Numbers
  <1>3. ~(s < t) /\ ~(t < s)
    BY <1>2 DEF Chain, Sorted, End
  <1> QED
    BY <1>2, <1>3

\* What Absorb writes.
LEMMA AbsorbFields ==
    ASSUME NEW m \in [Segs -> Headers], NEW s \in Segs, NEW t \in Segs, s # t,
           m[s].Size + 1 + m[t].Size \in Segs, m[t].Next # s
    PROVE  LET a == Absorb(m, s, t)
           IN  /\ a \in [Segs -> Headers]
               /\ \A x \in Segs :
                    /\ a[x].State = m[x].State
                    /\ a[x].Size = IF x = s THEN m[s].Size + 1 + m[t].Size ELSE m[x].Size
                    /\ a[x].Next = IF x = s THEN m[t].Next ELSE m[x].Next
                    /\ a[x].Prev = IF x # 0 /\ x = m[t].Next THEN s ELSE m[x].Prev
  <1> DEFINE b == [m EXCEPT ![s].Size = @ + 1 + m[t].Size, ![s].Next = m[t].Next]
             h == [m[s] EXCEPT !.Size = m[s].Size + 1 + m[t].Size, !.Next = m[t].Next]
             n == m[t].Next
  <1>1. n \in Segs /\ m[s] \in Headers /\ m[t] \in Headers
    BY Numbers
  <1>2. b \in [Segs -> Headers] /\ \A x \in Segs : b[x] = IF x = s THEN h ELSE m[x]
    <2>1. h \in Headers
      BY <1>1, SetFields
    <2>2. b = [m EXCEPT ![s] = h]
      OBVIOUS
    <2> HIDE DEF b, h
    <2> QED
      BY <2>1, <2>2
  <1>3. /\ h.Size = m[s].Size + 1 + m[t].Size /\ h.Next = n
        /\ h.Prev = m[s].Prev /\ h.State = m[s].State
    BY <1>1 DEF Headers
  <1> HIDE DEF b, h, n
  <1>4. CASE n = 0
    BY <1>2, <1>3, <1>4 DEF Absorb, Precede, b, n
  <1>5. CASE n # 0
    <2> DEFINE g == [b[n] EXCEPT !.Prev = s]
               c == [b EXCEPT ![n].Prev = s]
    <2>1. Absorb(m, s, t) = c
      BY <1>5 DEF Absorb, Precede, b, n
    <2>2. c \in [Segs -> Headers] /\ \A x \in Segs : c[x] = IF x = n THEN g ELSE b[x]
      <3>1. b[n] \in Headers
        BY <1>1, <1>2
      <3>2. g \in Headers
        BY <3>1, SetFields
      <3>3. c = [b EXCEPT ![n] = g]
        OBVIOUS
      <3> HIDE DEF c, g
      <3> QED
        BY <1>1, <1>2, <3>2, <3>3
    <2>3. g.Prev = s /\ g.Next = b[n].Next /\ g.Size = b[n].Size /\ g.State = b[n].State
      <3>1. b[n] \in Headers
        BY <1>1, <1>2
      <3> QED
        BY <3>1 DEF Headers
    <2> HIDE DEF c, g
    <2> QED
      BY <1>1, <1>2, <1>3, <1>5, <2>1, <2>2, <2>3 DEF n
  <1> QED
    BY <1>4, <1>5

\* The end of a block is the end of the heap or a later header.
LEMMA EndsInside ==
    ASSUME NEW m \in [Segs -> Headers], NEW H \in SUBSET Segs, NEW L \in Segs, Chain(m, H, L),
           NEW s \in H
    PROVE  /\ s \in Nat /\ s > 0 /\ Start <= s /\ s < L /\ m[s].Size \in Segs
           /\ End(m, s) \in Segs /\ s < End(m, s) /\ End(m, s) <= L
           /\ m[s].Next = IF End(m, s) = L THEN 0 ELSE End(m, s)
           /\ End(m, s) # L => End(m, s) \in H
  <1>1. m[s] \in Headers /\ m[s].Size \in Segs /\ m[s].Size \in Nat /\ L \in Nat
    BY Numbers
  <1>2. H \subseteq Start .. L-1 /\ Start \in Nat /\ Start > 0
    BY Constants DEF Chain
  <1>3. s \in Nat /\ s > 0 /\ Start <= s /\ s < L
    BY <1>2
  <1>4. CASE End(m, s) = L /\ m[s].Next = 0
    BY <1>1, <1>3, <1>4
  <1>5. CASE End(m, s) \in H /\ m[s].Next = End(m, s)
    <2>1. End(m, s) \in Start .. L-1
      BY <1>2, <1>5
    <2> QED
      BY <1>1, <1>2, <1>3, <1>5, <2>1 DEF End
  <1> QED
    BY <1>4, <1>5 DEF Chain, Linked

IsAbsorb(a, m, s, t) ==
    /\ a \in [Segs -> Headers]
    /\ \A x \in Segs :
         /\ a[x].State = m[x].State
         /\ x # s => a[x].Size = m[x].Size
         /\ a[x].Next = IF x = s THEN m[t].Next ELSE m[x].Next

\* A block that absorbs the one behind it leaves a list.
LEMMA AbsorbChain ==
    ASSUME NEW m \in [Segs -> Headers], NEW H \in SUBSET Segs, NEW L \in Segs, Chain(m, H, L),
           NEW s \in H, m[s].Next # 0
    PROVE  LET t == m[s].Next
               a == Absorb(m, s, t)
           IN  /\ t \in H /\ s < t /\ t = End(m, s)
               /\ IsAbsorb(a, m, s, t)
               /\ Chain(a, H \ {t}, L)
  <1> DEFINE t == m[s].Next
             n == m[t].Next
             a == Absorb(m, s, t)
             G == H \ {t}
  <1>0. L \in Nat /\ Start \in Nat /\ Start > 0
    <2>1. L \in Nat
      BY Numbers
    <2> QED
      BY <2>1, Constants
  <1>1. t \in H /\ s < t /\ t = End(m, s) /\ s \in Nat /\ t \in Nat /\ Start <= s /\ s > 0
    <2>1. s \in Nat /\ s > 0 /\ Start <= s /\ s < End(m, s) /\ End(m, s) \in Segs
      BY EndsInside
    <2>2. t = End(m, s) /\ End(m, s) \in H
      BY EndsInside
    <2> QED
      BY <2>1, <2>2, Numbers
  <1>2. /\ End(m, t) \in Nat /\ t < End(m, t) /\ End(m, t) <= L
        /\ n = IF End(m, t) = L THEN 0 ELSE End(m, t)
        /\ End(m, t) # L => End(m, t) \in H
        /\ m[s].Size \in Nat /\ m[t].Size \in Nat
    <2>1. /\ End(m, t) \in Segs /\ t < End(m, t) /\ End(m, t) <= L
          /\ n = IF End(m, t) = L THEN 0 ELSE End(m, t)
          /\ End(m, t) # L => End(m, t) \in H
          /\ m[t].Size \in Segs
      BY <1>1, EndsInside
    <2>2. m[s].Size \in Segs
      BY EndsInside
    <2> QED
      BY <2>1, <2>2, Numbers
  <1>3. m[s].Size + 1 + m[t].Size \in Segs
    <2>1. m[s].Size + 1 + m[t].Size = End(m, t) - s - 1
      BY <1>1, <1>2 DEF End
    <2> QED
      BY <1>0, <1>1, <1>2, <2>1, Constants DEF Segs
  <1>4. n # s
    BY <1>1, <1>2
  <1>5. /\ a \in [Segs -> Headers]
        /\ \A x \in Segs :
             /\ a[x].State = m[x].State
             /\ a[x].Size = IF x = s THEN m[s].Size + 1 + m[t].Size ELSE m[x].Size
             /\ a[x].Next = IF x = s THEN n ELSE m[x].Next
             /\ a[x].Prev = IF x # 0 /\ x = n THEN s ELSE m[x].Prev
    BY <1>1, <1>3, <1>4, AbsorbFields
  <1> HIDE DEF t, n, a
  <1>6. \A x \in H : End(a, x) = IF x = s THEN End(m, t) ELSE End(m, x)
    <2> TAKE x \in H
    <2>1. CASE x = s
      BY <1>1, <1>2, <1>5, <2>1 DEF End
    <2>2. CASE x # s
      BY <1>5, <2>2 DEF End
    <2> QED
      BY <2>1, <2>2
  <1>7. \A x \in H : x \in Nat /\ Start <= x /\ End(m, x) \in Nat /\ x < End(m, x) /\ End(m, x) <= L
    BY EndsInside, Numbers
  <1>8. \A x \in H : x # s => End(m, x) # t
    BY <1>1, EndsDiffer
  <1>9. Start \in G /\ G \subseteq Start .. L-1
    <2>1. Start \in H /\ H \subseteq Start .. L-1 /\ Start \in Nat
      BY Constants DEF Chain
    <2>2. Start # t
      BY <1>0, <1>1
    <2> QED
      BY <2>1, <2>2
  <1>10. Sorted(a, G)
    <2> SUFFICES ASSUME NEW x \in G, NEW y \in G, x < y PROVE End(a, x) <= y
      BY DEF Sorted
    <2>1. End(m, x) <= y /\ (t < y => End(m, t) <= y)
      BY <1>1 DEF Chain, Sorted
    <2>2. CASE x = s
      <3>1. t < y
        BY <1>1, <1>7, <2>1, <2>2
      <3> QED
        BY <1>6, <2>1, <2>2, <3>1
    <2>3. CASE x # s
      BY <1>6, <2>1, <2>3
    <2> QED
      BY <2>2, <2>3
  <1>11. Linked(a, G, L)
    <2> SUFFICES ASSUME NEW x \in G
                 PROVE  \/ End(a, x) = L /\ a[x].Next = 0
                        \/ End(a, x) \in G /\ a[x].Next = End(a, x)
      BY DEF Linked
    <2>1. CASE x = s
      <3>1. End(a, x) = End(m, t) /\ a[x].Next = n
        BY <1>5, <1>6, <2>1
      <3> QED
        BY <1>1, <1>2, <3>1
    <2>2. CASE x # s
      <3>1. End(a, x) = End(m, x) /\ a[x].Next = m[x].Next /\ End(m, x) # t
        BY <1>5, <1>6, <1>8, <2>2
      <3> QED
        BY <3>1 DEF Chain, Linked
    <2> QED
      BY <2>1, <2>2
  <1>12. Back(a, G)
    <2>1. a[Start].Prev = 0
      <3>1. m[Start].Prev = 0 /\ Start \in Segs
        BY <1>9 DEF Chain, Back
      <3>2. Start # n
        BY <1>0, <1>1, <1>2
      <3> QED
        BY <1>5, <3>1, <3>2
    <2>2. ASSUME NEW x \in G \ {Start}
          PROVE  a[x].Prev \in G /\ End(a, a[x].Prev) = x
      <3>1. CASE x = n
        <4>1. x # 0
          BY <1>7, Constants
        <4>2. a[x].Prev = s
          BY <1>5, <3>1, <4>1
        <4>3. End(a, s) = n
          BY <1>2, <1>6, <3>1, <4>1
        <4> QED
          BY <1>1, <3>1, <4>2, <4>3
      <3>2. CASE x # n
        <4> DEFINE r == m[x].Prev
        <4>1. a[x].Prev = r /\ r \in H /\ End(m, r) = x
          BY <1>5, <3>2 DEF Chain, Back
        <4>2. r # s
          BY <1>1, <4>1
        <4>3. r # t
          <5>1. End(m, t) # x
            BY <1>2, <1>7, <1>9, <3>2
          <5> QED
            BY <4>1, <5>1
        <4> QED
          BY <1>6, <4>1, <4>2, <4>3
      <3> QED
        BY <3>1, <3>2
    <2> QED
      BY <2>1, <2>2 DEF Back
  <1>13. Covered(a, G, L)
    <2> SUFFICES ASSUME NEW x \in Start .. L-1 PROVE \E h \in G : h <= x /\ x < End(a, h)
      BY DEF Covered
    <2>1. PICK h \in H : h <= x /\ x < End(m, h)
      BY DEF Chain, Covered
    <2>2. x \in Int
      BY Constants
    <2>3. CASE h = t \/ h = s
      <3>1. s <= x /\ x < End(a, s)
        BY <1>1, <1>2, <1>6, <2>1, <2>2, <2>3
      <3> QED
        BY <1>1, <3>1
    <2>4. CASE h # t /\ h # s
      BY <1>6, <2>1, <2>4
    <2> QED
      BY <2>3, <2>4
  <1>14. Chain(a, G, L)
    BY <1>9, <1>10, <1>11, <1>12, <1>13 DEF Chain
  <1>15. IsAbsorb(a, m, s, t)
    BY <1>5 DEF IsAbsorb, n
  <1> QED
    BY <1>1, <1>14, <1>15 DEF t, a

\* What Split writes: a block of n paragraphs at b, si left before it.
SplitAt(m, s, b, si, n) ==
    Precede([m EXCEPT ![b] = [Prev |-> s, Next |-> m[s].Next, Size |-> n, State |-> BUSY],
                      ![s].Size = si, ![s].Next = b], b, m[s].Next)

IsSplit(a, m, s, b, si, n) ==
    /\ a \in [Segs -> Headers]
    /\ \A x \in Segs :
         /\ a[x].State = IF x = b THEN BUSY ELSE m[x].State
         /\ a[x].Size = IF x = b THEN n ELSE IF x = s THEN si ELSE m[x].Size
         /\ a[x].Next = IF x = b THEN m[s].Next ELSE IF x = s THEN b ELSE m[x].Next
         /\ a[x].Prev = IF x = b THEN s ELSE IF x # 0 /\ x = m[s].Next THEN b ELSE m[x].Prev

\* The headers after the split.
LEMMA SplitFields ==
    ASSUME NEW m \in [Segs -> Headers], NEW s \in Segs, NEW b \in Segs, NEW si \in Segs,
           NEW n \in Segs, 1 \in Segs, s # b, m[s].Next # b, m[s].Next # s
    PROVE  IsSplit(SplitAt(m, s, b, si, n), m, s, b, si, n)
  <1> DEFINE d == m[s].Next
             busy == [Prev |-> s, Next |-> d, Size |-> n, State |-> BUSY]
             k == [m EXCEPT ![b] = busy, ![s].Size = si, ![s].Next = b]
             h == [m[s] EXCEPT !.Size = si, !.Next = b]
  <1>1. d \in Segs /\ m[s] \in Headers
    BY Numbers
  <1>2. busy \in Headers
    BY <1>1 DEF Headers
  <1>3. h \in Headers
    BY <1>1, SetFields
  <1>4. h.Size = si /\ h.Next = b /\ h.Prev = m[s].Prev /\ h.State = m[s].State
    BY <1>1 DEF Headers
  <1>5. k \in [Segs -> Headers] /\ \A x \in Segs : k[x] = IF x = b THEN busy ELSE IF x = s THEN h ELSE m[x]
    <2>1. k = [[m EXCEPT ![b] = busy] EXCEPT ![s] = h]
      OBVIOUS
    <2> HIDE DEF k, h, busy
    <2> QED
      BY <1>2, <1>3, <2>1
  <1>6. busy.Prev = s /\ busy.Next = d /\ busy.Size = n /\ busy.State = BUSY
    OBVIOUS
  <1> HIDE DEF k, h, busy, d
  <1>7. CASE d = 0
    BY <1>4, <1>5, <1>6, <1>7 DEF IsSplit, SplitAt, Precede, k, busy, d
  <1>8. CASE d # 0
    <2> DEFINE g == [k[d] EXCEPT !.Prev = b]
               c == [k EXCEPT ![d].Prev = b]
    <2>1. Precede(k, b, d) = c
      BY <1>8 DEF Precede
    <2>2. k[d] = m[d] /\ k[d] \in Headers
      BY <1>1, <1>5 DEF d
    <2>3. g \in Headers
      BY <2>2, SetFields
    <2>4. g.Prev = b /\ g.Next = k[d].Next /\ g.Size = k[d].Size /\ g.State = k[d].State
      BY <2>2 DEF Headers
    <2>5. c \in [Segs -> Headers] /\ \A x \in Segs : c[x] = IF x = d THEN g ELSE k[x]
      <3>1. c = [k EXCEPT ![d] = g]
        OBVIOUS
      <3> HIDE DEF c, g
      <3> QED
        BY <1>1, <1>5, <2>3, <3>1
    <2> HIDE DEF c, g
    <2>6. \A x \in Segs :
             /\ c[x].State = IF x = b THEN BUSY ELSE m[x].State
             /\ c[x].Size = IF x = b THEN n ELSE IF x = s THEN si ELSE m[x].Size
             /\ c[x].Next = IF x = b THEN d ELSE IF x = s THEN b ELSE m[x].Next
             /\ c[x].Prev = IF x = b THEN s ELSE IF x # 0 /\ x = d THEN b ELSE m[x].Prev
      BY <1>4, <1>5, <1>6, <1>8, <2>2, <2>4, <2>5 DEF d
    <2> QED
      BY <2>1, <2>5, <2>6 DEF IsSplit, SplitAt, k, busy, d
  <1> QED
    BY <1>7, <1>8

\* A free block split in two leaves a list with one header more.
LEMMA SplitChain ==
    ASSUME NEW m \in [Segs -> Headers], NEW H \in SUBSET Segs, NEW L \in Segs, Chain(m, H, L),
           NEW s \in H, NEW n \in Segs, m[s].Size >= n + 1
    PROVE  LET si == m[s].Size - n - 1
               b == s + 1 + si
               d == m[s].Next
               a == SplitAt(m, s, b, si, n)
           IN  /\ b \in Segs /\ b \notin H /\ s < b /\ b + 1 + n = End(m, s) /\ b < L
               /\ a \in [Segs -> Headers]
               /\ Chain(a, H \cup {b}, L)
               /\ IsSplit(a, m, s, b, si, n)
  <1> DEFINE si == m[s].Size - n - 1
             b == s + 1 + si
             d == m[s].Next
             a == SplitAt(m, s, b, si, n)
             G == H \cup {b}
  <1>1. L \in Nat /\ Start \in Nat /\ Start > 0 /\ n \in Nat
    <2>1. L \in Nat /\ n \in Nat
      BY Numbers
    <2> QED
      BY <2>1, Constants
  <1>2. \A x \in H : x \in Nat /\ Start <= x /\ End(m, x) \in Nat /\ x < End(m, x) /\ End(m, x) <= L
    BY EndsInside, Numbers
  <1>3. /\ m[s].Size \in Nat
        /\ d = IF End(m, s) = L THEN 0 ELSE End(m, s)
        /\ End(m, s) # L => End(m, s) \in H
    <2>1. m[s].Size \in Segs
      BY EndsInside
    <2>2. d = IF End(m, s) = L THEN 0 ELSE End(m, s)
      BY EndsInside
    <2>3. End(m, s) # L => End(m, s) \in H
      BY EndsInside
    <2> QED
      BY <2>1, <2>2, <2>3, Numbers
  <1>4. /\ si \in Nat /\ si < m[s].Size /\ b \in Nat /\ s < b /\ b + 1 + n = End(m, s)
        /\ b < End(m, s) /\ b < L
    BY <1>1, <1>2, <1>3 DEF End
  <1>5. b \in Segs /\ si \in Segs /\ 1 \in Segs
    <2>1. L <= Top /\ Top \in Nat
      BY Constants DEF Segs
    <2>2. si <= b /\ 1 <= L
      BY <1>1, <1>2, <1>4
    <2> QED
      BY <1>1, <1>4, <2>1, <2>2 DEF Segs
  <1>6. d # b /\ d # s /\ s # b
    BY <1>1, <1>2, <1>3, <1>4
  <1> HIDE DEF b, si
  <1>7. /\ a \in [Segs -> Headers]
        /\ \A x \in Segs :
             /\ a[x].State = IF x = b THEN BUSY ELSE m[x].State
             /\ a[x].Size = IF x = b THEN n ELSE IF x = s THEN si ELSE m[x].Size
             /\ a[x].Next = IF x = b THEN d ELSE IF x = s THEN b ELSE m[x].Next
             /\ a[x].Prev = IF x = b THEN s ELSE IF x # 0 /\ x = d THEN b ELSE m[x].Prev
    <2>1. s \in Segs /\ m[s].Next # b /\ m[s].Next # s /\ s # b
      BY <1>6
    <2>2. b \in Segs /\ si \in Segs /\ n \in Segs /\ 1 \in Segs
      BY <1>5
    <2>3. IsSplit(a, m, s, b, si, n)
      BY <2>1, <2>2, SplitFields
    <2> HIDE DEF a
    <2> QED
      BY <2>3 DEF IsSplit
  <1> HIDE DEF a, d
  <1>8. End(a, s) = b /\ End(a, b) = End(m, s) /\ \A x \in H : x # s /\ x # b => End(a, x) = End(m, x)
    <2>1. a[s].Size = si /\ a[b].Size = n /\ \A x \in H : x # s /\ x # b => a[x].Size = m[x].Size
      BY <1>5, <1>6, <1>7
    <2> QED
      BY <1>4, <2>1 DEF End, b, si
  <1>9. b \notin H
    <2>1. ASSUME b \in H PROVE FALSE
      <3>1. End(m, s) <= b
        BY <1>4, <2>1 DEF Chain, Sorted
      <3> QED
        BY <1>2, <1>4, <3>1
    <2> QED
      BY <2>1
  <1>10. Start \in G /\ G \subseteq Start .. L-1
    <2>1. Start \in H /\ H \subseteq Start .. L-1
      BY DEF Chain
    <2>2. b \in Start .. L-1
      BY <1>1, <1>2, <1>4
    <2> QED
      BY <2>1, <2>2
  <1>11. Sorted(a, G)
    <2> SUFFICES ASSUME NEW x \in G, NEW y \in G, x < y PROVE End(a, x) <= y
      BY DEF Sorted
    <2>1. \A u, v \in H : u < v => End(m, u) <= v
      BY DEF Chain, Sorted
    <2>2. CASE y = b
      <3>1. x \in H
        BY <1>4, <2>2
      <3>2. CASE x = s
        BY <1>4, <1>8, <2>2, <3>2
      <3>3. CASE x # s
        <4>1. ~(s < x)
          <5>1. s < x => End(m, s) <= x
            BY <2>1, <3>1
          <5> QED
            BY <1>2, <1>4, <2>2, <3>1, <5>1
        <4>2. x < s
          BY <1>2, <3>1, <3>3, <4>1
        <4>3. End(m, x) <= s
          BY <2>1, <3>1, <4>2
        <4>4. End(a, x) = End(m, x)
          BY <1>8, <1>9, <3>1, <3>3
        <4> QED
          BY <1>2, <1>4, <2>2, <3>1, <4>3, <4>4
      <3> QED
        BY <3>2, <3>3
    <2>3. CASE y # b /\ x = b
      <3>1. s < y
        BY <1>2, <1>4, <2>3
      <3> QED
        BY <1>8, <2>1, <2>3, <3>1
    <2>4. CASE y # b /\ x # b
      <3>1. End(m, x) <= y /\ x \in H /\ y \in H
        BY <2>1, <2>4
      <3>2. CASE x = s
        BY <1>2, <1>4, <1>8, <3>1, <3>2
      <3>3. CASE x # s
        BY <1>8, <2>4, <3>1, <3>3
      <3> QED
        BY <3>2, <3>3
    <2> QED
      BY <2>2, <2>3, <2>4
  <1>12. Linked(a, G, L)
    <2> SUFFICES ASSUME NEW x \in G
                 PROVE  \/ End(a, x) = L /\ a[x].Next = 0
                        \/ End(a, x) \in G /\ a[x].Next = End(a, x)
      BY DEF Linked
    <2>1. CASE x = b
      BY <1>3, <1>5, <1>7, <1>8, <2>1
    <2>2. CASE x = s
      BY <1>6, <1>7, <1>8, <2>2
    <2>3. CASE x # b /\ x # s
      <3>1. End(a, x) = End(m, x) /\ a[x].Next = m[x].Next
        BY <1>7, <1>8, <2>3
      <3> QED
        BY <2>3, <3>1 DEF Chain, Linked
    <2> QED
      BY <2>1, <2>2, <2>3
  <1>13. Back(a, G)
    <2>1. a[Start].Prev = 0
      <3>1. Start \in H /\ m[Start].Prev = 0
        BY DEF Chain, Back
      <3>2. Start # b /\ Start # d
        BY <1>1, <1>2, <1>3, <1>4
      <3> QED
        BY <1>7, <3>1, <3>2
    <2>2. ASSUME NEW x \in G \ {Start}
          PROVE  a[x].Prev \in G /\ End(a, a[x].Prev) = x
      <3>1. CASE x = b
        BY <1>5, <1>7, <1>8, <3>1
      <3>2. CASE x # b /\ x = d
        <4>1. x # 0 /\ x = End(m, s)
          BY <1>1, <1>2, <1>3, <3>2
        <4>2. a[x].Prev = b
          BY <1>7, <3>2, <4>1
        <4> QED
          BY <1>8, <4>1, <4>2
      <3>3. CASE x # b /\ x # d
        <4> DEFINE r == m[x].Prev
        <4>1. a[x].Prev = r /\ r \in H /\ End(m, r) = x
          BY <1>7, <3>3 DEF Chain, Back
        <4>2. r # s
          <5>1. x # L
            BY <1>1, <1>10
          <5> QED
            BY <1>3, <3>3, <4>1, <5>1
        <4>3. r # b
          BY <1>9, <4>1
        <4> QED
          BY <1>8, <4>1, <4>2, <4>3
      <3> QED
        BY <3>1, <3>2, <3>3
    <2> QED
      BY <2>1, <2>2 DEF Back
  <1>14. Covered(a, G, L)
    <2> SUFFICES ASSUME NEW x \in Start .. L-1 PROVE \E h \in G : h <= x /\ x < End(a, h)
      BY DEF Covered
    <2>1. PICK h \in H : h <= x /\ x < End(m, h)
      BY DEF Chain, Covered
    <2>2. x \in Int
      BY <1>1
    <2>3. CASE h = s /\ x < b
      BY <1>8, <2>1, <2>3
    <2>4. CASE h = s /\ ~(x < b)
      <3>1. b <= x /\ x < End(a, b)
        BY <1>4, <1>8, <2>1, <2>2, <2>4
      <3> QED
        BY <3>1
    <2>5. CASE h # s
      BY <1>8, <1>9, <2>1, <2>5
    <2> QED
      BY <2>3, <2>4, <2>5
  <1>15. Chain(a, G, L)
    BY <1>10, <1>11, <1>12, <1>13, <1>14 DEF Chain
  <1>16. IsSplit(a, m, s, b, si, n)
    BY <1>7 DEF IsSplit, d
  <1> QED
    BY <1>4, <1>5, <1>7, <1>9, <1>15, <1>16 DEF a, b, d, si

\* What the two merges write, and the block before another.
NextMerged(a, m, s) ==
    LET t == m[s].Next
        merged == t # 0 /\ m[t].State = FREE
    IN  \A x \in Segs : /\ a[x].State = m[x].State
                        /\ x # s => a[x].Size = m[x].Size
                        /\ a[x].Next = IF x = s /\ merged THEN m[t].Next ELSE m[x].Next

PrevMerged(a, m, s) ==
    LET u == m[s].Prev
        merged == u # 0 /\ m[u].State = FREE
    IN  \A x \in Segs : /\ a[x].State = m[x].State
                        /\ ~(x = u /\ merged) => a[x].Size = m[x].Size
                        /\ a[x].Next = IF x = u /\ merged THEN m[s].Next ELSE m[x].Next

IsBefore(m, H, s, u) == /\ u = 0 <=> s = Start
                        /\ u # 0 => u \in H /\ u < s /\ End(m, u) = s

\* Merging with the block behind leaves a list.
LEMMA MergeNextChain ==
    ASSUME NEW m \in [Segs -> Headers], NEW H \in SUBSET Segs, NEW L \in Segs, Chain(m, H, L),
           NEW s \in H
    PROVE  LET t == m[s].Next
               a == MergeNext(m, s)
               merged == t # 0 /\ m[t].State = FREE
           IN  /\ a \in [Segs -> Headers]
               /\ merged => t \in H /\ s < t /\ t = End(m, s)
               /\ Chain(a, IF merged THEN H \ {t} ELSE H, L)
               /\ NextMerged(a, m, s)
  <1> DEFINE t == m[s].Next
  <1>1. CASE t # 0 /\ m[t].State = FREE
    <2>1. MergeNext(m, s) = Absorb(m, s, t)
      BY <1>1 DEF MergeNext
    <2>2. t \in H /\ s < t /\ t = End(m, s)
      BY <1>1, AbsorbChain
    <2>3. Chain(Absorb(m, s, t), H \ {t}, L)
      BY <1>1, AbsorbChain
    <2>4. IsAbsorb(Absorb(m, s, t), m, s, t)
      BY <1>1, AbsorbChain
    <2> HIDE DEF t
    <2> QED
      BY <1>1, <2>1, <2>2, <2>3, <2>4 DEF t, IsAbsorb, NextMerged
  <1>2. CASE ~(t # 0 /\ m[t].State = FREE)
    <2>1. MergeNext(m, s) = m
      BY <1>2 DEF MergeNext
    <2> HIDE DEF t
    <2> QED
      BY <1>2, <2>1 DEF t, NextMerged
  <1> QED
    BY <1>1, <1>2

\* Merging with the block before leaves a list.
LEMMA MergePrevChain ==
    ASSUME NEW m \in [Segs -> Headers], NEW H \in SUBSET Segs, NEW L \in Segs, Chain(m, H, L),
           NEW s \in H
    PROVE  LET u == m[s].Prev
               a == MergePrev(m, s)
               merged == u # 0 /\ m[u].State = FREE
           IN  /\ a \in [Segs -> Headers]
               /\ IsBefore(m, H, s, u)
               /\ Chain(a, IF merged THEN H \ {s} ELSE H, L)
               /\ PrevMerged(a, m, s)
  <1> DEFINE u == m[s].Prev
  <1>1. u = 0 <=> s = Start
    <2>1. s = Start => u = 0
      BY DEF Chain, Back
    <2>2. s # Start => u \in H
      BY DEF Chain, Back
    <2>3. u \in H => u # 0
      BY Constants DEF Chain
    <2> QED
      BY <2>1, <2>2, <2>3
  <1>2. u # 0 => u \in H /\ End(m, u) = s
    <2>1. s # Start => u \in H /\ End(m, u) = s
      BY DEF Chain, Back
    <2> QED
      BY <1>1, <2>1
  <1>3. u # 0 => u < s
    BY <1>2, EndsInside
  <1>4. u # 0 => m[u].Next = s /\ m[u].Next # 0
    <2>1. s # L /\ s # 0
      <3>1. s < L /\ s \in Nat /\ s > 0
        BY EndsInside
      <3>2. L \in Nat
        BY Numbers
      <3> QED
        BY <3>1, <3>2
    <2>2. u # 0 => m[u].Next = End(m, u)
      <3>1. u # 0 => m[u].Next = End(m, u) \/ End(m, u) = L
        BY <1>2 DEF Chain, Linked
      <3> QED
        BY <1>2, <2>1, <3>1
    <2> QED
      BY <1>2, <2>1, <2>2
  <1>5. CASE u # 0 /\ m[u].State = FREE
    <2>1. MergePrev(m, s) = Absorb(m, u, s)
      BY <1>5 DEF MergePrev
    <2>2. Chain(Absorb(m, u, m[u].Next), H \ {m[u].Next}, L)
      BY <1>2, <1>4, <1>5, AbsorbChain
    <2>3. IsAbsorb(Absorb(m, u, m[u].Next), m, u, m[u].Next)
      BY <1>2, <1>4, <1>5, AbsorbChain
    <2>4. m[u].Next = s
      BY <1>4, <1>5
    <2> HIDE DEF u
    <2> QED
      BY <1>1, <1>2, <1>3, <1>5, <2>1, <2>2, <2>3, <2>4 DEF u, IsAbsorb, IsBefore, PrevMerged
  <1>6. CASE ~(u # 0 /\ m[u].State = FREE)
    <2>1. MergePrev(m, s) = m
      BY <1>6 DEF MergePrev
    <2> HIDE DEF u
    <2> QED
      BY <1>1, <1>2, <1>3, <1>6, <2>1 DEF u, IsBefore, PrevMerged
  <1> QED
    BY <1>5, <1>6

-----------------------------------------------------------------------------
(* The invariant *)

Inside(p, x) == p <= x /\ x < p + live[p]

\* Blocks that were given back and not reused still have their free header.
FreedAreFree == \A p \in freed : /\ mem[p - 1].State = FREE
                                 /\ p \notin DOMAIN live
                                 /\ \A q \in DOMAIN live : ~Inside(q, p - 1)

\* The headers the walk has passed do not fit.
Passed == \A h \in Heads : (ax = 0 \/ h < ax) => ~Fits(h)

NoHeap == total = 0 /\ DOMAIN live = {} /\ freed = {}

Inv == /\ TypeOK
       /\ MemStartSeg = 0 => NoHeap
       /\ MemStartSeg # 0 => /\ total \in Totals /\ total >= 2
                             /\ Chain(mem, Heads, Limit)
       /\ BusyIsLive
       /\ NoFreeNeighbours
       /\ FreedAreFree
       /\ ~Idle => /\ ax = 0 \/ ax \in Heads
                   /\ Passed
       /\ Idle => ax = 0

-----------------------------------------------------------------------------
\* What the invariant says of a heap that is there.
LEMMA Facts ==
    ASSUME Inv, MemStartSeg # 0
    PROVE  /\ MemStartSeg = Start /\ Start \in Nat /\ Start > 0
           /\ total \in Nat /\ total >= 2
           /\ Limit \in Segs /\ Limit \in Nat
           /\ Heads \in SUBSET Segs
           /\ mem \in [Segs -> Headers]
           /\ Chain(mem, Heads, Limit)
  <1>1. MemStartSeg = Start /\ Start \in Nat /\ Start > 0
    BY Constants DEF Inv, TypeOK
  <1>2. total \in Totals /\ total \in Nat /\ total >= 2
    <2>1. total \in Totals /\ total >= 2
      BY DEF Inv
    <2> QED
      BY <2>1, Constants
  <1>3. Limit \in Nat /\ Limit <= Top /\ Top \in Nat
    BY <1>1, <1>2, Constants DEF Limit
  <1>4. Limit \in Segs
    BY <1>3 DEF Segs
  <1>5. Chain(mem, Heads, Limit) /\ mem \in [Segs -> Headers]
    BY DEF Inv, TypeOK
  <1>6. Heads \subseteq Segs
    <2>1. Heads \subseteq Start .. Limit-1
      BY <1>5 DEF Chain
    <2> QED
      BY <1>1, <1>3, <2>1 DEF Segs
  <1> QED
    BY <1>1, <1>2, <1>3, <1>4, <1>5, <1>6

\* A block in use stands behind its header.
LEMMA LiveFacts ==
    ASSUME Inv, NEW p \in DOMAIN live
    PROVE  /\ MemStartSeg # 0
           /\ p \in Nat /\ Start < p /\ live[p] \in Nat /\ live[p] > 0
           /\ p - 1 \in Heads /\ mem[p - 1].State = BUSY
           /\ End(mem, p - 1) = p + live[p]
           /\ p + live[p] <= Limit
  <1>1. MemStartSeg # 0
    BY DEF Inv, NoHeap
  <1>2. p \in Start+1 .. Limit-1 /\ live[p] \in 1 .. Limit - p
    BY DEF Inv, TypeOK
  <1>3. /\ p \in Nat /\ Start < p /\ live[p] \in Nat /\ live[p] > 0
        /\ p + live[p] <= Limit /\ p - 1 # Limit /\ (p - 1) + 1 = p
    BY <1>1, <1>2, Facts
  <1>4. p - 1 \in Heads
    BY <1>1, <1>3 DEF Heads
  <1>5. mem[p - 1].State = BUSY /\ mem[p - 1].Size = live[p]
    BY <1>3, <1>4 DEF Inv, BusyIsLive
  <1> QED
    BY <1>1, <1>3, <1>4, <1>5 DEF End

\* A header of the list, and what comes behind it.
LEMMA HeadFacts ==
    ASSUME Inv, NEW s \in Heads
    PROVE  /\ MemStartSeg # 0 /\ s \in Segs /\ mem[s] \in Headers
           /\ s \in Nat /\ s > 0 /\ Start <= s /\ s < Limit
           /\ mem[s].Size \in Segs /\ mem[s].Size \in Nat
           /\ End(mem, s) \in Segs /\ End(mem, s) \in Nat
           /\ s < End(mem, s) /\ End(mem, s) <= Limit
           /\ mem[s].Next = IF End(mem, s) = Limit THEN 0 ELSE End(mem, s)
           /\ End(mem, s) # Limit => End(mem, s) \in Heads
  <1>1. MemStartSeg # 0
    BY DEF Heads
  <1>2. /\ mem \in [Segs -> Headers] /\ Heads \in SUBSET Segs /\ Limit \in Segs
        /\ Chain(mem, Heads, Limit)
    BY <1>1, Facts
  <1>3. /\ s \in Nat /\ s > 0 /\ Start <= s /\ s < Limit /\ mem[s].Size \in Segs
        /\ End(mem, s) \in Segs /\ s < End(mem, s) /\ End(mem, s) <= Limit
        /\ mem[s].Next = IF End(mem, s) = Limit THEN 0 ELSE End(mem, s)
        /\ End(mem, s) # Limit => End(mem, s) \in Heads
    BY <1>2, EndsInside
  <1>4. End(mem, s) \in Nat /\ mem[s].Size \in Nat
    BY <1>3, Numbers
  <1>5. s \in Segs /\ mem[s] \in Headers
    BY <1>2
  <1> QED
    BY <1>1, <1>3, <1>4, <1>5

\* The chain of the invariant is the tiling TLC checks.
LEMMA InvTiles == Inv => ListTilesHeap
  <1> SUFFICES ASSUME Inv, NEW s \in Heads
               PROVE  /\ \A t \in Heads : s < t => After(s) <= t
                      /\ \/ After(s) = Limit /\ mem[s].Next = 0
                         \/ After(s) \in Heads /\ mem[s].Next = After(s) /\ mem[After(s)].Prev = s
                      /\ s = Start => mem[s].Prev = 0
    BY DEF ListTilesHeap
  <1>1. MemStartSeg # 0
    BY DEF Heads
  <1>2. After(s) = End(mem, s)
    BY DEF After, End
  <1>3. ASSUME NEW t \in Heads, t = End(mem, s) PROVE mem[t].Prev = s
    <2>1. t # Start
      BY <1>1, <1>3, Facts, EndsInside
    <2>2. mem[t].Prev \in Heads /\ End(mem, mem[t].Prev) = t
      BY <1>1, <2>1, Facts DEF Chain, Back
    <2> QED
      BY <1>1, <1>3, <2>2, Facts, EndsDiffer
  <1>4. \A t \in Heads : s < t => After(s) <= t
    BY <1>1, <1>2, Facts DEF Chain, Sorted
  <1>5. \/ After(s) = Limit /\ mem[s].Next = 0
        \/ After(s) \in Heads /\ mem[s].Next = After(s)
    BY <1>1, <1>2, Facts DEF Chain, Linked
  <1>6. s = Start => mem[s].Prev = 0
    BY <1>1, Facts DEF Chain, Back
  <1> QED
    BY <1>2, <1>3, <1>4, <1>5, <1>6

\* Before the heap is taken.
LEMMA InitInv == Init => Inv
  <1> SUFFICES ASSUME Init PROVE Inv
    OBVIOUS
  <1>1. DOMAIN live = {} /\ freed = {} /\ total = 0 /\ MemStartSeg = 0 /\ cx = 0 /\ ax = 0
    BY DEF Init
  <1>2. Heads = {}
    BY <1>1 DEF Heads
  <1>3. mem \in [Segs -> Headers]
    BY Constants DEF Init
  <1>4. TypeOK
    BY <1>1, <1>3, Numbers DEF TypeOK
  <1> QED
    BY <1>1, <1>2, <1>4 DEF Inv, NoHeap, BusyIsLive, NoFreeNeighbours, FreedAreFree, Idle

\* MEM_INIT: one free block.
LEMMA BootInv == ASSUME Inv, NEW size \in Totals, Boot(size) PROVE Inv'
  <1> DEFINE h == [Prev |-> 0, Next |-> 0, Size |-> size - 1, State |-> FREE]
             L == Start + size
  <1>1. /\ size \in Nat /\ size >= 2 /\ L \in Nat /\ L <= Top /\ Top \in Nat
        /\ Start \in Nat /\ Start > 0
    <2>1. size >= MinHeap
      BY DEF Boot
    <2>2. size \in Nat /\ MinHeap \in Nat /\ MinHeap >= 2
      BY Constants
    <2>3. Top \in Nat /\ Start \in Nat /\ Start > 0 /\ Start + size <= Top
      BY Constants
    <2> QED
      BY <2>1, <2>2, <2>3
  <1>2. size - 1 \in Segs /\ Start \in Segs /\ FREE \in Segs /\ 0 \in Segs
    BY <1>1 DEF Segs
  <1>3. h \in Headers
    BY <1>2 DEF Headers
  <1>4. /\ mem' = [mem EXCEPT ![Start] = h] /\ total' = size /\ MemStartSeg' = Start
        /\ cx' = 0 /\ ax' = 0 /\ live' = live /\ freed' = freed /\ Idle
        /\ DOMAIN live = {} /\ freed = {} /\ mem \in [Segs -> Headers]
    BY DEF Boot, Inv, NoHeap, Idle, TypeOK
  <1>5. Limit' = L
    BY <1>4 DEF Limit
  <1>6. Heads' = {Start}
    BY <1>1, <1>4, <1>5 DEF Heads
  <1>7. mem'[Start] = h /\ mem' \in [Segs -> Headers]
    BY <1>2, <1>3, <1>4
  <1>8. End(mem', Start) = L
    BY <1>1, <1>7 DEF End
  <1>9. Chain(mem', {Start}, L)
    <2>1. Start \in Start .. L-1
      BY <1>1
    <2>2. Sorted(mem', {Start})
      BY <1>1 DEF Sorted
    <2>3. Linked(mem', {Start}, L) /\ Back(mem', {Start})
      BY <1>7, <1>8 DEF Linked, Back
    <2>4. Covered(mem', {Start}, L)
      BY <1>1, <1>8 DEF Covered
    <2> QED
      BY <2>1, <2>2, <2>3, <2>4 DEF Chain
  <1>10. TypeOK'
    BY <1>2, <1>4, <1>5, <1>7 DEF TypeOK
  <1>11. BusyIsLive' /\ NoFreeNeighbours' /\ FreedAreFree'
    BY <1>4, <1>6, <1>7 DEF BusyIsLive, NoFreeNeighbours, FreedAreFree
  <1> QED
    BY <1>1, <1>4, <1>5, <1>6, <1>9, <1>10, <1>11 DEF Inv, Idle

\* SYSTEM_Alloc starts at the first header.
LEMMA AllocInv == ASSUME Inv, NEW n \in Sizes, Alloc(n) PROVE Inv'
  <1>1. Paras(n) \in 0 .. 4095
    <2>1. n \in Nat
      BY Constants
    <2> QED
      BY <2>1 DEF Paras
  <1>2. /\ mem' = mem /\ total' = total /\ MemStartSeg' = MemStartSeg /\ live' = live /\ freed' = freed
        /\ cx' = Paras(n) /\ cx' # 0 /\ ax' = MemStartSeg
    BY DEF Alloc
  <1>3. Heads' = Heads /\ Limit' = Limit
    BY <1>2 DEF Heads, Limit
  <1>4. TypeOK'
    <2>1. MemStartSeg \in Segs
      BY Facts, Numbers DEF Inv, TypeOK, Chain
    <2> QED
      BY <1>1, <1>2, <1>3, <2>1 DEF Inv, TypeOK
  <1>5. BusyIsLive' /\ NoFreeNeighbours' /\ FreedAreFree'
    BY <1>2, <1>3 DEF Inv, BusyIsLive, NoFreeNeighbours, FreedAreFree, Inside
  <1>6. (ax' = 0 \/ ax' \in Heads') /\ Passed'
    <2>1. CASE MemStartSeg = 0
      BY <1>2, <1>3, <2>1 DEF Heads, Passed
    <2>2. CASE MemStartSeg # 0
      <3>1. MemStartSeg = Start /\ Start \in Heads /\ Start > 0 /\ Start \in Nat
        BY <2>2, Facts DEF Chain
      <3>2. \A h \in Heads : ~(h < Start)
        <4>1. Heads \subseteq Start .. Limit-1
          BY <2>2, Facts DEF Chain
        <4> QED
          BY <3>1, <4>1
      <3> QED
        BY <1>2, <1>3, <3>1, <3>2 DEF Passed
    <2> QED
      BY <2>1, <2>2
  <1> QED
    BY <1>2, <1>3, <1>4, <1>5, <1>6 DEF Inv, NoHeap, Idle

\* The walk stands at a header of the list, or behind it.
LEMMA WalkFacts ==
    ASSUME Inv, ~Idle, ax # 0
    PROVE  MemStartSeg # 0 /\ ax \in Heads /\ cx \in Nat /\ cx > 0
  <1>1. ax \in Heads
    BY DEF Inv
  <1>2. MemStartSeg # 0
    BY <1>1 DEF Heads
  <1>3. cx \in Nat /\ cx > 0
    BY DEF Inv, TypeOK, Idle
  <1> QED
    BY <1>1, <1>2, <1>3

\* The walk goes on behind a block that does not fit.
LEMMA ScanInv == ASSUME Inv, Scan PROVE Inv'
  <1>1. /\ mem' = mem /\ total' = total /\ MemStartSeg' = MemStartSeg /\ live' = live /\ freed' = freed
        /\ cx' = cx /\ ax' = mem[ax].Next /\ ~Fits(ax) /\ ~Idle /\ ax # 0
    BY DEF Scan
  <1>2. MemStartSeg # 0 /\ ax \in Heads
    BY <1>1, WalkFacts
  <1>3. Heads' = Heads /\ Limit' = Limit
    BY <1>1 DEF Heads, Limit
  <1>4. /\ ax \in Nat /\ ax < End(mem, ax) /\ End(mem, ax) \in Segs
        /\ ax' = IF End(mem, ax) = Limit THEN 0 ELSE End(mem, ax)
        /\ End(mem, ax) # Limit => End(mem, ax) \in Heads
    BY <1>1, <1>2, HeadFacts
  <1>5. TypeOK'
    BY <1>1, <1>3, <1>4, Numbers DEF Inv, TypeOK
  <1>6. BusyIsLive' /\ NoFreeNeighbours' /\ FreedAreFree'
    BY <1>1, <1>3 DEF Inv, BusyIsLive, NoFreeNeighbours, FreedAreFree, Inside
  <1>7. Passed'
    <2> SUFFICES ASSUME NEW h \in Heads, ax' = 0 \/ h < ax' PROVE ~Fits(h)
      BY <1>1, <1>3 DEF Passed, Fits
    <2>1. h \in Nat /\ h < Limit /\ End(mem, ax) \in Nat /\ Limit \in Nat
      BY <1>2, <1>4, Facts, EndsInside, Numbers
    <2>2. CASE h < ax
      BY <1>1, <2>2 DEF Inv, Passed
    <2>3. CASE h = ax
      BY <1>1, <2>3
    <2>4. CASE ax < h
      <3>1. End(mem, ax) <= h
        BY <1>2, <2>4, Facts DEF Chain, Sorted
      <3>2. End(mem, ax) # Limit
        BY <2>1, <3>1
      <3>3. ax' = End(mem, ax) /\ ax' # 0
        BY <1>4, <3>2
      <3> QED
        BY <2>1, <3>1, <3>3
    <2> QED
      BY <1>4, <2>1, <2>2, <2>3, <2>4
  <1> QED
    BY <1>1, <1>2, <1>3, <1>4, <1>5, <1>6, <1>7 DEF Inv, Idle

\* NIL.
LEMMA FailInv == ASSUME Inv, Fail PROVE Inv'
  <1>1. /\ mem' = mem /\ total' = total /\ MemStartSeg' = MemStartSeg /\ live' = live /\ freed' = freed
        /\ cx' = 0 /\ ax' = 0 /\ 0 \in 0 .. 4095
    BY DEF Fail
  <1>2. Heads' = Heads /\ Limit' = Limit
    BY <1>1 DEF Heads, Limit
  <1>3. TypeOK'
    BY <1>1, <1>2, Numbers DEF Inv, TypeOK
  <1>4. BusyIsLive' /\ NoFreeNeighbours' /\ FreedAreFree'
    BY <1>1, <1>2 DEF Inv, BusyIsLive, NoFreeNeighbours, FreedAreFree, Inside
  <1> QED
    BY <1>1, <1>2, <1>3, <1>4 DEF Inv, NoHeap, Idle

\* A free block is handed out as it is.
LEMMA TakeWholeInv == ASSUME Inv, TakeWhole PROVE Inv'
  <1> DEFINE p == ax + 1
             h == [mem[ax] EXCEPT !.State = BUSY]
  <1>1. /\ ~Idle /\ ax # 0 /\ Fits(ax) /\ mem[ax].Size < cx + 1
        /\ mem' = [mem EXCEPT ![ax].State = BUSY]
        /\ live' = [q \in DOMAIN live \cup {p} |-> IF q = p THEN cx ELSE live[q]]
        /\ freed' = {} /\ cx' = 0 /\ ax' = 0 /\ total' = total /\ MemStartSeg' = MemStartSeg
    BY DEF TakeWhole, Deliver
  <1>2. MemStartSeg # 0 /\ ax \in Heads /\ cx \in Nat /\ cx > 0
    BY <1>1, WalkFacts
  <1>3. /\ ax \in Nat /\ ax > 0 /\ Start <= ax /\ ax < Limit /\ mem[ax].Size \in Nat
        /\ End(mem, ax) \in Nat /\ End(mem, ax) <= Limit /\ Limit \in Nat /\ Start \in Nat
        /\ End(mem, ax) # Limit => End(mem, ax) \in Heads
    BY <1>2, Facts, EndsInside, Numbers
  <1>4. mem[ax].Size = cx /\ mem[ax].State = FREE /\ End(mem, ax) = p + cx
    BY <1>1, <1>2, <1>3 DEF Fits, End
  <1>5. p \notin DOMAIN live
    BY <1>2, <1>3, <1>4 DEF Inv, BusyIsLive
  <1>6. Limit' = Limit
    BY <1>1 DEF Limit
  <1>7. Heads' = Heads
    <2>1. /\ DOMAIN live' = DOMAIN live \cup {p}
          /\ live'[p] = cx /\ \A q \in DOMAIN live : live'[q] = live[q]
      BY <1>1, <1>5
    <2>2. p - 1 = ax /\ p + cx = End(mem, ax)
      BY <1>3, <1>4
    <2>3. {q - 1 : q \in DOMAIN live'} = {q - 1 : q \in DOMAIN live} \cup {ax}
      BY <2>1, <2>2
    <2>4. {q + live'[q] : q \in DOMAIN live'} = {q + live[q] : q \in DOMAIN live} \cup {End(mem, ax)}
      BY <2>1, <2>2
    <2>5. End(mem, ax) \in Heads \cup {Limit} /\ MemStartSeg' # 0
      BY <1>1, <1>2, <1>3
    <2>6. Heads' = ({Start} \cup {q - 1 : q \in DOMAIN live'} \cup {q + live'[q] : q \in DOMAIN live'}) \ {Limit}
      BY <1>6, <2>5 DEF Heads
    <2>7. Heads = ({Start} \cup {q - 1 : q \in DOMAIN live} \cup {q + live[q] : q \in DOMAIN live}) \ {Limit}
      BY <1>2 DEF Heads
    <2> DEFINE A == {q - 1 : q \in DOMAIN live}
               B == {q + live[q] : q \in DOMAIN live}
    <2> HIDE DEF A, B
    <2>8. Heads' = ({Start} \cup A \cup {ax} \cup B \cup {End(mem, ax)}) \ {Limit}
      BY <2>3, <2>4, <2>6 DEF A, B
    <2>9. Heads = ({Start} \cup A \cup B) \ {Limit}
      BY <2>7 DEF A, B
    <2> QED
      BY <1>2, <1>3, <2>5, <2>8, <2>9
  <1>8. mem' \in [Segs -> Headers] /\ \A x \in Segs : /\ mem'[x].State = IF x = ax THEN BUSY ELSE mem[x].State
                                                     /\ mem'[x].Size = mem[x].Size
                                                     /\ mem'[x].Next = mem[x].Next
                                                     /\ mem'[x].Prev = mem[x].Prev
    <2>1. mem \in [Segs -> Headers] /\ ax \in Segs /\ mem[ax] \in Headers
      BY <1>2, Facts
    <2>2. 1 \in Segs
      BY Constants DEF Segs
    <2>3. h \in Headers /\ h.State = BUSY /\ h.Size = mem[ax].Size /\ h.Next = mem[ax].Next /\ h.Prev = mem[ax].Prev
      BY <2>1, <2>2 DEF Headers
    <2>4. mem' = [mem EXCEPT ![ax] = h]
      BY <1>1
    <2> HIDE DEF h
    <2> QED
      BY <2>1, <2>3, <2>4
  <1>9. Heads \subseteq Segs
    BY <1>2, Facts
  <1>10. Chain(mem', Heads, Limit)
    <2>1. \A x \in Segs : End(mem', x) = End(mem, x)
      BY <1>8 DEF End
    <2>2. Start \in Segs /\ \A x \in Heads \ {Start} : mem[x].Prev \in Segs
      BY <1>2, <1>9, Facts DEF Chain, Back
    <2> QED
      BY <1>2, <1>8, <1>9, <2>1, <2>2, Facts DEF Chain, Sorted, Linked, Back, Covered
  <1>11. TypeOK'
    <2>1. DOMAIN live' \subseteq Start+1 .. Limit-1
      <3>1. p \in Start+1 .. Limit-1
        BY <1>2, <1>3, <1>4
      <3> QED
        BY <1>1, <3>1 DEF Inv, TypeOK
    <2>2. \A q \in DOMAIN live' : live'[q] \in 1 .. Limit - q
      <3>1. cx \in 1 .. Limit - p
        BY <1>2, <1>3, <1>4
      <3> QED
        BY <1>1, <3>1 DEF Inv, TypeOK
    <2>3. cx' \in 0 .. 4095 /\ ax' \in Segs /\ freed' \subseteq Start+1 .. Limit'
      BY <1>1, Numbers
    <2>4. MemStartSeg' \in {0, Start} /\ total' \in Totals \cup {0}
      BY <1>1 DEF Inv, TypeOK
    <2> QED
      BY <1>6, <1>8, <2>1, <2>2, <2>3, <2>4 DEF TypeOK
  <1>12. BusyIsLive'
    <2> SUFFICES ASSUME NEW x \in Heads
                 PROVE  /\ mem'[x].State \in {BUSY, FREE}
                        /\ mem'[x].State = BUSY <=> x + 1 \in DOMAIN live'
                        /\ x + 1 \in DOMAIN live' => mem'[x].Size = live'[x + 1]
      BY <1>7 DEF BusyIsLive
    <2>1. DOMAIN live' = DOMAIN live \cup {p} /\ live'[p] = cx /\ \A q \in DOMAIN live : live'[q] = live[q]
      BY <1>1, <1>5
    <2>2. CASE x = ax
      BY <1>4, <1>8, <1>9, <2>1, <2>2
    <2>3. CASE x # ax
      <3>1. x + 1 # p
        BY <1>2, <1>3, <2>3, Facts, EndsInside
      <3>2. /\ mem[x].State \in {BUSY, FREE}
            /\ mem[x].State = BUSY <=> x + 1 \in DOMAIN live
            /\ x + 1 \in DOMAIN live => mem[x].Size = live[x + 1]
        BY DEF Inv, BusyIsLive
      <3> QED
        BY <1>8, <1>9, <2>1, <2>3, <3>1, <3>2
    <2> QED
      BY <2>2, <2>3
  <1>13. NoFreeNeighbours'
    <2> SUFFICES ASSUME NEW x \in Heads, mem'[x].State = FREE, mem'[x].Next # 0
                 PROVE  mem'[mem'[x].Next].State = BUSY
      BY <1>7 DEF NoFreeNeighbours
    <2>1. mem'[x].Next = mem[x].Next /\ mem[x].State = FREE
      BY <1>8, <1>9
    <2>2. mem[mem[x].Next].State = BUSY
      BY <2>1 DEF Inv, NoFreeNeighbours
    <2>3. mem[x].Next \in Segs
      BY <1>2, <1>9, Facts, Numbers
    <2> QED
      BY <1>8, <2>1, <2>2, <2>3
  <1>14. FreedAreFree'
    BY <1>1 DEF FreedAreFree
  <1> QED
    BY <1>1, <1>2, <1>6, <1>7, <1>10, <1>11, <1>12, <1>13, <1>14 DEF Inv, Idle

\* A block is cut from the end of a free one.
LEMMA SplitInv == ASSUME Inv, Split PROVE Inv'
  <1> DEFINE si == mem[ax].Size - cx - 1
             bx == ax + 1 + si
             p == bx + 1
  <1>1. /\ ~Idle /\ ax # 0 /\ Fits(ax) /\ mem[ax].Size >= cx + 1
        /\ mem' = SplitAt(mem, ax, bx, si, cx)
        /\ live' = [q \in DOMAIN live \cup {p} |-> IF q = p THEN cx ELSE live[q]]
        /\ freed' = {} /\ cx' = 0 /\ ax' = 0 /\ total' = total /\ MemStartSeg' = MemStartSeg
    BY DEF Split, SplitAt, Deliver
  <1>2. MemStartSeg # 0 /\ ax \in Heads /\ cx \in Nat /\ cx > 0
    BY <1>1, WalkFacts
  <1>3. /\ ax \in Nat /\ ax > 0 /\ Start <= ax /\ ax < Limit /\ mem[ax].Size \in Nat
        /\ mem[ax].Size \in Segs
        /\ End(mem, ax) \in Nat /\ End(mem, ax) <= Limit
        /\ End(mem, ax) # Limit => End(mem, ax) \in Heads
    BY <1>2, HeadFacts
  <1>4. Limit \in Nat /\ Start \in Nat /\ Start > 0
    BY <1>2, Facts
  <1>5. cx \in Segs
    <2>1. Top \in Nat /\ mem[ax].Size <= Top
      BY <1>3, Constants DEF Segs
    <2> QED
      BY <1>1, <1>2, <1>3, <2>1 DEF Segs
  <1> HIDE DEF si, bx
  <1>6. /\ bx \in Segs /\ bx \notin Heads /\ ax < bx /\ bx + 1 + cx = End(mem, ax) /\ bx < Limit
        /\ mem' \in [Segs -> Headers]
        /\ Chain(mem', Heads \cup {bx}, Limit)
        /\ \A x \in Segs :
             /\ mem'[x].State = IF x = bx THEN BUSY ELSE mem[x].State
             /\ x # ax => mem'[x].Size = IF x = bx THEN cx ELSE mem[x].Size
             /\ mem'[x].Next = IF x = bx THEN mem[ax].Next ELSE IF x = ax THEN bx ELSE mem[x].Next
    <2>1. /\ mem \in [Segs -> Headers] /\ Heads \in SUBSET Segs /\ Limit \in Segs
          /\ Chain(mem, Heads, Limit)
      BY <1>2, Facts
    <2>2. mem[ax].Size >= cx + 1 /\ ax \in Heads
      BY <1>1, <1>2
    <2>3. /\ bx \in Segs /\ bx \notin Heads /\ ax < bx /\ bx + 1 + cx = End(mem, ax) /\ bx < Limit
      <3>1. bx \in Segs /\ bx \notin Heads
        BY <1>5, <2>1, <2>2, SplitChain DEF si, bx
      <3>2. ax < bx /\ bx < Limit
        BY <1>5, <2>1, <2>2, SplitChain DEF si, bx
      <3>3. bx + 1 + cx = End(mem, ax)
        BY <1>2, <1>3 DEF End, si, bx
      <3> QED
        BY <3>1, <3>2, <3>3
    <2>4. /\ SplitAt(mem, ax, bx, si, cx) \in [Segs -> Headers]
          /\ Chain(SplitAt(mem, ax, bx, si, cx), Heads \cup {bx}, Limit)
      BY <1>5, <2>1, <2>2, SplitChain DEF si, bx
    <2>5. IsSplit(SplitAt(mem, ax, bx, si, cx), mem, ax, bx, si, cx)
      BY <1>5, <2>1, <2>2, SplitChain DEF si, bx
    <2>6. \A x \in Segs :
             /\ mem'[x].State = IF x = bx THEN BUSY ELSE mem[x].State
             /\ x # ax => mem'[x].Size = IF x = bx THEN cx ELSE mem[x].Size
             /\ mem'[x].Next = IF x = bx THEN mem[ax].Next ELSE IF x = ax THEN bx ELSE mem[x].Next
      BY <1>1, <2>5 DEF IsSplit
    <2> QED
      BY <1>1, <2>3, <2>4, <2>6
  <1>7. bx \in Nat /\ p \in Nat /\ p - 1 = bx /\ p + cx = End(mem, ax)
    <2>1. bx \in Nat
      BY <1>6, Numbers
    <2> QED
      BY <1>2, <1>6, <2>1
  <1>8. p \notin DOMAIN live
    <2> SUFFICES ASSUME p \in DOMAIN live PROVE FALSE
      OBVIOUS
    <2>1. p - 1 \in Heads
      BY LiveFacts
    <2> QED
      BY <1>6, <1>7, <2>1
  <1> HIDE DEF p
  <1>9. /\ Limit' = Limit
        /\ DOMAIN live' = DOMAIN live \cup {p}
        /\ live'[p] = cx /\ \A q \in DOMAIN live : live'[q] = live[q]
    BY <1>1, <1>8 DEF Limit
  <1>10. Heads' = Heads \cup {bx}
    <2>3. {q - 1 : q \in DOMAIN live'} = {q - 1 : q \in DOMAIN live} \cup {bx}
      BY <1>7, <1>9
    <2>4. {q + live'[q] : q \in DOMAIN live'} = {q + live[q] : q \in DOMAIN live} \cup {End(mem, ax)}
      BY <1>7, <1>9
    <2>5. End(mem, ax) \in Heads \cup {Limit} /\ MemStartSeg' # 0
      BY <1>1, <1>2, <1>3
    <2>6. Heads' = ({Start} \cup {q - 1 : q \in DOMAIN live'} \cup {q + live'[q] : q \in DOMAIN live'}) \ {Limit}
      BY <1>9, <2>5 DEF Heads
    <2>7. Heads = ({Start} \cup {q - 1 : q \in DOMAIN live} \cup {q + live[q] : q \in DOMAIN live}) \ {Limit}
      BY <1>2 DEF Heads
    <2> DEFINE A == {q - 1 : q \in DOMAIN live}
               B == {q + live[q] : q \in DOMAIN live}
    <2> HIDE DEF A, B
    <2>8. Heads' = ({Start} \cup A \cup {bx} \cup B \cup {End(mem, ax)}) \ {Limit}
      BY <2>3, <2>4, <2>6 DEF A, B
    <2>9. Heads = ({Start} \cup A \cup B) \ {Limit}
      BY <2>7 DEF A, B
    <2>10. bx # Limit
      BY <1>4, <1>6, <1>7
    <2> QED
      BY <2>5, <2>8, <2>9, <2>10
  <1>11. TypeOK'
    <2>1. DOMAIN live' \subseteq Start+1 .. Limit-1
      <3>1. p \in Start+1 .. Limit-1
        BY <1>2, <1>3, <1>4, <1>6, <1>7
      <3> QED
        BY <1>9, <3>1 DEF Inv, TypeOK
    <2>2. \A q \in DOMAIN live' : live'[q] \in 1 .. Limit - q
      <3>1. cx \in 1 .. Limit - p
        BY <1>2, <1>3, <1>4, <1>7
      <3> QED
        BY <1>9, <3>1 DEF Inv, TypeOK
    <2>3. cx' \in 0 .. 4095 /\ ax' \in Segs /\ freed' \subseteq Start+1 .. Limit'
      BY <1>1, Numbers
    <2>4. MemStartSeg' \in {0, Start} /\ total' \in Totals \cup {0}
      BY <1>1 DEF Inv, TypeOK
    <2> QED
      BY <1>6, <1>9, <2>1, <2>2, <2>3, <2>4 DEF TypeOK
  <1>12. BusyIsLive'
    <2> SUFFICES ASSUME NEW x \in Heads \cup {bx}
                 PROVE  /\ mem'[x].State \in {BUSY, FREE}
                        /\ mem'[x].State = BUSY <=> x + 1 \in DOMAIN live'
                        /\ x + 1 \in DOMAIN live' => mem'[x].Size = live'[x + 1]
      BY <1>10 DEF BusyIsLive
    <2>1. CASE x = bx
      <3>1. x + 1 = p
        BY <1>7, <2>1
      <3>2. mem'[x].Size = cx /\ mem'[x].State = BUSY
        <4>1. bx # ax
          BY <1>3, <1>6, <1>7
        <4> QED
          BY <1>6, <2>1, <4>1
      <3> QED
        BY <1>9, <3>1, <3>2
    <2>2. CASE x # bx
      <3>1. x \in Segs /\ x \in Nat /\ x \in Heads
        BY <2>2, HeadFacts
      <3>2. x + 1 # p
        BY <1>7, <2>2, <3>1
      <3>3. /\ mem[x].State \in {BUSY, FREE}
            /\ mem[x].State = BUSY <=> x + 1 \in DOMAIN live
            /\ x + 1 \in DOMAIN live => mem[x].Size = live[x + 1]
        BY <3>1 DEF Inv, BusyIsLive
      <3>4. mem'[x].State = mem[x].State
        BY <1>6, <2>2, <3>1
      <3>5. x # ax => mem'[x].Size = mem[x].Size
        BY <1>6, <2>2, <3>1
      <3>6. mem[ax].State = FREE
        BY <1>1 DEF Fits
      <3> QED
        BY <1>9, <3>2, <3>3, <3>4, <3>5, <3>6
    <2> QED
      BY <2>1, <2>2
  <1>13. NoFreeNeighbours'
    <2> SUFFICES ASSUME NEW x \in Heads \cup {bx}, mem'[x].State = FREE, mem'[x].Next # 0
                 PROVE  mem'[mem'[x].Next].State = BUSY
      BY <1>10 DEF NoFreeNeighbours
    <2>1. x \in Segs /\ x \in Heads /\ x # bx /\ mem[x].State = FREE
      <3>1. x \in Segs
        BY <1>6, HeadFacts
      <3> QED
        BY <1>6, <3>1
    <2>2. CASE x = ax
      BY <1>6, <2>1, <2>2
    <2>3. CASE x # ax
      <3>1. mem'[x].Next = mem[x].Next /\ mem[x].Next # 0
        BY <1>6, <2>1, <2>3
      <3>2. mem[mem[x].Next].State = BUSY
        BY <2>1, <3>1 DEF Inv, NoFreeNeighbours
      <3>3. mem[x].Next \in Segs
        BY <2>1, HeadFacts, Numbers
      <3> QED
        BY <1>6, <3>1, <3>2, <3>3
    <2> QED
      BY <2>2, <2>3
  <1>14. FreedAreFree'
    BY <1>1 DEF FreedAreFree
  <1>15. Chain(mem', Heads', Limit') /\ total' >= 2 /\ total' \in Totals
    BY <1>1, <1>2, <1>6, <1>9, <1>10 DEF Inv
  <1> QED
    BY <1>1, <1>2, <1>11, <1>12, <1>13, <1>14, <1>15 DEF Inv, Idle

\* A block given back is free, and nothing else changes its state.
LEMMA GivenBack ==
    ASSUME Inv, NEW p \in DOMAIN live
    PROVE  LET s == p - 1
               a == [mem EXCEPT ![s].State = FREE]
           IN  /\ a \in [Segs -> Headers]
               /\ Chain(a, Heads, Limit)
               /\ \A x \in Segs : /\ a[x].State = IF x = s THEN FREE ELSE mem[x].State
                                  /\ a[x].Size = mem[x].Size
                                  /\ a[x].Next = mem[x].Next
                                  /\ a[x].Prev = mem[x].Prev
  <1> DEFINE s == p - 1
             a == [mem EXCEPT ![s].State = FREE]
             h == [mem[s] EXCEPT !.State = FREE]
  <1>1. MemStartSeg # 0 /\ s \in Heads
    BY LiveFacts
  <1>2. /\ mem \in [Segs -> Headers] /\ Heads \in SUBSET Segs /\ Limit \in Segs
        /\ Chain(mem, Heads, Limit)
    BY <1>1, Facts
  <1>3. s \in Segs /\ mem[s] \in Headers /\ FREE \in Segs
    BY <1>1, <1>2, Numbers
  <1>4. h \in Headers /\ h.State = FREE /\ h.Size = mem[s].Size /\ h.Next = mem[s].Next /\ h.Prev = mem[s].Prev
    <2> HIDE DEF s
    <2> QED
      BY <1>3 DEF Headers
  <1>5. a = [mem EXCEPT ![s] = h]
    OBVIOUS
  <1> HIDE DEF a, h, s
  <1>6. a \in [Segs -> Headers] /\ \A x \in Segs : /\ a[x].State = IF x = s THEN FREE ELSE mem[x].State
                                                   /\ a[x].Size = mem[x].Size
                                                   /\ a[x].Next = mem[x].Next
                                                   /\ a[x].Prev = mem[x].Prev
    BY <1>2, <1>3, <1>4, <1>5
  <1>7. Chain(a, Heads, Limit)
    <2>1. \A x \in Segs : End(a, x) = End(mem, x)
      BY <1>6 DEF End
    <2>2. Start \in Segs /\ \A x \in Heads \ {Start} : mem[x].Prev \in Segs
      BY <1>2 DEF Chain, Back
    <2> QED
      BY <1>2, <1>6, <2>1, <2>2 DEF Chain, Sorted, Linked, Back, Covered
  <1> QED
    BY <1>6, <1>7 DEF a, s

\* What SYSTEM_Free leaves: the block s is free, and merged with the free
\* blocks t behind it and u before it.
Released(s, t, u, G) ==
    /\ s \in Heads /\ t = mem[s].Next
    /\ u = 0 <=> s = Start
    /\ u # 0 => u \in Heads /\ u < s /\ End(mem, u) = s
    /\ t # 0 => t \in Heads /\ s < t /\ t = End(mem, s)
    /\ G = {x \in Heads : /\ x = t => mem[t].State = BUSY
                          /\ x = s => u = 0 \/ mem[u].State = BUSY}
    /\ mem' \in [Segs -> Headers]
    /\ Chain(mem', G, Limit)
    /\ \A x \in Segs : mem'[x].State = IF x = s THEN FREE ELSE mem[x].State
    /\ \A x \in G :
         /\ x # s /\ mem[x].State = BUSY => mem'[x].Size = mem[x].Size
         /\ x # s /\ x # u => mem'[x].Next = mem[x].Next
         /\ x = s \/ (x = u /\ mem[u].State = FREE) =>
               mem'[x].Next = IF t # 0 /\ mem[t].State = FREE THEN mem[t].Next ELSE t
         /\ x = u /\ mem[u].State = BUSY => mem'[x].Next = mem[x].Next

\* SYSTEM_Free of a block in use marks it and merges both ways.
LEMMA FreeReleases ==
    ASSUME Inv, NEW p \in DOMAIN live, Free(p)
    PROVE  \E t, u, G : Released(p - 1, t, u, G)
  <1> DEFINE s == p - 1
             m1 == [mem EXCEPT ![s].State = FREE]
             m2 == MergeNext(m1, s)
             t == mem[s].Next
             u == m2[s].Prev
             G == {x \in Heads : /\ x = t => mem[t].State = BUSY
                                 /\ x = s => u = 0 \/ mem[u].State = BUSY}
             tm == t # 0 /\ mem[t].State = FREE
             um == u # 0 /\ mem[u].State = FREE
             H2 == IF tm THEN Heads \ {t} ELSE Heads
  <1>1. s \in Heads /\ mem[s].State = BUSY /\ MemStartSeg # 0
    BY LiveFacts
  <1>2. mem' = MergePrev(m2, s)
    BY <1>1 DEF Free
  <1>3. Heads \in SUBSET Segs /\ Limit \in Segs /\ s \in Segs /\ 0 \in Segs
    BY <1>1, Facts, Numbers
  <1>4. /\ m1 \in [Segs -> Headers]
        /\ Chain(m1, Heads, Limit)
        /\ \A x \in Segs : /\ m1[x].State = IF x = s THEN FREE ELSE mem[x].State
                           /\ m1[x].Size = mem[x].Size
                           /\ m1[x].Next = mem[x].Next
                           /\ m1[x].Prev = mem[x].Prev
    BY GivenBack
  <1> HIDE DEF s, m1, m2
  <1>5. \A x \in Heads : mem[x].State = BUSY <=> mem[x].State # FREE
    BY DEF Inv, BusyIsLive
  <1>6. t # 0 => t \in Heads /\ s < t /\ t = End(mem, s) /\ t # s
    <2>1. t # 0 => t \in Heads /\ s < t /\ t = End(mem, s) /\ s \in Nat /\ t \in Nat
      BY <1>1, HeadFacts
    <2> QED
      BY <2>1
  <1>7. m1[s].Next = t /\ (t # 0 => m1[t].State = mem[t].State)
    BY <1>3, <1>4, <1>6
  <1> HIDE DEF t
  <1>8. tm <=> m1[s].Next # 0 /\ m1[m1[s].Next].State = FREE
    BY <1>7
  <1>9. m2 \in [Segs -> Headers]
    BY <1>1, <1>3, <1>4, MergeNextChain DEF m2
  <1>10. Chain(m2, H2, Limit)
    <2>1. Chain(m2, IF m1[s].Next # 0 /\ m1[m1[s].Next].State = FREE
                    THEN Heads \ {m1[s].Next} ELSE Heads, Limit)
      BY <1>1, <1>3, <1>4, MergeNextChain DEF m2
    <2> QED
      BY <1>7, <1>8, <2>1
  <1>11. \A x \in Segs :
            /\ m2[x].State = m1[x].State
            /\ x # s => m2[x].Size = m1[x].Size
            /\ m2[x].Next = IF x = s /\ tm THEN m1[t].Next ELSE m1[x].Next
    <2> SUFFICES ASSUME NEW x \in Segs
                 PROVE  /\ m2[x].State = m1[x].State
                        /\ x # s => m2[x].Size = m1[x].Size
                        /\ m2[x].Next = IF x = s /\ tm THEN m1[t].Next ELSE m1[x].Next
      OBVIOUS
    <2>1. NextMerged(m2, m1, s)
      BY <1>1, <1>3, <1>4, MergeNextChain DEF m2
    <2>2. m2[x].State = m1[x].State /\ (x # s => m2[x].Size = m1[x].Size)
      BY <2>1 DEF NextMerged
    <2>3. m2[x].Next = IF x = s /\ m1[s].Next # 0 /\ m1[m1[s].Next].State = FREE
                       THEN m1[m1[s].Next].Next ELSE m1[x].Next
      BY <2>1 DEF NextMerged
    <2> QED
      BY <1>7, <1>8, <2>2, <2>3
  <1>12. H2 \in SUBSET Segs /\ s \in H2
    BY <1>1, <1>3, <1>6
  <1> HIDE DEF H2
  <1>13. IsBefore(m2, H2, s, u)
    BY <1>3, <1>9, <1>10, <1>12, MergePrevChain
  <1>14. (u = 0 <=> s = Start) /\ (u # 0 => u \in H2 /\ u < s /\ End(m2, u) = s)
    BY <1>13 DEF IsBefore
  <1>15. mem' \in [Segs -> Headers]
    BY <1>2, <1>3, <1>9, <1>10, <1>12, MergePrevChain
  <1>16. Chain(mem', IF m2[s].Prev # 0 /\ m2[m2[s].Prev].State = FREE THEN H2 \ {s} ELSE H2, Limit)
    BY <1>2, <1>3, <1>9, <1>10, <1>12, MergePrevChain
  <1>17. \A x \in Segs :
            /\ mem'[x].State = m2[x].State
            /\ ~(x = u /\ u # 0 /\ m2[u].State = FREE) => mem'[x].Size = m2[x].Size
            /\ mem'[x].Next = IF x = u /\ u # 0 /\ m2[u].State = FREE THEN m2[s].Next ELSE m2[x].Next
    <2>1. PrevMerged(mem', m2, s)
      BY <1>2, <1>3, <1>9, <1>10, <1>12, MergePrevChain
    <2> QED
      BY <2>1 DEF PrevMerged
  <1> HIDE DEF u
  <1>18. u # 0 => u \in Heads /\ u # s /\ u \in Segs
    <2>1. u # 0 => u \in Heads /\ u < s
      BY <1>14 DEF H2
    <2>2. s \in Nat /\ (u # 0 => u \in Segs /\ u \in Nat)
      BY <1>3, <2>1, Numbers
    <2> QED
      BY <2>1, <2>2
  <1>19. u # 0 => End(mem, u) = s /\ m2[u].State = mem[u].State /\ u # t
    <2>1. u # 0 => m2[u].Size = mem[u].Size /\ m2[u].State = mem[u].State
      BY <1>3, <1>4, <1>11, <1>18
    <2>2. u # 0 => u # t
      <3>1. s \in Nat /\ (t # 0 => t \in Nat) /\ (u # 0 => u \in Nat)
        BY <1>3, <1>6, <1>18, Numbers
      <3>2. (t # 0 => s < t) /\ (u # 0 => u < s)
        BY <1>6, <1>14
      <3> QED
        BY <3>1, <3>2
    <2> QED
      BY <1>14, <2>1, <2>2 DEF End
  <1>20. G = IF um THEN H2 \ {s} ELSE H2
    <2>1. t # 0 /\ mem[t].State # FREE => mem[t].State = BUSY
      BY <1>5, <1>6
    <2>2. u # 0 /\ mem[u].State # FREE => mem[u].State = BUSY
      BY <1>5, <1>18
    <2>3. 0 \notin Heads
      BY HeadFacts
    <2>4. \A x \in Heads : x \in G <=> x \in (IF um THEN H2 \ {s} ELSE H2)
      BY <1>6, <2>1, <2>2, <2>3 DEF H2
    <2> QED
      BY <2>4 DEF H2
  <1>21. Chain(mem', G, Limit)
    BY <1>16, <1>19, <1>20 DEF u
  <1>22. ASSUME NEW x \in G
         PROVE  /\ x # s /\ mem[x].State = BUSY => mem'[x].Size = mem[x].Size
                /\ x # s /\ x # u => mem'[x].Next = mem[x].Next
                /\ x = s \/ (x = u /\ mem[u].State = FREE) =>
                      mem'[x].Next = IF t # 0 /\ mem[t].State = FREE THEN mem[t].Next ELSE t
                /\ x = u /\ mem[u].State = BUSY => mem'[x].Next = mem[x].Next
    <2>1. x \in Segs /\ x \in Heads /\ x # 0
      <3>1. x \in Heads
        OBVIOUS
      <3> QED
        BY <3>1, HeadFacts
    <2>3. x # s /\ mem[x].State = BUSY => mem'[x].Size = mem[x].Size
      BY <1>4, <1>11, <1>17, <1>19, <2>1
    <2>4. m2[s].Next = IF t # 0 /\ mem[t].State = FREE THEN mem[t].Next ELSE t
      BY <1>3, <1>4, <1>6, <1>7, <1>11
    <2>5. x # s => m2[x].Next = mem[x].Next
      BY <1>4, <1>11, <2>1
    <2>6. mem'[x].Next = IF x = u /\ mem[u].State = FREE THEN m2[s].Next ELSE m2[x].Next
      BY <1>17, <1>19, <2>1
    <2>7. x = s => x # u
      BY <1>18, <2>1
    <2> HIDE DEF G
    <2> QED
      BY <2>3, <2>4, <2>5, <2>6, <2>7
  <1>23. \A x \in Segs : mem'[x].State = IF x = s THEN FREE ELSE mem[x].State
    BY <1>4, <1>11, <1>17
  <1>24. Released(s, t, u, G)
    <2>1. u # 0 => u \in Heads /\ u < s /\ End(mem, u) = s
      BY <1>14, <1>18, <1>19
    <2>2. t # 0 => t \in Heads /\ s < t /\ t = End(mem, s)
      BY <1>6
    <2>3. t = mem[s].Next
      BY DEF t
    <2>4. G = {x \in Heads : /\ x = t => mem[t].State = BUSY
                             /\ x = s => u = 0 \/ mem[u].State = BUSY}
      OBVIOUS
    <2> HIDE DEF G
    <2> QED
      BY <1>1, <1>14, <1>15, <1>21, <1>22, <1>23, <2>1, <2>2, <2>3, <2>4 DEF Released
  <1> QED
    BY <1>24 DEF s

\* The headers of the list after SYSTEM_Free.
LEMMA ReleasedHeads ==
    ASSUME Inv, NEW p \in DOMAIN live, NEW t, NEW u, NEW G, Released(p - 1, t, u, G),
           live' = [q \in DOMAIN live \ {p} |-> live[q]],
           total' = total, MemStartSeg' = MemStartSeg
    PROVE  Heads' = G
  <1> DEFINE s == p - 1
  <1>1. /\ MemStartSeg # 0 /\ p \in Nat /\ s \in Heads /\ End(mem, s) = p + live[p]
        /\ s + 1 = p /\ s \in Nat
    <2>1. MemStartSeg # 0 /\ p \in Nat /\ s \in Heads /\ End(mem, s) = p + live[p]
      BY LiveFacts
    <2>2. s + 1 = p /\ s \in Nat
      BY <2>1, HeadFacts
    <2> QED
      BY <2>1, <2>2
  <1> HIDE DEF s
  <1>2. /\ s \in Heads /\ t = mem[s].Next
        /\ u = 0 <=> s = Start
        /\ u # 0 => u \in Heads /\ u < s /\ End(mem, u) = s
        /\ t # 0 => t \in Heads /\ s < t /\ t = End(mem, s)
        /\ G = {x \in Heads : /\ x = t => mem[t].State = BUSY
                              /\ x = s => u = 0 \/ mem[u].State = BUSY}
    BY DEF Released, s
  <1>3. DOMAIN live' = DOMAIN live \ {p} /\ \A q \in DOMAIN live \ {p} : live'[q] = live[q]
    OBVIOUS
  <1>4. \A x : x \in Heads <=> /\ x # Limit
                               /\ \/ x = Start
                                  \/ \E q \in DOMAIN live : x = q - 1
                                  \/ \E q \in DOMAIN live : x = q + live[q]
    BY <1>1 DEF Heads
  <1>5. \A x : x \in Heads' <=> /\ x # Limit
                                /\ \/ x = Start
                                   \/ \E q \in DOMAIN live \ {p} : x = q - 1
                                   \/ \E q \in DOMAIN live \ {p} : x = q + live[q]
    <2>1. Limit' = Limit /\ MemStartSeg' # 0
      BY <1>1 DEF Limit
    <2>2. Heads' = ({Start} \cup {q - 1 : q \in DOMAIN live'} \cup {q + live'[q] : q \in DOMAIN live'}) \ {Limit}
      BY <2>1 DEF Heads
    <2> QED
      BY <1>3, <2>2
  <1>6. \A q \in DOMAIN live : /\ q \in Nat /\ q - 1 \in Heads /\ mem[q - 1].State = BUSY
                               /\ End(mem, q - 1) = q + live[q]
    BY LiveFacts
  <1>7. \A x, y \in Heads : End(mem, x) = End(mem, y) => x = y
    BY <1>1, Facts, EndsDiffer
  <1>8. Start \in Nat /\ \A x \in Heads : x \in Nat /\ Start <= x
    BY <1>1, Facts, HeadFacts
  <1>9. ASSUME NEW x \in Heads' PROVE x \in G
    <2>1. x \in Heads
      BY <1>4, <1>5
    <2>2. ASSUME x = t PROVE mem[t].State = BUSY
      <3>1. t # 0 /\ s < t /\ t = End(mem, s)
        BY <1>2, <2>1, <2>2, HeadFacts
      <3>2. t # Start
        BY <1>1, <1>2, <1>8, <3>1
      <3>3. ASSUME NEW q \in DOMAIN live \ {p}, t = q + live[q] PROVE FALSE
        <4>1. q - 1 = s
          BY <1>2, <1>6, <1>7, <3>1, <3>3
        <4> QED
          BY <1>1, <1>6, <4>1
      <3>4. PICK q \in DOMAIN live \ {p} : t = q - 1
        BY <1>5, <2>2, <3>2, <3>3
      <3> QED
        BY <1>6, <3>4
    <2>3. ASSUME x = s PROVE u = 0 \/ mem[u].State = BUSY
      <3>1. CASE s = Start
        BY <1>2, <3>1
      <3>2. CASE s # Start
        <4>1. u \in Heads /\ End(mem, u) = s
          BY <1>2, <3>2
        <4>2. ASSUME NEW q \in DOMAIN live \ {p}, s = q - 1 PROVE FALSE
          BY <1>1, <1>6, <4>2
        <4>3. PICK q \in DOMAIN live \ {p} : s = q + live[q]
          BY <1>5, <2>3, <3>2, <4>2
        <4>4. u = q - 1
          BY <1>6, <1>7, <4>1, <4>3
        <4> QED
          BY <1>6, <4>4
      <3> QED
        BY <3>1, <3>2
    <2> QED
      BY <1>2, <2>1, <2>2, <2>3
  <1>10. ASSUME NEW x \in G PROVE x \in Heads'
    <2>1. /\ x \in Heads
          /\ x = t => mem[t].State = BUSY
          /\ x = s => u = 0 \/ mem[u].State = BUSY
      BY <1>2
    <2>2. \A y \in Heads : mem[y].State = BUSY => /\ y + 1 \in DOMAIN live /\ mem[y].Size = live[y + 1]
      BY DEF Inv, BusyIsLive
    <2>3. CASE x = Start
      BY <1>4, <1>5, <2>1, <2>3
    <2>4. ASSUME NEW q \in DOMAIN live, x = q - 1 PROVE x \in Heads'
      <3>1. CASE q # p
        BY <1>4, <1>5, <2>1, <2>4, <3>1
      <3>2. CASE q = p /\ u # 0
        <4>1. x = s
          BY <2>4, <3>2 DEF s
        <4>2. u \in Heads /\ u < s /\ End(mem, u) = s /\ mem[u].State = BUSY
          BY <1>2, <2>1, <3>2, <4>1
        <4>3. u + 1 \in DOMAIN live /\ mem[u].Size = live[u + 1]
          BY <2>2, <4>2
        <4>4. u + 1 # p /\ s = (u + 1) + live[u + 1]
          BY <1>1, <1>8, <4>2, <4>3 DEF End
        <4> QED
          BY <1>4, <1>5, <2>1, <4>1, <4>3, <4>4
      <3>3. CASE q = p /\ u = 0
        <4>1. x = s /\ s = Start
          BY <1>2, <2>4, <3>3 DEF s
        <4> QED
          BY <1>4, <1>5, <2>1, <4>1
      <3> QED
        BY <3>1, <3>2, <3>3
    <2>5. ASSUME NEW q \in DOMAIN live, x = q + live[q] PROVE x \in Heads'
      <3>1. CASE q # p
        BY <1>4, <1>5, <2>1, <2>5, <3>1
      <3>2. CASE q = p
        <4>1. x = End(mem, s) /\ x # Limit
          BY <1>1, <1>4, <2>1, <2>5, <3>2
        <4>2. t = x /\ s < x
          BY <1>2, <4>1, HeadFacts
        <4>3. x + 1 \in DOMAIN live
          BY <2>1, <2>2, <4>2
        <4>4. x + 1 # p /\ x = (x + 1) - 1
          BY <1>1, <1>8, <2>1, <4>2
        <4> QED
          BY <1>4, <1>5, <2>1, <4>3, <4>4
      <3> QED
        BY <3>1, <3>2
    <2> QED
      BY <1>4, <2>1, <2>3, <2>4, <2>5
  <1> QED
    BY <1>9, <1>10

\* SYSTEM_Free.
LEMMA FreeInv == ASSUME Inv, NEW p \in DOMAIN live \cup freed, Free(p) PROVE Inv'
  <1> DEFINE s == p - 1
  <1>1. CASE mem[s].State = FREE
    <2>1. UNCHANGED vars
      BY <1>1 DEF Free, vars
    <2>2. Heads' = Heads /\ Limit' = Limit /\ TypeOK'
      BY <2>1 DEF vars, Heads, Limit, Inv, TypeOK
    <2>3. BusyIsLive' /\ NoFreeNeighbours' /\ FreedAreFree' /\ (~Idle' => Passed')
      BY <2>1, <2>2 DEF vars, Inv, BusyIsLive, NoFreeNeighbours, FreedAreFree, Inside, Passed, Fits, Idle
    <2> QED
      BY <2>1, <2>2, <2>3 DEF vars, Inv, NoHeap, Idle
  <1>2. CASE mem[s].State # FREE
    <2>1. /\ live' = [q \in DOMAIN live \ {p} |-> live[q]]
          /\ freed' = freed \cup {p}
          /\ total' = total /\ MemStartSeg' = MemStartSeg /\ cx' = cx /\ ax' = ax /\ Idle
      BY <1>2 DEF Free
    <2>2. p \in DOMAIN live
      BY <1>2 DEF Inv, FreedAreFree
    <2>3. PICK t, u, G : Released(s, t, u, G)
      BY <2>2, FreeReleases
    <2>4. Heads' = G /\ Limit' = Limit
      BY <2>1, <2>2, <2>3, ReleasedHeads DEF Limit
    <2>5. /\ MemStartSeg # 0 /\ p \in Nat /\ Start < p /\ live[p] \in Nat /\ live[p] > 0
          /\ s \in Heads /\ mem[s].State = BUSY /\ p + live[p] <= Limit /\ s + 1 = p
      BY <2>2, LiveFacts
    <2>6. Limit \in Nat /\ Start \in Nat /\ s \in Segs /\ s \in Nat
      BY <2>5, Facts, HeadFacts
    <2> HIDE DEF s
    <2>7. /\ t = mem[s].Next
          /\ u = 0 <=> s = Start
          /\ u # 0 => u \in Heads /\ u < s /\ End(mem, u) = s
          /\ t # 0 => t \in Heads /\ s < t /\ t = End(mem, s)
          /\ G = {x \in Heads : /\ x = t => mem[t].State = BUSY
                                /\ x = s => u = 0 \/ mem[u].State = BUSY}
          /\ mem' \in [Segs -> Headers]
          /\ Chain(mem', G, Limit)
          /\ \A x \in Segs : mem'[x].State = IF x = s THEN FREE ELSE mem[x].State
      BY <2>3 DEF Released
    <2>8. \A x \in G :
             /\ x \in Heads /\ x \in Segs
             /\ mem'[x].State = IF x = s THEN FREE ELSE mem[x].State
             /\ x # s /\ mem[x].State = BUSY => mem'[x].Size = mem[x].Size
             /\ x # s /\ x # u => mem'[x].Next = mem[x].Next
             /\ x = s \/ (x = u /\ mem[u].State = FREE) =>
                   mem'[x].Next = IF t # 0 /\ mem[t].State = FREE THEN mem[t].Next ELSE t
             /\ x = u /\ mem[u].State = BUSY => mem'[x].Next = mem[x].Next
      <3>1. G \subseteq Heads /\ Heads \subseteq Segs
        BY <2>5, <2>7, Facts
      <3> QED
        BY <2>3, <2>7, <3>1 DEF Released
    <2>9. DOMAIN live' = DOMAIN live \ {p} /\ \A q \in DOMAIN live \ {p} : live'[q] = live[q]
      BY <2>1
    <2>10. \A x \in Heads : /\ mem[x].State \in {BUSY, FREE}
                            /\ mem[x].State = BUSY <=> x + 1 \in DOMAIN live
                            /\ x + 1 \in DOMAIN live => mem[x].Size = live[x + 1]
      BY DEF Inv, BusyIsLive
    <2>11. TypeOK'
      <3>1. p \in Start+1 .. Limit
        BY <2>5, <2>6
      <3>2. freed' \subseteq Start+1 .. Limit'
        BY <2>1, <2>4, <3>1 DEF Inv, TypeOK
      <3>3. DOMAIN live' \subseteq Start+1 .. Limit'-1 /\ \A q \in DOMAIN live' : live'[q] \in 1 .. Limit' - q
        BY <2>4, <2>9 DEF Inv, TypeOK
      <3>4. /\ MemStartSeg' \in {0, Start} /\ total' \in Totals \cup {0}
            /\ cx' \in 0 .. 4095 /\ ax' \in Segs
        BY <2>1 DEF Inv, TypeOK
      <3> QED
        BY <2>7, <3>2, <3>3, <3>4 DEF TypeOK
    <2>12. BusyIsLive'
      <3> SUFFICES ASSUME NEW x \in G
                   PROVE  /\ mem'[x].State \in {BUSY, FREE}
                          /\ mem'[x].State = BUSY <=> x + 1 \in DOMAIN live'
                          /\ x + 1 \in DOMAIN live' => mem'[x].Size = live'[x + 1]
        BY <2>4 DEF BusyIsLive
      <3>1. x \in Heads /\ x \in Nat
        BY <2>8, HeadFacts
      <3>2. x = s <=> x + 1 = p
        BY <2>5, <2>6, <3>1
      <3> QED
        BY <2>8, <2>9, <2>10, <3>1, <3>2
    <2>13. \A y \in Heads : y # s /\ mem[y].State = BUSY => mem'[y].State = BUSY
      <3>1. Heads \subseteq Segs
        BY <2>5, Facts
      <3> QED
        BY <2>7, <3>1
    <2>14. NoFreeNeighbours'
      <3> SUFFICES ASSUME NEW x \in G, mem'[x].State = FREE, mem'[x].Next # 0
                   PROVE  mem'[mem'[x].Next].State = BUSY
        BY <2>4 DEF NoFreeNeighbours
      <3>1. x \in Heads
        BY <2>8
      <3>2. \A y \in Heads : mem[y].State = FREE /\ mem[y].Next # 0 => mem[mem[y].Next].State = BUSY
        BY DEF Inv, NoFreeNeighbours
      <3>3. \A y \in Heads : mem[y].Next # 0 => /\ mem[y].Next \in Heads /\ y < mem[y].Next
                                               /\ mem[y].Next = End(mem, y) /\ y \in Nat /\ mem[y].Next \in Nat
        BY HeadFacts
      <3>4. CASE x = s \/ (x = u /\ mem[u].State = FREE)
        <4>1. CASE t # 0 /\ mem[t].State = FREE
          <5> DEFINE n == mem[t].Next
          <5>1. mem'[x].Next = n /\ n # 0
            BY <2>8, <3>4, <4>1
          <5>2. t \in Heads /\ s < t /\ t < n /\ t \in Nat /\ n \in Nat /\ n \in Heads
            BY <2>7, <3>3, <4>1, <5>1
          <5>3. mem[n].State = BUSY /\ n # s
            BY <2>6, <3>2, <4>1, <5>1, <5>2
          <5> QED
            BY <2>13, <5>1, <5>2, <5>3
        <4>2. CASE ~(t # 0 /\ mem[t].State = FREE)
          <5>1. mem'[x].Next = t /\ t # 0
            BY <2>8, <3>4, <4>2
          <5>2. t \in Heads /\ s < t
            BY <2>7, <5>1
          <5>3. t \in Nat
            BY <5>2, HeadFacts
          <5>4. mem[t].State = BUSY /\ t # s
            BY <2>6, <2>10, <4>2, <5>1, <5>2, <5>3
          <5> QED
            BY <2>13, <5>1, <5>2, <5>4
        <4> QED
          BY <4>1, <4>2
      <3>5. CASE x # s /\ ~(x = u /\ mem[u].State = FREE)
        <4>1. mem[x].State = FREE
          BY <2>8, <3>5
        <4>2. x # u
          BY <3>5, <4>1
        <4>3. mem'[x].Next = mem[x].Next
          BY <2>8, <3>5, <4>2
        <4> DEFINE y == mem[x].Next
        <4>4. y \in Heads /\ y = End(mem, x) /\ x < y /\ mem[y].State = BUSY /\ y # 0
          BY <3>1, <3>2, <3>3, <4>1, <4>3
        <4>5. y # s
          <5> SUFFICES ASSUME y = s PROVE FALSE
            OBVIOUS
          <5>1. s # Start
            <6>1. Start <= x /\ x \in Nat
              BY <3>1, HeadFacts
            <6> QED
              BY <2>6, <4>4, <6>1
          <5>2. u \in Heads /\ End(mem, u) = s
            BY <2>7, <5>1
          <5>3. x = u
            BY <2>5, <3>1, <4>4, <5>2, Facts, EndsDiffer
          <5> QED
            BY <4>2, <5>3
        <4> QED
          BY <2>13, <4>3, <4>4, <4>5
      <3> QED
        BY <3>4, <3>5
    <2>15. FreedAreFree'
      <3> SUFFICES ASSUME NEW q \in freed'
                   PROVE  /\ mem'[q - 1].State = FREE
                          /\ q \notin DOMAIN live'
                          /\ \A r \in DOMAIN live' : ~(r <= q - 1 /\ q - 1 < r + live'[r])
        BY DEF FreedAreFree, Inside
      <3>1. CASE q = p
        <4>1. mem'[s].State = FREE
          BY <2>6, <2>7
        <4>2. ASSUME NEW r \in DOMAIN live \ {p}, r <= s, s < r + live[r] PROVE FALSE
          <5>1. r - 1 \in Heads /\ r \in Nat /\ End(mem, r - 1) = r + live[r]
            BY LiveFacts
          <5>2. End(mem, r - 1) <= s
            <6>1. r - 1 < s
              BY <2>6, <4>2, <5>1
            <6> QED
              BY <2>5, <5>1, <6>1, Facts DEF Chain, Sorted
          <5>3. End(mem, r - 1) \in Nat
            BY <5>1, HeadFacts
          <5> QED
            BY <2>6, <4>2, <5>1, <5>2, <5>3
        <4> QED
          BY <2>9, <3>1, <4>1, <4>2 DEF s
      <3>2. CASE q # p
        <4>1. /\ q \in freed /\ mem[q - 1].State = FREE /\ q \notin DOMAIN live
              /\ \A r \in DOMAIN live : ~(r <= q - 1 /\ q - 1 < r + live[r])
          BY <2>1, <3>2 DEF Inv, FreedAreFree, Inside
        <4>2. mem'[q - 1].State = FREE
          <5>1. q \in Start+1 .. Limit
            BY <4>1 DEF Inv, TypeOK
          <5>2. Limit <= Top /\ Top \in Nat
            <6>1. Limit \in Segs
              BY <2>5, Facts
            <6> QED
              BY <6>1, Constants DEF Segs
          <5>3. q - 1 \in Segs
            BY <2>6, <5>1, <5>2 DEF Segs
          <5> QED
            BY <2>7, <4>1, <5>3
        <4> QED
          BY <2>9, <4>1, <4>2
      <3> QED
        BY <3>1, <3>2
    <2>16. Chain(mem', Heads', Limit') /\ total' >= 2 /\ total' \in Totals
      BY <2>1, <2>4, <2>5, <2>7 DEF Inv
    <2> QED
      BY <2>1, <2>5, <2>11, <2>12, <2>14, <2>15, <2>16 DEF Inv, Idle
  <1> QED
    BY <1>1, <1>2

\* What the program writes into its block reaches no header.
LEMMA UseInv == ASSUME Inv, NEW p \in DOMAIN live, Use(p) PROVE Inv'
  <1>1. /\ mem' = [x \in Segs |-> IF p <= x /\ x < p + live[p] THEN Garbage ELSE mem[x]]
        /\ total' = total /\ MemStartSeg' = MemStartSeg /\ live' = live /\ freed' = freed
        /\ cx' = cx /\ ax' = ax /\ Idle
    BY DEF Use
  <1>2. Heads' = Heads /\ Limit' = Limit
    BY <1>1 DEF Heads, Limit
  <1>3. /\ MemStartSeg # 0 /\ p \in Nat /\ live[p] \in Nat
        /\ p - 1 \in Heads /\ End(mem, p - 1) = p + live[p]
    BY LiveFacts
  <1>4. mem' \in [Segs -> Headers]
    <2>1. mem \in [Segs -> Headers] /\ Garbage \in Headers
      BY Constants DEF Inv, TypeOK
    <2> QED
      BY <1>1, <2>1
  <1>5. \A x \in Heads : mem'[x] = mem[x]
    <2> SUFFICES ASSUME NEW x \in Heads PROVE mem'[x] = mem[x]
      OBVIOUS
    <2>1. x \in Segs /\ x \in Nat
      BY HeadFacts
    <2>2. ASSUME p <= x PROVE ~(x < p + live[p])
      <3>1. p - 1 < x
        BY <1>3, <2>1, <2>2
      <3>2. End(mem, p - 1) <= x
        BY <1>3, <3>1, Facts DEF Chain, Sorted
      <3> QED
        BY <1>3, <2>1, <3>2
    <2> QED
      BY <1>1, <2>1, <2>2
  <1>6. Chain(mem', Heads, Limit)
    <2>1. \A x \in Heads : End(mem', x) = End(mem, x)
      BY <1>5 DEF End
    <2>2. Chain(mem, Heads, Limit)
      BY <1>3, Facts
    <2>3. Start \in Heads /\ Heads \subseteq Start .. Limit-1
      BY <2>2 DEF Chain
    <2>4. Sorted(mem', Heads) /\ Linked(mem', Heads, Limit)
      BY <1>5, <2>1, <2>2 DEF Chain, Sorted, Linked
    <2>5. Back(mem', Heads)
      BY <1>5, <2>1, <2>2, <2>3 DEF Chain, Back
    <2>6. Covered(mem', Heads, Limit)
      BY <2>1, <2>2 DEF Chain, Covered
    <2> QED
      BY <2>3, <2>4, <2>5, <2>6 DEF Chain
  <1>7. TypeOK'
    BY <1>1, <1>2, <1>4 DEF Inv, TypeOK
  <1>8. BusyIsLive'
    BY <1>1, <1>2, <1>5 DEF Inv, BusyIsLive
  <1>9. NoFreeNeighbours'
    <2> SUFFICES ASSUME NEW x \in Heads, mem[x].State = FREE, mem[x].Next # 0
                 PROVE  mem'[mem[x].Next].State = BUSY
      BY <1>2, <1>5 DEF NoFreeNeighbours
    <2>1. mem[x].Next \in Heads
      BY HeadFacts
    <2>2. mem[mem[x].Next].State = BUSY
      BY DEF Inv, NoFreeNeighbours
    <2> QED
      BY <1>5, <2>1, <2>2
  <1>10. FreedAreFree'
    <2> SUFFICES ASSUME NEW q \in freed PROVE mem'[q - 1].State = FREE
      BY <1>1 DEF Inv, FreedAreFree, Inside
    <2>1. mem[q - 1].State = FREE /\ ~(p <= q - 1 /\ q - 1 < p + live[p])
      BY DEF Inv, FreedAreFree, Inside
    <2>2. q - 1 \in Segs
      <3>1. q \in Start+1 .. Limit
        BY DEF Inv, TypeOK
      <3>2. Limit \in Nat /\ Start \in Nat /\ Limit <= Top /\ Top \in Nat
        <4>1. Limit \in Segs /\ Limit \in Nat /\ Start \in Nat
          BY <1>3, Facts
        <4> QED
          BY <4>1, Constants DEF Segs
      <3> QED
        BY <3>1, <3>2 DEF Segs
    <2> QED
      BY <1>1, <2>1, <2>2
  <1>11. total' >= 2 /\ total' \in Totals
    BY <1>1, <1>3 DEF Inv
  <1> QED
    BY <1>1, <1>2, <1>3, <1>6, <1>7, <1>8, <1>9, <1>10, <1>11 DEF Inv, Idle

\* A step that changes nothing.
LEMMA StutterInv == ASSUME Inv, UNCHANGED vars PROVE Inv'
  <1>1. Heads' = Heads /\ Limit' = Limit
    BY DEF vars, Heads, Limit
  <1>2. TypeOK' /\ BusyIsLive' /\ NoFreeNeighbours' /\ FreedAreFree'
    BY <1>1 DEF vars, Inv, TypeOK, BusyIsLive, NoFreeNeighbours, FreedAreFree, Inside
  <1>3. Passed' = Passed /\ Idle' = Idle /\ NoHeap' = NoHeap
    BY <1>1 DEF vars, Passed, Fits, Idle, NoHeap
  <1> QED
    BY <1>1, <1>2, <1>3 DEF vars, Inv

-----------------------------------------------------------------------------
\* Every call of NEW and DISPOSE keeps the list, its two chains and what they
\* say of the blocks in use in agreement.
THEOREM Invariance == Spec => []Inv
  <1>1. Init => Inv
    BY InitInv
  <1>2. Inv /\ [Next]_vars => Inv'
    <2> SUFFICES ASSUME Inv, [Next]_vars PROVE Inv'
      OBVIOUS
    <2>1. CASE \E size \in Totals : Boot(size)
      BY <2>1, BootInv
    <2>2. CASE \E n \in Sizes : Alloc(n)
      BY <2>2, AllocInv
    <2>3. CASE \E n \in Sizes : AllocNothing(n)
      BY <2>3, StutterInv DEF AllocNothing
    <2>4. CASE Scan \/ TakeWhole \/ Split \/ Fail
      BY <2>4, ScanInv, TakeWholeInv, SplitInv, FailInv
    <2>5. CASE \E p \in DOMAIN live \cup freed : Free(p)
      BY <2>5, FreeInv
    <2>6. CASE \E p \in DOMAIN live : Use(p)
      BY <2>6, UseInv
    <2>7. CASE UNCHANGED vars
      BY <2>7, StutterInv
    <2> QED
      BY <2>1, <2>2, <2>3, <2>4, <2>5, <2>6, <2>7 DEF Next
  <1> QED
    BY <1>1, <1>2, PTL DEF Spec

\* The registers and header fields of SYSTEM_Alloc and SYSTEM_Free stay
\* segments, and blocks in use lie in the heap.
THEOREM TypeCorrect == Spec => []TypeOK
  <1>1. Inv => TypeOK
    BY DEF Inv
  <1> QED
    BY <1>1, Invariance, PTL

\* The blocks cover the heap without gap or overlap, and the two chains run
\* through the same headers.
THEOREM ListAlwaysTiles == Spec => []ListTilesHeap
  <1> QED
    BY InvTiles, Invariance, PTL

\* The busy blocks are those the program holds, at the size it asked for.
THEOREM BusyAlwaysLive == Spec => []BusyIsLive
  <1>1. Inv => BusyIsLive
    BY DEF Inv
  <1> QED
    BY <1>1, Invariance, PTL

\* SYSTEM_Free leaves no two free blocks side by side.
THEOREM NeighboursMerged == Spec => []NoFreeNeighbours
  <1>1. Inv => NoFreeNeighbours
    BY DEF Inv
  <1> QED
    BY <1>1, Invariance, PTL

-----------------------------------------------------------------------------
\* A block of cx paragraphs within the free block ax is unused.
LEMMA FreeBlockUnused ==
    ASSUME Inv, NEW p \in Nat, ax \in Heads, mem[ax].State = FREE, cx \in Nat,
           ax <= p - 1, p + cx <= End(mem, ax)
    PROVE  p \in Start+1 .. Start+total /\ HS!Unused(p, cx)
  <1>1. /\ MemStartSeg # 0 /\ ax \in Nat /\ Start <= ax
        /\ End(mem, ax) \in Nat /\ End(mem, ax) <= Limit
    BY HeadFacts
  <1>2. Start \in Nat /\ Limit \in Nat /\ total \in Nat /\ Limit = Start + total
    BY <1>1, Facts DEF Limit
  <1>3. p \in Start+1 .. Start+total
    BY <1>1, <1>2
  <1>4. HS!Extent(p, cx) \subseteq Start .. Start+total-1
    BY <1>1, <1>2 DEF HS!Extent
  <1>5. ASSUME NEW q \in DOMAIN live PROVE HS!Extent(p, cx) \cap HS!Extent(q, live[q]) = {}
    <2>1. /\ q \in Nat /\ live[q] \in Nat /\ q - 1 \in Heads /\ mem[q - 1].State = BUSY
          /\ End(mem, q - 1) = q + live[q]
      BY LiveFacts
    <2>2. q - 1 # ax
      BY <2>1
    <2>3. q - 1 < ax => q + live[q] <= ax
      BY <1>1, <2>1, Facts DEF Chain, Sorted
    <2>4. ax < q - 1 => End(mem, ax) <= q - 1
      BY <1>1, <2>1, Facts DEF Chain, Sorted
    <2>5. q + live[q] <= p - 1 \/ p + cx <= q - 1
      BY <1>1, <2>1, <2>2, <2>3, <2>4
    <2> QED
      BY <2>1, <2>5 DEF HS!Extent
  <1> QED
    BY <1>3, <1>4, <1>5 DEF HS!Unused, HS!Blocks

\* When the walk has passed every header, no run of unused paragraphs would do.
LEMMA NothingFits ==
    ASSUME Inv, ~Idle, ax = 0, NEW p \in Start+1 .. Start+total, HS!Unused(p, cx)
    PROVE  FALSE
  <1>1. cx \in Nat /\ cx > 0
    BY DEF Inv, TypeOK, Idle
  <1>2. MemStartSeg # 0
    <2>1. total # 0
      BY Constants
    <2> QED
      BY <2>1 DEF Inv, NoHeap
  <1>3. Start \in Nat /\ Limit \in Nat /\ total \in Nat /\ Limit = Start + total /\ p \in Nat
    <2>1. Start \in Nat /\ Limit \in Nat /\ total \in Nat /\ Limit = Start + total
      BY <1>2, Facts DEF Limit
    <2> QED
      BY <2>1
  <1>4. \A x \in p-1 .. p+cx-1 : x \in Start .. Limit-1
    BY <1>3 DEF HS!Unused, HS!Extent
  <1>5. \A x \in p-1 .. p+cx-1 : \A q \in DOMAIN live : ~(q - 1 <= x /\ x <= q + live[q] - 1)
    <2> SUFFICES ASSUME NEW x \in p-1 .. p+cx-1, NEW q \in DOMAIN live, q - 1 <= x, x <= q + live[q] - 1
                 PROVE  FALSE
      OBVIOUS
    <2>1. q \in Nat /\ live[q] \in Nat
      BY LiveFacts
    <2>2. x \in HS!Extent(p, cx) /\ x \in HS!Extent(q, live[q])
      BY <1>1, <1>3, <2>1 DEF HS!Extent
    <2> QED
      BY <2>2 DEF HS!Unused, HS!Blocks
  <1>6. \A h \in Heads : /\ h \in Nat /\ mem[h].Size \in Nat /\ End(mem, h) = h + 1 + mem[h].Size
                         /\ End(mem, h) # Limit => End(mem, h) \in Heads /\ mem[h].Next = End(mem, h)
    BY HeadFacts DEF End
  <1>7. ASSUME NEW x \in p-1 .. p+cx-1, NEW h \in Heads, h <= x, x < End(mem, h)
        PROVE  mem[h].State = FREE
    <2> SUFFICES ASSUME mem[h].State # FREE PROVE FALSE
      OBVIOUS
    <2>1. h + 1 \in DOMAIN live /\ mem[h].Size = live[h + 1]
      BY DEF Inv, BusyIsLive
    <2>2. (h + 1) - 1 <= x /\ x <= (h + 1) + live[h + 1] - 1
      BY <1>1, <1>3, <1>6, <1>7, <2>1
    <2> QED
      BY <1>5, <2>1, <2>2
  <1>8. PICK h \in Heads : h <= p - 1 /\ p - 1 < End(mem, h)
    <2>1. p - 1 \in Start .. Limit-1
      BY <1>1, <1>3, <1>4
    <2> QED
      BY <1>2, <2>1, Facts DEF Chain, Covered
  <1>9. mem[h].State = FREE
    <2>1. p - 1 \in p-1 .. p+cx-1
      BY <1>1, <1>3
    <2> QED
      BY <1>7, <1>8, <2>1
  <1>10. mem[h].Size < cx
    <2>1. ~Fits(h)
      BY DEF Inv, Passed
    <2> QED
      BY <1>1, <1>6, <1>9, <2>1 DEF Fits
  <1> DEFINE t == End(mem, h)
  <1>11. t \in p-1 .. p+cx-1
    BY <1>1, <1>3, <1>6, <1>8, <1>10
  <1>12. t \in Heads /\ mem[h].Next = t /\ t # 0 /\ t \in Nat
    <2>1. t # Limit
      BY <1>3, <1>4, <1>11
    <2>2. t \in Heads /\ mem[h].Next = t
      BY <1>6, <2>1
    <2> QED
      BY <2>2, HeadFacts
  <1>13. mem[t].State = BUSY
    BY <1>9, <1>12 DEF Inv, NoFreeNeighbours
  <1>14. t <= t /\ t < End(mem, t)
    BY <1>12, HeadFacts
  <1> QED
    BY <1>7, <1>11, <1>12, <1>13, <1>14

\* Each step of the heap is one of the store, or none.
LEMMA StepImplements == ASSUME Inv, [Next]_vars PROVE [HS!Next]_(HS!vars)
  <1> USE DEF HS!vars
  <1>1. ASSUME NEW size \in Totals, Boot(size) PROVE HS!Boot
    <2>1. total' = size /\ MemStartSeg = 0 /\ live' = live /\ cx' = cx
      BY <1>1 DEF Boot
    <2>2. total = 0
      BY <2>1 DEF Inv, NoHeap
    <2>3. size \in Nat
      BY Constants
    <2> QED
      BY <2>1, <2>2, <2>3 DEF HS!Boot
  <1>2. ASSUME NEW n \in Sizes, Alloc(n) PROVE HS!Ask
    <2>1. n \in Nat
      BY Constants
    <2>2. Paras(n) \in Nat
      BY <2>1 DEF Paras
    <2> QED
      BY <1>2, <2>2 DEF Alloc, HS!Ask, Idle
  <1>3. ASSUME NEW n \in Sizes, AllocNothing(n) PROVE UNCHANGED HS!vars
    BY <1>3 DEF AllocNothing, vars
  <1>4. ASSUME Scan PROVE UNCHANGED HS!vars
    BY <1>4 DEF Scan
  <1>5. ASSUME TakeWhole PROVE HS!Grant
    <2>1. /\ ~Idle /\ ax # 0 /\ Fits(ax)
          /\ live' = [q \in DOMAIN live \cup {ax + 1} |-> IF q = ax + 1 THEN cx ELSE live[q]]
          /\ cx' = 0 /\ total' = total
      BY <1>5 DEF TakeWhole, Deliver
    <2>2. ax \in Heads /\ cx \in Nat /\ cx > 0
      BY <2>1, WalkFacts
    <2>3. ax \in Nat /\ mem[ax].Size \in Nat
      BY <2>2, HeadFacts
    <2>4. ax + 1 \in Nat /\ ax <= (ax + 1) - 1 /\ (ax + 1) + cx <= End(mem, ax)
      BY <2>1, <2>2, <2>3 DEF Fits, End
    <2>5. mem[ax].State = FREE
      BY <2>1 DEF Fits
    <2>6. ax + 1 \in Start+1 .. Start+total /\ HS!Unused(ax + 1, cx)
      BY <2>2, <2>4, <2>5, FreeBlockUnused
    <2> QED
      BY <2>1, <2>2, <2>6 DEF HS!Grant, HS!Blocks
  <1>6. ASSUME Split PROVE HS!Grant
    <2> DEFINE si == mem[ax].Size - cx - 1
               p == (ax + 1 + si) + 1
    <2>1. /\ ~Idle /\ ax # 0 /\ Fits(ax) /\ mem[ax].Size >= cx + 1
          /\ live' = [q \in DOMAIN live \cup {p} |-> IF q = p THEN cx ELSE live[q]]
          /\ cx' = 0 /\ total' = total
      BY <1>6 DEF Split, Deliver
    <2>2. ax \in Heads /\ cx \in Nat /\ cx > 0
      BY <2>1, WalkFacts
    <2>3. ax \in Nat /\ mem[ax].Size \in Nat
      BY <2>2, HeadFacts
    <2>4. p \in Nat /\ ax <= p - 1 /\ p + cx <= End(mem, ax)
      BY <2>1, <2>2, <2>3 DEF End
    <2> HIDE DEF p
    <2>5. mem[ax].State = FREE
      BY <2>1 DEF Fits
    <2>6. p \in Start+1 .. Start+total /\ HS!Unused(p, cx)
      BY <2>2, <2>4, <2>5, FreeBlockUnused
    <2> QED
      BY <2>1, <2>2, <2>6 DEF HS!Grant, HS!Blocks
  <1>7. ASSUME Fail PROVE HS!Refuse
    <2>1. ~Idle /\ ax = 0 /\ cx # 0 /\ cx' = 0 /\ live' = live /\ total' = total
      BY <1>7 DEF Fail, Idle
    <2>2. \A p \in Start+1 .. Start+total : ~HS!Unused(p, cx)
      BY <2>1, NothingFits
    <2> QED
      BY <2>1, <2>2 DEF HS!Refuse
  <1>8. ASSUME NEW p \in DOMAIN live \cup freed, Free(p) PROVE HS!Give \/ UNCHANGED HS!vars
    <2>1. CASE mem[p - 1].State = FREE
      BY <1>8, <2>1 DEF Free
    <2>2. CASE mem[p - 1].State # FREE
      <3>1. p \in DOMAIN live
        BY <2>2 DEF Inv, FreedAreFree
      <3>2. /\ live' = [q \in DOMAIN live \ {p} |-> live[q]]
            /\ total' = total /\ cx' = cx /\ cx = 0
        BY <1>8, <2>2 DEF Free, Idle
      <3> QED
        BY <3>1, <3>2 DEF HS!Give, HS!Blocks
    <2> QED
      BY <2>1, <2>2
  <1>9. ASSUME NEW p \in DOMAIN live, Use(p) PROVE UNCHANGED HS!vars
    BY <1>9 DEF Use
  <1>10. ASSUME UNCHANGED vars PROVE UNCHANGED HS!vars
    BY <1>10 DEF vars
  <1> QED
    BY <1>1, <1>2, <1>3, <1>4, <1>5, <1>6, <1>7, <1>8, <1>9, <1>10 DEF Next, HS!Next

\* NEW hands out disjoint runs of unused paragraphs and refuses a size only
\* when no run would do; DISPOSE gives back what NEW handed out.
THEOREM Implementation == Spec => ImplementsHeapStore
  <1>1. Init => HS!Init
    BY DEF Init, HS!Init
  <1>2. Inv /\ [Next]_vars => [HS!Next]_(HS!vars)
    BY StepImplements
  <1> QED
    BY <1>1, <1>2, Invariance, PTL DEF Spec, HS!Spec, ImplementsHeapStore
=============================================================================
