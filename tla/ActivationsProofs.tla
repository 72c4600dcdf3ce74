-------------------------- MODULE ActivationsProofs ---------------------------
(* What the compiler of Procedures promises the processor of Activations, for *)
(* every text, proved: jumps stay in their procedure, calls enter the one     *)
(* they name, and a frame holds the locals of its procedure.                  *)
(*                                                                            *)
(* The code grows at its end and its holes are patched. At any time an        *)
(* instruction leads to one of its own procedure or behind the code emitted   *)
(* so far, where the body being parsed goes on; only the jump over the nested *)
(* procedures of a procedure whose BEGIN has not come leads anywhere else.    *)
(*                                                                            *)
(* The second half is about the stack. A table T has a row for each procedure, *)
(* with the layout of its frame. What is on the stack above the frame before  *)
(* each instruction is known when it is emitted: P holds it. T and P are the  *)
(* stack maps of the code; each statement and declaration extends them.       *)
EXTENDS Activations, SequenceTheorems, FiniteSetTheorems, WellFoundedInduction, TLAPS

-----------------------------------------------------------------------------
(* The invariant *)
IsSeq(s) == s \in Seq({s[i] : i \in DOMAIN s})
Jumps == {"jmp", "jz"}

(* An instruction has the fields that its kind is emitted with. *)
Formed(i) == /\ {"op", "of", "src"} \subseteq DOMAIN i
             /\ i.op \in Jumps \cup {"call"} => "to" \in DOMAIN i
             /\ i.op = "prologue" => "size" \in DOMAIN i

(* Where the instruction i at a leads: behind itself, and where it jumps. *)
Follows(i, a) == (IF i.op \notin {"jmp", "ret"} THEN {a + 1} ELSE {})
                 \cup (IF i.op \in Jumps THEN {i.to} ELSE {})

(* t is in procedure of, or the next instruction of the body being parsed. *)
Within(c, body, of, t) == \/ t \in DOMAIN c /\ c[t].of = of
                          \/ body # 0 /\ of = body /\ t = Len(c) + 1

(* The code c while the body of procedure body is being parsed (0: none);    *)
(* the instructions at skips jump nowhere yet.                               *)
Flows(c, body, skips) ==
    /\ IsSeq(c)
    /\ \A a \in DOMAIN c : Formed(c[a])
    /\ \A a \in DOMAIN c : a \notin skips =>
          \A t \in Follows(c[a], a) : Within(c, body, c[a].of, t)

BodyOf == IF InBody THEN Current ELSE 0
Skips == {scopes[l].skip_nested : l \in {m \in 1..Level : ~scopes[m].begun}}
CodeFlows == Flows(code, BodyOf, Skips)

(* Jumps of procedure p that may be patched. *)
JumpsOf(c, p) == {a \in DOMAIN c : c[a].op \in Jumps /\ c[a].of = p}

(* A procedure has an address when its body has been opened, and a prologue  *)
(* there; the calls made before its END wait in fwd_patches.                 *)
ProcFields == {"outer", "level", "code_ofs", "fwd_decl", "fwd_patches", "symbols"}
IsPrologue(c, a, p) == a \in DOMAIN c /\ c[a].op = "prologue" /\ c[a].of = p
ProcsKnown ==
    /\ IsSeq(procs)
    /\ \A p \in DOMAIN procs :
          /\ ProcFields \subseteq DOMAIN procs[p]
          /\ procs[p].outer \in 0..p-1
          /\ IsSeq(procs[p].symbols)
          /\ procs[p].code_ofs # 0 => IsPrologue(code, procs[p].code_ofs, p)
          /\ procs[p].code_ofs = 0 => procs[p].fwd_decl /\ p \notin Open
          /\ procs[p].fwd_decl /\ procs[p].code_ofs # 0 => p \in Open
          /\ \A a \in procs[p].fwd_patches :
                a \in DOMAIN code /\ code[a].op = "call" /\ code[a].src.p = p

CallsKnown ==
    \A a \in DOMAIN code : code[a].op = "call" =>
        /\ code[a].src.p \in DOMAIN procs
        /\ IF procs[code[a].src.p].fwd_decl THEN a \in procs[code[a].src.p].fwd_patches
           ELSE code[a].to = procs[code[a].src.p].code_ofs

(* Scopes are open from the outside in; only the last one is in its body. *)
ScopeFields == {"proc", "symbols", "local_top", "begun", "nest", "skip_nested",
                "saved_ret", "saved_patch"}
ScopesOpen ==
    /\ IsSeq(scopes)
    /\ \A l \in 1..Level :
          /\ DOMAIN scopes[l] = ScopeFields
          /\ scopes[l].proc \in DOMAIN procs
          /\ \A m \in 1..l-1 : scopes[m].proc < scopes[l].proc
          /\ scopes[l].begun \in BOOLEAN
          /\ l < Level => ~scopes[l].begun
          /\ ~scopes[l].begun => scopes[l].nest = <<>>
          /\ IsSeq(scopes[l].nest)
          /\ scopes[l].skip_nested \in DOMAIN code
          /\ code[scopes[l].skip_nested].op = "jmp"
          /\ code[scopes[l].skip_nested].of = scopes[l].proc
          /\ scopes[l].saved_ret = {}
    /\ IF InBody THEN ret_patch_list \subseteq JumpsOf(code, Current)
                 ELSE ret_patch_list = {}

(* The jumps an open construct has to patch, and where its loop begins. *)
HolesIn(s) == (IF s.k \in {"if", "while"} THEN {s.jf} ELSE {})
              \cup (IF s.k = "for" THEN {s.jend} ELSE {})
              \cup (IF s.k = "arm" THEN {s.skip} ELSE {})
              \cup (IF s.k \in {"if", "else", "arm", "case", "case else"} THEN s.ends ELSE {})
LoopTop(s) == IF s.k \in {"while", "for", "repeat"} THEN {s.top} ELSE {}
Construct(c, p, s) ==
    /\ s.k = "while" => DOMAIN s = {"k", "top", "jf"}
    /\ HolesIn(s) \subseteq JumpsOf(c, p)
    /\ \A t \in LoopTop(s) : Within(c, p, p, t)
NestPatches == InBody => \A i \in DOMAIN Nest : Construct(code, Current, Nest[i])

(* Locals lie in the size bytes below BP, two bytes apart. *)
IsLocal(s) == s.kind \notin Params
Holds(size, symbols) ==
    /\ IsSeq(symbols)
    /\ size \in Nat
    /\ \A i \in DOMAIN symbols : IsLocal(symbols[i]) =>
          symbols[i].adr \in Int /\ -size <= symbols[i].adr /\ symbols[i].adr <= -2
    /\ \A i, j \in DOMAIN symbols :
          IsLocal(symbols[i]) /\ IsLocal(symbols[j]) /\ i < j
             => symbols[j].adr <= symbols[i].adr - 2

FrameSize(p) == code[procs[p].code_ofs].size
FramesFit ==
    /\ \A l \in 1..Level : scopes[l].local_top \in Int
                           /\ Holds(-scopes[l].local_top, scopes[l].symbols)
    /\ InBody => /\ cur_prologue_patch = procs[Current].code_ofs
                 /\ FrameSize(Current) = -Top.local_top
    /\ \A p \in DOMAIN procs :
          p \notin Open => Holds(IF procs[p].code_ofs = 0 THEN 0 ELSE FrameSize(p),
                                 procs[p].symbols)

(* Compilation is over when no scope is open, and every procedure of the     *)
(* module has its body then.                                                 *)
Over == /\ stage # "compile" => Level = 0
        /\ stage \notin {"compile", "rejected"} =>
              \A p \in DOMAIN procs : procs[p].level = 0 => ~procs[p].fwd_decl

IInv == /\ text \in Texts
        /\ CodeFlows /\ ProcsKnown /\ CallsKnown /\ ScopesOpen /\ NestPatches
        /\ FramesFit /\ Over

-----------------------------------------------------------------------------
(* Sequences *)
LEMMA SeqIs ==
  ASSUME NEW S, NEW s \in Seq(S)
  PROVE  IsSeq(s)
<1>1. s \in [1..Len(s) -> S] /\ Len(s) \in Nat
  OBVIOUS
<1>2. s \in [1..Len(s) -> {s[i] : i \in DOMAIN s}]
  BY <1>1
<1> QED BY <1>1, <1>2, IsASeq DEF IsSeq

(* A sequence is a function on 1..Len. *)
LEMMA SeqFact ==
  ASSUME NEW s, IsSeq(s)
  PROVE  /\ Len(s) \in Nat
         /\ DOMAIN s = 1..Len(s)
         /\ s = [i \in 1..Len(s) |-> s[i]]
BY DEF IsSeq

(* A function on 1..n is a sequence of n elements. *)
LEMMA MadeSeq ==
  ASSUME NEW n \in Nat, NEW f, f = [i \in 1..n |-> f[i]]
  PROVE  IsSeq(f) /\ Len(f) = n
<1>1. f \in [1..n -> {f[i] : i \in 1..n}]
  BY Zenon
<1>2. f \in Seq({f[i] : i \in 1..n})
  BY <1>1, IsASeq
<1> QED BY <1>1, <1>2, SeqIs

(* Append, element by element. *)
LEMMA AppendFact ==
  ASSUME NEW s, IsSeq(s), NEW e
  PROVE  /\ IsSeq(Append(s, e))
         /\ Len(Append(s, e)) = Len(s) + 1
         /\ \A i \in 1..Len(s) : Append(s, e)[i] = s[i]
         /\ Append(s, e)[Len(s) + 1] = e
<1> DEFINE S == {s[i] : i \in DOMAIN s} \cup {e}
<1>1. s \in Seq(S) /\ e \in S
  BY DEF IsSeq
<1> HIDE DEF S
<1>2. /\ Append(s, e) \in Seq(S)
      /\ Len(Append(s, e)) = Len(s) + 1
      /\ \A i \in 1..Len(s) : Append(s, e)[i] = s[i]
      /\ Append(s, e)[Len(s) + 1] = e
  BY <1>1
<1>3. IsSeq(Append(s, e))
  BY <1>2, SeqIs
<1> QED BY <1>2, <1>3

(* Concatenation, element by element. *)
LEMMA ConcatFact ==
  ASSUME NEW s, IsSeq(s), NEW e, IsSeq(e)
  PROVE  /\ IsSeq(s \o e)
         /\ Len(s \o e) = Len(s) + Len(e)
         /\ \A i \in 1..Len(s) : (s \o e)[i] = s[i]
         /\ \A i \in 1..Len(e) : (s \o e)[Len(s) + i] = e[i]
<1> DEFINE S == {s[i] : i \in DOMAIN s} \cup {e[i] : i \in DOMAIN e}
<1>1. s \in Seq(S) /\ e \in Seq(S)
  BY DEF IsSeq
<1> HIDE DEF S
<1>2. /\ s \o e \in Seq(S)
      /\ Len(s \o e) = Len(s) + Len(e)
      /\ \A i \in 1..Len(s)+Len(e) : (s \o e)[i] = IF i <= Len(s) THEN s[i] ELSE e[i - Len(s)]
  BY <1>1, ConcatProperties
<1>3. IsSeq(s \o e)
  BY <1>2, SeqIs
<1>4. Len(s) \in Nat /\ Len(e) \in Nat
  BY <1>1
<1> QED BY <1>2, <1>3, <1>4

(* A sequence without its last element. *)
LEMMA FrontFact ==
  ASSUME NEW s, IsSeq(s), s # <<>>
  PROVE  /\ Len(s) > 0
         /\ IsSeq(SubSeq(s, 1, Len(s) - 1))
         /\ Len(SubSeq(s, 1, Len(s) - 1)) = Len(s) - 1
         /\ \A i \in 1..Len(s)-1 : SubSeq(s, 1, Len(s) - 1)[i] = s[i]
<1> DEFINE S == {s[i] : i \in DOMAIN s}
<1>1. s \in Seq(S)
  BY DEF IsSeq
<1> HIDE DEF S
<1>2. Len(s) \in Nat /\ Len(s) > 0
  BY <1>1, EmptySeq
<1> DEFINE n == Len(s) - 1
<1>3. n \in Int /\ 1 \in Int /\ \A i \in 1..n : s[i] \in S
  BY <1>1, <1>2
<1> HIDE DEF n
<1>4. /\ SubSeq(s, 1, n) \in Seq(S)
      /\ Len(SubSeq(s, 1, n)) = IF 1 <= n THEN n-1+1 ELSE 0
      /\ \A i \in 1..n-1+1 : SubSeq(s, 1, n)[i] = s[1+i-1]
  BY <1>3, SubSeqProperties
<1>5. IsSeq(SubSeq(s, 1, n))
  BY <1>4, SeqIs
<1>6. Len(SubSeq(s, 1, n)) = n /\ \A i \in 1..n : SubSeq(s, 1, n)[i] = s[i]
  <2>1. n \in Nat /\ n-1+1 = n /\ (~(1 <= n) => n = 0)
    BY <1>2 DEF n
  <2>2. \A i \in 1..n : 1+i-1 = i
    BY <2>1
  <2> QED BY <1>4, <2>1, <2>2
<1> QED BY <1>2, <1>5, <1>6 DEF n

(* A sequence of one element. *)
LEMMA SingleFact ==
  ASSUME NEW x
  PROVE  /\ IsSeq(<<x>>) /\ Len(<<x>>) = 1 /\ <<x>>[1] = x
         /\ \A n \in 1..1 : n = 1
<1>1. <<x>> \in Seq({x}) /\ Len(<<x>>) = 1 /\ <<x>>[1] = x
  OBVIOUS
<1>2. IsSeq(<<x>>)
  BY <1>1, SeqIs, Zenon
<1>3. \A n \in 1..1 : n = 1
  OBVIOUS
<1> QED BY <1>1, <1>2, <1>3, Zenon

(* A sequence of two elements. *)
LEMMA PairFact ==
  ASSUME NEW x, NEW y
  PROVE  /\ IsSeq(<<x, y>>) /\ Len(<<x, y>>) = 2 /\ <<x, y>>[1] = x /\ <<x, y>>[2] = y
         /\ \A n \in 1..2 : n = 1 \/ n = 2
<1>1. <<x, y>> \in Seq({x, y}) /\ Len(<<x, y>>) = 2 /\ <<x, y>>[1] = x /\ <<x, y>>[2] = y
  OBVIOUS
<1>2. IsSeq(<<x, y>>)
  BY <1>1, SeqIs, Zenon
<1>3. \A n \in 1..2 : n = 1 \/ n = 2
  OBVIOUS
<1> QED BY <1>1, <1>2, <1>3, Zenon

(* A sequence of three elements. *)
LEMMA TripleFact ==
  ASSUME NEW x, NEW y, NEW z
  PROVE  /\ IsSeq(<<x, y, z>>) /\ Len(<<x, y, z>>) = 3
         /\ <<x, y, z>>[1] = x /\ <<x, y, z>>[2] = y /\ <<x, y, z>>[3] = z
         /\ \A n \in 1..3 : n = 1 \/ n = 2 \/ n = 3
<1>1. /\ <<x, y, z>> \in Seq({x, y, z}) /\ Len(<<x, y, z>>) = 3
      /\ <<x, y, z>>[1] = x /\ <<x, y, z>>[2] = y /\ <<x, y, z>>[3] = z
  OBVIOUS
<1>2. IsSeq(<<x, y, z>>)
  BY <1>1, SeqIs, Zenon
<1>3. \A n \in 1..3 : n = 1 \/ n = 2 \/ n = 3
  OBVIOUS
<1> QED BY <1>1, <1>2, <1>3, Zenon

(* One element of a sequence is replaced. *)
LEMMA ExceptFact ==
  ASSUME NEW s, IsSeq(s), NEW k \in DOMAIN s, NEW e
  PROVE  /\ IsSeq([s EXCEPT ![k] = e])
         /\ Len([s EXCEPT ![k] = e]) = Len(s)
         /\ DOMAIN [s EXCEPT ![k] = e] = DOMAIN s
         /\ \A i \in DOMAIN s : i # k => [s EXCEPT ![k] = e][i] = s[i]
         /\ [s EXCEPT ![k] = e][k] = e
<1> DEFINE t == [s EXCEPT ![k] = e]
<1>1. PICK n \in Nat : n = Len(s) /\ DOMAIN s = 1..n
  BY SeqFact
<1>2. t = [i \in 1..n |-> IF i = k THEN e ELSE s[i]]
  BY <1>1
<1> HIDE DEF t
<1>3. t = [i \in 1..n |-> t[i]]
  BY <1>2, Zenon
<1>4. IsSeq(t) /\ Len(t) = n
  BY <1>3, MadeSeq
<1>5. t[k] = e /\ DOMAIN t = 1..n /\ \A i \in 1..n : i # k => t[i] = s[i]
  BY <1>1, <1>2, Zenon
<1> QED BY <1>1, <1>4, <1>5 DEF t

(* The last element of a sequence is replaced. *)
LEMMA LastFact ==
  ASSUME NEW s, IsSeq(s), Len(s) > 0, NEW e
  PROVE  /\ IsSeq([s EXCEPT ![Len(s)] = e])
         /\ Len([s EXCEPT ![Len(s)] = e]) = Len(s)
         /\ \A i \in 1..Len(s) : i < Len(s) => [s EXCEPT ![Len(s)] = e][i] = s[i]
         /\ [s EXCEPT ![Len(s)] = e][Len(s)] = e
<1>1. Len(s) \in DOMAIN s /\ DOMAIN s = 1..Len(s) /\ Len(s) \in Nat
  BY SeqFact
<1>2. ~ (Len(s) < Len(s))
  <2>1. \A n \in Nat : ~ (n < n)
    OBVIOUS
  <2> QED BY <1>1, <2>1, Zenon
<1> QED BY <1>1, <1>2, ExceptFact, Zenon

(* Existence of what is defined by recursion on the numbers up to n. *)
LEMMA LeastFact ==
  ASSUME NEW T \in SUBSET Nat, T # {}
  PROVE  \E x \in T : \A y \in T : x <= y
<1>1. PICK x \in T : \A y \in T : ~ (<<y, x>> \in OpToRel(<, Nat))
  BY NatLessThanWellFounded, WFMin
<1>2. \A y \in T : ~ (y < x)
  BY <1>1 DEF OpToRel
<1>3. \A y \in T : x <= y
  BY <1>2
<1> QED BY <1>3

(* The function by which a list of code pieces is concatenated exists. *)
LEMMA JoinExists ==
  ASSUME NEW a, NEW n \in Nat
  PROVE  \E f : f = [i \in 0..n |-> IF i = 0 THEN <<>> ELSE f[i-1] \o a[i]]
<1> DEFINE T == {m \in Nat : ~ \E f : f = [i \in 0..m |-> IF i = 0 THEN <<>> ELSE f[i-1] \o a[i]]}
<1>1. SUFFICES ASSUME T # {} PROVE FALSE
  BY <1>1
<1>2. PICK m \in T : \A k \in T : m <= k
  BY <1>1, LeastFact
<1>3. CASE m = 0
  <2> DEFINE g == [i \in 0..0 |-> <<>>]
  <2>1. g = [i \in 0..0 |-> IF i = 0 THEN <<>> ELSE g[i-1] \o a[i]]
    OBVIOUS
  <2> QED BY <1>3, <2>1
<1>4. CASE m # 0
  <2>1. m - 1 \in Nat /\ m - 1 \notin T
    <3>1. m \in Nat /\ m - 1 \in Nat /\ ~ (m <= m - 1)
      BY <1>4
    <3> HIDE DEF T
    <3> QED BY <1>2, <3>1
  <2>2. PICK f : f = [i \in 0..m-1 |-> IF i = 0 THEN <<>> ELSE f[i-1] \o a[i]]
    BY <2>1
  <2> DEFINE g == [i \in 0..m |-> IF i = m THEN f[m-1] \o a[m] ELSE f[i]]
  <2>3. \A i \in 0..m : i # 0 => i - 1 \in 0..m /\ i - 1 # m
    BY <1>2
  <2>4. ASSUME NEW i \in 0..m
        PROVE  g[i] = IF i = 0 THEN <<>> ELSE g[i-1] \o a[i]
    <3>1. CASE i = m
      <4>1. g[i] = f[m-1] \o a[m] /\ g[i-1] = f[i-1]
        BY <1>4, <2>3, <3>1
      <4> QED BY <1>4, <3>1, <4>1
    <3>2. CASE i # m
      <4>1. i \in 0..m-1
        BY <1>2, <3>2
      <4>2. f[i] = IF i = 0 THEN <<>> ELSE f[i-1] \o a[i]
        BY <2>2, <4>1
      <4>3. g[i] = f[i] /\ (i # 0 => g[i-1] = f[i-1])
        BY <2>3, <3>2
      <4> QED BY <4>2, <4>3, Zenon
    <3> QED BY <3>1, <3>2
  <2>5. g = [i \in 0..m |-> g[i]]
    OBVIOUS
  <2> HIDE DEF g
  <2>6. g = [i \in 0..m |-> IF i = 0 THEN <<>> ELSE g[i-1] \o a[i]]
    BY <2>4, <2>5, Zenon
  <2> QED BY <1>2, <2>6
<1> QED BY <1>3, <1>4

-----------------------------------------------------------------------------
(* Code that grows and is patched *)

(* d is c with instructions of procedure p behind it and some holes patched. *)
SameIns(i, j) == /\ i.op = j.op /\ i.of = j.of /\ i.src = j.src
                 /\ i.op = "call" => i.to = j.to
Grown(c, d, p) ==
    /\ IsSeq(c) /\ IsSeq(d) /\ Len(c) <= Len(d)
    /\ \A a \in 1..Len(c) : SameIns(c[a], d[a])
    /\ \A a \in Len(c)+1..Len(d) : d[a].of = p

(* Neither calls nor procedures are among the new instructions. *)
Quiet(c, d) == \A a \in Len(c)+1..Len(d) : d[a].op \notin {"call", "prologue"}

FrameKept(c, d, a) == c[a].op = "prologue" => d[a].size = c[a].size
FramesKept(c, d) == \A a \in 1..Len(c) : FrameKept(c, d, a)

(* What grew to d and then to e grew to e. *)
LEMMA GrownTrans ==
  ASSUME NEW c, NEW d, NEW e, NEW p, Grown(c, d, p), Grown(d, e, p)
  PROVE  /\ Grown(c, e, p)
         /\ Quiet(c, d) /\ Quiet(d, e) => Quiet(c, e)
         /\ FramesKept(c, d) /\ FramesKept(d, e) => FramesKept(c, e)
<1>1. /\ Len(c) \in Nat /\ Len(d) \in Nat /\ Len(e) \in Nat
      /\ Len(c) <= Len(d) /\ Len(d) <= Len(e)
  BY SeqFact DEF Grown
<1>2. \A a \in 1..Len(c) : a \in 1..Len(d)
  BY <1>1
<1>3. \A a \in Len(c)+1..Len(e) : \/ a \in Len(c)+1..Len(d) /\ a \in 1..Len(d)
                                  \/ a \in Len(d)+1..Len(e)
  BY <1>1
<1>4. Grown(c, e, p)
  <2>1. \A i, j, k : SameIns(i, j) /\ SameIns(j, k) => SameIns(i, k)
    BY Zenon DEF SameIns
  <2>2. \A a \in 1..Len(c) : SameIns(c[a], e[a])
    BY <1>2, <2>1, Zenon DEF Grown
  <2>3. \A a \in 1..Len(d) : d[a].of = e[a].of
    BY Zenon DEF Grown, SameIns
  <2>4. \A a \in Len(c)+1..Len(e) : e[a].of = p
    BY <1>3, <2>3, Zenon DEF Grown
  <2>5. Len(c) <= Len(e) /\ IsSeq(c) /\ IsSeq(e)
    BY <1>1 DEF Grown
  <2> QED BY <2>2, <2>4, <2>5 DEF Grown
<1>5. ASSUME Quiet(c, d), Quiet(d, e) PROVE Quiet(c, e)
  <2>1. \A a \in 1..Len(d) : d[a].op = e[a].op
    BY Zenon DEF Grown, SameIns
  <2> QED BY <1>5, <1>3, <2>1, Zenon DEF Quiet
<1>6. ASSUME FramesKept(c, d), FramesKept(d, e) PROVE FramesKept(c, e)
  <2>1. \A a \in 1..Len(c) : c[a].op = d[a].op
    BY Zenon DEF Grown, SameIns
  <2> QED BY <1>6, <1>2, <2>1, Zenon DEF FramesKept, FrameKept
<1> QED BY <1>4, <1>5, <1>6

(* A place in a procedure stays one when the code grows. *)
LEMMA WithinGrown ==
  ASSUME NEW c, NEW d, NEW p, NEW of, NEW t, Grown(c, d, p), Within(c, p, of, t)
  PROVE  Within(d, p, of, t)
<1>1. /\ Len(c) \in Nat /\ Len(d) \in Nat /\ Len(c) <= Len(d)
      /\ DOMAIN c = 1..Len(c) /\ DOMAIN d = 1..Len(d)
  BY SeqFact DEF Grown
<1>2. CASE t \in DOMAIN c /\ c[t].of = of
  <2>1. t \in 1..Len(d) /\ SameIns(c[t], d[t])
    BY <1>1, <1>2 DEF Grown
  <2> QED BY <1>1, <1>2, <2>1 DEF Within, SameIns
<1>3. CASE p # 0 /\ of = p /\ t = Len(c) + 1
  <2>1. CASE Len(d) = Len(c)
    BY <1>3, <2>1, Zenon DEF Within
  <2>2. CASE Len(d) # Len(c)
    <3>1. Len(c) + 1 \in Len(c)+1..Len(d) /\ Len(c) + 1 \in 1..Len(d)
      <4>1. Len(c) \in Nat /\ Len(d) \in Nat /\ Len(c) <= Len(d)
        BY <1>1, Zenon
      <4> QED BY <4>1, <2>2
    <3>2. d[t].of = p /\ t \in DOMAIN d
      BY <1>1, <1>3, <3>1, Zenon DEF Grown
    <3> QED BY <1>3, <3>2, Zenon DEF Within
  <2> QED BY <2>1, <2>2
<1> QED BY <1>2, <1>3 DEF Within

(* An open construct stays well-formed when the code grows. *)
LEMMA ConstructGrown ==
  ASSUME NEW c, NEW d, NEW p, NEW s, Grown(c, d, p), Construct(c, p, s)
  PROVE  Construct(d, p, s)
<1>1. /\ Len(c) \in Nat /\ Len(d) \in Nat /\ Len(c) <= Len(d)
      /\ DOMAIN c = 1..Len(c) /\ DOMAIN d = 1..Len(d)
  BY SeqFact DEF Grown
<1>2. JumpsOf(c, p) \subseteq JumpsOf(d, p)
  <2>1. \A a \in 1..Len(c) : a \in 1..Len(d) /\ SameIns(c[a], d[a])
    BY <1>1 DEF Grown
  <2> QED BY <1>1, <2>1 DEF JumpsOf, SameIns
<1>3. \A t \in LoopTop(s) : Within(d, p, p, t)
  BY WithinGrown DEF Construct
<1> QED BY <1>2, <1>3 DEF Construct

(* Instructions e, all of procedure p, behind c. *)
LEMMA Emit ==
  ASSUME NEW c, NEW body, NEW skips, Flows(c, body, skips),
         NEW e, IsSeq(e), Len(e) > 0,
         NEW p, body # 0 => p = body,
         NEW after, NEW more, skips \subseteq more,
         \A i \in 1..Len(e) :
            /\ Formed(e[i])
            /\ e[i].of = p
            /\ \/ Len(c) + i \in more
               \/ \A t \in Follows(e[i], Len(c) + i) : Within(c \o e, after, p, t)
  PROVE  /\ Flows(c \o e, after, more)
         /\ Grown(c, c \o e, p)
         /\ FramesKept(c, c \o e)
<1> DEFINE d == c \o e
<1>1. /\ Len(c) \in Nat /\ Len(e) \in Nat /\ IsSeq(c) /\ IsSeq(d)
      /\ Len(d) = Len(c) + Len(e)
      /\ DOMAIN c = 1..Len(c) /\ DOMAIN d = 1..Len(d)
      /\ \A a \in 1..Len(c) : d[a] = c[a]
      /\ \A i \in 1..Len(e) : d[Len(c) + i] = e[i]
  <2>1. IsSeq(c)
    BY DEF Flows
  <2>2. /\ Len(c) \in Nat /\ DOMAIN c = 1..Len(c)
        /\ Len(e) \in Nat /\ IsSeq(d) /\ DOMAIN d = 1..Len(d)
    BY <2>1, SeqFact, ConcatFact
  <2> QED BY <2>1, <2>2, ConcatFact
<1> HIDE DEF d
<1>2. \A a \in Len(c)+1..Len(d) : a - Len(c) \in 1..Len(e) /\ a = Len(c) + (a - Len(c))
  BY <1>1
<1>3. Grown(c, d, p)
  <2>1. \A a \in 1..Len(c) : SameIns(c[a], d[a])
    BY <1>1, Zenon DEF SameIns
  <2>2. \A a \in Len(c)+1..Len(d) : d[a].of = p
    BY <1>1, <1>2
  <2>3. Len(c) <= Len(d)
    BY <1>1
  <2> QED BY <1>1, <2>1, <2>2, <2>3, Zenon DEF Grown
<1>4. FramesKept(c, d)
  BY <1>1 DEF FramesKept, FrameKept
<1>5. ASSUME NEW a \in 1..Len(c), a \notin more, NEW t \in Follows(d[a], a)
      PROVE  Within(d, after, d[a].of, t)
  <2>1. d[a] = c[a] /\ Within(c, body, c[a].of, t)
    BY <1>1, <1>5 DEF Flows
  <2>2. CASE t \in DOMAIN c /\ c[t].of = c[a].of
    BY <1>1, <2>1, <2>2 DEF Within
  <2>3. CASE body # 0 /\ c[a].of = body /\ t = Len(c) + 1
    <3>1. Len(c) + 1 \in 1..Len(d) /\ d[Len(c) + 1] = e[1] /\ 1 \in 1..Len(e)
      BY <1>1
    <3> QED BY <1>1, <2>1, <2>3, <3>1 DEF Within
  <2> QED BY <2>1, <2>2, <2>3 DEF Within
<1>6. ASSUME NEW a \in Len(c)+1..Len(d)
      PROVE  /\ Formed(d[a])
             /\ a \notin more => \A t \in Follows(d[a], a) : Within(d, after, d[a].of, t)
  <2>1. PICK i \in 1..Len(e) : a = Len(c) + i
    BY <1>2
  <2>2. d[a] = e[i]
    BY <1>1, <2>1
  <2> QED BY <2>1, <2>2 DEF d
<1>7. \A a \in 1..Len(c) : Formed(d[a])
  BY <1>1 DEF Flows
<1>8. \A a \in 1..Len(d) : a \in 1..Len(c) \/ a \in Len(c)+1..Len(d)
  BY <1>1
<1>9. Flows(d, after, more)
  BY <1>1, <1>5, <1>6, <1>7, <1>8 DEF Flows
<1> QED BY <1>3, <1>4, <1>9 DEF d

(* Jumps of the body are sent to one of its instructions. *)
LEMMA PatchBody ==
  ASSUME NEW c, NEW body, body # 0, NEW skips, Flows(c, body, skips),
         NEW holes, NEW to, holes \subseteq JumpsOf(c, body), Within(c, body, body, to)
  PROVE  /\ Flows(Patch(c, holes, to), body, skips)
         /\ Grown(c, Patch(c, holes, to), body)
         /\ Quiet(c, Patch(c, holes, to))
         /\ FramesKept(c, Patch(c, holes, to))
         /\ Len(Patch(c, holes, to)) = Len(c)
         /\ \A a \in holes : Patch(c, holes, to)[a].to = to
<1> DEFINE d == Patch(c, holes, to)
<1>1. /\ Len(c) \in Nat /\ DOMAIN c = 1..Len(c) /\ IsSeq(c)
      /\ \A a \in 1..Len(c) : Formed(c[a])
  BY SeqFact DEF Flows
<1>2. d = [a \in 1..Len(c) |-> IF a \in holes THEN [c[a] EXCEPT !.to = to] ELSE c[a]]
  BY <1>1 DEF Patch
<1> HIDE DEF d
<1>3. /\ \A a \in 1..Len(c) : a \notin holes => d[a] = c[a]
      /\ \A a \in 1..Len(c) : a \in holes => d[a] = [c[a] EXCEPT !.to = to]
      /\ IsSeq(d) /\ Len(d) = Len(c) /\ DOMAIN d = 1..Len(c)
  <2>1. d = [a \in 1..Len(c) |-> d[a]]
    BY <1>2, Zenon
  <2> QED BY <1>1, <1>2, <2>1, MadeSeq
<1>4. \A a \in holes : a \in 1..Len(c) /\ c[a].op \in Jumps /\ c[a].of = body
  BY <1>1 DEF JumpsOf
<1>5. \A a \in holes : /\ d[a].op = c[a].op /\ d[a].of = c[a].of /\ d[a].src = c[a].src
                        /\ d[a].to = to /\ Formed(d[a])
  <2> SUFFICES ASSUME NEW a \in holes
               PROVE  /\ d[a].op = c[a].op /\ d[a].of = c[a].of /\ d[a].src = c[a].src
                      /\ d[a].to = to /\ Formed(d[a])
    OBVIOUS
  <2>1. d[a] = [c[a] EXCEPT !.to = to] /\ Formed(c[a]) /\ c[a].op \in Jumps
    BY <1>1, <1>3, <1>4
  <2> QED BY <2>1 DEF Formed, Jumps
<1>6. Grown(c, d, body) /\ Quiet(c, d) /\ FramesKept(c, d)
  <2>1. \A a \in 1..Len(c) : SameIns(c[a], d[a]) /\ FrameKept(c, d, a)
    BY <1>3, <1>4, <1>5 DEF SameIns, FrameKept, Jumps
  <2>2. \A a \in Len(c)+1..Len(d) : FALSE
    BY <1>1, <1>3
  <2>3. Len(c) <= Len(d)
    BY <1>1, <1>3
  <2> QED BY <1>1, <1>3, <2>1, <2>2, <2>3 DEF Grown, Quiet, FramesKept
<1>7. ASSUME NEW a \in 1..Len(c), a \notin skips, NEW t \in Follows(d[a], a)
      PROVE  Within(d, body, d[a].of, t)
  <2>1. CASE a \notin holes
    <3>1. Within(c, body, c[a].of, t)
      BY <1>1, <1>3, <1>7, <2>1 DEF Flows
    <3> QED BY <1>3, <1>6, <2>1, <3>1, WithinGrown
  <2>2. CASE a \in holes
    <3>1. t = to \/ t \in Follows(c[a], a)
      BY <1>5, <1>7, <2>2 DEF Follows
    <3>2. Within(c, body, body, t)
      BY <1>1, <1>4, <1>7, <2>2, <3>1 DEF Flows
    <3> QED BY <1>4, <1>5, <1>6, <2>2, <3>2, WithinGrown
  <2> QED BY <2>1, <2>2
<1>8. \A a \in 1..Len(c) : Formed(d[a])
  BY <1>1, <1>3, <1>5
<1> QED BY <1>1, <1>3, <1>5, <1>6, <1>7, <1>8 DEF Flows, d

(* d is c with the frame size of the prologue at `at' patched. *)
Framed(c, d, at, size, body, skips) ==
    /\ Flows(d, body, skips) /\ Grown(c, d, body) /\ Quiet(c, d)
    /\ d[at].size = size
    /\ \A a \in 1..Len(c) : a # at => FrameKept(c, d, a)

(* The frame size of a prologue is patched. *)
LEMMA FrameSet ==
  ASSUME NEW c, NEW body, NEW skips, Flows(c, body, skips),
         NEW at, IsPrologue(c, at, body), NEW scope
  PROVE  Framed(c, SetFrame(c, at, scope), at, -scope.local_top, body, skips)
<1> DEFINE d == SetFrame(c, at, scope)
           size == -scope.local_top
<1>1. /\ Len(c) \in Nat /\ DOMAIN c = 1..Len(c) /\ IsSeq(c)
      /\ c = [a \in 1..Len(c) |-> c[a]]
      /\ \A a \in 1..Len(c) : Formed(c[a])
  BY SeqFact DEF Flows
<1>2. at \in 1..Len(c) /\ c[at].op = "prologue"
  BY <1>1 DEF IsPrologue
<1>3. d = [c EXCEPT ![at].size = size]
  BY DEF SetFrame
<1> HIDE DEF d, size
<1>4. d = [a \in 1..Len(c) |-> IF a = at THEN [c[at] EXCEPT !.size = size] ELSE c[a]]
  BY <1>1, <1>2, <1>3
<1>5. /\ \A a \in 1..Len(c) : a # at => d[a] = c[a]
      /\ d[at] = [c[at] EXCEPT !.size = size]
      /\ IsSeq(d) /\ Len(d) = Len(c) /\ DOMAIN d = 1..Len(c)
  <2>1. d = [a \in 1..Len(c) |-> d[a]]
    BY <1>4, Zenon
  <2> QED BY <1>1, <1>2, <1>4, <2>1, MadeSeq
<1>6. /\ d[at].op = c[at].op /\ d[at].of = c[at].of /\ d[at].src = c[at].src
      /\ d[at].size = size /\ Formed(d[at])
  <2>1. Formed(c[at])
    BY <1>1, <1>2
  <2> QED BY <1>2, <1>5, <2>1 DEF Formed, Jumps
<1>7. Grown(c, d, body) /\ Quiet(c, d) /\ \A a \in 1..Len(c) : a # at => FrameKept(c, d, a)
  <2>1. \A a \in 1..Len(c) : SameIns(c[a], d[a])
    BY <1>2, <1>5, <1>6 DEF SameIns
  <2>2. \A a \in 1..Len(c) : a # at => FrameKept(c, d, a)
    BY <1>5 DEF FrameKept
  <2>3. \A a \in Len(c)+1..Len(d) : FALSE
    BY <1>1, <1>5
  <2>4. Len(c) <= Len(d)
    BY <1>1, <1>5
  <2> QED BY <1>1, <1>5, <2>1, <2>2, <2>3, <2>4 DEF Grown, Quiet
<1>8. \A a \in 1..Len(c) : Follows(d[a], a) = Follows(c[a], a) /\ d[a].of = c[a].of
  BY <1>2, <1>5, <1>6 DEF Follows, Jumps
<1>9. \A of, t : Within(c, body, of, t) => Within(d, body, of, t)
  BY <1>1, <1>5, <1>8 DEF Within
<1>10. \A a \in 1..Len(c) : Formed(d[a])
  BY <1>1, <1>5, <1>6
<1>11. Flows(d, body, skips)
  BY <1>1, <1>5, <1>8, <1>9, <1>10, Zenon DEF Flows
<1>12. Framed(c, d, at, size, body, skips)
  BY <1>6, <1>7, <1>11, Zenon DEF Framed
<1> QED BY <1>12 DEF d, size

(* d is what the body of procedure p has made of c: nothing was called or    *)
(* declared.                                                                 *)
Coded(c, d, p, skips) == /\ Flows(d, p, skips) /\ Grown(c, d, p)
                         /\ Quiet(c, d) /\ FramesKept(c, d)

Straight(i, p) == /\ Formed(i) /\ i.of = p
                  /\ i.op \notin {"jmp", "jz", "ret", "call", "prologue"}
JumpIn(i, p) == Formed(i) /\ i.of = p /\ i.op \in Jumps

(* Instructions e of procedure p that jump among themselves, behind          *)
(* themselves or back into the procedure.                                    *)
Chunk(c, e, p) ==
    /\ IsSeq(e) /\ Len(e) > 0
    /\ \A i \in 1..Len(e) :
          \/ Straight(e[i], p)
          \/ JumpIn(e[i], p) /\ (\/ e[i].to \in Len(c)+1..Len(c)+Len(e)+1
                                 \/ Within(c, p, p, e[i].to))

(* Behind an instruction comes the next one or the target of its jump. *)
LEMMA FollowsFact ==
  ASSUME NEW i, NEW a, NEW t \in Follows(i, a)
  PROVE  \/ t = a + 1 /\ i.op \notin {"jmp", "ret"}
         \/ t = i.to /\ i.op \in Jumps
BY Zenon DEF Follows

(* Instructions of the procedure are emitted at the end of the code. *)
LEMMA CodedEmit ==
  ASSUME NEW b, NEW c, NEW p, p # 0, NEW skips, Coded(b, c, p, skips),
         NEW e, Chunk(c, e, p)
  PROVE  /\ Coded(b, c \o e, p, skips)
         /\ Len(c \o e) = Len(c) + Len(e)
         /\ JumpsOf(c, p) \subseteq JumpsOf(c \o e, p)
         /\ \A i \in 1..Len(e) : e[i].op \in Jumps => Len(c) + i \in JumpsOf(c \o e, p)
         /\ \A t \in Len(c)+1..Len(c)+Len(e)+1 : Within(c \o e, p, p, t)
<1> DEFINE d == c \o e
<1>1. /\ Len(c) \in Nat /\ Len(e) \in Nat /\ IsSeq(c) /\ IsSeq(d) /\ IsSeq(e)
      /\ Len(d) = Len(c) + Len(e)
      /\ DOMAIN c = 1..Len(c) /\ DOMAIN d = 1..Len(d)
      /\ \A a \in 1..Len(c) : d[a] = c[a]
      /\ \A i \in 1..Len(e) : d[Len(c) + i] = e[i]
  <2>1. IsSeq(c) /\ IsSeq(e)
    BY DEF Coded, Flows, Chunk
  <2>2. /\ Len(c) \in Nat /\ DOMAIN c = 1..Len(c)
        /\ Len(e) \in Nat /\ IsSeq(d) /\ DOMAIN d = 1..Len(d)
    BY <2>1, SeqFact, ConcatFact
  <2> QED BY <2>1, <2>2, ConcatFact
<1> HIDE DEF d
<1>2. \A i \in 1..Len(e) : Formed(e[i]) /\ e[i].of = p /\ e[i].op \notin {"call", "prologue"}
  BY DEF Chunk, Straight, JumpIn, Jumps
<1>3. \A a \in Len(c)+1..Len(d) : a - Len(c) \in 1..Len(e) /\ a = Len(c) + (a - Len(c))
  BY <1>1
<1>4. \A t \in Len(c)+1..Len(c)+Len(e)+1 : Within(d, p, p, t)
  <2>1. \A t \in Len(c)+1..Len(d) : d[t].of = p
    BY <1>1, <1>2, <1>3, ZenonT(40)
  <2>2. \A t \in Len(c)+1..Len(c)+Len(e)+1 :
           (t \in 1..Len(d) /\ t \in Len(c)+1..Len(d)) \/ t = Len(d) + 1
    BY <1>1
  <2> QED BY <1>1, <2>1, <2>2, Zenon DEF Within
<1>5. \A t : Within(c, p, p, t) => Within(d, p, p, t)
  <2>1. \A t \in 1..Len(c) : t \in 1..Len(d)
    BY <1>1
  <2>2. Len(c) + 1 \in Len(c)+1..Len(c)+Len(e)+1
    BY <1>1
  <2> QED BY <1>1, <1>4, <2>1, <2>2, Zenon DEF Within
<1>6. ASSUME NEW i \in 1..Len(e), NEW t \in Follows(e[i], Len(c) + i)
      PROVE  Within(d, p, p, t)
  <2>1. Len(c) + i + 1 \in Len(c)+1..Len(c)+Len(e)+1
    BY <1>1
  <2>2. t = Len(c) + i + 1 \/ (JumpIn(e[i], p) /\ t = e[i].to)
    BY <1>2, <1>6, FollowsFact, Zenon DEF JumpIn
  <2>3. JumpIn(e[i], p) => \/ e[i].to \in Len(c)+1..Len(c)+Len(e)+1
                           \/ Within(c, p, p, e[i].to)
    BY DEF Chunk, Straight, JumpIn, Jumps
  <2> QED BY <1>4, <1>5, <2>1, <2>2, <2>3, Zenon
<1>7. Flows(d, p, skips) /\ Grown(c, d, p) /\ FramesKept(c, d)
  <2>1. Flows(c, p, skips) /\ IsSeq(e) /\ Len(e) > 0
    BY DEF Coded, Chunk
  <2>2. \A i \in 1..Len(e) : \A t \in Follows(e[i], Len(c) + i) : Within(c \o e, p, p, t)
    BY <1>6 DEF d
  <2>3. Flows(c \o e, p, skips) /\ Grown(c, c \o e, p) /\ FramesKept(c, c \o e)
    BY <1>2, <2>1, <2>2, Emit
  <2> QED BY <2>3 DEF d
<1>8. Quiet(c, d)
  BY <1>1, <1>2, <1>3 DEF Quiet
<1>9. Coded(b, d, p, skips)
  BY <1>7, <1>8, GrownTrans DEF Coded
<1>10. JumpsOf(c, p) \subseteq JumpsOf(d, p)
  <2>1. \A t \in 1..Len(c) : t \in 1..Len(d)
    BY <1>1
  <2> QED BY <1>1, <2>1, Zenon DEF JumpsOf
<1>11. \A i \in 1..Len(e) : e[i].op \in Jumps => Len(c) + i \in JumpsOf(d, p)
  <2>1. \A i \in 1..Len(e) : Len(c) + i \in 1..Len(d)
    BY <1>1
  <2> QED BY <1>1, <1>2, <2>1 DEF JumpsOf
<1> QED BY <1>1, <1>4, <1>9, <1>10, <1>11 DEF d

(* One instruction of the procedure is emitted. *)
LEMMA CodedAppend ==
  ASSUME NEW b, NEW c, NEW p, p # 0, NEW skips, Coded(b, c, p, skips),
         NEW i, \/ Straight(i, p)
                \/ JumpIn(i, p) /\ (\/ i.to \in {Len(c) + 1, Len(c) + 2}
                                    \/ Within(c, p, p, i.to))
  PROVE  /\ Coded(b, Append(c, i), p, skips)
         /\ Len(Append(c, i)) = Len(c) + 1
         /\ JumpsOf(c, p) \subseteq JumpsOf(Append(c, i), p)
         /\ i.op \in Jumps => Len(c) + 1 \in JumpsOf(Append(c, i), p)
         /\ Within(Append(c, i), p, p, Len(c) + 1)
         /\ Within(Append(c, i), p, p, Len(c) + 2)
<1>1. IsSeq(c) /\ Len(c) \in Nat
  BY SeqFact DEF Coded, Flows
<1> DEFINE e == <<i>>
<1>2. IsSeq(e) /\ Len(e) = 1 /\ e[1] = i
  <2>1. <<i>> \in Seq({i})
    OBVIOUS
  <2> QED BY <2>1, SeqIs
<1>3. Append(c, i) = c \o e
  BY <1>1 DEF IsSeq
<1> HIDE DEF e
<1>4. /\ Len(c) + 1 \in Len(c)+1..Len(c)+1+1 /\ Len(c) + 2 \in Len(c)+1..Len(c)+1+1
      /\ 1 \in 1..1 /\ \A k \in 1..1 : k = 1
  BY <1>1
<1>5. Chunk(c, e, p)
  BY <1>2, <1>4 DEF Chunk
<1>6. /\ Coded(b, c \o e, p, skips)
      /\ Len(c \o e) = Len(c) + Len(e)
      /\ JumpsOf(c, p) \subseteq JumpsOf(c \o e, p)
      /\ \A k \in 1..Len(e) : e[k].op \in Jumps => Len(c) + k \in JumpsOf(c \o e, p)
      /\ \A t \in Len(c)+1..Len(c)+Len(e)+1 : Within(c \o e, p, p, t)
  BY <1>5, CodedEmit, Zenon
<1> QED BY <1>2, <1>3, <1>4, <1>6

(* Holes of the procedure are patched with a place in it. *)
LEMMA CodedPatch ==
  ASSUME NEW b, NEW c, NEW p, p # 0, NEW skips, Coded(b, c, p, skips),
         NEW holes, NEW to, holes \subseteq JumpsOf(c, p), Within(c, p, p, to)
  PROVE  /\ Coded(b, Patch(c, holes, to), p, skips)
         /\ Len(Patch(c, holes, to)) = Len(c)
         /\ JumpsOf(c, p) \subseteq JumpsOf(Patch(c, holes, to), p)
         /\ \A t : Within(c, p, p, t) => Within(Patch(c, holes, to), p, p, t)
<1> DEFINE d == Patch(c, holes, to)
<1>1. /\ Flows(d, p, skips) /\ Grown(c, d, p)
      /\ Quiet(c, d) /\ FramesKept(c, d) /\ Len(d) = Len(c)
  BY PatchBody DEF Coded
<1> HIDE DEF d
<1>2. Coded(b, d, p, skips)
  BY <1>1, GrownTrans DEF Coded
<1>3. JumpsOf(c, p) \subseteq JumpsOf(d, p)
  <2>1. DOMAIN c = 1..Len(c) /\ DOMAIN d = 1..Len(c)
    BY <1>1, SeqFact DEF Grown
  <2> QED BY <1>1, <2>1, Zenon DEF JumpsOf, Grown, SameIns
<1>4. \A t : Within(c, p, p, t) => Within(d, p, p, t)
  BY <1>1, WithinGrown
<1> QED BY <1>1, <1>2, <1>3, <1>4 DEF d

-----------------------------------------------------------------------------
(* Statements: the scope s replaces the last one and the code grows. *)
LEMMA TopReplaced ==
  ASSUME ScopesOpen, InBody,
         NEW s, scopes' = [scopes EXCEPT ![Level] = s],
         s.proc = Top.proc, s.begun = TRUE
  PROVE  /\ Level \in Nat /\ Level > 0 /\ Level' = Level /\ IsSeq(scopes')
         /\ \A l \in 1..Level : l < Level => scopes'[l] = scopes[l]
         /\ Top' = s /\ scopes'[Level] = s
         /\ InBody' /\ Current' = Current /\ BodyOf = Current /\ BodyOf' = Current
         /\ Open' = Open /\ Skips' = Skips
         /\ Current \in DOMAIN procs
<1>1. /\ IsSeq(scopes) /\ Level \in Nat /\ Level > 0 /\ DOMAIN scopes = 1..Level
      /\ Level \in 1..Level
  BY SeqFact DEF ScopesOpen, InBody, Level
<1>2. scopes' = [scopes EXCEPT ![Len(scopes)] = s] /\ Len(scopes) > 0
  BY <1>1 DEF Level
<1>3. /\ IsSeq(scopes') /\ Len(scopes') = Len(scopes) /\ scopes'[Len(scopes)] = s
      /\ \A l \in 1..Len(scopes) : l < Len(scopes) => scopes'[l] = scopes[l]
  <2> DEFINE t == [scopes EXCEPT ![Len(scopes)] = s]
  <2>1. /\ IsSeq(t) /\ Len(t) = Len(scopes) /\ t[Len(scopes)] = s
        /\ \A l \in 1..Len(scopes) : l < Len(scopes) => t[l] = scopes[l]
    <3>1. IsSeq(scopes) /\ Len(scopes) > 0
      BY <1>1, <1>2, Zenon
    <3> QED BY <3>1, LastFact, Zenon
  <2> HIDE DEF t
  <2>2. scopes' = t
    BY <1>2 DEF t
  <2> QED BY <2>1, <2>2, Zenon
<1>4. IsSeq(scopes')
  BY <1>3
<1>5. Level' = Level /\ Top' = s /\ scopes'[Level] = s
  BY <1>3, Zenon DEF Level, Top
<1>6. \A l \in 1..Level : l < Level => scopes'[l] = scopes[l]
  BY <1>3, Zenon DEF Level
<1>7. Top.begun /\ Top = scopes[Level]
  BY DEF InBody, Top
<1>8. InBody' /\ Current' = Current /\ Current = Top.proc
  BY <1>1, <1>5 DEF InBody, Current
<1>9. \A l \in 1..Level : scopes'[l].proc = scopes[l].proc /\ scopes'[l].begun = scopes[l].begun
  <2>1. Top.begun = TRUE
    BY <1>1, <1>7 DEF ScopesOpen
  <2> QED BY <1>1, <1>5, <1>6, <1>7, <2>1
<1>10. Open' = Open
  BY <1>5, <1>9 DEF Open
<1>11. Skips' = Skips
  BY <1>5, <1>6, <1>9, <1>7, <1>1 DEF Skips
<1>12. BodyOf = Current /\ BodyOf' = Current
  BY <1>8 DEF BodyOf
<1>13. Current \in DOMAIN procs
  BY <1>1, <1>7, <1>8 DEF ScopesOpen
<1> QED BY <1>1, <1>4, <1>5, <1>6, <1>8, <1>10, <1>11, <1>12, <1>13

SameProc(p, q) == /\ p.outer = q.outer /\ p.level = q.level /\ p.code_ofs = q.code_ofs
                  /\ p.fwd_decl = q.fwd_decl /\ p.symbols = q.symbols

(* What a statement does to the scope of the procedure it is in. *)
Restated(s, t) == /\ DOMAIN t = ScopeFields
                  /\ t.proc = s.proc /\ t.begun = TRUE
                  /\ t.skip_nested = s.skip_nested /\ t.saved_ret = s.saved_ret

(* A step in a body that keeps the parts of the invariant keeps it. *)
LEMMA BodyStep ==
  ASSUME IInv, InBody,
         NEW s, scopes' = [scopes EXCEPT ![Level] = s], Restated(Top, s),
         IsSeq(s.nest), \A i \in DOMAIN s.nest : Construct(code', Current, s.nest[i]),
         s.local_top \in Int, Holds(-s.local_top, s.symbols),
         Flows(code', Current, Skips), Grown(code, code', Current),
         code'[procs[Current].code_ofs].size = -s.local_top,
         \A a \in 1..Len(code) : a # procs[Current].code_ofs => FrameKept(code, code', a),
         ret_patch_list' \subseteq JumpsOf(code', Current),
         ProcsKnown', CallsKnown',
         DOMAIN procs' = DOMAIN procs, \A p \in DOMAIN procs : SameProc(procs[p], procs'[p]),
         UNCHANGED <<cur_prologue_patch, text, stage>>
  PROVE  IInv'
<1> USE DEF IInv
<1>1. s.proc = Top.proc /\ s.begun = TRUE
  BY DEF Restated
<1>2. /\ Level \in Nat /\ Level > 0 /\ Level' = Level /\ IsSeq(scopes')
      /\ \A l \in 1..Level : l < Level => scopes'[l] = scopes[l]
      /\ Top' = s /\ scopes'[Level] = s
      /\ InBody' /\ Current' = Current /\ BodyOf' = Current
      /\ Open' = Open /\ Skips' = Skips
      /\ Current \in DOMAIN procs
  BY <1>1, TopReplaced
<1>3. CodeFlows'
  BY <1>2, Zenon DEF CodeFlows
<1>4. /\ DOMAIN code = 1..Len(code) /\ DOMAIN code' = 1..Len(code')
      /\ \A a \in DOMAIN code : a \in DOMAIN code' /\ SameIns(code[a], code'[a])
  <2>1. IsSeq(code) /\ IsSeq(code')
    BY DEF Grown
  <2>2. /\ Len(code) \in Nat /\ Len(code') \in Nat /\ Len(code) <= Len(code')
        /\ DOMAIN code = 1..Len(code) /\ DOMAIN code' = 1..Len(code')
    BY <2>1, SeqFact DEF Grown
  <2>3. \A a \in 1..Len(code) : a \in 1..Len(code')
    BY <2>2
  <2> QED BY <2>2, <2>3, Zenon DEF Grown
<1>5. ScopesOpen'
  <2>1. \A l \in 1..Level :
          /\ DOMAIN scopes'[l] = ScopeFields
          /\ scopes'[l].proc = scopes[l].proc
          /\ scopes'[l].begun \in BOOLEAN
          /\ l < Level => ~scopes'[l].begun
          /\ ~scopes'[l].begun => scopes'[l].nest = <<>>
          /\ IsSeq(scopes'[l].nest)
          /\ scopes'[l].skip_nested = scopes[l].skip_nested
          /\ scopes'[l].saved_ret = scopes[l].saved_ret
    <3> SUFFICES ASSUME NEW l \in 1..Level
                 PROVE  /\ DOMAIN scopes'[l] = ScopeFields
                        /\ scopes'[l].proc = scopes[l].proc
                        /\ scopes'[l].begun \in BOOLEAN
                        /\ l < Level => ~scopes'[l].begun
                        /\ ~scopes'[l].begun => scopes'[l].nest = <<>>
                        /\ IsSeq(scopes'[l].nest)
                        /\ scopes'[l].skip_nested = scopes[l].skip_nested
                        /\ scopes'[l].saved_ret = scopes[l].saved_ret
      OBVIOUS
    <3>1. CASE l < Level
      BY <1>2, <3>1, Zenon DEF ScopesOpen
    <3>2. CASE l = Level
      <4>1. ~(l < Level)
        BY <1>2, <3>2
      <4> QED BY <1>2, <3>2, <4>1, Zenon DEF Restated, Top
    <3> QED BY <1>2, <3>1, <3>2
  <2>2. \A l \in 1..Level :
          /\ scopes[l].skip_nested \in DOMAIN code'
          /\ code'[scopes[l].skip_nested].op = "jmp"
          /\ code'[scopes[l].skip_nested].of = scopes[l].proc
    BY <1>4, Zenon DEF ScopesOpen, SameIns
  <2>3. \A l \in 1..Level : \A m \in 1..l-1 : m \in 1..Level
    BY <1>2
  <2>4. \A l \in 1..Level : /\ scopes[l].proc \in DOMAIN procs'
                            /\ \A m \in 1..l-1 : scopes[m].proc < scopes[l].proc
                            /\ scopes[l].saved_ret = {}
    BY DEF ScopesOpen
  <2>5. \A l \in 1..Level : \A m \in 1..l-1 : scopes'[m].proc < scopes'[l].proc
    BY <2>1, <2>3, <2>4, Zenon
  <2>6. \A l \in 1..Level :
          /\ scopes'[l].proc \in DOMAIN procs'
          /\ scopes'[l].skip_nested \in DOMAIN code'
          /\ code'[scopes'[l].skip_nested].op = "jmp"
          /\ code'[scopes'[l].skip_nested].of = scopes'[l].proc
          /\ scopes'[l].saved_ret = {}
    BY <2>1, <2>2, <2>4, Zenon
  <2> QED BY <1>2, <2>1, <2>5, <2>6, Zenon DEF ScopesOpen
<1>6. NestPatches'
  BY <1>2, Zenon DEF NestPatches, Nest
<1>7. FramesFit'
  <2>1. \A l \in 1..Level : scopes'[l].local_top \in Int
                            /\ Holds(-scopes'[l].local_top, scopes'[l].symbols)
    <3>1. \A l \in 1..Level : l < Level \/ l = Level
      BY <1>2
    <3> QED BY <1>2, <3>1, Zenon DEF FramesFit
  <2>2. SameProc(procs[Current], procs'[Current])
    BY <1>2
  <2>3. cur_prologue_patch' = procs'[Current].code_ofs
    BY <2>2, Zenon DEF FramesFit, SameProc
  <2>4. FrameSize(Current)' = -s.local_top
    BY <1>2, <2>2, Zenon DEF FrameSize, SameProc
  <2>5. ASSUME NEW p \in DOMAIN procs, p \notin Open
        PROVE  Holds(IF procs'[p].code_ofs = 0 THEN 0 ELSE code'[procs'[p].code_ofs].size,
                     procs'[p].symbols)
    <3>1. /\ procs'[p].code_ofs = procs[p].code_ofs /\ procs'[p].symbols = procs[p].symbols
          /\ Holds(IF procs[p].code_ofs = 0 THEN 0 ELSE code[procs[p].code_ofs].size,
                   procs[p].symbols)
      BY <2>5, Zenon DEF FramesFit, FrameSize, SameProc
    <3>2. CASE procs[p].code_ofs = 0
      BY <3>1, <3>2
    <3>3. CASE procs[p].code_ofs # 0
      <4>1. Current \in Open
        <5>1. Level \in 1..Level /\ Level # 0
          BY <1>2
        <5> QED BY <5>1, Zenon DEF Open, Current, Top
      <4>2. IsPrologue(code, procs[p].code_ofs, p) /\ p # Current
        BY <2>5, <3>3, <4>1 DEF ProcsKnown
      <4>3. procs[Current].code_ofs # 0 => IsPrologue(code, procs[Current].code_ofs, Current)
        BY <1>2 DEF ProcsKnown
      <4>4. procs[Current].code_ofs # procs[p].code_ofs
        BY <4>2, <4>3, <3>3, Zenon DEF IsPrologue
      <4>5. code'[procs[p].code_ofs].size = code[procs[p].code_ofs].size
        BY <1>4, <4>2, <4>4, Zenon DEF IsPrologue, FrameKept
      <4> QED BY <3>1, <3>3, <4>5
    <3> QED BY <3>2, <3>3
  <2>6. \A p \in DOMAIN procs' : p \notin Open' =>
           Holds(IF procs'[p].code_ofs = 0 THEN 0 ELSE FrameSize(p)', procs'[p].symbols)
    BY <1>2, <2>5, Zenon DEF FrameSize
  <2> QED BY <1>2, <2>1, <2>3, <2>4, <2>6, Zenon DEF FramesFit
<1>8. Over'
  BY <1>2, Zenon DEF Over, SameProc
<1>9. text' \in Texts
  OBVIOUS
<1> QED BY <1>3, <1>5, <1>6, <1>7, <1>8, <1>9

(* Code without calls and prologues leaves calls and procedures as they     *)
(* are.                                                                     *)
LEMMA QuietCalls ==
  ASSUME ProcsKnown, CallsKnown, Open' = Open, UNCHANGED procs,
         NEW p, Grown(code, code', p), Quiet(code, code')
  PROVE  ProcsKnown' /\ CallsKnown'
<1>1. /\ DOMAIN code = 1..Len(code) /\ DOMAIN code' = 1..Len(code')
      /\ \A a \in DOMAIN code : a \in DOMAIN code' /\ SameIns(code[a], code'[a])
      /\ \A a \in DOMAIN code' : a \in DOMAIN code \/ a \in Len(code)+1..Len(code')
  <2>1. IsSeq(code) /\ IsSeq(code')
    BY DEF Grown
  <2>2. /\ Len(code) \in Nat /\ Len(code') \in Nat /\ Len(code) <= Len(code')
        /\ DOMAIN code = 1..Len(code) /\ DOMAIN code' = 1..Len(code')
    BY <2>1, SeqFact DEF Grown
  <2>3. /\ \A a \in 1..Len(code) : a \in 1..Len(code')
        /\ \A a \in 1..Len(code') : a \in 1..Len(code) \/ a \in Len(code)+1..Len(code')
    BY <2>2
  <2> QED BY <2>2, <2>3, Zenon DEF Grown
<1>2. ProcsKnown'
  <2>1. \A a, q : IsPrologue(code, a, q) => IsPrologue(code', a, q)
    BY <1>1, Zenon DEF IsPrologue, SameIns
  <2>2. ASSUME NEW q \in DOMAIN procs, NEW a \in procs[q].fwd_patches
        PROVE  a \in DOMAIN code' /\ code'[a].op = "call" /\ code'[a].src.p = q
    <3>1. a \in DOMAIN code /\ code[a].op = "call" /\ code[a].src.p = q
      BY Zenon DEF ProcsKnown
    <3> QED BY <1>1, <3>1, Zenon DEF SameIns
  <2> QED BY <2>1, <2>2, Zenon DEF ProcsKnown
<1>3. CallsKnown'
  <2> SUFFICES ASSUME NEW a \in DOMAIN code', code'[a].op = "call"
               PROVE  /\ code'[a].src.p \in DOMAIN procs
                      /\ IF procs[code'[a].src.p].fwd_decl
                         THEN a \in procs[code'[a].src.p].fwd_patches
                         ELSE code'[a].to = procs[code'[a].src.p].code_ofs
    BY Zenon DEF CallsKnown
  <2>1. a \in DOMAIN code
    BY <1>1 DEF Quiet
  <2>2. code[a].op = "call" /\ code'[a].src = code[a].src /\ code'[a].to = code[a].to
    BY <1>1, <2>1, Zenon DEF SameIns
  <2> QED BY <2>1, <2>2, Zenon DEF CallsKnown
<1> QED BY <1>2, <1>3

(* The code after a statement that calls nothing. *)
Stated == /\ Coded(code, code', Current, Skips)
          /\ ret_patch_list' \subseteq JumpsOf(code', Current)
          /\ UNCHANGED <<procs, cur_prologue_patch, text, stage>>

(* A statement rewrites the innermost scope and allocates nothing. *)
LEMMA StatementStep ==
  ASSUME IInv, InBody, Stated,
         NEW s, scopes' = [scopes EXCEPT ![Level] = s], Restated(Top, s),
         s.local_top = Top.local_top, s.symbols = Top.symbols,
         IsSeq(s.nest), \A i \in DOMAIN s.nest : Construct(code', Current, s.nest[i])
  PROVE  IInv'
<1> USE DEF Stated, Coded
<1>1. /\ IsSeq(scopes) /\ Level \in Nat /\ Level > 0 /\ Level \in 1..Level
      /\ Top = scopes[Level]
  <2>1. IsSeq(scopes)
    BY DEF IInv, ScopesOpen
  <2>2. Level \in Nat /\ Level > 0 /\ Level \in 1..Level
    BY <2>1, SeqFact DEF InBody, Level
  <2> QED BY <2>1, <2>2 DEF Top
<1>2. scopes' = [scopes EXCEPT ![Level] = s]
  OBVIOUS
<1>3. s.proc = Top.proc /\ s.begun = TRUE /\ s.local_top = Top.local_top
      /\ s.symbols = Top.symbols
  BY DEF Restated
<1>5. s.local_top \in Int /\ Holds(-s.local_top, s.symbols)
  BY <1>1, <1>3, Zenon DEF IInv, FramesFit
<1>6. Current \in DOMAIN procs /\ Open' = Open /\ Current \in Open /\ DOMAIN code = 1..Len(code)
  <2>1. Current \in DOMAIN procs /\ Open' = Open
    BY <1>2, <1>3, TopReplaced DEF IInv
  <2>2. Current \in Open
    <3>1. Level # 0
      BY <1>1
    <3> QED BY <1>1, <3>1, Zenon DEF Current, Open
  <2>3. DOMAIN code = 1..Len(code)
    BY SeqFact DEF Grown
  <2> QED BY <2>1, <2>2, <2>3
<1>7. IsPrologue(code, procs[Current].code_ofs, Current)
  <2>1. procs[Current].code_ofs # 0
    BY <1>6, Zenon DEF IInv, ProcsKnown
  <2> QED BY <1>6, <2>1, Zenon DEF IInv, ProcsKnown
<1>8. code'[procs[Current].code_ofs].size = -s.local_top
  BY <1>3, <1>6, <1>7, Zenon DEF IsPrologue, FramesKept, FrameKept, IInv, FramesFit, FrameSize
<1>9. \A a \in 1..Len(code) : a # procs[Current].code_ofs => FrameKept(code, code', a)
  BY Zenon DEF FramesKept
<1>10. ProcsKnown' /\ CallsKnown'
  BY <1>6, QuietCalls DEF IInv
<1>11. DOMAIN procs' = DOMAIN procs /\ \A p \in DOMAIN procs : SameProc(procs[p], procs'[p])
  BY Zenon DEF SameProc
<1> QED BY <1>2, <1>5, <1>8, <1>9, <1>10, <1>11, BodyStep

(* The state in the body of a procedure. *)
LEMMA BodyFact ==
  ASSUME IInv, InBody
  PROVE  /\ Flows(code, Current, Skips) /\ IsSeq(code)
         /\ Current # 0 /\ Current \in DOMAIN procs /\ Current \in Open
         /\ Level \in Nat /\ Level > 0 /\ DOMAIN scopes = 1..Level /\ Level \in 1..Level
         /\ Top = scopes[Level] /\ DOMAIN Top = ScopeFields /\ Top.begun = TRUE
         /\ IsSeq(Nest) /\ \A i \in DOMAIN Nest : Construct(code, Current, Nest[i])
         /\ ret_patch_list \subseteq JumpsOf(code, Current)
         /\ Len(code) \in Nat /\ DOMAIN code = 1..Len(code)
<1>1. IsSeq(scopes) /\ IsSeq(procs) /\ Flows(code, BodyOf, Skips) /\ IsSeq(code)
  BY DEF IInv, ScopesOpen, ProcsKnown, CodeFlows, Flows
<1>2. Level \in Nat /\ Level > 0 /\ Level \in 1..Level /\ DOMAIN scopes = 1..Level
  BY <1>1, SeqFact DEF InBody, Level
<1>3. scopes[Level].begun \in BOOLEAN /\ DOMAIN scopes[Level] = ScopeFields
      /\ scopes[Level].proc \in DOMAIN procs /\ IsSeq(scopes[Level].nest)
  BY <1>2 DEF IInv, ScopesOpen
<1>4. Top = scopes[Level] /\ Current = Top.proc /\ BodyOf = Current
  <2>1. Level # 0
    BY <1>2
  <2> QED BY <2>1, Zenon DEF Top, Current, BodyOf
<1>5. Top.begun = TRUE /\ IsSeq(Nest)
  BY <1>3, <1>4 DEF InBody, Nest
<1>6. Current \in DOMAIN procs /\ Current # 0
  <2>1. DOMAIN procs = 1..Len(procs)
    BY <1>1, SeqFact
  <2> QED BY <1>3, <1>4, <2>1
<1>7. Current \in Open
  BY <1>2, <1>4, Zenon DEF Open
<1>8. Len(code) \in Nat /\ DOMAIN code = 1..Len(code)
  BY <1>1, SeqFact
<1>9. ret_patch_list \subseteq JumpsOf(code, Current)
  BY Zenon DEF IInv, ScopesOpen
<1>10. \A i \in DOMAIN Nest : Construct(code, Current, Nest[i])
  BY Zenon DEF IInv, NestPatches
<1> QED BY <1>1, <1>2, <1>3, <1>4, <1>5, <1>6, <1>7, <1>8, <1>9, <1>10, Zenon

(* A statement that leaves the open constructs alone. *)
LEMMA PlainStep ==
  ASSUME IInv, InBody, Stated, UNCHANGED scopes
  PROVE  IInv'
<1>1. /\ Level \in 1..Level /\ DOMAIN scopes = 1..Level /\ Top = scopes[Level]
      /\ DOMAIN Top = ScopeFields /\ Top.begun = TRUE
      /\ IsSeq(Nest) /\ IsSeq(scopes) /\ \A i \in DOMAIN Nest : Construct(code, Current, Nest[i])
  BY BodyFact DEF IInv, ScopesOpen
<1>2. scopes' = [scopes EXCEPT ![Level] = Top]
  <2>1. scopes = [i \in 1..Level |-> scopes[i]]
    BY <1>1, SeqFact, Zenon DEF Level
  <2> QED BY <1>1, <2>1
<1>3. \A i \in DOMAIN Nest : Construct(code', Current, Nest[i])
  BY <1>1, ConstructGrown DEF Stated, Coded
<1>4. Restated(Top, Top)
  BY <1>1 DEF Restated
<1> QED BY <1>1, <1>2, <1>3, <1>4, StatementStep DEF Nest

(* Statements that turn the open constructs into n. *)
LEMMA NestStep ==
  ASSUME IInv, InBody, Stated,
         NEW n, scopes' = [scopes EXCEPT ![Level].nest = n],
         IsSeq(n), \A i \in DOMAIN n : Construct(code', Current, n[i])
  PROVE  IInv'
<1> DEFINE s == [Top EXCEPT !.nest = n]
<1>1. /\ DOMAIN scopes = 1..Level /\ Level \in 1..Level
      /\ Top = scopes[Level] /\ DOMAIN Top = ScopeFields /\ Top.begun = TRUE
  BY BodyFact
<1>2. scopes' = [scopes EXCEPT ![Level] = s]
  BY <1>1
<1>3. /\ DOMAIN s = ScopeFields /\ s.proc = Top.proc /\ s.begun = TRUE
      /\ s.skip_nested = Top.skip_nested /\ s.saved_ret = Top.saved_ret
      /\ s.nest = n /\ s.local_top = Top.local_top /\ s.symbols = Top.symbols
  BY <1>1 DEF ScopeFields
<1> HIDE DEF s
<1>4. Restated(Top, s)
  BY <1>3 DEF Restated
<1>5. IsSeq(s.nest) /\ \A i \in DOMAIN s.nest : Construct(code', Current, s.nest[i])
  BY <1>3, Zenon
<1> QED BY <1>2, <1>3, <1>4, <1>5, StatementStep

(* A statement that opens a construct. *)
LEMMA EncloseStep ==
  ASSUME IInv, InBody, Stated, NEW s, Enclose(s), Construct(code', Current, s)
  PROVE  IInv'
<1> DEFINE n == Append(Nest, s)
<1>1. IsSeq(Nest) /\ Level \in 1..Level /\ DOMAIN scopes = 1..Level /\ Top = scopes[Level]
      /\ \A i \in DOMAIN Nest : Construct(code, Current, Nest[i])
  BY BodyFact
<1>2. scopes' = [scopes EXCEPT ![Level].nest = n]
  BY <1>1 DEF Enclose, Nest
<1>3. /\ IsSeq(n) /\ DOMAIN n = 1..Len(Nest)+1 /\ DOMAIN Nest = 1..Len(Nest) /\ Len(Nest) \in Nat
      /\ \A i \in 1..Len(Nest) : n[i] = Nest[i]
      /\ n[Len(Nest) + 1] = s
  BY <1>1, AppendFact, SeqFact
<1> HIDE DEF n
<1>4. \A i \in DOMAIN n : Construct(code', Current, n[i])
  <2>1. \A i \in DOMAIN n : i \in 1..Len(Nest) \/ i = Len(Nest) + 1
    BY <1>3
  <2>2. \A i \in DOMAIN Nest : Construct(code', Current, Nest[i])
    BY <1>1, ConstructGrown DEF Stated, Coded
  <2> QED BY <1>3, <2>1, <2>2, Zenon
<1> QED BY <1>2, <1>3, <1>4, NestStep

(* A statement by which the innermost construct becomes another one. *)
LEMMA BecomeStep ==
  ASSUME IInv, InBody, Nest # <<>>, Stated, NEW s, Become(s), Construct(code', Current, s)
  PROVE  IInv'
<1> DEFINE n == [Nest EXCEPT ![Len(Nest)] = s]
<1>1. /\ IsSeq(Nest) /\ Level \in 1..Level /\ DOMAIN scopes = 1..Level /\ Top = scopes[Level]
      /\ \A i \in DOMAIN Nest : Construct(code, Current, Nest[i])
  BY BodyFact
<1>2. scopes' = [scopes EXCEPT ![Level].nest = n]
  BY <1>1 DEF Become, Nest
<1>3. /\ Len(Nest) > 0 /\ Len(Nest) \in Nat /\ DOMAIN Nest = 1..Len(Nest)
      /\ \A i \in 1..Len(Nest) : i < Len(Nest) \/ i = Len(Nest)
  <2>1. Len(Nest) > 0 /\ Len(Nest) \in Nat /\ DOMAIN Nest = 1..Len(Nest)
    BY <1>1, FrontFact, SeqFact
  <2>2. \A k \in Nat : \A i \in 1..k : i < k \/ i = k
    OBVIOUS
  <2> QED BY <2>1, <2>2, Zenon
<1>4. /\ IsSeq(n) /\ DOMAIN n = 1..Len(Nest)
      /\ \A i \in 1..Len(Nest) : i < Len(Nest) => n[i] = Nest[i]
      /\ n[Len(Nest)] = s
  BY <1>1, <1>3, LastFact, SeqFact
<1> HIDE DEF n
<1>5. \A i \in DOMAIN n : Construct(code', Current, n[i])
  <2>1. \A i \in DOMAIN Nest : Construct(code', Current, Nest[i])
    BY <1>1, ConstructGrown DEF Stated, Coded
  <2> QED BY <1>3, <1>4, <2>1, Zenon
<1> QED BY <1>2, <1>4, <1>5, NestStep

(* A statement that ends the innermost construct. *)
LEMMA LeaveStep ==
  ASSUME IInv, InBody, Nest # <<>>, Stated, Leave
  PROVE  IInv'
<1> DEFINE n == SubSeq(Nest, 1, Len(Nest) - 1)
<1>1. /\ IsSeq(Nest) /\ Level \in 1..Level /\ DOMAIN scopes = 1..Level /\ Top = scopes[Level]
      /\ \A i \in DOMAIN Nest : Construct(code, Current, Nest[i])
  BY BodyFact
<1>2. scopes' = [scopes EXCEPT ![Level].nest = n]
  BY <1>1 DEF Leave, Nest
<1>3. /\ Len(Nest) > 0 /\ Len(Nest) \in Nat /\ DOMAIN Nest = 1..Len(Nest)
      /\ IsSeq(n) /\ DOMAIN n = 1..Len(Nest)-1
      /\ \A i \in 1..Len(Nest)-1 : n[i] = Nest[i]
  BY <1>1, FrontFact, SeqFact
<1> HIDE DEF n
<1>4. \A i \in DOMAIN n : Construct(code', Current, n[i])
  <2>1. \A i \in 1..Len(Nest)-1 : i \in 1..Len(Nest)
    BY <1>3
  <2>2. \A i \in DOMAIN Nest : Construct(code', Current, Nest[i])
    BY <1>1, ConstructGrown DEF Stated, Coded
  <2> QED BY <1>3, <2>1, <2>2, Zenon
<1> QED BY <1>2, <1>3, <1>4, NestStep

-----------------------------------------------------------------------------
(* What the parser emits *)
LEMMA StraightFact ==
  ASSUME NEW op, op \notin {"jmp", "jz", "ret", "call", "prologue"},
         NEW src, NEW k, NEW item, NEW name
  PROVE  Straight(Ins(op, src), Current) /\ Straight(Access(op, k, item, name), Current)
<1>1. Straight(Ins(op, src), Current)
  BY DEF Straight, Ins, Formed, Jumps
<1>2. Straight(Access(op, k, item, name), Current)
  <2> DEFINE i == Access(op, k, item, name)
  <2>1. i.op = op /\ i.of = Current /\ {"op", "of", "src"} \subseteq DOMAIN i
    BY DEF Access
  <2> HIDE DEF i
  <2>2. Straight(i, Current)
    BY <2>1 DEF Straight, Formed, Jumps
  <2> QED BY <2>2 DEF i
<1> QED BY <1>1, <1>2

(* The branches that the parser emits are jumps of the current procedure. *)
LEMMA JumpFact ==
  ASSUME NEW op \in Jumps, NEW to, NEW at
  PROVE  /\ JumpIn(BranchTo(op, to), Current)
         /\ BranchTo(op, to).to = to /\ BranchTo(op, to).op = op
         /\ JumpIn(Branch(op, at), Current)
         /\ Branch(op, at).to = at + 1 /\ Branch(op, at).op = op
<1>1. JumpIn(BranchTo(op, to), Current) /\ BranchTo(op, to).to = to /\ BranchTo(op, to).op = op
  BY DEF JumpIn, BranchTo, Formed, Jumps
<1> DEFINE t == at + 1
<1>2. Branch(op, at) = BranchTo(op, t)
  BY DEF Branch, BranchTo
<1> HIDE DEF t
<1>3. JumpIn(BranchTo(op, t), Current) /\ BranchTo(op, t).to = t /\ BranchTo(op, t).op = op
  BY DEF JumpIn, BranchTo, Formed, Jumps
<1> QED BY <1>1, <1>2, <1>3, Zenon DEF t

(* The jumps of a procedure stay its jumps when the code grows. *)
LEMMA JumpsGrown ==
  ASSUME NEW c, NEW d, NEW p, Grown(c, d, p)
  PROVE  JumpsOf(c, p) \subseteq JumpsOf(d, p)
<1>1. /\ Len(c) \in Nat /\ Len(d) \in Nat /\ Len(c) <= Len(d)
      /\ DOMAIN c = 1..Len(c) /\ DOMAIN d = 1..Len(d)
  BY SeqFact DEF Grown
<1>2. \A a \in 1..Len(c) : a \in 1..Len(d) /\ SameIns(c[a], d[a])
  BY <1>1 DEF Grown
<1> QED BY <1>1, <1>2 DEF JumpsOf, SameIns

(* The constructs a statement may leave open. *)
LEMMA ConstructFact ==
  ASSUME NEW c, NEW p, NEW hole \in JumpsOf(c, p), NEW ends, ends \subseteq JumpsOf(c, p),
         NEW top, NEW x
  PROVE  /\ Construct(c, p, [k |-> "if", jf |-> hole, ends |-> ends])
         /\ Construct(c, p, [k |-> "arm", slot |-> x, ends |-> ends, skip |-> hole])
         /\ Within(c, p, p, top) =>
               /\ Construct(c, p, [k |-> "while", top |-> top, jf |-> hole])
               /\ Construct(c, p, [k |-> "for", var |-> x, top |-> top, jend |-> hole])
<1>1. Construct(c, p, [k |-> "if", jf |-> hole, ends |-> ends])
  BY DEF Construct, HolesIn, LoopTop
<1>2. Construct(c, p, [k |-> "arm", slot |-> x, ends |-> ends, skip |-> hole])
  BY DEF Construct, HolesIn, LoopTop
<1>3. ASSUME Within(c, p, p, top)
      PROVE  /\ Construct(c, p, [k |-> "while", top |-> top, jf |-> hole])
             /\ Construct(c, p, [k |-> "for", var |-> x, top |-> top, jend |-> hole])
  BY <1>3 DEF Construct, HolesIn, LoopTop
<1> QED BY <1>1, <1>2, <1>3

(* The constructs whose holes are all in "ends", or that have none. *)
LEMMA HolelessFact ==
  ASSUME NEW c, NEW p, NEW ends, ends \subseteq JumpsOf(c, p), NEW top, NEW x
  PROVE  /\ Construct(c, p, [k |-> "else", ends |-> ends])
         /\ Construct(c, p, [k |-> "case", slot |-> x, ends |-> ends])
         /\ Construct(c, p, [k |-> "case else", ends |-> ends])
         /\ Within(c, p, p, top) => Construct(c, p, [k |-> "repeat", top |-> top])
<1>1. /\ Construct(c, p, [k |-> "else", ends |-> ends])
      /\ Construct(c, p, [k |-> "case", slot |-> x, ends |-> ends])
      /\ Construct(c, p, [k |-> "case else", ends |-> ends])
  BY DEF Construct, HolesIn, LoopTop
<1>2. Within(c, p, p, top) => Construct(c, p, [k |-> "repeat", top |-> top])
  BY DEF Construct, HolesIn, LoopTop
<1> QED BY <1>1, <1>2, Zenon

(* The construct a statement is in. *)
LEMMA InnerFact ==
  ASSUME IInv, InBody, Nest # <<>>
  PROVE  Construct(code, Current, Inner)
<1>1. IsSeq(Nest) /\ \A i \in DOMAIN Nest : Construct(code, Current, Nest[i])
  BY BodyFact
<1>2. Len(Nest) \in DOMAIN Nest
  BY <1>1, FrontFact, SeqFact
<1> QED BY <1>1, <1>2 DEF Inner

(* Within a body the code is in order before anything is emitted. *)
LEMMA CodedSelf ==
  ASSUME IInv, InBody
  PROVE  /\ Coded(code, code, Current, Skips) /\ Current # 0
         /\ Within(code, Current, Current, Pc)
         /\ Len(code) \in Nat /\ Pc = Len(code) + 1
<1>1. /\ Flows(code, Current, Skips) /\ IsSeq(code) /\ Current # 0
      /\ Len(code) \in Nat
  BY BodyFact
<1>2. Grown(code, code, Current) /\ Quiet(code, code) /\ FramesKept(code, code)
  <2>1. \A a \in 1..Len(code) : SameIns(code[a], code[a]) /\ FrameKept(code, code, a)
    BY DEF SameIns, FrameKept
  <2>2. Len(code) <= Len(code) /\ \A a \in Len(code)+1..Len(code) : FALSE
    BY <1>1
  <2> QED BY <1>1, <2>1, <2>2 DEF Grown, Quiet, FramesKept
<1> QED BY <1>1, <1>2, Zenon DEF Coded, Within, Pc

(* A step that only emits is a statement. *)
LEMMA EmittedStep ==
  ASSUME IInv, InBody, Coded(code, code', Current, Skips),
         Emitting, UNCHANGED <<text, stage>>
  PROVE  Stated
<1>1. ret_patch_list \subseteq JumpsOf(code, Current)
  BY BodyFact
<1>2. JumpsOf(code, Current) \subseteq JumpsOf(code', Current)
  BY JumpsGrown DEF Coded
<1> QED BY <1>1, <1>2 DEF Stated, Emitting

-----------------------------------------------------------------------------
(* The statements keep the invariant *)
LEMMA StatementFact ==
  ASSUME NEW k
  PROVE  /\ Body(k) => InBody /\ stage = "compile" /\ UNCHANGED <<text, stage>>
         /\ Statement(k) => InBody /\ stage = "compile" /\ Emitting /\ UNCHANGED <<text, stage>>
         /\ StatSeq(k) => InBody /\ stage = "compile" /\ UNCHANGED <<text, stage>>
BY Zenon DEF Body, Statement, StatSeq, Parse

(* A statement that changes no more than the code. *)
LEMMA AssignStep ==
  ASSUME IInv, NEW d, Assign(d)
  PROVE  IInv'
<1> DEFINE e == <<Load(d), Const, Store(d)>>
<1>1. InBody /\ Emitting /\ UNCHANGED <<text, stage, scopes>> /\ code' = code \o e
  BY StatementFact DEF Assign
<1>2. Coded(code, code, Current, Skips) /\ Current # 0
  BY <1>1, CodedSelf
<1>3. Straight(Load(d), Current) /\ Straight(Const, Current) /\ Straight(Store(d), Current)
  BY StraightFact DEF Load, Store, Const
<1>4. Chunk(code, e, Current)
  <2>1. IsSeq(e) /\ Len(e) = 3 /\ e[1] = Load(d) /\ e[2] = Const /\ e[3] = Store(d)
    <3>1. e \in Seq({Load(d), Const, Store(d)})
      OBVIOUS
    <3> QED BY <3>1, SeqIs
  <2>2. \A i \in 1..3 : i \in {1, 2, 3}
    OBVIOUS
  <2> HIDE DEF e
  <2>3. \A i \in 1..Len(e) : Straight(e[i], Current)
    BY <1>3, <2>1, <2>2
  <2>4. Len(e) > 0
    BY <2>1
  <2> QED BY <2>1, <2>3, <2>4 DEF Chunk
<1> HIDE DEF e
<1>5. Coded(code, code', Current, Skips)
  BY <1>1, <1>2, <1>4, CodedEmit
<1> QED BY <1>1, <1>5, EmittedStep, PlainStep

(* RETURN: a jump to the epilogue, patched at END. *)
LEMMA ReturnStep ==
  ASSUME IInv, Return
  PROVE  IInv'
<1> DEFINE i == Branch("jmp", Pc)
<1>1. /\ InBody /\ UNCHANGED <<text, stage, scopes, procs, cur_prologue_patch>>
      /\ code' = Append(code, i) /\ ret_patch_list' = ret_patch_list \cup {Pc}
  BY StatementFact DEF Return
<1>2. /\ Coded(code, code, Current, Skips) /\ Current # 0
      /\ Len(code) \in Nat /\ Pc = Len(code) + 1
  BY <1>1, CodedSelf
<1>3. JumpIn(i, Current) /\ i.to = Pc + 1 /\ i.op \in Jumps
  BY JumpFact DEF Jumps
<1>4. i.to \in {Len(code) + 1, Len(code) + 2}
  BY <1>2, <1>3
<1> HIDE DEF i
<1>5. Coded(code, code', Current, Skips) /\ Len(code) + 1 \in JumpsOf(code', Current)
  BY <1>1, <1>2, <1>3, <1>4, CodedAppend
<1>6. ret_patch_list' \subseteq JumpsOf(code', Current)
  <2>1. ret_patch_list \subseteq JumpsOf(code, Current)
    BY <1>1, BodyFact
  <2>2. JumpsOf(code, Current) \subseteq JumpsOf(code', Current)
    BY <1>5, JumpsGrown DEF Coded
  <2> QED BY <1>1, <1>2, <1>5, <2>1, <2>2
<1>7. Stated
  BY <1>1, <1>5, <1>6, Zenon DEF Stated
<1> QED BY <1>1, <1>7, PlainStep

(* A branch behind the code that opens a construct. *)
LEMMA OpenFact ==
  ASSUME IInv, InBody, code' = Append(code, Branch("jz", Pc))
  PROVE  /\ Coded(code, code', Current, Skips)
         /\ Pc \in JumpsOf(code', Current) /\ Within(code', Current, Current, Pc)
<1> DEFINE i == Branch("jz", Pc)
<1>1. /\ Coded(code, code, Current, Skips) /\ Current # 0
      /\ Len(code) \in Nat /\ Pc = Len(code) + 1
  BY CodedSelf
<1>2. JumpIn(i, Current) /\ i.to = Pc + 1 /\ i.op \in Jumps
  BY JumpFact DEF Jumps
<1>3. i.to \in {Len(code) + 1, Len(code) + 2} /\ code' = Append(code, i)
  BY <1>1, <1>2
<1> HIDE DEF i
<1>4. /\ Coded(code, Append(code, i), Current, Skips)
      /\ Len(code) + 1 \in JumpsOf(Append(code, i), Current)
      /\ Within(Append(code, i), Current, Current, Len(code) + 1)
  BY <1>1, <1>2, <1>3, CodedAppend, Zenon
<1> QED BY <1>1, <1>3, <1>4, Zenon

(* IF, WHILE and REPEAT open a construct. *)
LEMMA OpenStep ==
  ASSUME IInv, If \/ While \/ Repeat
  PROVE  IInv'
<1>1. CASE If
  <2>1. /\ InBody /\ Emitting /\ UNCHANGED <<text, stage>>
        /\ code' = Append(code, Branch("jz", Pc))
        /\ Enclose([k |-> "if", jf |-> Pc, ends |-> {}])
    BY <1>1, StatementFact DEF If
  <2>2. Coded(code, code', Current, Skips) /\ Pc \in JumpsOf(code', Current)
    BY <2>1, OpenFact
  <2>3. Construct(code', Current, [k |-> "if", jf |-> Pc, ends |-> {}])
    BY <2>2, ConstructFact
  <2> QED BY <2>1, <2>2, <2>3, EmittedStep, EncloseStep
<1>2. CASE While
  <2>1. /\ InBody /\ Emitting /\ UNCHANGED <<text, stage>>
        /\ code' = Append(code, Branch("jz", Pc))
        /\ Enclose([k |-> "while", top |-> Pc, jf |-> Pc])
    BY <1>2, StatementFact DEF While
  <2>2. /\ Coded(code, code', Current, Skips) /\ Pc \in JumpsOf(code', Current)
        /\ Within(code', Current, Current, Pc)
    BY <2>1, OpenFact
  <2>3. Construct(code', Current, [k |-> "while", top |-> Pc, jf |-> Pc])
    BY <2>2, ConstructFact
  <2> QED BY <2>1, <2>2, <2>3, EmittedStep, EncloseStep
<1>3. CASE Repeat
  <2>1. /\ InBody /\ Emitting /\ UNCHANGED <<text, stage, code>>
        /\ Enclose([k |-> "repeat", top |-> Pc])
    BY <1>3, StatementFact DEF Repeat
  <2>2. Coded(code, code', Current, Skips) /\ Within(code', Current, Current, Pc)
    BY <2>1, CodedSelf
  <2>3. Construct(code', Current, [k |-> "repeat", top |-> Pc])
    BY <2>2, HolelessFact, Zenon
  <2> QED BY <2>1, <2>2, <2>3, EmittedStep, EncloseStep
<1> QED BY <1>1, <1>2, <1>3

(* The holes of an open construct are jumps of its procedure. *)
LEMMA HolesFact ==
  ASSUME NEW c, NEW p, NEW s, Construct(c, p, s)
  PROVE  /\ s.k = "if" => s.jf \in JumpsOf(c, p) /\ s.ends \subseteq JumpsOf(c, p)
         /\ s.k = "while" => /\ DOMAIN s = {"k", "top", "jf"}
                             /\ s.jf \in JumpsOf(c, p) /\ Within(c, p, p, s.top)
         /\ s.k = "repeat" => Within(c, p, p, s.top)
         /\ s.k = "for" => s.jend \in JumpsOf(c, p) /\ Within(c, p, p, s.top)
         /\ s.k = "arm" => s.skip \in JumpsOf(c, p) /\ s.ends \subseteq JumpsOf(c, p)
         /\ s.k \in {"else", "case", "case else"} => s.ends \subseteq JumpsOf(c, p)
<1> DEFINE J == JumpsOf(c, p)
<1>1. HolesIn(s) \subseteq J
  BY DEF Construct
<1> HIDE DEF J
<1>2. s.k = "if" => s.jf \in J /\ s.ends \subseteq J
  BY <1>1 DEF HolesIn
<1>3. s.k = "while" => s.jf \in J
  BY <1>1 DEF HolesIn
<1>4. s.k = "for" => s.jend \in J
  BY <1>1 DEF HolesIn
<1>5. s.k = "arm" => s.skip \in J /\ s.ends \subseteq J
  BY <1>1 DEF HolesIn
<1>6. s.k \in {"else", "case", "case else"} => s.ends \subseteq J
  BY <1>1 DEF HolesIn
<1>7. s.k \in {"while", "repeat", "for"} => Within(c, p, p, s.top)
  BY Zenon DEF Construct, LoopTop
<1>8. s.k = "while" => DOMAIN s = {"k", "top", "jf"}
  BY DEF Construct
<1> QED BY <1>2, <1>3, <1>4, <1>5, <1>6, <1>7, <1>8 DEF J

(* The end of an arm: a jump to the end of the construct, the hole patched. *)
LEMMA EndArmFact ==
  ASSUME IInv, InBody, NEW hole \in JumpsOf(code, Current)
  PROVE  /\ Coded(code, EndArm(hole), Current, Skips) /\ Current # 0
         /\ Pc \in JumpsOf(EndArm(hole), Current)
         /\ JumpsOf(code, Current) \subseteq JumpsOf(EndArm(hole), Current)
         /\ Within(EndArm(hole), Current, Current, Pc + 1)
<1> DEFINE i == Branch("jmp", Pc)
           c == Append(code, i)
<1>1. /\ Coded(code, code, Current, Skips) /\ Current # 0
      /\ Len(code) \in Nat /\ Pc = Len(code) + 1
  BY CodedSelf
<1>2. JumpIn(i, Current) /\ i.to = Pc + 1 /\ i.op \in Jumps
  BY JumpFact DEF Jumps
<1>3. i.to \in {Len(code) + 1, Len(code) + 2} /\ Pc + 1 = Len(code) + 2
  BY <1>1, <1>2
<1> HIDE DEF i
<1>4. /\ Coded(code, c, Current, Skips) /\ Pc \in JumpsOf(c, Current)
      /\ JumpsOf(code, Current) \subseteq JumpsOf(c, Current)
      /\ Within(c, Current, Current, Pc + 1)
  BY <1>1, <1>2, <1>3, CodedAppend
<1>5. EndArm(hole) = Patch(c, {hole}, Pc + 1)
  BY DEF EndArm, i
<1>6. {hole} \subseteq JumpsOf(c, Current)
  BY <1>4
<1> HIDE DEF c
<1>7. /\ Coded(code, Patch(c, {hole}, Pc + 1), Current, Skips)
      /\ JumpsOf(c, Current) \subseteq JumpsOf(Patch(c, {hole}, Pc + 1), Current)
      /\ Within(Patch(c, {hole}, Pc + 1), Current, Current, Pc + 1)
  BY <1>1, <1>4, <1>6, CodedPatch
<1> QED BY <1>1, <1>4, <1>5, <1>7, Zenon

(* ELSIF, ELSE and the END of an IF. *)
LEMMA IfStep ==
  ASSUME IInv, Elsif \/ Else \/ EndIf
  PROVE  IInv'
<1>1. CASE Elsif
  <2> DEFINE i == Branch("jmp", Pc)
             j == Branch("jz", Pc + 1)
             e == <<i, j>>
             c == code \o e
             s == [k |-> "if", jf |-> Pc + 1, ends |-> Inner.ends \cup {Pc}]
  <2>1. /\ InBody /\ Emitting /\ UNCHANGED <<text, stage>>
        /\ Nest # <<>> /\ Inner.k = "if"
        /\ code' = Patch(c, {Inner.jf}, Pc + 1)
        /\ Become(s)
    BY <1>1, StatementFact DEF Elsif, InNest
  <2>2. /\ Coded(code, code, Current, Skips) /\ Current # 0
        /\ Len(code) \in Nat /\ Pc = Len(code) + 1
        /\ Inner.jf \in JumpsOf(code, Current) /\ Inner.ends \subseteq JumpsOf(code, Current)
    BY <2>1, CodedSelf, InnerFact, HolesFact
  <2>3. /\ JumpIn(i, Current) /\ i.to = Pc + 1 /\ i.op \in Jumps
        /\ JumpIn(j, Current) /\ j.to = Pc + 1 + 1 /\ j.op \in Jumps
    BY JumpFact DEF Jumps
  <2> HIDE DEF i, j
  <2>4. IsSeq(e) /\ Len(e) = 2 /\ e[1] = i /\ e[2] = j /\ \A n \in 1..2 : n = 1 \/ n = 2
    BY PairFact
  <2> HIDE DEF e
  <2>5. Chunk(code, e, Current)
    <3>1. i.to \in Len(code)+1..Len(code)+2+1 /\ j.to \in Len(code)+1..Len(code)+2+1
      BY <2>2, <2>3
    <3> QED BY <2>3, <2>4, <3>1 DEF Chunk
  <2>6. /\ Coded(code, c, Current, Skips)
        /\ JumpsOf(code, Current) \subseteq JumpsOf(c, Current)
        /\ \A n \in 1..Len(e) : e[n].op \in Jumps => Len(code) + n \in JumpsOf(c, Current)
        /\ \A t \in Len(code)+1..Len(code)+Len(e)+1 : Within(c, Current, Current, t)
    BY <2>2, <2>5, CodedEmit, Zenon
  <2>7. Pc \in JumpsOf(c, Current) /\ Pc + 1 \in JumpsOf(c, Current)
        /\ Within(c, Current, Current, Pc + 1)
    <3>1. 1 \in 1..2 /\ 2 \in 1..2 /\ Pc = Len(code) + 1 /\ Pc + 1 = Len(code) + 2
          /\ Len(code) + 2 \in Len(code)+1..Len(code)+2+1
      BY <2>2
    <3> QED BY <2>3, <2>4, <2>6, <3>1
  <2> HIDE DEF c
  <2>8. /\ Coded(code, code', Current, Skips)
        /\ JumpsOf(c, Current) \subseteq JumpsOf(code', Current)
    <3>1. {Inner.jf} \subseteq JumpsOf(c, Current)
      BY <2>2, <2>6
    <3> QED BY <2>1, <2>2, <2>6, <2>7, <3>1, CodedPatch
  <2>9. Construct(code', Current, s)
    <3>1. /\ Pc + 1 \in JumpsOf(code', Current)
          /\ Inner.ends \cup {Pc} \subseteq JumpsOf(code', Current)
      BY <2>2, <2>6, <2>7, <2>8
    <3> QED BY <3>1, ConstructFact
  <2> QED BY <2>1, <2>8, <2>9, EmittedStep, BecomeStep
<1>2. CASE Else
  <2> DEFINE s == [k |-> "else", ends |-> Inner.ends \cup {Pc}]
  <2>1. /\ InBody /\ Emitting /\ UNCHANGED <<text, stage>>
        /\ Nest # <<>> /\ Inner.k = "if"
        /\ code' = EndArm(Inner.jf) /\ Become(s)
    BY <1>2, StatementFact DEF Else, InNest
  <2>2. Inner.jf \in JumpsOf(code, Current) /\ Inner.ends \subseteq JumpsOf(code, Current)
    BY <2>1, InnerFact, HolesFact
  <2>3. /\ Coded(code, code', Current, Skips)
        /\ Inner.ends \cup {Pc} \subseteq JumpsOf(code', Current)
    BY <2>1, <2>2, EndArmFact
  <2>4. Construct(code', Current, s)
    BY <2>3, HolelessFact, Zenon
  <2> QED BY <2>1, <2>3, <2>4, EmittedStep, BecomeStep
<1>3. CASE EndIf /\ Inner.k = "if"
  <2> DEFINE c == EndArm(Inner.jf)
  <2>1. /\ InBody /\ Emitting /\ UNCHANGED <<text, stage>>
        /\ Nest # <<>> /\ Inner.k = "if"
        /\ code' = Patch(c, Inner.ends \cup {Pc}, Pc + 1) /\ Leave
    BY <1>3, StatementFact DEF EndIf, InNest
  <2>2. Inner.jf \in JumpsOf(code, Current) /\ Inner.ends \subseteq JumpsOf(code, Current)
    BY <2>1, InnerFact, HolesFact
  <2>3. /\ Coded(code, c, Current, Skips) /\ Current # 0
        /\ Inner.ends \cup {Pc} \subseteq JumpsOf(c, Current)
        /\ Within(c, Current, Current, Pc + 1)
    BY <2>1, <2>2, EndArmFact
  <2> HIDE DEF c
  <2>4. Coded(code, code', Current, Skips)
    BY <2>1, <2>3, CodedPatch
  <2> QED BY <2>1, <2>4, EmittedStep, LeaveStep
<1>4. CASE EndIf /\ Inner.k # "if"
  <2>1. /\ InBody /\ Emitting /\ UNCHANGED <<text, stage>>
        /\ Nest # <<>> /\ Inner.k = "else"
        /\ code' = Patch(code, Inner.ends, Pc) /\ Leave
    BY <1>4, StatementFact DEF EndIf, InNest
  <2>2. Inner.ends \subseteq JumpsOf(code, Current)
    BY <2>1, InnerFact, HolesFact
  <2>3. Coded(code, code', Current, Skips)
    BY <2>1, <2>2, CodedSelf, CodedPatch
  <2> QED BY <2>1, <2>3, EmittedStep, LeaveStep
<1> QED BY <1>1, <1>2, <1>3, <1>4

(* The jump back to the condition of a WHILE. *)
LEMMA JumpBackFact ==
  ASSUME IInv, InBody, Nest # <<>>, Inner.k = "while"
  PROVE  /\ Coded(code, JumpBack, Current, Skips) /\ Current # 0
         /\ Len(JumpBack) = Len(code) + 1 /\ Len(code) \in Nat /\ Pc = Len(code) + 1
         /\ JumpsOf(code, Current) \subseteq JumpsOf(JumpBack, Current)
<1> DEFINE i == BranchTo("jmp", Inner.top)
           c == Append(code, i)
<1>1. /\ Coded(code, code, Current, Skips) /\ Current # 0
      /\ Len(code) \in Nat /\ Pc = Len(code) + 1
  BY CodedSelf
<1>2. Inner.jf \in JumpsOf(code, Current) /\ Within(code, Current, Current, Inner.top)
  BY InnerFact, HolesFact, Zenon
<1>3. JumpIn(i, Current) /\ i.to = Inner.top
  BY JumpFact DEF Jumps
<1> HIDE DEF i
<1>4. /\ Coded(code, c, Current, Skips) /\ Len(c) = Len(code) + 1
      /\ JumpsOf(code, Current) \subseteq JumpsOf(c, Current)
      /\ Within(c, Current, Current, Len(code) + 2)
  BY <1>1, <1>2, <1>3, CodedAppend
<1>5. JumpBack = Patch(c, {Inner.jf}, Pc + 1)
  BY DEF JumpBack, i
<1>6. {Inner.jf} \subseteq JumpsOf(c, Current) /\ Pc + 1 = Len(code) + 2
  BY <1>1, <1>2, <1>4
<1> HIDE DEF c
<1>7. /\ Coded(code, Patch(c, {Inner.jf}, Pc + 1), Current, Skips)
      /\ Len(Patch(c, {Inner.jf}, Pc + 1)) = Len(c)
      /\ JumpsOf(c, Current) \subseteq JumpsOf(Patch(c, {Inner.jf}, Pc + 1), Current)
  BY <1>1, <1>4, <1>6, CodedPatch
<1> QED BY <1>1, <1>4, <1>5, <1>7, Zenon

(* ELSIF and END of a WHILE, and UNTIL. *)
LEMMA LoopStep ==
  ASSUME IInv, WhileElsif \/ EndWhile \/ Until
  PROVE  IInv'
<1>1. CASE WhileElsif
  <2> DEFINE i == Branch("jz", Pc + 1)
             s == [k |-> "while", top |-> Inner.top, jf |-> Pc + 1]
  <2>1. /\ InBody /\ Emitting /\ UNCHANGED <<text, stage>>
        /\ Nest # <<>> /\ Inner.k = "while"
        /\ code' = Append(JumpBack, i) /\ Become([Inner EXCEPT !.jf = Pc + 1])
    BY <1>1, StatementFact DEF WhileElsif, InNest
  <2>2. /\ DOMAIN Inner = {"k", "top", "jf"}
        /\ Within(code, Current, Current, Inner.top)
    BY <2>1, InnerFact, HolesFact, Zenon
  <2>3. [Inner EXCEPT !.jf = Pc + 1] = s
    BY <2>1, <2>2
  <2>4. /\ Coded(code, JumpBack, Current, Skips) /\ Current # 0
        /\ Len(JumpBack) = Len(code) + 1 /\ Len(code) \in Nat /\ Pc = Len(code) + 1
    BY <2>1, JumpBackFact
  <2>5. JumpIn(i, Current) /\ i.to = Pc + 1 + 1 /\ i.op \in Jumps
    BY JumpFact DEF Jumps
  <2>6. i.to = Len(JumpBack) + 2 /\ Pc + 1 = Len(JumpBack) + 1
    BY <2>4, <2>5
  <2> HIDE DEF i
  <2>7. Coded(code, code', Current, Skips) /\ Pc + 1 \in JumpsOf(code', Current)
    BY <2>1, <2>4, <2>5, <2>6, CodedAppend
  <2>8. Within(code', Current, Current, Inner.top)
    BY <2>2, <2>7, WithinGrown DEF Coded
  <2>9. Construct(code', Current, s)
    BY <2>7, <2>8, ConstructFact, Zenon
  <2> QED BY <2>1, <2>3, <2>7, <2>9, EmittedStep, BecomeStep
<1>2. CASE EndWhile
  <2>1. /\ InBody /\ Emitting /\ UNCHANGED <<text, stage>>
        /\ Nest # <<>> /\ Inner.k = "while" /\ code' = JumpBack /\ Leave
    BY <1>2, StatementFact, Zenon DEF EndWhile, InNest
  <2>2. Coded(code, code', Current, Skips)
    BY <2>1, JumpBackFact
  <2> QED BY <2>1, <2>2, EmittedStep, LeaveStep
<1>3. CASE Until
  <2> DEFINE i == BranchTo("jz", Inner.top)
  <2>1. /\ InBody /\ Emitting /\ UNCHANGED <<text, stage>>
        /\ Nest # <<>> /\ Inner.k = "repeat" /\ code' = Append(code, i) /\ Leave
    BY <1>3, StatementFact, Zenon DEF Until, InNest
  <2>2. Coded(code, code, Current, Skips) /\ Current # 0
    BY <2>1, CodedSelf
  <2>3. Within(code, Current, Current, Inner.top)
    BY <2>1, InnerFact, HolesFact, Zenon
  <2>4. JumpIn(i, Current) /\ i.to = Inner.top
    BY JumpFact DEF Jumps
  <2> HIDE DEF i
  <2>5. Coded(code, code', Current, Skips)
    BY <2>1, <2>2, <2>3, <2>4, CodedAppend
  <2> QED BY <2>1, <2>5, EmittedStep, LeaveStep
<1> QED BY <1>1, <1>2, <1>3

(* The arms, the ELSE and the END of a CASE. *)
LEMMA CaseStep ==
  ASSUME IInv, Arm \/ EndCaseArm \/ CaseElse \/ EndCase
  PROVE  IInv'
<1>1. CASE Arm
  <2> DEFINE x == Access("load", "read", HiddenItem(Top, Inner.slot), HiddenName(Inner.slot))
             y == BranchTo("jz", Pc + 3)
             z == Branch("jmp", Pc + 2)
             e == <<x, y, z>>
             s == [k |-> "arm", slot |-> Inner.slot, ends |-> Inner.ends, skip |-> Pc + 2]
  <2>1. /\ InBody /\ Emitting /\ UNCHANGED <<text, stage>>
        /\ Nest # <<>> /\ Inner.k = "case"
        /\ code' = code \o e /\ Become(s)
    BY <1>1, StatementFact DEF Arm, InNest
  <2>2. Inner.ends \subseteq JumpsOf(code, Current)
    BY <2>1, InnerFact, HolesFact, Zenon
  <2>3. /\ Coded(code, code, Current, Skips) /\ Current # 0
        /\ Len(code) \in Nat /\ Pc = Len(code) + 1
    BY <2>1, CodedSelf
  <2>4. /\ Straight(x, Current)
        /\ JumpIn(y, Current) /\ y.to = Pc + 3
        /\ JumpIn(z, Current) /\ z.to = Pc + 2 + 1 /\ z.op \in Jumps
    BY StraightFact, JumpFact DEF Jumps
  <2> HIDE DEF x, y, z
  <2>5. /\ IsSeq(e) /\ Len(e) = 3 /\ e[1] = x /\ e[2] = y /\ e[3] = z
        /\ \A n \in 1..3 : n = 1 \/ n = 2 \/ n = 3
    BY TripleFact
  <2> HIDE DEF e
  <2>6. Chunk(code, e, Current)
    <3>1. y.to \in Len(code)+1..Len(code)+3+1 /\ z.to \in Len(code)+1..Len(code)+3+1
      BY <2>3, <2>4
    <3> QED BY <2>4, <2>5, <3>1 DEF Chunk
  <2>7. /\ Coded(code, code', Current, Skips)
        /\ JumpsOf(code, Current) \subseteq JumpsOf(code', Current)
        /\ \A n \in 1..Len(e) : e[n].op \in Jumps => Len(code) + n \in JumpsOf(code', Current)
    BY <2>1, <2>3, <2>6, CodedEmit, Zenon
  <2>8. Pc + 2 \in JumpsOf(code', Current)
    <3>1. 3 \in 1..3 /\ Pc + 2 = Len(code) + 3
      BY <2>3
    <3> QED BY <2>4, <2>5, <2>7, <3>1
  <2>9. Construct(code', Current, s)
    <3>1. Inner.ends \subseteq JumpsOf(code', Current)
      BY <2>2, <2>7
    <3> QED BY <2>8, <3>1, ConstructFact, Zenon
  <2> QED BY <2>1, <2>7, <2>9, EmittedStep, BecomeStep
<1>2. CASE EndCaseArm
  <2> DEFINE s == [k |-> "case", slot |-> Inner.slot, ends |-> Inner.ends \cup {Pc}]
  <2>1. /\ InBody /\ Emitting /\ UNCHANGED <<text, stage>>
        /\ Nest # <<>> /\ Inner.k = "arm"
        /\ code' = EndArm(Inner.skip) /\ Become(s)
    BY <1>2, StatementFact, Zenon DEF EndCaseArm, InNest
  <2>2. Inner.skip \in JumpsOf(code, Current) /\ Inner.ends \subseteq JumpsOf(code, Current)
    BY <2>1, InnerFact, HolesFact, Zenon
  <2>3. /\ Coded(code, code', Current, Skips)
        /\ Inner.ends \cup {Pc} \subseteq JumpsOf(code', Current)
    BY <2>1, <2>2, EndArmFact
  <2>4. Construct(code', Current, s)
    BY <2>3, HolelessFact, Zenon
  <2> QED BY <2>1, <2>3, <2>4, EmittedStep, BecomeStep
<1>3. CASE CaseElse
  <2> DEFINE s == [k |-> "case else", ends |-> Inner.ends]
  <2>1. /\ InBody /\ Emitting /\ UNCHANGED <<text, stage, code>>
        /\ Nest # <<>> /\ Inner.k = "case" /\ Become(s)
    BY <1>3, StatementFact, Zenon DEF CaseElse, InNest
  <2>2. Inner.ends \subseteq JumpsOf(code', Current)
    BY <2>1, InnerFact, HolesFact, Zenon
  <2>3. Coded(code, code', Current, Skips)
    BY <2>1, CodedSelf
  <2>4. Construct(code', Current, s)
    BY <2>2, HolelessFact, Zenon
  <2> QED BY <2>1, <2>3, <2>4, EmittedStep, BecomeStep
<1>4. CASE EndCase
  <2>1. /\ InBody /\ Emitting /\ UNCHANGED <<text, stage>>
        /\ Nest # <<>> /\ Inner.k \in {"case", "case else"}
        /\ code' = Patch(code, Inner.ends, Pc) /\ Leave
    BY <1>4, StatementFact, Zenon DEF EndCase, InNest
  <2>2. Inner.ends \subseteq JumpsOf(code, Current)
    BY <2>1, InnerFact, HolesFact, Zenon
  <2>3. Coded(code, code', Current, Skips)
    BY <2>1, <2>2, CodedSelf, CodedPatch
  <2> QED BY <2>1, <2>3, EmittedStep, LeaveStep
<1> QED BY <1>1, <1>2, <1>3, <1>4

-----------------------------------------------------------------------------
(* Locals of the frame *)
LEMMA HoldsMore ==
  ASSUME NEW top \in Int, NEW symbols, Holds(-top, symbols), NEW kind
  PROVE  Holds(-(top - 2), Append(symbols, [kind |-> kind, adr |-> top - 2]))
<1> DEFINE e == [kind |-> kind, adr |-> top - 2]
           t == Append(symbols, e)
<1>1. IsSeq(symbols) /\ Len(symbols) \in Nat /\ DOMAIN symbols = 1..Len(symbols) /\ -top \in Nat
  BY SeqFact DEF Holds
<1>2. /\ IsSeq(t) /\ DOMAIN t = 1..Len(symbols)+1
      /\ \A i \in 1..Len(symbols) : t[i] = symbols[i]
      /\ t[Len(symbols) + 1] = e
  BY <1>1, AppendFact, SeqFact
<1>3. e.adr = top - 2
  OBVIOUS
<1> HIDE DEF t, e
<1>4. \A i \in 1..Len(symbols)+1 : i \in 1..Len(symbols) \/ i = Len(symbols) + 1
  BY <1>1
<1>5. \A i \in 1..Len(symbols) : IsLocal(symbols[i]) =>
         symbols[i].adr \in Int /\ top <= symbols[i].adr /\ symbols[i].adr <= -2
  BY <1>1 DEF Holds
<1>6. ASSUME NEW i \in DOMAIN t, IsLocal(t[i])
      PROVE  t[i].adr \in Int /\ -(-(top - 2)) <= t[i].adr /\ t[i].adr <= -2
  <2>1. CASE i \in 1..Len(symbols)
    BY <1>2, <1>5, <1>6, <2>1
  <2>2. CASE i = Len(symbols) + 1
    BY <1>1, <1>2, <1>3, <2>2
  <2> QED BY <1>2, <1>4, <2>1, <2>2
<1>7. ASSUME NEW i \in DOMAIN t, NEW j \in DOMAIN t, IsLocal(t[i]), IsLocal(t[j]), i < j
      PROVE  t[j].adr <= t[i].adr - 2
  <2>1. i \in 1..Len(symbols)
    BY <1>1, <1>2, <1>7
  <2>2. CASE j \in 1..Len(symbols)
    BY <1>1, <1>2, <1>7, <2>1, <2>2 DEF Holds
  <2>3. CASE j = Len(symbols) + 1
    <3>1. t[j].adr = top - 2 /\ t[i].adr \in Int /\ top <= t[i].adr
      BY <1>2, <1>3, <1>5, <1>7, <2>1, <2>3
    <3> QED BY <3>1
  <2> QED BY <1>2, <1>4, <2>2, <2>3
<1>8. -(top - 2) \in Nat
  BY <1>1
<1>9. Holds(-(top - 2), t)
  BY <1>2, <1>6, <1>7, <1>8, Zenon DEF Holds
<1> QED BY <1>9 DEF t, e

(* A local below the last one keeps the frame in order. *)
LEMMA AllocFact ==
  ASSUME NEW scope, DOMAIN scope = ScopeFields, scope.local_top \in Int,
         Holds(-scope.local_top, scope.symbols), NEW kind
  PROVE  LET s == AllocLocal(scope, kind) IN
         /\ DOMAIN s = ScopeFields
         /\ \A f \in ScopeFields \ {"symbols", "local_top"} : s[f] = scope[f]
         /\ s.local_top \in Int /\ s.local_top = scope.local_top - 2
         /\ Holds(-s.local_top, s.symbols)
<1> DEFINE s == AllocLocal(scope, kind)
           e == [kind |-> kind, adr |-> scope.local_top - 2]
           lower == scope.local_top - 2
<1>1. s = [scope EXCEPT !.symbols = Append(@, e), !.local_top = lower]
  BY DEF AllocLocal
<1>2. Holds(-lower, Append(scope.symbols, e)) /\ lower \in Int
  BY HoldsMore
<1> HIDE DEF s, e, lower
<1>3. /\ DOMAIN s = ScopeFields
      /\ \A f \in ScopeFields \ {"symbols", "local_top"} : s[f] = scope[f]
      /\ s.local_top = lower /\ s.symbols = Append(scope.symbols, e)
  BY <1>1 DEF ScopeFields
<1> QED BY <1>2, <1>3 DEF s, lower

(* A statement with a hidden variable: the frame grows with its code. *)
LEMMA HideStep ==
  ASSUME IInv, InBody, NEW c, Coded(code, c, Current, Skips),
         code' = ExtendFrame(c, Hide(Top)),
         NEW s, Construct(c, Current, s),
         scopes' = [scopes EXCEPT ![Level] = [Hide(Top) EXCEPT !.nest = Append(@, s)]],
         Emitting, UNCHANGED <<text, stage>>
  PROVE  IInv'
<1> DEFINE h == Hide(Top)
           t == [h EXCEPT !.nest = Append(@, s)]
           at == procs[Current].code_ofs
<1>1. /\ Current \in DOMAIN procs /\ Current # 0 /\ Current \in Open
      /\ DOMAIN Top = ScopeFields /\ Top.begun = TRUE
      /\ Top = scopes[Level] /\ Level \in 1..Level
      /\ IsSeq(Nest) /\ \A i \in DOMAIN Nest : Construct(code, Current, Nest[i])
      /\ ret_patch_list \subseteq JumpsOf(code, Current)
  BY BodyFact
<1>2. Top.local_top \in Int /\ Holds(-Top.local_top, Top.symbols)
  BY <1>1, Zenon DEF IInv, FramesFit
<1>3. /\ DOMAIN h = ScopeFields
      /\ \A f \in ScopeFields \ {"symbols", "local_top"} : h[f] = Top[f]
      /\ h.local_top \in Int /\ Holds(-h.local_top, h.symbols)
  BY <1>1, <1>2, AllocFact DEF Hide
<1> HIDE DEF h
<1>4. /\ DOMAIN t = ScopeFields /\ t.nest = Append(h.nest, s)
      /\ t.proc = h.proc /\ t.begun = h.begun /\ t.skip_nested = h.skip_nested
      /\ t.saved_ret = h.saved_ret /\ t.local_top = h.local_top /\ t.symbols = h.symbols
  BY <1>3 DEF ScopeFields
<1>5. /\ h.proc = Top.proc /\ h.begun = Top.begun /\ h.skip_nested = Top.skip_nested
      /\ h.saved_ret = Top.saved_ret /\ h.nest = Nest
  BY <1>3 DEF ScopeFields, Nest
<1>6. scopes' = [scopes EXCEPT ![Level] = t]
  BY DEF h
<1> HIDE DEF t
<1>7. Restated(Top, t)
  BY <1>1, <1>4, <1>5, Zenon DEF Restated
<1>8. IsPrologue(code, at, Current) /\ cur_prologue_patch = at
  <2>1. at # 0
    BY <1>1, Zenon DEF IInv, ProcsKnown
  <2> QED BY <1>1, <2>1, Zenon DEF IInv, ProcsKnown, FramesFit
<1>9. code' = SetFrame(c, at, h)
  BY <1>8 DEF ExtendFrame, h
<1> HIDE DEF at
<1>10. IsPrologue(c, at, Current) /\ Flows(c, Current, Skips) /\ at \in 1..Len(code)
  <2>1. /\ Len(code) \in Nat /\ Len(c) \in Nat /\ Len(code) <= Len(c)
        /\ DOMAIN code = 1..Len(code) /\ DOMAIN c = 1..Len(c)
    BY SeqFact DEF Coded, Grown
  <2>2. at \in 1..Len(code) /\ at \in 1..Len(c)
    BY <1>8, <2>1 DEF IsPrologue
  <2> QED BY <1>8, <2>1, <2>2 DEF Coded, Grown, SameIns, IsPrologue
<1>11. /\ Flows(code', Current, Skips) /\ Grown(c, code', Current) /\ Quiet(c, code')
       /\ code'[at].size = -h.local_top
       /\ \A a \in 1..Len(c) : a # at => FrameKept(c, code', a)
  <2>1. Framed(c, SetFrame(c, at, h), at, -h.local_top, Current, Skips)
    BY <1>10, FrameSet, Zenon
  <2> QED BY <1>9, <2>1, Zenon DEF Framed
<1>12. Grown(code, code', Current) /\ Quiet(code, code')
  BY <1>11, GrownTrans DEF Coded
<1>13. \A a \in 1..Len(code) : a # at => FrameKept(code, code', a)
  <2>1. \A a \in 1..Len(code) : a \in 1..Len(c)
    <3>1. Len(code) \in Nat /\ Len(c) \in Nat /\ Len(code) <= Len(c)
      BY SeqFact DEF Coded, Grown
    <3> QED BY <3>1
  <2> QED BY <1>11, <2>1, Zenon DEF Coded, Grown, SameIns, FramesKept, FrameKept
<1>14. IsSeq(t.nest) /\ \A i \in DOMAIN t.nest : Construct(code', Current, t.nest[i])
  <2>1. /\ IsSeq(t.nest) /\ Len(Nest) \in Nat /\ DOMAIN Nest = 1..Len(Nest)
        /\ DOMAIN t.nest = 1..Len(Nest)+1
        /\ \A i \in 1..Len(Nest) : t.nest[i] = Nest[i]
        /\ t.nest[Len(Nest) + 1] = s
    <3>1. t.nest = Append(Nest, s)
      BY <1>4, <1>5, Zenon
    <3>2. /\ IsSeq(Append(Nest, s)) /\ Len(Nest) \in Nat /\ DOMAIN Nest = 1..Len(Nest)
          /\ DOMAIN Append(Nest, s) = 1..Len(Nest)+1
          /\ \A i \in 1..Len(Nest) : Append(Nest, s)[i] = Nest[i]
          /\ Append(Nest, s)[Len(Nest) + 1] = s
      BY <1>1, AppendFact, SeqFact
    <3> QED BY <3>1, <3>2, Zenon
  <2>2. \A i \in 1..Len(Nest)+1 : i \in 1..Len(Nest) \/ i = Len(Nest) + 1
    BY <2>1
  <2>3. Construct(code', Current, s)
    BY <1>11, ConstructGrown
  <2>4. \A i \in DOMAIN Nest : Construct(code', Current, Nest[i])
    BY <1>1, <1>12, ConstructGrown
  <2> QED BY <2>1, <2>2, <2>3, <2>4, Zenon
<1>15. ret_patch_list' \subseteq JumpsOf(code', Current)
  BY <1>1, <1>12, JumpsGrown DEF Emitting
<1>16. ProcsKnown' /\ CallsKnown' /\ UNCHANGED procs
  <2>1. Open' = Open
    BY <1>1, <1>4, <1>5, <1>6, TopReplaced DEF IInv
  <2> QED BY <1>12, <2>1, QuietCalls DEF IInv, Emitting
<1>17. DOMAIN procs' = DOMAIN procs /\ \A p \in DOMAIN procs : SameProc(procs[p], procs'[p])
  BY <1>16, Zenon DEF SameProc
<1>18. t.local_top \in Int /\ Holds(-t.local_top, t.symbols)
  BY <1>3, <1>4, Zenon
<1>19. /\ code'[procs[Current].code_ofs].size = -t.local_top
       /\ \A a \in 1..Len(code) : a # procs[Current].code_ofs => FrameKept(code, code', a)
  BY <1>4, <1>11, <1>13, Zenon DEF at
<1>20. UNCHANGED <<cur_prologue_patch, text, stage>>
  BY DEF Emitting
<1> QED BY <1>6, <1>7, <1>11, <1>12, <1>14, <1>15, <1>16, <1>17, <1>18, <1>19, <1>20, BodyStep

(* A sequence over a set of fitting instructions can be emitted. *)
LEMMA ChunkFact ==
  ASSUME NEW c, NEW p, NEW S, NEW e \in Seq(S), Len(e) > 0,
         \A x \in S : \/ Straight(x, p)
                      \/ JumpIn(x, p) /\ (\/ x.to \in Len(c)+1..Len(c)+Len(e)+1
                                          \/ Within(c, p, p, x.to))
  PROVE  Chunk(c, e, p)
<1>1. \A i \in 1..Len(e) : e[i] \in S
  OBVIOUS
<1> QED BY <1>1, SeqIs, Zenon DEF Chunk

(* FOR: the bound goes into a hidden local, and the frame grows with it. *)
LEMMA ForStep ==
  ASSUME IInv, NEW d, For(d)
  PROVE  IInv'
<1> DEFINE scope == Hide(Top)
           lim == Len(scope.symbols)
           var(op, k) == Access(op, k, ForItem(d), Name(d))
           limit(op, k) == Access(op, k, HiddenItem(scope, lim), HiddenName(lim))
           x1 == var("store", "write")
           x2 == limit("store", "write")
           x3 == var("load", "read")
           x4 == Ins("save", None)
           x5 == limit("load", "read")
           x6 == Ins("restore", [k |-> "compute"])
           j == Branch("jz", Pc + 4 + 4)
           S == {Const, x1, x2, x3, x4, x5, x6, j}
           e == <<Const, x1, Const, x2, x3, x4, x5, x6, j>>
           c == code \o e
           s == [k |-> "for", var |-> d, top |-> Pc + 4, jend |-> Pc + 4 + 4]
<1>1. /\ InBody /\ Emitting /\ UNCHANGED <<text, stage>>
      /\ code' = ExtendFrame(c, Hide(Top))
      /\ scopes' = [scopes EXCEPT ![Level] = [Hide(Top) EXCEPT !.nest = Append(@, s)]]
  BY StatementFact DEF For
<1>2. /\ Coded(code, code, Current, Skips) /\ Current # 0
      /\ Len(code) \in Nat /\ Pc = Len(code) + 1
  BY <1>1, CodedSelf
<1>3. /\ Straight(Const, Current) /\ Straight(x1, Current) /\ Straight(x2, Current)
      /\ Straight(x3, Current) /\ Straight(x4, Current) /\ Straight(x5, Current)
      /\ Straight(x6, Current)
  BY StraightFact DEF Const
<1>4. JumpIn(j, Current) /\ j.to = Pc + 4 + 4 + 1 /\ j.op \in Jumps
  BY JumpFact DEF Jumps
<1> HIDE DEF x1, x2, x3, x4, x5, x6, j
<1>5. e \in Seq(S) /\ Len(e) = 9 /\ e[9] = j
  OBVIOUS
<1> HIDE DEF e
<1>6. Chunk(code, e, Current)
  <2>1. j.to \in Len(code)+1..Len(code)+Len(e)+1 /\ Len(e) > 0
    BY <1>2, <1>4, <1>5
  <2>2. \A x \in S :
           \/ Straight(x, Current)
           \/ JumpIn(x, Current) /\ (\/ x.to \in Len(code)+1..Len(code)+Len(e)+1
                                     \/ Within(code, Current, Current, x.to))
    BY <1>3, <1>4, <2>1
  <2> HIDE DEF S
  <2> QED BY <1>5, <2>1, <2>2, ChunkFact, Zenon
<1>7. /\ Coded(code, c, Current, Skips)
      /\ \A n \in 1..Len(e) : e[n].op \in Jumps => Len(code) + n \in JumpsOf(c, Current)
      /\ \A t \in Len(code)+1..Len(code)+Len(e)+1 : Within(c, Current, Current, t)
  BY <1>2, <1>6, CodedEmit, Zenon
<1>8. Pc + 4 + 4 \in JumpsOf(c, Current) /\ Within(c, Current, Current, Pc + 4)
  <2>1. /\ 9 \in 1..9 /\ Pc + 4 + 4 = Len(code) + 9
        /\ Pc + 4 \in Len(code)+1..Len(code)+9+1
    BY <1>2
  <2> QED BY <1>4, <1>5, <1>7, <2>1
<1> HIDE DEF c
<1>9. Construct(c, Current, s)
  BY <1>8, ConstructFact, Zenon
<1> QED BY <1>1, <1>7, <1>9, HideStep

(* The END of a FOR. *)
LEMMA EndForStep ==
  ASSUME IInv, EndFor
  PROVE  IInv'
<1> DEFINE var(op, k) == Access(op, k, ForItem(Inner.var), Name(Inner.var))
           x1 == var("load", "read")
           x2 == var("store", "write")
           j == BranchTo("jmp", Inner.top)
           S == {Const, x1, x2, j}
           e == <<x1, Const, x2, j>>
           c == code \o e
<1>1. /\ InBody /\ Emitting /\ UNCHANGED <<text, stage>>
      /\ Nest # <<>> /\ Inner.k = "for"
      /\ code' = Patch(c, {Inner.jend}, Pc + 4) /\ Leave
  BY StatementFact DEF EndFor, InNest
<1>2. /\ Coded(code, code, Current, Skips) /\ Current # 0
      /\ Len(code) \in Nat /\ Pc = Len(code) + 1
  BY <1>1, CodedSelf
<1>3. Inner.jend \in JumpsOf(code, Current) /\ Within(code, Current, Current, Inner.top)
  BY <1>1, InnerFact, HolesFact, Zenon
<1>4. /\ Straight(Const, Current) /\ Straight(x1, Current) /\ Straight(x2, Current)
      /\ JumpIn(j, Current) /\ j.to = Inner.top
  BY StraightFact, JumpFact DEF Const, Jumps
<1> HIDE DEF x1, x2, j
<1>5. e \in Seq(S) /\ Len(e) = 4
  OBVIOUS
<1> HIDE DEF e
<1>6. Chunk(code, e, Current)
  <2>1. \A x \in S :
           \/ Straight(x, Current)
           \/ JumpIn(x, Current) /\ (\/ x.to \in Len(code)+1..Len(code)+Len(e)+1
                                     \/ Within(code, Current, Current, x.to))
    BY <1>3, <1>4
  <2>2. Len(e) > 0
    BY <1>5
  <2> HIDE DEF S
  <2> QED BY <1>5, <2>1, <2>2, ChunkFact, Zenon
<1>7. /\ Coded(code, c, Current, Skips)
      /\ JumpsOf(code, Current) \subseteq JumpsOf(c, Current)
      /\ \A t \in Len(code)+1..Len(code)+Len(e)+1 : Within(c, Current, Current, t)
  BY <1>2, <1>6, CodedEmit, Zenon
<1>8. {Inner.jend} \subseteq JumpsOf(c, Current) /\ Within(c, Current, Current, Pc + 4)
  <2>1. Pc + 4 \in Len(code)+1..Len(code)+4+1
    BY <1>2
  <2> QED BY <1>3, <1>5, <1>7, <2>1
<1> HIDE DEF c
<1>9. Coded(code, code', Current, Skips)
  BY <1>1, <1>2, <1>7, <1>8, CodedPatch
<1> QED BY <1>1, <1>9, EmittedStep, LeaveStep

(* CASE: the selector goes into a hidden local. *)
LEMMA CaseOfStep ==
  ASSUME IInv, NEW d, Case(d)
  PROVE  IInv'
<1> DEFINE scope == Hide(Top)
           slot == Len(scope.symbols)
           x == Load(d)
           y == Access("store", "write", HiddenItem(scope, slot), HiddenName(slot))
           e == <<x, y>>
           c == code \o e
           s == [k |-> "case", slot |-> slot, ends |-> {}]
<1>1. /\ InBody /\ Emitting /\ UNCHANGED <<text, stage>>
      /\ code' = ExtendFrame(c, Hide(Top))
      /\ scopes' = [scopes EXCEPT ![Level] = [Hide(Top) EXCEPT !.nest = Append(@, s)]]
  BY StatementFact DEF Case
<1>2. Coded(code, code, Current, Skips) /\ Current # 0
  BY <1>1, CodedSelf
<1>3. Straight(x, Current) /\ Straight(y, Current)
  BY StraightFact DEF Load
<1> HIDE DEF x, y
<1>4. e \in Seq({x, y}) /\ Len(e) > 0
  BY PairFact
<1> HIDE DEF e
<1>5. Chunk(code, e, Current)
  BY <1>3, <1>4, ChunkFact
<1>6. Coded(code, c, Current, Skips)
  BY <1>2, <1>5, CodedEmit
<1> HIDE DEF c
<1>7. Construct(c, Current, s)
  BY HolelessFact
<1> QED BY <1>1, <1>6, <1>7, HideStep

-----------------------------------------------------------------------------
(* Calls *)

(* A sequence, possibly empty, of instructions of procedure p that lead to   *)
(* the next one.                                                             *)
Line(s, p) == IsSeq(s) /\ \A i \in 1..Len(s) : Straight(s[i], p)

(* Two pieces of straight code after each other. *)
LEMMA LineConcat ==
  ASSUME NEW p, NEW s, Line(s, p), NEW t, Line(t, p)
  PROVE  Line(s \o t, p)
<1> DEFINE u == s \o t
<1>1. /\ Len(s) \in Nat /\ Len(t) \in Nat /\ IsSeq(u) /\ Len(u) = Len(s) + Len(t)
      /\ \A i \in 1..Len(s) : u[i] = s[i]
      /\ \A i \in 1..Len(t) : u[Len(s) + i] = t[i]
  <2>1. IsSeq(s) /\ IsSeq(t)
    BY DEF Line
  <2>2. Len(s) \in Nat /\ Len(t) \in Nat
    BY <2>1, SeqFact
  <2>3. /\ IsSeq(u) /\ Len(u) = Len(s) + Len(t)
        /\ \A i \in 1..Len(s) : u[i] = s[i]
        /\ \A i \in 1..Len(t) : u[Len(s) + i] = t[i]
    BY <2>1, ConcatFact
  <2> QED BY <2>2, <2>3, Zenon
<1> HIDE DEF u
<1>2. ASSUME NEW i \in 1..Len(u)
      PROVE  Straight(u[i], p)
  <2>1. CASE i <= Len(s)
    BY <1>1, <2>1 DEF Line
  <2>2. CASE ~ (i <= Len(s))
    <3>1. i - Len(s) \in 1..Len(t) /\ i = Len(s) + (i - Len(s))
      BY <1>1, <2>2
    <3> QED BY <1>1, <3>1 DEF Line
  <2> QED BY <2>1, <2>2
<1> QED BY <1>1, <1>2 DEF Line, u

(* An actual parameter is evaluated by straight code. *)
LEMMA ActualLine ==
  ASSUME NEW kind, NEW d
  PROVE  Line(Actual(kind, d), Current)
<1> DEFINE x == PassPlace(d)
           y == Load(d)
           z == Ins("push", [k |-> "pass value"])
<1>1. Straight(x, Current)
  <2> DEFINE how == IF Item(d).ref /\ Item(d).mode = "local" THEN "copy slot"
                    ELSE IF Item(d).mode = "local" THEN "stack address" ELSE "data address"
  <2>1. how \notin {"jmp", "jz", "ret", "call", "prologue"}
    OBVIOUS
  <2>2. x = Access(how, "pass place", Item(d), Name(d))
    BY DEF PassPlace
  <2> HIDE DEF how, x
  <2> QED BY <2>1, <2>2, StraightFact
<1>2. Straight(y, Current) /\ Straight(z, Current)
  BY StraightFact DEF Load
<1>3. Actual(kind, d) = IF kind = "varparam" THEN <<x>> ELSE <<y, z>>
  BY DEF Actual
<1> HIDE DEF x, y, z
<1>4. Line(<<x>>, Current)
  <2>1. <<x>> \in Seq({x}) /\ Len(<<x>>) = 1 /\ <<x>>[1] = x /\ \A i \in 1..1 : i = 1
    OBVIOUS
  <2> QED BY <1>1, <2>1, SeqIs DEF Line
<1>5. Line(<<y, z>>, Current)
  BY <1>2, PairFact DEF Line
<1> QED BY <1>3, <1>4, <1>5

(* So are the actual parameters of a call. *)
LEMMA ActualsLine ==
  ASSUME NEW kinds, NEW ds, Len(ds) \in Nat
  PROVE  Line(Actuals(kinds, ds), Current)
<1> DEFINE n == Len(ds)
           a == [i \in 1..n |-> Actual(kinds[i], ds[i])]
           Made(f) == f = [i \in 0..n |-> IF i = 0 THEN <<>>
                                          ELSE f[i-1] \o Actual(kinds[i], ds[i])]
           all == CHOOSE f : Made(f)
<1>1. \E f : Made(f)
  <2>1. PICK f : f = [i \in 0..n |-> IF i = 0 THEN <<>> ELSE f[i-1] \o a[i]]
    BY JoinExists
  <2>2. \A i \in 0..n : i # 0 => a[i] = Actual(kinds[i], ds[i])
    OBVIOUS
  <2> HIDE DEF a
  <2>3. ASSUME NEW i \in 0..n
        PROVE  (IF i = 0 THEN <<>> ELSE f[i-1] \o a[i])
               = IF i = 0 THEN <<>> ELSE f[i-1] \o Actual(kinds[i], ds[i])
    <3>1. CASE i = 0
      BY <3>1, Zenon
    <3>2. CASE i # 0
      BY <2>2, <3>2, Zenon
    <3> QED BY <3>1, <3>2
  <2> QED BY <2>1, <2>3
<1>2. Made(all)
  BY <1>1, Zenon
<1>3. Actuals(kinds, ds) = all[n]
  BY DEF Actuals
<1> HIDE DEF all
<1> DEFINE T == {i \in 0..n : ~ Line(all[i], Current)}
<1>4. T = {}
  <2> SUFFICES ASSUME T # {} PROVE FALSE
    OBVIOUS
  <2>1. PICK m \in T : \A k \in T : m <= k
    <3>1. T \in SUBSET Nat
      OBVIOUS
    <3> HIDE DEF T
    <3> QED BY <3>1, LeastFact
  <2>2. m \in 0..n /\ ~ Line(all[m], Current)
    OBVIOUS
  <2>3. m # 0
    <3>1. <<>> \in Seq({}) /\ Len(<<>>) = 0 /\ \A i \in 1..0 : FALSE
      OBVIOUS
    <3>2. Line(<<>>, Current)
      BY <3>1, SeqIs, Zenon DEF Line
    <3> QED BY <1>2, <2>2, <3>2
  <2>4. m - 1 \in 0..n /\ m - 1 \notin T
    <3>1. m - 1 \in 0..n /\ ~ (m <= m - 1)
      BY <2>2, <2>3
    <3> HIDE DEF T
    <3> QED BY <2>1, <3>1
  <2>5. Line(all[m-1], Current)
    BY <2>4
  <2>6. all[m] = all[m-1] \o Actual(kinds[m], ds[m])
    BY <1>2, <2>2, <2>3
  <2> QED BY <2>2, <2>5, <2>6, ActualLine, LineConcat
<1> QED BY <1>3, <1>4

(* Straight code is emitted at the end of the code. *)
LEMMA CodedLine ==
  ASSUME NEW b, NEW c, NEW p, p # 0, NEW skips, Coded(b, c, p, skips),
         NEW e, Line(e, p)
  PROVE  Coded(b, c \o e, p, skips)
<1>1. IsSeq(e) /\ Len(e) \in Nat /\ IsSeq(c)
  BY SeqFact DEF Line, Coded, Flows
<1>2. CASE Len(e) = 0
  <2>1. e = <<>>
    BY <1>1, <1>2, FrontFact
  <2>2. c \o <<>> = c
    BY <1>1, ConcatEmptySeq DEF IsSeq
  <2> QED BY <2>1, <2>2
<1>3. CASE Len(e) # 0
  <2>1. Len(e) > 0
    BY <1>1, <1>3
  <2>2. Chunk(c, e, p)
    BY <1>1, <2>1 DEF Chunk, Line
  <2> QED BY <2>2, CodedEmit
<1> QED BY <1>2, <1>3

(* A call: what it pushes, the call, and a fixup for a FORWARD procedure. *)
LEMMA InvokeStep ==
  ASSUME IInv, NEW p \in DOMAIN procs, NEW ds, Len(ds) \in Nat, Invoke(p, ds)
  PROVE  IInv'
<1> DEFINE q == procs[p]
           kinds == [i \in DOMAIN ds |-> q.symbols[i].kind]
           link == IF q.has_sl /\ ~(text[pos].k = "factor" /\ q.is_far)
                   THEN <<PushStaticLink(p)>> ELSE <<>>
           before == code \o Actuals(kinds, ds) \o link
           at == Len(before) + 1
           call == [op |-> "call", of |-> Current, src |-> [k |-> "call", p |-> p],
                    far |-> q.is_far, to |-> IF q.fwd_decl THEN at + 1 ELSE q.code_ofs]
           r == [q EXCEPT !.fwd_patches = @ \cup {at}]
<1>1. /\ InBody /\ UNCHANGED <<text, stage, scopes, cur_prologue_patch, ret_patch_list>>
      /\ code' = Append(before, call)
      /\ procs' = IF q.fwd_decl THEN [procs EXCEPT ![p].fwd_patches = @ \cup {at}] ELSE procs
  BY StatementFact, Zenon DEF Invoke
<1>2. /\ Coded(code, code, Current, Skips) /\ Current # 0
      /\ Len(code) \in Nat /\ DOMAIN code = 1..Len(code)
  BY <1>1, CodedSelf, BodyFact
<1>3. Line(link, Current)
  <2> DEFINE x == PushStaticLink(p)
  <2>1. Straight(x, Current)
    BY DEF PushStaticLink, Straight, Formed, Jumps
  <2> HIDE DEF x
  <2>2. Line(<<x>>, Current)
    <3>1. <<x>> \in Seq({x}) /\ Len(<<x>>) = 1 /\ <<x>>[1] = x /\ \A i \in 1..1 : i = 1
      OBVIOUS
    <3> QED BY <2>1, <3>1, SeqIs DEF Line
  <2>3. Line(<<>>, Current)
    <3>1. <<>> \in Seq({}) /\ Len(<<>>) = 0 /\ \A i \in 1..0 : FALSE
      OBVIOUS
    <3> QED BY <3>1, SeqIs, Zenon DEF Line
  <2> QED BY <2>2, <2>3, Zenon DEF x
<1>4. Line(Actuals(kinds, ds), Current)
  BY ActualsLine
<1> HIDE DEF kinds, link
<1>5. Coded(code, before, Current, Skips)
  <2>1. Coded(code, code \o Actuals(kinds, ds), Current, Skips)
    BY <1>2, <1>4, CodedLine
  <2> HIDE DEF before
  <2>2. before = (code \o Actuals(kinds, ds)) \o link
    BY DEF before
  <2> QED BY <1>2, <1>3, <2>1, <2>2, CodedLine
<1> HIDE DEF before
<1>6. /\ IsSeq(before) /\ Len(before) \in Nat /\ DOMAIN before = 1..Len(before)
      /\ Len(code) <= Len(before) /\ at \in Nat /\ at = Len(before) + 1
  <2>1. IsSeq(before) /\ Len(code) <= Len(before)
    BY <1>5 DEF Coded, Grown
  <2> QED BY <2>1, SeqFact
<1>7. /\ call.op = "call" /\ call.of = Current /\ call.src = [k |-> "call", p |-> p]
      /\ call.src.p = p
      /\ call.to = IF q.fwd_decl THEN at + 1 ELSE q.code_ofs
      /\ Formed(call)
  BY DEF Formed
<1> HIDE DEF call, at
<1>8. /\ IsSeq(code') /\ Len(code') = at /\ DOMAIN code' = 1..at
      /\ \A a \in 1..Len(before) : code'[a] = before[a]
      /\ code'[at] = call
  BY <1>1, <1>6, AppendFact, SeqFact
<1>9. Flows(code', Current, Skips) /\ Grown(before, code', Current) /\ FramesKept(before, code')
  <2> DEFINE e == <<call>>
  <2>1. IsSeq(e) /\ Len(e) = 1 /\ e[1] = call /\ \A i \in 1..1 : i = 1
    BY SingleFact, Zenon
  <2>2. code' = before \o e
    BY <1>1, <1>6 DEF IsSeq
  <2> HIDE DEF e
  <2>3. Within(before \o e, Current, Current, at + 1)
    BY <1>2, <1>8, <2>2, Zenon DEF Within
  <2>4. \A i \in 1..Len(e) :
           /\ Formed(e[i]) /\ e[i].of = Current
           /\ \A t \in Follows(e[i], Len(before) + i) : Within(before \o e, Current, Current, t)
    <3> SUFFICES ASSUME NEW t \in Follows(call, at)
                 PROVE  Within(before \o e, Current, Current, t)
      BY <1>6, <1>7, <2>1
    <3>1. t = at + 1
      BY <1>7, FollowsFact DEF Jumps
    <3> QED BY <2>3, <3>1
  <2>5. Flows(before, Current, Skips) /\ Len(e) > 0
    BY <1>5, <2>1 DEF Coded
  <2>6. \A i \in 1..Len(e) :
           /\ Formed(e[i]) /\ e[i].of = Current
           /\ \/ Len(before) + i \in Skips
              \/ \A t \in Follows(e[i], Len(before) + i) : Within(before \o e, Current, Current, t)
    BY <2>4, Zenon
  <2>7. /\ Flows(before \o e, Current, Skips) /\ Grown(before, before \o e, Current)
        /\ FramesKept(before, before \o e)
    <3>1. Skips \subseteq Skips
      OBVIOUS
    <3> QED BY <2>1, <2>5, <2>6, <3>1, Emit, Zenon
  <2> QED BY <2>2, <2>7, Zenon
<1>10. Grown(code, code', Current) /\ FramesKept(code, code')
  BY <1>5, <1>9, GrownTrans DEF Coded
<1>11. IsSeq(procs) /\ ProcFields \subseteq DOMAIN q
  BY DEF IInv, ProcsKnown
<1>12. /\ r.outer = q.outer /\ r.level = q.level /\ r.code_ofs = q.code_ofs
       /\ r.fwd_decl = q.fwd_decl /\ r.symbols = q.symbols
       /\ r.fwd_patches = q.fwd_patches \cup {at} /\ ProcFields \subseteq DOMAIN r
  BY <1>11 DEF ProcFields
<1>13. q.fwd_decl => procs' = [procs EXCEPT ![p] = r]
  BY <1>1
<1> HIDE DEF r
<1>14. /\ DOMAIN procs' = DOMAIN procs /\ IsSeq(procs')
       /\ \A n \in DOMAIN procs : n # p \/ ~ q.fwd_decl => procs'[n] = procs[n]
       /\ q.fwd_decl => procs'[p] = r
  <2>1. CASE q.fwd_decl
    <3> DEFINE t == [procs EXCEPT ![p] = r]
    <3>1. /\ IsSeq(t) /\ DOMAIN t = DOMAIN procs /\ t[p] = r
          /\ \A n \in DOMAIN procs : n # p => t[n] = procs[n]
      BY <1>11, ExceptFact
    <3>2. procs' = t
      BY <1>13, <2>1
    <3> HIDE DEF t
    <3> QED BY <2>1, <3>1, <3>2, Zenon
  <2>2. CASE ~ q.fwd_decl
    BY <1>1, <1>11, <2>2, Zenon
  <2> QED BY <2>1, <2>2
<1>15. \A n \in DOMAIN procs : SameProc(procs[n], procs'[n]) /\ ProcFields \subseteq DOMAIN procs'[n]
  <2>1. \A n \in DOMAIN procs : ProcFields \subseteq DOMAIN procs[n]
    BY DEF IInv, ProcsKnown
  <2>2. SameProc(q, r)
    BY <1>12, Zenon DEF SameProc
  <2>3. \A n \in DOMAIN procs : procs'[n] = procs[n] \/ (n = p /\ procs'[n] = r)
    BY <1>14, Zenon
  <2> QED BY <1>12, <2>1, <2>2, <2>3, Zenon DEF SameProc
<1>16. ASSUME NEW n \in DOMAIN procs
       PROVE  /\ procs[n].fwd_patches \subseteq procs'[n].fwd_patches
              /\ \A a \in procs'[n].fwd_patches : a \in procs[n].fwd_patches \/ (a = at /\ n = p)
  BY <1>12, <1>14
<1>17. \A a \in 1..Len(code) : a \in DOMAIN code' /\ SameIns(code[a], code'[a])
  <2>1. \A a \in 1..Len(code) : a \in 1..at
    BY <1>2, <1>6
  <2> QED BY <1>8, <1>10, <2>1, Zenon DEF Grown
<1>18. Open' = Open
  BY <1>1 DEF Open, Level
<1>19. ProcsKnown'
  <2>1. ASSUME NEW n \in DOMAIN procs, NEW a \in procs'[n].fwd_patches
        PROVE  a \in DOMAIN code' /\ code'[a].op = "call" /\ code'[a].src.p = n
    <3>1. CASE a \in procs[n].fwd_patches
      <4>1. a \in 1..Len(code) /\ code[a].op = "call" /\ code[a].src.p = n
        BY <1>2, <3>1, Zenon DEF IInv, ProcsKnown
      <4> QED BY <1>17, <4>1, Zenon DEF SameIns
    <3>2. CASE a = at /\ n = p
      <4>1. at \in 1..at
        BY <1>6
      <4> QED BY <1>7, <1>8, <3>2, <4>1, Zenon
    <3> QED BY <1>16, <2>1, <3>1, <3>2
  <2>2. \A a, n : IsPrologue(code, a, n) => IsPrologue(code', a, n)
    BY <1>2, <1>17, Zenon DEF IsPrologue, SameIns
  <2>3. ASSUME NEW n \in DOMAIN procs
        PROVE  /\ procs'[n].outer \in 0..n-1 /\ IsSeq(procs'[n].symbols)
               /\ procs'[n].code_ofs # 0 => IsPrologue(code', procs'[n].code_ofs, n)
               /\ procs'[n].code_ofs = 0 => procs'[n].fwd_decl /\ n \notin Open
               /\ procs'[n].fwd_decl /\ procs'[n].code_ofs # 0 => n \in Open
    BY <1>15, <2>2, Zenon DEF IInv, ProcsKnown, SameProc
  <2> QED BY <1>14, <1>15, <1>18, <2>1, <2>3, Zenon DEF ProcsKnown
<1>20. CallsKnown'
  <2> SUFFICES ASSUME NEW a \in DOMAIN code', code'[a].op = "call"
               PROVE  /\ code'[a].src.p \in DOMAIN procs'
                      /\ IF procs'[code'[a].src.p].fwd_decl
                         THEN a \in procs'[code'[a].src.p].fwd_patches
                         ELSE code'[a].to = procs'[code'[a].src.p].code_ofs
    BY Zenon DEF CallsKnown
  <2>1. CASE a \in 1..Len(code)
    <3> DEFINE n == code[a].src.p
    <3>1. code[a].op = "call" /\ code'[a].src.p = n /\ code'[a].to = code[a].to
      BY <1>17, <2>1, Zenon DEF SameIns
    <3>2. /\ n \in DOMAIN procs
          /\ IF procs[n].fwd_decl THEN a \in procs[n].fwd_patches
                                  ELSE code[a].to = procs[n].code_ofs
      BY <1>2, <2>1, <3>1, Zenon DEF IInv, CallsKnown
    <3> HIDE DEF n
    <3>3. procs'[n].fwd_decl = procs[n].fwd_decl /\ procs'[n].code_ofs = procs[n].code_ofs
      BY <1>15, <3>2, Zenon DEF SameProc
    <3>4. procs[n].fwd_patches \subseteq procs'[n].fwd_patches
      BY <1>16, <3>2
    <3> QED BY <1>14, <3>1, <3>2, <3>3, <3>4
  <2>2. CASE a \in Len(code)+1..Len(before)
    <3>1. a \in 1..Len(before)
      BY <1>2, <1>6, <2>2
    <3> QED BY <1>5, <1>8, <2>2, <3>1, Zenon DEF Coded, Quiet
  <2>3. CASE a = at
    <3>1. code'[a].src.p = p /\ code'[a].to = IF q.fwd_decl THEN at + 1 ELSE q.code_ofs
      BY <1>7, <1>8, <2>3
    <3>2. procs'[p].fwd_decl = q.fwd_decl /\ procs'[p].code_ofs = q.code_ofs
      BY <1>15, Zenon DEF SameProc
    <3>3. q.fwd_decl => at \in procs'[p].fwd_patches
      BY <1>12, <1>14
    <3> QED BY <1>14, <2>3, <3>1, <3>2, <3>3
  <2>4. \A i \in 1..at : i \in 1..Len(code) \/ i \in Len(code)+1..Len(before) \/ i = at
    BY <1>2, <1>6
  <2> QED BY <1>8, <2>1, <2>2, <2>3, <2>4
<1>21. /\ Top = scopes[Level] /\ Level \in 1..Level /\ DOMAIN scopes = 1..Level
       /\ DOMAIN Top = ScopeFields /\ Top.begun = TRUE
       /\ IsSeq(Nest) /\ IsSeq(scopes) /\ Current \in DOMAIN procs
       /\ \A i \in DOMAIN Nest : Construct(code, Current, Nest[i])
       /\ ret_patch_list \subseteq JumpsOf(code, Current)
  BY <1>1, BodyFact DEF IInv, ScopesOpen
<1>22. scopes' = [scopes EXCEPT ![Level] = Top] /\ Restated(Top, Top)
  <2>1. scopes = [i \in 1..Level |-> scopes[i]]
    BY <1>21, SeqFact, Zenon DEF Level
  <2> QED BY <1>1, <1>21, <2>1 DEF Restated
<1>23. IsSeq(Top.nest) /\ \A i \in DOMAIN Top.nest : Construct(code', Current, Top.nest[i])
  BY <1>10, <1>21, ConstructGrown DEF Nest
<1>24. Top.local_top \in Int /\ Holds(-Top.local_top, Top.symbols)
  BY <1>21, Zenon DEF IInv, FramesFit
<1>25. /\ code'[procs[Current].code_ofs].size = -Top.local_top
       /\ \A a \in 1..Len(code) : a # procs[Current].code_ofs => FrameKept(code, code', a)
  <2>1. IsPrologue(code, procs[Current].code_ofs, Current)
    <3>1. procs[Current].code_ofs # 0
      BY <1>1, <1>21, BodyFact, Zenon DEF IInv, ProcsKnown
    <3> QED BY <1>21, <3>1, Zenon DEF IInv, ProcsKnown
  <2>2. code[procs[Current].code_ofs].size = -Top.local_top
    BY <1>1, Zenon DEF IInv, FramesFit, FrameSize
  <2> QED BY <1>2, <1>10, <2>1, <2>2, Zenon DEF FramesKept, FrameKept, IsPrologue
<1>26. ret_patch_list' \subseteq JumpsOf(code', Current)
  BY <1>1, <1>10, <1>21, JumpsGrown
<1>27. /\ DOMAIN procs' = DOMAIN procs /\ \A n \in DOMAIN procs : SameProc(procs[n], procs'[n])
       /\ UNCHANGED <<cur_prologue_patch, text, stage>>
  BY <1>1, <1>14, <1>15, Zenon
<1> QED BY <1>1, <1>9, <1>10, <1>19, <1>20, <1>22, <1>23, <1>24, <1>25, <1>26, <1>27, BodyStep

-----------------------------------------------------------------------------
(* The declarations keep the invariant *)

(* The state between the bodies. *)
LEMMA OutFact ==
  ASSUME IInv, ~ InBody
  PROVE  /\ BodyOf = 0 /\ Flows(code, 0, Skips) /\ IsSeq(code)
         /\ Len(code) \in Nat /\ DOMAIN code = 1..Len(code)
         /\ IsSeq(procs) /\ Len(procs) \in Nat /\ DOMAIN procs = 1..Len(procs)
         /\ IsSeq(scopes) /\ Level \in Nat /\ DOMAIN scopes = 1..Level
         /\ Level > 0 => /\ Level \in 1..Level /\ Top = scopes[Level] /\ Current = Top.proc
                         /\ DOMAIN Top = ScopeFields /\ Current \in Open
         /\ Level = 0 => Current = 0
         /\ Current # 0 => Current \in DOMAIN procs
         /\ \A l \in 1..Level : ~ scopes[l].begun
         /\ ret_patch_list = {}
<1>1. BodyOf = 0
  BY DEF BodyOf
<1>2. Flows(code, 0, Skips) /\ IsSeq(code) /\ IsSeq(procs) /\ IsSeq(scopes)
  BY <1>1 DEF IInv, CodeFlows, Flows, ProcsKnown, ScopesOpen
<1>3. /\ Len(code) \in Nat /\ DOMAIN code = 1..Len(code)
      /\ Len(procs) \in Nat /\ DOMAIN procs = 1..Len(procs)
      /\ Level \in Nat /\ DOMAIN scopes = 1..Level
  BY <1>2, SeqFact DEF Level
<1>4. ASSUME Level > 0
      PROVE  /\ Level \in 1..Level /\ Top = scopes[Level] /\ Current = Top.proc
             /\ DOMAIN Top = ScopeFields /\ Current \in Open /\ Current \in DOMAIN procs
             /\ ~ Top.begun
  <2>1. Level \in 1..Level /\ Level # 0
    BY <1>3, <1>4
  <2> QED BY <1>4, <2>1, Zenon DEF IInv, ScopesOpen, Top, Current, Open, InBody
<1>5. Level = 0 => Current = 0
  BY DEF Current
<1>6. \A l \in 1..Level : ~ scopes[l].begun
  <2>1. \A l \in 1..Level : l < Level \/ (l = Level /\ Level > 0)
    BY <1>3
  <2> QED BY <1>4, <2>1, Zenon DEF IInv, ScopesOpen
<1>7. ret_patch_list = {}
  BY DEF IInv, ScopesOpen
<1>8. Current # 0 => Current \in DOMAIN procs
  <2>1. Level = 0 \/ Level > 0
    BY <1>3
  <2> QED BY <1>4, <1>5, <2>1
<1> QED BY <1>1, <1>2, <1>3, <1>4, <1>5, <1>6, <1>7, <1>8, Zenon

(* A local variable is declared. *)
LEMMA DeclareVarStep ==
  ASSUME IInv, DeclareVar
  PROVE  IInv'
<1> DEFINE s == AllocLocal(Top, "var")
<1>1. /\ ~ InBody /\ Level > 0 /\ scopes' = [scopes EXCEPT ![Level] = AllocLocal(@, "var")]
      /\ UNCHANGED <<procs, code, cur_prologue_patch, ret_patch_list, text, stage>>
  BY DEF DeclareVar, Declaration, Parse
<1>2. /\ IsSeq(scopes) /\ Level \in Nat /\ DOMAIN scopes = 1..Level
      /\ Level \in 1..Level /\ Top = scopes[Level] /\ DOMAIN Top = ScopeFields
      /\ ~ Top.begun
  BY <1>1, OutFact
<1>3. Top.local_top \in Int /\ Holds(-Top.local_top, Top.symbols)
  BY <1>2, Zenon DEF IInv, FramesFit
<1>4. /\ DOMAIN s = ScopeFields
      /\ \A f \in ScopeFields \ {"symbols", "local_top"} : s[f] = Top[f]
      /\ s.local_top \in Int /\ Holds(-s.local_top, s.symbols)
  BY <1>2, <1>3, AllocFact
<1>5. scopes' = [scopes EXCEPT ![Level] = s]
  BY <1>1, <1>2
<1> HIDE DEF s
<1>6. /\ IsSeq(scopes') /\ Level' = Level /\ scopes'[Level] = s
      /\ \A l \in 1..Level : l # Level => scopes'[l] = scopes[l]
  <2> DEFINE t == [scopes EXCEPT ![Level] = s]
  <2>1. /\ IsSeq(t) /\ Len(t) = Len(scopes) /\ t[Level] = s
        /\ \A l \in DOMAIN scopes : l # Level => t[l] = scopes[l]
    <3>1. IsSeq(scopes) /\ Level \in DOMAIN scopes
      BY <1>2
    <3> QED BY <3>1, ExceptFact
  <2> HIDE DEF t
  <2>2. scopes' = t
    BY <1>5 DEF t
  <2> QED BY <1>2, <2>1, <2>2, Zenon DEF Level
<1>7. \A l \in 1..Level :
         /\ DOMAIN scopes'[l] = DOMAIN scopes[l] /\ scopes'[l].proc = scopes[l].proc
         /\ scopes'[l].begun = scopes[l].begun /\ scopes'[l].nest = scopes[l].nest
         /\ scopes'[l].skip_nested = scopes[l].skip_nested
         /\ scopes'[l].saved_ret = scopes[l].saved_ret
  <2>1. /\ DOMAIN s = DOMAIN Top /\ s.proc = Top.proc /\ s.begun = Top.begun
        /\ s.nest = Top.nest /\ s.skip_nested = Top.skip_nested /\ s.saved_ret = Top.saved_ret
    BY <1>2, <1>4 DEF ScopeFields
  <2> QED BY <1>2, <1>6, <2>1, Zenon
<1>8. ~ InBody' /\ BodyOf' = BodyOf /\ Skips' = Skips /\ Open' = Open
  <2>1. ~ InBody'
    BY <1>2, <1>6, <1>7, Zenon DEF InBody, Top
  <2>2. BodyOf' = BodyOf
    BY <1>1, <2>1 DEF BodyOf
  <2>3. Skips' = Skips
    BY <1>6, <1>7 DEF Skips
  <2>4. Open' = Open
    BY <1>6, <1>7 DEF Open
  <2> QED BY <2>1, <2>2, <2>3, <2>4
<1>9. CodeFlows' /\ ProcsKnown' /\ CallsKnown' /\ NestPatches' /\ text' \in Texts
  <2>1. CodeFlows'
    BY <1>1, <1>8, Zenon DEF IInv, CodeFlows
  <2>2. ProcsKnown'
    BY <1>1, <1>8, Zenon DEF IInv, ProcsKnown
  <2>3. CallsKnown' /\ NestPatches' /\ text' \in Texts
    BY <1>1, <1>8, Zenon DEF IInv, CallsKnown, NestPatches
  <2> QED BY <2>1, <2>2, <2>3
<1>10. ScopesOpen'
  <2>1. \A l \in 1..Level : \A m \in 1..l-1 : m \in 1..Level
    BY <1>2
  <2>2. ASSUME NEW l \in 1..Level
        PROVE  /\ DOMAIN scopes[l] = ScopeFields
               /\ scopes[l].proc \in DOMAIN procs
               /\ \A m \in 1..l-1 : scopes[m].proc < scopes[l].proc
               /\ scopes[l].begun \in BOOLEAN
               /\ l < Level => ~scopes[l].begun
               /\ ~scopes[l].begun => scopes[l].nest = <<>>
               /\ IsSeq(scopes[l].nest)
               /\ scopes[l].skip_nested \in DOMAIN code
               /\ code[scopes[l].skip_nested].op = "jmp"
               /\ code[scopes[l].skip_nested].of = scopes[l].proc
               /\ scopes[l].saved_ret = {}
    BY Zenon DEF IInv, ScopesOpen
  <2>3. ASSUME NEW l \in 1..Level
        PROVE  \A m \in 1..l-1 : scopes'[m].proc < scopes'[l].proc
    BY <1>7, <2>1, <2>2, Zenon
  <2>4. ret_patch_list' = {}
    BY <1>1, OutFact, Zenon
  <2>5. ASSUME NEW l \in 1..Level
        PROVE  /\ DOMAIN scopes'[l] = ScopeFields
               /\ scopes'[l].proc \in DOMAIN procs'
               /\ scopes'[l].begun \in BOOLEAN
               /\ l < Level => ~scopes'[l].begun
               /\ ~scopes'[l].begun => scopes'[l].nest = <<>>
               /\ IsSeq(scopes'[l].nest)
               /\ scopes'[l].skip_nested \in DOMAIN code'
               /\ code'[scopes'[l].skip_nested].op = "jmp"
               /\ code'[scopes'[l].skip_nested].of = scopes'[l].proc
               /\ scopes'[l].saved_ret = {}
    <3>1. code' = code /\ procs' = procs
      BY <1>1, Zenon
    <3> QED BY <1>7, <2>2, <3>1, Zenon
  <2> QED BY <1>6, <1>8, <2>3, <2>4, <2>5, Zenon DEF ScopesOpen
<1>11. FramesFit'
  <2>1. \A l \in 1..Level : scopes'[l].local_top \in Int
                            /\ Holds(-scopes'[l].local_top, scopes'[l].symbols)
    BY <1>4, <1>6, Zenon DEF IInv, FramesFit
  <2>2. \A p \in DOMAIN procs' : p \notin Open' =>
           Holds(IF procs'[p].code_ofs = 0 THEN 0 ELSE FrameSize(p)', procs'[p].symbols)
    BY <1>1, <1>8, Zenon DEF IInv, FramesFit, FrameSize
  <2> QED BY <1>6, <1>8, <2>1, <2>2, Zenon DEF FramesFit
<1>12. Over'
  BY <1>1, <1>6, Zenon DEF IInv, Over
<1> QED BY <1>9, <1>10, <1>11, <1>12, Zenon DEF IInv


(* The symbol of a new procedure has its parameters only. *)
LEMMA NewProcFact ==
  ASSUME IInv, pos \in DOMAIN text
  PROVE  LET q == NewProc(text[pos].heading) IN
         /\ ProcFields \subseteq DOMAIN q
         /\ q.outer = Current /\ q.level = Level /\ q.code_ofs = 0
         /\ q.fwd_decl = FALSE /\ q.fwd_patches = {}
         /\ Holds(0, q.symbols)
<1> DEFINE h == text[pos].heading
           q == NewProc(h)
<1>1. h \in Headings
  <2> DEFINE C == [k : STRING, heading : Headings]
  <2>1. text \in Seq(C)
    BY ProceduresAssumption, Zenon DEF IInv
  <2>2. \A c \in C : c.heading \in Headings
    BY Zenon
  <2> HIDE DEF C
  <2>3. text[pos] \in C
    BY <2>1
  <2> QED BY <2>2, <2>3, Zenon
<1>2. h.params \in Seq(Params)
  BY <1>1, Zenon DEF Headings
<1> HIDE DEF h
<1> DEFINE far == h.modifier = "FAR" \/ h.exported
           sl == ~ h.exported /\ Level > 0
           s == [i \in DOMAIN h.params |->
                    [kind |-> h.params[i], adr |-> ParamAdr(h, far, sl, i)]]
           n == Len(h.params)
<1>3. n \in Nat /\ s = [i \in 1..n |-> s[i]] /\ \A i \in 1..n : s[i].kind \in Params
  BY <1>2
<1>4. /\ ProcFields \subseteq DOMAIN q
      /\ q.outer = Current /\ q.level = Level /\ q.code_ofs = 0
      /\ q.fwd_decl = FALSE /\ q.fwd_patches = {} /\ q.symbols = s
  BY DEF NewProc, ProcFields
<1> HIDE DEF q, s, n
<1>5. IsSeq(s) /\ DOMAIN s = 1..n
  BY <1>3, MadeSeq
<1>6. \A i \in DOMAIN s : ~ IsLocal(s[i])
  BY <1>3, <1>5 DEF IsLocal
<1>7. Holds(0, s)
  BY <1>5, <1>6 DEF Holds
<1> QED BY <1>4, <1>7 DEF q, h

(* The procedures Open are known, and the enclosing ones come first. *)
LEMMA OpenProcs ==
  ASSUME IInv
  PROVE  /\ Open \subseteq DOMAIN procs
         /\ Len(procs) \in Nat /\ DOMAIN procs = 1..Len(procs)
         /\ \A p \in Open : p <= Current /\ Level > 0
         /\ Current \in 0..Len(procs)
<1>1. /\ IsSeq(procs) /\ Len(procs) \in Nat /\ DOMAIN procs = 1..Len(procs)
      /\ Level \in Nat
  <2>1. IsSeq(procs) /\ IsSeq(scopes)
    BY DEF IInv, ProcsKnown, ScopesOpen
  <2> QED BY <2>1, SeqFact DEF Level
<1>2. Open \subseteq DOMAIN procs
  BY Zenon DEF IInv, ScopesOpen, Open
<1>3. ASSUME NEW l \in 1..Level
      PROVE  scopes[l].proc <= Current /\ Level > 0 /\ Current \in 1..Len(procs)
  <2>1. Level > 0 /\ Level # 0 /\ Level \in 1..Level /\ (l \in 1..Level-1 \/ l = Level)
    BY <1>1, <1>3
  <2>2. Current = scopes[Level].proc
    BY <2>1, Zenon DEF Current, Top
  <2>3. scopes[Level].proc \in 1..Len(procs) /\ scopes[l].proc \in 1..Len(procs)
    BY <1>1, <2>1, Zenon DEF IInv, ScopesOpen
  <2>4. l \in 1..Level-1 => scopes[l].proc < scopes[Level].proc
    BY <2>1, Zenon DEF IInv, ScopesOpen
  <2> QED BY <2>1, <2>2, <2>3, <2>4
<1>4. Current \in 0..Len(procs)
  <2>1. Level = 0 \/ Level \in 1..Level
    BY <1>1
  <2>2. Level = 0 => Current = 0
    BY DEF Current
  <2> QED BY <1>1, <1>3, <2>1, <2>2
<1> QED BY <1>1, <1>2, <1>3, <1>4, Zenon DEF Open

(* A procedure is declared FORWARD. *)
LEMMA ForwardStep ==
  ASSUME IInv, Forward
  PROVE  IInv'
<1> DEFINE q == NewProc(text[pos].heading)
           r == [q EXCEPT !.fwd_decl = TRUE]
           new == Len(procs) + 1
<1>1. /\ ~ InBody /\ stage = "compile" /\ pos \in DOMAIN text /\ procs' = Append(procs, r)
      /\ UNCHANGED <<scopes, code, cur_prologue_patch, ret_patch_list, text, stage>>
  BY DEF Forward, Declaration, Parse
<1>2. /\ ProcFields \subseteq DOMAIN q
      /\ q.outer = Current /\ q.level = Level /\ q.code_ofs = 0
      /\ q.fwd_patches = {} /\ Holds(0, q.symbols)
  BY <1>1, NewProcFact
<1> HIDE DEF q
<1>3. /\ ProcFields \subseteq DOMAIN r
      /\ r.outer = Current /\ r.code_ofs = 0 /\ r.fwd_decl = TRUE
      /\ r.fwd_patches = {} /\ Holds(0, r.symbols)
  BY <1>2 DEF ProcFields
<1> HIDE DEF r
<1>4. /\ IsSeq(procs) /\ Len(procs) \in Nat /\ DOMAIN procs = 1..Len(procs)
      /\ Open \subseteq DOMAIN procs /\ Current \in 0..Len(procs)
  BY OpenProcs DEF IInv, ProcsKnown
<1>5. /\ IsSeq(procs') /\ DOMAIN procs' = 1..new
      /\ \A p \in DOMAIN procs : procs'[p] = procs[p]
      /\ procs'[new] = r
  <2>1. /\ IsSeq(procs') /\ Len(procs') = new
        /\ \A p \in 1..Len(procs) : procs'[p] = procs[p]
        /\ procs'[new] = r
    <3>1. /\ IsSeq(Append(procs, r)) /\ Len(Append(procs, r)) = new
          /\ \A p \in 1..Len(procs) : Append(procs, r)[p] = procs[p]
          /\ Append(procs, r)[new] = r
      <4>1. IsSeq(procs)
        BY <1>4
      <4> QED BY <4>1, AppendFact
    <3> QED BY <1>1, <3>1, Zenon
  <2> QED BY <1>4, <2>1, SeqFact, Zenon
<1>6. /\ \A p \in DOMAIN procs' : p \in DOMAIN procs \/ p = new
      /\ DOMAIN procs \subseteq DOMAIN procs' /\ new \notin DOMAIN procs
      /\ Current \in 0..new-1
  BY <1>4, <1>5
<1>7. ~ InBody' /\ BodyOf' = BodyOf /\ Skips' = Skips /\ Open' = Open /\ Level' = Level
  BY <1>1 DEF InBody, BodyOf, Skips, Open, Level, Top
<1>8. CodeFlows' /\ NestPatches' /\ text' \in Texts
  BY <1>1, <1>7, Zenon DEF IInv, CodeFlows, NestPatches
<1>9. ProcsKnown'
  <2>1. \A p \in DOMAIN procs : p \in DOMAIN procs' /\ procs'[p] = procs[p]
    BY <1>5, <1>6, Zenon
  <2>2. new \notin Open
    BY <1>4, <1>6
  <2>3. IsSeq(r.symbols)
    BY <1>3 DEF Holds
  <2>4. ASSUME NEW p \in DOMAIN procs'
        PROVE  /\ ProcFields \subseteq DOMAIN procs'[p]
               /\ procs'[p].outer \in 0..p-1 /\ IsSeq(procs'[p].symbols)
               /\ procs'[p].code_ofs # 0 => IsPrologue(code, procs'[p].code_ofs, p)
               /\ procs'[p].code_ofs = 0 => procs'[p].fwd_decl /\ p \notin Open
               /\ procs'[p].fwd_decl /\ procs'[p].code_ofs # 0 => p \in Open
               /\ \A a \in procs'[p].fwd_patches :
                     a \in DOMAIN code /\ code[a].op = "call" /\ code[a].src.p = p
    <3>1. CASE p \in DOMAIN procs
      BY <2>1, <3>1, Zenon DEF IInv, ProcsKnown
    <3>2. CASE p = new
      BY <1>3, <1>5, <1>6, <2>2, <2>3, <3>2
    <3> QED BY <1>6, <3>1, <3>2
  <2> QED BY <1>1, <1>5, <1>7, <2>4, Zenon DEF ProcsKnown
<1>10. CallsKnown'
  BY <1>1, <1>5, <1>6, Zenon DEF IInv, CallsKnown
<1>11. ScopesOpen'
  <2>1. \A l \in 1..Level : scopes[l].proc \in DOMAIN procs'
    BY <1>6, Zenon DEF IInv, ScopesOpen
  <2>2. Current' = Current
    BY <1>1 DEF Current, Top, Level
  <2> QED BY <1>1, <1>7, <2>1, <2>2, Zenon DEF IInv, ScopesOpen
<1>12. FramesFit'
  <2>1. ASSUME NEW p \in DOMAIN procs', p \notin Open
        PROVE  Holds(IF procs'[p].code_ofs = 0 THEN 0 ELSE FrameSize(p)', procs'[p].symbols)
    <3>1. CASE p \in DOMAIN procs
      BY <1>1, <1>5, <2>1, <3>1, Zenon DEF IInv, FramesFit, FrameSize
    <3>2. CASE p = new
      BY <1>3, <1>5, <3>2, Zenon
    <3> QED BY <1>6, <3>1, <3>2
  <2> QED BY <1>1, <1>7, <2>1, Zenon DEF IInv, FramesFit
<1>13. Over'
  BY <1>1 DEF Over
<1> QED BY <1>8, <1>9, <1>10, <1>11, <1>12, <1>13, Zenon DEF IInv


(* What growth keeps, for every address of the old code. *)
LEMMA GrownFact ==
  ASSUME NEW c, NEW d, NEW p, Grown(c, d, p)
  PROVE  /\ Len(c) \in Nat /\ Len(d) \in Nat /\ Len(c) <= Len(d)
         /\ DOMAIN c = 1..Len(c) /\ DOMAIN d = 1..Len(d)
         /\ \A a \in DOMAIN c : a \in DOMAIN d /\ SameIns(c[a], d[a])
         /\ \A a, q : IsPrologue(c, a, q) => IsPrologue(d, a, q)
<1>1. /\ Len(c) \in Nat /\ Len(d) \in Nat /\ Len(c) <= Len(d)
      /\ DOMAIN c = 1..Len(c) /\ DOMAIN d = 1..Len(d)
  BY SeqFact DEF Grown
<1>2. \A a \in 1..Len(c) : a \in 1..Len(d)
  BY <1>1
<1>3. \A a \in DOMAIN c : a \in DOMAIN d /\ SameIns(c[a], d[a])
  BY <1>1, <1>2, Zenon DEF Grown
<1> QED BY <1>1, <1>3, Zenon DEF IsPrologue, SameIns

(* The same where no body is parsed. *)
LEMMA EmitOut ==
  ASSUME NEW c, NEW skips, Flows(c, 0, skips),
         NEW e, IsSeq(e), Len(e) > 0, NEW p, NEW more, skips \subseteq more,
         \A i \in 1..Len(e) :
            /\ Formed(e[i]) /\ e[i].of = p
            /\ \/ Len(c) + i \in more
               \/ \A t \in Follows(e[i], Len(c) + i) : Within(c \o e, 0, p, t)
  PROVE  /\ Flows(c \o e, 0, more) /\ Grown(c, c \o e, p)
         /\ FramesKept(c, c \o e)
<1>1. \A body : body = 0 => (body # 0 => p = body)
  OBVIOUS
<1> QED BY <1>1, Emit

(* The body of p is opened: a prologue, and a jump over what is nested. *)
LEMMA OpenBodyStep ==
  ASSUME IInv, ~ InBody, stage = "compile", UNCHANGED <<text, stage>>,
         NEW p \in 1..Len(procs)+1, NEW q, OpenBody(p, q), Current < p,
         ProcFields \subseteq DOMAIN q, q.outer = Current,
         Holds(0, q.symbols), p \in DOMAIN procs => q = procs[p] /\ q.fwd_decl,
         p \notin DOMAIN procs => q.fwd_patches = {}
  PROVE  IInv'
<1> DEFINE r == [q EXCEPT !.code_ofs = Pc]
           s == [proc |-> p, symbols |-> q.symbols, local_top |-> 0,
                 begun |-> FALSE, nest |-> <<>>, skip_nested |-> Pc + 1,
                 saved_ret |-> ret_patch_list, saved_patch |-> cur_prologue_patch]
           x == [op |-> "prologue", of |-> p, size |-> 0,
                 src |-> [k |-> "enter", p |-> p, in |-> q.outer]]
           j == [op |-> "jmp", of |-> p, src |-> None, to |-> Pc + 2]
           e == <<x, j>>
           new == Level + 1
<1>1. /\ procs' = [i \in DOMAIN procs \cup {p} |-> IF i = p THEN r ELSE procs[i]]
      /\ scopes' = Append(scopes, s) /\ code' = code \o e
      /\ cur_prologue_patch' = Pc /\ ret_patch_list' = {}
  BY DEF OpenBody
<1>2. /\ Flows(code, 0, Skips) /\ IsSeq(code) /\ Len(code) \in Nat /\ DOMAIN code = 1..Len(code)
      /\ IsSeq(scopes) /\ Level \in Nat /\ DOMAIN scopes = 1..Level
      /\ \A l \in 1..Level : ~ scopes[l].begun
      /\ ret_patch_list = {}
  BY OutFact
<1>3. /\ Open \subseteq DOMAIN procs /\ Len(procs) \in Nat /\ DOMAIN procs = 1..Len(procs)
      /\ \A i \in Open : i <= Current
      /\ Current \in 0..Len(procs) /\ IsSeq(procs)
  BY OpenProcs DEF IInv, ProcsKnown
<1>4. p \notin Open /\ \A l \in 1..Level : scopes[l].proc < p /\ scopes[l].proc \in DOMAIN procs
  <2>1. \A i \in Open : i \in Nat /\ i < p
    BY <1>3
  <2>2. ~ (p < p)
    BY <1>3
  <2> QED BY <1>3, <2>1, <2>2, Zenon DEF Open
<1>5. Pc = Len(code) + 1 /\ Pc # 0 /\ Pc + 1 = Len(code) + 2
  BY <1>2 DEF Pc
<1>6. /\ DOMAIN s = ScopeFields /\ s.proc = p /\ s.symbols = q.symbols /\ s.local_top = 0
      /\ s.begun = FALSE /\ s.nest = <<>> /\ s.skip_nested = Pc + 1 /\ s.saved_ret = {}
  BY <1>2 DEF ScopeFields
<1> HIDE DEF s
<1>7. /\ Formed(x) /\ x.op = "prologue" /\ x.of = p
      /\ Formed(j) /\ j.op = "jmp" /\ j.of = p
  BY DEF Formed, Jumps
<1> HIDE DEF x, j
<1>8. /\ IsSeq(e) /\ Len(e) = 2 /\ e[1] = x /\ e[2] = j /\ \A n \in 1..2 : n = 1 \/ n = 2
  BY PairFact, Zenon
<1> HIDE DEF e
<1>9. /\ IsSeq(code') /\ Len(code') = Len(code) + 2 /\ DOMAIN code' = 1..Len(code)+2
      /\ code'[Pc] = x /\ code'[Pc + 1] = j
      /\ Pc \in DOMAIN code' /\ Pc + 1 \in DOMAIN code'
  <2>1. /\ IsSeq(code \o e) /\ Len(code \o e) = Len(code) + Len(e)
        /\ \A i \in 1..Len(e) : (code \o e)[Len(code) + i] = e[i]
    <3>1. IsSeq(code) /\ IsSeq(e)
      BY <1>2, <1>8
    <3> QED BY <3>1, ConcatFact
  <2>2. 1 \in 1..2 /\ 2 \in 1..2 /\ Pc \in 1..Len(code)+2 /\ Pc + 1 \in 1..Len(code)+2
    BY <1>2, <1>5
  <2>3. /\ IsSeq(code') /\ Len(code') = Len(code) + 2
        /\ code'[Len(code) + 1] = x /\ code'[Len(code) + 2] = j
    BY <1>1, <1>8, <2>1, <2>2
  <2>4. DOMAIN code' = 1..Len(code)+2
    BY <2>3, SeqFact, Zenon
  <2> QED BY <1>5, <2>2, <2>3, <2>4
<1>10. /\ Flows(code', 0, Skips \cup {Pc + 1}) /\ Grown(code, code', p)
       /\ FramesKept(code, code')
  <2>1. Within(code', 0, p, Pc + 1)
    BY <1>7, <1>9, Zenon DEF Within
  <2>2. \A t \in Follows(x, Pc) : t = Pc + 1
    BY <1>7, FollowsFact DEF Jumps
  <2> DEFINE more == Skips \cup {Pc + 1}
  <2>3. \A i \in 1..Len(e) :
           /\ Formed(e[i]) /\ e[i].of = p
           /\ \/ Len(code) + i \in more
              \/ \A t \in Follows(e[i], Len(code) + i) : Within(code \o e, 0, p, t)
    <3> SUFFICES ASSUME NEW i \in 1..Len(e)
                 PROVE  /\ Formed(e[i]) /\ e[i].of = p
                        /\ \/ Len(code) + i \in more
                           \/ \A t \in Follows(e[i], Len(code) + i) : Within(code \o e, 0, p, t)
      OBVIOUS
    <3>1. CASE i = 1
      BY <1>1, <1>5, <1>7, <1>8, <2>1, <2>2, <3>1
    <3>2. CASE i = 2
      BY <1>5, <1>7, <1>8, <3>2
    <3> QED BY <1>8, <3>1, <3>2
  <2>4. Flows(code, 0, Skips) /\ IsSeq(e) /\ Len(e) > 0 /\ Skips \subseteq more
    BY <1>2, <1>8
  <2> HIDE DEF more
  <2>5. /\ Flows(code \o e, 0, more) /\ Grown(code, code \o e, p)
        /\ FramesKept(code, code \o e)
    BY <2>3, <2>4, EmitOut, Zenon
  <2> QED BY <1>1, <2>5, Zenon DEF more
<1>11. /\ \A a \in DOMAIN code : a \in DOMAIN code' /\ SameIns(code[a], code'[a])
       /\ \A a, n : IsPrologue(code, a, n) => IsPrologue(code', a, n)
  BY <1>10, GrownFact
<1>12. IsPrologue(code', Pc, p)
  BY <1>7, <1>9 DEF IsPrologue
<1>13. /\ IsSeq(scopes') /\ Level' = new /\ new \in 1..new /\ scopes'[new] = s
       /\ \A l \in 1..Level : scopes'[l] = scopes[l]
       /\ \A l \in 1..new : l \in 1..Level \/ l = new
       /\ \A l \in 1..Level : l \in 1..new
       /\ new # 0
  <2>1. /\ IsSeq(Append(scopes, s)) /\ Len(Append(scopes, s)) = new
        /\ \A l \in 1..Level : Append(scopes, s)[l] = scopes[l]
        /\ Append(scopes, s)[new] = s
    BY <1>2, AppendFact DEF Level
  <2>2. /\ \A l \in 1..new : l \in 1..Level \/ l = new
        /\ \A l \in 1..Level : l \in 1..new
        /\ new # 0 /\ new \in 1..new
    BY <1>2
  <2> HIDE DEF new
  <2>3. Level' = Len(scopes')
    BY DEF Level
  <2> QED BY <1>1, <2>1, <2>2, <2>3, Zenon
<1> HIDE DEF new
<1>14. Top' = s /\ Current' = p /\ ~ InBody' /\ BodyOf' = 0
  BY <1>6, <1>13 DEF Top, Current, InBody, BodyOf
<1>15. Open' = Open \cup {p} /\ Skips' = Skips \cup {Pc + 1}
  <2>1. Open' = Open \cup {p}
    BY <1>6, <1>13 DEF Open
  <2>2. Skips' = Skips \cup {Pc + 1}
    <3>1. Skips' = {scopes'[l].skip_nested : l \in {m \in 1..new : ~ scopes'[m].begun}}
      BY <1>13, Zenon DEF Skips
    <3>2. Skips = {scopes[l].skip_nested : l \in {m \in 1..Level : ~ scopes[m].begun}}
      BY DEF Skips
    <3>3. {m \in 1..new : ~ scopes'[m].begun} = 1..Level \cup {new}
      BY <1>2, <1>6, <1>13
    <3>4. {m \in 1..Level : ~ scopes[m].begun} = 1..Level
      BY <1>2
    <3> QED BY <1>6, <1>13, <3>1, <3>2, <3>3, <3>4
  <2> QED BY <2>1, <2>2
<1>16. CodeFlows' /\ NestPatches' /\ text' \in Texts /\ Over'
  BY <1>10, <1>14, <1>15, Zenon DEF IInv, CodeFlows, NestPatches, Over
<1>17. /\ ProcFields \subseteq DOMAIN r
       /\ r.outer = q.outer /\ r.code_ofs = Pc /\ r.symbols = q.symbols
       /\ r.fwd_decl = q.fwd_decl /\ r.fwd_patches = q.fwd_patches
  BY DEF ProcFields
<1> HIDE DEF r
<1>18. /\ DOMAIN procs' = DOMAIN procs \cup {p} /\ IsSeq(procs') /\ procs'[p] = r
       /\ \A n \in DOMAIN procs : n # p => procs'[n] = procs[n]
  <2>1. /\ DOMAIN procs' = DOMAIN procs \cup {p} /\ procs'[p] = r
        /\ \A n \in DOMAIN procs : n # p => procs'[n] = procs[n]
        /\ procs' = [i \in DOMAIN procs \cup {p} |-> procs'[i]]
    BY <1>1, Zenon
  <2>2. PICK m \in Nat : DOMAIN procs \cup {p} = 1..m
    <3>1. CASE p = Len(procs) + 1
      <4>1. 1..Len(procs) \cup {p} = 1..Len(procs)+1 /\ Len(procs) + 1 \in Nat
        BY <1>3, <3>1
      <4> QED BY <1>3, <4>1
    <3>2. CASE p \in 1..Len(procs)
      BY <1>3, <3>2
    <3>3. p = Len(procs) + 1 \/ p \in 1..Len(procs)
      BY <1>3
    <3> QED BY <3>1, <3>2, <3>3
  <2>3. IsSeq(procs')
    <3>1. procs' = [i \in 1..m |-> procs'[i]]
      BY <2>1, <2>2, Zenon
    <3> QED BY <3>1, MadeSeq, Zenon
  <2> QED BY <2>1, <2>3
<1>19. \A a \in q.fwd_patches : a \in DOMAIN code /\ code[a].op = "call" /\ code[a].src.p = p
  <2>1. CASE p \in DOMAIN procs
    BY <2>1, Zenon DEF IInv, ProcsKnown
  <2>2. CASE p \notin DOMAIN procs
    BY <2>2
  <2> QED BY <2>1, <2>2
<1>20. ProcsKnown'
  <2>1. ASSUME NEW n \in DOMAIN procs, n # p
        PROVE  /\ ProcFields \subseteq DOMAIN procs'[n]
               /\ procs'[n].outer \in 0..n-1 /\ IsSeq(procs'[n].symbols)
               /\ procs'[n].code_ofs # 0 => IsPrologue(code', procs'[n].code_ofs, n)
               /\ procs'[n].code_ofs = 0 => procs'[n].fwd_decl /\ n \notin Open'
               /\ procs'[n].fwd_decl /\ procs'[n].code_ofs # 0 => n \in Open'
               /\ \A a \in procs'[n].fwd_patches :
                     a \in DOMAIN code' /\ code'[a].op = "call" /\ code'[a].src.p = n
    <3>1. procs'[n] = procs[n]
      BY <1>18, <2>1
    <3>2. ASSUME NEW a \in procs[n].fwd_patches
          PROVE  a \in DOMAIN code' /\ code'[a].op = "call" /\ code'[a].src.p = n
      <4>1. a \in DOMAIN code /\ code[a].op = "call" /\ code[a].src.p = n
        BY Zenon DEF IInv, ProcsKnown
      <4> QED BY <1>11, <4>1, Zenon DEF SameIns
    <3>3. n \in Open' <=> n \in Open
      BY <1>15, <2>1
    <3>4. /\ ProcFields \subseteq DOMAIN procs[n]
          /\ procs[n].outer \in 0..n-1 /\ IsSeq(procs[n].symbols)
          /\ procs[n].code_ofs # 0 => IsPrologue(code, procs[n].code_ofs, n)
          /\ procs[n].code_ofs = 0 => procs[n].fwd_decl /\ n \notin Open
          /\ procs[n].fwd_decl /\ procs[n].code_ofs # 0 => n \in Open
      BY Zenon DEF IInv, ProcsKnown
    <3>5. procs[n].code_ofs # 0 => IsPrologue(code', procs[n].code_ofs, n)
      BY <1>11, <3>4, Zenon
    <3> QED BY <3>1, <3>2, <3>3, <3>4, <3>5, Zenon
  <2>2. /\ ProcFields \subseteq DOMAIN procs'[p]
        /\ procs'[p].outer \in 0..p-1 /\ IsSeq(procs'[p].symbols)
        /\ procs'[p].code_ofs = Pc /\ p \in Open'
        /\ \A a \in procs'[p].fwd_patches :
              a \in DOMAIN code' /\ code'[a].op = "call" /\ code'[a].src.p = p
    <3>1. Current \in 0..p-1
      BY <1>3
    <3>2. IsSeq(q.symbols)
      BY DEF Holds
    <3>3. ASSUME NEW a \in q.fwd_patches
          PROVE  a \in DOMAIN code' /\ code'[a].op = "call" /\ code'[a].src.p = p
      <4>1. a \in DOMAIN code /\ code[a].op = "call" /\ code[a].src.p = p
        BY <1>19, Zenon
      <4> QED BY <1>11, <4>1, Zenon DEF SameIns
    <3>4. p \in Open'
      BY <1>15
    <3> QED BY <1>17, <1>18, <3>1, <3>2, <3>3, <3>4, Zenon
  <2>3. ASSUME NEW n \in DOMAIN procs'
        PROVE  /\ ProcFields \subseteq DOMAIN procs'[n]
               /\ procs'[n].outer \in 0..n-1 /\ IsSeq(procs'[n].symbols)
               /\ procs'[n].code_ofs # 0 => IsPrologue(code', procs'[n].code_ofs, n)
               /\ procs'[n].code_ofs = 0 => procs'[n].fwd_decl /\ n \notin Open'
               /\ procs'[n].fwd_decl /\ procs'[n].code_ofs # 0 => n \in Open'
               /\ \A a \in procs'[n].fwd_patches :
                     a \in DOMAIN code' /\ code'[a].op = "call" /\ code'[a].src.p = n
    <3>1. CASE n = p
      BY <1>5, <1>12, <2>2, <3>1, Zenon
    <3>2. CASE n # p
      <4>1. n \in DOMAIN procs
        BY <1>18, <3>2
      <4> QED BY <2>1, <3>2, <4>1
    <3> QED BY <3>1, <3>2
  <2> QED BY <1>18, <2>3, Zenon DEF ProcsKnown
<1>21. CallsKnown'
  <2>1. ASSUME NEW a \in DOMAIN code, code[a].op = "call"
        PROVE  /\ code[a].src.p \in DOMAIN procs'
               /\ IF procs'[code[a].src.p].fwd_decl
                  THEN a \in procs'[code[a].src.p].fwd_patches
                  ELSE code[a].to = procs'[code[a].src.p].code_ofs
    <3> DEFINE n == code[a].src.p
    <3>1. /\ n \in DOMAIN procs
          /\ IF procs[n].fwd_decl THEN a \in procs[n].fwd_patches
                                  ELSE code[a].to = procs[n].code_ofs
      BY <2>1, Zenon DEF IInv, CallsKnown
    <3> HIDE DEF n
    <3>2. n \in DOMAIN procs'
      BY <1>18, <3>1
    <3>3. CASE n # p
      BY <1>18, <3>1, <3>2, <3>3, Zenon DEF n
    <3>4. CASE n = p
      <4>1. procs[n].fwd_decl /\ procs'[n] = r /\ q = procs[n]
        BY <1>18, <3>1, <3>4, Zenon
      <4>2. procs'[n].fwd_decl /\ a \in procs'[n].fwd_patches
        BY <1>17, <3>1, <4>1, Zenon
      <4> QED BY <3>2, <4>2, Zenon DEF n
    <3> QED BY <3>3, <3>4
  <2>2. ASSUME NEW a \in DOMAIN code', code'[a].op = "call"
        PROVE  a \in DOMAIN code /\ code[a].op = "call"
               /\ code'[a].src = code[a].src /\ code'[a].to = code[a].to
    <3>1. a \in DOMAIN code \/ a = Pc \/ a = Pc + 1
      BY <1>2, <1>5, <1>9
    <3>2. a # Pc /\ a # Pc + 1
      BY <1>7, <1>9, <2>2
    <3> QED BY <1>11, <2>2, <3>1, <3>2, Zenon DEF SameIns
  <2> QED BY <2>1, <2>2, Zenon DEF CallsKnown
<1>22. ScopesOpen'
  <2>1. ASSUME NEW l \in 1..Level
        PROVE  /\ DOMAIN scopes'[l] = ScopeFields
               /\ scopes'[l].proc \in DOMAIN procs'
               /\ \A m \in 1..l-1 : scopes'[m].proc < scopes'[l].proc
               /\ scopes'[l].begun \in BOOLEAN
               /\ ~ scopes'[l].begun
               /\ scopes'[l].nest = <<>> /\ IsSeq(scopes'[l].nest)
               /\ scopes'[l].skip_nested \in DOMAIN code'
               /\ code'[scopes'[l].skip_nested].op = "jmp"
               /\ code'[scopes'[l].skip_nested].of = scopes'[l].proc
               /\ scopes'[l].saved_ret = {}
    <3>1. \A m \in 1..l-1 : m \in 1..Level
      BY <1>2
    <3>2. \A m \in 1..l-1 : scopes'[m] = scopes[m] /\ scopes[m].proc < scopes[l].proc
      BY <1>13, <3>1, Zenon DEF IInv, ScopesOpen
    <3>3. scopes'[l] = scopes[l] /\ ~ scopes[l].begun
      BY <1>2, <1>13
    <3>4. scopes[l].proc \in DOMAIN procs'
      BY <1>4, <1>18
    <3>5. /\ scopes[l].skip_nested \in DOMAIN code'
          /\ code'[scopes[l].skip_nested].op = "jmp"
          /\ code'[scopes[l].skip_nested].of = scopes[l].proc
      BY <1>11, Zenon DEF IInv, ScopesOpen, SameIns
    <3> QED BY <3>2, <3>3, <3>4, <3>5, Zenon DEF IInv, ScopesOpen
  <2>2. /\ DOMAIN scopes'[new] = ScopeFields
        /\ scopes'[new].proc \in DOMAIN procs'
        /\ \A m \in 1..new-1 : scopes'[m].proc < scopes'[new].proc
        /\ scopes'[new].begun \in BOOLEAN
        /\ ~ scopes'[new].begun
        /\ scopes'[new].nest = <<>> /\ IsSeq(scopes'[new].nest)
        /\ scopes'[new].skip_nested \in DOMAIN code'
        /\ code'[scopes'[new].skip_nested].op = "jmp"
        /\ code'[scopes'[new].skip_nested].of = scopes'[new].proc
        /\ scopes'[new].saved_ret = {}
    <3>1. \A m \in 1..new-1 : m \in 1..Level
      BY <1>2 DEF new
    <3>2. \A m \in 1..new-1 : scopes'[m].proc < p
      BY <1>4, <1>13, <3>1
    <3>3. IsSeq(<<>>)
      <4>1. <<>> \in Seq({})
        OBVIOUS
      <4> QED BY <4>1, SeqIs, Zenon
    <3>4. p \in DOMAIN procs'
      BY <1>18
    <3> QED BY <1>6, <1>7, <1>9, <1>13, <3>2, <3>3, <3>4
  <2>3. IsSeq(scopes') /\ Level' = new /\ ~ InBody' /\ ret_patch_list' = {}
    BY <1>1, <1>13, <1>14
  <2>4. \A l \in 1..new : l \in 1..Level \/ l = new
    BY <1>13
  <2> QED BY <2>1, <2>2, <2>3, <2>4, Zenon DEF ScopesOpen
<1>23. FramesFit'
  <2>1. \A l \in 1..new : scopes'[l].local_top \in Int
                          /\ Holds(-scopes'[l].local_top, scopes'[l].symbols)
    <3>1. \A l \in 1..Level : scopes'[l].local_top \in Int
                              /\ Holds(-scopes'[l].local_top, scopes'[l].symbols)
      BY <1>13, Zenon DEF IInv, FramesFit
    <3>2. s.local_top \in Int /\ -s.local_top = 0 /\ s.symbols = q.symbols
      <4>1. 0 \in Int /\ \A v \in Int : v = 0 => -v = 0
        OBVIOUS
      <4> QED BY <1>6, <4>1, Zenon
    <3>3. Holds(-s.local_top, s.symbols)
      BY <3>2, Zenon
    <3> QED BY <1>13, <3>1, <3>2, <3>3, Zenon
  <2>2. ASSUME NEW n \in DOMAIN procs', n \notin Open'
        PROVE  Holds(IF procs'[n].code_ofs = 0 THEN 0 ELSE code'[procs'[n].code_ofs].size,
                     procs'[n].symbols)
    <3>1. n \in DOMAIN procs /\ n # p /\ n \notin Open /\ procs'[n] = procs[n]
      BY <1>15, <1>18, <2>2
    <3>2. Holds(IF procs[n].code_ofs = 0 THEN 0 ELSE code[procs[n].code_ofs].size,
                procs[n].symbols)
      BY <3>1, Zenon DEF IInv, FramesFit, FrameSize
    <3>3. procs[n].code_ofs # 0 =>
             code'[procs[n].code_ofs].size = code[procs[n].code_ofs].size
      <4>1. procs[n].code_ofs # 0 => IsPrologue(code, procs[n].code_ofs, n)
        BY <3>1, Zenon DEF IInv, ProcsKnown
      <4> QED BY <1>2, <1>10, <4>1, Zenon DEF IsPrologue, FramesKept, FrameKept
    <3> QED BY <3>1, <3>2, <3>3
  <2> QED BY <1>13, <1>14, <2>1, <2>2, Zenon DEF FramesFit, FrameSize
<1> QED BY <1>16, <1>20, <1>21, <1>22, <1>23, Zenon DEF IInv

(* A procedure is declared with a body. *)
LEMMA DeclareStep ==
  ASSUME IInv, Declare
  PROVE  IInv'
<1> DEFINE p == Len(procs) + 1
           q == NewProc(text[pos].heading)
<1>1. /\ ~ InBody /\ stage = "compile" /\ UNCHANGED <<text, stage>>
      /\ OpenBody(p, q) /\ pos \in DOMAIN text
  BY Zenon DEF Declare, Declaration, Parse
<1>2. /\ ProcFields \subseteq DOMAIN q /\ q.outer = Current
      /\ q.fwd_patches = {} /\ Holds(0, q.symbols)
  BY <1>1, NewProcFact
<1> HIDE DEF q
<1>3. p \in 1..Len(procs)+1 /\ Current < p /\ p \notin DOMAIN procs
  BY OpenProcs
<1> HIDE DEF p
<1> QED BY <1>1, <1>2, <1>3, OpenBodyStep, Zenon

(* A procedure declared FORWARD gets its body. *)
LEMMA ImplementStep ==
  ASSUME IInv, NEW p \in DOMAIN procs, Implement(p)
  PROVE  IInv'
<1>1. /\ ~ InBody /\ stage = "compile" /\ UNCHANGED <<text, stage>>
      /\ procs[p].fwd_decl /\ procs[p].outer = Current /\ OpenBody(p, procs[p])
  BY Zenon DEF Implement, Declaration, Parse
<1>2. /\ ProcFields \subseteq DOMAIN procs[p] /\ procs[p].outer \in 0..p-1
      /\ Len(procs) \in Nat /\ DOMAIN procs = 1..Len(procs)
      /\ \A i \in Open : i <= Current
  BY OpenProcs, Zenon DEF IInv, ProcsKnown
<1>3. p \in 1..Len(procs)+1 /\ Current < p /\ p \notin Open
  BY <1>1, <1>2
<1>4. procs[p].code_ofs = 0
  BY <1>1, <1>3, Zenon DEF IInv, ProcsKnown
<1>5. Holds(0, procs[p].symbols)
  BY <1>3, <1>4, Zenon DEF IInv, FramesFit
<1> QED BY <1>1, <1>2, <1>3, <1>5, OpenBodyStep, Zenon


(* BEGIN: the jump over the nested procedures gets its target, the frame its *)
(* size.                                                                     *)
LEMMA BeginStep ==
  ASSUME IInv, Begin
  PROVE  IInv'
<1> DEFINE p == Current
           at == procs[p].code_ofs
           h == Top.skip_nested
           c == SkipNested(code)
           s == [Top EXCEPT !.begun = TRUE]
<1>1. /\ ~ InBody /\ stage = "compile" /\ Level > 0
      /\ scopes' = [scopes EXCEPT ![Level].begun = TRUE]
      /\ cur_prologue_patch' = at /\ code' = SetFrame(c, at, Top)
      /\ UNCHANGED <<procs, ret_patch_list, text, stage>>
  BY Zenon DEF Begin, Declaration, Parse
<1>2. /\ Flows(code, 0, Skips) /\ IsSeq(code) /\ Len(code) \in Nat /\ DOMAIN code = 1..Len(code)
      /\ IsSeq(scopes) /\ Level \in Nat /\ DOMAIN scopes = 1..Level
      /\ Level \in 1..Level /\ Top = scopes[Level] /\ p = Top.proc
      /\ DOMAIN Top = ScopeFields /\ p \in Open
      /\ \A l \in 1..Level : ~ scopes[l].begun
      /\ ret_patch_list = {}
  BY <1>1, OutFact
<1>3. p \in DOMAIN procs /\ p # 0
  BY <1>2, OpenProcs
<1>4. at # 0 /\ IsPrologue(code, at, p)
  BY <1>2, <1>3, Zenon DEF IInv, ProcsKnown
<1>5. h \in DOMAIN code /\ code[h].op = "jmp" /\ code[h].of = p /\ Top.nest = <<>>
  BY <1>2, Zenon DEF IInv, ScopesOpen
<1>6. scopes' = [scopes EXCEPT ![Level] = s]
  BY <1>1, <1>2
<1>7. /\ DOMAIN s = ScopeFields /\ s.proc = Top.proc /\ s.begun = TRUE
      /\ s.nest = Top.nest /\ s.skip_nested = Top.skip_nested /\ s.saved_ret = Top.saved_ret
      /\ s.local_top = Top.local_top /\ s.symbols = Top.symbols
  BY <1>2 DEF ScopeFields
<1> HIDE DEF s
<1>8. /\ IsSeq(scopes') /\ Level' = Level /\ scopes'[Level] = s
      /\ \A l \in 1..Level : l # Level => scopes'[l] = scopes[l]
  <2> DEFINE t == [scopes EXCEPT ![Level] = s]
  <2>1. /\ IsSeq(t) /\ Len(t) = Len(scopes) /\ t[Level] = s
        /\ \A l \in DOMAIN scopes : l # Level => t[l] = scopes[l]
    <3>1. IsSeq(scopes) /\ Level \in DOMAIN scopes
      BY <1>2
    <3> QED BY <3>1, ExceptFact
  <2> HIDE DEF t
  <2>2. scopes' = t
    BY <1>6 DEF t
  <2> QED BY <1>2, <2>1, <2>2, Zenon DEF Level
<1>9. /\ Top' = s /\ Current' = p /\ InBody' /\ BodyOf' = p
  BY <1>1, <1>2, <1>7, <1>8 DEF Top, Current, InBody, BodyOf
<1>10. Open' = Open
  <2>1. \A l \in 1..Level : scopes'[l].proc = scopes[l].proc
    BY <1>2, <1>7, <1>8, Zenon
  <2> QED BY <1>8, <2>1 DEF Open
<1> HIDE DEF p, at, h, c
<1>11. /\ Flows(c, p, Skips) /\ Grown(code, c, p) /\ Quiet(code, c)
       /\ FramesKept(code, c) /\ Len(c) = Len(code) /\ c[h].to = Len(code) + 1
  <2>1. Flows(code, p, Skips)
    <3>1. \A of, t : Within(code, 0, of, t) => Within(code, p, of, t)
      BY DEF Within
    <3> QED BY <1>2, <3>1, Zenon DEF Flows
  <2>2. {h} \subseteq JumpsOf(code, p) /\ Within(code, p, p, Len(code) + 1)
    BY <1>3, <1>5 DEF JumpsOf, Jumps, Within
  <2>3. c = Patch(code, {h}, Len(code) + 1)
    BY DEF c, h, SkipNested, Pc
  <2> QED BY <1>3, <2>1, <2>2, <2>3, PatchBody
<1>12. \A a \in DOMAIN code : a \in DOMAIN c /\ SameIns(code[a], c[a])
  BY <1>11, GrownFact
<1>13. Flows(c, p, Skips')
  <2>1. \A a : a \in Skips => a \in Skips' \/ a = h
    <3>1. Skips = {scopes[l].skip_nested : l \in {m \in 1..Level : ~ scopes[m].begun}}
      BY DEF Skips
    <3>2. Skips' = {scopes'[l].skip_nested : l \in {m \in 1..Level : ~ scopes'[m].begun}}
      BY <1>8, Zenon DEF Skips
    <3>3. \A l \in 1..Level : /\ l # Level => scopes'[l] = scopes[l] /\ ~ scopes'[l].begun
                              /\ l = Level => scopes[l].skip_nested = h
      BY <1>2, <1>8 DEF h
    <3> QED BY <3>1, <3>2, <3>3, Zenon
  <2>2. \A t \in Follows(c[h], h) : Within(c, p, c[h].of, t)
    <3>1. c[h].op = "jmp" /\ c[h].of = p
      BY <1>5, <1>12, Zenon DEF SameIns
    <3>2. \A t \in Follows(c[h], h) : t = Len(c) + 1
      BY <1>11, <3>1, FollowsFact
    <3> QED BY <1>3, <3>1, <3>2, Zenon DEF Within
  <2> QED BY <1>11, <2>1, <2>2, Zenon DEF Flows
<1>14. IsPrologue(c, at, p)
  BY <1>4, <1>11, GrownFact, Zenon
<1>15. /\ Flows(code', p, Skips') /\ Grown(c, code', p) /\ Quiet(c, code')
       /\ code'[at].size = -Top.local_top
       /\ \A a \in 1..Len(c) : a # at => FrameKept(c, code', a)
  <2>1. Framed(c, SetFrame(c, at, Top), at, -Top.local_top, p, Skips')
    BY <1>13, <1>14, FrameSet, Zenon
  <2> QED BY <1>1, <2>1, Zenon DEF Framed
<1>16. Grown(code, code', p) /\ Quiet(code, code')
  BY <1>11, <1>15, GrownTrans, Zenon
<1>17. \A a \in 1..Len(code) : a # at => FrameKept(code, code', a)
  <2>1. \A a \in 1..Len(code) : c[a].op = code[a].op
    BY <1>2, <1>12, Zenon DEF SameIns
  <2> QED BY <1>11, <1>15, <2>1, Zenon DEF FramesKept, FrameKept
<1>18. ProcsKnown' /\ CallsKnown'
  BY <1>1, <1>10, <1>16, QuietCalls, Zenon DEF IInv
<1>19. CodeFlows' /\ text' \in Texts /\ Over'
  BY <1>1, <1>9, <1>15, Zenon DEF IInv, CodeFlows, Over
<1>20. NestPatches'
  <2>1. Nest' = <<>>
    BY <1>5, <1>7, <1>9, Zenon DEF Nest
  <2>2. \A i \in DOMAIN <<>> : FALSE
    OBVIOUS
  <2> QED BY <2>1, <2>2, Zenon DEF NestPatches
<1>21. ScopesOpen'
  <2>1. \A l \in 1..Level :
          /\ DOMAIN scopes'[l] = DOMAIN scopes[l] /\ scopes'[l].proc = scopes[l].proc
          /\ scopes'[l].nest = scopes[l].nest /\ scopes'[l].skip_nested = scopes[l].skip_nested
          /\ scopes'[l].saved_ret = scopes[l].saved_ret
    BY <1>2, <1>7, <1>8, Zenon
  <2>2. \A l \in 1..Level : /\ scopes'[l].begun \in BOOLEAN
                            /\ l < Level => ~ scopes'[l].begun
                            /\ scopes'[l].nest = <<>>
    <3>1. ~ (Level < Level)
      BY <1>2
    <3>2. \A l \in 1..Level : scopes[l].nest = <<>> /\ scopes[l].begun \in BOOLEAN
      BY <1>2, Zenon DEF IInv, ScopesOpen
    <3> QED BY <1>2, <1>7, <1>8, <2>1, <3>1, <3>2, Zenon
  <2>3. \A l \in 1..Level :
          /\ scopes[l].skip_nested \in DOMAIN code'
          /\ code'[scopes[l].skip_nested].op = "jmp"
          /\ code'[scopes[l].skip_nested].of = scopes[l].proc
    <3>1. \A a \in DOMAIN code : a \in DOMAIN code' /\ SameIns(code[a], code'[a])
      BY <1>16, GrownFact
    <3> QED BY <3>1, Zenon DEF IInv, ScopesOpen, SameIns
  <2>4. \A l \in 1..Level : \A m \in 1..l-1 : m \in 1..Level
    BY <1>2
  <2>5. ret_patch_list' = {}
    BY <1>1, <1>2
  <2>6. \A l \in 1..Level :
          /\ DOMAIN scopes[l] = ScopeFields
          /\ scopes[l].proc \in DOMAIN procs'
          /\ \A m \in 1..l-1 : scopes[m].proc < scopes[l].proc
          /\ IsSeq(scopes[l].nest)
          /\ scopes[l].saved_ret = {}
    BY <1>1, Zenon DEF IInv, ScopesOpen
  <2>7. ASSUME NEW l \in 1..Level
        PROVE  /\ DOMAIN scopes'[l] = ScopeFields
               /\ scopes'[l].proc \in DOMAIN procs'
               /\ \A m \in 1..l-1 : scopes'[m].proc < scopes'[l].proc
               /\ IsSeq(scopes'[l].nest)
               /\ scopes'[l].skip_nested \in DOMAIN code'
               /\ code'[scopes'[l].skip_nested].op = "jmp"
               /\ code'[scopes'[l].skip_nested].of = scopes'[l].proc
               /\ scopes'[l].saved_ret = {}
    BY <2>1, <2>3, <2>4, <2>6, Zenon
  <2> QED BY <1>8, <2>2, <2>5, <2>7, Zenon DEF ScopesOpen
<1>22. FramesFit'
  <2>1. \A l \in 1..Level : scopes'[l].local_top \in Int
                            /\ Holds(-scopes'[l].local_top, scopes'[l].symbols)
    BY <1>2, <1>7, <1>8, Zenon DEF IInv, FramesFit
  <2>2. /\ cur_prologue_patch' = procs'[Current'].code_ofs
        /\ code'[procs'[Current'].code_ofs].size = -Top.local_top
    BY <1>1, <1>9, <1>15, Zenon DEF at
  <2>3. ASSUME NEW n \in DOMAIN procs, n \notin Open
        PROVE  Holds(IF procs[n].code_ofs = 0 THEN 0 ELSE code'[procs[n].code_ofs].size,
                     procs[n].symbols)
    <3>1. Holds(IF procs[n].code_ofs = 0 THEN 0 ELSE code[procs[n].code_ofs].size,
                procs[n].symbols)
      BY <2>3, Zenon DEF IInv, FramesFit, FrameSize
    <3>2. procs[n].code_ofs # 0 =>
             code'[procs[n].code_ofs].size = code[procs[n].code_ofs].size
      <4>1. procs[n].code_ofs # 0 => IsPrologue(code, procs[n].code_ofs, n)
        BY <2>3, Zenon DEF IInv, ProcsKnown
      <4>2. n # p
        BY <1>2, <2>3
      <4> QED BY <1>2, <1>4, <1>17, <4>1, <4>2, Zenon DEF IsPrologue, FrameKept
    <3> QED BY <3>1, <3>2
  <2>4. Top'.local_top = Top.local_top
    BY <1>7, <1>9, Zenon
  <2> QED BY <1>1, <1>8, <1>9, <1>10, <2>1, <2>2, <2>3, <2>4, Zenon DEF FramesFit, FrameSize
<1> QED BY <1>18, <1>19, <1>20, <1>21, <1>22, Zenon DEF IInv


(* Calls get their target: no jump and no frame changes. *)
LEMMA CallsPatched ==
  ASSUME NEW c, NEW skips, Flows(c, 0, skips), NEW calls, NEW to,
         \A a \in calls : a \in DOMAIN c /\ c[a].op = "call"
  PROVE  LET d == Patch(c, calls, to) IN
         /\ Flows(d, 0, skips) /\ DOMAIN d = DOMAIN c
         /\ \A a \in DOMAIN c : /\ d[a].op = c[a].op /\ d[a].of = c[a].of /\ d[a].src = c[a].src
                                /\ FrameKept(c, d, a)
                                /\ a \notin calls => d[a] = c[a]
                                /\ a \in calls => d[a].to = to
<1> DEFINE d == Patch(c, calls, to)
<1>1. /\ Len(c) \in Nat /\ DOMAIN c = 1..Len(c) /\ IsSeq(c)
      /\ \A a \in DOMAIN c : Formed(c[a])
  BY SeqFact DEF Flows
<1>2. d = [a \in DOMAIN c |-> IF a \in calls THEN [c[a] EXCEPT !.to = to] ELSE c[a]]
  BY DEF Patch
<1> HIDE DEF d
<1>3. /\ \A a \in DOMAIN c : a \notin calls => d[a] = c[a]
      /\ \A a \in DOMAIN c : a \in calls => d[a] = [c[a] EXCEPT !.to = to]
      /\ IsSeq(d) /\ DOMAIN d = DOMAIN c /\ Len(d) = Len(c)
  <2>1. /\ DOMAIN d = DOMAIN c /\ d = [a \in DOMAIN c |-> d[a]]
        /\ \A a \in DOMAIN c : a \notin calls => d[a] = c[a]
        /\ \A a \in DOMAIN c : a \in calls => d[a] = [c[a] EXCEPT !.to = to]
    BY <1>2, Zenon
  <2>2. IsSeq(d) /\ Len(d) = Len(c)
    <3>1. d = [a \in 1..Len(c) |-> d[a]]
      BY <1>1, <2>1, Zenon
    <3> QED BY <1>1, <3>1, MadeSeq, Zenon
  <2> QED BY <2>1, <2>2
<1>4. ASSUME NEW a \in DOMAIN c, a \in calls
      PROVE  /\ d[a].op = c[a].op /\ d[a].of = c[a].of /\ d[a].src = c[a].src
             /\ d[a].to = to /\ Formed(d[a]) /\ c[a].op = "call"
  <2>1. d[a] = [c[a] EXCEPT !.to = to] /\ Formed(c[a]) /\ c[a].op = "call"
    BY <1>1, <1>3, <1>4
  <2> QED BY <2>1 DEF Formed, Jumps
<1>5. ASSUME NEW a \in DOMAIN c
      PROVE  /\ d[a].op = c[a].op /\ d[a].of = c[a].of /\ d[a].src = c[a].src
             /\ FrameKept(c, d, a) /\ Formed(d[a])
             /\ \A t \in Follows(d[a], a) : t \in Follows(c[a], a)
  <2>1. CASE a \in calls
    BY <1>4, <2>1 DEF FrameKept, Follows, Jumps
  <2>2. CASE a \notin calls
    BY <1>1, <1>3, <2>2, Zenon DEF FrameKept
  <2> QED BY <2>1, <2>2
<1>6. \A of, t : Within(c, 0, of, t) => Within(d, 0, of, t)
  BY <1>3, <1>5 DEF Within
<1>7. Flows(d, 0, skips)
  <2>1. \A a \in DOMAIN d : Formed(d[a])
    BY <1>3, <1>5
  <2>2. ASSUME NEW a \in DOMAIN d, a \notin skips, NEW t \in Follows(d[a], a)
        PROVE  Within(d, 0, d[a].of, t)
    <3>1. a \in DOMAIN c /\ t \in Follows(c[a], a) /\ d[a].of = c[a].of
      BY <1>3, <1>5, <2>2
    <3>2. Within(c, 0, c[a].of, t)
      BY <2>2, <3>1, Zenon DEF Flows
    <3> QED BY <1>6, <3>1, <3>2
  <2> QED BY <1>3, <2>1, <2>2, Zenon DEF Flows
<1> QED BY <1>3, <1>4, <1>5, <1>7, Zenon DEF d

(* The code when a body ends: RETURNs lead to the epilogue behind it. *)
LEMMA EpilogueFact ==
  ASSUME IInv, InBody, NEW e, e.op = "ret", e.of = Current, {"op", "of", "src"} \subseteq DOMAIN e
  PROVE  LET c == Append(Patch(code, ret_patch_list, Pc), e) IN
         /\ Flows(c, 0, Skips) /\ Grown(code, c, Current) /\ FramesKept(code, c)
         /\ Len(c) = Len(code) + 1 /\ c[Len(code) + 1] = e
<1> DEFINE b == Patch(code, ret_patch_list, Pc)
           s == <<e>>
           c == Append(b, e)
<1>1. /\ Flows(code, Current, Skips) /\ Current # 0 /\ Len(code) \in Nat
      /\ ret_patch_list \subseteq JumpsOf(code, Current)
  BY BodyFact
<1>2. Within(code, Current, Current, Pc)
  BY <1>1 DEF Within, Pc
<1>3. /\ Flows(b, Current, Skips) /\ Grown(code, b, Current)
      /\ FramesKept(code, b) /\ Len(b) = Len(code)
  BY <1>1, <1>2, PatchBody
<1> HIDE DEF b
<1>4. /\ IsSeq(s) /\ Len(s) = 1 /\ s[1] = e /\ \A i \in 1..1 : i = 1
  BY SingleFact, Zenon
<1>5. IsSeq(b) /\ c = b \o s
  <2>1. IsSeq(b)
    BY <1>3 DEF Flows
  <2> QED BY <2>1 DEF IsSeq
<1> HIDE DEF s
<1>6. /\ Flows(b \o s, 0, Skips) /\ Grown(b, b \o s, Current) /\ FramesKept(b, b \o s)
  <2>1. \A t : t \notin Follows(e, Len(b) + 1)
    BY FollowsFact DEF Jumps
  <2>2. Formed(e)
    BY DEF Formed, Jumps
  <2>3. \A i \in 1..Len(s) :
           /\ Formed(s[i]) /\ s[i].of = Current
           /\ \/ Len(b) + i \in Skips
              \/ \A t \in Follows(s[i], Len(b) + i) : Within(b \o s, 0, Current, t)
    BY <1>4, <2>1, <2>2, Zenon
  <2>4. Len(s) > 0 /\ Skips \subseteq Skips
    BY <1>4
  <2> QED BY <1>3, <1>4, <2>3, <2>4, Emit, Zenon
<1>7. Len(c) = Len(b) + 1 /\ c[Len(b) + 1] = e
  BY <1>5, AppendFact
<1> HIDE DEF c
<1>8. Flows(c, 0, Skips) /\ Grown(code, c, Current) /\ FramesKept(code, c)
  BY <1>3, <1>5, <1>6, GrownTrans
<1> QED BY <1>3, <1>7, <1>8, Zenon DEF b, c


(* END name: the scope is closed and the calls made before get their target. *)
LEMMA EndProcStep ==
  ASSUME IInv, EndProc
  PROVE  IInv'
<1> DEFINE p == Current
           q == procs[p]
           e == [op |-> "ret", of |-> p, src |-> [k |-> "leave"],
                 arg_size |-> q.arg_size, far |-> q.is_far]
           c == Append(Patch(code, ret_patch_list, Pc), e)
           calls == IF q.fwd_decl THEN q.fwd_patches ELSE {}
           r == [q EXCEPT !.fwd_decl = FALSE, !.fwd_patches = {}, !.symbols = Top.symbols]
           n == Level - 1
<1>1. /\ InBody /\ stage = "compile"
      /\ code' = Patch(c, calls, q.code_ofs)
      /\ procs' = [procs EXCEPT ![p].fwd_decl = FALSE, ![p].fwd_patches = {},
                                ![p].symbols = Top.symbols]
      /\ ret_patch_list' = Top.saved_ret
      /\ scopes' = SubSeq(scopes, 1, Level - 1)
      /\ UNCHANGED <<text, stage>>
  BY Zenon DEF EndProc, Parse
<1>2. /\ p \in DOMAIN procs /\ p # 0 /\ p \in Open /\ Len(code) \in Nat
      /\ DOMAIN code = 1..Len(code)
      /\ Level \in Nat /\ Level > 0 /\ DOMAIN scopes = 1..Level /\ Level \in 1..Level
      /\ Top = scopes[Level] /\ Top.begun = TRUE /\ IsSeq(scopes) /\ IsSeq(procs)
  BY <1>1, BodyFact DEF IInv, ScopesOpen, ProcsKnown
<1>3. Top.proc = p /\ Top.saved_ret = {} /\ Holds(-Top.local_top, Top.symbols)
  <2>1. Level # 0
    BY <1>2
  <2> QED BY <1>2, <2>1, Zenon DEF IInv, ScopesOpen, FramesFit, Current
<1>4. /\ IsPrologue(code, q.code_ofs, p) /\ q.code_ofs # 0
      /\ code[q.code_ofs].size = -Top.local_top
      /\ ProcFields \subseteq DOMAIN q /\ q.outer \in 0..p-1
      /\ \A a \in q.fwd_patches : a \in DOMAIN code /\ code[a].op = "call" /\ code[a].src.p = p
  <2>1. q.code_ofs # 0
    BY <1>2, Zenon DEF IInv, ProcsKnown
  <2> QED BY <1>1, <1>2, <2>1, Zenon DEF IInv, ProcsKnown, FramesFit, FrameSize
<1>5. e.op = "ret" /\ e.of = p /\ {"op", "of", "src"} \subseteq DOMAIN e
  OBVIOUS
<1> HIDE DEF e
<1>6. /\ Flows(c, 0, Skips) /\ Grown(code, c, p) /\ FramesKept(code, c)
      /\ Len(c) = Len(code) + 1 /\ c[Len(code) + 1] = e
  BY <1>1, <1>5, EpilogueFact
<1> HIDE DEF c
<1>7. /\ DOMAIN c = 1..Len(code)+1 /\ Len(code) + 1 \in DOMAIN c
      /\ \A a \in DOMAIN c : a \in DOMAIN code \/ a = Len(code) + 1
      /\ \A a \in DOMAIN code : a \in DOMAIN c /\ SameIns(code[a], c[a])
  <2>1. DOMAIN c = 1..Len(code)+1 /\ \A a \in DOMAIN code : a \in DOMAIN c /\ SameIns(code[a], c[a])
    BY <1>6, GrownFact
  <2> QED BY <1>2, <2>1
<1>8. \A a \in calls : a \in DOMAIN c /\ c[a].op = "call" /\ c[a].src.p = p
  BY <1>4, <1>7, Zenon DEF SameIns
<1> HIDE DEF calls
<1>9. /\ Flows(code', 0, Skips) /\ DOMAIN code' = DOMAIN c
      /\ \A a \in DOMAIN c : /\ code'[a].op = c[a].op /\ code'[a].of = c[a].of
                             /\ code'[a].src = c[a].src
                             /\ FrameKept(c, code', a)
                             /\ a \notin calls => code'[a] = c[a]
                             /\ a \in calls => code'[a].to = q.code_ofs
  <2> DEFINE d == Patch(c, calls, q.code_ofs)
  <2>1. /\ Flows(d, 0, Skips) /\ DOMAIN d = DOMAIN c
        /\ \A a \in DOMAIN c : /\ d[a].op = c[a].op /\ d[a].of = c[a].of /\ d[a].src = c[a].src
                               /\ FrameKept(c, d, a)
                               /\ a \notin calls => d[a] = c[a]
                               /\ a \in calls => d[a].to = q.code_ofs
    BY <1>6, <1>8, CallsPatched
  <2>2. code' = d
    BY <1>1
  <2> HIDE DEF d
  <2> QED BY <2>1, <2>2, Zenon
<1>10. \A a \in DOMAIN code :
          /\ a \in DOMAIN code' /\ code'[a].op = code[a].op /\ code'[a].of = code[a].of
          /\ code'[a].src = code[a].src /\ FrameKept(code, code', a)
          /\ code[a].op = "call" /\ a \notin calls => code'[a].to = code[a].to
  <2>1. \A a \in DOMAIN code : FrameKept(code, c, a)
    BY <1>2, <1>6 DEF FramesKept
  <2>2. ASSUME NEW a \in DOMAIN code
        PROVE  /\ a \in DOMAIN c /\ c[a].op = code[a].op /\ c[a].of = code[a].of
               /\ c[a].src = code[a].src
               /\ code[a].op = "call" => c[a].to = code[a].to
    BY <1>7, Zenon DEF SameIns
  <2>3. ASSUME NEW a \in DOMAIN code
        PROVE  /\ a \in DOMAIN code' /\ code'[a].op = code[a].op /\ code'[a].of = code[a].of
               /\ code'[a].src = code[a].src
               /\ code[a].op = "call" /\ a \notin calls => code'[a].to = code[a].to
    BY <1>9, <2>2, Zenon
  <2>4. ASSUME NEW a \in DOMAIN code
        PROVE  FrameKept(code, code', a)
    BY <1>9, <2>1, <2>2, Zenon DEF FrameKept
  <2> QED BY <2>3, <2>4, Zenon
<1>11. \A a, i : IsPrologue(code, a, i) => IsPrologue(code', a, i)
  BY <1>10, Zenon DEF IsPrologue
<1>12. /\ IsSeq(scopes') /\ Level' = n /\ n \in Nat /\ n < Level
       /\ \A l \in 1..n : scopes'[l] = scopes[l] /\ l \in 1..Level /\ l < Level
       /\ \A l \in 1..Level : l \in 1..n \/ l = Level
       /\ ~ (Level \in 1..n)
  <2>1. scopes # <<>>
    <3>1. DOMAIN <<>> = 1..0 /\ ~ (1..Level = 1..0)
      BY <1>2
    <3> QED BY <1>2, <3>1, Zenon
  <2>2. /\ IsSeq(SubSeq(scopes, 1, Level - 1)) /\ Len(SubSeq(scopes, 1, Level - 1)) = Level - 1
        /\ \A l \in 1..Level-1 : SubSeq(scopes, 1, Level - 1)[l] = scopes[l]
    BY <1>2, <2>1, FrontFact DEF Level
  <2>3. /\ IsSeq(scopes') /\ Level' = n /\ \A l \in 1..n : scopes'[l] = scopes[l]
    BY <1>1, <2>2, Zenon DEF Level
  <2>4. /\ n \in Nat /\ n < Level
        /\ \A l \in 1..n : l \in 1..Level /\ l < Level
        /\ \A l \in 1..Level : l \in 1..n \/ l = Level
        /\ ~ (Level \in 1..n)
    BY <1>2
  <2> QED BY <2>3, <2>4
<1> HIDE DEF n
<1>13. \A l \in 1..n : ~ scopes[l].begun /\ ~ scopes'[l].begun /\ scopes[l].proc # p
  <2>1. \A l \in 1..n : ~ scopes[l].begun
    BY <1>12, Zenon DEF IInv, ScopesOpen
  <2>2. ASSUME NEW l \in 1..n
        PROVE  scopes[l].proc # p
    <3>1. l \in 1..Level-1 /\ scopes[l].proc \in DOMAIN procs
      BY <1>2, <1>12, Zenon DEF IInv, ScopesOpen, n
    <3>2. scopes[l].proc < p
      BY <1>2, <1>3, <3>1, Zenon DEF IInv, ScopesOpen
    <3>3. DOMAIN procs = 1..Len(procs) /\ Len(procs) \in Nat
      BY <1>2, SeqFact
    <3> QED BY <1>2, <3>1, <3>2, <3>3
  <2> QED BY <1>12, <2>1, <2>2
<1>14. ~ InBody' /\ BodyOf' = 0 /\ Skips' = Skips /\ Open' = Open \ {p}
  <2>1. ~ InBody'
    <3>1. n > 0 => n \in 1..n
      BY <1>12
    <3> QED BY <1>12, <1>13, <3>1, Zenon DEF InBody, Top
  <2>2. BodyOf' = 0
    BY <2>1 DEF BodyOf
  <2>3. Skips' = Skips
    <3>1. Skips' = {scopes'[l].skip_nested : l \in {m \in 1..n : ~ scopes'[m].begun}}
      BY <1>12, Zenon DEF Skips
    <3>2. {m \in 1..n : ~ scopes'[m].begun} = 1..n
      BY <1>13
    <3>3. {m \in 1..Level : ~ scopes[m].begun} = 1..n
      BY <1>2, <1>12, <1>13
    <3> QED BY <1>12, <3>1, <3>2, <3>3 DEF Skips
  <2>4. Open' = Open \ {p}
    <3>1. Open' = {scopes'[l].proc : l \in 1..n}
      BY <1>12, Zenon DEF Open
    <3>2. Open = {scopes[l].proc : l \in 1..Level}
      BY DEF Open
    <3> QED BY <1>2, <1>3, <1>12, <1>13, <3>1, <3>2
  <2> QED BY <2>1, <2>2, <2>3, <2>4
<1>15. CodeFlows' /\ NestPatches' /\ Over' /\ text' \in Texts
  BY <1>1, <1>9, <1>14, Zenon DEF IInv, CodeFlows, NestPatches, Over
<1>16. /\ r.outer = q.outer /\ r.code_ofs = q.code_ofs /\ r.fwd_decl = FALSE
       /\ r.fwd_patches = {} /\ r.symbols = Top.symbols /\ ProcFields \subseteq DOMAIN r
  BY <1>4 DEF ProcFields
<1>17. procs' = [procs EXCEPT ![p] = r]
  BY <1>1
<1> HIDE DEF r
<1>18. /\ IsSeq(procs') /\ DOMAIN procs' = DOMAIN procs /\ procs'[p] = r
       /\ \A i \in DOMAIN procs : i # p => procs'[i] = procs[i]
  <2> DEFINE t == [procs EXCEPT ![p] = r]
  <2>1. /\ IsSeq(t) /\ DOMAIN t = DOMAIN procs /\ t[p] = r
        /\ \A i \in DOMAIN procs : i # p => t[i] = procs[i]
    <3>1. IsSeq(procs) /\ p \in DOMAIN procs
      BY <1>2
    <3> QED BY <3>1, ExceptFact
  <2> HIDE DEF t
  <2>2. procs' = t
    BY <1>17 DEF t
  <2> QED BY <2>1, <2>2, Zenon
<1>19. ProcsKnown'
  <2>1. ASSUME NEW i \in DOMAIN procs, i # p
        PROVE  /\ ProcFields \subseteq DOMAIN procs'[i]
               /\ procs'[i].outer \in 0..i-1 /\ IsSeq(procs'[i].symbols)
               /\ procs'[i].code_ofs # 0 => IsPrologue(code', procs'[i].code_ofs, i)
               /\ procs'[i].code_ofs = 0 => procs'[i].fwd_decl /\ i \notin Open'
               /\ procs'[i].fwd_decl /\ procs'[i].code_ofs # 0 => i \in Open'
               /\ \A a \in procs'[i].fwd_patches :
                     a \in DOMAIN code' /\ code'[a].op = "call" /\ code'[a].src.p = i
    <3>1. procs'[i] = procs[i]
      BY <1>18, <2>1
    <3>2. ASSUME NEW a \in procs[i].fwd_patches
          PROVE  a \in DOMAIN code' /\ code'[a].op = "call" /\ code'[a].src.p = i
      <4>1. a \in DOMAIN code /\ code[a].op = "call" /\ code[a].src.p = i
        BY Zenon DEF IInv, ProcsKnown
      <4> QED BY <1>10, <4>1, Zenon
    <3>3. i \in Open' <=> i \in Open
      BY <1>14, <2>1
    <3> QED BY <1>11, <3>1, <3>2, <3>3, Zenon DEF IInv, ProcsKnown
  <2>2. /\ ProcFields \subseteq DOMAIN r
        /\ r.outer \in 0..p-1 /\ IsSeq(r.symbols)
        /\ r.code_ofs # 0 /\ IsPrologue(code', r.code_ofs, p)
        /\ ~ r.fwd_decl /\ r.fwd_patches = {}
    BY <1>3, <1>4, <1>11, <1>16, Zenon DEF Holds
  <2>3. ASSUME NEW i \in DOMAIN procs'
        PROVE  /\ ProcFields \subseteq DOMAIN procs'[i]
               /\ procs'[i].outer \in 0..i-1 /\ IsSeq(procs'[i].symbols)
               /\ procs'[i].code_ofs # 0 => IsPrologue(code', procs'[i].code_ofs, i)
               /\ procs'[i].code_ofs = 0 => procs'[i].fwd_decl /\ i \notin Open'
               /\ procs'[i].fwd_decl /\ procs'[i].code_ofs # 0 => i \in Open'
               /\ \A a \in procs'[i].fwd_patches :
                     a \in DOMAIN code' /\ code'[a].op = "call" /\ code'[a].src.p = i
    <3>1. CASE i = p
      BY <1>18, <2>2, <3>1, Zenon
    <3>2. CASE i # p
      BY <1>18, <2>1, <3>2
    <3> QED BY <3>1, <3>2
  <2> QED BY <1>18, <2>3, Zenon DEF ProcsKnown
<1>20. CallsKnown'
  <2> SUFFICES ASSUME NEW a \in DOMAIN code', code'[a].op = "call"
               PROVE  /\ code'[a].src.p \in DOMAIN procs'
                      /\ IF procs'[code'[a].src.p].fwd_decl
                         THEN a \in procs'[code'[a].src.p].fwd_patches
                         ELSE code'[a].to = procs'[code'[a].src.p].code_ofs
    BY Zenon DEF CallsKnown
  <2>1. a \in DOMAIN code
    <3>1. a = Len(code) + 1 => code'[a].op = "ret"
      BY <1>5, <1>6, <1>7, <1>9, Zenon
    <3>2. "ret" # "call"
      OBVIOUS
    <3> QED BY <1>7, <1>9, <3>1, <3>2, Zenon
  <2> DEFINE i == code[a].src.p
  <2>2. /\ code[a].op = "call" /\ code'[a].src.p = i /\ i \in DOMAIN procs
        /\ IF procs[i].fwd_decl THEN a \in procs[i].fwd_patches
                                ELSE code[a].to = procs[i].code_ofs
    <3>1. code[a].op = "call" /\ code'[a].src = code[a].src
      BY <1>10, <2>1, Zenon
    <3> QED BY <2>1, <3>1, Zenon DEF IInv, CallsKnown
  <2>3. CASE i # p
    <3>1. a \notin calls
      BY <1>7, <1>8, <1>9, <2>1, <2>2, <2>3, Zenon DEF SameIns
    <3>2. code'[a].to = code[a].to
      BY <1>10, <2>1, <2>2, <3>1, Zenon
    <3> QED BY <1>18, <2>2, <2>3, <3>2, Zenon
  <2>4. CASE i = p
    <3>1. a \in calls \/ code[a].to = q.code_ofs
      BY <2>2, <2>4, Zenon DEF calls
    <3>2. code'[a].to = q.code_ofs
      BY <1>7, <1>9, <1>10, <2>1, <2>2, <3>1, Zenon
    <3> QED BY <1>16, <1>18, <2>2, <2>4, <3>2, Zenon
  <2> QED BY <2>3, <2>4
<1>21. ScopesOpen'
  <2>1. \A l \in 1..n :
          /\ scopes[l].skip_nested \in DOMAIN code'
          /\ code'[scopes[l].skip_nested].op = "jmp"
          /\ code'[scopes[l].skip_nested].of = scopes[l].proc
    <3>1. \A l \in 1..n :
            /\ scopes[l].skip_nested \in DOMAIN code
            /\ code[scopes[l].skip_nested].op = "jmp"
            /\ code[scopes[l].skip_nested].of = scopes[l].proc
      BY <1>12, Zenon DEF IInv, ScopesOpen
    <3> QED BY <1>10, <3>1, Zenon
  <2>2. \A l \in 1..n : \A m \in 1..l-1 : m \in 1..n
    BY <1>12
  <2>3. ret_patch_list' = {}
    BY <1>1, <1>3
  <2>4. ASSUME NEW l \in 1..n
        PROVE  /\ DOMAIN scopes'[l] = ScopeFields
               /\ scopes'[l].proc \in DOMAIN procs'
               /\ \A m \in 1..l-1 : scopes'[m].proc < scopes'[l].proc
               /\ scopes'[l].begun \in BOOLEAN
               /\ ~ scopes'[l].begun => scopes'[l].nest = <<>>
               /\ IsSeq(scopes'[l].nest)
               /\ scopes'[l].skip_nested \in DOMAIN code'
               /\ code'[scopes'[l].skip_nested].op = "jmp"
               /\ code'[scopes'[l].skip_nested].of = scopes'[l].proc
               /\ scopes'[l].saved_ret = {}
    <3>1. scopes'[l] = scopes[l] /\ l \in 1..Level
      BY <1>12
    <3>2. \A m \in 1..l-1 : scopes'[m] = scopes[m]
      BY <1>12, <2>2
    <3> QED BY <1>18, <2>1, <3>1, <3>2, Zenon DEF IInv, ScopesOpen
  <2> QED BY <1>12, <1>13, <1>14, <2>3, <2>4, Zenon DEF ScopesOpen
<1>22. FramesFit'
  <2>1. \A l \in 1..n : scopes'[l].local_top \in Int
                        /\ Holds(-scopes'[l].local_top, scopes'[l].symbols)
    BY <1>12, Zenon DEF IInv, FramesFit
  <2>2. ASSUME NEW i \in DOMAIN procs', i \notin Open'
        PROVE  Holds(IF procs'[i].code_ofs = 0 THEN 0 ELSE code'[procs'[i].code_ofs].size,
                     procs'[i].symbols)
    <3>1. CASE i = p
      <4>1. code'[q.code_ofs].size = -Top.local_top
        BY <1>4, <1>10, Zenon DEF IsPrologue, FrameKept
      <4> QED BY <1>3, <1>4, <1>16, <1>18, <3>1, <4>1, Zenon
    <3>2. CASE i # p
      <4>1. i \in DOMAIN procs /\ i \notin Open /\ procs'[i] = procs[i]
        BY <1>14, <1>18, <2>2, <3>2
      <4>2. Holds(IF procs[i].code_ofs = 0 THEN 0 ELSE code[procs[i].code_ofs].size,
                  procs[i].symbols)
        BY <4>1, Zenon DEF IInv, FramesFit, FrameSize
      <4>3. procs[i].code_ofs # 0 =>
               code'[procs[i].code_ofs].size = code[procs[i].code_ofs].size
        <5>1. procs[i].code_ofs # 0 => IsPrologue(code, procs[i].code_ofs, i)
          BY <4>1, Zenon DEF IInv, ProcsKnown
        <5> QED BY <1>10, <5>1, Zenon DEF IsPrologue, FrameKept
      <4> QED BY <4>1, <4>2, <4>3
    <3> QED BY <3>1, <3>2
  <2> QED BY <1>12, <1>14, <2>1, <2>2, Zenon DEF FramesFit, FrameSize
<1> QED BY <1>15, <1>19, <1>20, <1>21, <1>22, Zenon DEF IInv

(* A running program leaves its compiler's variables alone. *)
LEMMA CompiledStep ==
  ASSUME IInv, UNCHANGED cvars, Over'
  PROVE  IInv'
<1>1. UNCHANGED <<procs, scopes, code, cur_prologue_patch, ret_patch_list, text>>
  BY DEF cvars
<1>2. Level' = Level
  BY <1>1 DEF Level
<1>3. Top' = Top
  BY <1>1, <1>2 DEF Top
<1>4. Current' = Current /\ (InBody' <=> InBody) /\ Open' = Open
  BY <1>1, <1>2, <1>3 DEF Current, InBody, Open
<1>5. BodyOf' = BodyOf /\ Skips' = Skips
  BY <1>1, <1>2, <1>4 DEF BodyOf, Skips
<1>6. CodeFlows' /\ CallsKnown' /\ text' \in Texts
  BY <1>1, <1>5, Zenon DEF IInv, CodeFlows, CallsKnown
<1>7. ProcsKnown'
  BY <1>1, <1>4, Zenon DEF IInv, ProcsKnown
<1>8. ScopesOpen'
  BY <1>1, <1>2, <1>4, Zenon DEF IInv, ScopesOpen
<1>9. NestPatches'
  BY <1>1, <1>3, <1>4, Zenon DEF IInv, NestPatches, Nest
<1>10. FramesFit'
  BY <1>1, <1>2, <1>3, <1>4, Zenon DEF IInv, FramesFit, FrameSize
<1> QED BY <1>6, <1>7, <1>8, <1>9, <1>10 DEF IInv

(* The module ends, or is rejected for a FORWARD procedure left over. *)
LEMMA EndModuleStep ==
  ASSUME IInv, EndModule
  PROVE  IInv'
<1>1. /\ Level = 0 /\ UNCHANGED cvars
      /\ stage' = IF \E p \in DOMAIN procs : procs[p].level = 0 /\ procs[p].fwd_decl
                  THEN "rejected" ELSE "loaded"
  BY DEF EndModule
<1>2. Level' = Level /\ procs' = procs
  BY <1>1 DEF cvars, Level
<1>3. Over'
  BY <1>1, <1>2 DEF Over
<1> QED BY <1>1, <1>3, CompiledStep



-----------------------------------------------------------------------------
(* The invariant of the specification *)
LEMMA InitInv ==
  ASSUME Init
  PROVE  IInv
<1>1. /\ procs = <<>> /\ scopes = <<>> /\ code = <<>> /\ ret_patch_list = {}
      /\ text \in Texts /\ stage = "compile"
  BY DEF Init
<1>2. IsSeq(<<>>) /\ Len(<<>>) = 0 /\ \A i \in DOMAIN <<>> : FALSE
  <2>1. <<>> \in Seq({}) /\ Len(<<>>) = 0 /\ \A i \in DOMAIN <<>> : FALSE
    OBVIOUS
  <2> QED BY <2>1, SeqIs, Zenon
<1>3. Level = 0 /\ ~ InBody /\ \A l \in 1..Level : FALSE
  <2>1. \A l \in 1..0 : FALSE
    OBVIOUS
  <2> QED BY <1>1, <1>2, <2>1 DEF Level, InBody
<1>4. CodeFlows /\ ProcsKnown /\ CallsKnown
  BY <1>1, <1>2, Zenon DEF CodeFlows, Flows, ProcsKnown, CallsKnown
<1>5. ScopesOpen
  BY <1>1, <1>2, <1>3, Zenon DEF ScopesOpen
<1>6. NestPatches /\ FramesFit
  BY <1>1, <1>2, <1>3, Zenon DEF NestPatches, FramesFit
<1>7. Over
  BY <1>1 DEF Over
<1> QED BY <1>1, <1>4, <1>5, <1>6, <1>7 DEF IInv

(* Every step of the compiler keeps the invariant. *)
LEMMA NextInv ==
  ASSUME IInv, Next
  PROVE  IInv'
<1>1. CASE CompileDeclaration
  BY <1>1, DeclareVarStep, DeclareStep, ForwardStep, BeginStep, EndProcStep, EndModuleStep,
     ImplementStep, Zenon DEF CompileDeclaration
<1>2. CASE CompileStatement
  <2>1. ASSUME NEW d \in Visible, Assign(d) \/ For(d) \/ Case(d)
        PROVE  IInv'
    BY <2>1, AssignStep, ForStep, CaseOfStep, Zenon
  <2>2. ASSUME NEW p \in DOMAIN procs, NEW ds \in [1..NParams(p) -> Visible], Invoke(p, ds)
        PROVE  IInv'
    <3>1. NParams(p) \in Nat
      <4>1. IsSeq(procs[p].symbols)
        BY Zenon DEF IInv, ProcsKnown
      <4> DEFINE n == Len(procs[p].symbols)
                 S == {i \in DOMAIN procs[p].symbols : procs[p].symbols[i].kind \in Params}
      <4>2. n \in Nat /\ DOMAIN procs[p].symbols = 1..n
        BY <4>1, SeqFact, Zenon
      <4> HIDE DEF n
      <4>3. IsFiniteSet(1..n)
        BY <4>2, FS_Interval
      <4>4. IsFiniteSet(S)
        <5>1. S \subseteq 1..n
          BY <4>2
        <5> HIDE DEF S
        <5> QED BY <4>3, <5>1, FS_Subset
      <4> HIDE DEF S
      <4>5. Cardinality(S) \in Nat
        BY <4>4, FS_CardinalityType
      <4> QED BY <4>5 DEF NParams, S
    <3>2. Len(ds) \in Nat
      <4> DEFINE n == NParams(p)
      <4>1. ds \in [1..n -> Visible] /\ n \in Nat
        BY <3>1
      <4> HIDE DEF n
      <4>2. ds \in Seq(Visible)
        BY <4>1, IsASeq
      <4> QED BY <4>2
    <3> QED BY <2>2, <3>2, InvokeStep
  <2> QED BY <1>2, <2>1, <2>2, ReturnStep, OpenStep, IfStep, LoopStep, EndForStep, CaseStep,
             Zenon DEF CompileStatement
<1> QED BY <1>1, <1>2 DEF Next

(* So does every step of the compiler and of the processor. *)
LEMMA MNextInv ==
  ASSUME IInv, [MNext]_vars
  PROVE  IInv'
<1>1. CASE Next /\ UNCHANGED mvars
  BY <1>1, NextInv
<1>2. ASSUME UNCHANGED cvars,
             stage' = stage \/ (stage \in {"loaded", "run"} /\ stage' \in {"run", "done"})
      PROVE  IInv'
  <2>1. Level' = Level /\ procs' = procs
    BY <1>2 DEF cvars, Level
  <2>2. Over'
    BY <1>2, <2>1 DEF IInv, Over
  <2> QED BY <1>2, <2>2, CompiledStep
<1>3. ASSUME NEW p \in DOMAIN procs, Start(p)
      PROVE  IInv'
  BY <1>2, <1>3 DEF Start
<1>4. CASE Execute
  <2>1. UNCHANGED cvars /\ (stage' = stage \/ (stage = "run" /\ stage' \in {"run", "done"}))
    BY <1>4, Zenon DEF Execute, Executes, Running, Prologue, Jump, Condition, Constant, LoadItem,
                StoreItem, Save, Restore, PushValue, PushPlace, PushLink, Call, Ret
  <2> QED BY <1>2, <2>1
<1>5. CASE UNCHANGED vars
  BY <1>2, <1>5 DEF vars
<1> QED BY <1>1, <1>3, <1>4, <1>5 DEF MNext

(* What holds of the compiler's variables at any time: the jumps of the code, *)
(* the calls and the frames are as the parser has left them.                 *)
THEOREM Invariance == Spec => []IInv
<1>1. MInit => IInv
  BY InitInv DEF MInit
<1>2. IInv /\ [MNext]_vars => IInv'
  BY MNextInv
<1> QED BY <1>1, <1>2, PTL DEF Spec


-----------------------------------------------------------------------------
(* What the program can rely on *)

(* The compiler works while the module is compiled only. *)
LEMMA CompilingFact ==
  ASSUME Next
  PROVE  stage = "compile"
<1>1. CASE CompileDeclaration
  BY <1>1, Zenon DEF CompileDeclaration, DeclareVar, Declare, Forward, Begin, EndProc, EndModule,
                     Implement, Declaration, Parse
<1>2. CASE CompileStatement
  BY <1>2, Zenon DEF CompileStatement, Assign, For, Case, Invoke, Return, If, Elsif, Else, EndIf,
                     While, WhileElsif, EndWhile, Repeat, Until, EndFor, Arm, EndCaseArm,
                     CaseElse, EndCase, Statement, StatSeq, Body, Parse
<1> QED BY <1>1, <1>2 DEF Next

(* Compiled code has no hole left: what follows an instruction is there, and *)
(* in the same procedure.                                                    *)
LEMMA CompiledFact ==
  ASSUME IInv, stage # "compile", NEW a \in DOMAIN code, NEW t \in Follows(code[a], a)
  PROVE  t \in DOMAIN code /\ code[t].of = code[a].of
<1>1. Level = 0 /\ \A l \in 1..Level : FALSE
  <2>1. \A l \in 1..0 : FALSE
    OBVIOUS
  <2> QED BY <2>1 DEF IInv, Over
<1>2. BodyOf = 0 /\ Skips = {}
  BY <1>1 DEF BodyOf, InBody, Skips
<1>3. Within(code, 0, code[a].of, t)
  BY <1>2, Zenon DEF IInv, CodeFlows, Flows
<1> QED BY <1>3 DEF Within

(* No jump leaves its procedure, whatever the module: the loops, branches    *)
(* and RETURNs of a body, the jump over nested procedures and the fall into  *)
(* the next instruction all land in the procedure they are part of.          *)
THEOREM JumpsStay == Spec => StaysInProcedure
<1> DEFINE Stays == Running /\ stage' = "run" /\ I.op \notin {"call", "ret"}
                       => ip' \in DOMAIN code /\ code[ip'].of = I.of
<1>1. IInv /\ [MNext]_vars => [Stays]_vars
  <2> SUFFICES ASSUME IInv, MNext, Running, I.op \notin {"call", "ret"}
               PROVE  ip' \in DOMAIN code /\ code[ip'].of = I.of
    BY Zenon
  <2>1. stage = "run" /\ ip \in DOMAIN code /\ I = code[ip]
    BY DEF Running, I
  <2>2. Execute
    <3>1. ~ Next
      BY <2>1, CompilingFact
    <3>2. \A p \in DOMAIN procs : ~ Start(p)
      BY <2>1 DEF Start
    <3> QED BY <3>1, <3>2 DEF MNext
  <2>3. ip' \in Follows(I, ip)
    <3>1. CASE Jump
      BY <3>1 DEF Jump, Executes, Follows, Jumps
    <3>2. CASE Condition
      BY <3>2 DEF Condition, Executes, Follows, Jumps
    <3>3. CASE \/ Prologue \/ Constant \/ LoadItem \/ StoreItem \/ Save \/ Restore
               \/ PushValue \/ PushPlace \/ PushLink
      <4>1. /\ ip' = ip + 1
            /\ I.op \in {"prologue", "const", "load", "store", "save", "restore", "push",
                         "copy slot", "stack address", "data address", "push link"}
        BY <3>3, Zenon DEF Prologue, Constant, LoadItem, StoreItem, Save, Restore, PushValue,
                           PushPlace, PushLink, Executes, Proceed
      <4> QED BY <4>1 DEF Follows
    <3>4. CASE Call \/ Ret
      BY <3>4 DEF Call, Ret, Executes
    <3> QED BY <2>2, <3>1, <3>2, <3>3, <3>4 DEF Execute
  <2> QED BY <2>1, <2>3, CompiledFact
<1> QED BY <1>1, Invariance, PTL DEF Spec, StaysInProcedure

(* A call of a compiled module lands on the prologue of the procedure that   *)
(* it names, declared FORWARD or not, unless that is a nested procedure that *)
(* was declared FORWARD and got no body: only the procedures of the module   *)
(* scope are looked through at its end.                                      *)
CallsEnter ==
    stage \notin {"compile", "rejected"} =>
       \A a \in DOMAIN code : code[a].op = "call" =>
          LET p == code[a].src.p IN
          \/ IsPrologue(code, code[a].to, p)
          \/ procs[p].fwd_decl /\ procs[p].level # 0

(* Calls of a compiled module land on the procedure they name. *)
THEOREM CallsReachProcedures == Spec => []CallsEnter
<1>1. IInv => CallsEnter
  <2> SUFFICES ASSUME IInv, stage \notin {"compile", "rejected"},
                      NEW a \in DOMAIN code, code[a].op = "call",
                      NEW p, p = code[a].src.p, ~ (procs[p].fwd_decl /\ procs[p].level # 0)
               PROVE  IsPrologue(code, code[a].to, p)
    BY Zenon DEF CallsEnter
  <2>1. p \in DOMAIN procs /\ ~ procs[p].fwd_decl
    BY Zenon DEF IInv, CallsKnown, Over
  <2>2. code[a].to = procs[p].code_ofs
    BY <2>1, Zenon DEF IInv, CallsKnown
  <2>3. procs[p].code_ofs # 0
    BY <2>1, Zenon DEF IInv, ProcsKnown
  <2> QED BY <2>1, <2>2, <2>3, Zenon DEF IInv, ProcsKnown
<1> QED BY <1>1, Invariance, PTL

(* The frame that a prologue makes holds every local and hidden variable of  *)
(* its procedure, each in two bytes of its own below BP: the size patched at *)
(* BEGIN, FOR and CASE is the one of the last declaration.                   *)
FramesHold ==
    stage # "compile" =>
       \A p \in DOMAIN procs : procs[p].code_ofs # 0 =>
          /\ IsPrologue(code, procs[p].code_ofs, p)
          /\ Holds(FrameSize(p), procs[p].symbols)

(* Frames of a compiled module hold the locals of their procedures. *)
THEOREM FramesHoldLocals == Spec => []FramesHold
<1>1. IInv => FramesHold
  <2> SUFFICES ASSUME IInv, stage # "compile", NEW p \in DOMAIN procs, procs[p].code_ofs # 0
               PROVE  /\ IsPrologue(code, procs[p].code_ofs, p)
                      /\ Holds(FrameSize(p), procs[p].symbols)
    BY Zenon DEF FramesHold
  <2>1. p \notin Open
    <3>1. \A l \in 1..0 : FALSE
      OBVIOUS
    <3> QED BY <3>1, Zenon DEF IInv, Over, Open
  <2> QED BY <2>1, Zenon DEF IInv, ProcsKnown, FramesFit
<1> QED BY <1>1, Invariance, PTL

-----------------------------------------------------------------------------
(* The table *)
Even(x) == x \in Int /\ x % 2 = 0

(* A row [outer, level, far, args, n, symbols]: n parameters come first, one  *)
(* below the other; below them the static link, the return address and BP.   *)
Base(r) == IF r.far \/ r.outer # 0 THEN 6 ELSE 4
Above(r) == 4 + (IF r.far THEN 2 ELSE 0) + r.args
End(s) == s.adr + SlotSize(s.kind)
Laid(r) ==
    /\ IsSeq(r.symbols) /\ r.n \in 0..Len(r.symbols)
    /\ r.outer # 0 => ~r.far
    /\ r.args \in Int /\ Even(Above(r))
    /\ \A i \in 1..Len(r.symbols) : /\ r.symbols[i].kind \in Params <=> i <= r.n
                                    /\ Even(r.symbols[i].adr)
    /\ \A i \in 1..r.n : Base(r) <= r.symbols[i].adr /\ End(r.symbols[i]) <= Above(r)
    /\ \A i, j \in 1..r.n : i < j => End(r.symbols[j]) <= r.symbols[i].adr
    /\ \A i \in 1..r.n-1 : End(r.symbols[i+1]) = r.symbols[i].adr
    /\ IF r.n = 0 THEN Base(r) = Above(r)
       ELSE r.symbols[r.n].adr = Base(r) /\ End(r.symbols[1]) = Above(r)

(* Procedure t is so many hops out from procedure q. *)
Chain(T, q, hops, t) ==
    \E ch : /\ ch[0] = q /\ ch[hops] = t
            /\ \A i \in 0..hops-1 : ch[i] \in DOMAIN T /\ T[ch[i]].outer = ch[i+1] /\ ch[i+1] # 0

Enclosed(T) == \A p \in DOMAIN T :
    /\ T[p].level \in Nat
    /\ IF T[p].outer = 0 THEN T[p].level = 0
       ELSE T[p].outer \in DOMAIN T /\ T[p].level = T[T[p].outer].level + 1

(* What the table knows of the compiler's own. *)
HeadFields == {"exported", "is_far", "has_sl", "arg_size"}
RowOf(r, p) ==
    /\ HeadFields \subseteq DOMAIN p
    /\ r.outer = p.outer /\ r.level = p.level /\ r.far = p.is_far /\ r.args = p.arg_size
    /\ p.is_far \in BOOLEAN
    /\ p.has_sl = (p.outer # 0)
    /\ p.exported => p.is_far
    /\ r.n <= Len(p.symbols) /\ Len(p.symbols) <= Len(r.symbols)
    /\ \A i \in 1..Len(p.symbols) : p.symbols[i] = r.symbols[i]
ScopeOf(T, s, l) ==
    /\ T[s[l].proc].symbols = s[l].symbols
    /\ T[s[l].proc].level = l - 1
    /\ T[s[l].proc].outer = IF l = 1 THEN 0 ELSE s[l-1].proc
    /\ Even(s[l].local_top)
Match(T) ==
    /\ IsSeq(T) /\ Len(T) = Len(procs)
    /\ Enclosed(T)
    /\ \A p \in DOMAIN T : Laid(T[p]) /\ RowOf(T[p], procs[p])
    /\ \A p \in DOMAIN T : p \notin Open => T[p].symbols = procs[p].symbols
    /\ \A l \in 1..Level : ScopeOf(T, scopes, l)

-----------------------------------------------------------------------------
(* Instructions *)

(* What an item of procedure q names: a variable of a procedure around it or *)
(* of the module. A VAR parameter is reached in its own procedure only.      *)
LocalItem(T, it, d, q) ==
    /\ it.mode = "local"
    /\ d.proc \in DOMAIN T /\ d.slot \in DOMAIN T[d.proc].symbols
    /\ Chain(T, q, it.hops, d.proc) /\ it.hops \in Nat
    /\ it.adr = T[d.proc].symbols[d.slot].adr
    /\ it.ref = d.ref /\ it.ref = (T[d.proc].symbols[d.slot].kind = "varparam")
    /\ it.ref => it.hops = 0
GlobalItem(it, d) ==
    /\ it.mode = "global"
    /\ d.proc = 0 /\ d.slot \in 1..Globals
    /\ it.adr = GlobalAdr(d.slot)
    /\ it.ref = FALSE /\ d.ref = FALSE /\ it.hops = 0

Accesses == {"load", "store", "copy slot", "stack address", "data address"}
Places == {"copy slot", "stack address", "data address"}
Plains == {"const", "restore", "push", "jmp", "jz", "save", "push link"}
Source == [op \in Accesses \cup Plains \cup {"call", "prologue", "ret"} |->
              CASE op = "load" -> "read" [] op = "store" -> "write"
                [] op \in Places -> "pass place"
                [] op \in {"const", "restore"} -> "compute"
                [] op = "push" -> "pass value" [] op = "call" -> "call"
                [] op = "prologue" -> "enter" [] op = "ret" -> "leave"
                [] op \in {"jmp", "jz", "save", "push link"} -> "none"]

Fine(T, i) ==
    /\ i.of \in DOMAIN T
    /\ i.op \in DOMAIN Source /\ i.src.k = Source[i.op]
    /\ i.op \in Accesses => LocalItem(T, i.item, i.src.d, i.of) \/ GlobalItem(i.item, i.src.d)
    /\ i.op = "copy slot" => i.item.mode = "local" /\ i.item.ref
    /\ i.op = "stack address" => i.item.mode = "local" /\ ~i.item.ref
    /\ i.op = "data address" => i.item.mode = "global"
    /\ i.op = "call" => /\ "far" \in DOMAIN i
                        /\ i.src.p \in DOMAIN T /\ i.far = T[i.src.p].far
    /\ i.op = "prologue" => i.src.p = i.of /\ i.src.in = T[i.of].outer
    /\ i.op = "ret" => i.far = T[i.of].far /\ i.arg_size = T[i.of].args

(* On the stack above the frame: s.n parameters for a call of s.p, the       *)
(* static link as the last, or the one word that FOR saves for 0.            *)
Same(s, t) == s.n = t.n /\ (s.n = 0 \/ s.p = t.p)
Pushes == Places \cup {"push", "push link", "save"}
After(i, s) == CASE i.op \in Pushes -> [p |-> s.p, n |-> s.n + 1]
                 [] i.op = "restore" -> [p |-> s.p, n |-> s.n - 1]
                 [] i.op = "call" -> [p |-> s.p, n |-> 0]
                 [] OTHER -> s
Links(r) == IF r.outer # 0 THEN 1 ELSE 0
Held(T, s) == /\ s.n \in Nat
              /\ s.n > 0 => IF s.p = 0 THEN s.n = 1
                            ELSE s.p \in DOMAIN T /\ s.n <= T[s.p].n + Links(T[s.p])
Passes(T, s, kind) == /\ s.p \in DOMAIN T /\ s.n < T[s.p].n
                      /\ T[s.p].symbols[s.n + 1].kind = kind
Fits(T, i, s) ==
    /\ Held(T, s)
    /\ i.op \in {"store", "jmp", "jz", "ret", "prologue"} => s.n = 0
    /\ i.op = "save" => s.n = 0 /\ s.p = 0
    /\ i.op = "restore" => s.n = 1 /\ s.p = 0
    /\ i.op = "push" => Passes(T, s, "param")
    /\ i.op \in Places => Passes(T, s, "varparam")
    /\ i.op = "push link" => /\ s.p \in DOMAIN T /\ T[s.p].outer # 0 /\ s.n = T[s.p].n
                             /\ i.hops \in Nat /\ Chain(T, i.of, i.hops, T[s.p].outer)
    /\ i.op = "call" => s.p = i.src.p /\ s.n = T[s.p].n + Links(T[s.p])

Lands(c, P, t, s) == IF t \in DOMAIN c THEN c[t].op # "prologue" /\ Same(s, P[t]) ELSE s.n = 0
Sound(T, c, P, skips) ==
    /\ IsSeq(P) /\ Len(P) = Len(c)
    /\ \A a \in DOMAIN c : Fine(T, c[a]) /\ Fits(T, c[a], P[a])
    /\ \A a \in DOMAIN c : a \notin skips =>
          \A t \in Follows(c[a], a) : Lands(c, P, t, After(c[a], P[a]))

(* A place where nothing is on the stack above the frame. *)
Clear(c, P, t) == t \in DOMAIN c => c[t].op # "prologue" /\ P[t].n = 0

(* The variable of a FOR is a word of the frame or of the module, the hidden *)
(* one of a CASE a word of the frame.                                        *)
Counter(level, symbols, d) ==
    /\ d.lev \in {0, level}
    /\ d.lev = 0 => d.slot \in 1..Globals
    /\ d.lev # 0 => d.slot \in DOMAIN symbols /\ symbols[d.slot].kind # "varparam"
Selector(symbols, slot) == slot \in DOMAIN symbols /\ symbols[slot].kind # "varparam"
Noted(level, symbols, c, P, s) ==
    /\ \A t \in LoopTop(s) : Clear(c, P, t)
    /\ s.k = "for" => Counter(level, symbols, s.var)
    /\ s.k \in {"case", "arm"} => Selector(symbols, s.slot)
Nested(P) == InBody => \A i \in DOMAIN Nest : Noted(Level, Top.symbols, code, P, Nest[i])

FramesEven == \A a \in DOMAIN code : code[a].op = "prologue" => Even(code[a].size)

SInv(T, P) == Match(T) /\ Sound(T, code, P, Skips) /\ Nested(P) /\ FramesEven

-----------------------------------------------------------------------------
(* The maps of growing code *)

(* Instructions e with what is on the stack before each; they neither begin  *)
(* nor end with anything on it.                                              *)
Piece(T, c, P, e, g) ==
    /\ IsSeq(e) /\ Len(e) > 0
    /\ IsSeq(g) /\ Len(g) = Len(e) /\ g[1].n = 0
    /\ \A i \in 1..Len(e) :
          /\ Fine(T, e[i]) /\ Fits(T, e[i], g[i]) /\ e[i].op # "prologue"
          /\ e[i].op \notin {"jmp", "ret"} =>
                IF i < Len(e) THEN Same(After(e[i], g[i]), g[i+1]) ELSE After(e[i], g[i]).n = 0
          /\ e[i].op \in Jumps => /\ Clear(c, P, e[i].to)
                                  /\ \A k \in 1..Len(e) : e[i].to = Len(c) + k => g[k].n = 0

(* A jump or a return leaves the stack alone, and finds nothing there. *)
LEMMA JumpsRest ==
  ASSUME NEW T, NEW i, NEW s, Fits(T, i, s), i.op \in Jumps \cup {"ret", "prologue"}
  PROVE  After(i, s) = s /\ s.n = 0
BY DEF Fits, After, Pushes, Places, Jumps

(* Two places with nothing on the stack are the same. *)
LEMMA SameRest ==
  ASSUME NEW s, NEW t, s.n = 0, t.n = 0
  PROVE  Same(s, t)
BY DEF Same

(* A piece is emitted at the end of the code. *)
LEMMA SoundEmit ==
  ASSUME NEW T, NEW c, NEW P, NEW body, NEW skips, Flows(c, body, skips),
         Sound(T, c, P, skips), NEW e, NEW g, Piece(T, c, P, e, g)
  PROVE  /\ Sound(T, c \o e, P \o g, skips)
         /\ \A t \in 1..Len(c)+1 : Clear(c, P, t) => Clear(c \o e, P \o g, t)
<1> DEFINE d == c \o e
           Q == P \o g
<1>1. IsSeq(c) /\ IsSeq(e) /\ IsSeq(P) /\ IsSeq(g) /\ Len(P) = Len(c) /\ Len(g) = Len(e)
      /\ Len(e) > 0
  BY DEF Flows, Sound, Piece
<1>2. /\ Len(c) \in Nat /\ Len(e) \in Nat
      /\ DOMAIN c = 1..Len(c) /\ DOMAIN e = 1..Len(e)
  BY <1>1, SeqFact
<1>3. /\ IsSeq(d) /\ Len(d) = Len(c) + Len(e)
      /\ \A a \in 1..Len(c) : d[a] = c[a]
      /\ \A i \in 1..Len(e) : d[Len(c) + i] = e[i]
  BY <1>1, ConcatFact
<1>4. /\ IsSeq(Q) /\ Len(Q) = Len(c) + Len(e)
      /\ \A a \in 1..Len(c) : Q[a] = P[a]
      /\ \A i \in 1..Len(e) : Q[Len(c) + i] = g[i]
  <2>1. /\ IsSeq(Q) /\ Len(Q) = Len(P) + Len(g)
        /\ \A a \in 1..Len(P) : Q[a] = P[a]
        /\ \A i \in 1..Len(g) : Q[Len(P) + i] = g[i]
    <3>1. IsSeq(P) /\ IsSeq(g)
      BY <1>1
    <3> QED BY <3>1, ConcatFact
  <2> QED BY <1>1, <2>1
<1> HIDE DEF d, Q
<1>5. DOMAIN d = 1..Len(c)+Len(e)
  BY <1>3, SeqFact
<1>6. \A a \in DOMAIN d : a \in DOMAIN c \/ \E i \in 1..Len(e) : a = Len(c) + i
  <2>1. ASSUME NEW a \in DOMAIN d, a \notin DOMAIN c PROVE \E i \in 1..Len(e) : a = Len(c) + i
    <3>1. a - Len(c) \in 1..Len(e) /\ a = Len(c) + (a - Len(c))
      BY <1>2, <1>5, <2>1
    <3> QED BY <3>1
  <2> QED BY <2>1
<1>7. /\ Len(c) + 1 \in DOMAIN d /\ d[Len(c) + 1] = e[1] /\ Q[Len(c) + 1] = g[1]
      /\ d[Len(c) + 1].op # "prologue" /\ Q[Len(c) + 1].n = 0
  <2>1. 1 \in 1..Len(e) /\ Len(c) + 1 \in 1..Len(c)+Len(e)
    BY <1>1, <1>2
  <2>2. e[1].op # "prologue" /\ g[1].n = 0
    BY <2>1 DEF Piece
  <2> QED BY <1>3, <1>4, <1>5, <2>1, <2>2
<1>8. DOMAIN c \subseteq DOMAIN d
  BY <1>2, <1>5
<1>9. \A a \in DOMAIN d : Fine(T, d[a]) /\ Fits(T, d[a], Q[a])
  <2>1. ASSUME NEW a \in DOMAIN c PROVE Fine(T, d[a]) /\ Fits(T, d[a], Q[a])
    BY <1>2, <1>3, <1>4, <2>1 DEF Sound
  <2>2. ASSUME NEW i \in 1..Len(e) PROVE Fine(T, d[Len(c) + i]) /\ Fits(T, d[Len(c) + i], Q[Len(c) + i])
    <3>1. Fine(T, e[i]) /\ Fits(T, e[i], g[i])
      BY <2>2 DEF Piece
    <3> QED BY <1>3, <1>4, <3>1
  <2> QED BY <1>6, <2>1, <2>2
<1>10. \A t \in 1..Len(c)+1 : Clear(c, P, t) => Clear(d, Q, t)
  <2>1. ASSUME NEW t \in 1..Len(c)+1, Clear(c, P, t) PROVE Clear(d, Q, t)
    <3>1. CASE t \in DOMAIN c
      BY <1>2, <1>3, <1>4, <2>1, <3>1 DEF Clear
    <3>2. CASE t \notin DOMAIN c
      <4>1. t = Len(c) + 1
        BY <1>2, <3>2
      <4> QED BY <1>7, <4>1 DEF Clear
    <3> QED BY <3>1, <3>2
  <2> QED BY <2>1
<1>11. ASSUME NEW a \in DOMAIN c, a \notin skips, NEW t \in Follows(d[a], a)
       PROVE  Lands(d, Q, t, After(d[a], Q[a]))
  <2>1. d[a] = c[a] /\ Q[a] = P[a]
    BY <1>2, <1>3, <1>4
  <2>2. t \in Follows(c[a], a)
    BY <1>11, <2>1
  <2>3. Lands(c, P, t, After(c[a], P[a])) /\ Within(c, body, c[a].of, t)
    BY <1>11, <2>2 DEF Sound, Flows
  <2>4. CASE t \in DOMAIN c
    <3>1. t \in DOMAIN d /\ d[t] = c[t] /\ Q[t] = P[t]
      BY <1>2, <1>3, <1>4, <1>8, <2>4
    <3> QED BY <2>1, <2>3, <2>4, <3>1, Zenon DEF Lands
  <2>5. CASE t \notin DOMAIN c
    <3>1. t = Len(c) + 1 /\ After(c[a], P[a]).n = 0
      BY <2>3, <2>5, Zenon DEF Within, Lands
    <3>2. Same(After(c[a], P[a]), Q[t])
      BY <1>7, <3>1, SameRest
    <3> QED BY <1>7, <2>1, <3>1, <3>2, Zenon DEF Lands
  <2> QED BY <2>4, <2>5
<1>12. ASSUME NEW i \in 1..Len(e), NEW t \in Follows(e[i], Len(c) + i)
       PROVE  Lands(d, Q, t, After(e[i], g[i]))
  <2>1. Fits(T, e[i], g[i])
    BY DEF Piece
  <2>2. CASE t = Len(c) + i + 1 /\ e[i].op \notin {"jmp", "ret"}
    <3>1. IF i < Len(e) THEN Same(After(e[i], g[i]), g[i+1]) ELSE After(e[i], g[i]).n = 0
      BY <2>2 DEF Piece
    <3>2. CASE i < Len(e)
      <4>1. i + 1 \in 1..Len(e) /\ t = Len(c) + (i + 1)
        BY <1>2, <2>2, <3>2
      <4>2. t \in DOMAIN d /\ d[t] = e[i+1] /\ Q[t] = g[i+1]
        <5>1. t \in DOMAIN d
          BY <1>2, <1>5, <4>1
        <5> QED BY <1>3, <1>4, <4>1, <5>1
      <4>3. e[i+1].op # "prologue"
        BY <4>1 DEF Piece
      <4> QED BY <3>1, <3>2, <4>2, <4>3 DEF Lands
    <3>3. CASE ~ (i < Len(e))
      <4>1. t \notin DOMAIN d
        BY <1>2, <1>5, <2>2, <3>3
      <4> QED BY <3>1, <3>3, <4>1 DEF Lands
    <3> QED BY <3>2, <3>3
  <2>3. CASE t = e[i].to /\ e[i].op \in Jumps
    <3>1. After(e[i], g[i]) = g[i] /\ g[i].n = 0
      BY <2>1, <2>3, JumpsRest
    <3>2. Clear(c, P, t) /\ \A k \in 1..Len(e) : t = Len(c) + k => g[k].n = 0
      BY <2>3 DEF Piece
    <3>3. CASE t \in DOMAIN c
      <4>1. d[t].op # "prologue" /\ Q[t].n = 0 /\ t \in DOMAIN d
        BY <1>2, <1>3, <1>4, <1>8, <3>2, <3>3 DEF Clear
      <4> QED BY <3>1, <4>1, SameRest DEF Lands
    <3>4. CASE t \in DOMAIN d /\ t \notin DOMAIN c
      <4>1. PICK k \in 1..Len(e) : t = Len(c) + k
        BY <1>6, <3>4
      <4>2. d[t].op # "prologue" /\ Q[t].n = 0
        <5>1. e[k].op # "prologue"
          BY DEF Piece
        <5> QED BY <1>3, <1>4, <3>2, <4>1, <5>1
      <4> QED BY <3>1, <3>4, <4>2, SameRest DEF Lands
    <3>5. CASE t \notin DOMAIN d
      BY <3>1, <3>5 DEF Lands
    <3> QED BY <3>3, <3>4, <3>5
  <2> QED BY <2>2, <2>3, FollowsFact
<1>13. \A a \in DOMAIN d : a \notin skips => \A t \in Follows(d[a], a) : Lands(d, Q, t, After(d[a], Q[a]))
  <2>1. \A i \in 1..Len(e) : d[Len(c) + i] = e[i] /\ Q[Len(c) + i] = g[i]
    BY <1>3, <1>4
  <2>2. ASSUME NEW a \in DOMAIN d, a \notin skips, NEW t \in Follows(d[a], a)
        PROVE  Lands(d, Q, t, After(d[a], Q[a]))
    <3>1. CASE a \in DOMAIN c
      BY <1>11, <2>2, <3>1
    <3>2. CASE \E i \in 1..Len(e) : a = Len(c) + i
      <4>1. PICK i \in 1..Len(e) : a = Len(c) + i
        BY <3>2
      <4> QED BY <1>12, <2>1, <2>2, <4>1
    <3> QED BY <1>6, <3>1, <3>2
  <2> QED BY <2>2
<1>14. Sound(T, d, Q, skips)
  <2>1. Len(Q) = Len(d)
    BY <1>3, <1>4
  <2> QED BY <1>4, <1>9, <1>13, <2>1, Zenon DEF Sound
<1> QED BY <1>10, <1>14 DEF d, Q


(* A patch changes where a jump or a call leads or the size of a frame. *)
Kept(i, j) == \/ i = j
              \/ /\ i.op = j.op /\ i.of = j.of /\ i.src = j.src
                 /\ i.op \in Jumps \cup {"call", "prologue"}
                 /\ i.op = "call" => i.far = j.far /\ ("far" \in DOMAIN i => "far" \in DOMAIN j)

(* A patched instruction is still one that the maps know. *)
LEMMA KeptFine ==
  ASSUME NEW T, NEW i, NEW j, Kept(i, j), Fine(T, i), NEW s, Fits(T, i, s)
  PROVE  Fine(T, j) /\ Fits(T, j, s) /\ After(j, s) = After(i, s) /\ j.op = i.op
<1>1. CASE i = j
  BY <1>1
<1>2. CASE i # j
  <2>1. /\ i.op = j.op /\ i.of = j.of /\ i.src = j.src /\ i.op \in Jumps \cup {"call", "prologue"}
        /\ i.op = "call" => i.far = j.far /\ ("far" \in DOMAIN i => "far" \in DOMAIN j)
    BY <1>2 DEF Kept
  <2>2. Fine(T, j)
    BY <2>1 DEF Fine, Accesses, Jumps
  <2>3. Fits(T, j, s) /\ After(j, s) = After(i, s)
    BY <2>1 DEF Fits, After, Jumps, Places, Pushes
  <2> QED BY <2>1, <2>2, <2>3
<1> QED BY <1>1, <1>2

(* d is c patched: a jump leads where it led before or to a clear place. *)
Patched(c, P, skips, d, more) ==
    /\ DOMAIN d = DOMAIN c /\ Len(d) = Len(c)
    /\ \A a \in DOMAIN c : Kept(c[a], d[a])
    /\ \A a \in DOMAIN c : a \notin more =>
          /\ a \notin skips \/ (c[a].op = "jmp" /\ Clear(c, P, d[a].to))
          /\ c[a].op \in Jumps => d[a].to = c[a].to \/ Clear(c, P, d[a].to)

(* The maps of patched code. *)
LEMMA SoundPatched ==
  ASSUME NEW T, NEW c, NEW P, NEW skips, Sound(T, c, P, skips),
         NEW d, NEW more, Patched(c, P, skips, d, more)
  PROVE  /\ Sound(T, d, P, more)
         /\ \A t : Clear(c, P, t) => Clear(d, P, t)
<1>1. \A a \in DOMAIN c : Fine(T, c[a]) /\ Fits(T, c[a], P[a]) /\ Kept(c[a], d[a])
  BY DEF Sound, Patched
<1>2. \A a \in DOMAIN c : /\ Fine(T, d[a]) /\ Fits(T, d[a], P[a])
                          /\ After(d[a], P[a]) = After(c[a], P[a]) /\ d[a].op = c[a].op
  BY <1>1, KeptFine
<1>3. DOMAIN d = DOMAIN c /\ IsSeq(P) /\ Len(P) = Len(d)
  BY DEF Patched, Sound
<1>4. \A t, s : Lands(c, P, t, s) => Lands(d, P, t, s)
  BY <1>2, <1>3 DEF Lands
<1>5. \A t : Clear(c, P, t) => Clear(d, P, t)
  BY <1>2, <1>3 DEF Clear
<1>6. ASSUME NEW a \in DOMAIN d, a \notin more, NEW t \in Follows(d[a], a)
      PROVE  Lands(d, P, t, After(d[a], P[a]))
  <2>1. /\ a \in DOMAIN c /\ d[a].op = c[a].op /\ After(d[a], P[a]) = After(c[a], P[a])
        /\ Fits(T, c[a], P[a])
    BY <1>1, <1>2, <1>3, <1>6
  <2>2. /\ a \notin skips \/ (c[a].op = "jmp" /\ Clear(c, P, d[a].to))
        /\ c[a].op \in Jumps => d[a].to = c[a].to \/ Clear(c, P, d[a].to)
    BY <1>6, <2>1 DEF Patched
  <2>3. CASE t \in Follows(c[a], a) /\ a \notin skips
    <3>1. Lands(c, P, t, After(c[a], P[a]))
      BY <2>1, <2>3 DEF Sound
    <3> QED BY <1>4, <2>1, <3>1
  <2>4. CASE Clear(c, P, t) /\ c[a].op \in Jumps
    <3>1. After(c[a], P[a]).n = 0
      BY <2>1, <2>4, JumpsRest
    <3>2. Lands(c, P, t, After(c[a], P[a]))
      BY <2>4, <3>1, SameRest DEF Clear, Lands
    <3> QED BY <1>4, <2>1, <3>2
  <2>5. (t \in Follows(c[a], a) /\ a \notin skips) \/ (Clear(c, P, t) /\ c[a].op \in Jumps)
    <3>1. CASE t = a + 1 /\ d[a].op \notin {"jmp", "ret"}
      BY <2>1, <2>2, <3>1 DEF Follows
    <3>2. CASE t = d[a].to /\ d[a].op \in Jumps
      BY <2>1, <2>2, <3>2 DEF Follows
    <3> QED BY <1>6, <3>1, <3>2, FollowsFact
  <2> QED BY <2>3, <2>4, <2>5
<1> QED BY <1>2, <1>3, <1>5, <1>6, Zenon DEF Sound

(* Jumps are patched with a clear place. *)
LEMMA PatchedJumps ==
  ASSUME NEW c, IsSeq(c), NEW P, NEW skips, NEW holes, NEW to, Clear(c, P, to),
         \A a \in holes : a \in DOMAIN c => c[a].op \in Jumps
  PROVE  Patched(c, P, skips, Patch(c, holes, to), skips)
<1> DEFINE d == Patch(c, holes, to)
<1>1. DOMAIN c = 1..Len(c) /\ Len(c) \in Nat
  BY SeqFact
<1>2. /\ d = [i \in 1..Len(c) |-> d[i]]
      /\ \A i \in 1..Len(c) : d[i] = IF i \in holes THEN [c[i] EXCEPT !.to = to] ELSE c[i]
  BY <1>1 DEF Patch
<1> HIDE DEF d
<1>3. Len(d) = Len(c) /\ DOMAIN d = DOMAIN c
  <2>1. IsSeq(d) /\ Len(d) = Len(c)
    BY <1>1, <1>2, MadeSeq
  <2> QED BY <1>1, <2>1, SeqFact
<1>4. ASSUME NEW a \in DOMAIN c
      PROVE  Kept(c[a], d[a]) /\ (c[a].op \in Jumps => d[a].to = c[a].to \/ d[a].to = to)
  <2>1. CASE a \in holes
    <3>1. d[a] = [c[a] EXCEPT !.to = to] /\ c[a].op \in Jumps
      BY <1>1, <1>2, <2>1
    <3>2. d[a].op = c[a].op /\ d[a].of = c[a].of /\ d[a].src = c[a].src
      BY <3>1
    <3>3. d[a].to = to \/ d[a].to = c[a].to
      BY <3>1
    <3>4. c[a].op # "call"
      BY <3>1 DEF Jumps
    <3> QED BY <3>1, <3>2, <3>3, <3>4 DEF Kept
  <2>2. CASE a \notin holes
    BY <1>1, <1>2, <2>2 DEF Kept
  <2> QED BY <2>1, <2>2
<1>5. Patched(c, P, skips, d, skips)
  BY <1>3, <1>4 DEF Patched
<1> QED BY <1>5 DEF d

(* The frame size of a prologue is patched. *)
LEMMA PatchedFrame ==
  ASSUME NEW c, IsSeq(c), NEW P, NEW skips, NEW at \in DOMAIN c, c[at].op = "prologue", NEW scope
  PROVE  Patched(c, P, skips, SetFrame(c, at, scope), skips)
<1> DEFINE e == [c[at] EXCEPT !.size = -scope.local_top]
           d == [c EXCEPT ![at] = e]
<1>1. SetFrame(c, at, scope) = d
  BY DEF SetFrame
<1>2. e.op = c[at].op /\ e.of = c[at].of /\ e.src = c[at].src
  OBVIOUS
<1> HIDE DEF e
<1>3. /\ Len(d) = Len(c) /\ DOMAIN d = DOMAIN c
      /\ \A i \in DOMAIN c : i # at => d[i] = c[i]
      /\ d[at] = e
  BY ExceptFact
<1> HIDE DEF d
<1>4. ASSUME NEW a \in DOMAIN c
      PROVE  Kept(c[a], d[a]) /\ (c[a].op \in Jumps => d[a].to = c[a].to)
  <2>1. CASE a = at
    BY <1>2, <1>3, <2>1 DEF Kept, Jumps
  <2>2. CASE a # at
    BY <1>3, <2>2 DEF Kept
  <2> QED BY <2>1, <2>2
<1>5. Patched(c, P, skips, d, skips)
  BY <1>3, <1>4 DEF Patched
<1> QED BY <1>1, <1>5


-----------------------------------------------------------------------------
(* The table grows: a row or a symbol at the end. *)
Extends(T, U) ==
    /\ IsSeq(T) /\ IsSeq(U) /\ Len(T) <= Len(U)
    /\ \A p \in DOMAIN T :
          /\ U[p].outer = T[p].outer /\ U[p].level = T[p].level /\ U[p].far = T[p].far
          /\ U[p].args = T[p].args /\ U[p].n = T[p].n
          /\ DOMAIN T[p].symbols \subseteq DOMAIN U[p].symbols
          /\ \A i \in DOMAIN T[p].symbols : U[p].symbols[i] = T[p].symbols[i]

(* Procedures stay in the table. *)
LEMMA ExtendsDomain ==
  ASSUME NEW T, NEW U, Extends(T, U)
  PROVE  DOMAIN T \subseteq DOMAIN U
<1>1. /\ IsSeq(T) /\ IsSeq(U) /\ Len(T) <= Len(U)
  BY DEF Extends
<1>2. /\ DOMAIN T = 1..Len(T) /\ Len(T) \in Nat /\ DOMAIN U = 1..Len(U) /\ Len(U) \in Nat
  BY <1>1, SeqFact
<1> QED BY <1>1, <1>2

(* A chain of procedures stays one. *)
LEMMA ChainExtends ==
  ASSUME NEW T, NEW U, Extends(T, U), NEW q, NEW h, NEW t, Chain(T, q, h, t)
  PROVE  Chain(U, q, h, t)
<1>1. PICK ch : /\ ch[0] = q /\ ch[h] = t
                /\ \A i \in 0..h-1 : ch[i] \in DOMAIN T /\ T[ch[i]].outer = ch[i+1] /\ ch[i+1] # 0
  BY DEF Chain
<1>2. \A p \in DOMAIN T : p \in DOMAIN U /\ U[p].outer = T[p].outer
  BY ExtendsDomain DEF Extends
<1>3. \A i \in 0..h-1 : ch[i] \in DOMAIN U /\ U[ch[i]].outer = ch[i+1] /\ ch[i+1] # 0
  BY <1>1, <1>2
<1> QED BY <1>1, <1>3 DEF Chain

(* What an instruction names stays what it is. *)
LEMMA FineExtends ==
  ASSUME NEW T, NEW U, Extends(T, U), NEW i, Fine(T, i)
  PROVE  Fine(U, i)
<1>1. \A p \in DOMAIN T : /\ p \in DOMAIN U
                          /\ U[p].outer = T[p].outer /\ U[p].far = T[p].far /\ U[p].args = T[p].args
  BY ExtendsDomain DEF Extends
<1>2. ASSUME LocalItem(T, i.item, i.src.d, i.of)
      PROVE  LocalItem(U, i.item, i.src.d, i.of)
  <2> DEFINE d == i.src.d
             it == i.item
  <2>1. LocalItem(T, it, d, i.of)
    BY <1>2
  <2> HIDE DEF d, it
  <2>2. Chain(U, i.of, it.hops, d.proc)
    BY <2>1, ChainExtends DEF LocalItem
  <2>3. /\ d.proc \in DOMAIN U /\ d.slot \in DOMAIN U[d.proc].symbols
        /\ U[d.proc].symbols[d.slot] = T[d.proc].symbols[d.slot]
    <3>1. d.proc \in DOMAIN T /\ d.slot \in DOMAIN T[d.proc].symbols
      BY <2>1 DEF LocalItem
    <3> QED BY <1>1, <3>1 DEF Extends
  <2>4. LocalItem(U, it, d, i.of)
    BY <2>1, <2>2, <2>3, Zenon DEF LocalItem
  <2> QED BY <2>4 DEF d, it
<1>3. i.op \in Accesses => LocalItem(U, i.item, i.src.d, i.of) \/ GlobalItem(i.item, i.src.d)
  BY <1>2, Zenon DEF Fine
<1> QED BY <1>1, <1>3, Zenon DEF Fine

(* What it finds on the stack too. *)
LEMMA FitsExtends ==
  ASSUME NEW T, NEW U, Extends(T, U), \A p \in DOMAIN T : Laid(T[p]),
         NEW i, NEW s, Fits(T, i, s), Fine(T, i)
  PROVE  Fits(U, i, s)
<1>1. \A p \in DOMAIN T : p \in DOMAIN U /\ U[p].outer = T[p].outer /\ U[p].n = T[p].n
  BY ExtendsDomain DEF Extends
<1>2. Held(U, s)
  BY <1>1, Zenon DEF Fits, Held, Links
<1>3. ASSUME NEW kind, Passes(T, s, kind) PROVE Passes(U, s, kind)
  <2>1. /\ s.p \in DOMAIN T /\ s.n < T[s.p].n /\ T[s.p].symbols[s.n + 1].kind = kind
        /\ s.n \in Nat
    BY <1>3 DEF Passes, Fits, Held
  <2>2. s.n + 1 \in DOMAIN T[s.p].symbols
    <3>1. IsSeq(T[s.p].symbols) /\ T[s.p].n \in 0..Len(T[s.p].symbols)
      BY <2>1 DEF Laid
    <3>2. DOMAIN T[s.p].symbols = 1..Len(T[s.p].symbols) /\ Len(T[s.p].symbols) \in Nat
      BY <3>1, SeqFact
    <3> QED BY <2>1, <3>1, <3>2
  <2>3. U[s.p].symbols[s.n + 1] = T[s.p].symbols[s.n + 1]
    BY <2>1, <2>2 DEF Extends
  <2> QED BY <1>1, <2>1, <2>3, Zenon DEF Passes
<1>4. i.op = "push link" => /\ s.p \in DOMAIN U /\ U[s.p].outer # 0 /\ s.n = U[s.p].n
                            /\ i.hops \in Nat /\ Chain(U, i.of, i.hops, U[s.p].outer)
  <2>1. ASSUME i.op = "push link"
        PROVE  /\ s.p \in DOMAIN U /\ U[s.p].outer # 0 /\ s.n = U[s.p].n
               /\ i.hops \in Nat /\ Chain(U, i.of, i.hops, U[s.p].outer)
    <3>1. /\ s.p \in DOMAIN T /\ T[s.p].outer # 0 /\ s.n = T[s.p].n
          /\ i.hops \in Nat /\ Chain(T, i.of, i.hops, T[s.p].outer)
      BY <2>1, Zenon DEF Fits
    <3>2. Chain(U, i.of, i.hops, T[s.p].outer)
      BY <3>1, ChainExtends, Zenon
    <3> QED BY <1>1, <3>1, <3>2, Zenon
  <2> QED BY <2>1
<1>5. i.op = "call" => s.p = i.src.p /\ s.n = U[s.p].n + Links(U[s.p])
  <2>1. ASSUME i.op = "call" PROVE s.p = i.src.p /\ s.n = U[s.p].n + Links(U[s.p])
    <3>1. s.p = i.src.p /\ s.n = T[s.p].n + Links(T[s.p]) /\ s.p \in DOMAIN T
      BY <2>1, Zenon DEF Fits, Fine
    <3> QED BY <1>1, <3>1, Zenon DEF Links
  <2> QED BY <2>1
<1> QED BY <1>2, <1>3, <1>4, <1>5, Zenon DEF Fits

(* The maps of the code stay its maps when the table grows. *)
LEMMA SoundExtends ==
  ASSUME NEW T, NEW U, Extends(T, U), \A p \in DOMAIN T : Laid(T[p]),
         NEW c, NEW P, NEW skips, Sound(T, c, P, skips)
  PROVE  Sound(U, c, P, skips)
<1>1. ASSUME NEW a \in DOMAIN c PROVE Fine(U, c[a]) /\ Fits(U, c[a], P[a])
  <2>1. Fine(T, c[a]) /\ Fits(T, c[a], P[a])
    BY DEF Sound
  <2> QED BY <2>1, FineExtends, FitsExtends
<1> QED BY <1>1, Zenon DEF Sound

(* A table extends itself. *)
LEMMA ExtendsSelf ==
  ASSUME NEW T, IsSeq(T)
  PROVE  Extends(T, T)
<1>1. Len(T) <= Len(T)
  BY SeqFact
<1> QED BY <1>1, Zenon DEF Extends


-----------------------------------------------------------------------------
(* What the table says of the scopes *)
LEMMA MatchFact ==
  ASSUME IInv, NEW T, Match(T)
  PROVE  /\ DOMAIN T = DOMAIN procs /\ DOMAIN T = 1..Len(procs) /\ Len(procs) \in Nat
         /\ IsSeq(procs) /\ IsSeq(scopes) /\ Level \in Nat /\ DOMAIN scopes = 1..Level
         /\ \A l \in 1..Level : scopes[l].proc \in DOMAIN T /\ scopes[l].proc # 0
                                /\ ScopeOf(T, scopes, l)
         /\ Level > 0 => /\ Top = scopes[Level] /\ Current = Top.proc /\ Current \in DOMAIN T
                         /\ Current # 0 /\ Current \in Open /\ Level \in 1..Level
         /\ Level = 0 => Current = 0
<1>1. IsSeq(procs) /\ IsSeq(scopes) /\ IsSeq(T) /\ Len(T) = Len(procs)
      /\ \A l \in 1..Level : scopes[l].proc \in DOMAIN procs
  BY Zenon DEF IInv, ProcsKnown, ScopesOpen, Match
<1>2. /\ Len(procs) \in Nat /\ DOMAIN procs = 1..Len(procs) /\ DOMAIN T = 1..Len(procs)
      /\ Level \in Nat /\ DOMAIN scopes = 1..Level
  BY <1>1, SeqFact DEF Level
<1>3. \A l \in 1..Level : scopes[l].proc \in DOMAIN T /\ scopes[l].proc # 0
  BY <1>1, <1>2
<1>4. \A l \in 1..Level : ScopeOf(T, scopes, l)
  BY DEF Match
<1>5. ASSUME Level > 0
      PROVE  /\ Top = scopes[Level] /\ Current = Top.proc /\ Level \in 1..Level /\ Current \in Open
  <2>1. Top = scopes[Level] /\ Level \in 1..Level /\ Level # 0
    BY <1>2, <1>5 DEF Top
  <2> QED BY <2>1, Zenon DEF Current, Open
<1>6. Level = 0 => Current = 0
  BY DEF Current
<1> QED BY <1>1, <1>2, <1>3, <1>4, <1>5, <1>6

(* The open scopes are a chain. *)
LEMMA ScopeChain ==
  ASSUME IInv, NEW T, Match(T), NEW l \in 1..Level
  PROVE  Chain(T, Current, Level - l, scopes[l].proc) /\ Level - l \in Nat
<1> DEFINE ch == [i \in 0..Level-l |-> scopes[Level-i].proc]
<1>1. /\ Level \in Nat /\ Level > 0
      /\ \A m \in 1..Level : scopes[m].proc \in DOMAIN T /\ scopes[m].proc # 0
                             /\ ScopeOf(T, scopes, m)
      /\ Current = scopes[Level].proc
  <2>1. Level \in Nat /\ Level > 0
    <3>1. Level \in Nat
      BY MatchFact
    <3> QED BY <3>1
  <2> QED BY <2>1, MatchFact
<1>2. Level - l \in Nat /\ 0 \in 0..Level-l /\ Level - l \in 0..Level-l
      /\ Level - 0 = Level /\ Level - (Level - l) = l
  BY <1>1
<1>3. ch[0] = Current /\ ch[Level-l] = scopes[l].proc
  BY <1>1, <1>2
<1>4. ASSUME NEW i \in 0..Level-l-1
      PROVE  ch[i] \in DOMAIN T /\ T[ch[i]].outer = ch[i+1] /\ ch[i+1] # 0
  <2>1. /\ i \in 0..Level-l /\ i + 1 \in 0..Level-l /\ Level - i \in 1..Level
        /\ Level - (i + 1) = (Level - i) - 1 /\ (Level - i) - 1 \in 1..Level /\ Level - i # 1
    BY <1>1, <1>2
  <2>2. ch[i] = scopes[Level-i].proc /\ ch[i+1] = scopes[(Level-i)-1].proc
    <3>1. ch[i+1] = scopes[Level-(i+1)].proc
      BY <2>1
    <3> QED BY <2>1, <3>1
  <2>3. ScopeOf(T, scopes, Level - i) /\ scopes[Level-i].proc \in DOMAIN T
        /\ scopes[(Level-i)-1].proc # 0
    BY <1>1, <2>1
  <2> HIDE DEF ch
  <2> QED BY <2>1, <2>2, <2>3, Zenon DEF ScopeOf
<1> HIDE DEF ch
<1>5. Chain(T, Current, Level - l, scopes[l].proc)
  <2>1. \A i \in 0..(Level-l)-1 : ch[i] \in DOMAIN T /\ T[ch[i]].outer = ch[i+1] /\ ch[i+1] # 0
    BY <1>4
  <2> QED BY <1>3, <2>1, Zenon DEF Chain
<1> QED BY <1>2, <1>5

(* The item of a variable that can be seen names it. *)
LEMMA ItemFact ==
  ASSUME IInv, Liberties = {}, Level > 0, NEW T, Match(T), NEW d \in Visible, Usable(d)
  PROVE  LocalItem(T, Item(d), Name(d), Current) \/ GlobalItem(Item(d), Name(d))
<1>1. /\ Item(d).mode = (IF d.lev = 0 THEN "global" ELSE "local")
      /\ Item(d).adr = Symbol(d).adr /\ Item(d).ref = IsRef(d)
      /\ Item(d).hops = (IF Uplevel(d) THEN Level - d.lev ELSE 0)
      /\ Name(d).proc = (IF d.lev = 0 THEN 0 ELSE scopes[d.lev].proc)
      /\ Name(d).slot = d.slot /\ Name(d).ref = IsRef(d)
  BY DEF Item, Name
<1>2. \/ d.lev = 0 /\ d.slot \in 1..Globals
      \/ d.lev \in 1..Level /\ d.slot \in DOMAIN scopes[d.lev].symbols
  BY DEF Visible
<1>3. CASE d.lev = 0
  <2>1. d.slot \in 1..Globals
    <3>1. 0 \notin 1..Level
      OBVIOUS
    <3> QED BY <1>2, <1>3, <3>1, Zenon
  <2>2. Symbol(d) = [kind |-> "var", adr |-> GlobalAdr(d.slot)]
    BY <1>3 DEF Symbol
  <2>3. Symbol(d).adr = GlobalAdr(d.slot) /\ IsRef(d) = FALSE
    BY <2>2 DEF IsRef
  <2>4. ~ Uplevel(d)
    BY <1>3 DEF Uplevel
  <2> QED BY <1>1, <1>3, <2>1, <2>3, <2>4, Zenon DEF GlobalItem
<1>4. CASE d.lev \in 1..Level /\ d.slot \in DOMAIN scopes[d.lev].symbols
  <2>1. Level \in Nat
    BY MatchFact
  <2>2. d.lev # 0 /\ (~ Uplevel(d) => d.lev = Level)
    BY <1>4, <2>1 DEF Uplevel
  <2>3. Chain(T, Current, Level - d.lev, scopes[d.lev].proc) /\ Level - d.lev \in Nat
    BY <1>4, ScopeChain
  <2>4. Item(d).hops = Level - d.lev
    <3>1. ~ Uplevel(d) => Level - d.lev = 0
      BY <2>1, <2>2
    <3> QED BY <1>1, <3>1
  <2>5. scopes[d.lev].proc \in DOMAIN T /\ T[scopes[d.lev].proc].symbols = scopes[d.lev].symbols
    BY <1>4, MatchFact DEF ScopeOf
  <2>6. Symbol(d) = scopes[d.lev].symbols[d.slot]
    BY <2>2 DEF Symbol
  <2>7. IsRef(d) = (scopes[d.lev].symbols[d.slot].kind = "varparam")
    BY <2>6 DEF IsRef
  <2>8. IsRef(d) => Level - d.lev = 0
    <3>1. IsRef(d) => ~ Uplevel(d)
      BY DEF Usable
    <3> QED BY <2>1, <2>2, <3>1
  <2> QED BY <1>1, <1>4, <2>2, <2>3, <2>4, <2>5, <2>6, <2>7, <2>8, Zenon DEF LocalItem
<1> QED BY <1>2, <1>3, <1>4


-----------------------------------------------------------------------------
(* The code of a body: c has grown from the code, and Q maps it. *)
Charted(T, P, c, Q) ==
    /\ Coded(code, c, Current, Skips)
    /\ Sound(T, c, Q, Skips)
    /\ \A t \in 1..Len(code)+1 : Clear(code, P, t) => Clear(c, Q, t)

(* Before anything is emitted. *)
LEMMA ChartSelf ==
  ASSUME IInv, InBody, NEW T, NEW P, SInv(T, P)
  PROVE  Charted(T, P, code, P)
<1>1. Coded(code, code, Current, Skips)
  BY CodedSelf
<1> QED BY <1>1, Zenon DEF Charted, SInv

(* What is known of charted code. *)
LEMMA ChartFact ==
  ASSUME NEW T, NEW P, NEW c, NEW Q, Charted(T, P, c, Q)
  PROVE  /\ Flows(c, Current, Skips) /\ IsSeq(c) /\ Len(c) \in Nat /\ DOMAIN c = 1..Len(c)
         /\ Sound(T, c, Q, Skips) /\ Len(code) \in Nat /\ Len(code) <= Len(c)
         /\ Clear(c, Q, Len(c) + 1) /\ Clear(c, Q, Len(c) + 2)
<1>1. Flows(c, Current, Skips) /\ Grown(code, c, Current) /\ Sound(T, c, Q, Skips)
  BY DEF Charted, Coded
<1>2. IsSeq(c) /\ IsSeq(code) /\ Len(code) <= Len(c)
  BY <1>1 DEF Grown
<1>3. Len(c) \in Nat /\ DOMAIN c = 1..Len(c) /\ Len(code) \in Nat
  BY <1>2, SeqFact
<1>4. Len(c) + 1 \notin DOMAIN c /\ Len(c) + 2 \notin DOMAIN c
  BY <1>3
<1> QED BY <1>1, <1>2, <1>3, <1>4, Zenon DEF Clear

(* A piece of the body is emitted. *)
LEMMA ChartEmit ==
  ASSUME NEW T, NEW P, NEW c, NEW Q, Charted(T, P, c, Q), Current # 0,
         NEW e, NEW g, Chunk(c, e, Current), Piece(T, c, Q, e, g)
  PROVE  /\ Charted(T, P, c \o e, Q \o g)
         /\ \A t \in 1..Len(c)+1 : Clear(c, Q, t) => Clear(c \o e, Q \o g, t)
<1>1. /\ Flows(c, Current, Skips) /\ Sound(T, c, Q, Skips)
      /\ Len(code) \in Nat /\ Len(c) \in Nat /\ Len(code) <= Len(c)
  BY ChartFact
<1>2. Coded(code, c \o e, Current, Skips)
  BY CodedEmit DEF Charted
<1>3. /\ Sound(T, c \o e, Q \o g, Skips)
      /\ \A t \in 1..Len(c)+1 : Clear(c, Q, t) => Clear(c \o e, Q \o g, t)
  BY <1>1, SoundEmit
<1>4. \A t \in 1..Len(code)+1 : t \in 1..Len(c)+1
  BY <1>1
<1> QED BY <1>2, <1>3, <1>4, Zenon DEF Charted

(* An instruction that leaves the empty stack alone. *)
Rest == [p |-> 0, n |-> 0]
Flats == {"load", "store", "const", "jmp", "jz"}
Flat(T, c, Q, i) == /\ i.op \in Flats /\ Fine(T, i)
                    /\ i.op \in Jumps => Clear(c, Q, i.to)

(* Such an instruction, and RET, fits the empty stack and leaves it empty. *)
LEMMA FlatFact ==
  ASSUME NEW T, NEW i, i.op \in Flats \cup {"ret"}
  PROVE  Fits(T, i, Rest) /\ After(i, Rest) = Rest /\ Rest.n = 0
<1>1. Rest.p = 0 /\ Rest.n = 0
  BY DEF Rest
<1>2. Held(T, Rest)
  BY <1>1 DEF Held
<1>3. i.op \notin Pushes \cup {"restore", "call"}
  BY DEF Flats, Pushes, Places
<1>4. Fits(T, i, Rest)
  BY <1>1, <1>2, <1>3 DEF Fits, Pushes
<1>5. After(i, Rest) = Rest
  BY <1>3 DEF After
<1> QED BY <1>1, <1>4, <1>5

(* Flat instructions are a piece. *)
LEMMA FlatPiece ==
  ASSUME NEW T, NEW c, NEW Q, NEW e, IsSeq(e), Len(e) > 0,
         \A i \in 1..Len(e) : Flat(T, c, Q, e[i])
  PROVE  \E g : Piece(T, c, Q, e, g) /\ g = [i \in 1..Len(e) |-> Rest]
<1> DEFINE g == [i \in 1..Len(e) |-> Rest]
<1>1. Len(e) \in Nat /\ 1 \in 1..Len(e)
  <2>1. Len(e) \in Nat
    BY SeqFact
  <2> QED BY <2>1
<1>2. IsSeq(g) /\ Len(g) = Len(e)
  <2>1. g = [i \in 1..Len(e) |-> g[i]]
    OBVIOUS
  <2> HIDE DEF g
  <2> QED BY <1>1, <2>1, MadeSeq
<1>3. \A i \in 1..Len(e) : g[i] = Rest
  OBVIOUS
<1> HIDE DEF g
<1>4. Rest.n = 0
  BY DEF Rest
<1>5. g[1].n = 0
  BY <1>1, <1>3, <1>4
<1>6. ASSUME NEW i \in 1..Len(e)
      PROVE  /\ Fine(T, e[i]) /\ Fits(T, e[i], g[i]) /\ e[i].op # "prologue"
             /\ e[i].op \notin {"jmp", "ret"} =>
                   IF i < Len(e) THEN Same(After(e[i], g[i]), g[i+1]) ELSE After(e[i], g[i]).n = 0
             /\ e[i].op \in Jumps => /\ Clear(c, Q, e[i].to)
                                     /\ \A k \in 1..Len(e) : e[i].to = Len(c) + k => g[k].n = 0
  <2>1. e[i].op \in Flats /\ Fine(T, e[i]) /\ (e[i].op \in Jumps => Clear(c, Q, e[i].to))
    BY DEF Flat
  <2>2. Fits(T, e[i], g[i]) /\ After(e[i], g[i]) = Rest
    <3>1. g[i] = Rest
      BY <1>3
    <3> QED BY <2>1, <3>1, FlatFact
  <2>3. e[i].op # "prologue"
    BY <2>1 DEF Flats
  <2>4. i < Len(e) => g[i+1] = Rest
    <3>1. i < Len(e) => i + 1 \in 1..Len(e)
      BY <1>1
    <3> QED BY <1>3, <3>1
  <2>5. Same(Rest, Rest)
    BY <1>4, SameRest
  <2> QED BY <1>3, <1>4, <2>1, <2>2, <2>3, <2>4, <2>5, Zenon
<1>7. Piece(T, c, Q, e, g)
  BY <1>2, <1>5, <1>6, Zenon DEF Piece
<1> QED BY <1>7 DEF g

(* Flat instructions are emitted. *)
LEMMA ChartFlat ==
  ASSUME NEW T, NEW P, NEW c, NEW Q, Charted(T, P, c, Q), Current # 0,
         NEW e, Chunk(c, e, Current), \A i \in 1..Len(e) : Flat(T, c, Q, e[i])
  PROVE  \E R : /\ Charted(T, P, c \o e, R)
                /\ \A t \in 1..Len(c)+1 : Clear(c, Q, t) => Clear(c \o e, R, t)
                /\ \A t \in Len(c)+1..Len(c)+Len(e)+1 : Clear(c \o e, R, t)
<1>1. IsSeq(e) /\ Len(e) > 0
  BY DEF Chunk
<1>2. PICK g : Piece(T, c, Q, e, g) /\ g = [i \in 1..Len(e) |-> Rest]
  BY <1>1, FlatPiece
<1> DEFINE d == c \o e
           R == Q \o g
<1>3. /\ Charted(T, P, d, R)
      /\ \A t \in 1..Len(c)+1 : Clear(c, Q, t) => Clear(d, R, t)
  BY <1>2, ChartEmit
<1>4. /\ IsSeq(c) /\ Len(c) \in Nat /\ Len(e) \in Nat /\ IsSeq(Q) /\ Len(Q) = Len(c)
      /\ IsSeq(g) /\ Len(g) = Len(e)
  <2>1. IsSeq(c) /\ Len(c) \in Nat /\ Sound(T, c, Q, Skips)
    BY ChartFact
  <2>2. Len(e) \in Nat
    BY <1>1, SeqFact
  <2> QED BY <1>2, <2>1, <2>2, Zenon DEF Sound, Piece
<1>5. /\ IsSeq(d) /\ Len(d) = Len(c) + Len(e)
      /\ \A i \in 1..Len(e) : d[Len(c) + i] = e[i]
  BY <1>1, <1>4, ConcatFact
<1>6. \A i \in 1..Len(e) : R[Len(c) + i] = g[i]
  <2>1. \A i \in 1..Len(g) : R[Len(Q) + i] = g[i]
    BY <1>4, ConcatFact
  <2> QED BY <1>4, <2>1
<1> HIDE DEF d, R
<1>7. DOMAIN d = 1..Len(c)+Len(e)
  BY <1>5, SeqFact
<1>8. ASSUME NEW t \in Len(c)+1..Len(c)+Len(e)+1 PROVE Clear(d, R, t)
  <2>1. CASE t \in DOMAIN d
    <3> DEFINE i == t - Len(c)
    <3>1. i \in 1..Len(e) /\ t = Len(c) + i
      BY <1>4, <1>7, <2>1
    <3> HIDE DEF i
    <3>2. d[t] = e[i] /\ R[t] = Rest
      BY <1>2, <1>5, <1>6, <3>1
    <3>3. e[i].op # "prologue" /\ Rest.n = 0
      BY <3>1 DEF Flat, Flats, Rest
    <3> QED BY <3>2, <3>3 DEF Clear
  <2>2. CASE t \notin DOMAIN d
    BY <2>2 DEF Clear
  <2> QED BY <2>1, <2>2
<1> QED BY <1>3, <1>8 DEF d

(* Holes of the body are patched with a clear place of it. *)
LEMMA ChartPatch ==
  ASSUME NEW T, NEW P, NEW c, NEW Q, Charted(T, P, c, Q), Current # 0,
         NEW holes, NEW to, holes \subseteq JumpsOf(c, Current),
         Within(c, Current, Current, to), Clear(c, Q, to)
  PROVE  /\ Charted(T, P, Patch(c, holes, to), Q)
         /\ \A t : Clear(c, Q, t) => Clear(Patch(c, holes, to), Q, t)
<1>1. IsSeq(c) /\ Sound(T, c, Q, Skips)
  BY ChartFact
<1>2. Coded(code, Patch(c, holes, to), Current, Skips)
  BY CodedPatch DEF Charted
<1>3. \A a \in holes : a \in DOMAIN c => c[a].op \in Jumps
  BY DEF JumpsOf
<1>4. Patched(c, Q, Skips, Patch(c, holes, to), Skips)
  BY <1>1, <1>3, PatchedJumps
<1>5. /\ Sound(T, Patch(c, holes, to), Q, Skips)
      /\ \A t : Clear(c, Q, t) => Clear(Patch(c, holes, to), Q, t)
  BY <1>1, <1>4, SoundPatched
<1> QED BY <1>2, <1>5, Zenon DEF Charted


-----------------------------------------------------------------------------
(* Statements: the innermost scope becomes s and its code grows. *)
SameHead(p, q) ==
    /\ HeadFields \subseteq DOMAIN p => HeadFields \subseteq DOMAIN q
    /\ q.outer = p.outer /\ q.level = p.level /\ q.is_far = p.is_far /\ q.has_sl = p.has_sl
    /\ q.arg_size = p.arg_size /\ q.exported = p.exported /\ q.symbols = p.symbols
HeadsKept == /\ IsSeq(procs') /\ Len(procs') = Len(procs)
             /\ \A p \in DOMAIN procs : SameHead(procs[p], procs'[p])

(* U is T with other symbols of procedure p. *)
Regrown(T, U, p, symbols) ==
    /\ IsSeq(U) /\ Len(U) = Len(T)
    /\ \A q \in DOMAIN T : q # p => U[q] = T[q]
    /\ U[p].outer = T[p].outer /\ U[p].level = T[p].level /\ U[p].far = T[p].far
    /\ U[p].args = T[p].args /\ U[p].n = T[p].n
    /\ U[p].symbols = symbols
Prefix(s, t) == /\ IsSeq(s) /\ IsSeq(t) /\ Len(s) <= Len(t)
                /\ \A i \in 1..Len(s) : t[i] = s[i]

(* A table with more symbols of one procedure extends the table. *)
LEMMA RegrownExtends ==
  ASSUME NEW T, IsSeq(T), NEW p \in DOMAIN T, NEW U, NEW symbols, Regrown(T, U, p, symbols),
         Prefix(T[p].symbols, symbols)
  PROVE  Extends(T, U)
<1>1. /\ Len(T) \in Nat /\ IsSeq(U) /\ Len(U) = Len(T)
  BY SeqFact DEF Regrown
<1>2. /\ DOMAIN T[p].symbols \subseteq DOMAIN U[p].symbols
      /\ \A i \in DOMAIN T[p].symbols : U[p].symbols[i] = T[p].symbols[i]
  <2>1. U[p].symbols = symbols
    BY DEF Regrown
  <2> DEFINE s == T[p].symbols
  <2>2. IsSeq(s) /\ IsSeq(symbols) /\ Len(s) <= Len(symbols) /\ \A i \in 1..Len(s) : symbols[i] = s[i]
    BY DEF Prefix
  <2> HIDE DEF s
  <2>3. DOMAIN s = 1..Len(s) /\ Len(s) \in Nat /\ DOMAIN symbols = 1..Len(symbols) /\ Len(symbols) \in Nat
    BY <2>2, SeqFact
  <2>4. DOMAIN s \subseteq DOMAIN symbols
    BY <2>2, <2>3
  <2> QED BY <2>1, <2>2, <2>3, <2>4, Zenon DEF s
<1>3. \A q \in DOMAIN T : q = p \/ U[q] = T[q]
  BY DEF Regrown
<1>4. /\ U[p].outer = T[p].outer /\ U[p].level = T[p].level /\ U[p].far = T[p].far
      /\ U[p].args = T[p].args /\ U[p].n = T[p].n
  BY DEF Regrown
<1>5. Len(T) <= Len(U)
  BY <1>1
<1>6. \A q \in DOMAIN T :
         /\ U[q].outer = T[q].outer /\ U[q].level = T[q].level /\ U[q].far = T[q].far
         /\ U[q].args = T[q].args /\ U[q].n = T[q].n
         /\ DOMAIN T[q].symbols \subseteq DOMAIN U[q].symbols
         /\ \A i \in DOMAIN T[q].symbols : U[q].symbols[i] = T[q].symbols[i]
  BY <1>2, <1>3, <1>4, Zenon
<1> QED BY <1>1, <1>5, <1>6, Zenon DEF Extends

(* A row stays that of a procedure of which only the code changed. *)
LEMMA RowKept ==
  ASSUME NEW r, NEW p, NEW q, RowOf(r, p), SameHead(p, q)
  PROVE  RowOf(r, q) /\ q.symbols = p.symbols
<1>1. q.symbols = p.symbols
  BY DEF SameHead
<1>2. RowOf(r, q)
  BY <1>1, Zenon DEF RowOf, SameHead
<1> QED BY <1>1, <1>2

(* The table when the innermost scope got more symbols. *)
LEMMA MatchRegrown ==
  ASSUME IInv, NEW T, Match(T), Level > 0, HeadsKept,
         NEW s, scopes' = [scopes EXCEPT ![Level] = s], s.proc = Top.proc, Even(s.local_top),
         Level' = Level, Open' = Open, scopes'[Level] = s,
         \A l \in 1..Level : l < Level => scopes'[l] = scopes[l],
         NEW U, Regrown(T, U, Current, s.symbols), Laid(U[Current]),
         Prefix(Top.symbols, s.symbols)
  PROVE  Match(U)' /\ Extends(T, U)
<1>1. /\ DOMAIN T = DOMAIN procs /\ DOMAIN T = 1..Len(procs) /\ Len(procs) \in Nat /\ Level \in Nat
      /\ Top = scopes[Level] /\ Current = Top.proc /\ Current \in DOMAIN T /\ Current \in Open
      /\ Level \in 1..Level
      /\ \A l \in 1..Level : scopes[l].proc \in DOMAIN T /\ ScopeOf(T, scopes, l)
  BY MatchFact
<1>2. /\ IsSeq(T) /\ Len(T) = Len(procs) /\ Enclosed(T)
      /\ \A p \in DOMAIN T : Laid(T[p]) /\ RowOf(T[p], procs[p])
      /\ \A p \in DOMAIN T : p \notin Open => T[p].symbols = procs[p].symbols
  BY DEF Match
<1>3. /\ IsSeq(U) /\ Len(U) = Len(T)
      /\ \A q \in DOMAIN T : q # Current => U[q] = T[q]
      /\ U[Current].outer = T[Current].outer /\ U[Current].level = T[Current].level
      /\ U[Current].far = T[Current].far
      /\ U[Current].args = T[Current].args /\ U[Current].n = T[Current].n
      /\ U[Current].symbols = s.symbols
  BY DEF Regrown
<1>4. T[Current].symbols = Top.symbols
  BY <1>1 DEF ScopeOf
<1>5. Extends(T, U)
  BY <1>1, <1>2, <1>4, RegrownExtends
<1>6. DOMAIN U = DOMAIN T
  BY <1>1, <1>2, <1>3, SeqFact
<1>7. Enclosed(U)
  <2>1. \A q \in DOMAIN T : U[q].outer = T[q].outer /\ U[q].level = T[q].level
    BY <1>3
  <2> QED BY <1>2, <1>6, <2>1 DEF Enclosed
<1>8. ASSUME NEW p \in DOMAIN T PROVE Laid(U[p]) /\ RowOf(U[p], procs[p])
  <2>1. CASE p # Current
    BY <1>2, <1>3, <2>1, Zenon
  <2>2. CASE p = Current
    <3>1. RowOf(T[Current], procs[Current])
      BY <1>1, <1>2
    <3> DEFINE q == procs[Current]
               t == T[Current].symbols
    <3>2. /\ Len(q.symbols) <= Len(t) /\ \A i \in 1..Len(q.symbols) : q.symbols[i] = t[i]
      BY <3>1 DEF RowOf
    <3>3. /\ IsSeq(t) /\ IsSeq(s.symbols) /\ Len(t) <= Len(s.symbols)
          /\ \A i \in 1..Len(t) : s.symbols[i] = t[i]
      BY <1>4 DEF Prefix
    <3>4. IsSeq(q.symbols)
      BY <1>1, Zenon DEF IInv, ProcsKnown
    <3> HIDE DEF q, t
    <3>5. Len(t) \in Nat /\ Len(q.symbols) \in Nat /\ Len(s.symbols) \in Nat
      BY <3>3, <3>4, SeqFact
    <3>6. Len(q.symbols) <= Len(s.symbols) /\ \A i \in 1..Len(q.symbols) : i \in 1..Len(t)
      BY <3>2, <3>3, <3>5
    <3>7. \A i \in 1..Len(q.symbols) : q.symbols[i] = s.symbols[i]
      BY <3>2, <3>3, <3>6, Zenon
    <3>8. RowOf(U[Current], q)
      BY <1>3, <3>1, <3>6, <3>7, Zenon DEF RowOf, q
    <3> QED BY <2>2, <3>8, Zenon DEF q
  <2> QED BY <2>1, <2>2
<1>9. ASSUME NEW p \in DOMAIN T
      PROVE  RowOf(U[p], procs'[p]) /\ (p \notin Open' => U[p].symbols = procs'[p].symbols)
  <2>1. RowOf(U[p], procs'[p]) /\ procs'[p].symbols = procs[p].symbols
    <3>1. SameHead(procs[p], procs'[p])
      BY <1>1 DEF HeadsKept
    <3> QED BY <1>8, <3>1, RowKept
  <2>2. p \notin Open' => p # Current /\ p \notin Open
    BY <1>1
  <2> QED BY <1>2, <1>3, <2>1, <2>2, Zenon
<1>10. ASSUME NEW l \in 1..Level' PROVE ScopeOf(U, scopes', l)
  <2>1. l \in 1..Level
    OBVIOUS
  <2>2. ScopeOf(T, scopes, l) /\ scopes[l].proc \in DOMAIN T
    BY <1>1, <2>1
  <2>3. l # 1 => scopes'[l-1].proc = scopes[l-1].proc
    <3>1. l # 1 => l - 1 \in 1..Level /\ l - 1 < Level
      BY <1>1, <2>1
    <3> QED BY <3>1
  <2>4. CASE l = Level
    <3>1. scopes'[l] = s /\ s.proc = Current /\ scopes[l].proc = Current
      BY <1>1, <2>4
    <3> QED BY <1>3, <2>2, <2>3, <3>1, Zenon DEF ScopeOf
  <2>5. CASE l # Level
    <3>1. l < Level
      BY <1>1, <2>1, <2>5
    <3>2. scopes'[l] = scopes[l]
      BY <2>1, <3>1
    <3>3. scopes[l].proc # Current
      <4>1. \A m \in 1..Level-1 : scopes[m].proc < scopes[Level].proc
        BY <1>1, Zenon DEF IInv, ScopesOpen
      <4>2. scopes[l].proc < Current
        <5>1. l \in 1..Level-1
          BY <1>1, <2>1, <3>1
        <5> QED BY <1>1, <4>1, <5>1
      <4>3. Current \in Int
        BY <1>1
      <4> QED BY <4>2, <4>3
    <3>4. U[scopes[l].proc] = T[scopes[l].proc]
      BY <1>3, <2>2, <3>3
    <3> QED BY <2>2, <2>3, <3>2, <3>4, Zenon DEF ScopeOf
  <2> QED BY <2>4, <2>5
<1>11. Match(U)'
  <2>1. IsSeq(U) /\ Len(U) = Len(procs')
    BY <1>2, <1>3 DEF HeadsKept
  <2>2. \A p \in DOMAIN U : Laid(U[p]) /\ RowOf(U[p], procs'[p])
    BY <1>6, <1>8, <1>9
  <2>3. \A p \in DOMAIN U : p \notin Open' => U[p].symbols = procs'[p].symbols
    BY <1>6, <1>9
  <2> QED BY <1>7, <1>10, <2>1, <2>2, <2>3, Zenon DEF Match
<1> QED BY <1>5, <1>11


(* What is known of a construct stays true when the code grows. *)
LEMMA NotedGrown ==
  ASSUME NEW level, NEW y, NEW z, NEW c, IsSeq(c), NEW P, NEW p, NEW s, Construct(c, p, s),
         Noted(level, y, c, P, s), Prefix(y, z), NEW d, NEW Q,
         \A t \in 1..Len(c)+1 : Clear(c, P, t) => Clear(d, Q, t)
  PROVE  Noted(level, z, d, Q, s)
<1>1. DOMAIN c = 1..Len(c) /\ Len(c) \in Nat
  BY SeqFact
<1>2. \A i \in DOMAIN y : i \in DOMAIN z /\ z[i] = y[i]
  <2>1. IsSeq(y) /\ IsSeq(z) /\ Len(y) <= Len(z) /\ \A i \in 1..Len(y) : z[i] = y[i]
    BY DEF Prefix
  <2>2. DOMAIN y = 1..Len(y) /\ Len(y) \in Nat /\ DOMAIN z = 1..Len(z) /\ Len(z) \in Nat
    BY <2>1, SeqFact
  <2> QED BY <2>1, <2>2
<1>3. ASSUME NEW t \in LoopTop(s) PROVE Clear(d, Q, t)
  <2>1. Within(c, p, p, t) /\ Clear(c, P, t)
    BY DEF Construct, Noted
  <2>2. t \in 1..Len(c)+1
    BY <1>1, <2>1 DEF Within
  <2> QED BY <2>1, <2>2
<1>4. s.k = "for" => Counter(level, z, s.var)
  <2>1. s.k = "for" => Counter(level, y, s.var)
    BY DEF Noted
  <2> QED BY <1>2, <2>1, Zenon DEF Counter
<1>5. s.k \in {"case", "arm"} => Selector(z, s.slot)
  <2>1. s.k \in {"case", "arm"} => Selector(y, s.slot)
    BY DEF Noted
  <2> QED BY <1>2, <2>1, Zenon DEF Selector
<1> QED BY <1>3, <1>4, <1>5, Zenon DEF Noted

(* A statement keeps the maps. *)
LEMMA BodyMap ==
  ASSUME IInv, InBody, NEW T, NEW P, SInv(T, P), HeadsKept,
         NEW s, scopes' = [scopes EXCEPT ![Level] = s], Restated(Top, s), Even(s.local_top),
         NEW U, Regrown(T, U, Current, s.symbols), Laid(U[Current]), Prefix(Top.symbols, s.symbols),
         NEW Q, Sound(U, code', Q, Skips), FramesEven',
         \A i \in DOMAIN s.nest : Noted(Level, s.symbols, code', Q, s.nest[i])
  PROVE  SInv(U, Q)'
<1>1. ScopesOpen /\ s.proc = Top.proc /\ s.begun = TRUE
  BY DEF IInv, Restated
<1>2. /\ Level \in Nat /\ Level > 0 /\ Level' = Level
      /\ \A l \in 1..Level : l < Level => scopes'[l] = scopes[l]
      /\ Top' = s /\ scopes'[Level] = s
      /\ Open' = Open /\ Skips' = Skips
  BY <1>1, TopReplaced
<1>3. Match(T)
  BY DEF SInv
<1>4. Match(U)'
  BY <1>1, <1>2, <1>3, MatchRegrown
<1>5. Nested(Q)'
  <2>1. Nest' = s.nest /\ Top.symbols' = s.symbols
    BY <1>2 DEF Nest
  <2> QED BY <1>2, <2>1, Zenon DEF Nested
<1> QED BY <1>2, <1>4, <1>5, Zenon DEF SInv

(* The constructs a statement is in are still open after it. *)
LEMMA OldNoted ==
  ASSUME IInv, InBody, NEW T, NEW P, SInv(T, P), NEW c, NEW Q, Charted(T, P, c, Q)
  PROVE  /\ \A i \in DOMAIN Nest : Noted(Level, Top.symbols, c, Q, Nest[i])
         /\ Prefix(Top.symbols, Top.symbols)
<1>1. IsSeq(code) /\ IsSeq(Nest) /\ \A i \in DOMAIN Nest : Construct(code, Current, Nest[i])
  BY BodyFact
<1>2. Prefix(Top.symbols, Top.symbols)
  <2>1. IsSeq(Top.symbols)
    <3>1. Level \in 1..Level /\ Top = scopes[Level]
      BY BodyFact
    <3>2. Holds(-scopes[Level].local_top, scopes[Level].symbols)
      BY <3>1 DEF IInv, FramesFit
    <3> QED BY <3>1, <3>2 DEF Holds
  <2> DEFINE s == Top.symbols
  <2> HIDE DEF s
  <2>2. IsSeq(s) => Prefix(s, s)
    <3>1. ASSUME IsSeq(s) PROVE Len(s) <= Len(s)
      BY <3>1, SeqFact
    <3> QED BY <3>1, Zenon DEF Prefix
  <2> QED BY <2>1, <2>2 DEF s
<1>3. ASSUME NEW i \in DOMAIN Nest PROVE Noted(Level, Top.symbols, c, Q, Nest[i])
  <2>1. Noted(Level, Top.symbols, code, P, Nest[i])
    BY DEF SInv, Nested
  <2>2. \A t \in 1..Len(code)+1 : Clear(code, P, t) => Clear(c, Q, t)
    BY DEF Charted
  <2>3. Construct(code, Current, Nest[i])
    BY <1>1
  <2> QED BY <1>1, <1>2, <2>1, <2>2, <2>3, NotedGrown
<1> QED BY <1>2, <1>3

(* A statement that allocates nothing. *)
LEMMA StatementMap ==
  ASSUME IInv, InBody, NEW T, NEW P, SInv(T, P), HeadsKept,
         NEW Q, Charted(T, P, code', Q),
         NEW s, scopes' = [scopes EXCEPT ![Level] = s], Restated(Top, s),
         s.local_top = Top.local_top, s.symbols = Top.symbols,
         \A i \in DOMAIN s.nest : Noted(Level, Top.symbols, code', Q, s.nest[i])
  PROVE  SInv(T, Q)'
<1>1. /\ DOMAIN scopes = 1..Level /\ Level \in 1..Level
      /\ Top = scopes[Level] /\ DOMAIN Top = ScopeFields /\ Top.begun = TRUE
      /\ Level \in Nat /\ Level > 0
  BY BodyFact
<1>2. scopes' = [scopes EXCEPT ![Level] = s]
  OBVIOUS
<1>3. s.local_top = Top.local_top /\ s.symbols = Top.symbols
  OBVIOUS
<1>4. Restated(Top, s)
  OBVIOUS
<1>5. Match(T)
  BY DEF SInv
<1>6. /\ Current \in DOMAIN T /\ ScopeOf(T, scopes, Level) /\ Current = Top.proc
      /\ IsSeq(T) /\ Laid(T[Current])
  <2>1. Current \in DOMAIN T /\ ScopeOf(T, scopes, Level) /\ Current = Top.proc
    BY <1>1, <1>5, MatchFact
  <2> QED BY <1>5, <2>1 DEF Match
<1>7. Even(s.local_top) /\ T[Current].symbols = s.symbols
  BY <1>1, <1>3, <1>6 DEF ScopeOf
<1>8. Regrown(T, T, Current, s.symbols)
  BY <1>6, <1>7, Zenon DEF Regrown
<1>9. Prefix(Top.symbols, s.symbols)
  <2>1. Prefix(Top.symbols, Top.symbols)
    BY OldNoted
  <2> QED BY <1>3, <2>1, Zenon
<1>10. \A i \in DOMAIN s.nest : Noted(Level, s.symbols, code', Q, s.nest[i])
  BY <1>3, Zenon
<1>11. FramesEven'
  <2>1. Grown(code, code', Current) /\ Quiet(code, code') /\ FramesKept(code, code')
    BY DEF Charted, Coded
  <2>2. /\ Len(code) \in Nat /\ Len(code') \in Nat
        /\ DOMAIN code = 1..Len(code) /\ DOMAIN code' = 1..Len(code')
        /\ \A a \in DOMAIN code : SameIns(code[a], code'[a])
    BY <2>1, GrownFact
  <2>3. ASSUME NEW a \in DOMAIN code', code'[a].op = "prologue" PROVE Even(code'[a].size)
    <3>1. CASE a \in DOMAIN code
      <4>1. code[a].op = "prologue"
        BY <2>2, <2>3, <3>1 DEF SameIns
      <4>2. Even(code[a].size) /\ code'[a].size = code[a].size
        BY <2>1, <2>2, <3>1, <4>1 DEF SInv, FramesEven, FramesKept, FrameKept
      <4> QED BY <4>2
    <3>2. CASE a \notin DOMAIN code
      <4>1. a \in Len(code)+1..Len(code')
        BY <2>2, <3>2
      <4> QED BY <2>1, <2>3, <4>1 DEF Quiet
    <3> QED BY <3>1, <3>2
  <2> QED BY <2>3 DEF FramesEven
<1>12. Sound(T, code', Q, Skips)
  BY DEF Charted
<1> QED BY <1>2, <1>4, <1>6, <1>7, <1>8, <1>9, <1>10, <1>11, <1>12, BodyMap


(* A statement that leaves the open constructs alone. *)
LEMMA PlainMap ==
  ASSUME IInv, InBody, NEW T, NEW P, SInv(T, P), HeadsKept,
         NEW Q, Charted(T, P, code', Q), UNCHANGED scopes
  PROVE  SInv(T, Q)'
<1>1. /\ DOMAIN scopes = 1..Level /\ Level \in 1..Level
      /\ Top = scopes[Level] /\ DOMAIN Top = ScopeFields /\ Top.begun = TRUE
  BY BodyFact
<1>2. IsSeq(scopes)
  BY Zenon DEF IInv, ScopesOpen
<1>3. scopes' = [scopes EXCEPT ![Level] = Top]
  <2>1. scopes = [l \in 1..Level |-> scopes[l]]
    BY <1>2, SeqFact DEF Level
  <2> QED BY <1>1, <2>1
<1>4. Restated(Top, Top)
  BY <1>1 DEF Restated
<1>5. \A i \in DOMAIN Top.nest : Noted(Level, Top.symbols, code', Q, Top.nest[i])
  BY OldNoted DEF Nest
<1> QED BY <1>3, <1>4, <1>5, StatementMap

(* Statements that turn the open constructs into n. *)
LEMMA NestMap ==
  ASSUME IInv, InBody, NEW T, NEW P, SInv(T, P), HeadsKept,
         NEW Q, Charted(T, P, code', Q),
         NEW n, scopes' = [scopes EXCEPT ![Level].nest = n],
         \A i \in DOMAIN n : Noted(Level, Top.symbols, code', Q, n[i])
  PROVE  SInv(T, Q)'
<1> DEFINE s == [Top EXCEPT !.nest = n]
<1>1. /\ DOMAIN scopes = 1..Level /\ Level \in 1..Level
      /\ Top = scopes[Level] /\ DOMAIN Top = ScopeFields /\ Top.begun = TRUE
  BY BodyFact
<1>2. scopes' = [scopes EXCEPT ![Level] = s]
  BY <1>1
<1>3. /\ DOMAIN s = ScopeFields /\ s.proc = Top.proc /\ s.begun = TRUE
      /\ s.skip_nested = Top.skip_nested /\ s.saved_ret = Top.saved_ret
      /\ s.nest = n /\ s.local_top = Top.local_top /\ s.symbols = Top.symbols
  BY <1>1 DEF ScopeFields
<1> HIDE DEF s
<1>4. Restated(Top, s)
  BY <1>3 DEF Restated
<1>5. \A i \in DOMAIN s.nest : Noted(Level, Top.symbols, code', Q, s.nest[i])
  BY <1>3, Zenon
<1> QED BY <1>2, <1>3, <1>4, <1>5, StatementMap

(* A statement that opens a construct. *)
LEMMA EncloseMap ==
  ASSUME IInv, InBody, NEW T, NEW P, SInv(T, P), HeadsKept,
         NEW Q, Charted(T, P, code', Q),
         NEW s, Enclose(s), Noted(Level, Top.symbols, code', Q, s)
  PROVE  SInv(T, Q)'
<1> DEFINE n == Append(Nest, s)
<1>1. IsSeq(Nest) /\ Level \in 1..Level /\ DOMAIN scopes = 1..Level /\ Top = scopes[Level]
  BY BodyFact
<1>2. scopes' = [scopes EXCEPT ![Level].nest = n]
  BY <1>1 DEF Enclose, Nest
<1>3. /\ DOMAIN n = 1..Len(Nest)+1 /\ DOMAIN Nest = 1..Len(Nest) /\ Len(Nest) \in Nat
      /\ \A i \in 1..Len(Nest) : n[i] = Nest[i]
      /\ n[Len(Nest) + 1] = s
  BY <1>1, AppendFact, SeqFact
<1> HIDE DEF n
<1>4. \A i \in DOMAIN n : Noted(Level, Top.symbols, code', Q, n[i])
  <2>1. \A i \in DOMAIN n : i \in 1..Len(Nest) \/ i = Len(Nest) + 1
    BY <1>3
  <2>2. \A i \in DOMAIN Nest : Noted(Level, Top.symbols, code', Q, Nest[i])
    BY OldNoted
  <2> QED BY <1>3, <2>1, <2>2, Zenon
<1> QED BY <1>2, <1>4, NestMap

(* A statement by which the innermost construct becomes another one. *)
LEMMA BecomeMap ==
  ASSUME IInv, InBody, Nest # <<>>, NEW T, NEW P, SInv(T, P), HeadsKept,
         NEW Q, Charted(T, P, code', Q),
         NEW s, Become(s), Noted(Level, Top.symbols, code', Q, s)
  PROVE  SInv(T, Q)'
<1> DEFINE n == [Nest EXCEPT ![Len(Nest)] = s]
<1>1. IsSeq(Nest) /\ Level \in 1..Level /\ DOMAIN scopes = 1..Level /\ Top = scopes[Level]
  BY BodyFact
<1>2. scopes' = [scopes EXCEPT ![Level].nest = n]
  BY <1>1 DEF Become, Nest
<1>3. Len(Nest) > 0 /\ Len(Nest) \in Nat /\ DOMAIN Nest = 1..Len(Nest)
  BY <1>1, FrontFact, SeqFact
<1>4. /\ DOMAIN n = 1..Len(Nest)
      /\ \A i \in 1..Len(Nest) : i < Len(Nest) => n[i] = Nest[i]
      /\ n[Len(Nest)] = s
  BY <1>1, <1>3, LastFact, SeqFact
<1> HIDE DEF n
<1>5. \A i \in DOMAIN n : Noted(Level, Top.symbols, code', Q, n[i])
  <2>1. \A i \in DOMAIN Nest : Noted(Level, Top.symbols, code', Q, Nest[i])
    BY OldNoted
  <2>2. \A i \in DOMAIN n : i < Len(Nest) \/ i = Len(Nest)
    BY <1>3, <1>4
  <2> QED BY <1>3, <1>4, <2>1, <2>2, Zenon
<1> QED BY <1>2, <1>5, NestMap

(* A statement that ends the innermost construct. *)
LEMMA LeaveMap ==
  ASSUME IInv, InBody, Nest # <<>>, NEW T, NEW P, SInv(T, P), HeadsKept,
         NEW Q, Charted(T, P, code', Q), Leave
  PROVE  SInv(T, Q)'
<1> DEFINE n == SubSeq(Nest, 1, Len(Nest) - 1)
<1>1. IsSeq(Nest) /\ Level \in 1..Level /\ DOMAIN scopes = 1..Level /\ Top = scopes[Level]
  BY BodyFact
<1>2. scopes' = [scopes EXCEPT ![Level].nest = n]
  BY <1>1 DEF Leave, Nest
<1>3. /\ Len(Nest) > 0 /\ Len(Nest) \in Nat /\ DOMAIN Nest = 1..Len(Nest)
      /\ DOMAIN n = 1..Len(Nest)-1
      /\ \A i \in 1..Len(Nest)-1 : n[i] = Nest[i]
  BY <1>1, FrontFact, SeqFact
<1> HIDE DEF n
<1>4. \A i \in DOMAIN n : Noted(Level, Top.symbols, code', Q, n[i])
  <2>1. \A i \in 1..Len(Nest)-1 : i \in 1..Len(Nest)
    BY <1>3
  <2>2. \A i \in DOMAIN Nest : Noted(Level, Top.symbols, code', Q, Nest[i])
    BY OldNoted
  <2> QED BY <1>3, <2>1, <2>2, Zenon
<1> QED BY <1>2, <1>4, NestMap

(* The construct a statement is in. *)
LEMMA InnerNoted ==
  ASSUME IInv, InBody, Nest # <<>>, NEW T, NEW P, SInv(T, P)
  PROVE  /\ Construct(code, Current, Inner) /\ Noted(Level, Top.symbols, code, P, Inner)
         /\ \A t \in LoopTop(Inner) : t \in 1..Len(code)+1
<1>1. IsSeq(Nest) /\ Len(code) \in Nat /\ DOMAIN code = 1..Len(code)
  BY BodyFact
<1>2. Len(Nest) \in DOMAIN Nest
  BY <1>1, FrontFact, SeqFact
<1>3. Construct(code, Current, Inner)
  BY InnerFact
<1>4. Noted(Level, Top.symbols, code, P, Inner)
  BY <1>2 DEF SInv, Nested, Inner
<1>5. ASSUME NEW t \in LoopTop(Inner) PROVE t \in 1..Len(code)+1
  <2>1. Within(code, Current, Current, t)
    BY <1>3 DEF Construct
  <2> QED BY <1>1, <2>1 DEF Within
<1> QED BY <1>3, <1>4, <1>5

(* Constructs without a loop, a counter and a selector. *)
LEMMA NoteFact ==
  ASSUME NEW level, NEW y, NEW c, NEW P, NEW jf, NEW ends
  PROVE  /\ Noted(level, y, c, P, [k |-> "if", jf |-> jf, ends |-> ends])
         /\ Noted(level, y, c, P, [k |-> "else", ends |-> ends])
         /\ Noted(level, y, c, P, [k |-> "case else", ends |-> ends])
         /\ \A top : Clear(c, P, top) =>
               /\ Noted(level, y, c, P, [k |-> "while", top |-> top, jf |-> jf])
               /\ Noted(level, y, c, P, [k |-> "repeat", top |-> top])
<1>1. /\ Noted(level, y, c, P, [k |-> "if", jf |-> jf, ends |-> ends])
      /\ Noted(level, y, c, P, [k |-> "else", ends |-> ends])
      /\ Noted(level, y, c, P, [k |-> "case else", ends |-> ends])
  BY DEF Noted, LoopTop
<1>2. ASSUME NEW top, Clear(c, P, top)
      PROVE  /\ Noted(level, y, c, P, [k |-> "while", top |-> top, jf |-> jf])
             /\ Noted(level, y, c, P, [k |-> "repeat", top |-> top])
  BY <1>2 DEF Noted, LoopTop
<1> QED BY <1>1, <1>2


-----------------------------------------------------------------------------
(* What the parser emits is fine *)

(* The operation that an instruction stands for. *)
LEMMA SourceFact ==
  /\ Source["load"] = "read" /\ Source["store"] = "write"
  /\ \A op \in Places : Source[op] = "pass place"
  /\ Source["const"] = "compute" /\ Source["restore"] = "compute"
  /\ Source["push"] = "pass value" /\ Source["call"] = "call"
  /\ Source["prologue"] = "enter" /\ Source["ret"] = "leave"
  /\ \A op \in {"jmp", "jz", "save", "push link"} : Source[op] = "none"
  /\ DOMAIN Source = Accesses \cup Plains \cup {"call", "prologue", "ret"}
BY DEF Source, Accesses, Places, Plains

(* Branches are fine. *)
LEMMA JumpFine ==
  ASSUME NEW T, Current \in DOMAIN T, NEW op \in Jumps, NEW to
  PROVE  /\ Fine(T, BranchTo(op, to)) /\ BranchTo(op, to).op = op /\ BranchTo(op, to).to = to
         /\ Fine(T, Branch(op, to)) /\ Branch(op, to).op = op /\ Branch(op, to).to = to + 1
<1>1. op = "jmp" \/ op = "jz"
  BY DEF Jumps
<1>2. op \in DOMAIN Source /\ Source[op] = "none" /\ op \notin Accesses \cup Places
      /\ op \notin {"call", "prologue", "ret"}
  BY <1>1, SourceFact DEF Plains, Accesses, Places
<1>3. ASSUME NEW at
      PROVE LET i == [op |-> op, of |-> Current, src |-> None, to |-> at]
            IN  Fine(T, i) /\ i.op = op /\ i.to = at
  <2> DEFINE i == [op |-> op, of |-> Current, src |-> None, to |-> at]
  <2>1. i.op = op /\ i.of = Current /\ i.src.k = "none" /\ i.to = at
    BY DEF None
  <2> HIDE DEF i
  <2>2. Fine(T, i)
    BY <1>2, <2>1 DEF Fine, Places
  <2> QED BY <2>1, <2>2 DEF i
<1> QED BY <1>3 DEF Branch, BranchTo

(* Instructions without an operand are fine. *)
LEMMA PlainFine ==
  ASSUME NEW T, Current \in DOMAIN T
  PROVE  /\ Fine(T, Const) /\ Const.op = "const"
         /\ Fine(T, Ins("push", [k |-> "pass value"]))
         /\ Fine(T, Ins("save", None))
         /\ Fine(T, Ins("restore", [k |-> "compute"]))
<1>1. ASSUME NEW op \in Plains, NEW src, src.k = Source[op]
      PROVE  Fine(T, Ins(op, src)) /\ Ins(op, src).op = op
  <2> DEFINE i == Ins(op, src)
  <2>1. i.op = op /\ i.of = Current /\ i.src = src
    BY DEF Ins
  <2>2. op \in DOMAIN Source /\ op \notin Accesses \cup Places
        /\ op \notin {"call", "prologue", "ret"}
    BY SourceFact DEF Plains, Accesses, Places
  <2> HIDE DEF i
  <2>3. Fine(T, i)
    BY <1>1, <2>1, <2>2 DEF Fine, Places
  <2> QED BY <2>1, <2>3 DEF i
<1>2. /\ [k |-> "compute"].k = "compute" /\ [k |-> "pass value"].k = "pass value"
      /\ None.k = "none" /\ "const" \in Plains /\ "push" \in Plains /\ "save" \in Plains
      /\ "restore" \in Plains
  BY DEF None, Plains
<1>3. /\ Source["const"] = "compute" /\ Source["restore"] = "compute"
      /\ Source["push"] = "pass value" /\ Source["save"] = "none"
  BY SourceFact
<1>4. Const = Ins("const", [k |-> "compute"])
  BY DEF Const
<1> QED BY <1>1, <1>2, <1>3, <1>4, Zenon

(* An access is fine that has an item for what it names. *)
LEMMA AccessFine ==
  ASSUME NEW T, Current \in DOMAIN T, NEW op, NEW k, NEW item, NEW name,
         LocalItem(T, item, name, Current) \/ GlobalItem(item, name),
         \/ op = "load" /\ k = "read"
         \/ op = "store" /\ k = "write"
         \/ k = "pass place" /\ \/ op = "copy slot" /\ item.mode = "local" /\ item.ref
                                \/ op = "stack address" /\ item.mode = "local" /\ ~item.ref
                                \/ op = "data address" /\ item.mode = "global"
  PROVE  Fine(T, Access(op, k, item, name)) /\ Access(op, k, item, name).op = op
<1> DEFINE i == Access(op, k, item, name)
<1>1. i.op = op /\ i.of = Current /\ i.src.k = k /\ i.src.d = name /\ i.item = item
  BY DEF Access
<1>2. op \in DOMAIN Source /\ k = Source[op] /\ op \notin {"call", "prologue", "ret"}
  BY SourceFact DEF Accesses, Places
<1> HIDE DEF i
<1>3. Fine(T, i)
  BY <1>1, <1>2 DEF Fine
<1> QED BY <1>1, <1>3 DEF i

(* So are a load and a store. *)
LEMMA LoadFine ==
  ASSUME NEW T, Current \in DOMAIN T, NEW item, NEW name,
         LocalItem(T, item, name, Current) \/ GlobalItem(item, name)
  PROVE  /\ Fine(T, Access("load", "read", item, name))
         /\ Access("load", "read", item, name).op = "load"
         /\ Fine(T, Access("store", "write", item, name))
         /\ Access("store", "write", item, name).op = "store"
<1>1. Fine(T, Access("load", "read", item, name)) /\ Access("load", "read", item, name).op = "load"
  BY AccessFine
<1>2. Fine(T, Access("store", "write", item, name)) /\ Access("store", "write", item, name).op = "store"
  BY AccessFine
<1> QED BY <1>1, <1>2

(* The hidden variable of the frame is named by its item. *)
LEMMA HiddenFact ==
  ASSUME NEW T, Current \in DOMAIN T, NEW scope, scope.symbols = T[Current].symbols,
         NEW slot, Selector(scope.symbols, slot)
  PROVE  LocalItem(T, HiddenItem(scope, slot), HiddenName(slot), Current)
<1> DEFINE it == HiddenItem(scope, slot)
           d == HiddenName(slot)
<1>1. it.mode = "local" /\ it.adr = scope.symbols[slot].adr /\ it.ref = FALSE /\ it.hops = 0
  BY DEF HiddenItem
<1>2. d.proc = Current /\ d.slot = slot /\ d.ref = FALSE
  BY DEF HiddenName
<1> HIDE DEF it, d
<1>3. Chain(T, Current, 0, Current)
  <2> DEFINE ch == [i \in {0} |-> Current]
  <2>1. ch[0] = Current /\ 0..0-1 = {}
    OBVIOUS
  <2> HIDE DEF ch
  <2> QED BY <2>1 DEF Chain
<1>4. slot \in DOMAIN T[Current].symbols /\ T[Current].symbols[slot].kind # "varparam"
  BY DEF Selector
<1>5. it.adr = T[Current].symbols[slot].adr
  BY <1>1
<1>6. d.proc \in DOMAIN T /\ d.slot \in DOMAIN T[d.proc].symbols
      /\ it.adr = T[d.proc].symbols[d.slot].adr
      /\ ~ (T[d.proc].symbols[d.slot].kind = "varparam")
  BY <1>2, <1>4, <1>5
<1>7. Chain(T, Current, it.hops, d.proc) /\ it.hops \in Nat
  BY <1>1, <1>2, <1>3
<1>8. ~ it.ref /\ it.ref = d.ref /\ it.ref = (T[d.proc].symbols[d.slot].kind = "varparam")
  <2>1. it.ref = FALSE /\ d.ref = FALSE /\ (T[d.proc].symbols[d.slot].kind = "varparam") = FALSE
    BY <1>1, <1>2, <1>6
  <2> QED BY <2>1
<1>9. LocalItem(T, it, d, Current)
  BY <1>1, <1>6, <1>7, <1>8, Zenon DEF LocalItem
<1> QED BY <1>9 DEF it, d

-----------------------------------------------------------------------------
(* The statements keep the maps *)

(* The state and the maps in a body. *)
LEMMA MappedBody ==
  ASSUME IInv, InBody, NEW T, NEW P, SInv(T, P)
  PROVE  /\ Match(T) /\ Current \in DOMAIN T /\ Current # 0 /\ Level > 0
         /\ T[Current].symbols = Top.symbols /\ Laid(T[Current])
         /\ Charted(T, P, code, P)
         /\ IsSeq(code) /\ Len(code) \in Nat /\ DOMAIN code = 1..Len(code) /\ Pc = Len(code) + 1
<1>1. /\ Current # 0 /\ Level \in Nat /\ Level > 0 /\ IsSeq(code) /\ Len(code) \in Nat
      /\ DOMAIN code = 1..Len(code) /\ Top = scopes[Level] /\ Level \in 1..Level
  BY BodyFact
<1>2. Match(T)
  BY DEF SInv
<1>3. Current \in DOMAIN T /\ Current = Top.proc /\ ScopeOf(T, scopes, Level)
  BY <1>1, <1>2, MatchFact
<1>4. T[Current].symbols = Top.symbols
  BY <1>1, <1>3 DEF ScopeOf
<1>5. Laid(T[Current])
  BY <1>2, <1>3 DEF Match
<1>6. Charted(T, P, code, P)
  BY ChartSelf
<1> QED BY <1>1, <1>2, <1>3, <1>4, <1>5, <1>6 DEF Pc

(* The symbols of the procedures stay. *)
LEMMA HeadsSame ==
  ASSUME IInv, UNCHANGED procs
  PROVE  HeadsKept
<1>1. IsSeq(procs)
  BY DEF IInv, ProcsKnown
<1> QED BY <1>1 DEF HeadsKept, SameHead

(* Reading and writing a variable that can be seen. *)
LEMMA VisibleFlat ==
  ASSUME IInv, InBody, Liberties = {}, NEW T, NEW P, SInv(T, P), NEW d \in Visible, Usable(d),
         NEW c, NEW Q
  PROVE  /\ Flat(T, c, Q, Load(d)) /\ Flat(T, c, Q, Store(d)) /\ Flat(T, c, Q, Const)
         /\ Straight(Load(d), Current) /\ Straight(Store(d), Current) /\ Straight(Const, Current)
<1>1. Match(T) /\ Current \in DOMAIN T /\ Level > 0
  BY MappedBody
<1>2. LocalItem(T, Item(d), Name(d), Current) \/ GlobalItem(Item(d), Name(d))
  BY <1>1, ItemFact
<1>3. Fine(T, Load(d)) /\ Load(d).op = "load"
  BY <1>1, <1>2, AccessFine DEF Load
<1>4. Fine(T, Store(d)) /\ Store(d).op = "store"
  BY <1>1, <1>2, AccessFine DEF Store
<1>5. Fine(T, Const) /\ Const.op = "const"
  BY <1>1, PlainFine
<1>6. Straight(Load(d), Current) /\ Straight(Const, Current) /\ Straight(Store(d), Current)
  BY StraightFact DEF Load, Store, Const
<1> QED BY <1>3, <1>4, <1>5, <1>6 DEF Flat, Flats, Jumps

(* A branch at the end of the code. *)
LEMMA ChartJump ==
  ASSUME NEW T, NEW P, NEW c, NEW Q, Charted(T, P, c, Q), Current # 0, Current \in DOMAIN T,
         NEW op \in Jumps, NEW to,
         \/ to \in {Len(c) + 1, Len(c) + 2}
         \/ Within(c, Current, Current, to) /\ Clear(c, Q, to)
  PROVE  \E R : /\ Charted(T, P, Append(c, BranchTo(op, to)), R)
                /\ \A t \in 1..Len(c)+1 : Clear(c, Q, t) => Clear(Append(c, BranchTo(op, to)), R, t)
<1> DEFINE i == BranchTo(op, to)
           e == <<i>>
<1>1. IsSeq(c) /\ Len(c) \in Nat /\ DOMAIN c = 1..Len(c)
  BY ChartFact
<1>2. IsSeq(e) /\ Len(e) = 1 /\ e[1] = i /\ \A n \in 1..1 : n = 1
  BY SingleFact
<1>3. Append(c, i) = c \o e
  BY <1>1 DEF IsSeq
<1>4. JumpIn(i, Current) /\ i.to = to /\ i.op = op /\ Fine(T, i)
  BY JumpFact, JumpFine
<1> HIDE DEF i, e
<1>5. Clear(c, Q, to)
  BY <1>1 DEF Clear
<1>6. Chunk(c, e, Current)
  <2>1. to \in Len(c)+1..Len(c)+1+1 \/ Within(c, Current, Current, to)
    BY <1>1
  <2>2. Len(e) > 0
    BY <1>2
  <2> QED BY <1>2, <1>4, <2>1, <2>2, Zenon DEF Chunk
<1>7. Flat(T, c, Q, i)
  BY <1>4, <1>5 DEF Flat, Flats, Jumps
<1>8. \A n \in 1..Len(e) : Flat(T, c, Q, e[n])
  BY <1>2, <1>7
<1>9. PICK R : /\ Charted(T, P, c \o e, R)
               /\ \A t \in 1..Len(c)+1 : Clear(c, Q, t) => Clear(c \o e, R, t)
  BY <1>6, <1>8, ChartFlat
<1>10. /\ Charted(T, P, Append(c, i), R)
       /\ \A t \in 1..Len(c)+1 : Clear(c, Q, t) => Clear(Append(c, i), R, t)
  BY <1>3, <1>9
<1> QED BY <1>10 DEF i

(* Holes are patched with the end of the code. *)
LEMMA ChartEnd ==
  ASSUME NEW T, NEW P, NEW c, NEW Q, Charted(T, P, c, Q), Current # 0,
         NEW holes, holes \subseteq JumpsOf(c, Current)
  PROVE  Charted(T, P, Patch(c, holes, Len(c) + 1), Q)
<1>1. IsSeq(c) /\ Len(c) \in Nat /\ DOMAIN c = 1..Len(c) /\ Clear(c, Q, Len(c) + 1)
  BY ChartFact
<1>2. Within(c, Current, Current, Len(c) + 1)
  BY DEF Within
<1> QED BY <1>1, <1>2, ChartPatch


(* An assignment. *)
LEMMA AssignMap ==
  ASSUME IInv, Liberties = {}, NEW T, NEW P, SInv(T, P), NEW d \in Visible, Assign(d)
  PROVE  \E Q : SInv(T, Q)'
<1> DEFINE e == <<Load(d), Const, Store(d)>>
<1>1. InBody /\ UNCHANGED <<procs, scopes>> /\ code' = code \o e /\ Usable(d)
  BY StatementFact DEF Assign, Emitting
<1>2. Charted(T, P, code, P) /\ Current # 0
  BY <1>1, MappedBody
<1>3. /\ Flat(T, code, P, Load(d)) /\ Flat(T, code, P, Store(d)) /\ Flat(T, code, P, Const)
      /\ Straight(Load(d), Current) /\ Straight(Store(d), Current) /\ Straight(Const, Current)
  BY <1>1, VisibleFlat
<1>4. /\ IsSeq(e) /\ Len(e) = 3 /\ e[1] = Load(d) /\ e[2] = Const /\ e[3] = Store(d)
      /\ \A n \in 1..3 : n = 1 \/ n = 2 \/ n = 3
  BY TripleFact
<1> HIDE DEF e
<1>5. Chunk(code, e, Current) /\ \A n \in 1..Len(e) : Flat(T, code, P, e[n])
  <2>1. Len(e) > 0
    BY <1>4
  <2> QED BY <1>3, <1>4, <2>1, Zenon DEF Chunk
<1>6. PICK Q : Charted(T, P, code', Q)
  BY <1>1, <1>2, <1>5, ChartFlat
<1>7. HeadsKept
  BY <1>1, HeadsSame
<1> QED BY <1>1, <1>6, <1>7, PlainMap

(* RETURN. *)
LEMMA ReturnMap ==
  ASSUME IInv, NEW T, NEW P, SInv(T, P), Return
  PROVE  \E Q : SInv(T, Q)'
<1>1. InBody /\ UNCHANGED <<procs, scopes>> /\ code' = Append(code, BranchTo("jmp", Len(code) + 2))
  <2>1. InBody /\ UNCHANGED <<procs, scopes>> /\ code' = Append(code, Branch("jmp", Pc))
    BY StatementFact DEF Return
  <2>2. Pc = Len(code) + 1 /\ Len(code) \in Nat
    BY <2>1, CodedSelf
  <2>3. Pc + 1 = Len(code) + 2
    BY <2>2
  <2> QED BY <2>1, <2>3 DEF Branch, BranchTo
<1>2. Charted(T, P, code, P) /\ Current # 0 /\ Current \in DOMAIN T
  BY <1>1, MappedBody
<1>3. PICK Q : Charted(T, P, code', Q)
  BY <1>1, <1>2, ChartJump DEF Jumps
<1>4. HeadsKept
  BY <1>1, HeadsSame
<1> QED BY <1>1, <1>3, <1>4, PlainMap

(* IF, WHILE and REPEAT. *)
LEMMA OpenMap ==
  ASSUME IInv, NEW T, NEW P, SInv(T, P), If \/ While \/ Repeat
  PROVE  \E Q : SInv(T, Q)'
<1>1. /\ InBody /\ UNCHANGED procs
      /\ \/ /\ code' = Append(code, Branch("jz", Pc))
            /\ \/ Enclose([k |-> "if", jf |-> Pc, ends |-> {}])
               \/ Enclose([k |-> "while", top |-> Pc, jf |-> Pc])
         \/ code' = code /\ Enclose([k |-> "repeat", top |-> Pc])
  BY StatementFact DEF If, While, Repeat, Emitting
<1>2. Charted(T, P, code, P) /\ Current # 0 /\ Current \in DOMAIN T
      /\ Len(code) \in Nat /\ Pc = Len(code) + 1
  BY <1>1, MappedBody
<1>3. HeadsKept
  BY <1>1, HeadsSame
<1>4. Clear(code, P, Pc)
  BY <1>2, ChartFact
<1>5. CASE code' = Append(code, Branch("jz", Pc))
  <2>1. code' = Append(code, BranchTo("jz", Len(code) + 2))
    <3>1. Pc + 1 = Len(code) + 2
      BY <1>2
    <3> QED BY <1>5, <3>1 DEF Branch, BranchTo
  <2>2. PICK Q : /\ Charted(T, P, code', Q)
                 /\ \A t \in 1..Len(code)+1 : Clear(code, P, t) => Clear(code', Q, t)
    BY <1>2, <2>1, ChartJump DEF Jumps
  <2>3. Clear(code', Q, Pc)
    BY <1>2, <1>4, <2>2
  <2>4. CASE Enclose([k |-> "if", jf |-> Pc, ends |-> {}])
    <3>1. Noted(Level, Top.symbols, code', Q, [k |-> "if", jf |-> Pc, ends |-> {}])
      BY NoteFact
    <3> QED BY <1>1, <1>3, <2>2, <2>4, <3>1, EncloseMap
  <2>5. CASE Enclose([k |-> "while", top |-> Pc, jf |-> Pc])
    <3>1. Noted(Level, Top.symbols, code', Q, [k |-> "while", top |-> Pc, jf |-> Pc])
      BY <2>3, NoteFact
    <3> QED BY <1>1, <1>3, <2>2, <2>5, <3>1, EncloseMap
  <2>6. CASE code' = code /\ Enclose([k |-> "repeat", top |-> Pc])
    <3>1. Noted(Level, Top.symbols, code', P, [k |-> "repeat", top |-> Pc])
      BY <1>4, <2>6, NoteFact
    <3> QED BY <1>1, <1>2, <1>3, <2>6, <3>1, EncloseMap
  <2> QED BY <1>1, <2>4, <2>5, <2>6
<1>6. CASE code' = code /\ Enclose([k |-> "repeat", top |-> Pc])
  <2>1. Noted(Level, Top.symbols, code', P, [k |-> "repeat", top |-> Pc])
    BY <1>4, <1>6, NoteFact
  <2> QED BY <1>1, <1>2, <1>3, <1>6, <2>1, EncloseMap
<1> QED BY <1>1, <1>5, <1>6

(* The end of an arm. *)
LEMMA EndArmMap ==
  ASSUME IInv, InBody, NEW T, NEW P, SInv(T, P), NEW hole \in JumpsOf(code, Current)
  PROVE  /\ \E Q : Charted(T, P, EndArm(hole), Q)
         /\ Len(EndArm(hole)) = Len(code) + 1
<1> DEFINE c == Append(code, BranchTo("jmp", Len(code) + 2))
<1>1. /\ Charted(T, P, code, P) /\ Current # 0 /\ Current \in DOMAIN T
      /\ Len(code) \in Nat /\ Pc = Len(code) + 1 /\ IsSeq(code)
  BY MappedBody
<1>2. EndArm(hole) = Patch(c, {hole}, Len(code) + 2)
  <2>1. Pc + 1 = Len(code) + 2
    BY <1>1
  <2> QED BY <2>1 DEF EndArm, Branch, BranchTo
<1>3. Len(c) = Len(code) + 1
  BY <1>1, AppendFact
<1>4. PICK Q : Charted(T, P, c, Q)
  BY <1>1, ChartJump DEF Jumps
<1> HIDE DEF c
<1>5. {hole} \subseteq JumpsOf(c, Current)
  <2>1. Grown(code, c, Current)
    BY <1>4 DEF Charted, Coded
  <2> QED BY <2>1, JumpsGrown
<1>6. Len(code) + 2 = Len(c) + 1
  BY <1>1, <1>3
<1>7. Charted(T, P, EndArm(hole), Q)
  BY <1>1, <1>2, <1>4, <1>5, <1>6, ChartEnd
<1>8. Len(EndArm(hole)) = Len(c)
  <2>1. IsSeq(c) /\ Len(c) \in Nat /\ DOMAIN c = 1..Len(c)
    BY <1>4, ChartFact
  <2> DEFINE d == EndArm(hole)
  <2>2. d = [n \in 1..Len(c) |-> d[n]]
    BY <1>2, <2>1 DEF Patch
  <2> HIDE DEF d
  <2>3. Len(d) = Len(c)
    BY <2>1, <2>2, MadeSeq
  <2> QED BY <2>3 DEF d
<1> QED BY <1>3, <1>7, <1>8


(* ELSIF, ELSE and the END of an IF. *)
LEMMA IfMap ==
  ASSUME IInv, NEW T, NEW P, SInv(T, P), Elsif \/ Else \/ EndIf
  PROVE  \E Q : SInv(T, Q)'
<1>1. InBody /\ UNCHANGED procs /\ Nest # <<>>
  BY StatementFact DEF Elsif, Else, EndIf, InNest, Emitting
<1>2. HeadsKept
  BY <1>1, HeadsSame
<1>3. /\ Charted(T, P, code, P) /\ Current # 0 /\ Current \in DOMAIN T
      /\ Len(code) \in Nat /\ Pc = Len(code) + 1 /\ IsSeq(code)
  BY <1>1, MappedBody
<1>4. CASE Elsif
  <2> DEFINE i == Branch("jmp", Pc)
             j == Branch("jz", Pc + 1)
             e == <<i, j>>
             c == code \o e
             s == [k |-> "if", jf |-> Pc + 1, ends |-> Inner.ends \cup {Pc}]
  <2>1. Inner.k = "if" /\ code' = Patch(c, {Inner.jf}, Pc + 1) /\ Become(s)
    BY <1>4 DEF Elsif, InNest
  <2>2. Inner.jf \in JumpsOf(code, Current)
    BY <1>1, <2>1, InnerFact, HolesFact, Zenon
  <2>3. /\ JumpIn(i, Current) /\ i.to = Pc + 1 /\ i.op = "jmp" /\ Fine(T, i)
        /\ JumpIn(j, Current) /\ j.to = Pc + 1 + 1 /\ j.op = "jz" /\ Fine(T, j)
    BY <1>3, JumpFact, JumpFine DEF Jumps
  <2> HIDE DEF i, j
  <2>4. IsSeq(e) /\ Len(e) = 2 /\ e[1] = i /\ e[2] = j /\ \A n \in 1..2 : n = 1 \/ n = 2
    BY PairFact
  <2> HIDE DEF e
  <2>5. Chunk(code, e, Current)
    <3>1. i.to \in Len(code)+1..Len(code)+2+1 /\ j.to \in Len(code)+1..Len(code)+2+1
      BY <1>3, <2>3
    <3>2. Len(e) > 0
      BY <2>4
    <3> QED BY <2>3, <2>4, <3>1, <3>2, Zenon DEF Chunk
  <2>6. \A n \in 1..Len(e) : Flat(T, code, P, e[n])
    <3>1. Clear(code, P, Pc + 1) /\ Clear(code, P, Pc + 1 + 1)
      <4>1. Pc + 1 \notin DOMAIN code /\ Pc + 1 + 1 \notin DOMAIN code
        <5>1. DOMAIN code = 1..Len(code)
          BY <1>3, SeqFact
        <5> QED BY <1>3, <5>1
      <4> QED BY <4>1 DEF Clear
    <3>2. "jmp" \in Flats /\ "jz" \in Flats
      BY DEF Flats
    <3>3. Flat(T, code, P, i) /\ Flat(T, code, P, j)
      BY <2>3, <3>1, <3>2, Zenon DEF Flat
    <3> QED BY <2>4, <3>3
  <2>7. PICK Q : /\ Charted(T, P, c, Q)
                 /\ \A t \in Len(code)+1..Len(code)+Len(e)+1 : Clear(c, Q, t)
    BY <1>3, <2>5, <2>6, ChartFlat
  <2>8. /\ JumpsOf(code, Current) \subseteq JumpsOf(c, Current)
        /\ \A t \in Len(code)+1..Len(code)+Len(e)+1 : Within(c, Current, Current, t)
    <3>1. Coded(code, code, Current, Skips)
      BY <1>1, CodedSelf
    <3> QED BY <1>3, <2>5, <3>1, CodedEmit
  <2>9. Clear(c, Q, Pc + 1) /\ Within(c, Current, Current, Pc + 1)
    <3>1. Pc + 1 \in Len(code)+1..Len(code)+Len(e)+1
      BY <1>3, <2>4
    <3> QED BY <2>7, <2>8, <3>1
  <2> HIDE DEF c
  <2>10. Charted(T, P, code', Q)
    <3>1. {Inner.jf} \subseteq JumpsOf(c, Current)
      BY <2>2, <2>8
    <3> QED BY <1>3, <2>1, <2>7, <2>9, <3>1, ChartPatch
  <2>11. Noted(Level, Top.symbols, code', Q, s)
    BY NoteFact, Zenon
  <2> QED BY <1>1, <1>2, <2>1, <2>10, <2>11, BecomeMap
<1>5. CASE Else
  <2> DEFINE s == [k |-> "else", ends |-> Inner.ends \cup {Pc}]
  <2>1. Inner.k = "if" /\ code' = EndArm(Inner.jf) /\ Become(s)
    BY <1>5 DEF Else, InNest
  <2>2. Inner.jf \in JumpsOf(code, Current)
    BY <1>1, <2>1, InnerFact, HolesFact, Zenon
  <2>3. PICK Q : Charted(T, P, code', Q)
    BY <1>1, <2>1, <2>2, EndArmMap
  <2>4. Noted(Level, Top.symbols, code', Q, s)
    BY NoteFact, Zenon
  <2> QED BY <1>1, <1>2, <2>1, <2>3, <2>4, BecomeMap
<1>6. CASE EndIf /\ Inner.k = "if"
  <2> DEFINE c == EndArm(Inner.jf)
  <2>1. code' = Patch(c, Inner.ends \cup {Pc}, Pc + 1) /\ Leave
    BY <1>6 DEF EndIf, InNest
  <2>2. Inner.jf \in JumpsOf(code, Current) /\ Inner.ends \subseteq JumpsOf(code, Current)
    BY <1>1, <1>6, InnerFact, HolesFact, Zenon
  <2>3. Inner.ends \cup {Pc} \subseteq JumpsOf(c, Current)
    BY <1>1, <2>2, EndArmFact
  <2>4. (\E Q : Charted(T, P, c, Q)) /\ Len(c) = Len(code) + 1
    BY <1>1, <2>2, EndArmMap
  <2>5. Pc + 1 = Len(c) + 1
    BY <1>3, <2>4
  <2> HIDE DEF c
  <2>6. PICK Q : Charted(T, P, c, Q)
    BY <2>4
  <2>7. Charted(T, P, code', Q)
    BY <1>3, <2>1, <2>3, <2>5, <2>6, ChartEnd
  <2> QED BY <1>1, <1>2, <2>1, <2>7, LeaveMap
<1>7. CASE EndIf /\ Inner.k # "if"
  <2>1. Inner.k = "else" /\ code' = Patch(code, Inner.ends, Pc) /\ Leave
    BY <1>7 DEF EndIf, InNest
  <2>2. Inner.ends \subseteq JumpsOf(code, Current)
    BY <1>1, <2>1, InnerFact, HolesFact, Zenon
  <2>3. Charted(T, P, code', P)
    BY <1>3, <2>1, <2>2, ChartEnd
  <2> QED BY <1>1, <1>2, <2>1, <2>3, LeaveMap
<1> QED BY <1>4, <1>5, <1>6, <1>7

(* ELSIF and END of a WHILE, and UNTIL. *)
LEMMA LoopMap ==
  ASSUME IInv, NEW T, NEW P, SInv(T, P), WhileElsif \/ EndWhile \/ Until
  PROVE  \E Q : SInv(T, Q)'
<1>1. InBody /\ UNCHANGED procs /\ Nest # <<>> /\ (Inner.k = "while" \/ Inner.k = "repeat")
  BY StatementFact DEF WhileElsif, EndWhile, Until, InNest, Emitting
<1>2. HeadsKept
  BY <1>1, HeadsSame
<1>3. /\ Charted(T, P, code, P) /\ Current # 0 /\ Current \in DOMAIN T
      /\ Len(code) \in Nat /\ Pc = Len(code) + 1 /\ IsSeq(code)
  BY <1>1, MappedBody
<1>4. /\ Construct(code, Current, Inner) /\ Clear(code, P, Inner.top)
      /\ Within(code, Current, Current, Inner.top) /\ Inner.top \in 1..Len(code)+1
  <2>1. /\ Construct(code, Current, Inner) /\ Noted(Level, Top.symbols, code, P, Inner)
        /\ \A t \in LoopTop(Inner) : t \in 1..Len(code)+1
    BY <1>1, InnerNoted
  <2>2. Inner.top \in LoopTop(Inner)
    BY <1>1 DEF LoopTop
  <2> QED BY <2>1, <2>2 DEF Construct, Noted
<1>5. ASSUME NEW op \in Jumps
      PROVE  \E R : /\ Charted(T, P, Append(code, BranchTo(op, Inner.top)), R)
                    /\ Clear(Append(code, BranchTo(op, Inner.top)), R, Inner.top)
  <2> DEFINE d == Append(code, BranchTo(op, Inner.top))
  <2>1. PICK R : /\ Charted(T, P, d, R)
                 /\ \A t \in 1..Len(code)+1 : Clear(code, P, t) => Clear(d, R, t)
    BY <1>3, <1>4, ChartJump
  <2> HIDE DEF d
  <2>2. Charted(T, P, d, R) /\ Clear(d, R, Inner.top)
    BY <1>4, <2>1
  <2> QED BY <2>2 DEF d
<1>6. CASE Inner.k = "while"
  <2>1. DOMAIN Inner = {"k", "top", "jf"} /\ Inner.jf \in JumpsOf(code, Current)
    BY <1>4, <1>6, HolesFact, Zenon
  <2> DEFINE b == Append(code, BranchTo("jmp", Inner.top))
  <2>2. PICK R : Charted(T, P, b, R) /\ Clear(b, R, Inner.top)
    BY <1>5 DEF Jumps
  <2>3. JumpBack = Patch(b, {Inner.jf}, Len(b) + 1) /\ Len(b) = Len(code) + 1
    <3>1. Len(b) = Len(code) + 1
      BY <1>3, AppendFact
    <3>2. Pc + 1 = Len(b) + 1
      BY <1>3, <3>1
    <3> QED BY <3>1, <3>2 DEF JumpBack
  <2> HIDE DEF b
  <2>4. Inner.jf \in JumpsOf(b, Current)
    <3>1. Grown(code, b, Current)
      BY <2>2 DEF Charted, Coded
    <3> QED BY <2>1, <3>1, JumpsGrown
  <2>5. Charted(T, P, JumpBack, R) /\ Clear(JumpBack, R, Inner.top)
    <3>1. IsSeq(b) /\ Len(b) \in Nat /\ Clear(b, R, Len(b) + 1)
      BY <2>2, ChartFact
    <3>2. Within(b, Current, Current, Len(b) + 1) /\ {Inner.jf} \subseteq JumpsOf(b, Current)
      BY <1>3, <2>4 DEF Within
    <3> QED BY <1>3, <2>2, <2>3, <3>1, <3>2, ChartPatch
  <2>6. CASE EndWhile
    <3>1. code' = JumpBack /\ Leave
      BY <2>6 DEF EndWhile
    <3>2. Charted(T, P, code', R)
      BY <2>5, <3>1
    <3> QED BY <1>1, <1>2, <3>1, <3>2, LeaveMap
  <2>7. CASE WhileElsif
    <3> DEFINE s == [k |-> "while", top |-> Inner.top, jf |-> Pc + 1]
    <3>1. code' = Append(JumpBack, Branch("jz", Pc + 1)) /\ Become([Inner EXCEPT !.jf = Pc + 1])
      BY <2>7 DEF WhileElsif
    <3>2. [Inner EXCEPT !.jf = Pc + 1] = s
      BY <1>6, <2>1
    <3>3. Len(JumpBack) = Len(code) + 1
      BY <1>1, <1>6, JumpBackFact
    <3>4. code' = Append(JumpBack, BranchTo("jz", Len(JumpBack) + 2))
      <4>1. Pc + 1 + 1 = Len(JumpBack) + 2
        BY <1>3, <3>3
      <4> QED BY <3>1, <4>1 DEF Branch, BranchTo
    <3>5. PICK Q : /\ Charted(T, P, code', Q)
                   /\ \A t \in 1..Len(JumpBack)+1 : Clear(JumpBack, R, t) => Clear(code', Q, t)
      BY <1>3, <2>5, <3>4, ChartJump DEF Jumps
    <3>6. Clear(code', Q, Inner.top)
      <4>1. Inner.top \in 1..Len(JumpBack)+1
        BY <1>3, <1>4, <3>3
      <4> QED BY <2>5, <3>5, <4>1
    <3>7. Noted(Level, Top.symbols, code', Q, s)
      BY <3>6, NoteFact, Zenon
    <3> HIDE DEF s
    <3>8. Become(s)
      BY <3>1, <3>2
    <3> QED BY <1>1, <1>2, <3>5, <3>7, <3>8, BecomeMap
  <2>8. CASE Until
    BY <1>6, <2>8 DEF Until, InNest
  <2> QED BY <2>6, <2>7, <2>8
<1>7. CASE Inner.k = "repeat"
  <2>1. code' = Append(code, BranchTo("jz", Inner.top)) /\ Leave
    BY <1>7 DEF Until, WhileElsif, EndWhile, InNest
  <2>2. PICK R : Charted(T, P, code', R)
    BY <1>5, <2>1 DEF Jumps
  <2> QED BY <1>1, <1>2, <2>1, <2>2, LeaveMap
<1> QED BY <1>1, <1>6, <1>7


(* The arms, the ELSE and the END of a CASE. *)
LEMMA CaseMap ==
  ASSUME IInv, NEW T, NEW P, SInv(T, P), Arm \/ EndCaseArm \/ CaseElse \/ EndCase
  PROVE  \E Q : SInv(T, Q)'
<1>1. InBody /\ UNCHANGED procs /\ Nest # <<>>
  BY StatementFact DEF Arm, EndCaseArm, CaseElse, EndCase, InNest, Emitting
<1>2. HeadsKept
  BY <1>1, HeadsSame
<1>3. /\ Charted(T, P, code, P) /\ Current # 0 /\ Current \in DOMAIN T
      /\ T[Current].symbols = Top.symbols
      /\ Len(code) \in Nat /\ Pc = Len(code) + 1 /\ IsSeq(code) /\ DOMAIN code = 1..Len(code)
  BY <1>1, MappedBody
<1>4. Construct(code, Current, Inner) /\ Noted(Level, Top.symbols, code, P, Inner)
  BY <1>1, InnerNoted
<1>5. \A c, Q, k, ends : Inner.k \in {"case", "arm"} =>
        Noted(Level, Top.symbols, c, Q, [k |-> "case", slot |-> Inner.slot, ends |-> ends])
  <2>1. Inner.k \in {"case", "arm"} => Selector(Top.symbols, Inner.slot)
    BY <1>4 DEF Noted
  <2> QED BY <2>1 DEF Noted, LoopTop
<1>6. CASE Arm
  <2> DEFINE x == Access("load", "read", HiddenItem(Top, Inner.slot), HiddenName(Inner.slot))
             y == BranchTo("jz", Pc + 3)
             z == Branch("jmp", Pc + 2)
             e == <<x, y, z>>
             s == [k |-> "arm", slot |-> Inner.slot, ends |-> Inner.ends, skip |-> Pc + 2]
  <2>1. Inner.k = "case" /\ code' = code \o e /\ Become(s)
    BY <1>6 DEF Arm, InNest
  <2>2. Selector(Top.symbols, Inner.slot)
    BY <1>4, <2>1 DEF Noted
  <2>3. LocalItem(T, HiddenItem(Top, Inner.slot), HiddenName(Inner.slot), Current)
    BY <1>3, <2>2, HiddenFact
  <2>4. Fine(T, x) /\ x.op = "load" /\ Straight(x, Current)
    <3>1. Fine(T, x) /\ x.op = "load"
      BY <1>3, <2>3, LoadFine, Zenon
    <3>2. Straight(x, Current)
      BY StraightFact
    <3> QED BY <3>1, <3>2
  <2>5. /\ JumpIn(y, Current) /\ y.to = Pc + 3 /\ y.op = "jz" /\ Fine(T, y)
        /\ JumpIn(z, Current) /\ z.to = Pc + 2 + 1 /\ z.op = "jmp" /\ Fine(T, z)
    BY <1>3, JumpFact, JumpFine DEF Jumps
  <2> HIDE DEF x, y, z
  <2>6. /\ IsSeq(e) /\ Len(e) = 3 /\ e[1] = x /\ e[2] = y /\ e[3] = z
        /\ \A n \in 1..3 : n = 1 \/ n = 2 \/ n = 3
    BY TripleFact
  <2> HIDE DEF e
  <2>7. Chunk(code, e, Current)
    <3>1. y.to \in Len(code)+1..Len(code)+3+1 /\ z.to \in Len(code)+1..Len(code)+3+1
      BY <1>3, <2>5
    <3>2. Len(e) > 0
      BY <2>6
    <3> QED BY <2>4, <2>5, <2>6, <3>1, <3>2, Zenon DEF Chunk
  <2>8. \A n \in 1..Len(e) : Flat(T, code, P, e[n])
    <3>1. Pc + 3 \notin DOMAIN code /\ Pc + 2 + 1 \notin DOMAIN code
      BY <1>3
    <3>2. Clear(code, P, Pc + 3) /\ Clear(code, P, Pc + 2 + 1)
      BY <3>1 DEF Clear
    <3>3. "load" \in Flats /\ "jmp" \in Flats /\ "jz" \in Flats /\ "load" \notin Jumps
      BY DEF Flats, Jumps
    <3>4. Flat(T, code, P, x) /\ Flat(T, code, P, y) /\ Flat(T, code, P, z)
      BY <2>4, <2>5, <3>2, <3>3, Zenon DEF Flat
    <3> QED BY <2>6, <3>4
  <2>9. PICK Q : Charted(T, P, code', Q)
    BY <1>3, <2>1, <2>7, <2>8, ChartFlat
  <2>10. Noted(Level, Top.symbols, code', Q, s)
    BY <2>2 DEF Noted, LoopTop
  <2> QED BY <1>1, <1>2, <2>1, <2>9, <2>10, BecomeMap
<1>7. CASE EndCaseArm
  <2> DEFINE s == [k |-> "case", slot |-> Inner.slot, ends |-> Inner.ends \cup {Pc}]
  <2>1. Inner.k = "arm" /\ code' = EndArm(Inner.skip) /\ Become(s)
    BY <1>7 DEF EndCaseArm, InNest
  <2>2. Inner.skip \in JumpsOf(code, Current)
    BY <1>4, <2>1, HolesFact, Zenon
  <2>3. PICK Q : Charted(T, P, code', Q)
    BY <1>1, <2>1, <2>2, EndArmMap
  <2>4. Noted(Level, Top.symbols, code', Q, s)
    BY <1>5, <2>1
  <2> QED BY <1>1, <1>2, <2>1, <2>3, <2>4, BecomeMap
<1>8. CASE CaseElse
  <2> DEFINE s == [k |-> "case else", ends |-> Inner.ends]
  <2>1. code' = code /\ Become(s)
    BY <1>8 DEF CaseElse
  <2>2. Noted(Level, Top.symbols, code', P, s)
    BY NoteFact, Zenon
  <2> QED BY <1>1, <1>2, <1>3, <2>1, <2>2, BecomeMap
<1>9. CASE EndCase
  <2>1. (Inner.k = "case" \/ Inner.k = "case else") /\ code' = Patch(code, Inner.ends, Pc) /\ Leave
    BY <1>9 DEF EndCase, InNest
  <2>2. Inner.ends \subseteq JumpsOf(code, Current)
    BY <1>4, <2>1, HolesFact, Zenon
  <2>3. Charted(T, P, code', P)
    BY <1>3, <2>1, <2>2, ChartEnd
  <2> QED BY <1>1, <1>2, <2>1, <2>3, LeaveMap
<1> QED BY <1>6, <1>7, <1>8, <1>9

(* The variable of a FOR is named by its item. *)
LEMMA CounterFact ==
  ASSUME IInv, InBody, NEW T, NEW P, SInv(T, P), NEW d, Counter(Level, Top.symbols, d)
  PROVE  LocalItem(T, ForItem(d), Name(d), Current) \/ GlobalItem(ForItem(d), Name(d))
<1>1. /\ Current \in DOMAIN T /\ Level > 0 /\ T[Current].symbols = Top.symbols
  BY MappedBody
<1>2. Top = scopes[Level] /\ Current = Top.proc /\ Level \in Nat
  BY BodyFact DEF Current
<1> DEFINE it == ForItem(d)
           m == Name(d)
<1>3. /\ it.mode = (IF d.lev = 0 THEN "global" ELSE "local")
      /\ it.adr = Symbol(d).adr /\ it.ref = FALSE /\ it.hops = 0
      /\ m.proc = (IF d.lev = 0 THEN 0 ELSE scopes[d.lev].proc)
      /\ m.slot = d.slot /\ m.ref = IsRef(d)
  BY DEF ForItem, Item, Name
<1> HIDE DEF it, m
<1>4. CASE d.lev = 0
  <2>1. d.slot \in 1..Globals /\ Symbol(d) = [kind |-> "var", adr |-> GlobalAdr(d.slot)]
    BY <1>4 DEF Counter, Symbol
  <2>2. IsRef(d) = FALSE /\ Symbol(d).adr = GlobalAdr(d.slot)
    BY <2>1 DEF IsRef
  <2>3. GlobalItem(it, m)
    BY <1>3, <1>4, <2>1, <2>2 DEF GlobalItem
  <2> QED BY <2>3 DEF it, m
<1>5. CASE d.lev # 0
  <2>1. /\ d.lev = Level /\ d.slot \in DOMAIN T[Current].symbols
        /\ T[Current].symbols[d.slot].kind # "varparam"
    BY <1>1, <1>5 DEF Counter
  <2>2. Symbol(d) = T[Current].symbols[d.slot] /\ m.proc = Current
    BY <1>1, <1>2, <1>3, <1>5, <2>1 DEF Symbol
  <2>3. IsRef(d) = FALSE
    BY <2>1, <2>2 DEF IsRef
  <2> DEFINE scope == [symbols |-> T[Current].symbols]
  <2>4. /\ HiddenItem(scope, d.slot).mode = "local"
        /\ HiddenItem(scope, d.slot).adr = T[Current].symbols[d.slot].adr
        /\ HiddenItem(scope, d.slot).ref = FALSE /\ HiddenItem(scope, d.slot).hops = 0
    BY DEF HiddenItem
  <2>5. LocalItem(T, HiddenItem(scope, d.slot), HiddenName(d.slot), Current)
    <3>1. scope.symbols = T[Current].symbols /\ Selector(scope.symbols, d.slot)
      BY <2>1 DEF Selector
    <3> HIDE DEF scope
    <3> QED BY <1>1, <3>1, HiddenFact
  <2>6. HiddenName(d.slot).proc = m.proc /\ HiddenName(d.slot).slot = m.slot
        /\ HiddenName(d.slot).ref = m.ref
    BY <1>3, <2>2, <2>3 DEF HiddenName
  <2>7. LocalItem(T, it, m, Current)
    <3> DEFINE h == HiddenItem(scope, d.slot)
               w == HiddenName(d.slot)
    <3>1. h.mode = it.mode /\ h.adr = it.adr /\ h.ref = it.ref /\ h.hops = it.hops
      BY <1>3, <1>5, <2>2, <2>4, Zenon
    <3>2. LocalItem(T, h, w, Current) /\ w.proc = m.proc /\ w.slot = m.slot /\ w.ref = m.ref
      BY <2>5, <2>6
    <3> HIDE DEF h, w
    <3> QED BY <3>1, <3>2, Zenon DEF LocalItem
  <2> QED BY <2>7 DEF it, m
<1> QED BY <1>4, <1>5

(* The END of a FOR. *)
LEMMA EndForMap ==
  ASSUME IInv, NEW T, NEW P, SInv(T, P), EndFor
  PROVE  \E Q : SInv(T, Q)'
<1> DEFINE d == Inner.var
           x == Access("load", "read", ForItem(d), Name(d))
           y == Access("store", "write", ForItem(d), Name(d))
           z == BranchTo("jmp", Inner.top)
           e == <<x, Const, y, z>>
           c == code \o e
<1>1. InBody /\ UNCHANGED procs /\ Nest # <<>> /\ Inner.k = "for"
      /\ code' = Patch(c, {Inner.jend}, Pc + 4) /\ Leave
  BY StatementFact DEF EndFor, InNest, Emitting
<1>2. HeadsKept
  BY <1>1, HeadsSame
<1>3. /\ Charted(T, P, code, P) /\ Current # 0 /\ Current \in DOMAIN T
      /\ Len(code) \in Nat /\ Pc = Len(code) + 1 /\ IsSeq(code) /\ DOMAIN code = 1..Len(code)
  BY <1>1, MappedBody
<1>4. Construct(code, Current, Inner) /\ Noted(Level, Top.symbols, code, P, Inner)
  BY <1>1, InnerNoted
<1>5. /\ Inner.jend \in JumpsOf(code, Current) /\ Within(code, Current, Current, Inner.top)
      /\ Clear(code, P, Inner.top) /\ Counter(Level, Top.symbols, d)
  <2>1. Inner.jend \in JumpsOf(code, Current) /\ Within(code, Current, Current, Inner.top)
    BY <1>1, <1>4, HolesFact, Zenon
  <2>2. Inner.top \in LoopTop(Inner)
    BY <1>1 DEF LoopTop
  <2> QED BY <1>1, <1>4, <2>1, <2>2, Zenon DEF Noted
<1>6. LocalItem(T, ForItem(d), Name(d), Current) \/ GlobalItem(ForItem(d), Name(d))
  BY <1>1, <1>5, CounterFact
<1>7. /\ Fine(T, x) /\ x.op = "load" /\ Straight(x, Current)
      /\ Fine(T, y) /\ y.op = "store" /\ Straight(y, Current)
      /\ Fine(T, Const) /\ Const.op = "const" /\ Straight(Const, Current)
  <2>1. Fine(T, x) /\ x.op = "load" /\ Fine(T, y) /\ y.op = "store"
    BY <1>3, <1>6, LoadFine, Zenon
  <2>2. Fine(T, Const) /\ Const.op = "const"
    BY <1>3, PlainFine
  <2>3. Straight(x, Current) /\ Straight(y, Current) /\ Straight(Const, Current)
    BY StraightFact DEF Const
  <2> QED BY <2>1, <2>2, <2>3
<1>8. JumpIn(z, Current) /\ z.to = Inner.top /\ z.op = "jmp" /\ Fine(T, z)
  BY <1>3, JumpFact, JumpFine DEF Jumps
<1> HIDE DEF x, y, z
<1>9. /\ IsSeq(e) /\ Len(e) = 4 /\ e[1] = x /\ e[2] = Const /\ e[3] = y /\ e[4] = z
      /\ \A n \in 1..4 : n = 1 \/ n = 2 \/ n = 3 \/ n = 4
  <2>1. e \in Seq({x, Const, y, z}) /\ Len(e) = 4 /\ e[1] = x /\ e[2] = Const /\ e[3] = y /\ e[4] = z
    OBVIOUS
  <2>2. IsSeq(e)
    BY <2>1, SeqIs
  <2>3. \A n \in 1..4 : n = 1 \/ n = 2 \/ n = 3 \/ n = 4
    OBVIOUS
  <2> QED BY <2>1, <2>2, <2>3
<1> HIDE DEF e
<1>10. Chunk(code, e, Current)
  <2>1. Len(e) > 0
    BY <1>9
  <2> QED BY <1>5, <1>7, <1>8, <1>9, <2>1, Zenon DEF Chunk
<1>11. \A n \in 1..Len(e) : Flat(T, code, P, e[n])
  <2>1. /\ "load" \in Flats /\ "store" \in Flats /\ "const" \in Flats /\ "jmp" \in Flats
        /\ "load" \notin Jumps /\ "store" \notin Jumps /\ "const" \notin Jumps
    BY DEF Flats, Jumps
  <2>2. Flat(T, code, P, x) /\ Flat(T, code, P, y) /\ Flat(T, code, P, z) /\ Flat(T, code, P, Const)
    BY <1>5, <1>7, <1>8, <2>1, Zenon DEF Flat
  <2> QED BY <1>9, <2>2
<1>12. PICK Q : Charted(T, P, c, Q)
  BY <1>3, <1>10, <1>11, ChartFlat
<1>13. Len(c) = Len(code) + 4
  <2>1. IsSeq(e) /\ IsSeq(code)
    BY <1>3, <1>9
  <2>2. Len(c) = Len(code) + Len(e)
    BY <2>1, ConcatFact
  <2> QED BY <1>9, <2>2
<1> HIDE DEF c
<1>14. Charted(T, P, code', Q)
  <2>1. Grown(code, c, Current)
    BY <1>12 DEF Charted, Coded
  <2>2. {Inner.jend} \subseteq JumpsOf(c, Current)
    BY <1>5, <2>1, JumpsGrown
  <2>3. Pc + 4 = Len(c) + 1
    BY <1>3, <1>13
  <2> QED BY <1>1, <1>3, <1>12, <2>2, <2>3, ChartEnd
<1> QED BY <1>1, <1>2, <1>14, LeaveMap


-----------------------------------------------------------------------------
(* The frame grows by a word *)
LEMMA LaidMore ==
  ASSUME NEW r, Laid(r), NEW s, s.kind \notin Params, Even(s.adr),
         NEW u, u.symbols = Append(r.symbols, s), u.outer = r.outer, u.far = r.far,
         u.args = r.args, u.n = r.n
  PROVE  Laid(u)
<1> DEFINE y == r.symbols
           z == Append(y, s)
<1>1. /\ IsSeq(y) /\ r.n \in 0..Len(y) /\ (r.outer # 0 => ~r.far)
      /\ r.args \in Int /\ Even(Above(r))
      /\ \A i \in 1..Len(y) : (y[i].kind \in Params <=> i <= r.n) /\ Even(y[i].adr)
      /\ \A i \in 1..r.n : Base(r) <= y[i].adr /\ End(y[i]) <= Above(r)
      /\ \A i, j \in 1..r.n : i < j => End(y[j]) <= y[i].adr
      /\ \A i \in 1..r.n-1 : End(y[i+1]) = y[i].adr
      /\ IF r.n = 0 THEN Base(r) = Above(r)
         ELSE y[r.n].adr = Base(r) /\ End(y[1]) = Above(r)
  BY Zenon DEF Laid
<1>2. Base(u) = Base(r) /\ Above(u) = Above(r)
  BY DEF Base, Above
<1>3. u.symbols = z
  OBVIOUS
<1> HIDE DEF y
<1>4. /\ IsSeq(z) /\ Len(z) = Len(y) + 1 /\ z[Len(y) + 1] = s
      /\ \A i \in 1..Len(y) : z[i] = y[i]
  BY <1>1, AppendFact
<1>5. Len(y) \in Nat /\ r.n \in Nat /\ r.n <= Len(y)
  <2>1. IsSeq(y)
    BY <1>1
  <2>2. Len(y) \in Nat
    BY <2>1, SeqFact
  <2> QED BY <1>1, <2>2
<1> HIDE DEF z
<1>6. \A i \in 1..r.n : i \in 1..Len(y) /\ z[i] = y[i]
  BY <1>4, <1>5
<1>7. ASSUME NEW i \in 1..Len(z)
      PROVE  (z[i].kind \in Params <=> i <= r.n) /\ Even(z[i].adr)
  <2>1. CASE i \in 1..Len(y)
    BY <1>1, <1>4, <2>1
  <2>2. CASE i = Len(y) + 1
    <3>1. ~ (i <= r.n) /\ z[i] = s
      BY <1>4, <1>5, <2>2
    <3> QED BY <3>1, Zenon
  <2> QED BY <1>4, <1>5, <2>1, <2>2
<1>8. \A i \in 1..r.n : Base(r) <= z[i].adr /\ End(z[i]) <= Above(r)
  BY <1>1, <1>6
<1>9. \A i, j \in 1..r.n : i < j => End(z[j]) <= z[i].adr
  BY <1>1, <1>6
<1>10. ASSUME NEW i \in 1..r.n-1 PROVE End(z[i+1]) = z[i].adr
  <2>1. i \in 1..r.n /\ i + 1 \in 1..r.n
    BY <1>5
  <2>2. z[i] = y[i] /\ z[i+1] = y[i+1]
    BY <1>6, <2>1
  <2> QED BY <1>1, <2>2
<1>11. IF r.n = 0 THEN Base(r) = Above(r) ELSE z[r.n].adr = Base(r) /\ End(z[1]) = Above(r)
  <2>1. CASE r.n = 0
    BY <1>1, <2>1
  <2>2. CASE r.n # 0
    <3>1. r.n \in 1..r.n /\ 1 \in 1..r.n
      BY <1>5, <2>2
    <3> QED BY <1>1, <1>6, <2>2, <3>1
  <2> QED BY <2>1, <2>2
<1>12. r.n \in 0..Len(z)
  BY <1>4, <1>5
<1> QED BY <1>1, <1>2, <1>3, <1>4, <1>7, <1>8, <1>9, <1>10, <1>11, <1>12, Zenon DEF Laid

(* The symbols of a scope that allocates. *)
LEMMA AllocSymbols ==
  ASSUME NEW scope, DOMAIN scope = ScopeFields, NEW kind
  PROVE  LET s == AllocLocal(scope, kind) IN
         /\ s.symbols = Append(scope.symbols, [kind |-> kind, adr |-> scope.local_top - 2])
         /\ s.local_top = scope.local_top - 2
<1> DEFINE s == AllocLocal(scope, kind)
           e == [kind |-> kind, adr |-> scope.local_top - 2]
           lower == scope.local_top - 2
<1>1. s = [scope EXCEPT !.symbols = Append(@, e), !.local_top = lower]
  BY DEF AllocLocal
<1> HIDE DEF s, e, lower
<1>2. s.local_top = lower /\ s.symbols = Append(scope.symbols, e)
  BY <1>1 DEF ScopeFields
<1> QED BY <1>2 DEF s, e, lower

(* Two below an even number is one. *)
LEMMA EvenBelow ==
  ASSUME NEW x, Even(x)
  PROVE  Even(x - 2) /\ Even(-x) /\ x \in Int
<1>1. x \in Int /\ x % 2 = 0
  BY DEF Even
<1>2. (x - 2) % 2 = 0 /\ (-x) % 2 = 0
  BY <1>1
<1> QED BY <1>1, <1>2 DEF Even

(* The table with another word in the frame of the innermost scope. *)
LEMMA AllocTable ==
  ASSUME IInv, NEW T, Match(T), Level > 0, NEW kind, kind \notin Params
  PROVE  LET h == AllocLocal(Top, kind) IN
         /\ Even(h.local_top) /\ h.proc = Top.proc
         /\ Prefix(Top.symbols, h.symbols)
         /\ Len(h.symbols) \in DOMAIN h.symbols /\ h.symbols[Len(h.symbols)].kind = kind
         /\ \E U : Regrown(T, U, Current, h.symbols) /\ Laid(U[Current])
<1> DEFINE h == AllocLocal(Top, kind)
           e == [kind |-> kind, adr |-> Top.local_top - 2]
<1>1. /\ Top = scopes[Level] /\ Current = Top.proc /\ Current \in DOMAIN T /\ Level \in 1..Level
      /\ ScopeOf(T, scopes, Level)
  BY MatchFact
<1>2. DOMAIN Top = ScopeFields
  BY <1>1, Zenon DEF IInv, ScopesOpen
<1>3. Holds(-Top.local_top, Top.symbols) /\ Top.local_top \in Int
  BY <1>1, Zenon DEF IInv, FramesFit
<1>4. h.symbols = Append(Top.symbols, e) /\ h.local_top = Top.local_top - 2
  BY <1>2, AllocSymbols
<1>5. h.proc = Top.proc
  <2>1. \A f \in ScopeFields \ {"symbols", "local_top"} : h[f] = Top[f]
    BY <1>2, <1>3, AllocFact
  <2> QED BY <2>1 DEF ScopeFields
<1>6. Even(h.local_top) /\ Even(Top.local_top - 2)
  BY <1>1, <1>4, EvenBelow DEF ScopeOf
<1>7. e.kind = kind /\ e.adr = Top.local_top - 2
  OBVIOUS
<1> HIDE DEF h, e
<1> DEFINE y == Top.symbols
           z == h.symbols
<1>8. IsSeq(y)
  BY <1>3 DEF Holds
<1> HIDE DEF y
<1>9. /\ IsSeq(z) /\ Len(z) = Len(y) + 1 /\ z[Len(y) + 1] = e
      /\ \A i \in 1..Len(y) : z[i] = y[i]
  <2>1. z = Append(y, e)
    BY <1>4 DEF y
  <2> QED BY <1>8, <2>1, AppendFact
<1>10. Len(y) \in Nat /\ DOMAIN z = 1..Len(z)
  BY <1>8, <1>9, SeqFact
<1>11. Prefix(y, z)
  <2>1. Len(y) <= Len(z)
    BY <1>9, <1>10
  <2> QED BY <1>8, <1>9, <2>1, Zenon DEF Prefix
<1>12. Len(z) \in DOMAIN z /\ z[Len(z)].kind = kind
  BY <1>7, <1>9, <1>10
<1> DEFINE r == T[Current]
           u == [outer |-> r.outer, level |-> r.level, far |-> r.far, args |-> r.args,
                 n |-> r.n, symbols |-> z]
           U == [T EXCEPT ![Current] = u]
<1>13. /\ u.outer = r.outer /\ u.level = r.level /\ u.far = r.far /\ u.args = r.args
       /\ u.n = r.n /\ u.symbols = z
  OBVIOUS
<1>14. IsSeq(T) /\ Laid(r)
  BY <1>1 DEF Match
<1>15. r.symbols = y
  BY <1>1 DEF ScopeOf, y
<1> HIDE DEF u
<1>16. IsSeq(U) /\ Len(U) = Len(T) /\ U[Current] = u /\ \A q \in DOMAIN T : q # Current => U[q] = T[q]
  BY <1>1, <1>14, ExceptFact
<1> HIDE DEF U
<1>17. Laid(u)
  <2>1. u.symbols = Append(r.symbols, e)
    BY <1>4, <1>13, <1>15 DEF y
  <2>2. e.kind \notin Params /\ Even(e.adr)
    BY <1>6, <1>7
  <2> QED BY <1>13, <1>14, <2>1, <2>2, LaidMore
<1>18. Regrown(T, U, Current, z)
  BY <1>13, <1>16, Zenon DEF Regrown
<1>19. Laid(U[Current])
  BY <1>16, <1>17
<1> QED BY <1>5, <1>6, <1>11, <1>12, <1>18, <1>19 DEF h, y


(* The maps before a statement that allocates a hidden word. *)
LEMMA HideTable ==
  ASSUME IInv, InBody, NEW T, NEW P, SInv(T, P)
  PROVE  LET h == Hide(Top) IN
         \E U : /\ Regrown(T, U, Current, h.symbols) /\ Laid(U[Current]) /\ Extends(T, U)
                /\ Charted(U, P, code, P) /\ Current \in DOMAIN U /\ U[Current].symbols = h.symbols
                /\ Selector(h.symbols, Len(h.symbols)) /\ Prefix(Top.symbols, h.symbols)
<1> DEFINE h == Hide(Top)
<1>1. Match(T) /\ Current \in DOMAIN T /\ Level > 0 /\ T[Current].symbols = Top.symbols
  BY MappedBody
<1>2. /\ Prefix(Top.symbols, h.symbols)
      /\ Len(h.symbols) \in DOMAIN h.symbols /\ h.symbols[Len(h.symbols)].kind = "hidden"
      /\ \E U : Regrown(T, U, Current, h.symbols) /\ Laid(U[Current])
  BY <1>1, AllocTable DEF Params, Hide
<1> HIDE DEF h
<1>3. PICK U : Regrown(T, U, Current, h.symbols) /\ Laid(U[Current])
  BY <1>2
<1>4. IsSeq(T) /\ \A p \in DOMAIN T : Laid(T[p])
  BY <1>1 DEF Match
<1>5. Extends(T, U)
  <2>1. Prefix(T[Current].symbols, h.symbols)
    BY <1>1, <1>2
  <2> QED BY <1>1, <1>3, <1>4, <2>1, RegrownExtends
<1>6. Sound(U, code, P, Skips)
  BY <1>4, <1>5, SoundExtends DEF SInv
<1>7. Charted(U, P, code, P)
  <2>1. Coded(code, code, Current, Skips)
    BY CodedSelf
  <2> QED BY <1>6, <2>1, Zenon DEF Charted
<1>8. Current \in DOMAIN U
  BY <1>1, <1>5, ExtendsDomain
<1>9. Selector(h.symbols, Len(h.symbols))
  BY <1>2 DEF Selector
<1>10. U[Current].symbols = h.symbols
  BY <1>3, Zenon DEF Regrown
<1> QED BY <1>2, <1>3, <1>5, <1>7, <1>8, <1>9, <1>10, Zenon DEF h

(* A statement that allocates a hidden word keeps the maps. *)
LEMMA HideMap ==
  ASSUME IInv, InBody, NEW T, NEW P, SInv(T, P), HeadsKept,
         NEW U, Regrown(T, U, Current, Hide(Top).symbols), Laid(U[Current]),
         Prefix(Top.symbols, Hide(Top).symbols),
         NEW c, NEW Q, Charted(U, P, c, Q), code' = ExtendFrame(c, Hide(Top)),
         NEW s, scopes' = [scopes EXCEPT ![Level] = [Hide(Top) EXCEPT !.nest = Append(@, s)]],
         Noted(Level, Hide(Top).symbols, c, Q, s)
  PROVE  SInv(U, Q)'
<1> DEFINE h == Hide(Top)
           t == [h EXCEPT !.nest = Append(@, s)]
           at == procs[Current].code_ofs
<1>1. /\ Current \in DOMAIN procs /\ Current # 0 /\ Current \in Open
      /\ DOMAIN Top = ScopeFields /\ Top.begun = TRUE
      /\ Top = scopes[Level] /\ Level \in 1..Level
      /\ IsSeq(Nest) /\ \A i \in DOMAIN Nest : Construct(code, Current, Nest[i])
      /\ IsSeq(code)
  BY BodyFact
<1>2. Top.local_top \in Int /\ Holds(-Top.local_top, Top.symbols)
  BY <1>1, Zenon DEF IInv, FramesFit
<1>3. /\ DOMAIN h = ScopeFields
      /\ \A f \in ScopeFields \ {"symbols", "local_top"} : h[f] = Top[f]
  BY <1>1, <1>2, AllocFact DEF Hide
<1>4. Even(h.local_top)
  <2>1. Match(T) /\ Level > 0
    BY MappedBody
  <2> QED BY <2>1, AllocTable DEF Params, Hide
<1> HIDE DEF h
<1>5. /\ DOMAIN t = ScopeFields /\ t.nest = Append(h.nest, s)
      /\ t.proc = h.proc /\ t.begun = h.begun /\ t.skip_nested = h.skip_nested
      /\ t.saved_ret = h.saved_ret /\ t.local_top = h.local_top /\ t.symbols = h.symbols
  BY <1>3 DEF ScopeFields
<1>6. /\ h.proc = Top.proc /\ h.begun = Top.begun /\ h.skip_nested = Top.skip_nested
      /\ h.saved_ret = Top.saved_ret /\ h.nest = Nest
  BY <1>3 DEF ScopeFields, Nest
<1>7. scopes' = [scopes EXCEPT ![Level] = t]
  BY DEF h
<1> HIDE DEF t
<1>8. Restated(Top, t)
  BY <1>1, <1>5, <1>6, Zenon DEF Restated
<1>9. IsPrologue(code, at, Current) /\ cur_prologue_patch = at
  <2>1. at # 0
    BY <1>1, Zenon DEF IInv, ProcsKnown
  <2> QED BY <1>1, <2>1, Zenon DEF IInv, ProcsKnown, FramesFit
<1>10. code' = SetFrame(c, at, h)
  BY <1>9 DEF ExtendFrame, h
<1> HIDE DEF at
<1>11. /\ Flows(c, Current, Skips) /\ IsSeq(c) /\ Sound(U, c, Q, Skips)
       /\ Grown(code, c, Current) /\ Quiet(code, c) /\ FramesKept(code, c)
       /\ \A x \in 1..Len(code)+1 : Clear(code, P, x) => Clear(c, Q, x)
  <2>1. Flows(c, Current, Skips) /\ IsSeq(c) /\ Sound(U, c, Q, Skips)
    BY ChartFact
  <2> QED BY <2>1, Zenon DEF Charted, Coded
<1>12. /\ Len(code) \in Nat /\ Len(c) \in Nat /\ DOMAIN code = 1..Len(code) /\ DOMAIN c = 1..Len(c)
       /\ \A a \in DOMAIN code : a \in DOMAIN c /\ SameIns(code[a], c[a])
       /\ IsPrologue(c, at, Current)
  BY <1>9, <1>11, GrownFact
<1>13. Framed(c, code', at, -h.local_top, Current, Skips)
  BY <1>10, <1>11, <1>12, FrameSet, Zenon
<1>14. Patched(c, Q, Skips, code', Skips)
  <2>1. at \in DOMAIN c /\ c[at].op = "prologue"
    BY <1>12 DEF IsPrologue
  <2> QED BY <1>10, <1>11, <2>1, PatchedFrame, Zenon
<1>15. Sound(U, code', Q, Skips) /\ \A x : Clear(c, Q, x) => Clear(code', Q, x)
  BY <1>11, <1>14, SoundPatched
<1>16. FramesEven'
  <2>1. ASSUME NEW a \in DOMAIN code', code'[a].op = "prologue" PROVE Even(code'[a].size)
    <3>1. a \in DOMAIN c /\ c[a].op = "prologue"
      BY <1>14, <2>1, Zenon DEF Patched, Kept
    <3>2. a \in DOMAIN code /\ code[a].op = "prologue"
      <4>1. a \notin Len(code)+1..Len(c)
        BY <1>11, <3>1 DEF Quiet
      <4>2. a \in DOMAIN code
        BY <1>12, <3>1, <4>1
      <4> QED BY <1>12, <3>1, <4>2, Zenon DEF SameIns
    <3>3. c[a].size = code[a].size
      BY <1>11, <1>12, <3>2, Zenon DEF FramesKept, FrameKept
    <3>4. CASE a = at
      BY <1>4, <1>13, <3>4, EvenBelow, Zenon DEF Framed
    <3>5. CASE a # at
      <4>1. code'[a].size = c[a].size
        BY <1>12, <1>13, <3>1, <3>5, Zenon DEF Framed, FrameKept
      <4> QED BY <3>2, <3>3, <4>1, Zenon DEF SInv, FramesEven
    <3> QED BY <3>4, <3>5
  <2> QED BY <2>1 DEF FramesEven
<1>17. \A i \in DOMAIN t.nest : Noted(Level, t.symbols, code', Q, t.nest[i])
  <2>1. /\ Len(Nest) \in Nat /\ DOMAIN Nest = 1..Len(Nest)
        /\ DOMAIN t.nest = 1..Len(Nest)+1
        /\ \A i \in 1..Len(Nest) : t.nest[i] = Nest[i]
        /\ t.nest[Len(Nest) + 1] = s
    <3>1. t.nest = Append(Nest, s)
      BY <1>5, <1>6, Zenon
    <3>2. /\ IsSeq(Append(Nest, s)) /\ Len(Nest) \in Nat /\ DOMAIN Nest = 1..Len(Nest)
          /\ DOMAIN Append(Nest, s) = 1..Len(Nest)+1
          /\ \A i \in 1..Len(Nest) : Append(Nest, s)[i] = Nest[i]
          /\ Append(Nest, s)[Len(Nest) + 1] = s
      BY <1>1, AppendFact, SeqFact
    <3> QED BY <3>1, <3>2, Zenon
  <2>2. Noted(Level, t.symbols, code', Q, s)
    <3>1. Noted(Level, t.symbols, c, Q, s)
      BY <1>5 DEF h
    <3> QED BY <1>15, <3>1, Zenon DEF Noted
  <2>3. ASSUME NEW i \in DOMAIN Nest PROVE Noted(Level, t.symbols, code', Q, Nest[i])
    <3>1. Noted(Level, Top.symbols, code, P, Nest[i])
      BY DEF SInv, Nested
    <3>2. \A x \in 1..Len(code)+1 : Clear(code, P, x) => Clear(code', Q, x)
      BY <1>11, <1>15
    <3>3. Construct(code, Current, Nest[i])
      BY <1>1
    <3>4. Prefix(Top.symbols, t.symbols)
      BY <1>5 DEF h
    <3> QED BY <1>1, <3>1, <3>2, <3>3, <3>4, NotedGrown
  <2>4. \A i \in DOMAIN t.nest : i \in DOMAIN Nest \/ i = Len(Nest) + 1
    BY <2>1
  <2> QED BY <2>1, <2>2, <2>3, <2>4, Zenon
<1>18. /\ Regrown(T, U, Current, t.symbols) /\ Prefix(Top.symbols, t.symbols)
       /\ Even(t.local_top)
  BY <1>4, <1>5 DEF h
<1> QED BY <1>7, <1>8, <1>15, <1>16, <1>17, <1>18, BodyMap


(* The word that a FOR keeps on the stack while it loads the limit. *)
Up == [p |-> 0, n |-> 1]
(* PUSH AX and POP CX around the loading of the limit fit the stack. *)
LEMMA UpFact ==
  ASSUME NEW T, NEW i
  PROVE  /\ i.op = "save" => Fits(T, i, Rest) /\ After(i, Rest) = Up
         /\ i.op = "load" => Fits(T, i, Up) /\ After(i, Up) = Up
         /\ i.op = "restore" => Fits(T, i, Up) /\ After(i, Up) = Rest
         /\ Same(Up, Up) /\ Same(Rest, Rest) /\ Rest.n = 0
<1>1. Rest.p = 0 /\ Rest.n = 0 /\ Up.p = 0 /\ Up.n = 1
  BY DEF Rest, Up
<1>2. Held(T, Rest) /\ Held(T, Up)
  BY <1>1 DEF Held
<1>3. Same(Up, Up) /\ Same(Rest, Rest)
  BY <1>1 DEF Same
<1>4. CASE i.op = "save"
  <2>1. Fits(T, i, Rest)
    BY <1>1, <1>2, <1>4 DEF Fits, Places
  <2>2. After(i, Rest) = Up
    BY <1>1, <1>4 DEF After, Pushes, Places, Up
  <2> QED BY <1>1, <1>3, <1>4, <2>1, <2>2
<1>5. CASE i.op = "load"
  <2>1. Fits(T, i, Up)
    BY <1>1, <1>2, <1>5 DEF Fits, Places
  <2>2. After(i, Up) = Up
    BY <1>1, <1>5 DEF After, Pushes, Places
  <2> QED BY <1>1, <1>3, <1>5, <2>1, <2>2
<1>6. CASE i.op = "restore"
  <2>1. Fits(T, i, Up)
    BY <1>1, <1>2, <1>6 DEF Fits, Places
  <2>2. After(i, Up) = Rest
    BY <1>1, <1>6 DEF After, Pushes, Places, Rest
  <2> QED BY <1>1, <1>3, <1>6, <2>1, <2>2
<1> QED BY <1>1, <1>3, <1>4, <1>5, <1>6

(* What a FOR emits before its body. *)
ForParts(U, c, k, x1, x2, x3, x4, x5, x6, j) ==
    /\ Fine(U, k) /\ k.op = "const"
    /\ Fine(U, x1) /\ x1.op = "store" /\ Fine(U, x2) /\ x2.op = "store"
    /\ Fine(U, x3) /\ x3.op = "load" /\ Fine(U, x4) /\ x4.op = "save"
    /\ Fine(U, x5) /\ x5.op = "load" /\ Fine(U, x6) /\ x6.op = "restore"
    /\ Fine(U, j) /\ j.op = "jz" /\ j.to = Len(c) + 10
ForHead(U, c, Q, e) == \E g : Piece(U, c, Q, e, g) /\ g[5].n = 0 /\ IsSeq(g) /\ Len(g) = 9
(* The nine instructions at the head of a FOR are a piece of code. *)
LEMMA ForPiece ==
  ASSUME NEW U, NEW c, IsSeq(c), NEW Q, NEW x1, NEW x2, NEW x3, NEW x4, NEW x5, NEW x6, NEW j, NEW k,
         ForParts(U, c, k, x1, x2, x3, x4, x5, x6, j)
  PROVE  ForHead(U, c, Q, <<k, x1, k, x2, x3, x4, x5, x6, j>>)
<1> DEFINE e == <<k, x1, k, x2, x3, x4, x5, x6, j>>
<1>0. /\ Fine(U, k) /\ k.op = "const"
      /\ Fine(U, x1) /\ x1.op = "store" /\ Fine(U, x2) /\ x2.op = "store"
      /\ Fine(U, x3) /\ x3.op = "load" /\ Fine(U, x4) /\ x4.op = "save"
      /\ Fine(U, x5) /\ x5.op = "load" /\ Fine(U, x6) /\ x6.op = "restore"
      /\ Fine(U, j) /\ j.op = "jz" /\ j.to = Len(c) + 10
  BY Zenon DEF ForParts
<1> DEFINE g == <<Rest, Rest, Rest, Rest, Rest, Rest, Up, Up, Rest>>
<1>1. /\ e \in Seq({k, x1, x2, x3, x4, x5, x6, j}) /\ Len(e) = 9
      /\ e[1] = k /\ e[2] = x1 /\ e[3] = k /\ e[4] = x2 /\ e[5] = x3 /\ e[6] = x4
      /\ e[7] = x5 /\ e[8] = x6 /\ e[9] = j
  OBVIOUS
<1>2. /\ g \in Seq({Rest, Up}) /\ Len(g) = 9
      /\ g[1] = Rest /\ g[2] = Rest /\ g[3] = Rest /\ g[4] = Rest /\ g[5] = Rest /\ g[6] = Rest
      /\ g[7] = Up /\ g[8] = Up /\ g[9] = Rest
  OBVIOUS
<1>3. IsSeq(e) /\ IsSeq(g)
  BY <1>1, <1>2, SeqIs
<1> HIDE DEF e, g
<1>4. /\ Rest.n = 0 /\ Same(Up, Up) /\ Same(Rest, Rest)
      /\ Fits(U, k, Rest) /\ After(k, Rest) = Rest
      /\ Fits(U, x1, Rest) /\ After(x1, Rest) = Rest
      /\ Fits(U, x2, Rest) /\ After(x2, Rest) = Rest
      /\ Fits(U, x3, Rest) /\ After(x3, Rest) = Rest
      /\ Fits(U, x4, Rest) /\ After(x4, Rest) = Up
      /\ Fits(U, x5, Up) /\ After(x5, Up) = Up
      /\ Fits(U, x6, Up) /\ After(x6, Up) = Rest
      /\ Fits(U, j, Rest) /\ After(j, Rest) = Rest
  <2>1. /\ k.op \in Flats /\ x1.op \in Flats /\ x2.op \in Flats /\ x3.op \in Flats /\ j.op \in Flats
    BY <1>0 DEF Flats
  <2>2. /\ Fits(U, k, Rest) /\ After(k, Rest) = Rest
        /\ Fits(U, x1, Rest) /\ After(x1, Rest) = Rest
        /\ Fits(U, x2, Rest) /\ After(x2, Rest) = Rest
        /\ Fits(U, x3, Rest) /\ After(x3, Rest) = Rest
        /\ Fits(U, j, Rest) /\ After(j, Rest) = Rest
    BY <2>1, FlatFact
  <2> QED BY <1>0, <2>2, UpFact
<1>5. Len(c) \in Nat /\ DOMAIN c = 1..Len(c)
  BY SeqFact
<1>6. Clear(c, Q, j.to) /\ \A n \in 1..9 : j.to # Len(c) + n
  <2>1. j.to \notin DOMAIN c /\ \A n \in 1..9 : j.to # Len(c) + n
    BY <1>0, <1>5
  <2> QED BY <2>1 DEF Clear
<1> DEFINE Good(i) ==
          /\ Fine(U, e[i]) /\ Fits(U, e[i], g[i]) /\ e[i].op # "prologue"
          /\ e[i].op \notin {"jmp", "ret"} =>
                IF i < Len(e) THEN Same(After(e[i], g[i]), g[i+1]) ELSE After(e[i], g[i]).n = 0
          /\ e[i].op \in Jumps => /\ Clear(c, Q, e[i].to)
                                  /\ \A m \in 1..Len(e) : e[i].to = Len(c) + m => g[m].n = 0
<1>8. /\ "const" \notin Jumps /\ "store" \notin Jumps /\ "load" \notin Jumps /\ "save" \notin Jumps
      /\ "restore" \notin Jumps
      /\ "const" # "prologue" /\ "store" # "prologue" /\ "load" # "prologue" /\ "save" # "prologue"
      /\ "restore" # "prologue" /\ "jz" # "prologue"
  BY DEF Jumps
<1>14. ASSUME NEW i, i \in 1..8, NEW a, e[i] = a, Fine(U, a), Fits(U, a, g[i]),
              Same(After(a, g[i]), g[i+1]), a.op \notin Jumps, a.op # "prologue"
       PROVE  Good(i)
  <2>1. i < Len(e)
    BY <1>1, <1>14
  <2> QED BY <1>14, <2>1, Zenon
<1> HIDE DEF Good
<1>15. Good(1)
  <2>1. 1 \in 1..8 /\ g[1+1] = Rest /\ g[1] = Rest /\ e[1] = k
    BY <1>1, <1>2
  <2>2. Fine(U, k) /\ Fits(U, k, Rest) /\ Same(After(k, Rest), Rest)
        /\ k.op \notin Jumps /\ k.op # "prologue"
    BY <1>0, <1>4, <1>8, Zenon
  <2> QED BY <1>14, <2>1, <2>2, Zenon
<1>16. Good(2)
  <2>1. 2 \in 1..8 /\ g[2+1] = Rest /\ g[2] = Rest /\ e[2] = x1
    BY <1>1, <1>2
  <2>2. Fine(U, x1) /\ Fits(U, x1, Rest) /\ Same(After(x1, Rest), Rest)
        /\ x1.op \notin Jumps /\ x1.op # "prologue"
    BY <1>0, <1>4, <1>8, Zenon
  <2> QED BY <1>14, <2>1, <2>2, Zenon
<1>17. Good(3)
  <2>1. 3 \in 1..8 /\ g[3+1] = Rest /\ g[3] = Rest /\ e[3] = k
    BY <1>1, <1>2
  <2>2. Fine(U, k) /\ Fits(U, k, Rest) /\ Same(After(k, Rest), Rest)
        /\ k.op \notin Jumps /\ k.op # "prologue"
    BY <1>0, <1>4, <1>8, Zenon
  <2> QED BY <1>14, <2>1, <2>2, Zenon
<1>18. Good(4)
  <2>1. 4 \in 1..8 /\ g[4+1] = Rest /\ g[4] = Rest /\ e[4] = x2
    BY <1>1, <1>2
  <2>2. Fine(U, x2) /\ Fits(U, x2, Rest) /\ Same(After(x2, Rest), Rest)
        /\ x2.op \notin Jumps /\ x2.op # "prologue"
    BY <1>0, <1>4, <1>8, Zenon
  <2> QED BY <1>14, <2>1, <2>2, Zenon
<1>19. Good(5)
  <2>1. 5 \in 1..8 /\ g[5+1] = Rest /\ g[5] = Rest /\ e[5] = x3
    BY <1>1, <1>2
  <2>2. Fine(U, x3) /\ Fits(U, x3, Rest) /\ Same(After(x3, Rest), Rest)
        /\ x3.op \notin Jumps /\ x3.op # "prologue"
    BY <1>0, <1>4, <1>8, Zenon
  <2> QED BY <1>14, <2>1, <2>2, Zenon
<1>20. Good(6)
  <2>1. 6 \in 1..8 /\ g[6+1] = Up /\ g[6] = Rest /\ e[6] = x4
    BY <1>1, <1>2
  <2>2. Fine(U, x4) /\ Fits(U, x4, Rest) /\ Same(After(x4, Rest), Up)
        /\ x4.op \notin Jumps /\ x4.op # "prologue"
    BY <1>0, <1>4, <1>8, Zenon
  <2> QED BY <1>14, <2>1, <2>2, Zenon
<1>21. Good(7)
  <2>1. 7 \in 1..8 /\ g[7+1] = Up /\ g[7] = Up /\ e[7] = x5
    BY <1>1, <1>2
  <2>2. Fine(U, x5) /\ Fits(U, x5, Up) /\ Same(After(x5, Up), Up)
        /\ x5.op \notin Jumps /\ x5.op # "prologue"
    BY <1>0, <1>4, <1>8, Zenon
  <2> QED BY <1>14, <2>1, <2>2, Zenon
<1>22. Good(8)
  <2>1. 8 \in 1..8 /\ g[8+1] = Rest /\ g[8] = Up /\ e[8] = x6
    BY <1>1, <1>2
  <2>2. Fine(U, x6) /\ Fits(U, x6, Up) /\ Same(After(x6, Up), Rest)
        /\ x6.op \notin Jumps /\ x6.op # "prologue"
    BY <1>0, <1>4, <1>8, Zenon
  <2> QED BY <1>14, <2>1, <2>2, Zenon
<1>12. Good(9)
  <2>1. ~ (9 < Len(e)) /\ e[9] = j /\ g[9] = Rest
    BY <1>1, <1>2
  <2>2. j.to = Len(c) + 10 /\ \A m \in 1..Len(e) : j.to # Len(c) + m
    BY <1>0, <1>1, <1>6, Zenon
  <2>3. Fine(U, j) /\ Fits(U, j, Rest) /\ After(j, Rest).n = 0 /\ j.op # "prologue" /\ Clear(c, Q, j.to)
    BY <1>0, <1>4, <1>6, <1>8, Zenon
  <2> QED BY <2>1, <2>2, <2>3, Zenon DEF Good
<1>23. \A i \in 1..Len(e) : Good(i)
  <2>1. \A i \in 1..9 : i = 1 \/ i = 2 \/ i = 3 \/ i = 4 \/ i = 5 \/ i = 6 \/ i = 7 \/ i = 8 \/ i = 9
    OBVIOUS
  <2> HIDE DEF Good
  <2> QED BY <1>1, <1>12, <1>15, <1>16, <1>17, <1>18, <1>19, <1>20, <1>21, <1>22, <2>1, Zenon
<1>24. g[1].n = 0 /\ g[5].n = 0 /\ Len(e) > 0 /\ Len(g) = Len(e)
  BY <1>0, <1>1, <1>2, <1>4
<1>25. Piece(U, c, Q, e, g)
  BY <1>3, <1>23, <1>24, Zenon DEF Piece, Good
<1>26. ForHead(U, c, Q, e)
  BY <1>2, <1>3, <1>24, <1>25, Zenon DEF ForHead
<1> QED BY <1>26 DEF e

(* FOR. *)
LEMMA ForMap ==
  ASSUME IInv, Liberties = {}, NEW T, NEW P, SInv(T, P), NEW d \in Visible, For(d)
  PROVE  \E U, Q : SInv(U, Q)'
<1> DEFINE scope == Hide(Top)
           lim == Len(scope.symbols)
           var(op, k) == Access(op, k, ForItem(d), Name(d))
           limit(op, k) == Access(op, k, HiddenItem(scope, lim), HiddenName(lim))
           x1 == var("store", "write")
           x2 == limit("store", "write")
           x3 == var("load", "read")
           x4 == Ins("save", None)
           x5 == limit("load", "read")
           x6 == Ins("restore", [k |-> "compute"])
           j == Branch("jz", Pc + 4 + 4)
           S == {Const, x1, x2, x3, x4, x5, x6, j}
           e == <<Const, x1, Const, x2, x3, x4, x5, x6, j>>
           c == code \o e
           s == [k |-> "for", var |-> d, top |-> Pc + 4, jend |-> Pc + 4 + 4]
<1>1. /\ InBody /\ UNCHANGED procs /\ Plain(d)
      /\ code' = ExtendFrame(c, Hide(Top))
      /\ scopes' = [scopes EXCEPT ![Level] = [Hide(Top) EXCEPT !.nest = Append(@, s)]]
  BY StatementFact DEF For, Emitting
<1>2. /\ Current # 0 /\ Current \in DOMAIN T /\ Match(T) /\ Level > 0 /\ IsSeq(code)
      /\ T[Current].symbols = Top.symbols /\ Charted(T, P, code, P)
      /\ Len(code) \in Nat /\ Pc = Len(code) + 1
  BY <1>1, MappedBody
<1>3. HeadsKept
  BY <1>1, HeadsSame
<1>4. PICK U : /\ Regrown(T, U, Current, scope.symbols) /\ Laid(U[Current]) /\ Extends(T, U)
               /\ Charted(U, P, code, P) /\ Current \in DOMAIN U /\ U[Current].symbols = scope.symbols
               /\ Selector(scope.symbols, lim) /\ Prefix(Top.symbols, scope.symbols)
  BY <1>1, HideTable
<1>5. Counter(Level, Top.symbols, d)
  <2>1. ~ IsRef(d) /\ ~ Uplevel(d)
    BY <1>1 DEF Plain
  <2>2. \/ d.lev = 0 /\ d.slot \in 1..Globals
        \/ d.lev \in 1..Level /\ d.slot \in DOMAIN scopes[d.lev].symbols
    BY DEF Visible
  <2>3. Level \in Nat /\ Top = scopes[Level] /\ 0 \notin 1..Level
    BY <1>2, MatchFact
  <2>4. CASE d.lev = 0
    BY <2>2, <2>3, <2>4 DEF Counter
  <2>5. CASE d.lev # 0
    <3>1. d.lev \in 1..Level /\ d.slot \in DOMAIN scopes[d.lev].symbols
      BY <2>2, <2>5
    <3>2. d.lev = Level
      BY <2>1, <2>3, <3>1 DEF Uplevel
    <3>3. Symbol(d) = Top.symbols[d.slot]
      BY <2>3, <2>5, <3>2 DEF Symbol
    <3> QED BY <2>1, <2>3, <2>5, <3>1, <3>2, <3>3, Zenon DEF IsRef, Counter
  <2> QED BY <2>4, <2>5
<1>6. Fine(U, x1) /\ x1.op = "store" /\ Fine(U, x3) /\ x3.op = "load"
  <2>1. LocalItem(T, ForItem(d), Name(d), Current) \/ GlobalItem(ForItem(d), Name(d))
    BY <1>1, <1>5, CounterFact
  <2>2. Fine(T, x1) /\ x1.op = "store" /\ Fine(T, x3) /\ x3.op = "load"
    BY <1>2, <2>1, LoadFine, Zenon
  <2> QED BY <1>4, <2>2, FineExtends
<1>7. Fine(U, x2) /\ x2.op = "store" /\ Fine(U, x5) /\ x5.op = "load"
  <2>1. LocalItem(U, HiddenItem(scope, lim), HiddenName(lim), Current)
    BY <1>4, HiddenFact
  <2> QED BY <1>4, <2>1, LoadFine, Zenon
<1>8. /\ Fine(U, x4) /\ x4.op = "save" /\ Fine(U, x6) /\ x6.op = "restore"
      /\ Fine(U, Const) /\ Const.op = "const"
  BY <1>4, PlainFine DEF Ins
<1>9. JumpIn(j, Current) /\ j.to = Pc + 4 + 4 + 1 /\ j.op = "jz" /\ Fine(U, j)
  BY <1>4, JumpFact, JumpFine DEF Jumps
<1>10. /\ Straight(Const, Current) /\ Straight(x1, Current) /\ Straight(x2, Current)
       /\ Straight(x3, Current) /\ Straight(x4, Current) /\ Straight(x5, Current)
       /\ Straight(x6, Current)
  BY StraightFact DEF Const
<1> HIDE DEF x1, x2, x3, x4, x5, x6, j
<1>11. e \in Seq(S) /\ Len(e) = 9 /\ IsSeq(e)
  <2>1. e \in Seq(S) /\ Len(e) = 9
    OBVIOUS
  <2> QED BY <2>1, SeqIs
<1>12. j.to = Len(code) + 10 /\ Pc + 4 = Len(code) + 5
  BY <1>2, <1>9
<1>13. PICK g : Piece(U, code, P, e, g) /\ g[5].n = 0 /\ IsSeq(g) /\ Len(g) = 9
  <2>1. ForParts(U, code, Const, x1, x2, x3, x4, x5, x6, j)
    BY <1>6, <1>7, <1>8, <1>9, <1>12, Zenon DEF ForParts
  <2>2. IsSeq(code)
    BY <1>2
  <2> HIDE DEF c, s, S
  <2>3. ForHead(U, code, P, e)
    BY <2>1, <2>2, ForPiece
  <2> QED BY <2>3 DEF ForHead
<1> HIDE DEF e
<1>14. Chunk(code, e, Current)
  <2>1. j.to \in Len(code)+1..Len(code)+Len(e)+1 /\ Len(e) > 0
    BY <1>2, <1>11, <1>12
  <2>2. \A x \in S :
           \/ Straight(x, Current)
           \/ JumpIn(x, Current) /\ (\/ x.to \in Len(code)+1..Len(code)+Len(e)+1
                                     \/ Within(code, Current, Current, x.to))
    BY <1>9, <1>10, <2>1
  <2> HIDE DEF S
  <2> QED BY <1>11, <2>1, <2>2, ChunkFact, Zenon
<1> DEFINE Q == P \o g
<1>15. Charted(U, P, c, Q)
  BY <1>2, <1>4, <1>13, <1>14, ChartEmit
<1>16. Clear(c, Q, Pc + 4)
  <2>1. IsSeq(P) /\ Len(P) = Len(code)
    BY DEF SInv, Sound
  <2>2. Q[Len(P) + 5] = g[5]
    <3>1. 5 \in 1..Len(g)
      BY <1>13
    <3>2. IsSeq(g)
      BY <1>13
    <3> QED BY <2>1, <3>1, <3>2, ConcatFact
  <2>3. c[Len(code) + 5] = e[5] /\ 5 \in 1..Len(e)
    <3>1. 5 \in 1..Len(e)
      BY <1>11
    <3>2. IsSeq(e) /\ IsSeq(code)
      BY <1>2, <1>11
    <3> QED BY <3>1, <3>2, ConcatFact
  <2>4. e[5].op # "prologue"
    BY <1>13, <2>3 DEF Piece
  <2> HIDE DEF c, Q
  <2>5. Q[Pc + 4].n = 0 /\ c[Pc + 4].op # "prologue"
    <3>1. Len(P) + 5 = Pc + 4 /\ Len(code) + 5 = Pc + 4
      BY <1>12, <2>1
    <3> QED BY <1>13, <2>2, <2>3, <2>4, <3>1
  <2> QED BY <2>5 DEF Clear
<1> HIDE DEF c, Q
<1>17. Noted(Level, scope.symbols, c, Q, s)
  <2>1. Counter(Level, scope.symbols, d)
    <3>1. \A i \in DOMAIN Top.symbols : i \in DOMAIN scope.symbols /\ scope.symbols[i] = Top.symbols[i]
      <4> DEFINE y == Top.symbols
                 z == scope.symbols
      <4>1. IsSeq(y) /\ IsSeq(z) /\ Len(y) <= Len(z) /\ \A i \in 1..Len(y) : z[i] = y[i]
        BY <1>4 DEF Prefix
      <4> HIDE DEF y, z
      <4>2. DOMAIN y = 1..Len(y) /\ Len(y) \in Nat /\ DOMAIN z = 1..Len(z) /\ Len(z) \in Nat
        BY <4>1, SeqFact
      <4>3. \A i \in DOMAIN y : i \in DOMAIN z /\ z[i] = y[i]
        BY <4>1, <4>2
      <4> QED BY <4>3 DEF y, z
    <3> QED BY <1>5, <3>1, Zenon DEF Counter
  <2>2. s.k = "for" /\ s.var = d /\ s.top = Pc + 4
    OBVIOUS
  <2> HIDE DEF s, scope
  <2>3. \A t \in LoopTop(s) : t = Pc + 4
    BY <2>2 DEF LoopTop
  <2>4. \A t \in LoopTop(s) : Clear(c, Q, t)
    BY <1>16, <2>3
  <2>5. s.k \notin {"case", "arm"}
    BY <2>2
  <2> QED BY <2>1, <2>2, <2>4, <2>5, Zenon DEF Noted
<1>18. SInv(U, Q)'
  BY <1>1, <1>3, <1>4, <1>15, <1>17, HideMap
<1> QED BY <1>18

(* CASE. *)
LEMMA CaseOfMap ==
  ASSUME IInv, Liberties = {}, NEW T, NEW P, SInv(T, P), NEW d \in Visible, Case(d)
  PROVE  \E U, Q : SInv(U, Q)'
<1> DEFINE scope == Hide(Top)
           slot == Len(scope.symbols)
           x == Load(d)
           y == Access("store", "write", HiddenItem(scope, slot), HiddenName(slot))
           e == <<x, y>>
           c == code \o e
           s == [k |-> "case", slot |-> slot, ends |-> {}]
<1>1. /\ InBody /\ UNCHANGED procs /\ Usable(d)
      /\ code' = ExtendFrame(c, Hide(Top))
      /\ scopes' = [scopes EXCEPT ![Level] = [Hide(Top) EXCEPT !.nest = Append(@, s)]]
  BY StatementFact DEF Case, Emitting
<1>2. /\ Current # 0 /\ IsSeq(code)
  BY <1>1, MappedBody
<1>3. HeadsKept
  BY <1>1, HeadsSame
<1>4. PICK U : /\ Regrown(T, U, Current, scope.symbols) /\ Laid(U[Current]) /\ Extends(T, U)
               /\ Charted(U, P, code, P) /\ Current \in DOMAIN U /\ U[Current].symbols = scope.symbols
               /\ Selector(scope.symbols, slot) /\ Prefix(Top.symbols, scope.symbols)
  BY <1>1, HideTable
<1>5. Flat(U, code, P, x)
  <2>1. Flat(T, code, P, x)
    BY <1>1, VisibleFlat
  <2>2. Fine(U, x)
    BY <1>4, <2>1, FineExtends DEF Flat
  <2> QED BY <2>1, <2>2, Zenon DEF Flat
<1>6. Flat(U, code, P, y)
  <2>1. LocalItem(U, HiddenItem(scope, slot), HiddenName(slot), Current)
    BY <1>4, HiddenFact
  <2>2. Fine(U, y) /\ y.op = "store"
    BY <1>4, <2>1, LoadFine, Zenon
  <2>3. "store" \in Flats /\ "store" \notin Jumps
    BY DEF Flats, Jumps
  <2> HIDE DEF y
  <2> QED BY <2>2, <2>3, Zenon DEF Flat
<1>7. Straight(x, Current) /\ Straight(y, Current)
  BY StraightFact DEF Load
<1> HIDE DEF x, y
<1>8. IsSeq(e) /\ Len(e) = 2 /\ e[1] = x /\ e[2] = y /\ \A n \in 1..2 : n = 1 \/ n = 2
  BY PairFact
<1> HIDE DEF e
<1>9. Chunk(code, e, Current) /\ \A n \in 1..Len(e) : Flat(U, code, P, e[n])
  <2>1. Len(e) > 0
    BY <1>8
  <2> QED BY <1>5, <1>6, <1>7, <1>8, <2>1, Zenon DEF Chunk
<1>10. PICK Q : Charted(U, P, c, Q)
  BY <1>2, <1>4, <1>9, ChartFlat
<1> HIDE DEF c
<1>11. Noted(Level, scope.symbols, c, Q, s)
  BY <1>4 DEF Noted, LoopTop
<1>12. SInv(U, Q)'
  BY <1>1, <1>3, <1>4, <1>10, <1>11, HideMap
<1> QED BY <1>12

-----------------------------------------------------------------------------
(* Calls *)

(* Pieces joined in either order, and with one instruction behind them. *)
LEMMA JoinAssoc ==
  ASSUME NEW s, IsSeq(s), NEW t, IsSeq(t), NEW u, IsSeq(u)
  PROVE  (s \o t) \o u = s \o (t \o u)
<1> DEFINE S == {s[i] : i \in DOMAIN s} \cup {t[i] : i \in DOMAIN t} \cup {u[i] : i \in DOMAIN u}
<1>1. s \in Seq(S) /\ t \in Seq(S) /\ u \in Seq(S)
  BY DEF IsSeq
<1> HIDE DEF S
<1> QED BY <1>1, ConcatAssociative

(* One instruction is appended. *)
LEMMA JoinOne ==
  ASSUME NEW s, IsSeq(s), NEW e
  PROVE  Append(s, e) = s \o <<e>>
<1> DEFINE S == {s[i] : i \in DOMAIN s} \cup {e}
<1>1. s \in Seq(S) /\ e \in S
  BY DEF IsSeq
<1> HIDE DEF S
<1> QED BY <1>1, AppendIsConcat

(* Straight code that finds s on the stack and leaves t there; g is what is  *)
(* there before each instruction.                                            *)
Leads(T, e, g, i, t) ==
    /\ Fine(T, e[i]) /\ Fits(T, e[i], g[i])
    /\ e[i].op \notin Jumps \cup {"ret", "prologue"}
    /\ After(e[i], g[i]) = IF i < Len(e) THEN g[i+1] ELSE t
Run(T, s, t, e, g) ==
    /\ IsSeq(e) /\ IsSeq(g) /\ Len(g) = Len(e)
    /\ \A i \in 1..Len(e) : Leads(T, e, g, i, t)
    /\ IF Len(e) = 0 THEN s = t ELSE g[1] = s

(* One instruction. *)
LEMMA RunOne ==
  ASSUME NEW T, NEW s, NEW i, Fine(T, i), Fits(T, i, s), i.op \notin Jumps \cup {"ret", "prologue"}
  PROVE  Run(T, s, After(i, s), <<i>>, <<s>>)
<1> DEFINE e == <<i>>
           g == <<s>>
           t == After(i, s)
<1>1. IsSeq(e) /\ Len(e) = 1 /\ e[1] = i /\ IsSeq(g) /\ Len(g) = 1 /\ g[1] = s
      /\ \A n \in 1..1 : n = 1
  BY SingleFact
<1> HIDE DEF e, g, t
<1>2. Leads(T, e, g, 1, t)
  <2>1. ~ (1 < Len(e))
    BY <1>1
  <2>2. t = After(i, s)
    BY DEF t
  <2> QED BY <1>1, <2>1, <2>2, Zenon DEF Leads
<1>3. \A n \in 1..Len(e) : Leads(T, e, g, n, t)
  BY <1>1, <1>2
<1>4. Len(e) # 0
  BY <1>1
<1>5. Run(T, s, t, e, g)
  BY <1>1, <1>3, <1>4, Zenon DEF Run
<1> QED BY <1>5 DEF e, g, t

(* No instruction. *)
LEMMA RunNone ==
  ASSUME NEW T, NEW s
  PROVE  Run(T, s, s, <<>>, <<>>)
<1>1. <<>> \in Seq({}) /\ Len(<<>>) = 0 /\ \A i \in 1..0 : FALSE
  OBVIOUS
<1>2. IsSeq(<<>>)
  BY <1>1, SeqIs
<1> QED BY <1>1, <1>2, Zenon DEF Run

(* One piece after the other. *)
LEMMA RunJoin ==
  ASSUME NEW T, NEW r, NEW s, NEW t, NEW e, NEW g, Run(T, r, s, e, g),
         NEW f, NEW h, Run(T, s, t, f, h)
  PROVE  Run(T, r, t, e \o f, g \o h)
<1> DEFINE d == e \o f
           k == g \o h
<1>1. IsSeq(e) /\ IsSeq(f) /\ IsSeq(g) /\ IsSeq(h) /\ Len(g) = Len(e) /\ Len(h) = Len(f)
  BY DEF Run
<1>2. Len(e) \in Nat /\ Len(f) \in Nat
  BY <1>1, SeqFact
<1>3. /\ IsSeq(d) /\ Len(d) = Len(e) + Len(f)
      /\ \A i \in 1..Len(e) : d[i] = e[i]
      /\ \A i \in 1..Len(f) : d[Len(e) + i] = f[i]
  BY <1>1, ConcatFact
<1>4. /\ IsSeq(k) /\ Len(k) = Len(e) + Len(f)
      /\ \A i \in 1..Len(e) : k[i] = g[i]
      /\ \A i \in 1..Len(f) : k[Len(e) + i] = h[i]
  <2>1. /\ IsSeq(k) /\ Len(k) = Len(g) + Len(h)
        /\ \A i \in 1..Len(g) : k[i] = g[i]
        /\ \A i \in 1..Len(h) : k[Len(g) + i] = h[i]
    <3>1. IsSeq(g) /\ IsSeq(h)
      BY <1>1
    <3> QED BY <3>1, ConcatFact
  <2> QED BY <1>1, <2>1
<1> HIDE DEF d, k
<1>5. IF Len(f) = 0 THEN s = t ELSE k[Len(e) + 1] = s
  <2>1. IF Len(f) = 0 THEN s = t ELSE h[1] = s
    BY DEF Run
  <2>2. Len(f) # 0 => 1 \in 1..Len(f)
    BY <1>2
  <2> QED BY <1>4, <2>1, <2>2
<1>6. ASSUME NEW i \in 1..Len(e) PROVE Leads(T, d, k, i, t)
  <2>1. Leads(T, e, g, i, s)
    BY DEF Run
  <2>2. d[i] = e[i] /\ k[i] = g[i]
    BY <1>3, <1>4
  <2>3. (IF i < Len(d) THEN k[i+1] ELSE t) = (IF i < Len(e) THEN g[i+1] ELSE s)
    <3>1. CASE i < Len(e)
      <4>1. i + 1 \in 1..Len(e) /\ i < Len(d)
        BY <1>2, <1>3, <3>1
      <4> QED BY <1>4, <3>1, <4>1
    <3>2. CASE ~ (i < Len(e))
      <4>1. i = Len(e) /\ (i < Len(d) <=> Len(f) # 0)
        BY <1>2, <1>3, <3>2
      <4> QED BY <1>5, <3>2, <4>1
    <3> QED BY <3>1, <3>2
  <2> QED BY <2>1, <2>2, <2>3, Zenon DEF Leads
<1>7. ASSUME NEW i \in 1..Len(f) PROVE Leads(T, d, k, Len(e) + i, t)
  <2>1. Leads(T, f, h, i, t)
    BY DEF Run
  <2>2. d[Len(e) + i] = f[i] /\ k[Len(e) + i] = h[i]
    BY <1>3, <1>4
  <2>3. (IF Len(e) + i < Len(d) THEN k[Len(e) + i + 1] ELSE t) = (IF i < Len(f) THEN h[i+1] ELSE t)
    <3>1. CASE i < Len(f)
      <4>1. i + 1 \in 1..Len(f) /\ Len(e) + i < Len(d) /\ Len(e) + i + 1 = Len(e) + (i + 1)
        BY <1>2, <1>3, <3>1
      <4> QED BY <1>4, <3>1, <4>1
    <3>2. CASE ~ (i < Len(f))
      <4>1. ~ (Len(e) + i < Len(d))
        BY <1>2, <1>3, <3>2
      <4> QED BY <3>2, <4>1
    <3> QED BY <3>1, <3>2
  <2> QED BY <2>1, <2>2, <2>3, Zenon DEF Leads
<1>8. \A i \in 1..Len(d) : Leads(T, d, k, i, t)
  <2>1. ASSUME NEW i \in 1..Len(d), i \notin 1..Len(e) PROVE Leads(T, d, k, i, t)
    <3>1. i - Len(e) \in 1..Len(f) /\ Len(e) + (i - Len(e)) = i
      BY <1>2, <1>3, <2>1
    <3>2. Leads(T, d, k, Len(e) + (i - Len(e)), t)
      BY <1>7, <3>1
    <3> QED BY <3>1, <3>2
  <2> QED BY <1>6, <2>1
<1>9. IF Len(d) = 0 THEN r = t ELSE k[1] = r
  <2>1. IF Len(e) = 0 THEN r = s ELSE g[1] = r
    BY DEF Run
  <2>2. CASE Len(e) = 0
    <3>1. Len(d) = Len(f) /\ Len(e) + 1 = 1
      BY <1>2, <1>3, <2>2
    <3> QED BY <1>5, <2>1, <2>2, <3>1
  <2>3. CASE Len(e) # 0
    <3>1. 1 \in 1..Len(e) /\ Len(d) # 0
      BY <1>2, <1>3, <2>3
    <3> QED BY <1>4, <2>1, <2>3, <3>1
  <2> QED BY <2>2, <2>3
<1>10. Len(k) = Len(d)
  BY <1>3, <1>4
<1>11. Run(T, r, t, d, k)
  BY <1>3, <1>4, <1>8, <1>9, <1>10, Zenon DEF Run
<1> QED BY <1>11 DEF d, k

(* Code that begins and ends with nothing on the stack is a piece. *)
LEMMA RunPiece ==
  ASSUME NEW T, NEW s, NEW t, NEW e, NEW g, Run(T, s, t, e, g), Len(e) > 0, s.n = 0, t.n = 0,
         NEW c, NEW Q
  PROVE  Piece(T, c, Q, e, g)
<1>1. IsSeq(e) /\ IsSeq(g) /\ Len(g) = Len(e)
  BY DEF Run
<1>2. Len(e) \in Nat
  BY <1>1, SeqFact
<1>3. g[1].n = 0
  <2>1. g[1] = s
    BY <1>2 DEF Run
  <2> QED BY <2>1
<1>4. ASSUME NEW i \in 1..Len(e)
      PROVE  /\ Fine(T, e[i]) /\ Fits(T, e[i], g[i]) /\ e[i].op # "prologue"
             /\ e[i].op \notin {"jmp", "ret"} =>
                  IF i < Len(e) THEN Same(After(e[i], g[i]), g[i+1]) ELSE After(e[i], g[i]).n = 0
             /\ e[i].op \notin Jumps
  <2>1. Leads(T, e, g, i, t)
    BY DEF Run
  <2>2. /\ Fine(T, e[i]) /\ Fits(T, e[i], g[i]) /\ e[i].op \notin Jumps \cup {"ret", "prologue"}
        /\ After(e[i], g[i]) = IF i < Len(e) THEN g[i+1] ELSE t
    BY <2>1 DEF Leads
  <2>3. \A x : Same(x, x)
    BY DEF Same
  <2>4. IF i < Len(e) THEN Same(After(e[i], g[i]), g[i+1]) ELSE After(e[i], g[i]).n = 0
    BY <2>2, <2>3
  <2> QED BY <2>2, <2>4
<1> QED BY <1>1, <1>3, <1>4, Zenon DEF Piece

(* A place that is passed. *)
LEMMA PlaceFine ==
  ASSUME NEW T, Current \in DOMAIN T, NEW how, NEW item, NEW name,
         LocalItem(T, item, name, Current) \/ GlobalItem(item, name),
         \/ how = "copy slot" /\ item.mode = "local" /\ item.ref
         \/ how = "stack address" /\ item.mode = "local" /\ ~ item.ref
         \/ how = "data address" /\ item.mode = "global"
  PROVE  /\ Fine(T, Access(how, "pass place", item, name))
         /\ Access(how, "pass place", item, name).op = how
BY AccessFine, ZenonT(40)

(* What is on the stack while a call of p is compiled. *)
Holding(p, n) == [p |-> p, n |-> n]
(* It is a stack on which a call of p may be compiled. *)
LEMMA HoldingFact ==
  ASSUME NEW T, NEW p \in DOMAIN T, p # 0, NEW n \in Nat, n <= T[p].n + Links(T[p])
  PROVE  Held(T, Holding(p, n)) /\ Holding(p, n).p = p /\ Holding(p, n).n = n
BY DEF Held, Holding

(* An actual parameter is pushed. *)
LEMMA ActualRun ==
  ASSUME IInv, InBody, Liberties = {}, NEW T, NEW P, SInv(T, P), NEW d \in Visible, Usable(d),
         NEW p \in DOMAIN T, NEW n \in Nat, n < T[p].n, NEW kind, kind = T[p].symbols[n+1].kind
  PROVE  \E g : Run(T, Holding(p, n), Holding(p, n+1), Actual(kind, d), g)
<1> DEFINE s == Holding(p, n)
           t == Holding(p, n+1)
<1>1. Match(T) /\ Current \in DOMAIN T /\ Level > 0
  BY MappedBody
<1>2. LocalItem(T, Item(d), Name(d), Current) \/ GlobalItem(Item(d), Name(d))
  BY <1>1, ItemFact
<1>3. p # 0 /\ Laid(T[p])
  <2>1. DOMAIN T = 1..Len(procs)
    BY <1>1, MatchFact
  <2> QED BY <1>1, <2>1 DEF Match
<1>4. T[p].n \in 0..Len(T[p].symbols) /\ Links(T[p]) \in {0, 1} /\ IsSeq(T[p].symbols)
  BY <1>3 DEF Laid, Links
<1>5. Len(T[p].symbols) \in Nat /\ T[p].n \in Nat
  <2>1. Len(T[p].symbols) \in Nat
    BY <1>4, SeqFact
  <2> QED BY <1>4, <2>1
<1>6. kind \in Params
  <2>1. n + 1 \in 1..Len(T[p].symbols) /\ n + 1 <= T[p].n
    BY <1>4, <1>5
  <2> QED BY <1>3, <2>1 DEF Laid
<1>7. Held(T, s) /\ s.p = p /\ s.n = n /\ t = [p |-> s.p, n |-> s.n + 1]
  <2>1. n <= T[p].n + Links(T[p])
    BY <1>4, <1>5
  <2>2. s.p = p /\ s.n = n /\ t = [p |-> s.p, n |-> s.n + 1]
    BY DEF Holding
  <2> QED BY <1>3, <2>1, <2>2, HoldingFact
<1> HIDE DEF s, t
<1>8. CASE kind = "varparam"
  <2> DEFINE how == IF Item(d).ref /\ Item(d).mode = "local" THEN "copy slot"
                    ELSE IF Item(d).mode = "local" THEN "stack address" ELSE "data address"
             i == Access(how, "pass place", Item(d), Name(d))
  <2>1. Actual(kind, d) = <<i>>
    BY <1>8 DEF Actual, PassPlace
  <2>2. \/ how = "copy slot" /\ Item(d).mode = "local" /\ Item(d).ref
        \/ how = "stack address" /\ Item(d).mode = "local" /\ ~ Item(d).ref
        \/ how = "data address" /\ Item(d).mode = "global"
    BY <1>2 DEF LocalItem, GlobalItem
  <2> HIDE DEF how
  <2>3. Fine(T, i) /\ i.op = how
    BY <1>1, <1>2, <2>2, PlaceFine
  <2>4. i.op \in Places
    BY <2>2, <2>3 DEF Places
  <2> HIDE DEF i
  <2>5. Fits(T, i, s)
    <3>1. Passes(T, s, "varparam")
      BY <1>7, <1>8 DEF Passes
    <3>2. i.op \notin {"store", "jmp", "jz", "ret", "prologue", "save", "restore", "push", "push link", "call"}
      BY <2>4 DEF Places
    <3> QED BY <1>7, <3>1, <3>2 DEF Fits
  <2>6. After(i, s) = t /\ i.op \notin Jumps \cup {"ret", "prologue"}
    <3>1. /\ i.op \in Pushes /\ i.op \notin Jumps \cup {"ret", "prologue"}
          /\ i.op # "restore" /\ i.op # "call"
      BY <2>4 DEF Pushes, Places, Jumps
    <3>2. After(i, s) = [p |-> s.p, n |-> s.n + 1]
      BY <3>1 DEF After
    <3> QED BY <1>7, <3>1, <3>2
  <2>7. Run(T, s, t, <<i>>, <<s>>)
    BY <2>3, <2>5, <2>6, RunOne
  <2> QED BY <2>1, <2>7 DEF s, t
<1>9. CASE kind # "varparam"
  <2> DEFINE i == Load(d)
             j == Ins("push", [k |-> "pass value"])
  <2>1. kind = "param"
    BY <1>6, <1>9 DEF Params
  <2>2. Actual(kind, d) = <<i, j>>
    BY <1>9 DEF Actual
  <2>3. Fine(T, i) /\ i.op = "load"
    BY <1>1, <1>2, AccessFine DEF Load
  <2>4. Fine(T, j) /\ j.op = "push"
    BY <1>1, PlainFine DEF Ins
  <2> HIDE DEF i, j
  <2>5. Fits(T, i, s) /\ After(i, s) = s
    BY <1>7, <2>3 DEF Fits, Places, After, Pushes
  <2>6. Fits(T, j, s) /\ After(j, s) = t
    <3>1. Passes(T, s, "param")
      BY <1>7, <2>1 DEF Passes
    <3>2. Fits(T, j, s)
      BY <1>7, <2>4, <3>1 DEF Fits, Places
    <3>3. After(j, s) = t
      BY <1>7, <2>4 DEF After, Pushes
    <3> QED BY <3>2, <3>3
  <2>7. i.op \notin Jumps \cup {"ret", "prologue"} /\ j.op \notin Jumps \cup {"ret", "prologue"}
    BY <2>3, <2>4 DEF Jumps
  <2>8. Run(T, s, s, <<i>>, <<s>>) /\ Run(T, s, t, <<j>>, <<s>>)
    BY <2>3, <2>4, <2>5, <2>6, <2>7, RunOne
  <2>9. Run(T, s, t, <<i>> \o <<j>>, <<s>> \o <<s>>)
    BY <2>8, RunJoin
  <2>10. <<i>> \o <<j>> = <<i, j>>
    <3> DEFINE x == <<i>> \o <<j>>
               y == <<i, j>>
    <3>1. IsSeq(<<i>>) /\ IsSeq(<<j>>) /\ Len(<<i>>) = 1 /\ Len(<<j>>) = 1
          /\ <<i>>[1] = i /\ <<j>>[1] = j
      BY SingleFact
    <3>2. IsSeq(x) /\ Len(x) = 2 /\ x[1] = i /\ x[2] = j
      <4>1. /\ IsSeq(x) /\ Len(x) = Len(<<i>>) + Len(<<j>>)
            /\ \A m \in 1..Len(<<i>>) : x[m] = <<i>>[m]
            /\ \A m \in 1..Len(<<j>>) : x[Len(<<i>>) + m] = <<j>>[m]
        BY <3>1, ConcatFact
      <4> QED BY <3>1, <4>1
    <3>3. IsSeq(y) /\ Len(y) = 2 /\ y[1] = i /\ y[2] = j /\ \A m \in 1..2 : m = 1 \/ m = 2
      BY PairFact
    <3> HIDE DEF x, y
    <3>4. x = [m \in 1..2 |-> x[m]] /\ y = [m \in 1..2 |-> y[m]]
      BY <3>2, <3>3, SeqFact
    <3>5. \A m \in 1..2 : x[m] = y[m]
      BY <3>2, <3>3
    <3>6. x = y
      BY <3>4, <3>5
    <3> QED BY <3>6 DEF x, y
  <2> QED BY <2>2, <2>9, <2>10 DEF s, t
<1> QED BY <1>8, <1>9

(* So are the first ones of a call, one after the other. *)
LEMMA ActualsRun ==
  ASSUME IInv, InBody, Liberties = {}, NEW T, NEW P, SInv(T, P), NEW p \in DOMAIN T,
         NEW n \in Nat, n <= T[p].n,
         NEW ds, Len(ds) = n, \A i \in 1..n : ds[i] \in Visible /\ Usable(ds[i]),
         NEW kinds, \A i \in 1..n : kinds[i] = T[p].symbols[i].kind
  PROVE  \E g : Run(T, Holding(p, 0), Holding(p, n), Actuals(kinds, ds), g)
<1> DEFINE a == [i \in 1..n |-> Actual(kinds[i], ds[i])]
           Made(f) == f = [i \in 0..n |-> IF i = 0 THEN <<>>
                                          ELSE f[i-1] \o Actual(kinds[i], ds[i])]
           all == CHOOSE f : Made(f)
<1>1. \E f : Made(f)
  <2>1. PICK f : f = [i \in 0..n |-> IF i = 0 THEN <<>> ELSE f[i-1] \o a[i]]
    BY JoinExists
  <2>2. \A i \in 0..n : i # 0 => a[i] = Actual(kinds[i], ds[i])
    OBVIOUS
  <2> HIDE DEF a
  <2>3. ASSUME NEW i \in 0..n
        PROVE  (IF i = 0 THEN <<>> ELSE f[i-1] \o a[i])
               = IF i = 0 THEN <<>> ELSE f[i-1] \o Actual(kinds[i], ds[i])
    <3>1. CASE i = 0
      BY <3>1, Zenon
    <3>2. CASE i # 0
      BY <2>2, <3>2, Zenon
    <3> QED BY <3>1, <3>2
  <2>4. Made(f)
    BY <2>1, <2>3
  <2> QED BY <2>4, Zenon
<1>2. Made(all)
  BY <1>1, Zenon
<1>3. Actuals(kinds, ds) = all[n]
  BY DEF Actuals
<1> HIDE DEF all
<1> DEFINE Short(i) == \E g : Run(T, Holding(p, 0), Holding(p, i), all[i], g)
           S == {i \in 0..n : ~ Short(i)}
<1> HIDE DEF Short
<1>4. S = {}
  <2> SUFFICES ASSUME S # {} PROVE FALSE
    OBVIOUS
  <2>1. PICK m \in S : \A k \in S : m <= k
    <3>1. S \in SUBSET Nat
      OBVIOUS
    <3> HIDE DEF S
    <3> QED BY <3>1, LeastFact
  <2>2. m \in 0..n /\ ~ Short(m)
    OBVIOUS
  <2>3. m # 0
    <3>1. ASSUME m = 0 PROVE FALSE
      <4>1. all[0] = <<>>
        BY <1>2
      <4>2. Run(T, Holding(p, 0), Holding(p, 0), <<>>, <<>>)
        BY RunNone
      <4>3. Short(0)
        BY <4>1, <4>2 DEF Short
      <4> QED BY <2>2, <3>1, <4>3
    <3> QED BY <3>1
  <2>4. m - 1 \in 0..n /\ m - 1 \notin S
    <3>1. m - 1 \in 0..n /\ ~ (m <= m - 1)
      BY <2>2, <2>3
    <3> HIDE DEF S
    <3> QED BY <2>1, <3>1
  <2>5. PICK g : Run(T, Holding(p, 0), Holding(p, m-1), all[m-1], g)
    <3>1. Short(m-1)
      BY <2>4
    <3> QED BY <3>1 DEF Short
  <2>6. all[m] = all[m-1] \o Actual(kinds[m], ds[m])
    BY <1>2, <2>2, <2>3
  <2>7. PICK h : Run(T, Holding(p, m-1), Holding(p, m), Actual(kinds[m], ds[m]), h)
    <3>1. m - 1 \in Nat /\ m - 1 < T[p].n /\ (m - 1) + 1 = m /\ m \in 1..n
      <4>1. T[p].n \in Int
        <5>1. Match(T)
          BY DEF SInv
        <5>2. Laid(T[p])
          BY <5>1 DEF Match
        <5>3. Len(T[p].symbols) \in Nat /\ T[p].n \in 0..Len(T[p].symbols)
          <6>1. IsSeq(T[p].symbols) /\ T[p].n \in 0..Len(T[p].symbols)
            BY <5>2 DEF Laid
          <6> QED BY <6>1, SeqFact
        <5> QED BY <5>3
      <4> QED BY <2>2, <2>3, <4>1
    <3>2. kinds[m] = T[p].symbols[m].kind /\ ds[m] \in Visible /\ Usable(ds[m])
      BY <3>1
    <3>3. kinds[m] = T[p].symbols[(m-1)+1].kind
      BY <3>1, <3>2
    <3>4. \E h : Run(T, Holding(p, m-1), Holding(p, (m-1)+1), Actual(kinds[m], ds[m]), h)
      BY <3>1, <3>2, <3>3, ActualRun
    <3> QED BY <3>1, <3>4
  <2>8. Run(T, Holding(p, 0), Holding(p, m), all[m], g \o h)
    BY <2>5, <2>6, <2>7, RunJoin
  <2> QED BY <2>2, <2>8 DEF Short
<1>5. Short(n)
  BY <1>4
<1> QED BY <1>3, <1>5 DEF Short

(* A procedure has the parameters that its row says. *)
LEMMA ParamsFact ==
  ASSUME IInv, NEW T, Match(T), NEW p \in DOMAIN procs
  PROVE  /\ NParams(p) = T[p].n /\ T[p].n \in Nat /\ p \in DOMAIN T /\ p # 0
         /\ T[p].n <= Len(T[p].symbols) /\ IsSeq(T[p].symbols) /\ Len(T[p].symbols) \in Nat
         /\ Laid(T[p]) /\ RowOf(T[p], procs[p])
         /\ \A i \in 1..T[p].n : /\ procs[p].symbols[i].kind = T[p].symbols[i].kind
                                 /\ T[p].symbols[i].kind \in Params
<1> DEFINE r == T[p]
           y == procs[p].symbols
<1>1. p \in DOMAIN T /\ p # 0 /\ Laid(r) /\ RowOf(r, procs[p])
  <2>1. DOMAIN T = DOMAIN procs /\ DOMAIN T = 1..Len(procs)
    BY MatchFact
  <2> QED BY <2>1 DEF Match
<1>2. IsSeq(y)
  BY DEF IInv, ProcsKnown
<1>3. Len(y) \in Nat /\ DOMAIN y = 1..Len(y)
  BY <1>2, SeqFact
<1>4. IsSeq(r.symbols) /\ r.n \in 0..Len(r.symbols)
      /\ \A i \in 1..Len(r.symbols) : r.symbols[i].kind \in Params <=> i <= r.n
  BY <1>1 DEF Laid
<1>5. Len(r.symbols) \in Nat /\ r.n \in Nat /\ r.n <= Len(r.symbols)
  <2>1. Len(r.symbols) \in Nat
    BY <1>4, SeqFact
  <2> QED BY <1>4, <2>1
<1>6. /\ r.n <= Len(y) /\ Len(y) <= Len(r.symbols)
      /\ \A i \in 1..Len(y) : y[i] = r.symbols[i]
  BY <1>1 DEF RowOf
<1>7. {i \in DOMAIN y : y[i].kind \in Params} = 1..r.n
  <2>1. ASSUME NEW i \in DOMAIN y PROVE y[i].kind \in Params <=> i \in 1..r.n
    <3>1. i \in 1..Len(r.symbols) /\ y[i] = r.symbols[i] /\ i >= 1 /\ i \in Nat
      BY <1>3, <1>5, <1>6
    <3> QED BY <1>4, <1>5, <3>1
  <2>2. 1..r.n \subseteq DOMAIN y
    BY <1>3, <1>5, <1>6
  <2> HIDE DEF y, r
  <2> QED BY <2>1, <2>2
<1>8. NParams(p) = r.n
  <2>1. Cardinality(1..r.n) = IF 1 > r.n THEN 0 ELSE r.n - 1 + 1
    <3>1. 1 \in Int /\ r.n \in Int
      BY <1>5
    <3> QED BY <3>1, FS_Interval
  <2>2. NParams(p) = Cardinality(1..r.n)
    BY <1>7 DEF NParams
  <2> QED BY <1>5, <2>1, <2>2
<1>9. \A i \in 1..r.n : y[i].kind = r.symbols[i].kind /\ r.symbols[i].kind \in Params
  <2>1. \A i \in 1..r.n : i \in 1..Len(y) /\ i \in 1..Len(r.symbols) /\ i <= r.n
    BY <1>3, <1>5, <1>6
  <2> QED BY <1>4, <1>6, <2>1
<1> QED BY <1>1, <1>4, <1>5, <1>8, <1>9

(* A visible procedure is declared in an open scope or in the module. *)
LEMMA CalleeChain ==
  ASSUME IInv, NEW T, Match(T), NEW p \in VisibleProcs, T[p].outer # 0
  PROVE  Chain(T, Current, Level - procs[p].level, T[p].outer) /\ Level - procs[p].level \in Nat
<1>1. p \in DOMAIN procs /\ procs[p].outer \in Open \cup {0}
  BY DEF VisibleProcs
<1>2. T[p].outer = procs[p].outer /\ T[p].level = procs[p].level /\ p \in DOMAIN T
  BY <1>1, ParamsFact DEF RowOf
<1>3. PICK l \in 1..Level : scopes[l].proc = T[p].outer
  BY <1>1, <1>2 DEF Open
<1>4. T[T[p].outer].level = l - 1 /\ T[p].level = T[T[p].outer].level + 1
  <2>1. ScopeOf(T, scopes, l)
    BY MatchFact
  <2>2. T[T[p].outer].level = l - 1
    BY <1>3, <2>1 DEF ScopeOf
  <2> QED BY <1>2, <2>2 DEF Match, Enclosed
<1>5. procs[p].level = l
  BY <1>2, <1>4
<1> QED BY <1>3, <1>5, ScopeChain

(* The static link is pushed last, if there is one. *)
LEMMA LinkRun ==
  ASSUME IInv, InBody, NEW T, NEW P, SInv(T, P), NEW p \in VisibleProcs, NEW factor,
         NEW link, link = IF procs[p].has_sl /\ ~(factor /\ procs[p].is_far)
                          THEN <<PushStaticLink(p)>> ELSE <<>>
  PROVE  \E g : Run(T, Holding(p, T[p].n), Holding(p, T[p].n + Links(T[p])), link, g)
<1> DEFINE s == Holding(p, T[p].n)
           x == PushStaticLink(p)
<1>1. Match(T) /\ Current \in DOMAIN T /\ p \in DOMAIN procs
  BY MappedBody DEF VisibleProcs
<1>2. /\ p \in DOMAIN T /\ p # 0 /\ T[p].n \in Nat /\ Laid(T[p]) /\ RowOf(T[p], procs[p])
  BY <1>1, ParamsFact
<1>3. procs[p].has_sl = (T[p].outer # 0) /\ procs[p].is_far = T[p].far
  BY <1>2 DEF RowOf
<1>4. T[p].outer # 0 => ~ T[p].far
  BY <1>2 DEF Laid
<1>5. CASE T[p].outer = 0
  <2>1. link = <<>>
    BY <1>3, <1>5
  <2>2. T[p].n + Links(T[p]) = T[p].n
    BY <1>2, <1>5 DEF Links
  <2>3. Run(T, s, s, <<>>, <<>>)
    BY RunNone
  <2> QED BY <2>1, <2>2, <2>3
<1>6. CASE T[p].outer # 0
  <2>1. link = <<x>>
    BY <1>3, <1>4, <1>6
  <2>2. Links(T[p]) = 1
    BY <1>6 DEF Links
  <2>3. Held(T, s) /\ s.p = p /\ s.n = T[p].n /\ Holding(p, T[p].n + 1) = [p |-> s.p, n |-> s.n + 1]
    <3>1. T[p].n <= T[p].n + Links(T[p])
      BY <1>2, <2>2
    <3>2. Holding(p, T[p].n + 1) = [p |-> s.p, n |-> s.n + 1]
      BY DEF Holding
    <3> QED BY <1>2, <3>1, <3>2, HoldingFact
  <2>4. x.op = "push link" /\ x.of = Current /\ x.src = None /\ x.hops = Level - procs[p].level
    BY DEF PushStaticLink
  <2> HIDE DEF s, x
  <2>5. Fine(T, x)
    <3>1. x.op \in DOMAIN Source /\ Source[x.op] = "none"
      BY <2>4, SourceFact DEF Plains
    <3>2. x.op \notin Accesses \cup {"copy slot", "stack address", "data address", "call", "prologue", "ret"}
      BY <2>4 DEF Accesses
    <3>3. x.src.k = "none"
      <4>1. None.k = "none"
        BY DEF None
      <4> QED BY <2>4, <4>1, Zenon
    <3> QED BY <1>1, <2>4, <3>1, <3>2, <3>3 DEF Fine
  <2>6. Fits(T, x, s)
    <3>1. Chain(T, Current, x.hops, T[p].outer) /\ x.hops \in Nat
      BY <1>1, <1>6, <2>4, CalleeChain
    <3> QED BY <1>2, <1>6, <2>3, <2>4, <3>1 DEF Fits, Places
  <2>7. After(x, s) = Holding(p, T[p].n + 1)
    BY <2>3, <2>4 DEF After, Pushes
  <2>8. x.op \notin Jumps \cup {"ret", "prologue"}
    BY <2>4 DEF Jumps
  <2>9. Run(T, s, After(x, s), <<x>>, <<s>>)
    BY <2>5, <2>6, <2>8, RunOne
  <2> QED BY <2>1, <2>2, <2>7, <2>9 DEF s
<1> QED BY <1>5, <1>6

(* A call. *)
LEMMA InvokeMap ==
  ASSUME IInv, IInv', Liberties = {}, NEW T, NEW P, SInv(T, P),
         NEW p \in DOMAIN procs, NEW ds \in [1..NParams(p) -> Visible], Invoke(p, ds)
  PROVE  \E Q : SInv(T, Q)'
<1> DEFINE q == procs[p]
           r == T[p]
           kinds == [i \in DOMAIN ds |-> q.symbols[i].kind]
           factor == text[pos].k = "factor"
           link == IF q.has_sl /\ ~(factor /\ q.is_far) THEN <<PushStaticLink(p)>> ELSE <<>>
           actuals == Actuals(kinds, ds)
           before == code \o actuals \o link
           at == Len(before) + 1
           call == [op |-> "call", of |-> Current, src |-> [k |-> "call", p |-> p],
                    far |-> q.is_far, to |-> IF q.fwd_decl THEN at + 1 ELSE q.code_ofs]
<1>1. /\ InBody /\ p \in VisibleProcs /\ (\A i \in DOMAIN ds : Usable(ds[i]))
      /\ code' = Append(before, call)
      /\ procs' = IF q.fwd_decl THEN [procs EXCEPT ![p].fwd_patches = @ \cup {at}] ELSE procs
      /\ UNCHANGED scopes
  BY StatementFact DEF Invoke
<1>2. /\ Match(T) /\ Current \in DOMAIN T /\ Current # 0 /\ Level > 0
      /\ T[Current].symbols = Top.symbols /\ Laid(T[Current])
      /\ Charted(T, P, code, P) /\ IsSeq(code) /\ Len(code) \in Nat /\ DOMAIN code = 1..Len(code)
  BY <1>1, MappedBody
<1>3. /\ NParams(p) = r.n /\ r.n \in Nat /\ p \in DOMAIN T /\ p # 0 /\ RowOf(r, q) /\ Laid(r)
      /\ \A i \in 1..r.n : q.symbols[i].kind = r.symbols[i].kind
  BY <1>2, ParamsFact, SMTT(30)
<1>4. IsSeq(ds) /\ Len(ds) = r.n /\ \A i \in 1..r.n : ds[i] \in Visible /\ Usable(ds[i])
  <2>1. ds = [i \in 1..r.n |-> ds[i]] /\ DOMAIN ds = 1..r.n /\ \A i \in 1..r.n : ds[i] \in Visible
    BY <1>3
  <2>2. IsSeq(ds) /\ Len(ds) = r.n
    BY <1>3, <2>1, MadeSeq
  <2> QED BY <1>1, <2>1, <2>2
<1>5. PICK g : Run(T, Holding(p, 0), Holding(p, r.n), actuals, g)
  <2>1. \A i \in 1..r.n : kinds[i] = r.symbols[i].kind
    <3>1. DOMAIN ds = 1..r.n
      BY <1>3
    <3> QED BY <1>3, <3>1
  <2>2. r.n <= r.n
    BY <1>3
  <2> HIDE DEF kinds
  <2> QED BY <1>1, <1>3, <1>4, <2>1, <2>2, ActualsRun
<1>6. PICK h : Run(T, Holding(p, r.n), Holding(p, r.n + Links(r)), link, h)
  BY <1>1, LinkRun
<1> HIDE DEF link, actuals
<1>7. \E k : Run(T, Holding(p, r.n + Links(r)), Holding(p, 0), <<call>>, k)
  <2> DEFINE s == Holding(p, r.n + Links(r))
  <2>1. Held(T, s) /\ s.p = p /\ s.n = r.n + Links(r) /\ Holding(p, 0) = [p |-> s.p, n |-> 0]
    <3>1. r.n + Links(r) \in Nat /\ r.n + Links(r) <= r.n + Links(r)
      BY <1>3 DEF Links
    <3>2. Holding(p, 0) = [p |-> s.p, n |-> 0]
      BY DEF Holding
    <3> QED BY <1>3, <3>1, <3>2, HoldingFact
  <2>2. /\ call.op = "call" /\ call.of = Current /\ call.src = [k |-> "call", p |-> p]
        /\ call.far = q.is_far /\ "far" \in DOMAIN call
    OBVIOUS
  <2> HIDE DEF s, call
  <2>3. call.src.k = "call" /\ call.src.p = p
    BY <2>2
  <2>4. Fine(T, call)
    <3>1. call.op \in DOMAIN Source /\ Source[call.op] = "call"
      BY <2>2, SourceFact
    <3>2. call.op \notin Accesses \cup {"copy slot", "stack address", "data address", "prologue", "ret"}
      BY <2>2 DEF Accesses
    <3>3. call.far = T[p].far
      BY <1>3, <2>2 DEF RowOf
    <3> QED BY <1>2, <1>3, <2>2, <2>3, <3>1, <3>2, <3>3 DEF Fine
  <2>5. Fits(T, call, s)
    BY <2>1, <2>2, <2>3 DEF Fits, Places
  <2>6. After(call, s) = Holding(p, 0)
    BY <2>1, <2>2 DEF After, Pushes, Places
  <2>7. call.op \notin Jumps \cup {"ret", "prologue"}
    BY <2>2 DEF Jumps
  <2>8. Run(T, s, After(call, s), <<call>>, <<s>>)
    BY <2>4, <2>5, <2>7, RunOne
  <2> QED BY <2>6, <2>8 DEF s
<1>8. PICK k : Run(T, Holding(p, r.n + Links(r)), Holding(p, 0), <<call>>, k)
  BY <1>7
<1>9. call.op = "call"
  OBVIOUS
<1> HIDE DEF call
<1> DEFINE e == actuals \o (link \o <<call>>)
<1>10. \E m : Run(T, Holding(p, 0), Holding(p, 0), e, m)
  <2> DEFINE f == link \o <<call>>
  <2>1. Run(T, Holding(p, r.n), Holding(p, 0), f, h \o k)
    BY <1>6, <1>8, RunJoin
  <2> HIDE DEF f
  <2>2. Run(T, Holding(p, 0), Holding(p, 0), actuals \o f, g \o (h \o k))
    BY <1>5, <2>1, RunJoin
  <2> QED BY <2>2 DEF f
<1>11. PICK m : Run(T, Holding(p, 0), Holding(p, 0), e, m)
  BY <1>10
<1>12. IsSeq(actuals) /\ IsSeq(link) /\ IsSeq(<<call>>)
  BY <1>5, <1>6, <1>8 DEF Run
<1>13. code' = code \o e
  <2>1. IsSeq(code \o actuals) /\ IsSeq(link \o <<call>>)
    BY <1>2, <1>12, ConcatFact
  <2>2. IsSeq(before)
    BY <1>12, <2>1, ConcatFact
  <2>3. Append(before, call) = before \o <<call>>
    BY <2>2, JoinOne
  <2>4. before \o <<call>> = (code \o actuals) \o (link \o <<call>>)
    <3> DEFINE x == code \o actuals
               z == <<call>>
    <3>1. IsSeq(x) /\ IsSeq(link) /\ IsSeq(z)
      BY <1>12, <2>1
    <3> HIDE DEF x, z
    <3>2. (x \o link) \o z = x \o (link \o z)
      BY <3>1, JoinAssoc
    <3> QED BY <3>2 DEF x, z
  <2>5. (code \o actuals) \o (link \o <<call>>) = code \o e
    <3> DEFINE z == link \o <<call>>
    <3>1. IsSeq(code) /\ IsSeq(actuals) /\ IsSeq(z)
      BY <1>2, <1>12, <2>1
    <3> HIDE DEF z
    <3>2. (code \o actuals) \o z = code \o (actuals \o z)
      BY <3>1, JoinAssoc, SMTT(30)
    <3> QED BY <3>2 DEF z
  <2> QED BY <1>1, <2>3, <2>4, <2>5
<1>14. Len(e) > 0
  <2>1. IsSeq(link \o <<call>>) /\ Len(link \o <<call>>) = Len(link) + 1
    <3>1. Len(<<call>>) = 1
      BY SingleFact
    <3> QED BY <1>12, <3>1, ConcatFact
  <2>2. Len(e) = Len(actuals) + Len(link \o <<call>>)
    BY <1>12, <2>1, ConcatFact
  <2>3. Len(actuals) \in Nat /\ Len(link) \in Nat
    BY <1>12, SeqFact
  <2> QED BY <2>1, <2>2, <2>3
<1> HIDE DEF e, at
<1>15. Piece(T, code, P, e, m)
  <2>1. Holding(p, 0).n = 0
    BY DEF Holding
  <2> QED BY <1>11, <1>14, <2>1, RunPiece
<1> DEFINE Q == P \o m
<1>16. /\ Sound(T, code', Q, Skips)
       /\ \A t \in 1..Len(code)+1 : Clear(code, P, t) => Clear(code', Q, t)
  <2>1. Flows(code, Current, Skips) /\ Sound(T, code, P, Skips)
    BY <1>2, ChartFact
  <2> QED BY <1>13, <1>15, <2>1, SoundEmit
<1> HIDE DEF Q
<1>17. HeadsKept
  <2>1. CASE ~ q.fwd_decl
    BY <1>1, <2>1, HeadsSame
  <2>2. CASE q.fwd_decl
    <3> DEFINE z == [q EXCEPT !.fwd_patches = @ \cup {at}]
    <3>1. procs' = [procs EXCEPT ![p] = z]
      BY <1>1, <2>2
    <3>2. IsSeq(procs)
      BY DEF IInv, ProcsKnown
    <3>3. SameHead(q, z) /\ \A i : SameHead(procs[i], procs[i])
      <4>1. DOMAIN z = DOMAIN q /\ \A f \in DOMAIN q : f # "fwd_patches" => z[f] = q[f]
        OBVIOUS
      <4>2. HeadFields \cup ProcFields \subseteq DOMAIN q
        BY <1>3 DEF RowOf, IInv, ProcsKnown
      <4>3. /\ \A f \in {"outer", "level", "is_far", "has_sl", "arg_size", "exported", "symbols"} :
                 f \in HeadFields \cup ProcFields /\ f # "fwd_patches"
        BY DEF HeadFields, ProcFields
      <4> HIDE DEF z, q
      <4>4. \A f \in {"outer", "level", "is_far", "has_sl", "arg_size", "exported", "symbols"} : z[f] = q[f]
        BY <4>1, <4>2, <4>3
      <4> QED BY <4>1, <4>4 DEF SameHead
    <3> HIDE DEF z
    <3>4. IsSeq(procs') /\ Len(procs') = Len(procs) /\ procs'[p] = z
          /\ \A i \in DOMAIN procs : i # p => procs'[i] = procs[i]
      BY <3>1, <3>2, ExceptFact
    <3>5. \A i \in DOMAIN procs : SameHead(procs[i], procs'[i])
      BY <3>3, <3>4
    <3> QED BY <3>4, <3>5, Zenon DEF HeadsKept
  <2> QED BY <2>1, <2>2
<1>18. FramesEven'
  <2>1. \A i \in 1..Len(e) : e[i].op # "prologue"
    BY <1>15 DEF Piece
  <2>2. IsSeq(e)
    BY <1>15 DEF Piece
  <2>3. Len(e) \in Nat
    BY <2>2, SeqFact
  <2>4. /\ IsSeq(code') /\ Len(code') = Len(code) + Len(e)
        /\ \A i \in 1..Len(code) : code'[i] = code[i]
        /\ \A i \in 1..Len(e) : code'[Len(code) + i] = e[i]
    BY <1>2, <1>13, <2>2, ConcatFact
  <2>5. DOMAIN code' = 1..Len(code)+Len(e)
    BY <2>4, SeqFact
  <2>6. ASSUME NEW a \in DOMAIN code', code'[a].op = "prologue" PROVE Even(code'[a].size)
    <3>1. CASE a \in 1..Len(code)
      BY <1>2, <2>4, <2>6, <3>1 DEF SInv, FramesEven
    <3>2. CASE a \notin 1..Len(code)
      <4>1. a - Len(code) \in 1..Len(e) /\ Len(code) + (a - Len(code)) = a
        BY <1>2, <2>3, <2>5, <3>2
      <4>2. code'[a] = e[a - Len(code)]
        BY <2>4, <4>1
      <4> QED BY <2>1, <2>6, <4>1, <4>2
    <3> QED BY <3>1, <3>2
  <2> QED BY <2>6 DEF FramesEven
<1>19. SInv(T, Q)'
  <2>1. /\ DOMAIN scopes = 1..Level /\ Level \in 1..Level
        /\ Top = scopes[Level] /\ DOMAIN Top = ScopeFields /\ Top.begun = TRUE
    BY <1>1, BodyFact
  <2>2. scopes' = [scopes EXCEPT ![Level] = Top]
    <3>1. IsSeq(scopes)
      BY Zenon DEF IInv, ScopesOpen
    <3>2. scopes = [l \in 1..Level |-> scopes[l]]
      BY <3>1, SeqFact DEF Level
    <3> QED BY <1>1, <2>1, <3>2
  <2>3. Restated(Top, Top) /\ Even(Top.local_top)
    <3>1. ScopeOf(T, scopes, Level)
      BY <1>2, <2>1, MatchFact
    <3> QED BY <2>1, <3>1 DEF Restated, ScopeOf
  <2>4. Regrown(T, T, Current, Top.symbols) /\ Prefix(Top.symbols, Top.symbols)
    <3>1. IsSeq(T)
      BY <1>2 DEF Match
    <3>2. Prefix(Top.symbols, Top.symbols)
      BY <1>1, <1>2, OldNoted
    <3> QED BY <1>2, <3>1, <3>2, Zenon DEF Regrown
  <2>5. \A i \in DOMAIN Top.nest : Noted(Level, Top.symbols, code', Q, Top.nest[i])
    <3>1. \A i \in DOMAIN Nest : Construct(code, Current, Nest[i])
      BY <1>1, BodyFact
    <3>2. ASSUME NEW i \in DOMAIN Nest PROVE Noted(Level, Top.symbols, code', Q, Nest[i])
      <4>1. Noted(Level, Top.symbols, code, P, Nest[i])
        BY <1>1 DEF SInv, Nested
      <4> QED BY <1>2, <1>16, <2>4, <3>1, <4>1, NotedGrown
    <3> QED BY <3>2 DEF Nest
  <2> QED BY <1>1, <1>2, <1>16, <1>17, <1>18, <2>2, <2>3, <2>4, <2>5, BodyMap
<1> QED BY <1>19

(* Every statement keeps the maps. *)
LEMMA StatementsMap ==
  ASSUME IInv, IInv', Liberties = {}, NEW T, NEW P, SInv(T, P), CompileStatement
  PROVE  \E U, Q : SInv(U, Q)'
<1>1. CASE \E d \in Visible : Assign(d) \/ For(d) \/ Case(d)
  BY <1>1, AssignMap, ForMap, CaseOfMap
<1>2. CASE \E p \in DOMAIN procs : \E ds \in [1..NParams(p) -> Visible] : Invoke(p, ds)
  BY <1>2, InvokeMap
<1>3. CASE Return
  BY <1>3, ReturnMap
<1>4. CASE If \/ While \/ Repeat
  BY <1>4, OpenMap
<1>5. CASE Elsif \/ Else \/ EndIf
  BY <1>5, IfMap
<1>6. CASE WhileElsif \/ EndWhile \/ Until
  BY <1>6, LoopMap
<1>7. CASE EndFor
  BY <1>7, EndForMap
<1>8. CASE Arm \/ EndCaseArm \/ CaseElse \/ EndCase
  BY <1>8, CaseMap
<1> QED BY <1>1, <1>2, <1>3, <1>4, <1>5, <1>6, <1>7, <1>8 DEF CompileStatement

-----------------------------------------------------------------------------
(* The declarations keep the maps *)

(* A local variable is declared. *)
LEMMA DeclareVarMap ==
  ASSUME IInv, NEW T, NEW P, SInv(T, P), DeclareVar
  PROVE  \E U : SInv(U, P)'
<1> DEFINE s == AllocLocal(Top, "var")
<1>1. /\ ~ InBody /\ Level > 0 /\ scopes' = [scopes EXCEPT ![Level] = AllocLocal(@, "var")]
      /\ UNCHANGED <<procs, code>>
  BY DEF DeclareVar, Declaration, Parse
<1>2. /\ IsSeq(scopes) /\ Level \in Nat /\ DOMAIN scopes = 1..Level
      /\ Level \in 1..Level /\ Top = scopes[Level] /\ DOMAIN Top = ScopeFields
      /\ ~ Top.begun
  BY <1>1, OutFact
<1>3. Top.local_top \in Int /\ Holds(-Top.local_top, Top.symbols)
  BY <1>2, Zenon DEF IInv, FramesFit
<1>4. /\ DOMAIN s = ScopeFields
      /\ \A f \in ScopeFields \ {"symbols", "local_top"} : s[f] = Top[f]
  BY <1>2, <1>3, AllocFact
<1>5. scopes' = [scopes EXCEPT ![Level] = s]
  BY <1>1, <1>2
<1>6. /\ Even(s.local_top) /\ s.proc = Top.proc /\ Prefix(Top.symbols, s.symbols)
      /\ \E U : Regrown(T, U, Current, s.symbols) /\ Laid(U[Current])
  <2>1. "var" \notin Params /\ Match(T)
    BY DEF Params, SInv
  <2> QED BY <1>1, <2>1, AllocTable
<1> HIDE DEF s
<1>7. PICK U : Regrown(T, U, Current, s.symbols) /\ Laid(U[Current])
  BY <1>6
<1>8. /\ IsSeq(scopes') /\ Level' = Level /\ scopes'[Level] = s
      /\ \A l \in 1..Level : l # Level => scopes'[l] = scopes[l]
  <2> DEFINE t == [scopes EXCEPT ![Level] = s]
  <2>1. /\ IsSeq(t) /\ Len(t) = Len(scopes) /\ t[Level] = s
        /\ \A l \in DOMAIN scopes : l # Level => t[l] = scopes[l]
    <3>1. IsSeq(scopes) /\ Level \in DOMAIN scopes
      BY <1>2
    <3> QED BY <3>1, ExceptFact
  <2> HIDE DEF t
  <2>2. scopes' = t
    BY <1>5 DEF t
  <2> QED BY <1>2, <2>1, <2>2, Zenon DEF Level
<1>9. \A l \in 1..Level :
         /\ scopes'[l].proc = scopes[l].proc /\ scopes'[l].begun = scopes[l].begun
         /\ scopes'[l].skip_nested = scopes[l].skip_nested
  <2>1. s.proc = Top.proc /\ s.begun = Top.begun /\ s.skip_nested = Top.skip_nested
    BY <1>4 DEF ScopeFields
  <2> QED BY <1>2, <1>8, <2>1, Zenon
<1>10. ~ InBody' /\ Skips' = Skips /\ Open' = Open
  <2>1. ~ InBody'
    BY <1>2, <1>8, <1>9, Zenon DEF InBody, Top
  <2>2. Skips' = Skips
    BY <1>8, <1>9 DEF Skips
  <2>3. Open' = Open
    BY <1>8, <1>9 DEF Open
  <2> QED BY <2>1, <2>2, <2>3
<1>11. Match(U)' /\ Extends(T, U)
  <2>1. HeadsKept
    BY <1>1, HeadsSame
  <2>2. \A l \in 1..Level : l < Level => scopes'[l] = scopes[l]
    BY <1>2, <1>8
  <2>3. Match(T)
    BY DEF SInv
  <2> QED BY <1>1, <1>5, <1>6, <1>7, <1>8, <1>10, <2>1, <2>2, <2>3, MatchRegrown
<1>12. Sound(U, code', P, Skips')
  <2>1. Sound(T, code, P, Skips) /\ \A p \in DOMAIN T : Laid(T[p])
    BY DEF SInv, Match
  <2>2. Sound(U, code, P, Skips)
    BY <1>11, <2>1, SoundExtends
  <2> QED BY <1>1, <1>10, <2>2
<1>13. Nested(P)' /\ FramesEven'
  <2>1. FramesEven
    BY DEF SInv
  <2> QED BY <1>1, <1>10, <2>1, Zenon DEF Nested, FramesEven
<1>14. SInv(U, P)'
  BY <1>11, <1>12, <1>13, Zenon DEF SInv
<1> QED BY <1>14

(* The sums of a list of numbers exist. *)
Sums(f, a, n) == f = [i \in 0..n |-> IF i = 0 THEN 0 ELSE f[i-1] + a[i]]
(* The function is defined by its least counterexample. *)
LEMMA SumsExist ==
  ASSUME NEW a, NEW n \in Nat
  PROVE  \E f : Sums(f, a, n)
<1> DEFINE T == {m \in Nat : ~ \E f : f = [i \in 0..m |-> IF i = 0 THEN 0 ELSE f[i-1] + a[i]]}
<1>1. SUFFICES ASSUME T # {} PROVE FALSE
  <2>1. ASSUME T = {} PROVE \E f : f = [i \in 0..n |-> IF i = 0 THEN 0 ELSE f[i-1] + a[i]]
    BY <2>1
  <2> QED BY <2>1, Zenon DEF Sums
<1>2. PICK m \in T : \A k \in T : m <= k
  BY <1>1, LeastFact
<1>3. CASE m = 0
  <2> DEFINE g == [i \in 0..0 |-> 0]
  <2>1. g = [i \in 0..0 |-> IF i = 0 THEN 0 ELSE g[i-1] + a[i]]
    OBVIOUS
  <2> QED BY <1>3, <2>1
<1>4. CASE m # 0
  <2>1. m - 1 \in Nat /\ m - 1 \notin T
    <3>1. m \in Nat /\ m - 1 \in Nat /\ ~ (m <= m - 1)
      BY <1>4
    <3> HIDE DEF T
    <3> QED BY <1>2, <3>1
  <2>2. PICK f : f = [i \in 0..m-1 |-> IF i = 0 THEN 0 ELSE f[i-1] + a[i]]
    BY <2>1
  <2> DEFINE g == [i \in 0..m |-> IF i = m THEN f[m-1] + a[m] ELSE f[i]]
  <2>3. \A i \in 0..m : i # 0 => i - 1 \in 0..m /\ i - 1 # m
    BY <1>2
  <2>4. ASSUME NEW i \in 0..m
        PROVE  g[i] = IF i = 0 THEN 0 ELSE g[i-1] + a[i]
    <3>1. CASE i = m
      <4>1. g[i] = f[m-1] + a[m] /\ g[i-1] = f[i-1]
        BY <1>4, <2>3, <3>1
      <4> QED BY <1>4, <3>1, <4>1
    <3>2. CASE i # m
      <4>1. i \in 0..m-1
        BY <1>2, <3>2
      <4>2. f[i] = IF i = 0 THEN 0 ELSE f[i-1] + a[i]
        BY <2>2, <4>1
      <4>3. g[i] = f[i] /\ (i # 0 => g[i-1] = f[i-1])
        BY <2>3, <3>2
      <4> QED BY <4>2, <4>3, Zenon
    <3> QED BY <3>1, <3>2
  <2>5. g = [i \in 0..m |-> g[i]]
    OBVIOUS
  <2> HIDE DEF g
  <2>6. g = [i \in 0..m |-> IF i = 0 THEN 0 ELSE g[i-1] + a[i]]
    BY <2>4, <2>5, Zenon
  <2> QED BY <1>2, <2>6
<1> QED BY <1>3, <1>4

(* Sums of parameter sizes are even and grow. *)
LEMMA SumsFact ==
  ASSUME NEW n \in Nat, NEW a, \A i \in 1..n : a[i] \in {2, 4}, NEW f, Sums(f, a, n)
  PROVE  /\ f[0] = 0 /\ \A i \in 1..n : f[i] = f[i-1] + a[i]
         /\ \A i \in 0..n : f[i] \in Nat /\ f[i] % 2 = 0
         /\ \A i, j \in 0..n : i <= j => f[i] <= f[j]
<1>1. f = [i \in 0..n |-> IF i = 0 THEN 0 ELSE f[i-1] + a[i]]
  BY DEF Sums
<1>2. f[0] = 0 /\ \A i \in 1..n : f[i] = f[i-1] + a[i]
  BY <1>1
<1> DEFINE Good(i) == f[i] \in Nat /\ f[i] % 2 = 0 /\ \A k \in 0..i : f[k] <= f[i]
           S == {i \in 0..n : ~ Good(i)}
<1> HIDE DEF Good
<1>3. S = {}
  <2> SUFFICES ASSUME S # {} PROVE FALSE
    OBVIOUS
  <2>1. PICK m \in S : \A k \in S : m <= k
    <3>1. S \in SUBSET Nat
      OBVIOUS
    <3> HIDE DEF S
    <3> QED BY <3>1, LeastFact
  <2>2. m \in 0..n /\ ~ Good(m)
    OBVIOUS
  <2>3. CASE m = 0
    <3>1. Good(0)
      BY <1>2 DEF Good
    <3> QED BY <2>2, <2>3, <3>1
  <2>4. CASE m # 0
    <3>1. m - 1 \in 0..n /\ m - 1 \notin S
      <4>1. m - 1 \in 0..n /\ ~ (m <= m - 1)
        BY <2>2, <2>4
      <4> HIDE DEF S
      <4> QED BY <2>1, <4>1
    <3>2. f[m-1] \in Nat /\ f[m-1] % 2 = 0 /\ \A k \in 0..m-1 : f[k] <= f[m-1]
      BY <3>1 DEF Good
    <3>3. f[m] = f[m-1] + a[m] /\ a[m] \in {2, 4} /\ m \in 1..n
      BY <1>2, <2>2, <2>4
    <3>4. f[m] \in Nat /\ f[m-1] <= f[m]
      BY <3>2, <3>3
    <3>5. f[m] % 2 = 0
      <4>1. \A x \in Nat : x % 2 = 0 => (x + 2) % 2 = 0 /\ (x + 4) % 2 = 0
        OBVIOUS
      <4> QED BY <3>2, <3>3, <4>1
    <3>6. ASSUME NEW k \in 0..m PROVE f[k] <= f[m]
      <4>1. CASE k = m
        BY <3>4, <4>1
      <4>2. CASE k # m
        <5>1. k \in 0..m-1
          BY <2>2, <4>2
        <5>2. k \in 0..n /\ k \notin S
          <6>1. k \in 0..n /\ ~ (m <= k)
            BY <2>2, <5>1
          <6> HIDE DEF S
          <6> QED BY <2>1, <6>1
        <5>3. f[k] \in Nat /\ f[k] <= f[m-1]
          BY <3>2, <5>1, <5>2 DEF Good
        <5> QED BY <3>2, <3>4, <5>3
      <4> QED BY <4>1, <4>2
    <3>7. Good(m)
      BY <3>4, <3>5, <3>6 DEF Good
    <3> QED BY <2>2, <3>7
  <2> QED BY <2>3, <2>4
<1>4. \A i \in 0..n : Good(i)
  BY <1>3
<1>5. \A i \in 0..n : f[i] \in Nat /\ f[i] % 2 = 0
  BY <1>4 DEF Good
<1>6. \A i, j \in 0..n : i <= j => f[i] <= f[j]
  <2>1. ASSUME NEW i \in 0..n, NEW j \in 0..n, i <= j PROVE f[i] <= f[j]
    <3>1. i \in 0..j
      BY <2>1
    <3> QED BY <1>4, <3>1 DEF Good
  <2> QED BY <2>1
<1> QED BY <1>2, <1>5, <1>6

(* The sums of the end of a list are those of the list less the ones before. *)
Shifted(n, a, f, k, b, g) ==
    /\ n \in Nat /\ k \in 0..n
    /\ \A i \in 1..n : a[i] \in {2, 4}
    /\ \A j \in 1..n-k : b[j] = a[k+j]
    /\ Sums(f, a, n) /\ Sums(g, b, n-k)
(* Dropping the first k numbers takes their sum away. *)
LEMMA SumsShift ==
  ASSUME NEW n, NEW a, NEW f, NEW k, NEW b, NEW g, Shifted(n, a, f, k, b, g)
  PROVE  g[n-k] = f[n] - f[k]
<1>0. /\ n \in Nat /\ k \in 0..n
      /\ \A i \in 1..n : a[i] \in {2, 4}
      /\ \A j \in 1..n-k : b[j] = a[k+j]
      /\ Sums(f, a, n) /\ Sums(g, b, n-k)
  BY DEF Shifted
<1>1. /\ f[0] = 0 /\ \A i \in 1..n : f[i] = f[i-1] + a[i]
      /\ \A i \in 0..n : f[i] \in Nat
  <2>1. /\ f[0] = 0 /\ \A i \in 1..n : f[i] = f[i-1] + a[i]
        /\ \A i \in 0..n : f[i] \in Nat /\ f[i] % 2 = 0
        /\ \A i, j \in 0..n : i <= j => f[i] <= f[j]
    BY <1>0, SumsFact, Zenon
  <2> QED BY <2>1
<1>2. g = [i \in 0..n-k |-> IF i = 0 THEN 0 ELSE g[i-1] + b[i]]
  BY <1>0 DEF Sums
<1>3. g[0] = 0 /\ \A i \in 1..n-k : g[i] = g[i-1] + b[i]
  BY <1>0, <1>2
<1> DEFINE S == {i \in 0..n-k : g[i] # f[k+i] - f[k]}
<1>4. S = {}
  <2> SUFFICES ASSUME S # {} PROVE FALSE
    OBVIOUS
  <2>1. PICK m \in S : \A i \in S : m <= i
    <3>1. S \in SUBSET Nat
      BY <1>0
    <3> HIDE DEF S
    <3> QED BY <3>1, LeastFact
  <2>2. m \in 0..n-k /\ g[m] # f[k+m] - f[k]
    OBVIOUS
  <2>3. m # 0
    BY <1>0, <1>1, <1>3, <2>2
  <2>4. m - 1 \in 0..n-k /\ m - 1 \notin S
    <3>1. m - 1 \in 0..n-k /\ ~ (m <= m - 1)
      BY <1>0, <2>2, <2>3
    <3> HIDE DEF S
    <3> QED BY <2>1, <3>1
  <2>5. g[m-1] = f[k+(m-1)] - f[k]
    BY <2>4
  <2>6. g[m] = g[m-1] + b[m] /\ b[m] = a[k+m]
    <3>1. m \in 1..n-k
      BY <1>0, <2>2, <2>3
    <3> QED BY <1>0, <1>3, <3>1
  <2>7. f[k+m] = f[k+m-1] + a[k+m] /\ k + (m - 1) = k + m - 1 /\ a[k+m] \in {2, 4}
        /\ f[k+m-1] \in Nat
    <3>1. k + m \in 1..n /\ k + m - 1 \in 0..n
      BY <1>0, <2>2, <2>3
    <3> QED BY <1>0, <1>1, <2>2, <2>3, <3>1
  <2>8. f[k] \in Nat
    BY <1>0, <1>1
  <2> QED BY <2>2, <2>5, <2>6, <2>7, <2>8
<1>5. n - k \in 0..n-k /\ k + (n - k) = n
  BY <1>0
<1> QED BY <1>4, <1>5

Sizes(p) == [i \in 1..Len(p) |-> SlotSize(p[i])]
(* The bytes of parameters are the last sum of their sizes. *)
LEMMA BytesFact ==
  ASSUME NEW p, Len(p) \in Nat
  PROVE  \E f : Sums(f, Sizes(p), Len(p)) /\ Bytes(p) = f[Len(p)]
<1> DEFINE n == Len(p)
           a == Sizes(p)
           Made(f) == f = [i \in 0..n |-> IF i = 0 THEN 0 ELSE f[i-1] + SlotSize(p[i])]
           sum == CHOOSE f : Made(f)
<1>1. \A i \in 0..n : i # 0 => a[i] = SlotSize(p[i])
  BY DEF Sizes
<1> HIDE DEF a
<1>2. ASSUME NEW f PROVE Sums(f, a, n) <=> Made(f)
  <2>1. \A i \in 0..n : (IF i = 0 THEN 0 ELSE f[i-1] + a[i])
                        = IF i = 0 THEN 0 ELSE f[i-1] + SlotSize(p[i])
    BY <1>1
  <2>2. [i \in 0..n |-> IF i = 0 THEN 0 ELSE f[i-1] + a[i]]
        = [i \in 0..n |-> IF i = 0 THEN 0 ELSE f[i-1] + SlotSize(p[i])]
    BY <2>1, Zenon
  <2> QED BY <2>2, Zenon DEF Sums
<1>3. \E f : Made(f)
  <2>1. PICK f : Sums(f, a, n)
    BY SumsExist
  <2>2. Made(f)
    BY <1>2, <2>1
  <2> QED BY <2>2, Zenon
<1>4. Made(sum)
  BY <1>3, Zenon
<1>5. Bytes(p) = sum[n]
  BY DEF Bytes
<1> HIDE DEF sum, Made
<1>6. Sums(sum, a, n)
  BY <1>2, <1>4
<1> QED BY <1>5, <1>6 DEF a

(* The bytes of the last parameters. *)
LEMMA BytesRest ==
  ASSUME NEW p \in Seq(Params)
  PROVE  \E f : /\ Bytes(p) = f[Len(p)] /\ f[0] = 0 /\ Len(p) \in Nat
                /\ \A i \in 0..Len(p) : f[i] \in Nat /\ f[i] % 2 = 0
                /\ \A i, j \in 0..Len(p) : i <= j => f[i] <= f[j]
                /\ \A i \in 1..Len(p) : f[i] = f[i-1] + SlotSize(p[i])
                /\ \A i \in 1..Len(p) : Bytes(SubSeq(p, i + 1, Len(p))) = f[Len(p)] - f[i]
<1> DEFINE n == Len(p)
           a == Sizes(p)
<1>1. n \in Nat /\ DOMAIN p = 1..n /\ \A i \in 1..n : p[i] \in Params
  OBVIOUS
<1>2. \A i \in 1..n : a[i] = SlotSize(p[i]) /\ a[i] \in {2, 4}
  BY DEF Sizes, SlotSize
<1>3. PICK f : Sums(f, a, n) /\ Bytes(p) = f[n]
  BY <1>1, BytesFact
<1>4. ASSUME NEW k \in 1..n PROVE Bytes(SubSeq(p, k + 1, n)) = f[n] - f[k]
  <2> DEFINE q == SubSeq(p, k + 1, n)
  <2>1. Len(q) = n - k /\ n - k \in Nat /\ k \in 0..n /\ \A j \in 1..n-k : q[j] = p[k+j]
    <3>1. k + 1 \in 1..n+1 /\ n \in (k+1)-1..n
      BY <1>1
    <3>2. /\ Len(q) = IF k + 1 <= n THEN n - (k + 1) + 1 ELSE 0
          /\ \A j \in 1..n-(k+1)+1 : q[j] = p[(k+1)+j-1]
      BY <3>1, SubSeqProperties
    <3>3. \A j \in 1..n-k : j \in 1..n-(k+1)+1 /\ (k+1)+j-1 = k + j
      BY <1>1
    <3> HIDE DEF q, n
    <3>4. Len(q) = n - k /\ n - k \in Nat /\ k \in 0..n
      BY <1>1, <3>2
    <3>5. ASSUME NEW j \in 1..n-k PROVE q[j] = p[k+j]
      BY <3>2, <3>3
    <3> QED BY <3>4, <3>5
  <2> HIDE DEF q
  <2>2. PICK g : Sums(g, Sizes(q), n - k) /\ Bytes(q) = g[n-k]
    BY <2>1, BytesFact
  <2>3. \A j \in 1..n-k : Sizes(q)[j] = a[k+j]
    <3>1. ASSUME NEW j \in 1..n-k PROVE Sizes(q)[j] = a[k+j]
      <4>1. Sizes(q)[j] = SlotSize(q[j])
        BY <2>1 DEF Sizes
      <4>2. k + j \in 1..n
        BY <1>1, <2>1
      <4>3. a[k+j] = SlotSize(p[k+j])
        BY <1>2, <4>2
      <4> QED BY <2>1, <4>1, <4>3
    <3> QED BY <3>1
  <2> DEFINE b == Sizes(q)
  <2> HIDE DEF a
  <2>4. g[n-k] = f[n] - f[k]
    <3>1. \A i \in 1..n : a[i] \in {2, 4}
      BY <1>2
    <3>2. \A j \in 1..n-k : b[j] = a[k+j]
      BY <2>3
    <3>3. Sums(g, b, n-k) /\ Sums(f, a, n)
      BY <1>3, <2>2
    <3>4. Shifted(n, a, f, k, b, g)
      BY <1>1, <2>1, <3>1, <3>2, <3>3, Zenon DEF Shifted
    <3> QED BY <3>4, SumsShift
  <2> QED BY <2>2, <2>4 DEF q
<1> HIDE DEF a
<1>5. /\ f[0] = 0 /\ \A i \in 1..n : f[i] = f[i-1] + a[i]
      /\ \A i \in 0..n : f[i] \in Nat /\ f[i] % 2 = 0
      /\ \A i, j \in 0..n : i <= j => f[i] <= f[j]
  BY <1>1, <1>2, <1>3, SumsFact, Zenon
<1>6. \A i \in 1..n : f[i] = f[i-1] + SlotSize(p[i])
  BY <1>2, <1>5
<1> QED BY <1>1, <1>3, <1>4, <1>5, <1>6

(* The row of a procedure that is declared. *)
RowFor(q) == [outer |-> q.outer, level |-> q.level, far |-> q.is_far, args |-> q.arg_size,
              n |-> Len(q.symbols), symbols |-> q.symbols]

(* The sums f of the sizes of the parameters z of a row. *)
Summed(f, z, n) ==
    /\ n \in Nat /\ f[0] = 0
    /\ \A i \in 0..n : f[i] \in Nat /\ f[i] % 2 = 0
    /\ \A i, j \in 0..n : i <= j => f[i] <= f[j]
    /\ \A i \in 1..n : f[i] = f[i-1] + SlotSize(z[i].kind)

(* Parameters below each other are laid out as a row says. *)
LEMMA LaidParams ==
  ASSUME NEW r, IsSeq(r.symbols), r.n = Len(r.symbols), r.outer # 0 => ~ r.far,
         \A i \in 1..r.n : r.symbols[i].kind \in Params,
         NEW f, Summed(f, r.symbols, r.n), r.args \in Int, Above(r) = Base(r) + f[r.n],
         \A i \in 1..r.n : r.symbols[i].adr = Base(r) + (f[r.n] - f[i])
  PROVE  Laid(r)
<1> DEFINE n == r.n
           z == r.symbols
           b == Base(r)
           a == Above(r)
<1>1. b \in {4, 6}
  BY DEF Base
<1> HIDE DEF b, a, z, n
<1>2. /\ n \in Nat /\ f[0] = 0
      /\ \A i \in 0..n : f[i] \in Nat /\ f[i] % 2 = 0
      /\ \A i, j \in 0..n : i <= j => f[i] <= f[j]
      /\ \A i \in 1..n : f[i] = f[i-1] + SlotSize(z[i].kind)
  BY Zenon DEF Summed, n, z
<1>3. \A i \in 1..n : z[i].adr = b + (f[n] - f[i]) /\ z[i].kind \in Params
  BY DEF n, z, b
<1>4. a = b + f[n] /\ n = Len(z)
  BY DEF n, a, b, z
<1>5. n \in 0..n /\ f[n] \in Nat /\ f[n] % 2 = 0 /\ \A i \in 1..n : i \in 0..n /\ i - 1 \in 0..n
  BY <1>2
<1>6. Even(a)
  <2>1. \A x \in Nat : x % 2 = 0 => (4 + x) % 2 = 0 /\ (6 + x) % 2 = 0
    OBVIOUS
  <2>2. a \in Int /\ a % 2 = 0
    BY <1>1, <1>4, <1>5, <2>1
  <2> QED BY <2>2 DEF Even
<1>7. \A i \in 1..n : SlotSize(z[i].kind) \in {2, 4}
  BY DEF SlotSize
<1>8. ASSUME NEW i \in 1..n
      PROVE  /\ z[i].kind \in Params <=> i <= n
             /\ Even(z[i].adr) /\ b <= z[i].adr /\ End(z[i]) <= a
             /\ End(z[i]) = b + (f[n] - f[i-1]) /\ z[i].adr \in Int
  <2>1. f[i] \in Nat /\ f[i-1] \in Nat /\ f[i] <= f[n] /\ f[i] % 2 = 0 /\ f[i-1] <= f[i]
    <3>1. i \in 0..n /\ i - 1 \in 0..n /\ i - 1 <= i /\ i <= n
      BY <1>2
    <3> QED BY <1>2, <1>5, <3>1
  <2>2. z[i].adr = b + (f[n] - f[i])
    BY <1>3
  <2>3. f[i] = f[i-1] + SlotSize(z[i].kind) /\ SlotSize(z[i].kind) \in {2, 4}
    BY <1>2, <1>7
  <2>4. /\ b + (f[n] - f[i]) \in Int /\ (b + (f[n] - f[i])) % 2 = 0
        /\ b <= b + (f[n] - f[i])
        /\ (b + (f[n] - f[i])) + SlotSize(z[i].kind) = b + (f[n] - f[i-1])
        /\ b + (f[n] - f[i-1]) <= b + f[n]
    <3> DEFINE fn == f[n]
               fi == f[i]
               fk == f[i-1]
               s == SlotSize(z[i].kind)
    <3>1. fn \in Nat /\ fi \in Nat /\ fk \in Nat /\ fi = fk + s /\ fi <= fn
          /\ fn % 2 = 0 /\ fi % 2 = 0
      BY <1>5, <2>1, <2>3
    <3>2. s \in {2, 4}
      BY <2>3
    <3> HIDE DEF fn, fi, fk, s
    <3>3. /\ b + (fn - fi) \in Int /\ (b + (fn - fi)) % 2 = 0 /\ b <= b + (fn - fi)
          /\ (b + (fn - fi)) + s = b + (fn - fk) /\ b + (fn - fk) <= b + fn
      <4>1. b \in {4, 6}
        BY <1>1
      <4> QED BY <3>1, <3>2, <4>1
    <3> QED BY <3>3, Zenon DEF fn, fi, fk, s
  <2>9. End(z[i]) = z[i].adr + SlotSize(z[i].kind)
    BY DEF End
  <2>5. End(z[i]) = b + (f[n] - f[i-1])
    BY <2>2, <2>4, <2>9, Zenon
  <2>10. Even(z[i].adr)
    BY <2>2, <2>4, Zenon DEF Even
  <2>6. b <= z[i].adr /\ End(z[i]) <= a
    BY <1>4, <2>2, <2>4, <2>5, Zenon
  <2>7. z[i].kind \in Params /\ i <= n
    BY <1>3
  <2>8. z[i].adr \in Int
    BY <2>10 DEF Even
  <2> QED BY <2>5, <2>6, <2>7, <2>8, <2>10
<1>9. ASSUME NEW i \in 1..n, NEW j \in 1..n, i < j PROVE End(z[j]) <= z[i].adr
  <2>1. f[i] \in Nat /\ f[j-1] \in Nat /\ f[i] <= f[j-1]
    <3>1. i \in 0..n /\ j - 1 \in 0..n /\ i <= j - 1
      BY <1>2, <1>9
    <3> QED BY <1>2, <3>1
  <2>2. End(z[j]) = b + (f[n] - f[j-1]) /\ z[i].adr = b + (f[n] - f[i])
    BY <1>3, <1>8
  <2> QED BY <1>1, <1>5, <2>1, <2>2, SMTT(30)
<1>10. ASSUME NEW i \in 1..n-1 PROVE End(z[i+1]) = z[i].adr
  <2>1. i \in 1..n /\ i + 1 \in 1..n /\ (i + 1) - 1 = i
    BY <1>2
  <2>2. End(z[i+1]) = b + (f[n] - f[i]) /\ z[i].adr = b + (f[n] - f[i])
    BY <1>3, <1>8, <2>1
  <2> QED BY <2>2
<1>11. IF n = 0 THEN b = a ELSE z[n].adr = b /\ End(z[1]) = a
  <2>1. CASE n = 0
    BY <1>1, <1>2, <1>4, <2>1
  <2>2. CASE n # 0
    <3>1. n \in 1..n /\ 1 \in 1..n
      BY <1>2, <2>2
    <3>2. z[n].adr = b + (f[n] - f[n])
      BY <1>3, <3>1
    <3>3. End(z[1]) = b + (f[n] - f[0])
      <4>1. End(z[1]) = b + (f[n] - f[1-1])
        BY <1>8, <3>1
      <4> QED BY <4>1
    <3> QED BY <1>1, <1>2, <1>4, <1>5, <2>2, <3>2, <3>3
  <2> QED BY <2>1, <2>2
<1>12. \A i \in 1..n : (z[i].kind \in Params <=> i <= n) /\ Even(z[i].adr)
  BY <1>8
<1>13. \A i \in 1..n : b <= z[i].adr /\ End(z[i]) <= a
  BY <1>8
<1>14. n \in 0..Len(z) /\ r.args \in Int /\ (r.outer # 0 => ~ r.far) /\ IsSeq(z)
  BY <1>4, <1>5 DEF z
<1>15. \A i, j \in 1..n : i < j => End(z[j]) <= z[i].adr
  BY <1>9
<1>16. \A i \in 1..n-1 : End(z[i+1]) = z[i].adr
  BY <1>10
<1>17. \A i \in 1..Len(z) : (z[i].kind \in Params <=> i <= n) /\ Even(z[i].adr)
  BY <1>4, <1>12
<1> QED BY <1>6, <1>11, <1>13, <1>14, <1>15, <1>16, <1>17, Zenon DEF Laid, a, b, n, z

(* A new procedure, and its row: an exported one is not nested, and a nested *)
(* one is near.                                                              *)
LEMMA NewRow ==
  ASSUME IInv, pos \in DOMAIN text, NEW T, Match(T), Level > 0 => ~ NewProc(text[pos].heading).is_far
  PROVE  LET q == NewProc(text[pos].heading) IN
         /\ Laid(RowFor(q)) /\ RowOf(RowFor(q), q)
         /\ q.outer = Current /\ q.level = Level
<1> DEFINE h == text[pos].heading
           q == NewProc(h)
<1>1. h \in Headings
  <2> DEFINE C == [k : STRING, heading : Headings]
  <2>1. text \in Seq(C)
    BY ProceduresAssumption, Zenon DEF IInv
  <2>2. \A c \in C : c.heading \in Headings
    BY Zenon
  <2> HIDE DEF C
  <2>3. text[pos] \in C
    BY <2>1
  <2> QED BY <2>2, <2>3, Zenon
<1>2. h.params \in Seq(Params) /\ h.exported \in BOOLEAN
  BY <1>1, Zenon DEF Headings
<1>3. Level > 0 => ~ q.is_far
  OBVIOUS
<1>4. (Level > 0) = (Current # 0) /\ Level \in Nat
  BY MatchFact
<1> HIDE DEF h
<1> DEFINE far == h.modifier = "FAR" \/ h.exported
           sl == ~ h.exported /\ Level > 0
           n == Len(h.params)
           s == [i \in DOMAIN h.params |->
                    [kind |-> h.params[i], adr |-> ParamAdr(h, far, sl, i)]]
<1>5. /\ q.outer = Current /\ q.level = Level /\ q.exported = h.exported /\ q.is_far = far
      /\ q.has_sl = sl /\ q.arg_size = ArgSize(h, sl) /\ q.symbols = s
      /\ HeadFields \subseteq DOMAIN q
  BY DEF NewProc, HeadFields
<1> HIDE DEF q
<1>6. far \in BOOLEAN /\ (h.exported => far) /\ sl = (Current # 0) /\ (Current # 0 => ~ far)
      /\ (Level > 0 => ~ far)
  <2>1. far \in BOOLEAN /\ (h.exported => far)
    BY <1>2
  <2>2. Level > 0 => ~ far
    BY <1>3, <1>5, Zenon
  <2>3. sl = (Level > 0)
    BY <1>2, <2>1, <2>2
  <2> QED BY <1>4, <2>1, <2>2, <2>3, Zenon
<1> HIDE DEF far, sl
<1>7. /\ n \in Nat /\ DOMAIN h.params = 1..n /\ s = [i \in 1..n |-> s[i]]
      /\ \A i \in 1..n : s[i] = [kind |-> h.params[i], adr |-> ParamAdr(h, far, sl, i)]
      /\ \A i \in 1..n : h.params[i] \in Params
  BY <1>2
<1>8. PICK f : /\ Bytes(h.params) = f[n] /\ f[0] = 0
               /\ \A k \in 0..n : f[k] \in Nat /\ f[k] % 2 = 0
               /\ \A j, k \in 0..n : j <= k => f[j] <= f[k]
               /\ \A k \in 1..n : f[k] = f[k-1] + SlotSize(h.params[k])
               /\ \A k \in 1..n : Bytes(SubSeq(h.params, k + 1, n)) = f[n] - f[k]
  BY <1>2, BytesRest
<1> HIDE DEF n, s
<1>9. IsSeq(s) /\ Len(s) = n
  BY <1>7, MadeSeq
<1>10. \A i \in 1..n : s[i].kind = h.params[i] /\ s[i].adr = ParamAdr(h, far, sl, i)
  BY <1>7
<1> DEFINE r == RowFor(q)
<1>11. /\ r.outer = Current /\ r.level = Level /\ r.far = far /\ r.args = ArgSize(h, sl)
       /\ r.n = n /\ r.symbols = s
  BY <1>5, <1>9 DEF RowFor
<1> HIDE DEF r
<1>12. Base(r) = IF far \/ sl THEN 6 ELSE 4
  BY <1>6, <1>11 DEF Base
<1>13. f[n] \in Nat
  BY <1>7, <1>8
<1>14. r.args \in Int /\ Above(r) = Base(r) + f[r.n]
  <2>1. ArgSize(h, sl) = f[n] + IF sl THEN 2 ELSE 0
    BY <1>8 DEF ArgSize
  <2>2. Above(r) = 4 + (IF far THEN 2 ELSE 0) + (f[n] + IF sl THEN 2 ELSE 0)
    BY <1>11, <2>1 DEF Above
  <2>3. ~ (far /\ sl)
    BY <1>6
  <2> DEFINE x == f[n]
  <2>4. x \in Nat
    BY <1>13
  <2> HIDE DEF x
  <2>5. 4 + (IF far THEN 2 ELSE 0) + (x + IF sl THEN 2 ELSE 0) = (IF far \/ sl THEN 6 ELSE 4) + x
        /\ x + (IF sl THEN 2 ELSE 0) \in Int
    BY <1>6, <2>3, <2>4
  <2> QED BY <1>11, <1>12, <2>1, <2>2, <2>5, Zenon DEF x
<1>15. ASSUME NEW i \in 1..n PROVE s[i].adr = Base(r) + (f[n] - f[i])
  <2>1. s[i].adr = (IF far \/ sl THEN 6 ELSE 4) + Bytes(SubSeq(h.params, i + 1, n))
    BY <1>10 DEF ParamAdr, n
  <2> QED BY <1>8, <1>12, <2>1, Zenon
<1>16. Summed(f, s, n)
  <2>1. \A i \in 1..n : f[i] = f[i-1] + SlotSize(s[i].kind)
    BY <1>8, <1>10
  <2> QED BY <1>7, <1>8, <2>1, Zenon DEF Summed
<1>17. Laid(r)
  <2>1. IsSeq(r.symbols) /\ r.n = Len(r.symbols)
    BY <1>9, <1>11, Zenon
  <2>2. r.outer # 0 => ~ r.far
    BY <1>6, <1>11, Zenon
  <2>3. \A i \in 1..r.n : r.symbols[i].kind \in Params
    BY <1>7, <1>10, <1>11
  <2>4. \A i \in 1..r.n : r.symbols[i].adr = Base(r) + (f[r.n] - f[i])
    BY <1>11, <1>15
  <2>5. Summed(f, r.symbols, r.n)
    BY <1>11, <1>16, Zenon
  <2> QED BY <1>14, <2>1, <2>2, <2>3, <2>4, <2>5, LaidParams
<1>18. RowOf(r, q)
  <2>1. r.outer = q.outer /\ r.level = q.level /\ r.far = q.is_far /\ r.args = q.arg_size
        /\ q.is_far \in BOOLEAN /\ q.has_sl = (q.outer # 0) /\ (q.exported => q.is_far)
    BY <1>5, <1>6, <1>11, Zenon
  <2>2. r.n <= Len(q.symbols) /\ Len(q.symbols) <= Len(r.symbols)
    BY <1>5, <1>7, <1>9, <1>11
  <2>3. \A i \in 1..Len(q.symbols) : q.symbols[i] = r.symbols[i]
    BY <1>5, <1>11, Zenon
  <2> QED BY <1>5, <2>1, <2>2, <2>3, Zenon DEF RowOf
<1> QED BY <1>5, <1>17, <1>18 DEF r, q, h

(* A row for a new procedure of the current one. *)
LEMMA RowAdded ==
  ASSUME IInv, NEW T, Match(T), NEW r, r.outer = Current, r.level = Level
  PROVE  LET U == Append(T, r) IN
         /\ Extends(T, U) /\ Enclosed(U) /\ IsSeq(U)
         /\ Len(U) = Len(procs) + 1 /\ DOMAIN U = DOMAIN procs \cup {Len(procs) + 1}
         /\ \A p \in DOMAIN procs : U[p] = T[p]
         /\ U[Len(procs) + 1] = r
<1> DEFINE U == Append(T, r)
           n == Len(procs)
<1>1. /\ IsSeq(T) /\ Len(T) = n /\ Enclosed(T) /\ n \in Nat
      /\ DOMAIN T = 1..n /\ DOMAIN procs = 1..n
      /\ Level \in Nat /\ (Level = 0 => Current = 0) /\ (Level > 0 => Level \in 1..Level)
  BY MatchFact DEF Match
<1>2. Level > 0 => /\ Current \in DOMAIN T /\ Current # 0 /\ T[Current].level = Level - 1
  <2>1. SUFFICES ASSUME Level > 0
                 PROVE  Current \in DOMAIN T /\ Current # 0 /\ T[Current].level = Level - 1
    OBVIOUS
  <2>2. /\ Current \in DOMAIN T /\ Current # 0 /\ Level \in 1..Level /\ Current = scopes[Level].proc
        /\ ScopeOf(T, scopes, Level)
    BY <2>1, MatchFact
  <2> QED BY <2>2 DEF ScopeOf
<1>3. /\ IsSeq(U) /\ Len(U) = n + 1 /\ U[n+1] = r
      /\ \A p \in 1..n : U[p] = T[p]
  <2>1. IsSeq(T)
    BY <1>1
  <2> QED BY <1>1, <2>1, AppendFact
<1> HIDE DEF U, n
<1>4. /\ DOMAIN U = 1..n+1 /\ DOMAIN U = DOMAIN T \cup {n + 1}
      /\ \A p \in DOMAIN T : U[p] = T[p]
      /\ DOMAIN T \subseteq DOMAIN U /\ n + 1 \in DOMAIN U
  <2>1. DOMAIN U = 1..n+1
    BY <1>3, SeqFact, Zenon
  <2>2. 1..n+1 = 1..n \cup {n + 1}
    BY <1>1
  <2> QED BY <1>1, <1>3, <2>1, <2>2
<1>5. Extends(T, U)
  <2>1. Len(T) <= Len(U)
    BY <1>1, <1>3
  <2> QED BY <1>1, <1>3, <1>4, <2>1 DEF Extends
<1>6. Enclosed(U)
  <2>1. ASSUME NEW p \in DOMAIN T
        PROVE  /\ U[p].level \in Nat
               /\ IF U[p].outer = 0 THEN U[p].level = 0
                  ELSE U[p].outer \in DOMAIN U /\ U[p].level = U[U[p].outer].level + 1
    BY <1>1, <1>4, ZenonT(40) DEF Enclosed
  <2>2. /\ U[n+1].level \in Nat
        /\ IF U[n+1].outer = 0 THEN U[n+1].level = 0
           ELSE U[n+1].outer \in DOMAIN U /\ U[n+1].level = U[U[n+1].outer].level + 1
    <3>1. CASE Level = 0
      BY <1>1, <1>3, <3>1
    <3>2. CASE Level > 0
      <4>1. Current \in DOMAIN U /\ U[Current].level + 1 = Level
        BY <1>1, <1>2, <1>4, <3>2
      <4> QED BY <1>1, <1>2, <1>3, <3>2, <4>1
    <3> QED BY <1>1, <3>1, <3>2
  <2> QED BY <1>4, <2>1, <2>2, Zenon DEF Enclosed
<1> QED BY <1>1, <1>3, <1>4, <1>5, <1>6, Zenon DEF U, n

(* The scopes keep their rows. *)
LEMMA ScopesKept ==
  ASSUME IInv, NEW T, Match(T), NEW U, \A p \in DOMAIN T : U[p] = T[p],
         NEW s, \A l \in 1..Level : s[l] = scopes[l]
  PROVE  \A l \in 1..Level : ScopeOf(U, s, l)
<1> SUFFICES ASSUME NEW l \in 1..Level PROVE ScopeOf(U, s, l)
  OBVIOUS
<1>1. ScopeOf(T, scopes, l) /\ scopes[l].proc \in DOMAIN T /\ Level \in Nat
  BY MatchFact
<1>2. s[l] = scopes[l] /\ (l # 1 => s[l-1] = scopes[l-1])
  <2>1. l # 1 => l - 1 \in 1..Level
    BY <1>1
  <2> QED BY <2>1
<1>3. U[scopes[l].proc] = T[scopes[l].proc]
  BY <1>1
<1> QED BY <1>1, <1>2, <1>3, Zenon DEF ScopeOf


(* A procedure is declared FORWARD. *)
LEMMA ForwardMap ==
  ASSUME IInv, NEW T, NEW P, SInv(T, P), Forward, Level > 0 => ~ NewProc(text[pos].heading).is_far
  PROVE  \E U : SInv(U, P)'
<1> DEFINE q == NewProc(text[pos].heading)
           x == [q EXCEPT !.fwd_decl = TRUE]
           r == RowFor(q)
           n == Len(procs)
<1>1. /\ pos \in DOMAIN text /\ ~ InBody /\ procs' = Append(procs, x)
      /\ UNCHANGED <<scopes, code>>
  BY DEF Forward, Declaration, Parse
<1>2. Match(T) /\ Sound(T, code, P, Skips) /\ FramesEven
  BY DEF SInv
<1>3. Laid(r) /\ RowOf(r, q) /\ q.outer = Current /\ q.level = Level
  BY <1>1, <1>2, NewRow
<1>4. r.outer = q.outer /\ r.level = q.level /\ r.symbols = q.symbols
  BY DEF RowFor
<1>5. SameHead(q, x)
  <2>1. HeadFields \subseteq DOMAIN q => HeadFields \subseteq DOMAIN x
    BY DEF HeadFields
  <2>2. x.outer = q.outer /\ x.level = q.level /\ x.is_far = q.is_far /\ x.has_sl = q.has_sl
        /\ x.arg_size = q.arg_size /\ x.exported = q.exported /\ x.symbols = q.symbols
    BY DEF NewProc
  <2> QED BY <2>1, <2>2, Zenon DEF SameHead
<1> HIDE DEF q, x, r
<1>6. PICK U : /\ Extends(T, U) /\ Enclosed(U) /\ IsSeq(U)
               /\ Len(U) = n + 1 /\ DOMAIN U = DOMAIN procs \cup {n + 1}
               /\ \A p \in DOMAIN procs : U[p] = T[p]
               /\ U[n + 1] = r
  <2>1. r.outer = Current /\ r.level = Level
    BY <1>3, <1>4
  <2> DEFINE V == Append(T, r)
  <2>2. /\ Extends(T, V) /\ Enclosed(V) /\ IsSeq(V)
        /\ Len(V) = n + 1 /\ DOMAIN V = DOMAIN procs \cup {n + 1}
        /\ \A p \in DOMAIN procs : V[p] = T[p]
        /\ V[n + 1] = r
    BY <1>2, <2>1, RowAdded
  <2> HIDE DEF V
  <2> QED BY <2>2, Zenon
<1>7. IsSeq(procs) /\ DOMAIN T = DOMAIN procs /\ n \in Nat /\ DOMAIN procs = 1..n
  BY <1>2, MatchFact
<1>8. /\ IsSeq(procs') /\ Len(procs') = n + 1 /\ procs'[n + 1] = x
      /\ \A p \in DOMAIN procs : procs'[p] = procs[p]
  <2>1. IsSeq(procs)
    BY <1>7
  <2> QED BY <1>1, <1>7, <2>1, AppendFact
<1>9. Open' = Open /\ Skips' = Skips /\ Level' = Level /\ ~ InBody'
  BY <1>1 DEF Open, Skips, Level, InBody, Top
<1>10. \A p \in DOMAIN U : Laid(U[p]) /\ RowOf(U[p], procs'[p])
  <2>1. ASSUME NEW p \in DOMAIN procs PROVE Laid(U[p]) /\ RowOf(U[p], procs'[p])
    BY <1>2, <1>6, <1>7, <1>8, Zenon DEF Match
  <2>2. Laid(U[n+1]) /\ RowOf(U[n+1], procs'[n+1])
    BY <1>3, <1>5, <1>6, <1>8, RowKept
  <2> QED BY <1>6, <2>1, <2>2
<1>11. \A p \in DOMAIN U : p \notin Open => U[p].symbols = procs'[p].symbols
  <2>1. ASSUME NEW p \in DOMAIN procs, p \notin Open PROVE U[p].symbols = procs'[p].symbols
    BY <1>2, <1>6, <1>7, <1>8, <2>1, Zenon DEF Match
  <2>2. U[n+1].symbols = procs'[n+1].symbols
    BY <1>4, <1>5, <1>6, <1>8, Zenon DEF SameHead
  <2> QED BY <1>6, <2>1, <2>2
<1>12. \A l \in 1..Level : ScopeOf(U, scopes', l)
  <2>1. \A p \in DOMAIN T : U[p] = T[p]
    BY <1>6, <1>7
  <2>2. \A l \in 1..Level : scopes'[l] = scopes[l]
    BY <1>1
  <2> QED BY <1>2, <2>1, <2>2, ScopesKept
<1>13. Match(U)'
  <2>1. Len(U) = Len(procs')
    BY <1>6, <1>8
  <2> QED BY <1>6, <1>9, <1>10, <1>11, <1>12, <2>1, Zenon DEF Match
<1>14. Sound(U, code, P, Skips)
  <2>1. \A p \in DOMAIN T : Laid(T[p])
    BY <1>2 DEF Match
  <2> QED BY <1>2, <1>6, <2>1, SoundExtends
<1>15. FramesEven'
  BY <1>1, <1>2 DEF FramesEven
<1>16. SInv(U, P)'
  BY <1>1, <1>9, <1>13, <1>14, <1>15, Zenon DEF SInv, Nested
<1> QED BY <1>16

(* A prologue and the jump behind it, whose target is not known yet. *)
LEMMA SoundOpen ==
  ASSUME NEW T, NEW c, NEW P, NEW skips, Flows(c, 0, skips), Sound(T, c, P, skips),
         NEW x, Fine(T, x), x.op = "prologue", NEW j, Fine(T, j), j.op = "jmp"
  PROVE  Sound(T, c \o <<x, j>>, P \o <<Rest, Rest>>, skips \cup {Len(c) + 2})
<1> DEFINE e == <<x, j>>
           g == <<Rest, Rest>>
           d == c \o e
           Q == P \o g
           n == Len(c)
           more == skips \cup {n + 2}
<1>1. IsSeq(c) /\ IsSeq(P) /\ Len(P) = n /\ n \in Nat /\ DOMAIN c = 1..n
  BY SeqFact DEF Flows, Sound
<1>2. /\ IsSeq(e) /\ Len(e) = 2 /\ e[1] = x /\ e[2] = j
      /\ IsSeq(g) /\ Len(g) = 2 /\ g[1] = Rest /\ g[2] = Rest
  BY PairFact, Zenon
<1> HIDE DEF e, g
<1>3. /\ IsSeq(d) /\ Len(d) = n + 2 /\ d[n+1] = x /\ d[n+2] = j
      /\ \A a \in 1..n : d[a] = c[a]
  <2>1. IsSeq(c) /\ IsSeq(e)
    BY <1>1, <1>2
  <2>2. /\ IsSeq(d) /\ Len(d) = n + Len(e)
        /\ \A i \in 1..Len(e) : d[n + i] = e[i]
        /\ \A a \in 1..n : d[a] = c[a]
    BY <2>1, ConcatFact
  <2>3. 1 \in 1..2 /\ 2 \in 1..2
    OBVIOUS
  <2> QED BY <1>2, <2>2, <2>3
<1>4. /\ IsSeq(Q) /\ Len(Q) = n + 2 /\ Q[n+1] = Rest /\ Q[n+2] = Rest
      /\ \A a \in 1..n : Q[a] = P[a]
  <2>1. IsSeq(P) /\ IsSeq(g)
    BY <1>1, <1>2
  <2>2. /\ IsSeq(Q) /\ Len(Q) = Len(P) + Len(g)
        /\ \A i \in 1..Len(g) : Q[Len(P) + i] = g[i]
        /\ \A a \in 1..Len(P) : Q[a] = P[a]
    BY <2>1, ConcatFact
  <2>3. 1 \in 1..2 /\ 2 \in 1..2
    OBVIOUS
  <2> QED BY <1>1, <1>2, <2>2, <2>3
<1> HIDE DEF d, Q, n
<1>5. /\ DOMAIN d = 1..n+2 /\ \A a \in DOMAIN d : a \in DOMAIN c \/ a = n + 1 \/ a = n + 2
      /\ DOMAIN c \subseteq DOMAIN d /\ n + 2 \in DOMAIN d /\ n + 2 \in more
      /\ \A a \in DOMAIN c : a # n + 2
  <2>1. DOMAIN d = 1..n+2
    BY <1>3, SeqFact, Zenon
  <2> QED BY <1>1, <2>1
<1>6. \A a \in DOMAIN d : Fine(T, d[a]) /\ Fits(T, d[a], Q[a])
  <2>1. ASSUME NEW a \in DOMAIN c PROVE Fine(T, d[a]) /\ Fits(T, d[a], Q[a])
    BY <1>1, <1>3, <1>4, Zenon DEF Sound
  <2>2. Fits(T, j, Rest)
    BY FlatFact DEF Flats
  <2>3. Fits(T, x, Rest)
    BY DEF Fits, Held, Rest, Places
  <2> QED BY <1>3, <1>4, <1>5, <2>1, <2>2, <2>3, Zenon
<1>7. ASSUME NEW a \in DOMAIN c, a \notin more, NEW t \in Follows(d[a], a)
      PROVE  Lands(d, Q, t, After(d[a], Q[a]))
  <2>1. d[a] = c[a] /\ Q[a] = P[a] /\ a \notin skips
    BY <1>1, <1>3, <1>4, <1>7
  <2>2. Lands(c, P, t, After(c[a], P[a])) /\ t \in DOMAIN c
    BY <1>7, <2>1 DEF Sound, Flows, Within
  <2>3. t \in DOMAIN d /\ d[t] = c[t] /\ Q[t] = P[t]
    BY <1>1, <1>3, <1>4, <1>5, <2>2
  <2> QED BY <2>1, <2>2, <2>3, Zenon DEF Lands
<1>8. ASSUME NEW t \in Follows(x, n + 1)
      PROVE  Lands(d, Q, t, After(x, Rest))
  <2>1. t = n + 2
    <3>1. t = (n + 1) + 1
      BY FollowsFact DEF Jumps
    <3> QED BY <1>1, <3>1
  <2>2. After(x, Rest) = Rest
    <3>1. Fits(T, x, Rest)
      BY DEF Fits, Held, Rest, Places
    <3> QED BY <3>1, JumpsRest
  <2>3. Same(Rest, Rest)
    BY DEF Same
  <2> QED BY <1>3, <1>4, <1>5, <2>1, <2>2, <2>3 DEF Lands
<1>9. \A a \in DOMAIN d : a \notin more => \A t \in Follows(d[a], a) : Lands(d, Q, t, After(d[a], Q[a]))
  <2> SUFFICES ASSUME NEW a \in DOMAIN d, a \notin more, NEW t \in Follows(d[a], a)
               PROVE  Lands(d, Q, t, After(d[a], Q[a]))
    OBVIOUS
  <2>1. CASE a \in DOMAIN c
    BY <1>7, <2>1
  <2>2. CASE a = n + 1
    BY <1>3, <1>4, <1>8, <2>2
  <2> QED BY <1>5, <2>1, <2>2
<1> HIDE DEF more
<1>10. Sound(T, d, Q, more)
  <2>1. Len(Q) = Len(d)
    BY <1>3, <1>4
  <2> QED BY <1>4, <1>6, <1>9, <2>1, Zenon DEF Sound
<1> QED BY <1>10 DEF d, Q, e, g, more, n

(* Two sequences with the same domain are of the same length. *)
LEMMA SameLength ==
  ASSUME NEW s, IsSeq(s), NEW t, IsSeq(t), DOMAIN s = DOMAIN t
  PROVE  Len(s) = Len(t)
<1>1. Len(s) \in Nat /\ Len(t) \in Nat /\ 1..Len(s) = 1..Len(t)
  BY SeqFact
<1>2. ASSUME NEW m \in Nat, NEW n \in Nat, 1..m = 1..n PROVE m <= n
  <2>1. m = 0 \/ m \in 1..n
    BY <1>2
  <2> QED BY <2>1
<1>3. Len(s) <= Len(t) /\ Len(t) <= Len(s)
  BY <1>1, <1>2
<1> QED BY <1>1, <1>3

(* The table U when the body of procedure p is opened: p has its row. *)
Opens(T, U, p, q) ==
    /\ Extends(T, U) /\ Enclosed(U)
    /\ \A r \in DOMAIN T : U[r] = T[r]
    /\ DOMAIN U = DOMAIN procs \cup {p}
    /\ Laid(U[p]) /\ RowOf(U[p], q) /\ U[p].symbols = q.symbols
    /\ U[p].level = Level /\ U[p].outer = Current

(* The body of a procedure is opened. *)
LEMMA OpenBodyMap ==
  ASSUME IInv, IInv', ~ InBody, NEW T, NEW P, SInv(T, P),
         NEW p, p \notin Open, NEW q, q.outer = Current, OpenBody(p, q),
         NEW U, Opens(T, U, p, q)
  PROVE  \E Q : SInv(U, Q)'
<1> DEFINE z == [q EXCEPT !.code_ofs = Pc]
           s == [proc |-> p, symbols |-> q.symbols, local_top |-> 0,
                 begun |-> FALSE, nest |-> <<>>, skip_nested |-> Pc + 1,
                 saved_ret |-> ret_patch_list, saved_patch |-> cur_prologue_patch]
           x == [op |-> "prologue", of |-> p, size |-> 0,
                 src |-> [k |-> "enter", p |-> p, in |-> q.outer]]
           j == [op |-> "jmp", of |-> p, src |-> None, to |-> Pc + 2]
           new == Level + 1
<1>1. /\ procs' = [i \in DOMAIN procs \cup {p} |-> IF i = p THEN z ELSE procs[i]]
      /\ scopes' = Append(scopes, s) /\ code' = code \o <<x, j>>
  BY DEF OpenBody
<1>2. /\ Flows(code, 0, Skips) /\ IsSeq(code) /\ Len(code) \in Nat /\ DOMAIN code = 1..Len(code)
      /\ IsSeq(scopes) /\ Level \in Nat /\ DOMAIN scopes = 1..Level
      /\ \A l \in 1..Level : ~ scopes[l].begun
      /\ Pc = Len(code) + 1
  BY OutFact DEF Pc
<1>3. Match(T) /\ Sound(T, code, P, Skips) /\ FramesEven
  BY DEF SInv
<1>4. /\ Extends(T, U) /\ Enclosed(U) /\ IsSeq(U)
      /\ \A r \in DOMAIN T : U[r] = T[r]
      /\ DOMAIN U = DOMAIN procs \cup {p} /\ p \in DOMAIN U
      /\ Laid(U[p]) /\ RowOf(U[p], q) /\ U[p].symbols = q.symbols
      /\ U[p].level = Level /\ U[p].outer = Current
  BY DEF Opens, Extends
<1>5. s.proc = p /\ s.symbols = q.symbols /\ s.local_top = 0 /\ s.begun = FALSE
      /\ s.skip_nested = Pc + 1
  OBVIOUS
<1>6. x.op = "prologue" /\ j.op = "jmp" /\ x.size = 0 /\ x.of = p
  OBVIOUS
<1>7. Fine(U, x) /\ Fine(U, j)
  <2>1. x.of = p /\ x.src.k = "enter" /\ x.src.p = p /\ x.src.in = q.outer /\ j.of = p
        /\ j.src.k = "none"
    BY DEF None
  <2>2. Source["prologue"] = "enter" /\ Source["jmp"] = "none" /\ "prologue" \in DOMAIN Source
        /\ "jmp" \in DOMAIN Source
    BY SourceFact DEF Plains
  <2> HIDE DEF x, j
  <2>3. x.op \notin Accesses \cup {"call", "ret"} /\ j.op \notin Accesses \cup {"call", "prologue", "ret"}
    BY <1>6 DEF Accesses
  <2>4. U[p].outer = q.outer
    BY <1>4
  <2>5. Fine(U, x)
    BY <1>4, <1>6, <2>1, <2>2, <2>3, <2>4 DEF Fine, Accesses
  <2>6. Fine(U, j)
    BY <1>4, <1>6, <2>1, <2>2, <2>3 DEF Fine, Accesses
  <2> QED BY <2>5, <2>6
<1>8. SameHead(q, z)
  <2>1. HeadFields \subseteq DOMAIN q => HeadFields \subseteq DOMAIN z
    BY DEF HeadFields
  <2>2. z.outer = q.outer /\ z.level = q.level /\ z.is_far = q.is_far /\ z.has_sl = q.has_sl
        /\ z.arg_size = q.arg_size /\ z.exported = q.exported /\ z.symbols = q.symbols
    OBVIOUS
  <2> QED BY <2>1, <2>2, Zenon DEF SameHead
<1> HIDE DEF s, x, j, z
<1>9. /\ IsSeq(scopes') /\ Level' = new /\ new \in 1..new /\ scopes'[new] = s
      /\ \A l \in 1..Level : scopes'[l] = scopes[l]
      /\ \A l \in 1..new : l \in 1..Level \/ l = new
      /\ \A l \in 1..Level : l \in 1..new
      /\ new # 0 /\ new - 1 = Level
  <2>1. /\ IsSeq(Append(scopes, s)) /\ Len(Append(scopes, s)) = new
        /\ \A l \in 1..Level : Append(scopes, s)[l] = scopes[l]
        /\ Append(scopes, s)[new] = s
    BY <1>2, AppendFact DEF Level
  <2>2. /\ \A l \in 1..new : l \in 1..Level \/ l = new
        /\ \A l \in 1..Level : l \in 1..new
        /\ new # 0 /\ new \in 1..new /\ new - 1 = Level
    BY <1>2
  <2> HIDE DEF new
  <2>3. Level' = Len(scopes')
    BY DEF Level
  <2> QED BY <1>1, <2>1, <2>2, <2>3, Zenon
<1>10. U[p].level = new - 1 /\ U[p].outer = IF new = 1 THEN 0 ELSE scopes'[new - 1].proc
  <2>1. CASE Level = 0
    BY <1>2, <1>4, <2>1 DEF Current
  <2>2. CASE Level # 0
    <3>1. Level \in 1..Level /\ new # 1
      BY <1>2, <2>2
    <3>2. Current = scopes[Level].proc
      BY <2>2 DEF Current, Top
    <3> QED BY <1>4, <1>9, <3>1, <3>2
  <2> QED BY <2>1, <2>2
<1> HIDE DEF new
<1>11. ~ InBody' /\ Open' = Open \cup {p} /\ Skips' = Skips \cup {Len(code) + 2}
  <2>1. ~ InBody'
    BY <1>5, <1>9 DEF InBody, Top
  <2>2. Open' = Open \cup {p}
    BY <1>5, <1>9 DEF Open
  <2>3. Skips' = Skips \cup {Pc + 1}
    <3>1. Skips' = {scopes'[l].skip_nested : l \in {m \in 1..new : ~ scopes'[m].begun}}
      BY <1>9, Zenon DEF Skips
    <3>2. Skips = {scopes[l].skip_nested : l \in {m \in 1..Level : ~ scopes[m].begun}}
      BY DEF Skips
    <3>3. {m \in 1..new : ~ scopes'[m].begun} = 1..Level \cup {new}
      BY <1>2, <1>5, <1>9
    <3>4. {m \in 1..Level : ~ scopes[m].begun} = 1..Level
      BY <1>2
    <3> QED BY <1>5, <1>9, <3>1, <3>2, <3>3, <3>4
  <2> QED BY <1>2, <2>1, <2>2, <2>3
<1>12. /\ DOMAIN procs' = DOMAIN U /\ procs'[p] = z
       /\ \A i \in DOMAIN procs : i # p => procs'[i] = procs[i]
  BY <1>1, <1>4
<1>13. Len(U) = Len(procs')
  <2>1. IsSeq(procs')
    BY DEF IInv, ProcsKnown
  <2> QED BY <1>4, <1>12, <2>1, SameLength, Zenon
<1>14. DOMAIN T = DOMAIN procs
  BY <1>3, MatchFact
<1>15. \A i \in DOMAIN U : Laid(U[i]) /\ RowOf(U[i], procs'[i])
  <2>1. ASSUME NEW i \in DOMAIN procs, i # p PROVE Laid(U[i]) /\ RowOf(U[i], procs'[i])
    BY <1>3, <1>4, <1>12, <1>14, <2>1, Zenon DEF Match
  <2>2. Laid(U[p]) /\ RowOf(U[p], procs'[p])
    BY <1>4, <1>8, <1>12, RowKept
  <2> QED BY <1>4, <2>1, <2>2
<1>16. \A i \in DOMAIN U : i \notin Open \cup {p} => U[i].symbols = procs'[i].symbols
  <2>1. ASSUME NEW i \in DOMAIN procs, i # p, i \notin Open PROVE U[i].symbols = procs'[i].symbols
    BY <1>3, <1>4, <1>12, <1>14, <2>1, Zenon DEF Match
  <2> QED BY <1>4, <2>1
<1>17. \A l \in 1..new : ScopeOf(U, scopes', l)
  <2>1. \A l \in 1..Level : ScopeOf(U, scopes', l)
    BY <1>3, <1>4, <1>9, ScopesKept
  <2>2. ScopeOf(U, scopes', new)
    <3>1. Even(0)
      BY DEF Even
    <3> QED BY <1>4, <1>5, <1>9, <1>10, <3>1, Zenon DEF ScopeOf
  <2> QED BY <1>9, <2>1, <2>2
<1>18. Match(U)'
  BY <1>4, <1>9, <1>11, <1>12, <1>13, <1>15, <1>16, <1>17, Zenon DEF Match
<1> DEFINE Q == P \o <<Rest, Rest>>
<1>19. Sound(U, code', Q, Skips')
  <2>1. \A i \in DOMAIN T : Laid(T[i])
    BY <1>3 DEF Match
  <2>2. Sound(U, code, P, Skips)
    BY <1>3, <1>4, <2>1, SoundExtends
  <2>3. Sound(U, code \o <<x, j>>, Q, Skips \cup {Len(code) + 2})
    BY <1>2, <1>6, <1>7, <2>2, SoundOpen
  <2> QED BY <1>1, <1>11, <2>3
<1> HIDE DEF Q
<1>20. FramesEven'
  <2>1. /\ \A a \in DOMAIN code' : a \in DOMAIN code \/ a = Len(code) + 1 \/ a = Len(code) + 2
        /\ \A a \in DOMAIN code : code'[a] = code[a]
        /\ code'[Len(code) + 1] = x /\ code'[Len(code) + 2] = j
    <3> DEFINE e == <<x, j>>
    <3>1. IsSeq(e) /\ Len(e) = 2 /\ e[1] = x /\ e[2] = j
      BY PairFact, Zenon
    <3> HIDE DEF e
    <3>2. /\ IsSeq(code \o e) /\ Len(code \o e) = Len(code) + Len(e)
          /\ \A a \in 1..Len(code) : (code \o e)[a] = code[a]
          /\ \A i \in 1..Len(e) : (code \o e)[Len(code) + i] = e[i]
      <4>1. IsSeq(code) /\ IsSeq(e)
        BY <1>2, <3>1
      <4> QED BY <4>1, ConcatFact
    <3>3. code' = code \o e
      BY <1>1 DEF e
    <3>4. /\ IsSeq(code') /\ Len(code') = Len(code) + 2
          /\ \A a \in 1..Len(code) : code'[a] = code[a]
          /\ \A i \in 1..2 : code'[Len(code) + i] = e[i]
      BY <3>1, <3>2, <3>3
    <3>5. DOMAIN code' = 1..Len(code)+2
      BY <3>4, SeqFact, Zenon
    <3>6. 1 \in 1..2 /\ 2 \in 1..2 /\ \A a \in 1..Len(code)+2 : a \in 1..Len(code) \/ a = Len(code) + 1 \/ a = Len(code) + 2
      BY <1>2
    <3> QED BY <1>2, <3>1, <3>4, <3>5, <3>6
  <2>2. Even(x.size)
    BY <1>6 DEF Even
  <2>3. SUFFICES ASSUME NEW a \in DOMAIN code', code'[a].op = "prologue" PROVE Even(code'[a].size)
    BY Zenon DEF FramesEven
  <2>4. j.op # "prologue"
    BY <1>6
  <2>5. CASE a \in DOMAIN code
    BY <1>3, <2>1, <2>3, <2>5, Zenon DEF FramesEven
  <2> QED BY <2>1, <2>2, <2>3, <2>4, <2>5, Zenon
<1>21. SInv(U, Q)'
  BY <1>11, <1>18, <1>19, <1>20, Zenon DEF SInv, Nested
<1> QED BY <1>21

(* A procedure is declared with a body. *)
LEMMA DeclareMap ==
  ASSUME IInv, IInv', NEW T, NEW P, SInv(T, P), Declare,
         Level > 0 => ~ NewProc(text[pos].heading).is_far
  PROVE  \E U, Q : SInv(U, Q)'
<1> DEFINE q == NewProc(text[pos].heading)
           p == Len(procs) + 1
           r == RowFor(q)
           U == Append(T, r)
<1>1. pos \in DOMAIN text /\ ~ InBody /\ OpenBody(p, q)
  BY DEF Declare, Declaration, Parse
<1>2. Match(T)
  BY DEF SInv
<1>3. Laid(r) /\ RowOf(r, q) /\ q.outer = Current /\ q.level = Level
  BY <1>1, <1>2, NewRow
<1>4. r.outer = q.outer /\ r.level = q.level /\ r.symbols = q.symbols
  BY DEF RowFor
<1> HIDE DEF q, r
<1>5. /\ Extends(T, U) /\ Enclosed(U)
      /\ DOMAIN U = DOMAIN procs \cup {p}
      /\ \A i \in DOMAIN procs : U[i] = T[i]
      /\ U[p] = r
  <2>1. r.outer = Current /\ r.level = Level
    BY <1>3, <1>4
  <2> QED BY <1>2, <2>1, RowAdded
<1>6. p \notin Open /\ DOMAIN T = DOMAIN procs
  <2>1. Open \subseteq DOMAIN procs /\ DOMAIN procs = 1..Len(procs) /\ Len(procs) \in Nat
    BY OpenProcs
  <2>2. p \notin DOMAIN procs
    BY <2>1
  <2> QED BY <1>2, <2>1, <2>2, MatchFact
<1> HIDE DEF U, p
<1>7. Opens(T, U, p, q)
  BY <1>3, <1>4, <1>5, <1>6, Zenon DEF Opens
<1>8. PICK V, k, z : /\ V = U /\ k = p /\ z = q
  OBVIOUS
<1>9. Opens(T, V, k, z) /\ OpenBody(k, z) /\ k \notin Open /\ z.outer = Current
  BY <1>1, <1>3, <1>6, <1>7, <1>8
<1>10. \E Q : SInv(V, Q)'
  BY <1>1, <1>9, OpenBodyMap
<1> QED BY <1>10

(* A procedure declared FORWARD gets its body. *)
LEMMA ImplementMap ==
  ASSUME IInv, IInv', NEW T, NEW P, SInv(T, P), NEW p \in DOMAIN procs, Implement(p)
  PROVE  \E U, Q : SInv(U, Q)'
<1>1. ~ InBody /\ OpenBody(p, procs[p]) /\ procs[p].outer = Current
  BY DEF Implement, Declaration
<1>2. Match(T) /\ IsSeq(T) /\ Enclosed(T)
  BY DEF SInv, Match
<1>3. /\ DOMAIN T = DOMAIN procs /\ Level \in Nat
      /\ Level > 0 => /\ Current = scopes[Level].proc /\ Current \in DOMAIN T
                      /\ Current # 0 /\ Level \in 1..Level
      /\ Level = 0 => Current = 0
      /\ \A l \in 1..Level : ScopeOf(T, scopes, l)
  BY <1>2, MatchFact
<1>4. p \notin Open
  <2>1. procs[p].outer \in 0..p-1 /\ p \in Nat
    BY OpenProcs DEF IInv, ProcsKnown
  <2>2. \A i \in Open : i <= Current /\ i \in Nat
    BY OpenProcs
  <2>3. ~ (p <= Current)
    BY <1>1, <2>1
  <2> QED BY <2>2, <2>3
<1>5. Laid(T[p]) /\ RowOf(T[p], procs[p]) /\ T[p].symbols = procs[p].symbols
  BY <1>2, <1>3, <1>4 DEF Match
<1>6. T[p].outer = Current
  BY <1>1, <1>5 DEF RowOf
<1>7. T[p].level = Level
  <2>1. IF Current = 0 THEN T[p].level = 0 ELSE T[p].level = T[Current].level + 1
    BY <1>2, <1>3, <1>6 DEF Enclosed
  <2>2. CASE Level = 0
    BY <1>3, <2>1, <2>2
  <2>3. CASE Level # 0
    <3>1. Current # 0 /\ T[Current].level = Level - 1
      BY <1>3, <2>3 DEF ScopeOf
    <3> QED BY <1>3, <2>1, <3>1
  <2> QED BY <2>2, <2>3
<1>8. Extends(T, T)
  BY <1>2, ExtendsSelf
<1>9. DOMAIN T = DOMAIN procs \cup {p}
  BY <1>3
<1>10. Opens(T, T, p, procs[p])
  BY <1>2, <1>5, <1>6, <1>7, <1>8, <1>9, Zenon DEF Opens
<1>11. PICK z : z = procs[p]
  OBVIOUS
<1>12. Opens(T, T, p, z) /\ OpenBody(p, z) /\ z.outer = Current
  BY <1>1, <1>10, <1>11
<1>13. \E Q : SInv(T, Q)'
  BY <1>1, <1>4, <1>12, OpenBodyMap
<1> QED BY <1>13

(* BEGIN: the jump over the nested procedures leads to the body. *)
LEMMA BeginMap ==
  ASSUME IInv, NEW T, NEW P, SInv(T, P), Begin
  PROVE  SInv(T, P)'
<1> DEFINE p == Current
           at == procs[p].code_ofs
           h == Top.skip_nested
           c == SkipNested(code)
           s == [Top EXCEPT !.begun = TRUE]
<1>1. /\ ~ InBody /\ Level > 0
      /\ scopes' = [scopes EXCEPT ![Level].begun = TRUE]
      /\ code' = SetFrame(c, at, Top) /\ UNCHANGED procs
  BY Zenon DEF Begin, Declaration
<1>2. /\ Flows(code, 0, Skips) /\ IsSeq(code) /\ Len(code) \in Nat /\ DOMAIN code = 1..Len(code)
      /\ IsSeq(scopes) /\ Level \in Nat /\ DOMAIN scopes = 1..Level
      /\ Level \in 1..Level /\ Top = scopes[Level] /\ p = Top.proc
      /\ DOMAIN Top = ScopeFields /\ p \in Open
      /\ \A l \in 1..Level : ~ scopes[l].begun
  BY <1>1, OutFact
<1>3. p \in DOMAIN procs /\ p # 0
  BY <1>2, OpenProcs
<1>4. at # 0 /\ IsPrologue(code, at, p)
  BY <1>2, <1>3, Zenon DEF IInv, ProcsKnown
<1>5. h \in DOMAIN code /\ code[h].op = "jmp" /\ code[h].of = p /\ Top.nest = <<>>
  BY <1>2, Zenon DEF IInv, ScopesOpen
<1>6. scopes' = [scopes EXCEPT ![Level] = s]
  BY <1>1, <1>2
<1>7. /\ DOMAIN s = ScopeFields /\ s.proc = Top.proc /\ s.begun = TRUE
      /\ s.nest = Top.nest /\ s.skip_nested = Top.skip_nested
      /\ s.local_top = Top.local_top /\ s.symbols = Top.symbols
  BY <1>2 DEF ScopeFields
<1> HIDE DEF s
<1>8. /\ IsSeq(scopes') /\ Level' = Level /\ scopes'[Level] = s
      /\ \A l \in 1..Level : l # Level => scopes'[l] = scopes[l]
  <2> DEFINE t == [scopes EXCEPT ![Level] = s]
  <2>1. /\ IsSeq(t) /\ Len(t) = Len(scopes) /\ t[Level] = s
        /\ \A l \in DOMAIN scopes : l # Level => t[l] = scopes[l]
    <3>1. IsSeq(scopes) /\ Level \in DOMAIN scopes
      BY <1>2
    <3> QED BY <3>1, ExceptFact
  <2> HIDE DEF t
  <2>2. scopes' = t
    BY <1>6 DEF t
  <2> QED BY <1>2, <2>1, <2>2, Zenon DEF Level
<1>9. Top' = s /\ Nest' = <<>>
  <2>1. Top' = s
    BY <1>8 DEF Top
  <2> QED BY <1>5, <1>7, <2>1, Zenon DEF Nest
<1>10. Open' = Open
  <2>1. \A l \in 1..Level : scopes'[l].proc = scopes[l].proc
    BY <1>2, <1>7, <1>8, Zenon
  <2> QED BY <1>8, <2>1 DEF Open
<1> HIDE DEF p, at, h, c
<1>11. \A a : a \in Skips => a \in Skips' \/ a = h
  <2>1. Skips = {scopes[l].skip_nested : l \in {m \in 1..Level : ~ scopes[m].begun}}
    BY DEF Skips
  <2>2. Skips' = {scopes'[l].skip_nested : l \in {m \in 1..Level : ~ scopes'[m].begun}}
    BY <1>8, Zenon DEF Skips
  <2>3. \A l \in 1..Level : /\ l # Level => scopes'[l] = scopes[l] /\ ~ scopes'[l].begun
                            /\ l = Level => scopes[l].skip_nested = h
    BY <1>2, <1>8 DEF h
  <2> QED BY <2>1, <2>2, <2>3, Zenon
<1>12. Match(T) /\ Sound(T, code, P, Skips) /\ FramesEven
  BY DEF SInv
<1>13. Clear(code, P, Pc)
  <2>1. Pc \notin DOMAIN code
    BY <1>2 DEF Pc
  <2> QED BY <2>1 DEF Clear
<1>14. c = Patch(code, {h}, Pc)
  BY DEF c, h, SkipNested
<1>15. Patched(code, P, Skips, c, Skips)
  <2>1. \A a \in {h} : a \in DOMAIN code => code[a].op \in Jumps
    BY <1>5 DEF Jumps
  <2>2. IsSeq(code)
    BY <1>2
  <2> QED BY <1>13, <1>14, <2>1, <2>2, PatchedJumps
<1>16. c[h].to = Pc
  <2>1. c[h] = [code[h] EXCEPT !.to = Pc]
    BY <1>5, <1>14 DEF Patch
  <2>2. "to" \in DOMAIN code[h]
    BY <1>2, <1>5 DEF Flows, Formed, Jumps
  <2> QED BY <2>1, <2>2
<1>17. Patched(code, P, Skips, c, Skips')
  <2>1. ASSUME NEW a \in DOMAIN code, a \notin Skips'
        PROVE  /\ a \notin Skips \/ (code[a].op = "jmp" /\ Clear(code, P, c[a].to))
               /\ code[a].op \in Jumps => c[a].to = code[a].to \/ Clear(code, P, c[a].to)
    <3>1. CASE a = h
      BY <1>5, <1>13, <1>16, <3>1
    <3>2. CASE a # h
      <4>1. a \notin Skips
        BY <1>11, <2>1, <3>2
      <4> QED BY <1>15, <4>1 DEF Patched
    <3> QED BY <3>1, <3>2
  <2> QED BY <1>15, <2>1, Zenon DEF Patched
<1>18. Sound(T, c, P, Skips')
  BY <1>12, <1>17, SoundPatched
<1>19. /\ Grown(code, c, p) /\ FramesKept(code, c) /\ Flows(c, p, Skips)
  <2>1. Flows(code, p, Skips)
    <3>1. \A of, t : Within(code, 0, of, t) => Within(code, p, of, t)
      BY DEF Within
    <3> QED BY <1>2, <3>1, Zenon DEF Flows
  <2>2. {h} \subseteq JumpsOf(code, p) /\ Within(code, p, p, Pc)
    BY <1>3, <1>5 DEF JumpsOf, Jumps, Within, Pc
  <2> QED BY <1>3, <1>14, <2>1, <2>2, PatchBody
<1>20. IsPrologue(c, at, p) /\ IsSeq(c)
  BY <1>4, <1>19, GrownFact, Zenon DEF Grown
<1>21. Sound(T, code', P, Skips')
  <2>1. at \in DOMAIN c /\ c[at].op = "prologue" /\ IsSeq(c)
    BY <1>20 DEF IsPrologue
  <2>2. Patched(c, P, Skips', SetFrame(c, at, Top), Skips')
    BY <2>1, PatchedFrame
  <2>3. Sound(T, SetFrame(c, at, Top), P, Skips')
    BY <1>18, <2>2, SoundPatched
  <2> QED BY <1>1, <2>3
<1>22. FramesEven'
  <2>1. Framed(c, SetFrame(c, at, Top), at, -Top.local_top, p, Skips)
    BY <1>19, <1>20, FrameSet, Zenon
  <2>2. /\ Grown(c, code', p) /\ code'[at].size = -Top.local_top
        /\ \A a \in 1..Len(c) : a # at => FrameKept(c, code', a)
    BY <1>1, <2>1, Zenon DEF Framed
  <2>3. Len(c) = Len(code) /\ DOMAIN code' = 1..Len(code)
    <3>1. Len(c) = Len(code) /\ Len(SetFrame(c, at, Top)) = Len(c)
      <4>1. at \in DOMAIN c /\ c[at].op = "prologue" /\ IsSeq(c)
        BY <1>20 DEF IsPrologue
      <4> QED BY <1>15, <4>1, PatchedFrame, ZenonT(40) DEF Patched
    <3>2. DOMAIN code' = 1..Len(code')
      BY <2>2, GrownFact
    <3> QED BY <1>1, <3>1, <3>2
  <2>4. \A a \in 1..Len(code) : c[a].op = code[a].op /\ code'[a].op = code[a].op
    BY <1>19, <2>2, <2>3, Zenon DEF Grown, SameIns
  <2>5. Even(-Top.local_top)
    <3>1. ScopeOf(T, scopes, Level)
      BY <1>2, <1>12, MatchFact
    <3>2. Even(Top.local_top)
      BY <1>2, <3>1, Zenon DEF ScopeOf
    <3> QED BY <3>2, EvenBelow
  <2>6. SUFFICES ASSUME NEW a \in DOMAIN code', code'[a].op = "prologue" PROVE Even(code'[a].size)
    BY Zenon DEF FramesEven
  <2>7. CASE a = at
    BY <2>2, <2>5, <2>7
  <2>8. CASE a # at
    <3>1. a \in 1..Len(code) /\ code[a].op = "prologue" /\ c[a].op = "prologue"
      BY <2>3, <2>4, <2>6, Zenon
    <3>2. c[a].size = code[a].size
      BY <1>19, <3>1, Zenon DEF FramesKept, FrameKept
    <3>3. code'[a].size = c[a].size
      BY <2>2, <2>3, <2>8, <3>1, Zenon DEF FrameKept
    <3>4. Even(code[a].size)
      BY <1>2, <1>12, <3>1, Zenon DEF FramesEven
    <3> QED BY <3>2, <3>3, <3>4, Zenon
  <2> QED BY <2>7, <2>8
<1>23. Match(T)'
  <2>1. \A l \in 1..Level : ScopeOf(T, scopes', l)
    <3> SUFFICES ASSUME NEW l \in 1..Level PROVE ScopeOf(T, scopes', l)
      OBVIOUS
    <3>1. ScopeOf(T, scopes, l)
      BY <1>12, MatchFact
    <3>2. \A m \in 1..Level : /\ scopes'[m].proc = scopes[m].proc
                              /\ scopes'[m].symbols = scopes[m].symbols
                              /\ scopes'[m].local_top = scopes[m].local_top
      BY <1>2, <1>7, <1>8, Zenon
    <3>3. l = 1 \/ l - 1 \in 1..Level
      BY <1>2
    <3> QED BY <3>1, <3>2, <3>3, Zenon DEF ScopeOf
  <2> QED BY <1>1, <1>8, <1>10, <1>12, <2>1, Zenon DEF Match
<1>24. Nested(P)'
  <2>1. \A i \in DOMAIN <<>> : FALSE
    OBVIOUS
  <2> QED BY <1>9, <2>1, Zenon DEF Nested
<1> QED BY <1>21, <1>22, <1>23, <1>24, Zenon DEF SInv

(* Calls are patched with an address. *)
LEMMA PatchedCalls ==
  ASSUME NEW c, IsSeq(c), NEW P, NEW skips, NEW calls, NEW to,
         \A a \in calls : a \in DOMAIN c => c[a].op = "call"
  PROVE  Patched(c, P, skips, Patch(c, calls, to), skips)
<1> DEFINE d == Patch(c, calls, to)
<1>1. DOMAIN c = 1..Len(c) /\ Len(c) \in Nat
  BY SeqFact
<1>2. /\ d = [i \in 1..Len(c) |-> d[i]]
      /\ \A i \in 1..Len(c) : d[i] = IF i \in calls THEN [c[i] EXCEPT !.to = to] ELSE c[i]
  BY <1>1 DEF Patch
<1> HIDE DEF d
<1>3. Len(d) = Len(c) /\ DOMAIN d = DOMAIN c
  <2>1. IsSeq(d) /\ Len(d) = Len(c)
    BY <1>1, <1>2, MadeSeq
  <2> QED BY <1>1, <2>1, SeqFact
<1>4. ASSUME NEW a \in DOMAIN c
      PROVE  Kept(c[a], d[a]) /\ (c[a].op \in Jumps => d[a].to = c[a].to)
  <2>1. CASE a \in calls
    <3>1. d[a] = [c[a] EXCEPT !.to = to] /\ c[a].op = "call"
      BY <1>1, <1>2, <2>1
    <3>2. /\ d[a].op = c[a].op /\ d[a].of = c[a].of /\ d[a].src = c[a].src /\ d[a].far = c[a].far
          /\ "far" \in DOMAIN c[a] => "far" \in DOMAIN d[a]
      BY <3>1
    <3>3. c[a].op \notin Jumps
      BY <3>1 DEF Jumps
    <3> QED BY <3>1, <3>2, <3>3 DEF Kept
  <2>2. CASE a \notin calls
    BY <1>1, <1>2, <2>2 DEF Kept
  <2> QED BY <2>1, <2>2
<1>5. Patched(c, P, skips, d, skips)
  BY <1>3, <1>4 DEF Patched
<1> QED BY <1>5 DEF d

(* The epilogue ends the code of a body. *)
LEMMA EpilogueMap ==
  ASSUME IInv, InBody, NEW T, NEW P, SInv(T, P), NEW e, e.op = "ret", e.of = Current,
         e.src = [k |-> "leave"], e.arg_size = procs[Current].arg_size,
         e.far = procs[Current].is_far
  PROVE  LET c == Append(Patch(code, ret_patch_list, Pc), e) IN
         \E Q : Sound(T, c, Q, Skips)
<1> DEFINE b == Patch(code, ret_patch_list, Pc)
<1>1. /\ Flows(code, Current, Skips) /\ IsSeq(code) /\ Current # 0
      /\ ret_patch_list \subseteq JumpsOf(code, Current)
      /\ Len(code) \in Nat /\ DOMAIN code = 1..Len(code)
  BY BodyFact
<1>2. Match(T) /\ Sound(T, code, P, Skips) /\ Current \in DOMAIN T /\ RowOf(T[Current], procs[Current])
  <2>1. Match(T) /\ Sound(T, code, P, Skips) /\ Current \in DOMAIN T
    BY MappedBody DEF SInv
  <2> QED BY <2>1 DEF Match
<1>3. Within(code, Current, Current, Pc) /\ Clear(code, P, Pc)
  <2>1. Pc \notin DOMAIN code
    BY <1>1 DEF Pc
  <2> QED BY <1>1, <2>1 DEF Within, Clear, Pc
<1>4. Flows(b, Current, Skips)
  BY <1>1, <1>3, PatchBody
<1>5. Sound(T, b, P, Skips)
  <2>1. \A a \in ret_patch_list : a \in DOMAIN code => code[a].op \in Jumps
    BY <1>1 DEF JumpsOf
  <2>2. Patched(code, P, Skips, b, Skips)
    BY <1>1, <1>3, <2>1, PatchedJumps
  <2> QED BY <1>2, <2>2, SoundPatched
<1> HIDE DEF b
<1>6. Fine(T, e)
  <2>1. Source["ret"] = "leave" /\ "ret" \in DOMAIN Source
    BY SourceFact
  <2>2. e.far = T[Current].far /\ e.arg_size = T[Current].args /\ e.src.k = "leave"
    BY <1>2 DEF RowOf
  <2> QED BY <1>2, <2>1, <2>2 DEF Fine, Accesses
<1>7. Fits(T, e, Rest) /\ Rest.n = 0
  BY FlatFact
<1>8. Piece(T, b, P, <<e>>, <<Rest>>)
  <2>1. IsSeq(<<e>>) /\ Len(<<e>>) = 1 /\ <<e>>[1] = e /\ IsSeq(<<Rest>>) /\ Len(<<Rest>>) = 1
        /\ <<Rest>>[1] = Rest
    BY SingleFact, Zenon
  <2>2. \A i \in 1..1 : i = 1
    OBVIOUS
  <2>3. e.op \notin Jumps /\ e.op # "prologue" /\ e.op \in {"jmp", "ret"}
    BY DEF Jumps
  <2>4. ASSUME NEW i \in 1..Len(<<e>>)
        PROVE  /\ Fine(T, <<e>>[i]) /\ Fits(T, <<e>>[i], <<Rest>>[i]) /\ <<e>>[i].op # "prologue"
               /\ <<e>>[i].op \in {"jmp", "ret"} /\ <<e>>[i].op \notin Jumps
    BY <1>6, <1>7, <2>1, <2>2, <2>3, Zenon
  <2>5. Len(<<e>>) > 0
    BY <2>1
  <2> QED BY <1>7, <2>1, <2>4, <2>5, Zenon DEF Piece
<1>9. Sound(T, b \o <<e>>, P \o <<Rest>>, Skips)
  BY <1>4, <1>5, <1>8, SoundEmit
<1>10. Append(b, e) = b \o <<e>>
  <2>1. IsSeq(b)
    BY <1>4 DEF Flows
  <2> QED BY <2>1, JoinOne
<1>11. \E Q : Sound(T, Append(b, e), Q, Skips)
  BY <1>9, <1>10, Zenon
<1> QED BY <1>11 DEF b

(* END name: the scope is closed. *)
LEMMA EndProcMap ==
  ASSUME IInv, NEW T, NEW P, SInv(T, P), EndProc
  PROVE  \E Q : SInv(T, Q)'
<1> DEFINE p == Current
           q == procs[p]
           e == [op |-> "ret", of |-> p, src |-> [k |-> "leave"],
                 arg_size |-> q.arg_size, far |-> q.is_far]
           c == Append(Patch(code, ret_patch_list, Pc), e)
           calls == IF q.fwd_decl THEN q.fwd_patches ELSE {}
           r == [q EXCEPT !.fwd_decl = FALSE, !.fwd_patches = {}, !.symbols = Top.symbols]
           n == Level - 1
<1>1. /\ InBody
      /\ code' = Patch(c, calls, q.code_ofs)
      /\ procs' = [procs EXCEPT ![p].fwd_decl = FALSE, ![p].fwd_patches = {},
                                ![p].symbols = Top.symbols]
      /\ scopes' = SubSeq(scopes, 1, Level - 1)
  BY Zenon DEF EndProc
<1>2. /\ p \in DOMAIN procs /\ p # 0 /\ p \in Open /\ Len(code) \in Nat
      /\ DOMAIN code = 1..Len(code)
      /\ Level \in Nat /\ Level > 0 /\ DOMAIN scopes = 1..Level /\ Level \in 1..Level
      /\ Top = scopes[Level] /\ Top.begun = TRUE /\ IsSeq(scopes) /\ IsSeq(procs)
  BY <1>1, BodyFact DEF IInv, ScopesOpen, ProcsKnown
<1>3. Top.proc = p
  <2>1. Level # 0
    BY <1>2
  <2> QED BY <2>1, Zenon DEF Current
<1>4. /\ ProcFields \subseteq DOMAIN q
      /\ \A a \in q.fwd_patches : a \in DOMAIN code /\ code[a].op = "call"
  BY <1>2, Zenon DEF IInv, ProcsKnown
<1>5. /\ e.op = "ret" /\ e.of = p /\ {"op", "of", "src"} \subseteq DOMAIN e
      /\ e.src = [k |-> "leave"] /\ e.arg_size = q.arg_size /\ e.far = q.is_far
  OBVIOUS
<1> HIDE DEF e
<1>6. /\ Flows(c, 0, Skips) /\ Grown(code, c, p) /\ FramesKept(code, c)
      /\ Len(c) = Len(code) + 1 /\ c[Len(code) + 1] = e
  BY <1>1, <1>5, EpilogueFact
<1>7. PICK Q : Sound(T, c, Q, Skips)
  BY <1>1, <1>5, EpilogueMap
<1> HIDE DEF c
<1>8. /\ DOMAIN c = 1..Len(code)+1
      /\ \A a \in DOMAIN c : a \in DOMAIN code \/ a = Len(code) + 1
      /\ \A a \in DOMAIN code : a \in DOMAIN c /\ SameIns(code[a], c[a])
  <2>1. DOMAIN c = 1..Len(code)+1 /\ \A a \in DOMAIN code : a \in DOMAIN c /\ SameIns(code[a], c[a])
    BY <1>6, GrownFact
  <2> QED BY <1>2, <2>1
<1>9. \A a \in calls : a \in DOMAIN c /\ c[a].op = "call"
  BY <1>4, <1>8, Zenon DEF SameIns
<1> HIDE DEF calls
<1>10. Sound(T, code', Q, Skips)
  <2>1. IsSeq(c)
    BY <1>6 DEF Flows
  <2>2. Patched(c, Q, Skips, Patch(c, calls, q.code_ofs), Skips)
    BY <1>9, <2>1, PatchedCalls
  <2>3. Sound(T, Patch(c, calls, q.code_ofs), Q, Skips)
    BY <1>7, <2>2, SoundPatched
  <2> QED BY <1>1, <2>3
<1>11. Match(T) /\ FramesEven
  BY DEF SInv
<1>12. FramesEven'
  <2>1. /\ DOMAIN code' = DOMAIN c
        /\ \A a \in DOMAIN c : code'[a].op = c[a].op /\ FrameKept(c, code', a)
    BY <1>1, <1>6, <1>9, CallsPatched
  <2>2. SUFFICES ASSUME NEW a \in DOMAIN code', code'[a].op = "prologue" PROVE Even(code'[a].size)
    BY Zenon DEF FramesEven
  <2>3. a \in DOMAIN c /\ c[a].op = "prologue" /\ code'[a].size = c[a].size
    BY <2>1, <2>2, Zenon DEF FrameKept
  <2>4. a \in DOMAIN code
    <3>1. e.op # "prologue"
      BY <1>5
    <3> QED BY <1>6, <1>8, <2>3, <3>1, Zenon
  <2>5. code[a].op = "prologue"
    BY <1>8, <2>3, <2>4, Zenon DEF SameIns
  <2>6. c[a].size = code[a].size
    BY <1>2, <1>6, <2>4, <2>5, Zenon DEF FramesKept, FrameKept
  <2>7. Even(code[a].size)
    BY <1>11, <2>4, <2>5, Zenon DEF FramesEven
  <2> QED BY <2>3, <2>6, <2>7, Zenon
<1>13. /\ IsSeq(scopes') /\ Level' = n /\ n \in Nat /\ n < Level
       /\ \A l \in 1..n : scopes'[l] = scopes[l] /\ l \in 1..Level /\ l < Level
       /\ \A l \in 1..Level : l \in 1..n \/ l = Level
  <2>1. scopes # <<>>
    <3>1. DOMAIN <<>> = 1..0 /\ ~ (1..Level = 1..0)
      BY <1>2
    <3> QED BY <1>2, <3>1, Zenon
  <2>2. /\ IsSeq(SubSeq(scopes, 1, Level - 1)) /\ Len(SubSeq(scopes, 1, Level - 1)) = Level - 1
        /\ \A l \in 1..Level-1 : SubSeq(scopes, 1, Level - 1)[l] = scopes[l]
    BY <1>2, <2>1, FrontFact DEF Level
  <2>3. /\ IsSeq(scopes') /\ Level' = n /\ \A l \in 1..n : scopes'[l] = scopes[l]
    BY <1>1, <2>2, Zenon DEF Level
  <2>4. /\ n \in Nat /\ n < Level
        /\ \A l \in 1..n : l \in 1..Level /\ l < Level
        /\ \A l \in 1..Level : l \in 1..n \/ l = Level
    BY <1>2
  <2> QED BY <2>3, <2>4
<1> HIDE DEF n
<1>14. \A l \in 1..n : ~ scopes[l].begun /\ ~ scopes'[l].begun
  BY <1>13, Zenon DEF IInv, ScopesOpen
<1>15. ~ InBody' /\ Skips' = Skips /\ \A i : i \in Open => i \in Open' \/ i = p
  <2>1. ~ InBody'
    <3>1. n > 0 => n \in 1..n
      BY <1>13
    <3> QED BY <1>13, <1>14, <3>1, Zenon DEF InBody, Top
  <2>2. Skips' = Skips
    <3>1. Skips' = {scopes'[l].skip_nested : l \in {m \in 1..n : ~ scopes'[m].begun}}
      BY <1>13, Zenon DEF Skips
    <3>2. {m \in 1..n : ~ scopes'[m].begun} = 1..n
      BY <1>14
    <3>3. {m \in 1..Level : ~ scopes[m].begun} = 1..n
      BY <1>2, <1>13, <1>14
    <3>4. \A l \in 1..n : scopes'[l] = scopes[l]
      BY <1>13
    <3> QED BY <3>1, <3>2, <3>3, <3>4 DEF Skips
  <2>3. \A i : i \in Open => i \in Open' \/ i = p
    BY <1>2, <1>3, <1>13, Zenon DEF Open
  <2> QED BY <2>1, <2>2, <2>3
<1>16. procs' = [procs EXCEPT ![p] = r]
  BY <1>1, <1>2
<1>17. /\ IsSeq(procs') /\ Len(procs') = Len(procs) /\ DOMAIN procs' = DOMAIN procs
       /\ \A i \in DOMAIN procs : i # p => procs'[i] = procs[i]
       /\ procs'[p] = r
  <2>1. IsSeq(procs) /\ p \in DOMAIN procs
    BY <1>2
  <2> DEFINE t == [procs EXCEPT ![p] = r]
  <2>2. /\ IsSeq(t) /\ Len(t) = Len(procs) /\ DOMAIN t = DOMAIN procs
        /\ \A i \in DOMAIN procs : i # p => t[i] = procs[i]
        /\ t[p] = r
    BY <2>1, ExceptFact
  <2>3. procs' = t
    BY <1>16
  <2> HIDE DEF t
  <2> QED BY <2>2, <2>3, Zenon
<1>18. /\ DOMAIN T = DOMAIN procs /\ Laid(T[p]) /\ RowOf(T[p], q)
       /\ T[p].symbols = Top.symbols
  <2>1. DOMAIN T = DOMAIN procs /\ ScopeOf(T, scopes, Level)
    BY <1>2, <1>11, MatchFact
  <2> QED BY <1>2, <1>3, <1>11, <2>1, Zenon DEF Match, ScopeOf
<1>19. RowOf(T[p], r) /\ r.symbols = Top.symbols
  <2>1. r.symbols = Top.symbols
    BY <1>4 DEF ProcFields
  <2>2. /\ HeadFields \subseteq DOMAIN q => HeadFields \subseteq DOMAIN r
        /\ r.outer = q.outer /\ r.level = q.level /\ r.is_far = q.is_far /\ r.has_sl = q.has_sl
        /\ r.arg_size = q.arg_size /\ r.exported = q.exported
    BY DEF HeadFields
  <2> HIDE DEF r
  <2>3. T[p].n <= Len(r.symbols) /\ Len(r.symbols) <= Len(T[p].symbols)
    <3>1. T[p].n \in 0..Len(T[p].symbols) /\ Len(T[p].symbols) \in Nat
      BY <1>18, SeqFact DEF Laid
    <3>2. r.symbols = T[p].symbols
      BY <1>18, <2>1, Zenon
    <3> HIDE DEF q, p
    <3> QED BY <3>1, <3>2
  <2>4. \A i \in 1..Len(r.symbols) : r.symbols[i] = T[p].symbols[i]
    BY <1>18, <2>1, Zenon
  <2> QED BY <1>18, <2>1, <2>2, <2>3, <2>4, Zenon DEF RowOf
<1> HIDE DEF r
<1>20. Match(T)'
  <2>1. Len(T) = Len(procs')
    BY <1>11, <1>17, Zenon DEF Match
  <2>2. \A i \in DOMAIN T : Laid(T[i]) /\ RowOf(T[i], procs'[i])
    <3>1. ASSUME NEW i \in DOMAIN T, i # p PROVE Laid(T[i]) /\ RowOf(T[i], procs'[i])
      BY <1>11, <1>17, <1>18, <3>1, Zenon DEF Match
    <3> QED BY <1>17, <1>18, <1>19, <3>1, Zenon
  <2>3. \A i \in DOMAIN T : i \notin Open' => T[i].symbols = procs'[i].symbols
    <3>1. ASSUME NEW i \in DOMAIN T, i # p, i \notin Open' PROVE T[i].symbols = procs'[i].symbols
      BY <1>11, <1>15, <1>17, <1>18, <3>1, Zenon DEF Match
    <3> QED BY <1>17, <1>18, <1>19, <3>1, Zenon
  <2>4. \A l \in 1..n : ScopeOf(T, scopes', l)
    <3> SUFFICES ASSUME NEW l \in 1..n PROVE ScopeOf(T, scopes', l)
      OBVIOUS
    <3>1. ScopeOf(T, scopes, l)
      BY <1>11, <1>13, MatchFact
    <3>2. l = 1 \/ l - 1 \in 1..n
      BY <1>13
    <3> QED BY <1>13, <3>1, <3>2, Zenon DEF ScopeOf
  <2> QED BY <1>11, <1>13, <2>1, <2>2, <2>3, <2>4, Zenon DEF Match
<1>21. SInv(T, Q)'
  BY <1>10, <1>12, <1>15, <1>20, Zenon DEF SInv, Nested
<1> QED BY <1>21

=============================================================================
