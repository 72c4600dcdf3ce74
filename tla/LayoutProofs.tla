---------------------------- MODULE LayoutProofs ----------------------------
(* The layout is right for every number of modules, every grouping and every *)
(* set of sizes.  The invariant follows the list: what stands before the     *)
(* cursors is placed, in list order, below the next free offset.             *)
EXTENDS Layout, TLAPS

USE LayoutAssumption

Live == pass \in {"move", "head", "code", "data", "done"}
Linked(i) == order[i] \in used
Group(i)  == group[order[i]]
Code(i)   == place[order[i]].code
End(i)    == place[order[i]].code + size[order[i]].code
Seg(i)    == 16 * place[order[i]].para
Exact     == base.code < 16 * ParaMod

\* List positions whose code, and whose data, have their final offsets.
CodePlaced(i) == \/ i < head
                 \/ pass = "code" /\ i < cur
                 \/ pass = "data" /\ i >= head /\ Group(i) = Group(head)
DataPlaced(i) == \/ i < head
                 \/ pass = "data" /\ i < cur

\* The list holds every module once, groups are runs, the entry group leads.
ListInv == /\ ListIsPermutation
           /\ \A a \in Modules : \E i \in Modules : order[i] = a
           /\ \A i, j, k \in Modules :
                 i <= j /\ j <= k /\ Group(i) = Group(k) => Group(j) = Group(k)
           /\ pass # "move" =>
                 \A i, j \in Modules : i <= j /\ InEntryGroup(j) => InEntryGroup(i)

CursorInv == /\ pass = "move" => head = 1
             /\ pass = "done" => head = N + 1
             /\ pass \in {"code", "data"} =>
                   /\ head <= N /\ Linked(head) /\ head <= cur
                   /\ \A i \in Modules : head <= i /\ i < cur => Group(i) = Group(head)
             /\ Live => \A i, j \in Modules : i < head /\ head <= j /\ Linked(i) => Group(i) # Group(j)

CodeInv == Live =>
    /\ \A i \in Modules : CodePlaced(i) /\ Linked(i) => End(i) <= base.code
    /\ \A i, j \in Modules : i < j /\ CodePlaced(j) /\ Linked(i) /\ Linked(j) => End(i) <= Code(j)

\* The group being placed starts behind all others, on a paragraph.
StartInv == pass \in {"code", "data"} =>
    /\ groupStart <= base.code
    /\ groupStart = 16 * (groupStart \div 16)
    /\ \A i \in Modules : i < head /\ Linked(i) => End(i) <= groupStart
    /\ \A i \in Modules : head <= i /\ CodePlaced(i) /\ Linked(i) =>
                              /\ place[order[i]].para = (groupStart \div 16) % ParaMod
                              /\ groupStart <= Code(i)

SegInv == Live /\ Exact =>
    /\ \A i \in Modules : CodePlaced(i) /\ Linked(i) =>
          /\ Seg(i) <= Code(i)
          /\ (pass = "code" => i < head) => End(i) - Seg(i) <= CodeLimit
    /\ \A i, j \in Modules : i < j /\ CodePlaced(j) /\ Linked(i) /\ Linked(j) /\ Group(i) # Group(j)
                                 => End(i) <= Seg(j)

ParaInv == Live =>
    \A i, j \in Modules : CodePlaced(i) /\ CodePlaced(j) /\ Linked(i) /\ Linked(j) /\ Group(i) = Group(j)
                              => place[order[i]].para = place[order[j]].para

DataInv == Live =>
    /\ \A i \in Modules : DataPlaced(i) /\ Linked(i) =>
          /\ place[order[i]].data + size[order[i]].data <= base.data
          /\ place[order[i]].bss + size[order[i]].bss <= base.bss
    /\ \A i, j \in Modules : i < j /\ DataPlaced(j) /\ Linked(i) /\ Linked(j) =>
          /\ place[order[i]].data + size[order[i]].data <= place[order[j]].data
          /\ place[order[i]].bss + size[order[i]].bss <= place[order[j]].bss

FitInv == Done => TotalData + TotalBss <= DataLimit

IInv == /\ TypeOK /\ ListInv /\ CursorInv /\ CodeInv /\ StartInv
        /\ SegInv /\ ParaInv /\ DataInv /\ FitInv
-----------------------------------------------------------------------------
LEMMA Align16Fact ==
    ASSUME NEW v \in Nat
    PROVE  /\ Align16(v) \in Nat
           /\ v <= Align16(v)
           /\ Align16(v) = 16 * (Align16(v) \div 16)
           /\ Align16(v) \div 16 \in Nat
  BY DEF Align16

LEMMA Align2Fact ==
    ASSUME NEW v \in Nat
    PROVE  Align2(v) \in Nat /\ v <= Align2(v)
  BY DEF Align2

LEMMA SmallMod ==
    ASSUME NEW x \in Nat, NEW b \in Nat \ {0}
    PROVE  x % b \in 0..b-1 /\ (x < b => x % b = x)
  OBVIOUS

LEMMA InitInv == Init => IInv
  <1> SUFFICES ASSUME Init PROVE IInv OBVIOUS
  <1>1. TypeOK
    <2>1. Unplaced \in Places BY SmallMod DEF Unplaced, Places
    <2>2. place \in [Modules -> Places] BY <2>1 DEF Init
    <2>3. base \in [code : Nat, data : Nat, bss : Nat] BY DEF Init
    <2>4. order \in [Modules -> Modules] /\ head \in 1..N+1 /\ cur \in 1..N+1
      BY DEF Init, Modules
    <2>5. /\ group \in GroupIds /\ size \in [Modules -> Sizes] /\ used \subseteq Modules
          /\ entry \in used /\ groupStart \in Nat /\ pass = "move"
      BY DEF Init
    <2> QED BY <2>2, <2>3, <2>4, <2>5 DEF TypeOK
  <1>2. ListInv
    <2>1. \A i \in Modules : order[i] = i /\ group[i] \in Int
      BY DEF Init, GroupIds
    <2>2. \A i, j \in Modules : i <= j => group[i] <= group[j]
      BY DEF Init, GroupIds
    <2>3. \A i, j, k \in Modules : i <= j /\ j <= k /\ group[i] = group[k] => group[j] = group[k]
      BY <2>1, <2>2
    <2> QED BY <2>1, <2>3 DEF Init, ListInv, ListIsPermutation, Group, InEntryGroup
  <1> QED BY <1>1, <1>2
          DEF Init, IInv, CursorInv, CodeInv, StartInv, SegInv, ParaInv, DataInv, FitInv,
              CodePlaced, DataPlaced, Done, Modules

\* What the type invariant says of the module at a list position.
LEMMA Types ==
    ASSUME TypeOK
    PROVE  /\ base.code \in Nat /\ base.data \in Nat /\ base.bss \in Nat
           /\ groupStart \in Nat /\ head \in Nat /\ cur \in Nat /\ head >= 1 /\ cur >= 1
           /\ \A i \in Modules :
                 /\ order[i] \in Modules
                 /\ Code(i) \in Nat /\ End(i) \in Nat
                 /\ place[order[i]].para \in Nat
                 /\ place[order[i]].data \in Nat /\ place[order[i]].bss \in Nat
                 /\ size[order[i]].code \in Nat
                 /\ size[order[i]].data \in Nat /\ size[order[i]].bss \in Nat
  <1>1. \A a \in Modules : size[a] \in [code : Nat, data : Nat, bss : Nat] /\ place[a] \in Places
    BY DEF TypeOK
  <1>2. \A i \in Modules : order[i] \in Modules
    BY DEF TypeOK
  <1>3. \A i \in Modules : size[order[i]] \in [code : Nat, data : Nat, bss : Nat] /\ place[order[i]] \in Places
    BY <1>1, <1>2
  <1>4. \A i \in Modules : size[order[i]].code \in Nat /\ size[order[i]].data \in Nat /\ size[order[i]].bss \in Nat
    BY <1>3
  <1>5. \A i \in Modules : /\ place[order[i]].code \in Nat /\ place[order[i]].para \in Nat
                           /\ place[order[i]].data \in Nat /\ place[order[i]].bss \in Nat
    BY <1>3, SmallMod DEF Places
  <1> QED BY <1>2, <1>4, <1>5 DEF TypeOK, Code, End

LEMMA StutterInv == IInv /\ UNCHANGED vars => IInv'
  BY DEF IInv, vars, inputs, TypeOK, ListInv, ListIsPermutation, InEntryGroup, CursorInv, CodeInv, StartInv,
         SegInv, ParaInv, DataInv, FitInv, Live, Linked, Group, Code, End, Seg, Exact, CodePlaced,
         DataPlaced, Done, TotalData, TotalBss

LEMMA SkipUnusedInv == IInv /\ SkipUnused => IInv'
  <1> SUFFICES ASSUME IInv, SkipUnused PROVE IInv' OBVIOUS
  <1> USE DEF Modules
  <1>1. head \in Nat /\ head \in 1..N /\ head' = head + 1 /\ order[head] \notin used /\ pass = "head" /\ pass' = pass
    BY DEF IInv, TypeOK, SkipUnused
  <1>2. TypeOK'
    <2>1. UNCHANGED <<order, group, size, used, entry, place, base, groupStart, cur>>
      BY DEF SkipUnused, inputs
    <2>2. head' \in 1..N+1 BY <1>1
    <2> QED BY <1>1, <2>1, <2>2 DEF IInv, TypeOK
  <1>3. ListInv' BY <1>1 DEF IInv, ListInv, ListIsPermutation, InEntryGroup, Group, SkipUnused, inputs
  <1>4. CursorInv' BY <1>1 DEF IInv, CursorInv, Live, Linked, Group, SkipUnused, inputs
  <1>5. CodeInv' /\ StartInv' /\ SegInv' /\ ParaInv' /\ DataInv' /\ FitInv'
    BY <1>1 DEF IInv, CodeInv, StartInv, SegInv, ParaInv, DataInv, FitInv, Done, Live, Linked,
           Group, Code, End, Seg, Exact, CodePlaced, DataPlaced, SkipUnused, inputs
  <1> QED BY <1>2, <1>3, <1>4, <1>5 DEF IInv

LEMMA StartGroupInv == IInv /\ StartGroup => IInv'
  <1> SUFFICES ASSUME IInv, StartGroup PROVE IInv' OBVIOUS
  <1> USE DEF Modules
  <1>1. /\ head \in Nat /\ head \in 1..N /\ Linked(head) /\ pass = "head" /\ pass' = "code" /\ cur' = head
        /\ UNCHANGED <<order, group, size, used, entry, place, head>>
    BY DEF IInv, TypeOK, StartGroup, Linked, inputs
  <1>2. base.code \in Nat BY Types DEF IInv
  <1>3. /\ groupStart' = Align16(base.code)
        /\ base' = [base EXCEPT !.code = Align16(base.code)]
        /\ base' \in [code : Nat, data : Nat, bss : Nat]
        /\ base'.code = groupStart' /\ base'.data = base.data /\ base'.bss = base.bss
    BY <1>2, Align16Fact DEF IInv, TypeOK, StartGroup
  <1>4. groupStart' \in Nat /\ base.code <= groupStart' /\ groupStart' = 16 * (groupStart' \div 16)
    BY <1>2, <1>3, Align16Fact
  <1>5. TypeOK' BY <1>1, <1>3, <1>4 DEF IInv, TypeOK
  <1>6. ListInv' BY <1>1 DEF IInv, ListInv, ListIsPermutation, InEntryGroup, Group
  <1>7. CursorInv' BY <1>1 DEF IInv, CursorInv, Live, Linked, Group
  <1>8. \A i \in Modules : CodePlaced(i)' <=> CodePlaced(i)
    BY <1>1 DEF CodePlaced
  <1>9. \A i \in Modules : CodePlaced(i) <=> i < head
    BY <1>1 DEF CodePlaced
  <1>10. \A i \in Modules : End(i) \in Nat /\ Code(i) \in Nat BY Types DEF IInv
  <1>11. CodeInv' /\ StartInv'
    BY <1>1, <1>2, <1>3, <1>4, <1>8, <1>9, <1>10 DEF IInv, CodeInv, StartInv, Live, Linked, Code, End
  <1>12. SegInv'
    BY <1>1, <1>2, <1>3, <1>4, <1>8, <1>9 DEF IInv, SegInv, Exact, Live, Linked, Group, Code, End, Seg
  <1>13. ParaInv' BY <1>1, <1>8 DEF IInv, ParaInv, Live, Linked, Group
  <1>14. DataInv' /\ FitInv'
    BY <1>1, <1>3 DEF IInv, DataInv, FitInv, Done, DataPlaced, Live, Linked
  <1> QED BY <1>5, <1>6, <1>7, <1>11, <1>12, <1>13, <1>14 DEF IInv

LEMMA EndCodePassInv == IInv /\ EndCodePass => IInv'
  <1> SUFFICES ASSUME IInv, EndCodePass PROVE IInv' OBVIOUS
  <1> USE DEF Modules
  <1>1. /\ head \in Nat /\ head \in 1..N /\ cur \in Nat /\ cur \in 1..N+1 /\ head <= cur /\ pass = "code" /\ ~InGroup
        /\ UNCHANGED <<order, group, size, used, entry, place, base, groupStart, head>>
    <2>1. /\ pass = "code" /\ ~InGroup
          /\ UNCHANGED <<order, group, size, used, entry, place, base, groupStart, head>>
      BY DEF EndCodePass, inputs
    <2>2. head \in 1..N+1 /\ cur \in 1..N+1 BY DEF IInv, TypeOK
    <2>3. head <= N /\ head <= cur BY <2>1 DEF IInv, CursorInv
    <2> QED BY <2>1, <2>2, <2>3
  <1>2. ListInv' BY <1>1 DEF IInv, ListInv, ListIsPermutation, InEntryGroup, Group
  <1>3. CASE base.code - groupStart > CodeLimit
    <2>1. pass' = "code_group_too_large" /\ cur' = cur BY <1>3 DEF EndCodePass
    <2>2. TypeOK' BY <1>1, <2>1 DEF IInv, TypeOK, Errors
    <2> QED BY <1>1, <1>2, <2>1, <2>2
            DEF IInv, CursorInv, CodeInv, StartInv, SegInv, ParaInv, DataInv, FitInv, Live, Done
  <1>4. CASE ~(base.code - groupStart > CodeLimit)
    <2>1. pass' = "data" /\ cur' = head BY <1>4 DEF EndCodePass
    <2>2. TypeOK' BY <1>1, <2>1 DEF IInv, TypeOK
    <2>3. CursorInv' BY <1>1, <2>1 DEF IInv, CursorInv, Live, Linked, Group
    <2>4. \A i \in Modules : head <= i /\ Group(i) = Group(head) => i < cur
      BY <1>1 DEF IInv, ListInv, InGroup, Group
    <2>5. \A i \in Modules : CodePlaced(i)' <=> CodePlaced(i)
      BY <1>1, <2>1, <2>4 DEF IInv, CursorInv, CodePlaced, Group
    <2>6. CodeInv' /\ StartInv' /\ ParaInv'
      BY <1>1, <2>1, <2>5 DEF IInv, CodeInv, StartInv, ParaInv, Live, Linked, Group, Code, End
    <2>7. SegInv'
      <3> SUFFICES ASSUME Exact PROVE SegInv' BY <1>1 DEF SegInv, Exact
      <3>1. ASSUME NEW i \in Modules, CodePlaced(i), Linked(i)
            PROVE  End(i) - Seg(i) <= CodeLimit
        <4>1. /\ base.code \in Nat /\ groupStart \in Nat /\ End(i) \in Nat
              /\ groupStart \div 16 \in Nat
          BY Types DEF IInv
        <4>2. CASE i < head BY <4>2, <3>1, <1>1 DEF IInv, SegInv, Live
        <4>3. CASE i >= head
          <5>1. /\ place[order[i]].para = (groupStart \div 16) % ParaMod
                /\ groupStart = 16 * (groupStart \div 16)
                /\ groupStart <= base.code
            BY <4>3, <3>1, <1>1 DEF IInv, StartInv
          <5>2. groupStart \div 16 < ParaMod BY <4>1, <5>1 DEF Exact
          <5>3. Seg(i) = groupStart BY <4>1, <5>1, <5>2, SmallMod DEF Seg
          <5>4. End(i) <= base.code BY <3>1, <1>1 DEF IInv, CodeInv, Live
          <5> QED BY <4>1, <5>3, <5>4, <1>4
        <4> QED BY <4>2, <4>3, <1>1
      <3> QED BY <1>1, <2>1, <2>5, <3>1 DEF IInv, SegInv, Exact, Live, Linked, Group, Code, End, Seg
    <2>8. DataInv' /\ FitInv'
      BY <1>1, <2>1 DEF IInv, DataInv, FitInv, Done, DataPlaced, Live, Linked
    <2> QED BY <1>2, <2>2, <2>3, <2>6, <2>7, <2>8 DEF IInv
  <1> QED BY <1>3, <1>4

LEMMA NextGroupInv == IInv /\ NextGroup => IInv'
  <1> SUFFICES ASSUME IInv, NextGroup PROVE IInv' OBVIOUS
  <1> USE DEF Modules
  <1>1. /\ head \in Nat /\ head \in 1..N /\ cur \in Nat /\ cur \in 1..N+1 /\ head <= cur /\ ~InGroup
        /\ pass = "data" /\ pass' = "head" /\ head' = cur
        /\ UNCHANGED <<order, group, size, used, entry, place, base, groupStart, cur>>
    BY DEF IInv, TypeOK, CursorInv, NextGroup, inputs
  <1>2. TypeOK' BY <1>1 DEF IInv, TypeOK
  <1>3. ListInv' BY <1>1 DEF IInv, ListInv, ListIsPermutation, InEntryGroup, Group
  <1>4. \A i \in Modules : head <= i => (Group(i) = Group(head) <=> i < cur)
    BY <1>1 DEF IInv, ListInv, CursorInv, InGroup, Group
  <1>5. CursorInv'
    BY <1>1, <1>4 DEF IInv, CursorInv, Live, Linked, Group
  <1>6. \A i \in Modules : CodePlaced(i)' <=> CodePlaced(i)
    BY <1>1, <1>4 DEF CodePlaced, Group
  <1>7. \A i \in Modules : DataPlaced(i)' <=> DataPlaced(i)
    BY <1>1 DEF DataPlaced
  <1>8. CodeInv' /\ StartInv' /\ ParaInv'
    BY <1>1, <1>6 DEF IInv, CodeInv, StartInv, ParaInv, Live, Linked, Group, Code, End
  <1>9. SegInv' BY <1>1, <1>6 DEF IInv, SegInv, Exact, Live, Linked, Group, Code, End, Seg
  <1>10. DataInv' /\ FitInv'
    BY <1>1, <1>7 DEF IInv, DataInv, FitInv, Done, Live, Linked
  <1> QED BY <1>2, <1>3, <1>5, <1>8, <1>9, <1>10 DEF IInv

LEMMA FinishInv == IInv /\ Finish => IInv'
  <1> SUFFICES ASSUME IInv, Finish PROVE IInv' OBVIOUS
  <1> USE DEF Modules
  <1>1. /\ head \in Nat /\ head = N + 1 /\ pass = "head"
        /\ UNCHANGED <<order, group, size, used, entry, place, base, groupStart, head, cur>>
        /\ base.data \in Nat /\ base.bss \in Nat
    <2>1. /\ pass = "head" /\ head > N
          /\ UNCHANGED <<order, group, size, used, entry, place, base, groupStart, head, cur>>
      BY DEF Finish, inputs
    <2>2. head \in 1..N+1 BY DEF IInv, TypeOK
    <2>3. base.data \in Nat /\ base.bss \in Nat BY Types DEF IInv
    <2> QED BY <2>1, <2>2, <2>3
  <1>2. ListInv' BY <1>1 DEF IInv, ListInv, ListIsPermutation, InEntryGroup, Group
  <1>3. CASE TotalData + TotalBss > DataLimit
    <2>1. pass' = "data_and_bss_too_large" BY <1>3 DEF Finish
    <2>2. TypeOK' BY <1>1, <2>1 DEF IInv, TypeOK, Errors
    <2> QED BY <1>1, <1>2, <2>1, <2>2
            DEF IInv, CursorInv, CodeInv, StartInv, SegInv, ParaInv, DataInv, FitInv, Live, Done
  <1>4. CASE ~(TotalData + TotalBss > DataLimit)
    <2>1. pass' = "done" BY <1>4 DEF Finish
    <2>2. TypeOK' BY <1>1, <2>1 DEF IInv, TypeOK
    <2>3. \A i \in Modules : (CodePlaced(i)' <=> CodePlaced(i)) /\ (DataPlaced(i)' <=> DataPlaced(i))
      BY <1>1, <2>1 DEF CodePlaced, DataPlaced
    <2>4. CursorInv' BY <1>1, <2>1 DEF IInv, CursorInv, Live, Linked, Group
    <2>5. CodeInv' /\ StartInv' /\ ParaInv' /\ DataInv'
      BY <1>1, <2>1, <2>3 DEF IInv, CodeInv, StartInv, ParaInv, DataInv, Live, Linked, Group, Code, End
    <2>6. SegInv' BY <1>1, <2>1, <2>3 DEF IInv, SegInv, Exact, Live, Linked, Group, Code, End, Seg
    <2>7. FitInv' BY <1>1, <1>4 DEF FitInv, Done, TotalData, TotalBss
    <2> QED BY <1>2, <2>2, <2>4, <2>5, <2>6, <2>7 DEF IInv
  <1> QED BY <1>3, <1>4

LEMMA MoveInv == IInv /\ MoveEntryGroup => IInv'
  <1> SUFFICES ASSUME IInv, MoveEntryGroup PROVE IInv' OBVIOUS
  <1> USE DEF Modules
  <1>1. PICK first, last \in Modules : first <= last /\ IsEntryRun(first, last) /\ order' = Splice(first, last)
    BY DEF MoveEntryGroup
  <1>2. /\ pass = "move" /\ pass' = "head" /\ head = 1
        /\ UNCHANGED <<group, size, used, entry, place, base, groupStart, head, cur>>
    BY DEF IInv, CursorInv, MoveEntryGroup, inputs
  <1> DEFINE n == last - first + 1
             from == [i \in Modules |-> IF i <= n THEN i + first - 1
                                        ELSE IF i <= last THEN i - n ELSE i]
  <1>3. n \in 1..last /\ from \in [Modules -> Modules] BY <1>1
  <1>4. order \in [Modules -> Modules] BY DEF IInv, TypeOK
  <1>5. /\ order' \in [Modules -> Modules]
        /\ \A i \in Modules : order'[i] = order[from[i]]
    BY <1>1, <1>3, <1>4 DEF Splice
  <1>6. \A i, j \in Modules : from[i] = from[j] => i = j BY <1>1, <1>3
  <1>7. \A k \in Modules : \E i \in Modules : from[i] = k
    <2> SUFFICES ASSUME NEW k \in Modules PROVE \E i \in Modules : from[i] = k OBVIOUS
    <2>1. CASE k < first
      <3>1. k + n \in Modules /\ ~(k + n <= n) /\ k + n <= last /\ k + n - n = k BY <1>1, <2>1
      <3>2. from[k + n] = k BY <3>1
      <3> QED BY <3>1, <3>2
    <2>2. CASE first <= k /\ k <= last
      <3>1. /\ k - first + 1 \in Modules /\ k - first + 1 <= n
            /\ k - first + 1 + first - 1 = k
        BY <1>1, <2>2
      <3>2. from[k - first + 1] = k BY <3>1
      <3> QED BY <3>1, <3>2
    <2>3. CASE last < k BY <1>1, <2>3
    <2> QED BY <2>1, <2>2, <2>3, <1>1
  <1>8. /\ \A i \in Modules : i <= n <=> (first <= from[i] /\ from[i] <= last)
        /\ \A i, j \in Modules : i <= j /\ n < i => from[i] <= from[j]
        /\ \A i, j \in Modules : i <= j /\ j <= n => from[i] <= from[j]
    BY <1>1, <1>3
  <1>9. /\ \A i \in Modules : i < first => ~InEntryGroup(i)
        /\ \A i \in Modules : first <= i /\ i <= last => InEntryGroup(i)
        /\ last < N => ~InEntryGroup(last + 1)
    BY <1>1 DEF IsEntryRun
  <1>10. \A i \in Modules : last < i => ~InEntryGroup(i)
    <2> SUFFICES ASSUME NEW i \in Modules, last < i, InEntryGroup(i) PROVE FALSE OBVIOUS
    <2>1. last + 1 \in Modules /\ last < N BY <1>1
    <2>2. InEntryGroup(last) BY <1>1, <1>9
    <2>3. Group(last + 1) = Group(i)
      BY <2>1, <2>2, <1>1 DEF IInv, ListInv, Group, InEntryGroup
    <2> QED BY <2>1, <2>3, <1>9 DEF Group, InEntryGroup
  <1>11. \A i \in Modules : InEntryGroup(i) <=> (first <= i /\ i <= last)
    BY <1>1, <1>9, <1>10
  <1>a. \A i \in Modules : from[i] \in Modules /\ order[i] \in Modules BY <1>3, <1>4
  <1>b. n \in Nat BY <1>3
  <1> HIDE DEF n, from
  <1>12. \A i \in Modules : InEntryGroup(i)' <=> i <= n
    <2> SUFFICES ASSUME NEW i \in Modules PROVE InEntryGroup(i)' <=> i <= n OBVIOUS
    <2>1. InEntryGroup(i)' <=> InEntryGroup(from[i]) BY <1>2, <1>5 DEF InEntryGroup
    <2>2. InEntryGroup(from[i]) <=> (first <= from[i] /\ from[i] <= last) BY <1>a, <1>11
    <2>3. i <= n <=> (first <= from[i] /\ from[i] <= last) BY <1>8
    <2> QED BY <2>1, <2>2, <2>3
  <1>13. ListInv'
    <2>1. ListIsPermutation'
      <3> SUFFICES ASSUME NEW i \in Modules, NEW j \in Modules, order'[i] = order'[j]
                   PROVE  i = j
        BY DEF ListIsPermutation
      <3>1. order[from[i]] = order[from[j]] BY <1>5
      <3>2. from[i] = from[j] BY <3>1, <1>a DEF IInv, ListInv, ListIsPermutation
      <3> QED BY <3>2, <1>6
    <2>2. \A a \in Modules : \E i \in Modules : order'[i] = a
      <3> SUFFICES ASSUME NEW a \in Modules PROVE \E i \in Modules : order'[i] = a OBVIOUS
      <3>1. PICK k \in Modules : order[k] = a BY DEF IInv, ListInv
      <3>2. PICK i \in Modules : from[i] = k BY <1>7
      <3> QED BY <3>1, <3>2, <1>5
    <2>3. ASSUME NEW i \in Modules, NEW j \in Modules, NEW k \in Modules,
                 i <= j, j <= k, Group(i)' = Group(k)'
          PROVE  Group(j)' = Group(k)'
      <3>1. Group(from[i]) = Group(from[k]) BY <2>3, <1>2, <1>5 DEF Group
      <3>2. InEntryGroup(from[i]) <=> InEntryGroup(from[k]) BY <3>1 DEF InEntryGroup, Group
      <3>3. i <= n <=> k <= n BY <3>2, <1>3, <1>8, <1>11
      <3>4. from[i] <= from[j] /\ from[j] <= from[k]
        <4>1. CASE k <= n BY <4>1, <2>3, <1>b, <1>8
        <4>2. CASE ~(k <= n) BY <4>2, <3>3, <2>3, <1>b, <1>8
        <4> QED BY <4>1, <4>2
      <3>5. Group(from[j]) = Group(from[k])
        BY <3>1, <3>4, <1>a DEF IInv, ListInv
      <3> QED BY <3>5, <1>2, <1>5 DEF Group
    <2>4. \A i, j \in Modules : i <= j /\ InEntryGroup(j)' => InEntryGroup(i)'
      BY <1>3, <1>12
    <2> QED BY <2>1, <2>2, <2>3, <2>4 DEF ListInv
  <1>14. TypeOK' BY <1>2, <1>5 DEF IInv, TypeOK
  <1>15. CursorInv' BY <1>2 DEF CursorInv, Live
  <1>16. CodeInv' /\ StartInv' /\ SegInv' /\ ParaInv' /\ DataInv' /\ FitInv'
    BY <1>2 DEF CodeInv, StartInv, SegInv, ParaInv, DataInv, FitInv, Done, CodePlaced, DataPlaced
  <1> QED BY <1>13, <1>14, <1>15, <1>16 DEF IInv

\* A pass steps over the list position cur, which lies in the group of head.
LEMMA StepFacts ==
    ASSUME IInv, pass \in {"code", "data"}, InGroup, cur' = cur + 1,
           UNCHANGED <<order, group, size, used, entry, groupStart, head, pass>>
    PROVE  /\ head \in Nat /\ cur \in Nat /\ head \in 1..N /\ cur \in 1..N /\ head <= cur
           /\ cur' \in 1..N+1
           /\ Group(cur) = Group(head)
           /\ ListInv' /\ CursorInv' /\ FitInv'
  <1> USE DEF Modules
  <1>1. head \in 1..N+1 /\ cur \in 1..N+1 /\ head <= N /\ head <= cur /\ cur <= N
    BY DEF IInv, TypeOK, CursorInv, InGroup
  <1>2. Group(cur) = Group(head) BY DEF InGroup, Group
  <1>3. ListInv' BY <1>1 DEF IInv, ListInv, ListIsPermutation, InEntryGroup, Group
  <1>4. CursorInv' BY <1>1, <1>2 DEF IInv, CursorInv, Live, Linked, Group
  <1>5. FitInv' BY DEF FitInv, Done
  <1> QED BY <1>1, <1>2, <1>3, <1>4, <1>5

LEMMA PlaceCodeInv == IInv /\ PlaceCode => IInv'
  <1> SUFFICES ASSUME IInv, PlaceCode PROVE IInv' OBVIOUS
  <1> USE DEF Modules
  <1> DEFINE a == order[cur]
             para == (groupStart \div 16) % ParaMod
  <1>1. /\ pass = "code" /\ InGroup /\ cur' = cur + 1
        /\ UNCHANGED <<order, group, size, used, entry, groupStart, head, pass>>
    BY DEF PlaceCode, Step, inputs
  <1>2. /\ head \in Nat /\ cur \in Nat /\ head \in 1..N /\ cur \in 1..N /\ head <= cur
        /\ cur' \in 1..N+1
        /\ Group(cur) = Group(head)
        /\ ListInv' /\ CursorInv' /\ FitInv'
    BY <1>1, StepFacts
  <1>c. PICK c \in Modules : c = cur BY <1>2
  <1>3. \A i \in Modules : CodePlaced(i) <=> i < cur BY <1>1, <1>2 DEF CodePlaced
  <1>4. \A i \in Modules : CodePlaced(i)' <=> i < cur \/ i = cur BY <1>1, <1>2 DEF CodePlaced
  <1>5. CASE a \notin used
    <2>1. place' = place /\ base' = base BY <1>5 DEF PlaceCode, Step
    <2>2. ~Linked(cur) BY <1>5 DEF Linked
    <2>3. TypeOK' BY <1>1, <1>2, <2>1 DEF IInv, TypeOK
    <2>4. CodeInv' /\ StartInv' /\ ParaInv'
      BY <1>1, <1>2, <1>3, <1>4, <2>1, <2>2
         DEF IInv, CodeInv, StartInv, ParaInv, Live, Linked, Group, Code, End
    <2>5. SegInv'
      BY <1>1, <1>2, <1>3, <1>4, <2>1, <2>2
         DEF IInv, SegInv, Exact, Live, Linked, Group, Code, End, Seg
    <2>6. DataInv' BY <1>1, <2>1 DEF IInv, DataInv, DataPlaced, Live, Linked
    <2> QED BY <1>2, <2>3, <2>4, <2>5, <2>6 DEF IInv
  <1>6. CASE a \in used
    <2>1. /\ place' = [place EXCEPT ![a].code = base.code, ![a].para = para]
          /\ base' = [base EXCEPT !.code = Align2(base.code + size[a].code)]
      BY <1>6 DEF PlaceCode, Step
    <2>2. /\ a \in Modules /\ place[a] \in Places /\ size[a].code \in Nat
          /\ base.code \in Nat /\ groupStart \in Nat /\ groupStart \div 16 \in Nat
          /\ para \in 0..ParaMod-1 /\ para \in Nat
      <3>1. /\ a \in Modules /\ size[a].code \in Nat /\ base.code \in Nat
            /\ groupStart \in Nat /\ groupStart \div 16 \in Nat
        BY <1>2, Types DEF IInv
      <3>2. para \in 0..ParaMod-1 /\ para \in Nat BY <3>1, SmallMod
      <3>3. place[a] \in Places BY <3>1 DEF IInv, TypeOK
      <3> QED BY <3>1, <3>2, <3>3
    <2> HIDE DEF para
    <2>3. place'[a] = [place[a] EXCEPT !.code = base.code, !.para = para]
      BY <2>1, <2>2 DEF IInv, TypeOK
    <2>4. /\ place'[a] \in Places /\ place'[a].code = base.code /\ place'[a].para = para
          /\ place'[a].data = place[a].data /\ place'[a].bss = place[a].bss
      BY <2>2, <2>3 DEF Places
    <2>5. \A b \in Modules : b # a => place'[b] = place[b]
      BY <2>1 DEF IInv, TypeOK
    <2>6. place' \in [Modules -> Places]
      BY <2>1, <2>4, <2>5 DEF IInv, TypeOK
    <2>7. /\ base' \in [code : Nat, data : Nat, bss : Nat]
          /\ base.code + size[a].code <= base'.code
          /\ base'.data = base.data /\ base'.bss = base.bss
      <3>1. base.code + size[a].code \in Nat BY <2>2
      <3>2. /\ Align2(base.code + size[a].code) \in Nat
            /\ base.code + size[a].code <= Align2(base.code + size[a].code)
        BY <3>1, Align2Fact
      <3>3. base \in [code : Nat, data : Nat, bss : Nat] BY DEF IInv, TypeOK
      <3> QED BY <2>1, <3>2, <3>3
    <2>8. TypeOK' BY <1>1, <1>2, <2>6, <2>7 DEF IInv, TypeOK
    <2>9. /\ Code(c)' = base.code /\ End(c)' = base.code + size[a].code
          /\ place'[order'[c]].para = para /\ Seg(c)' = 16 * para
      BY <1>1, <1>c, <2>4 DEF Code, End, Seg
    <2>10. \A i \in Modules : i # cur =>
              /\ Code(i)' = Code(i) /\ End(i)' = End(i) /\ Seg(i)' = Seg(i)
              /\ place'[order'[i]] = place[order[i]]
      BY <1>1, <1>2, <2>5 DEF IInv, ListInv, ListIsPermutation, TypeOK, Code, End, Seg
    <2>11. \A i \in Modules : (Linked(i)' <=> Linked(i)) /\ Group(i)' = Group(i)
      BY <1>1 DEF Linked, Group
    <2>12. \A i \in Modules : Code(i) \in Nat /\ End(i) \in Nat BY Types DEF IInv
    <2>13. base'.code \in Nat /\ base.code <= base'.code BY <2>2, <2>7
    <2>14. \A i \in Modules : i < cur /\ Linked(i) => End(i) <= base.code
      BY <1>1, <1>3 DEF IInv, CodeInv, Live
    <2>15. CodeInv'
      <3>1. ASSUME NEW i \in Modules, CodePlaced(i)', Linked(i)
            PROVE  End(i)' <= base'.code
        BY <3>1, <1>2, <1>4, <2>2, <2>7, <1>c, <2>9, <2>10, <2>12, <2>13, <2>14
      <3>2. ASSUME NEW i \in Modules, NEW j \in Modules, i < j, CodePlaced(j)', Linked(i), Linked(j)
            PROVE  End(i)' <= Code(j)'
        <4>1. CASE j = cur BY <3>2, <4>1, <1>2, <1>c, <2>9, <2>10, <2>14
        <4>2. CASE j < cur
          BY <3>2, <4>2, <1>1, <1>2, <1>3, <2>10 DEF IInv, CodeInv, Live
        <4> QED BY <4>1, <4>2, <3>2, <1>4
      <3> QED BY <3>1, <3>2, <2>11 DEF CodeInv
    <2>16. StartInv'
      <3>1. /\ groupStart <= base.code /\ groupStart = 16 * (groupStart \div 16)
            /\ \A i \in Modules : i < head /\ Linked(i) => End(i) <= groupStart
            /\ \A i \in Modules : head <= i /\ i < cur /\ Linked(i) =>
                  place[order[i]].para = para /\ groupStart <= Code(i)
        BY <1>1, <1>3 DEF IInv, StartInv, para
      <3>2. groupStart' <= base'.code BY <1>1, <2>2, <2>13, <3>1
      <3>3. \A i \in Modules : i < head /\ Linked(i)' => End(i)' <= groupStart'
        BY <1>1, <1>2, <2>10, <2>11, <3>1
      <3>4. \A i \in Modules : head <= i /\ CodePlaced(i)' /\ Linked(i)' =>
               place'[order'[i]].para = para /\ groupStart' <= Code(i)'
        BY <1>1, <1>2, <1>4, <1>c, <2>9, <2>10, <2>11, <3>1
      <3> QED BY <1>1, <3>1, <3>2, <3>3, <3>4 DEF StartInv, para
    <2>17. ParaInv'
      <3>1. \A i \in Modules : i < cur /\ Linked(i) /\ Group(i) = Group(cur) => place[order[i]].para = para
        BY <1>1, <1>2, <1>3 DEF IInv, StartInv, CursorInv, Live, para
      <3>2. \A i \in Modules : CodePlaced(i)' /\ Linked(i) /\ Group(i) = Group(cur) => place'[order'[i]].para = para
        BY <3>1, <1>2, <1>4, <1>c, <2>9, <2>10
      <3>3. ASSUME NEW i \in Modules, NEW j \in Modules, CodePlaced(i)', CodePlaced(j)',
                   Linked(i), Linked(j), Group(i) = Group(j)
            PROVE  place'[order'[i]].para = place'[order'[j]].para
        <4>1. CASE Group(i) = Group(cur) BY <4>1, <3>2, <3>3
        <4>2. CASE Group(i) # Group(cur)
          <5>1. i < cur /\ j < cur BY <4>2, <3>3, <1>4
          <5>2. place[order[i]].para = place[order[j]].para
            BY <5>1, <3>3, <1>1, <1>3 DEF IInv, ParaInv, Live
          <5> QED BY <5>1, <5>2, <1>2, <2>10
        <4> QED BY <4>1, <4>2
      <3> QED BY <3>3, <2>11 DEF ParaInv
    <2>18. SegInv'
      <3> SUFFICES ASSUME base'.code < 16 * ParaMod PROVE SegInv' BY DEF SegInv, Exact
      <3>1. Exact BY <2>2, <2>13 DEF Exact
      <3>2. /\ groupStart <= base.code /\ groupStart = 16 * (groupStart \div 16)
            /\ \A i \in Modules : i < head /\ Linked(i) => End(i) <= groupStart
        BY <1>1 DEF IInv, StartInv
      <3>3. groupStart \div 16 < ParaMod BY <2>2, <3>1, <3>2 DEF Exact
      <3>4. 16 * para = groupStart BY <2>2, <3>2, <3>3, SmallMod DEF para
      <3>5. ASSUME NEW i \in Modules, CodePlaced(i)', Linked(i)
            PROVE  /\ Seg(i)' <= Code(i)'
                   /\ i < head => End(i)' - Seg(i)' <= CodeLimit
        <4>1. CASE i = cur BY <4>1, <1>2, <1>c, <2>9, <3>2, <3>4
        <4>2. CASE i < cur
          <5>1. Seg(i) <= Code(i) /\ (i < head => End(i) - Seg(i) <= CodeLimit)
            BY <4>2, <3>1, <3>5, <1>1, <1>3 DEF IInv, SegInv, Live
          <5> QED BY <4>2, <5>1, <1>2, <2>10
        <4> QED BY <4>1, <4>2, <3>5, <1>4
      <3>6. ASSUME NEW i \in Modules, NEW j \in Modules, i < j, CodePlaced(j)',
                   Linked(i), Linked(j), Group(i) # Group(j)
            PROVE  End(i)' <= Seg(j)'
        <4>1. CASE j = cur
          <5>1. i < head BY <4>1, <3>6, <1>1, <1>2 DEF IInv, CursorInv
          <5> QED BY <4>1, <5>1, <1>2, <1>c, <2>9, <2>10, <3>2, <3>4, <3>6
        <4>2. CASE j < cur
          <5>1. End(i) <= Seg(j)
            BY <4>2, <3>1, <3>6, <1>1, <1>3 DEF IInv, SegInv, Live
          <5> QED BY <4>2, <5>1, <3>6, <1>2, <2>10
        <4> QED BY <4>1, <4>2, <3>6, <1>4
      <3> QED BY <1>1, <2>11, <3>5, <3>6 DEF SegInv
    <2>19. DataInv'
      <3>1. \A i \in Modules : /\ place'[order'[i]].data = place[order[i]].data
                               /\ place'[order'[i]].bss = place[order[i]].bss
        BY <1>1, <1>2, <2>4, <2>10
      <3>2. \A i \in Modules : DataPlaced(i)' <=> DataPlaced(i) BY <1>1 DEF DataPlaced
      <3> QED BY <1>1, <2>7, <2>11, <3>1, <3>2 DEF IInv, DataInv, Live
    <2> QED BY <1>2, <2>8, <2>15, <2>16, <2>17, <2>18, <2>19 DEF IInv
  <1> QED BY <1>5, <1>6

LEMMA PlaceDataInv == IInv /\ PlaceData => IInv'
  <1> SUFFICES ASSUME IInv, PlaceData PROVE IInv' OBVIOUS
  <1> USE DEF Modules
  <1> DEFINE a == order[cur]
  <1>1. /\ pass = "data" /\ InGroup /\ cur' = cur + 1
        /\ UNCHANGED <<order, group, size, used, entry, groupStart, head, pass>>
    BY DEF PlaceData, Step, inputs
  <1>2. /\ head \in Nat /\ cur \in Nat /\ head \in 1..N /\ cur \in 1..N /\ head <= cur
        /\ cur' \in 1..N+1
        /\ Group(cur) = Group(head)
        /\ ListInv' /\ CursorInv' /\ FitInv'
    BY <1>1, StepFacts
  <1>c. PICK c \in Modules : c = cur BY <1>2
  <1>3. \A i \in Modules : CodePlaced(i)' <=> CodePlaced(i) BY <1>1 DEF CodePlaced, Group
  <1>4. \A i \in Modules : /\ DataPlaced(i) <=> i < cur
                           /\ DataPlaced(i)' <=> i < cur \/ i = cur
    BY <1>1, <1>2 DEF DataPlaced
  <1>5. CASE a \notin used
    <2>1. place' = place /\ base' = base BY <1>5 DEF PlaceData, Step
    <2>2. ~Linked(cur) BY <1>5 DEF Linked
    <2>3. TypeOK' BY <1>1, <1>2, <2>1 DEF IInv, TypeOK
    <2>4. CodeInv' /\ StartInv' /\ ParaInv'
      BY <1>1, <1>3, <2>1 DEF IInv, CodeInv, StartInv, ParaInv, Live, Linked, Group, Code, End
    <2>5. SegInv' BY <1>1, <1>3, <2>1 DEF IInv, SegInv, Exact, Live, Linked, Group, Code, End, Seg
    <2>6. DataInv' BY <1>1, <1>2, <1>4, <2>1, <2>2 DEF IInv, DataInv, Live, Linked
    <2> QED BY <1>2, <2>3, <2>4, <2>5, <2>6 DEF IInv
  <1>6. CASE a \in used
    <2>1. /\ place' = [place EXCEPT ![a].data = base.data, ![a].bss = base.bss]
          /\ base' = [base EXCEPT !.data = Align16(base.data + size[a].data),
                                  !.bss  = Align16(base.bss + size[a].bss)]
      BY <1>6 DEF PlaceData, Step
    <2>2. /\ a \in Modules /\ size[a].data \in Nat /\ size[a].bss \in Nat
          /\ base.data \in Nat /\ base.bss \in Nat
      BY <1>2, Types DEF IInv
    <2>3. place'[a] = [place[a] EXCEPT !.data = base.data, !.bss = base.bss] /\ place[a] \in Places
      BY <2>1, <2>2 DEF IInv, TypeOK
    <2>4. /\ place'[a] \in Places /\ place'[a].data = base.data /\ place'[a].bss = base.bss
          /\ place'[a].code = place[a].code /\ place'[a].para = place[a].para
      BY <2>2, <2>3 DEF Places
    <2>5. \A b \in Modules : b # a => place'[b] = place[b]
      BY <2>1 DEF IInv, TypeOK
    <2>6. place' \in [Modules -> Places]
      BY <2>1, <2>4, <2>5 DEF IInv, TypeOK
    <2>7. /\ base' \in [code : Nat, data : Nat, bss : Nat] /\ base'.code = base.code
          /\ base.data + size[a].data <= base'.data
          /\ base.bss + size[a].bss <= base'.bss
      <3>1. base.data + size[a].data \in Nat /\ base.bss + size[a].bss \in Nat BY <2>2
      <3>2. /\ Align16(base.data + size[a].data) \in Nat /\ Align16(base.bss + size[a].bss) \in Nat
            /\ base.data + size[a].data <= Align16(base.data + size[a].data)
            /\ base.bss + size[a].bss <= Align16(base.bss + size[a].bss)
        BY <3>1, Align16Fact
      <3>3. base \in [code : Nat, data : Nat, bss : Nat] BY DEF IInv, TypeOK
      <3> QED BY <2>1, <3>2, <3>3
    <2>8. TypeOK' BY <1>1, <1>2, <2>6, <2>7 DEF IInv, TypeOK
    <2>9. \A i \in Modules : /\ place'[order'[i]].code = place[order[i]].code
                             /\ place'[order'[i]].para = place[order[i]].para
      BY <1>1, <2>4, <2>5 DEF IInv, TypeOK
    <2>10. CodeInv' /\ StartInv' /\ ParaInv'
      BY <1>1, <1>3, <2>7, <2>9 DEF IInv, CodeInv, StartInv, ParaInv, Live, Linked, Group, Code, End
    <2>11. SegInv'
      BY <1>1, <1>3, <2>7, <2>9 DEF IInv, SegInv, Exact, Live, Linked, Group, Code, End, Seg
    <2>12. DataInv'
      <3>1. /\ place'[order'[c]].data = base.data /\ place'[order'[c]].bss = base.bss
            /\ order[c] = a
        BY <1>1, <1>c, <2>4
      <3>2. \A i \in Modules : i # c => place'[order'[i]] = place[order[i]]
        BY <1>1, <1>c, <2>5 DEF IInv, ListInv, ListIsPermutation, TypeOK
      <3>3. \A i \in Modules : i < c /\ Linked(i) =>
               /\ place[order[i]].data + size[order[i]].data <= base.data
               /\ place[order[i]].bss + size[order[i]].bss <= base.bss
        BY <1>1, <1>4, <1>c DEF IInv, DataInv, Live
      <3>4. \A i \in Modules :
               /\ place[order[i]].data \in Nat /\ place[order[i]].bss \in Nat
               /\ size[order[i]].data \in Nat /\ size[order[i]].bss \in Nat
        BY Types DEF IInv
      <3>5. base'.data \in Nat /\ base'.bss \in Nat BY <2>7
      <3>6. ASSUME NEW i \in Modules, DataPlaced(i)', Linked(i)
            PROVE  /\ place'[order'[i]].data + size'[order'[i]].data <= base'.data
                   /\ place'[order'[i]].bss + size'[order'[i]].bss <= base'.bss
        <4>1. CASE i = c BY <4>1, <1>1, <2>7, <3>1
        <4>2. CASE i < c BY <4>2, <1>1, <1>c, <2>2, <2>7, <3>2, <3>3, <3>4, <3>5, <3>6
        <4> QED BY <4>1, <4>2, <3>6, <1>4, <1>c
      <3>7. ASSUME NEW i \in Modules, NEW j \in Modules, i < j, DataPlaced(j)', Linked(i), Linked(j)
            PROVE  /\ place'[order'[i]].data + size'[order'[i]].data <= place'[order'[j]].data
                   /\ place'[order'[i]].bss + size'[order'[i]].bss <= place'[order'[j]].bss
        <4>1. CASE j = c BY <4>1, <1>1, <3>1, <3>2, <3>3, <3>7
        <4>2. CASE j < c
          BY <4>2, <1>1, <1>4, <1>c, <3>2, <3>7 DEF IInv, DataInv, Live
        <4> QED BY <4>1, <4>2, <3>7, <1>4, <1>c
      <3>8. \A i \in Modules : Linked(i)' <=> Linked(i) BY <1>1 DEF Linked
      <3> QED BY <3>6, <3>7, <3>8 DEF DataInv
    <2> QED BY <1>2, <2>8, <2>10, <2>11, <2>12 DEF IInv
  <1> QED BY <1>5, <1>6

LEMMA NextInv == IInv /\ [Next]_vars => IInv'
  <1> SUFFICES ASSUME IInv, [Next]_vars PROVE IInv' OBVIOUS
  <1>1. CASE MoveEntryGroup BY <1>1, MoveInv
  <1>2. CASE SkipUnused BY <1>2, SkipUnusedInv
  <1>3. CASE StartGroup BY <1>3, StartGroupInv
  <1>4. CASE PlaceCode BY <1>4, PlaceCodeInv
  <1>5. CASE EndCodePass BY <1>5, EndCodePassInv
  <1>6. CASE PlaceData BY <1>6, PlaceDataInv
  <1>7. CASE NextGroup BY <1>7, NextGroupInv
  <1>8. CASE Finish BY <1>8, FinishInv
  <1>9. CASE UNCHANGED vars BY <1>9, StutterInv
  <1> QED BY <1>1, <1>2, <1>3, <1>4, <1>5, <1>6, <1>7, <1>8, <1>9 DEF Next
-----------------------------------------------------------------------------
(* Every reachable state of the layout satisfies the inductive invariant.    *)
THEOREM Invariance == Spec => []IInv
  <1>1. Init => IInv BY InitInv
  <1>2. IInv /\ [Next]_vars => IInv' BY NextInv
  <1> QED BY <1>1, <1>2, PTL DEF Spec

(* The layout keeps its types (olink_calculate_layout).                      *)
THEOREM TypeCorrect == Spec => []TypeOK
  <1>1. IInv => TypeOK BY DEF IInv
  <1> QED BY <1>1, Invariance, PTL

(* Splicing the entry group to the front keeps every module exactly once.    *)
THEOREM ListKept == Spec => []ListIsPermutation
  <1>1. IInv => ListIsPermutation BY DEF IInv, ListInv
  <1> QED BY <1>1, Invariance, PTL

\* At the end every linked module stands at a placed list position.
LEMMA AllPlaced ==
    ASSUME IInv, Done, NEW a \in used
    PROVE  \E i \in Modules : order[i] = a /\ Linked(i) /\ CodePlaced(i) /\ DataPlaced(i)
  <1>1. PICK i \in Modules : order[i] = a BY DEF IInv, ListInv, TypeOK
  <1>2. i < head BY DEF IInv, CursorInv, Done, Modules
  <1> QED BY <1>1, <1>2 DEF Linked, CodePlaced, DataPlaced

LEMMA Ordered ==
    ASSUME IInv, Done, NEW i \in Modules, NEW j \in Modules, Linked(i), Linked(j),
           CodePlaced(j), DataPlaced(j), i < j
    PROVE  /\ End(i) <= Code(j)
           /\ place[order[i]].data + size[order[i]].data <= place[order[j]].data
           /\ place[order[i]].bss + size[order[i]].bss <= place[order[j]].bss
           /\ Exact /\ Group(i) # Group(j) => End(i) <= Seg(j)
  BY DEF IInv, CodeInv, DataInv, SegInv, Live, Done

LEMMA CodeEndFact == IInv /\ Done => \A a \in used : CodeEnd(a) <= TotalCode
  <1> SUFFICES ASSUME IInv, Done, NEW a \in used PROVE CodeEnd(a) <= TotalCode OBVIOUS
  <1>1. PICK i \in Modules : order[i] = a /\ Linked(i) /\ CodePlaced(i) BY AllPlaced
  <1>2. End(i) <= base.code BY <1>1 DEF IInv, CodeInv, Live, Done
  <1>3. base.code \in Nat /\ End(i) \in Nat BY Types DEF IInv
  <1>4. base.code <= TotalCode /\ TotalCode \in Nat BY <1>3, Align16Fact DEF TotalCode
  <1> QED BY <1>1, <1>2, <1>3, <1>4 DEF CodeEnd, End

LEMMA ExactWhenNameable == IInv /\ Nameable => Exact
  <1> SUFFICES ASSUME IInv, Nameable PROVE Exact OBVIOUS
  <1>1. base.code \in Nat BY Types DEF IInv
  <1> QED BY <1>1, Align16Fact DEF TotalCode, Nameable, Exact

LEMMA DisjointFact == IInv => CodeDisjoint
  <1> SUFFICES ASSUME IInv, Done, NEW a \in used, NEW b \in used, a # b
               PROVE  CodeEnd(a) <= place[b].code \/ CodeEnd(b) <= place[a].code
    BY CodeEndFact DEF CodeDisjoint
  <1>1. PICK i \in Modules : order[i] = a /\ Linked(i) /\ CodePlaced(i) /\ DataPlaced(i) BY AllPlaced
  <1>2. PICK j \in Modules : order[j] = b /\ Linked(j) /\ CodePlaced(j) /\ DataPlaced(j) BY AllPlaced
  <1>3. i < j \/ j < i BY <1>1, <1>2 DEF Modules
  <1> QED BY <1>1, <1>2, <1>3, Ordered DEF CodeEnd, End, Code

(* Loading one linked module's code never overwrites another's.              *)
THEOREM CodeNeverOverlaps == Spec => []CodeDisjoint
  BY DisjointFact, Invariance, PTL

LEMMA AddressableFact == IInv => GroupAddressable
  <1> SUFFICES ASSUME IInv, Done, Nameable, NEW a \in used
               PROVE  GroupOfs(a) >= 0 /\ GroupOfs(a) + size[a].code <= CodeLimit
    BY DEF GroupAddressable
  <1>1. PICK i \in Modules : order[i] = a /\ Linked(i) /\ CodePlaced(i) BY AllPlaced
  <1>2. Seg(i) <= Code(i) /\ End(i) - Seg(i) <= CodeLimit
    BY <1>1, ExactWhenNameable DEF IInv, SegInv, Live, Done
  <1>3. Code(i) \in Nat /\ End(i) \in Nat /\ place[order[i]].para \in Nat /\ size[order[i]].code \in Nat
    BY Types DEF IInv
  <1> QED BY <1>1, <1>2, <1>3 DEF GroupOfs, Seg, Code, End

(* While the code fits the paragraphs a segment word can name, a 16-bit      *)
(* offset from the group's CS reaches every byte of every member.            *)
THEOREM GroupsAddressable == Spec => []GroupAddressable
  BY AddressableFact, Invariance, PTL

(* One .om is one code segment, and two .oms never share a byte of code.     *)
THEOREM SegmentPerGroup == Spec => []OneSegmentPerGroup
  <1>1. IInv => OneSegmentPerGroup
    <2> SUFFICES ASSUME IInv, Done, NEW a \in used, NEW b \in used
                 PROVE  IF group[a] = group[b] THEN place[a].para = place[b].para
                        ELSE Nameable => \/ CodeEnd(a) <= 16 * place[b].para
                                         \/ CodeEnd(b) <= 16 * place[a].para
      BY DEF OneSegmentPerGroup
    <2>1. PICK i \in Modules : order[i] = a /\ Linked(i) /\ CodePlaced(i) /\ DataPlaced(i) BY AllPlaced
    <2>2. PICK j \in Modules : order[j] = b /\ Linked(j) /\ CodePlaced(j) /\ DataPlaced(j) BY AllPlaced
    <2>3. group[a] = group[b] => place[a].para = place[b].para
      BY <2>1, <2>2 DEF IInv, ParaInv, Live, Done, Group
    <2>4. CASE group[a] # group[b] /\ Nameable
      <3>1. i < j \/ j < i BY <2>1, <2>2, <2>4 DEF Modules
      <3>2. Exact BY <2>4, ExactWhenNameable
      <3> QED BY <2>1, <2>2, <2>4, <3>1, <3>2, Ordered DEF CodeEnd, End, Seg, Group
    <2> QED BY <2>3, <2>4
  <1> QED BY <1>1, Invariance, PTL

(* The entry .om has the lowest code addresses for any argument order.       *)
THEOREM EntryFirst == Spec => []EntryGroupFirst
  <1>1. IInv => EntryGroupFirst
    <2> SUFFICES ASSUME IInv, Done, NEW a \in used, NEW b \in used,
                        group[a] = group[entry], group[b] # group[entry]
                 PROVE  CodeEnd(a) <= place[b].code
      BY DEF EntryGroupFirst
    <2>1. PICK i \in Modules : order[i] = a /\ Linked(i) /\ CodePlaced(i) /\ DataPlaced(i) BY AllPlaced
    <2>2. PICK j \in Modules : order[j] = b /\ Linked(j) /\ CodePlaced(j) /\ DataPlaced(j) BY AllPlaced
    <2>3. ~(j <= i) BY <2>1, <2>2 DEF IInv, ListInv, InEntryGroup, Done
    <2>4. i < j BY <2>3 DEF Modules
    <2> QED BY <2>1, <2>2, <2>4, Ordered DEF CodeEnd, End, Code
  <1> QED BY <1>1, Invariance, PTL

LEMMA DataFact == IInv => DataFits
  <1> SUFFICES ASSUME IInv, Done, NEW a \in used, NEW b \in used
               PROVE  /\ place[a].data + size[a].data <= TotalData
                      /\ TotalData + place[a].bss + size[a].bss <= DataLimit
                      /\ a # b => /\ \/ place[a].data + size[a].data <= place[b].data
                                     \/ place[b].data + size[b].data <= place[a].data
                                  /\ \/ place[a].bss + size[a].bss <= place[b].bss
                                     \/ place[b].bss + size[b].bss <= place[a].bss
    BY DEF DataFits
  <1>1. PICK i \in Modules : order[i] = a /\ Linked(i) /\ CodePlaced(i) /\ DataPlaced(i) BY AllPlaced
  <1>2. PICK j \in Modules : order[j] = b /\ Linked(j) /\ CodePlaced(j) /\ DataPlaced(j) BY AllPlaced
  <1>3. /\ place[a].data + size[a].data <= base.data
        /\ place[a].bss + size[a].bss <= base.bss
    BY <1>1 DEF IInv, DataInv, Live, Done
  <1>4. TotalData + TotalBss <= DataLimit BY DEF IInv, FitInv
  <1>5. /\ base.data \in Nat /\ base.bss \in Nat /\ place[a].bss \in Nat /\ size[a].bss \in Nat
    BY <1>1, Types DEF IInv
  <1>6. CASE a # b
    <2>1. i < j \/ j < i BY <1>1, <1>2, <1>6 DEF Modules
    <2> QED BY <1>1, <1>2, <1>3, <1>4, <1>5, <2>1, Ordered DEF TotalData, TotalBss
  <1> QED BY <1>3, <1>4, <1>5, <1>6 DEF TotalData, TotalBss

(* Data and BSS of all linked modules are disjoint and fit one segment.      *)
THEOREM DataAlwaysFits == Spec => []DataFits
  BY DataFact, Invariance, PTL
=============================================================================
