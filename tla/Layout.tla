------------------------------- MODULE Layout -------------------------------
(* olink_calculate_layout (src/olink.c): where every linked module's code,   *)
(* data and BSS go.  Modules are numbered in scan order; order is the module *)
(* list, which the first step splices so that the entry .om comes first.     *)
(* Members of one .om form one group: one paragraph-aligned code segment.    *)
EXTENDS Integers, Sequences

CONSTANTS N,            \* number of scanned modules
          MaxGroup,     \* number of archives on the command line
          Sizes,        \* the [code, data, bss] sizes a module may have
          CodeLimit,    \* most code bytes in one group (65000)
          DataLimit,    \* most data + BSS bytes (65520)
          ParaMod       \* number of paragraphs a 16-bit segment word can name

ASSUME LayoutAssumption ==
    /\ N \in Nat \ {0}
    /\ MaxGroup \in Nat
    /\ Sizes \subseteq [code : Nat, data : Nat, bss : Nat]
    /\ CodeLimit \in Nat
    /\ DataLimit \in Nat
    /\ ParaMod \in Nat \ {0}

VARIABLES order,        \* the module list (LinkerState.mod_head)
          group,        \* module -> TModule.group_id
          size,         \* module -> its section sizes
          used,         \* the modules smart linking marked
          entry,        \* the module that owns "start"
          place,        \* module -> [code, para, data, bss] final offsets
          base,         \* next free [code, data, bss] offset
          groupStart,   \* code offset the current group starts at
          head,         \* list position of the current group's first used module
          cur,          \* list position the current pass has reached
          pass          \* what the function is doing

inputs == <<group, size, used, entry>>
vars == <<order, inputs, place, base, groupStart, head, cur, pass>>

Modules == 1..N
\* Bug: rounding down.
Align2Down(v)  == 2 * (v \div 2)
Align16Down(v) == 16 * (v \div 16)

Align2(v)  == 2 * ((v + 1) \div 2)
Align16(v) == 16 * ((v + 15) \div 16)

\* scan_tar appends an archive's members in a row and then takes the next
\* number; an archive without .rdf members leaves a gap.
GroupIds == {g \in [Modules -> 1..MaxGroup] :
                \A i, j \in Modules : i <= j => g[i] <= g[j]}

Unplaced == [code |-> 0, para |-> 0, data |-> 0, bss |-> 0]

Init == /\ order = [i \in Modules |-> i]
        /\ group \in GroupIds
        /\ size \in [Modules -> Sizes]
        /\ used \in SUBSET Modules
        /\ entry \in used
        /\ place = [a \in Modules |-> Unplaced]
        /\ base = [code |-> 0, data |-> 0, bss |-> 0]
        /\ groupStart = 0
        /\ head = 1
        /\ cur = 1
        /\ pass = "move"

InEntryGroup(i) == group[order[i]] = group[entry]

\* The entry group's run of the list is first..last.
IsEntryRun(first, last) ==
    /\ \A i \in first..last : InEntryGroup(i)
    /\ \A i \in 1..first-1 : ~InEntryGroup(i)
    /\ last < N => ~InEntryGroup(last + 1)

\* Bug: the modules before the run are relinked one node too late.
SpliceOffByOne(first, last) ==
    [i \in Modules |-> IF i <= last - first + 1 THEN order[i + first - 1]
                       ELSE IF i <= last        THEN order[i - (last - first)]
                       ELSE order[i]]

\* Bug: the entry group stays where the command line put it.
NoSplice(first, last) == order

\* Splice list positions first..last to the front.
Splice(first, last) ==
    [i \in Modules |-> IF i <= last - first + 1 THEN order[i + first - 1]
                       ELSE IF i <= last        THEN order[i - (last - first + 1)]
                       ELSE order[i]]

MoveEntryGroup == /\ pass = "move"
                  /\ \E first, last \in Modules :
                        /\ first <= last
                        /\ IsEntryRun(first, last)
                        /\ order' = Splice(first, last)
                  /\ pass' = "head"
                  /\ UNCHANGED <<inputs, place, base, groupStart, head, cur>>

SkipUnused == /\ pass = "head"
              /\ head <= N
              /\ order[head] \notin used
              /\ head' = head + 1
              /\ UNCHANGED <<order, inputs, place, base, groupStart, cur, pass>>

StartGroup == /\ pass = "head"
              /\ head <= N
              /\ order[head] \in used
              /\ base' = [base EXCEPT !.code = Align16(@)]
              /\ groupStart' = Align16(base.code)
              /\ cur' = head
              /\ pass' = "code"
              /\ UNCHANGED <<order, inputs, place, head>>

\* The list position cur is still in the group that head opened.
InGroup == cur <= N /\ group[order[cur]] = group[order[head]]

\* One turn of a group's pass; members that are not used are stepped over.
Step(Place) == /\ InGroup
               /\ IF order[cur] \in used THEN Place ELSE UNCHANGED <<place, base>>
               /\ cur' = cur + 1
               /\ UNCHANGED <<order, inputs, groupStart, head, pass>>

PlaceCode ==
    /\ pass = "code"
    /\ Step(LET a == order[cur]
            IN  /\ place' = [place EXCEPT ![a].code = base.code,
                                          ![a].para = (groupStart \div 16) % ParaMod]
                /\ base' = [base EXCEPT !.code = Align2(@ + size[a].code)])

\* Bug: the size of the group is not checked.
EndCodePassUnchecked == /\ pass = "code"
                        /\ ~InGroup
                        /\ pass' = "data"
                        /\ cur' = head
                        /\ UNCHANGED <<order, inputs, place, base, groupStart, head>>

EndCodePass == /\ pass = "code"
               /\ ~InGroup
               /\ IF base.code - groupStart > CodeLimit
                  THEN pass' = "code_group_too_large" /\ UNCHANGED cur
                  ELSE pass' = "data" /\ cur' = head
               /\ UNCHANGED <<order, inputs, place, base, groupStart, head>>

PlaceData ==
    /\ pass = "data"
    /\ Step(LET a == order[cur]
            IN  /\ place' = [place EXCEPT ![a].data = base.data, ![a].bss = base.bss]
                /\ base' = [base EXCEPT !.data = Align16(@ + size[a].data),
                                        !.bss  = Align16(@ + size[a].bss)])

\* Bug: the next group is looked for one node too far.
NextGroupSkips == /\ pass = "data"
                  /\ ~InGroup
                  /\ head' = cur + 1
                  /\ pass' = "head"
                  /\ UNCHANGED <<order, inputs, place, base, groupStart, cur>>

NextGroup == /\ pass = "data"
             /\ ~InGroup
             /\ head' = cur
             /\ pass' = "head"
             /\ UNCHANGED <<order, inputs, place, base, groupStart, cur>>

\* total_code_len, total_data_len and total_bss_len.
TotalCode == Align16(base.code)
TotalData == base.data
TotalBss  == base.bss

Finish == /\ pass = "head"
          /\ head > N
          /\ pass' = IF TotalData + TotalBss > DataLimit
                     THEN "data_and_bss_too_large" ELSE "done"
          /\ UNCHANGED <<order, inputs, place, base, groupStart, head, cur>>

Next == \/ MoveEntryGroup \/ SkipUnused \/ StartGroup \/ PlaceCode \/ EndCodePass
        \/ PlaceData \/ NextGroup \/ Finish

Spec == Init /\ [][Next]_vars

-----------------------------------------------------------------------------
Errors == {"code_group_too_large", "data_and_bss_too_large"}
Places == [code : Nat, para : 0..ParaMod-1, data : Nat, bss : Nat]

(* Cursors stay inside the list and every offset is a natural number.        *)
TypeOK == /\ order \in [Modules -> Modules]
          /\ group \in GroupIds
          /\ size \in [Modules -> Sizes]
          /\ used \subseteq Modules
          /\ entry \in used
          /\ place \in [Modules -> Places]
          /\ base \in [code : Nat, data : Nat, bss : Nat]
          /\ groupStart \in Nat
          /\ head \in 1..N+1
          /\ cur \in 1..N+1
          /\ pass \in Errors \cup {"move", "head", "code", "data", "done"}

Done == pass = "done"
CodeEnd(a) == place[a].code + size[a].code

\* Offset of module a inside its code segment: group_ofs of olink_perform_linking.
GroupOfs(a) == place[a].code - 16 * place[a].para

\* The paragraphs of the code can be named by a segment word; the linker
\* itself does not check this.
Nameable == TotalCode < 16 * ParaMod

(* Splicing the entry group to the front of the singly linked list loses no  *)
(* module and duplicates none (olink.c, "Move the entry group").             *)
ListIsPermutation == \A i, j \in Modules : order[i] = order[j] => i = j

(* Code of distinct linked modules never overlaps and lies inside the        *)
(* combined code buffer, so loading one module cannot overwrite another.     *)
CodeDisjoint ==
    Done => \A a, b \in used : /\ CodeEnd(a) <= TotalCode
                               /\ a # b => \/ CodeEnd(a) <= place[b].code
                                           \/ CodeEnd(b) <= place[a].code

(* Every byte of a linked module is reached by a 16-bit offset from the      *)
(* group's code segment: the patched offset word of a far call is exact.     *)
GroupAddressable ==
    Done /\ Nameable => \A a \in used : /\ GroupOfs(a) >= 0
                                        /\ GroupOfs(a) + size[a].code <= CodeLimit

(* Members of one .om share one CS, so near calls between their procedures   *)
(* stay inside it, and two groups never share a byte of code.                *)
OneSegmentPerGroup ==
    Done => \A a, b \in used :
               IF group[a] = group[b] THEN place[a].para = place[b].para
               ELSE Nameable => \/ CodeEnd(a) <= 16 * place[b].para
                                \/ CodeEnd(b) <= 16 * place[a].para

(* The entry .om occupies the lowest code addresses whatever the order of    *)
(* the arguments (olink.c, comment at the splice).                           *)
EntryGroupFirst ==
    Done => \A a, b \in used : group[a] = group[entry] /\ group[b] # group[entry]
                                   => CodeEnd(a) <= place[b].code

(* Initialised data and BSS of all modules are disjoint areas of one         *)
(* segment that 16-bit offsets can reach.                                    *)
DataFits ==
    Done => \A a, b \in used :
               /\ place[a].data + size[a].data <= TotalData
               /\ TotalData + place[a].bss + size[a].bss <= DataLimit
               /\ a # b => /\ \/ place[a].data + size[a].data <= place[b].data
                              \/ place[b].data + size[b].data <= place[a].data
                           /\ \/ place[a].bss + size[a].bss <= place[b].bss
                              \/ place[b].bss + size[b].bss <= place[a].bss

=============================================================================
