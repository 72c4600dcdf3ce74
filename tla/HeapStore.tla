----------------------------- MODULE HeapStore ------------------------------
(* What NEW and DISPOSE promise (docs/oberon-language.md "NEW and DISPOSE"): *)
(* blocks of whole paragraphs that never overlap, refused only when no run   *)
(* of unused paragraphs is long enough for the block and its header.         *)
EXTENDS Integers

CONSTANT Start          \* first paragraph of the heap

VARIABLES total,        \* paragraphs DOS granted, 0: no heap
          live,         \* block -> paragraphs, for the blocks in use
          asked         \* paragraphs a pending request needs, 0: none

vars == <<total, live, asked>>

Blocks == DOMAIN live

\* A block at segment p has its header in the paragraph before it.
Extent(p, n) == p-1 .. p+n-1

Unused(p, n) == /\ Extent(p, n) \subseteq Start .. Start+total-1
                /\ \A q \in Blocks : Extent(p, n) \cap Extent(q, live[q]) = {}

Init == total = 0 /\ live = <<>> /\ asked = 0

Boot == /\ total = 0
        /\ total' \in Nat
        /\ UNCHANGED <<live, asked>>

Ask == /\ asked = 0
       /\ asked' \in Nat \ {0}
       /\ UNCHANGED <<total, live>>

Grant == /\ asked # 0
         /\ \E p \in Start+1 .. Start+total :
               /\ Unused(p, asked)
               /\ live' = [q \in Blocks \cup {p} |-> IF q = p THEN asked ELSE live[q]]
         /\ asked' = 0
         /\ UNCHANGED total

Refuse == /\ asked # 0
          /\ \A p \in Start+1 .. Start+total : ~Unused(p, asked)
          /\ asked' = 0
          /\ UNCHANGED <<total, live>>

Give == /\ asked = 0
        /\ \E p \in Blocks : live' = [q \in Blocks \ {p} |-> live[q]]
        /\ UNCHANGED <<total, asked>>

Next == Boot \/ Ask \/ Grant \/ Refuse \/ Give

Spec == Init /\ [][Next]_vars
=============================================================================
