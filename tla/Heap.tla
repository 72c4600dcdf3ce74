-------------------------------- MODULE Heap --------------------------------
(* The heap of src-lib/SYS.ASM: MEM_INIT, SYSTEM_Alloc and SYSTEM_Free over  *)
(* a doubly linked list of blocks, each behind a header of one paragraph.    *)
(* The program owns its blocks and writes them as it likes; headers that     *)
(* left the list stay where they were.                                       *)
EXTENDS Integers

CONSTANTS Top,          \* the last segment (65535)
          Start,        \* segment DOS allocates the heap at
          MinHeap,      \* least paragraphs MEM_INIT accepts (16)
          Totals,       \* the paragraphs DOS may have left
          Sizes,        \* the byte counts NEW is called with
          Garbage       \* what a paragraph of memory may hold

Segs == 0 .. Top
Headers == [Prev : Segs, Next : Segs, Size : Segs, State : Segs]
BUSY == 1
FREE == 0

ASSUME HeapAssumption ==
    /\ Top \in 1 .. 65535
    /\ Start \in Nat \ {0}
    /\ MinHeap \in Nat \ {0, 1}
    /\ Totals \subseteq Nat
    /\ \A t \in Totals : Start + t <= Top
    /\ Sizes \subseteq Nat
    /\ Garbage \in Headers

VARIABLES mem,          \* paragraph -> the MEMHEADER one would read there
          MemStartSeg,  \* first header, 0: no heap
          total,        \* paragraphs of the heap
          cx,           \* paragraphs SYSTEM_Alloc looks for, 0: no call
          ax,           \* the header it has come to
          live,         \* block -> paragraphs, for the blocks in use
          freed         \* blocks given back since the last one was handed out

vars == <<mem, MemStartSeg, total, cx, ax, live, freed>>

Idle == cx = 0
Limit == Start + total

Init == /\ mem = [s \in Segs |-> Garbage]
        /\ MemStartSeg = 0 /\ total = 0
        /\ cx = 0 /\ ax = 0
        /\ live = <<>> /\ freed = {}

\* SYSTEM_INIT takes the largest block DOS has and calls MEM_INIT once.
Boot(size) ==
    /\ MemStartSeg = 0 /\ Idle
    /\ size >= MinHeap
    /\ MemStartSeg' = Start
    /\ total' = size
    /\ mem' = [mem EXCEPT ![Start] = [Prev |-> 0, Next |-> 0, Size |-> size - 1, State |-> FREE]]
    /\ UNCHANGED <<cx, ax, live, freed>>

Paras(n) == ((n + 15) % 65536) \div 16

Alloc(n) == /\ Idle /\ Paras(n) # 0
            /\ cx' = Paras(n)
            /\ ax' = MemStartSeg
            /\ UNCHANGED <<mem, MemStartSeg, total, live, freed>>

\* No paragraphs: NIL at once.
AllocNothing(n) == Idle /\ Paras(n) = 0 /\ UNCHANGED vars

\* Bug: the size of a free block is not compared.
FitsAny(s) == mem[s].State = FREE

Fits(s) == mem[s].State = FREE /\ mem[s].Size >= cx

Scan == /\ ~Idle /\ ax # 0
        /\ ~Fits(ax)
        /\ ax' = mem[ax].Next
        /\ UNCHANGED <<mem, MemStartSeg, total, cx, live, freed>>

\* The block p is handed out.
Deliver(p) == /\ live' = [q \in DOMAIN live \cup {p} |-> IF q = p THEN cx ELSE live[q]]
              /\ freed' = {}
              /\ cx' = 0 /\ ax' = 0
              /\ UNCHANGED <<MemStartSeg, total>>

\* Bug: a block with one paragraph to spare is handed out whole.
TakeWholeEarly == /\ ~Idle /\ ax # 0
                  /\ Fits(ax) /\ mem[ax].Size <= cx + 1
                  /\ mem' = [mem EXCEPT ![ax].State = BUSY]
                  /\ Deliver(ax + 1)

TakeWhole == /\ ~Idle /\ ax # 0
             /\ Fits(ax) /\ mem[ax].Size < cx + 1
             /\ mem' = [mem EXCEPT ![ax].State = BUSY]
             /\ Deliver(ax + 1)

\* s becomes what precedes t, if there is a t.
Precede(m, s, t) == IF t = 0 THEN m ELSE [m EXCEPT ![t].Prev = s]

\* The block comes from the end of the free one, which keeps si paragraphs,
\* perhaps none.
Split == /\ ~Idle /\ ax # 0
         /\ Fits(ax) /\ mem[ax].Size >= cx + 1
         /\ LET si == mem[ax].Size - cx - 1
                bx == ax + 1 + si
                dx == mem[ax].Next
                busy == [Prev |-> ax, Next |-> dx, Size |-> cx, State |-> BUSY]
            IN  /\ mem' = Precede([mem EXCEPT ![bx] = busy, ![ax].Size = si, ![ax].Next = bx], bx, dx)
                /\ Deliver(bx + 1)

Fail == /\ ~Idle /\ ax = 0
        /\ cx' = 0
        /\ UNCHANGED <<mem, MemStartSeg, total, ax, live, freed>>

\* Bug: the block behind still points back at the one absorbed.
AbsorbOneWay(m, s, t) == [m EXCEPT ![s].Size = @ + 1 + m[t].Size, ![s].Next = m[t].Next]

\* s absorbs the block t behind it.
Absorb(m, s, t) == Precede([m EXCEPT ![s].Size = @ + 1 + m[t].Size, ![s].Next = m[t].Next],
                           s, m[t].Next)

\* Bug: only the block before is merged.
NoMergeNext(m, s) == m

MergeNext(m, s) == LET t == m[s].Next
                   IN  IF t # 0 /\ m[t].State = FREE THEN Absorb(m, s, t) ELSE m

\* Bug: only the block behind is merged.
NoMergePrev(m, s) == m

MergePrev(m, s) == LET t == m[s].Prev
                   IN  IF t # 0 /\ m[t].State = FREE THEN Absorb(m, t, s) ELSE m

\* SYSTEM_Free(p); a header that is already free is left alone.
Free(p) == /\ Idle
           /\ p \in DOMAIN live \cup freed
           /\ LET s == p - 1
              IN  IF mem[s].State = FREE THEN UNCHANGED <<mem, live, freed>>
                  ELSE /\ mem' = MergePrev(MergeNext([mem EXCEPT ![s].State = FREE], s), s)
                       /\ live' = [q \in DOMAIN live \ {p} |-> live[q]]
                       /\ freed' = freed \cup {p}
           /\ UNCHANGED <<MemStartSeg, total, cx, ax>>

\* The program overwrites its block.
Use(p) == /\ Idle
          /\ mem' = [s \in Segs |-> IF p <= s /\ s < p + live[p] THEN Garbage ELSE mem[s]]
          /\ UNCHANGED <<MemStartSeg, total, cx, ax, live, freed>>

Next == \/ \E size \in Totals : Boot(size)
        \/ \E n \in Sizes : Alloc(n) \/ AllocNothing(n)
        \/ Scan \/ TakeWhole \/ Split \/ Fail
        \/ \E p \in DOMAIN live \cup freed : Free(p)
        \/ \E p \in DOMAIN live : Use(p)

Spec == Init /\ [][Next]_vars
-----------------------------------------------------------------------------
\* The headers of the list: the first, those of blocks in use, and those
\* behind them.
Heads == IF MemStartSeg = 0 THEN {}
         ELSE ({Start} \cup {p - 1 : p \in DOMAIN live} \cup {p + live[p] : p \in DOMAIN live})
                  \ {Limit}

After(s) == s + 1 + mem[s].Size

(* Registers hold segments, and blocks in use lie in the heap.               *)
TypeOK == /\ mem \in [Segs -> Headers]
          /\ MemStartSeg \in {0, Start}
          /\ total \in Totals \cup {0}
          /\ cx \in 0 .. 4095 /\ ax \in Segs
          /\ DOMAIN live \subseteq Start+1 .. Limit-1
          /\ \A p \in DOMAIN live : live[p] \in 1 .. Limit - p
          /\ freed \subseteq Start+1 .. Limit

(* The blocks of the list cover the heap without gap or overlap, and the two *)
(* chains run through the same headers in opposite directions, after any     *)
(* sequence of calls, freeing a block twice included.                        *)
ListTilesHeap ==
    \A s \in Heads :
        /\ \A t \in Heads : s < t => After(s) <= t
        /\ \/ After(s) = Limit /\ mem[s].Next = 0
           \/ After(s) \in Heads /\ mem[s].Next = After(s) /\ mem[After(s)].Prev = s
        /\ s = Start => mem[s].Prev = 0

(* The busy blocks of the list are those the program holds, at the size it   *)
(* asked for: no block is lost, handed out twice or cut short.               *)
BusyIsLive ==
    \A s \in Heads : /\ mem[s].State \in {BUSY, FREE}
                     /\ mem[s].State = BUSY <=> s + 1 \in DOMAIN live
                     /\ s + 1 \in DOMAIN live => mem[s].Size = live[s + 1]

(* Free blocks are merged at once, on both sides.                            *)
NoFreeNeighbours ==
    \A s \in Heads : mem[s].State = FREE /\ mem[s].Next # 0 => mem[mem[s].Next].State = BUSY

HS == INSTANCE HeapStore WITH asked <- cx

(* NEW and DISPOSE handle disjoint blocks, and NEW delivers NIL only when no *)
(* run of unused paragraphs would do, which is what the merging is for.      *)
ImplementsHeapStore == HS!Spec

=============================================================================
