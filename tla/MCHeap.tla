------------------------------- MODULE MCHeap -------------------------------
(* A heap of a few paragraphs; garbage looks like a busy header of the list. *)
EXTENDS Heap

MCGarbage == [Prev |-> 1, Next |-> 3, Size |-> 2, State |-> BUSY]
=============================================================================
