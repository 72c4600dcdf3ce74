----------------------------- MODULE SmartLink ------------------------------
(* olink_smart_link and mark_module (src/olink.c): the depth-first walk that *)
(* decides which modules are linked.  mark_module recurses while it reads    *)
(* the header of its own module, so every activation keeps a FILE open and   *)
(* a position in it; the walk stops at the first import nobody exports.      *)
EXTENDS Naturals, Sequences

CONSTANTS Modules, Names, Start, NoOwner, MaxOpen, MaxImports

VARIABLES imports,      \* module -> names of its IMPORT records, in file order
          owner,        \* name -> module find_symbol returns, or NoOwner
          used,         \* TModule.used
          stack,        \* the activations of mark_module, outermost first
          at,           \* module -> next IMPORT record its activation reads
          status        \* "scanned", "marking", "linked", or a fatal error

vars == <<imports, owner, used, stack, at, status>>

Goal == INSTANCE Reachability
          WITH linked  <- IF status = "linked" THEN used ELSE {},
               outcome <- IF status \in {"scanned", "marking"} THEN "pending" ELSE status

ASSUME SmartLinkAssumption ==
    /\ Start \in Names
    /\ NoOwner \notin Modules
    /\ MaxOpen \in Nat \ {0}
    /\ MaxImports \in Nat

Root == owner[Start]
Top  == stack[Len(stack)]

\* The module that exports the name of the record Top reads next.
Wanted == owner[imports[Top][at[Top]]]

Init == /\ imports \in [Modules -> Goal!ImportLists]
        /\ owner \in [Names -> Modules \cup {NoOwner}]
        /\ used = {}
        /\ stack = <<>>
        /\ at = [m \in Modules |-> 1]
        /\ status = "scanned"

Fail(why) == /\ status' = why
             /\ UNCHANGED <<imports, owner, stack, at>>

\* olink_smart_link: the entry symbol and the first activation.
NoStart == /\ status = "scanned"
           /\ Root = NoOwner
           /\ Fail("no_start")
           /\ UNCHANGED used

\* Bug: the result of find_symbol is not tested.
LookupStartUntested == /\ status = "scanned"
                       /\ used' = {Root}
                       /\ stack' = <<Root>>
                       /\ status' = "marking"
                       /\ UNCHANGED <<imports, owner, at>>

\* Bug: the first module is not marked before it is walked.
LookupStartUnmarked == /\ status = "scanned"
                       /\ Root # NoOwner
                       /\ stack' = <<Root>>
                       /\ status' = "marking"
                       /\ UNCHANGED <<imports, owner, used, at>>

LookupStart == /\ status = "scanned"
               /\ Root # NoOwner
               /\ used' = {Root}
               /\ stack' = <<Root>>
               /\ status' = "marking"
               /\ UNCHANGED <<imports, owner, at>>

\* The record loop of the innermost activation has a record left.
Reading == status = "marking" /\ at[Top] <= Len(imports[Top])

Advance == at' = [at EXCEPT ![Top] = @ + 1]

\* Bug: the imports of every module are checked, dead ones too.
UnresolvedAnywhere == /\ status = "marking"
                      /\ \E m \in Modules : NoOwner \in Goal!Targets(m)
                      /\ Fail("unresolved")
                      /\ UNCHANGED used

Unresolved == /\ Reading
              /\ Wanted = NoOwner
              /\ Fail("unresolved")
              /\ UNCHANGED used

\* Bug: the record of a module already marked is not consumed.
VisitUsedAgain == Reading /\ Wanted \in used /\ UNCHANGED vars

\* mark_module returns at once for a module already marked.
VisitUsed == /\ Reading
             /\ Wanted \in used
             /\ Advance
             /\ UNCHANGED <<imports, owner, used, stack, status>>

\* Bug: a module is marked, its own imports are not followed.
MarkOnly == /\ Reading
            /\ Wanted \notin used \cup {NoOwner}
            /\ Len(stack) < MaxOpen
            /\ used' = used \cup {Wanted}
            /\ Advance
            /\ UNCHANGED <<imports, owner, stack, status>>

\* used is set before the recursion, so an import cycle ends.
Descend == /\ Reading
           /\ Wanted \notin used \cup {NoOwner}
           /\ Len(stack) < MaxOpen
           /\ used' = used \cup {Wanted}
           /\ stack' = Append(stack, Wanted)
           /\ Advance
           /\ UNCHANGED <<imports, owner, status>>

\* Bug: a FILE is counted that is not open, so shorter chains fail.
CannotOpenEarly == /\ Reading
                   /\ Wanted \notin used \cup {NoOwner}
                   /\ Len(stack) + 1 >= MaxOpen
                   /\ used' = used \cup {Wanted}
                   /\ Fail("cannot_open")

\* fopen fails: every outer activation still holds its FILE.
CannotOpen == /\ Reading
              /\ Wanted \notin used \cup {NoOwner}
              /\ Len(stack) >= MaxOpen
              /\ used' = used \cup {Wanted}
              /\ Fail("cannot_open")

Return == /\ status = "marking"
          /\ at[Top] > Len(imports[Top])
          /\ stack' = SubSeq(stack, 1, Len(stack) - 1)
          /\ status' = IF Len(stack) = 1 THEN "linked" ELSE status
          /\ UNCHANGED <<imports, owner, used, at>>

Next == \/ NoStart \/ LookupStart \/ Unresolved \/ VisitUsed
        \/ Descend \/ CannotOpen \/ Return

Spec == Init /\ [][Next]_vars

\* A sequential program keeps running until it exits.
FairSpec == Spec /\ WF_vars(Next)

Failures == {"no_start", "unresolved", "cannot_open"}
Finished == status \in Failures \cup {"linked"}
-----------------------------------------------------------------------------
(* Every variable keeps its type: the walk never records a module or a       *)
(* position that is not one (olink.c, mark_module).                          *)
TypeOK == /\ imports \in [Modules -> Goal!ImportLists]
          /\ owner \in [Names -> Modules \cup {NoOwner}]
          /\ used \subseteq Modules
          /\ stack \in Seq(Modules)
          /\ at \in [Modules -> 1..MaxImports+1]
          /\ status \in Failures \cup {"scanned", "marking", "linked"}

(* Nothing is marked that the entry symbol does not reach: the smart linker  *)
(* never drags a module in (docs/olink.md, "Only modules reachable from the  *)
(* symbol start are included").                                              *)
MarkedIsReachable == used \subseteq Goal!Reach

(* When the walk ends without an error the marked set holds the entry        *)
(* module, is closed under imports and has no unresolved import, whatever    *)
(* the import cycles: no linked module can meet a missing symbol later, in   *)
(* olink_perform_linking.                                                    *)
LinkedIsClosed == status = "linked" =>
                     /\ Root \in used
                     /\ \A m \in used : Goal!Targets(m) \subseteq used

(* An "Unresolved external" error is raised only when some module the entry  *)
(* symbol reaches imports a name nobody exports; dead modules may stay       *)
(* incomplete. A module's file cannot be opened only when a chain of imports *)
(* through distinct modules, from the entry module on, is longer than the    *)
(* files that may be open: visiting a module again never costs a handle.     *)
FailureIsReal == /\ status = "unresolved" => Goal!Missing
                 /\ status = "cannot_open" => Goal!DeepChain

(* The activations are a chain of imports through distinct modules, so a     *)
(* header is never read by two activations at once, and the walk needs no    *)
(* more open files than the longest simple import chain.                     *)
ActivationsFormAPath ==
    /\ \A i \in 1..Len(stack)-1 : stack[i+1] \in Goal!Targets(stack[i])
    /\ \A i, j \in 1..Len(stack) : stack[i] = stack[j] => i = j

(* The walk implements the one-step promise of Reachability.                 *)
ImplementsReachability == Goal!Spec

(* Import cycles do not hang the linker: it links or reports an error.       *)
Terminates == <>Finished
=============================================================================
