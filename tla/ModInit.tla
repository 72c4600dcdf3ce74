------------------------------ MODULE ModInit -------------------------------
(* The __init procedures parse_module generates (src/parser.c) and the MAIN  *)
(* stub gen_entry_stub generates (src/main.c), run by one processor: a guard *)
(* word in the code segment, calls to the imports' __init, then the body.    *)
EXTENDS Naturals, Sequences

CONSTANTS Modules,      \* the linked modules
          Entry,        \* the module whose procedure -entry names
          MaxImports,   \* most names in one IMPORT list
          Programs      \* the programs looked at

ImportLists == UNION {[1..k -> Modules] : k \in 0..MaxImports}

\* What the compiler saw of a module: its IMPORT list, whether it has a body,
\* and where REAL or LONGREAL first occurs in it.
Sources == [imports : ImportLists, body : BOOLEAN, fpu : {"none", "declarations", "body"}]

ASSUME ModInitAssumption ==
    /\ Entry \in Modules
    /\ MaxImports \in Nat
    /\ Programs \subseteq [Modules -> Sources]

VARIABLES program,      \* module -> its source
          hasFpu,       \* SYSTEM_INIT found a coprocessor
          guard,        \* module -> the word mymodule__inited
          stack,        \* activations [mod, pc, next] of __init, outermost first
          order,        \* modules whose __init ran its calls and its body
          stage         \* where the MAIN stub is

vars == <<program, hasFpu, guard, stack, order, stage>>

IO == INSTANCE InitOrder WITH
        phase <- CASE stage \in {"start", "init"} -> "init"
                   [] stage \in {"entry", "done"} -> "entry"
                   [] OTHER -> "stopped"

\* mod_uses_fpu is tested before the body is parsed, and only in Case 2.
Requires87(m) == IO!Guarded(m) /\ program[m].fpu = "declarations"

Init == /\ program \in Programs
        /\ hasFpu \in BOOLEAN
        /\ guard = [m \in Modules |-> 0]
        /\ stack = <<>>
        /\ order = <<>>
        /\ stage = "start"

Top == stack[Len(stack)]
Frame(m) == [mod |-> m, pc |-> "enter", next |-> 1]
At(pc) == stage = "init" /\ stack # <<>> /\ Top.pc = pc
Goto(pc) == stack' = [stack EXCEPT ![Len(stack)].pc = pc]
Pop == stack' = SubSeq(stack, 1, Len(stack) - 1)
Stop(why) == stage' = why /\ UNCHANGED <<program, hasFpu, guard, stack, order>>

\* The MAIN stub calls SYSTEM_INIT and the entry module's __init.
CallInit == /\ stage = "start"
            /\ stage' = "init"
            /\ stack' = <<Frame(Entry)>>
            /\ UNCHANGED <<program, hasFpu, guard, order>>

\* Case 1, a bare RETF.
Trivial == /\ At("enter")
           /\ ~IO!Guarded(Top.mod)
           /\ Pop
           /\ UNCHANGED <<program, hasFpu, guard, order, stage>>

\* CMP guard, 0; JE not taken; RETF.
AlreadyInited == /\ At("enter")
                 /\ IO!Guarded(Top.mod)
                 /\ guard[Top.mod] # 0
                 /\ Pop
                 /\ UNCHANGED <<program, hasFpu, guard, order, stage>>

\* Bug: the guard is not tested.
FirstCallUntested == /\ At("enter")
                     /\ IO!Guarded(Top.mod)
                     /\ guard' = [guard EXCEPT ![Top.mod] = @ + 1]
                     /\ Goto("imports")
                     /\ UNCHANGED <<program, hasFpu, order, stage>>

\* Bug: the INC is not made before the calls.
FirstCallLate == /\ At("enter")
                 /\ IO!Guarded(Top.mod)
                 /\ guard[Top.mod] = 0
                 /\ Goto("imports")
                 /\ UNCHANGED <<program, hasFpu, guard, order, stage>>

\* CMP guard, 0; JE taken; INC guard, before any call.
FirstCall == /\ At("enter")
             /\ IO!Guarded(Top.mod)
             /\ guard[Top.mod] = 0
             /\ guard' = [guard EXCEPT ![Top.mod] = @ + 1]
             /\ Goto(IF Requires87(Top.mod) THEN "fpu" ELSE "imports")
             /\ UNCHANGED <<program, hasFpu, order, stage>>

\* SYSTEM_REQUIRE87 returns or ends the program.
FpuFound == /\ At("fpu")
            /\ hasFpu
            /\ Goto("imports")
            /\ UNCHANGED <<program, hasFpu, guard, order, stage>>

FpuMissing == At("fpu") /\ ~hasFpu /\ Stop("no coprocessor")

\* Bug: the list of imports is not followed.
CallImportAgain == /\ At("imports")
                   /\ Top.next \in DOMAIN program[Top.mod].imports
                   /\ stack' = Append(stack, Frame(program[Top.mod].imports[Top.next]))
                   /\ UNCHANGED <<program, hasFpu, guard, order, stage>>

CallImport == /\ At("imports")
              /\ Top.next \in DOMAIN program[Top.mod].imports
              /\ stack' = Append([stack EXCEPT ![Len(stack)].next = @ + 1],
                                 Frame(program[Top.mod].imports[Top.next]))
              /\ UNCHANGED <<program, hasFpu, guard, order, stage>>

ImportsDone == At("imports") /\ Top.next > Len(program[Top.mod].imports)

\* Bug: the body comes before the calls.
RunBodyFirst == /\ At("imports")
                /\ order' = Append(order, Top.mod)
                /\ Pop
                /\ UNCHANGED <<program, hasFpu, guard, stage>>

\* The body, and the RETF after it.
RunBody == /\ ImportsDone
           /\ order' = Append(order, Top.mod)
           /\ Pop
           /\ UNCHANGED <<program, hasFpu, guard, stage>>

\* A body may end the program (HALT, a failed ASSERT, a run-time error).
BodyHalts == ImportsDone /\ program[Top.mod].body /\ Stop("halted")

CallEntry == /\ stage = "init"
             /\ stack = <<>>
             /\ Stop("entry")

\* The entry procedure returns, or halts; either way SYSTEM_DONE is next.
EntryEnds == stage = "entry" /\ Stop("done")

Next == \/ CallInit \/ Trivial \/ AlreadyInited \/ FirstCall \/ FpuFound \/ FpuMissing
        \/ CallImport \/ RunBody \/ BodyHalts \/ CallEntry \/ EntryEnds

Spec == Init /\ [][Next]_vars

\* One processor executes instructions until DOS ends the program; the bodies
\* and the entry procedure are taken to return or halt.
FairSpec == Spec /\ WF_vars(Next)
-----------------------------------------------------------------------------
Stages == {"start", "init", "entry", "done", "no coprocessor", "halted"}

(* Every activation is of a linked module and no guard is incremented twice, *)
(* so no sequence of calls makes the guard word wrap round to 0.             *)
TypeOK == /\ program \in Programs
          /\ hasFpu \in BOOLEAN
          /\ guard \in [Modules -> 0..1]
          /\ stack \in Seq([mod : Modules, pc : {"enter", "fpu", "imports"},
                            next : 1..MaxImports+1])
          /\ order \in Seq(Modules)
          /\ stage \in Stages

(* Whatever the import graph, cycles and repeated names included, the bodies *)
(* run once each in dependency order, and before the entry procedure.        *)
ImplementsInitOrder == IO!Spec

(* An import cycle does not recurse without end: below the innermost call no *)
(* module has two activations of its __init.                                 *)
ActivationsAreDistinct ==
    \A i, j \in 1..Len(stack)-1 : stack[i].mod = stack[j].mod => i = j

(* Initialisation always ends.                                               *)
Terminates == <>(stage \in {"done", "no coprocessor", "halted"})

=============================================================================
