----------------------------- MODULE InitOrder ------------------------------
(* What the module initialisation protocol promises (docs/oberon-language.md *)
(* "Module initialization protocol"): the bodies of the program run once     *)
(* each, a module's after those of its imports unless the import is part of  *)
(* a cycle through the module, and all of them before the entry procedure.   *)
EXTENDS Naturals, Sequences

CONSTANTS Modules, Entry

VARIABLES program,      \* module -> [imports, body, fpu]
          order,        \* the modules whose __init did its work, in order
          phase         \* "init", "entry" or "stopped"

vars == <<program, order, phase>>

Ran == {order[i] : i \in DOMAIN order}
Deps(m) == {program[m].imports[i] : i \in DOMAIN program[m].imports}

\* An __init with nothing to do is a bare RETF.
Guarded(m) == program[m].imports # <<>> \/ program[m].body

Closed(S) == \A m \in S : Deps(m) \subseteq S
Reaches(a, b) == \A S \in SUBSET Modules : a \in S /\ Closed(S) => b \in S

Init == order = <<>> /\ phase = "init"

Run(m) == /\ phase = "init"
          /\ Guarded(m)
          /\ m \notin Ran
          /\ Reaches(Entry, m)
          /\ \A d \in Deps(m) : Guarded(d) => d \in Ran \/ Reaches(d, m)
          /\ order' = Append(order, m)
          /\ UNCHANGED <<program, phase>>

Enter == /\ phase = "init"
         /\ \A m \in Modules : Reaches(Entry, m) /\ Guarded(m) => m \in Ran
         /\ phase' = "entry"
         /\ UNCHANGED <<program, order>>

\* No coprocessor, or a body that halts.
Stop == phase' = "stopped" /\ UNCHANGED <<program, order>>

Next == (\E m \in Modules : Run(m)) \/ Enter \/ Stop

Spec == Init /\ [][Next]_vars
=============================================================================
