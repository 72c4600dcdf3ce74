--------------------------- MODULE LexicalScoping ---------------------------
(* What a program with nested procedures means (MANUAL.MD, "Scopes": nested  *)
(* procedures can access outer locals): a stream of source operations acts   *)
(* on activations, and a name stands for a variable of the activation the    *)
(* text of the program encloses it with.                                     *)
EXTENDS Naturals, Sequences

VARIABLES acts,         \* activations [proc, outer, vals], the module first
          args,         \* actual parameters already evaluated
          callee,       \* the procedure called and not yet entered, or 0
          ax,           \* the value of the expression last evaluated
          op            \* the source operation to be executed

vars == <<acts, args, callee, ax, op>>

\* The activation whose variables the names of procedure q stand for.
Home(q) == LET find[i \in 0..Len(acts)] ==
                   IF i = 0 \/ acts[i].proc = q THEN i ELSE find[acts[i].outer]
           IN  find[Len(acts)]

\* A place is a variable; a VAR parameter stands for the place it is bound to.
Declared(d) == [act |-> Home(d.proc), slot |-> d.slot]
Content(place) == acts[place.act].vals[place.slot]
Place(d) == IF d.ref THEN Content(Declared(d)) ELSE Declared(d)

Executes(kind) == op.k = kind /\ callee = 0

Read == /\ Executes("read")
        /\ ax' = Content(Place(op.d))
        /\ UNCHANGED <<acts, args, callee>>

Write == /\ Executes("write")
         /\ acts' = [acts EXCEPT ![Place(op.d).act].vals[Place(op.d).slot] = ax]
         /\ UNCHANGED <<args, callee, ax>>

Compute == /\ Executes("compute")
           /\ UNCHANGED <<acts, args, callee>>

PassValue == /\ Executes("pass value")
             /\ args' = Append(args, ax)
             /\ UNCHANGED <<acts, callee, ax>>

PassPlace == /\ Executes("pass place")
             /\ args' = Append(args, Place(op.d))
             /\ UNCHANGED <<acts, callee>>

Call == /\ Executes("call")
        /\ callee' = op.p
        /\ UNCHANGED <<acts, args, ax>>

\* The new variables hold anything, but the parameters what was passed.
Enter == LET new == acts'[Len(acts')] IN
         /\ op.k = "enter"
         /\ callee = op.p
         /\ callee' = 0
         /\ Len(acts') = Len(acts) + 1
         /\ SubSeq(acts', 1, Len(acts)) = acts
         /\ new.proc = op.p
         /\ new.outer = Home(op.in)
         /\ SubSeq(new.vals, 1, Len(args)) = args
         /\ args' = <<>>
         /\ UNCHANGED ax

Leave == /\ Executes("leave")
         /\ acts' = SubSeq(acts, 1, Len(acts) - 1)
         /\ UNCHANGED <<args, callee, ax>>

\* The module is called from outside.
Start == /\ op.k = "none"
         /\ Len(acts) = 1
         /\ callee = 0
         /\ callee' \in Nat \ {0}
         /\ UNCHANGED <<acts, args, ax>>

\* Jumps and the like.
Advance == /\ op.k = "none"
           /\ UNCHANGED <<acts, args, callee, ax>>

Init == /\ Len(acts) = 1
        /\ args = <<>>
        /\ callee = 0

Next == Start \/ Read \/ Write \/ Compute \/ PassValue \/ PassPlace \/ Call \/ Enter \/ Leave \/ Advance

Spec == Init /\ [][Next]_vars
=============================================================================
