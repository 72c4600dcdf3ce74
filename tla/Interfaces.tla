----------------------------- MODULE Interfaces -----------------------------
(* What separate compilation promises: a module sees of another exactly what *)
(* the compilation that made it available exported, from the first place on  *)
(* the search path that has it. Nothing but a completed compilation, a copy  *)
(* or a file written by hand changes what is available.                      *)
(*                                                                           *)
(* An offer is [there, names]: whether the place has the module at all, and  *)
(* what each exported name stands for. Every directory has two places for a  *)
(* module, its .def file and, behind it, its .om archive.                    *)
EXTENDS Naturals, SequencesExt, TLC

CONSTANTS Dirs,                       \* the directories on a search path
          Modules,
          Here                        \* the directory oc runs in

VARIABLES published,                  \* directory -> kind -> module -> offer
          making,                     \* the module being compiled, or ""
          path,                       \* its search path, a sequence of Dirs
          seen                        \* alias -> names seen under it

vars == <<published, making, path, seen>>

NoOffer == [there |-> FALSE, names |-> {}]
Nothing == [m \in Modules |-> NoOffer]
Nobody  == [a \in {} |-> {}]

Init == /\ published = [d \in Dirs |-> [def |-> Nothing, om |-> Nothing]]
        /\ making = "" /\ path = <<>> /\ seen = Nobody

InDir(d, m)  == IF published[d].def[m].there THEN published[d].def[m]
                ELSE published[d].om[m]
OnPath(p, m) ==
  LET i == SelectInSeq(p, LAMBDA d : InDir(d, m).there)
  IN IF i = 0 THEN NoOffer ELSE InDir(p[i], m)

(* SYSTEM is read without being asked for, if it is there.                   *)
Start(m, p, implicit) ==
  /\ making = "" /\ making' = m /\ path' = p
  /\ LET sys == OnPath(p, "SYSTEM")
     IN seen' = IF implicit /\ sys.there THEN "SYSTEM" :> sys.names ELSE Nobody
  /\ UNCHANGED published

Read(m, alias) ==
  /\ making # "" /\ OnPath(path, m).there
  /\ seen' = (alias :> OnPath(path, m).names) @@ seen
  /\ UNCHANGED <<published, making, path>>

Idle == making' = "" /\ path' = <<>> /\ seen' = Nobody

(* The archive is replaced and a .def file of the same name is gone; what    *)
(* the archive offers is up to the source.                                   *)
Publish ==
  /\ making # "" /\ published'[Here].om[making].there
  /\ published' = [published EXCEPT
                     ![Here].om[making]  = published'[Here].om[making],
                     ![Here].def[making] = NoOffer]
  /\ \/ Idle
     \/ UNCHANGED <<making, path, seen>>

Abandon ==
  /\ making # "" /\ Idle
  /\ \/ UNCHANGED published
     \/ published' = [published EXCEPT ![Here].def[making] = NoOffer]

(* Between compilations: a copy of an archive, or a .def file by hand.       *)
Copy(d, m) ==
  /\ making = "" /\ published[Here].om[m].there
  /\ published' = [published EXCEPT ![d].om[m] = published[Here].om[m]]
  /\ UNCHANGED <<making, path, seen>>
Write(m) ==
  /\ making = ""
  /\ published' = [published EXCEPT ![Here].def[m] = published'[Here].def[m]]
  /\ UNCHANGED <<making, path, seen>>

Changes == Publish \/ Abandon
           \/ \E m \in Modules : Write(m) \/ \E d \in Dirs : Copy(d, m)

Next == \/ \E m \in Modules, b \in BOOLEAN : Start(m, path', b)
        \/ seen' # seen /\ \E m \in Modules, a \in DOMAIN seen' : Read(m, a)
        \/ published' # published /\ Changes
        \/ making' # making /\ Abandon

Spec == Init /\ [][Next]_vars
=============================================================================
