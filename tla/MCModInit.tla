----------------------------- MODULE MCModInit ------------------------------
(* Every import graph of three modules, cycles and repeated imports included, *)
(* bodies and floating-point code wherever they make a difference.           *)
EXTENDS ModInit

CONSTANTS m1, m2, m3

MCPrograms ==
    {p \in [Modules -> Sources] :
        /\ p[m1].body /\ p[m1].fpu = "none" /\ p[m3].fpu = "none"
        /\ p[m2].fpu = "body" => p[m2].body}
=============================================================================
