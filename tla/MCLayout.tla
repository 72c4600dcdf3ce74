------------------------------ MODULE MCLayout ------------------------------
(* Four modules in every grouping, with every linked subset and entry, and   *)
(* sizes chosen around the word, the paragraph and the (scaled) limits.      *)
EXTENDS Layout

Section(c, d, b) == [code |-> c, data |-> d, bss |-> b]

MCSizes == {Section(0, 16, 0), Section(15, 1, 17), Section(33, 0, 1)}
=============================================================================
