---------------------------- MODULE MCSmartLink -----------------------------
(* Every import graph over a few modules, every way of exporting the names,  *)
(* and a C library that runs out of FILE objects on the longest chain.       *)
EXTENDS SmartLink
=============================================================================
