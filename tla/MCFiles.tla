------------------------------ MODULE MCFiles -------------------------------
(* Two-byte buffers, files of up to five bytes and transfers of up to three: *)
(* calls inside one buffer, across two and three, ending on and off a block. *)
EXTENDS Files
=============================================================================
