------------------------------ MODULE MCRunStream ------------------------------
(* Small instances of RunStream. *)
EXTENDS RunStream
===============================================================================
