------------------------------- MODULE MCSessions -------------------------------
(* Small instances of Sessions. *)
EXTENDS Sessions, TLC

\* Tabs are alike.
Symmetry == Permutations(Tabs)
===============================================================================
