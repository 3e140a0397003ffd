------------------------------ MODULE MCAutosave ------------------------------
(* Two definitions are enough for a write that is not the one before it, and   *)
(* for a definition that comes back under its old ETag.                        *)
EXTENDS Autosave

CONSTANTS d1, d2
MCDefinitions == {d1, d2}
===============================================================================
