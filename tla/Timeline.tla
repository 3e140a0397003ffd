-------------------------------- MODULE Timeline --------------------------------
(***************************************************************************)
(* What undo and redo promise: the definitions the user went through lie   *)
(* on a line and one of them is shown.  Undo and redo walk the line and    *)
(* change nothing on it; a new edit cuts what lies ahead and is the only   *)
(* thing that drops the oldest definition.                                 *)
(***************************************************************************)
EXTENDS Naturals, Sequences

CONSTANT Depth     \* how many steps back are kept, at least one

VARIABLES
  line,        \* the definitions within reach of undo and redo
  at           \* the one that is shown

vars == <<line, at>>

LineInit == at = 1 /\ Len(line) = 1

Load == at' = 1 /\ Len(line') = 1

\* The line up to the definition shown, without the oldest if it is full, and the new one.
Kept == SubSeq(line, IF at > Depth THEN at - Depth + 1 ELSE 1, at)
Edit == /\ at' = Len(Kept) + 1 /\ Len(line') = at'
        /\ \A i \in 1..Len(Kept) : line'[i] = Kept[i]

Undo == at > 1 /\ at' = at - 1 /\ UNCHANGED line
Redo == at < Len(line) /\ at' = at + 1 /\ UNCHANGED line

LineNext == Load \/ Edit \/ Undo \/ Redo

LineSpec == LineInit /\ [][LineNext]_vars
===============================================================================
