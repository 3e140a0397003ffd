------------------------------- MODULE Documents -------------------------------
(***************************************************************************)
(* The JSON documents a simulation carries, with the pointer operations of *)
(* engine/condition.go and the merge of the branches of a fork.            *)
(*                                                                         *)
(* A document maps the pointers of its leaves to scalars.  A pointer is a  *)
(* sequence of keys, and no leaf lies below another.  A scalar is the      *)
(* document whose only leaf is at the empty pointer.  An object without    *)
(* leaves is not told apart from an absent one, and there are no arrays.   *)
(***************************************************************************)
EXTENDS Naturals, FiniteSets, Sequences, SequencesExt

CONSTANT Keys      \* of the objects

Paths == Seq(Keys)
IsDocument(doc) == DOMAIN doc \subseteq Paths /\ doc = [p \in DOMAIN doc |-> doc[p]]

Absent    == <<>>
Scalar(v) == <<>> :> v

Below(doc, path)   == {p \in DOMAIN doc : IsPrefix(path, p)}
Suffix(p, path)    == SubSeq(p, Len(path) + 1, Len(p))
Exists(doc, path)  == Below(doc, path) # {}

\* A scalar stands where the pointer needs an object.
Blocked(doc, path) == \E p \in DOMAIN doc : IsStrictPrefix(p, path)

GetValue(doc, path) ==
  [s \in {Suffix(p, path) : p \in Below(doc, path)} |-> doc[path \o s]]

DeleteValue(doc, path) == [p \in DOMAIN doc \ Below(doc, path) |-> doc[p]]

SetValue(doc, path, value) ==
  [p \in {path \o q : q \in DOMAIN value} \cup (DOMAIN doc \ Below(doc, path)) |->
     IF IsPrefix(path, p) THEN value[Suffix(p, path)] ELSE doc[p]]

\* Every key of the input replaces the whole value under that key.
Overlay(base, input) ==
  [p \in DOMAIN input \cup {q \in DOMAIN base : ~\E r \in DOMAIN input : r[1] = q[1]} |->
     IF p \in DOMAIN input THEN input[p] ELSE base[p]]

\* The variables come in the order of their paths.
SetDefault(doc, variable) ==
  IF Exists(doc, variable.path) \/ Blocked(doc, variable.path) THEN doc
  ELSE SetValue(doc, variable.path, variable.value)

WithVariableDefaults(variables, doc) ==
  LET after[n \in 0..Len(variables)] ==
        IF n = 0 THEN doc ELSE SetDefault(after[n - 1], variables[n])
  IN  after[Len(variables)]

\* packages/engine throws where engine/simulator.go leaves out a default that is blocked.
DefaultsFail(variables, doc) ==
  \E n \in 1..Len(variables) :
    Blocked(WithVariableDefaults(SubSeq(variables, 1, n - 1), doc), variables[n].path)

-------------------------------------------------------------------------------
(* What a node does to the context of its token.  writes maps a path to    *)
(* the value last set there by the token, or to Absent if it was deleted.  *)

Outcome(ok, context, writes) == [ok |-> ok, context |-> context, writes |-> writes]
Failed == Outcome(FALSE, Absent, Absent)     \* nobody looks at the context then

Recorded(writes, path, value) ==
  [p \in DOMAIN writes \cup {path} |-> IF p = path THEN value ELSE writes[p]]

ApplyOperation(s, op) ==
  LET value  == IF op.op = "copy" THEN GetValue(s.context, op.from) ELSE op.value
      breaks == \/ op.op = "copy" /\ ~Exists(s.context, op.from)
                \/ op.op # "delete" /\ Blocked(s.context, op.path)
  IN  IF ~s.ok \/ breaks THEN Failed
      ELSE IF op.op = "delete"
           THEN Outcome(TRUE, DeleteValue(s.context, op.path), Recorded(s.writes, op.path, Absent))
           ELSE Outcome(TRUE, SetValue(s.context, op.path, value), Recorded(s.writes, op.path, value))

ApplyOperations(operations, context, writes) ==
  LET after[n \in 0..Len(operations)] ==
        IF n = 0 THEN Outcome(TRUE, context, writes) ELSE ApplyOperation(after[n - 1], operations[n])
  IN  after[Len(operations)]

-------------------------------------------------------------------------------
(* The merge of the tokens that meet at a join.                            *)


WritesConflict(writes) ==
  \E v, w \in writes : \E p \in DOMAIN v \cap DOMAIN w : v[p] # w[p]

AllWrites(writes) ==
  [p \in UNION {DOMAIN w : w \in writes} |-> (CHOOSE w \in writes : p \in DOMAIN w)[p]]

AnyOrder(paths, sorted) == SetToSeqs(paths)     \* mutant

\* engine/simulator.go ranges over a map; packages/engine sorts the paths, and so puts a parent
\* before its children.
WriteOrders(paths, sorted) ==
  {order \in SetToSeqs(paths) :
     sorted => \A i, j \in 1..Len(order) : i < j => ~IsStrictPrefix(order[j], order[i])}

Put(doc, path, value) == IF value = Absent THEN DeleteValue(doc, path) ELSE SetValue(doc, path, value)

\* The first write that is blocked fails the merge, whatever would come after it.
Replay(base, written, order) ==
  LET after[n \in 0..Len(order)] ==
        IF n = 0 THEN base ELSE Put(after[n - 1], order[n], written[order[n]])
  IN  IF \E n \in 1..Len(order) : written[order[n]] # Absent /\ Blocked(after[n - 1], order[n])
      THEN Failed
      ELSE Outcome(TRUE, after[Len(order)], written)

\* Every outcome the merge can have.
MergeTokens(base, writes, sorted) ==
  IF WritesConflict(writes) THEN {Failed}
  ELSE {Replay(base, AllWrites(writes), order) :
          order \in WriteOrders(DOMAIN AllWrites(writes), sorted)}
===============================================================================
