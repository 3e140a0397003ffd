------------------------------ MODULE MCSimulator ------------------------------
(* Flows, inputs and options for TLC.  Nodes and edges are numbered from 1, *)
(* and node 1 is the trigger.                                              *)
EXTENDS SimulatorInv, RunIncident

Plain(type) == [type |-> type, mode |-> "each", duration |-> 0, operations |-> <<>>,
                fails |-> FALSE, strategy |-> "first_match", result |-> "success"]
Arrow(s, t) == [source |-> s, target |-> t, priority |-> 0, default |-> FALSE,
                condition |-> NoCondition]
When(s, t, op, path, v) == [Arrow(s, t) EXCEPT !.condition = [op |-> op, path |-> path, value |-> v]]
Otherwise(s, t) == [Arrow(s, t) EXCEPT !.default = TRUE]

Set(path, v)     == [op |-> "set", path |-> path, from |-> <<>>, value |-> v]
Copy(path, from) == [op |-> "copy", path |-> path, from |-> from, value |-> Absent]
Delete(path)     == [op |-> "delete", path |-> path, from |-> <<>>, value |-> Absent]

Call(nodes, edges) ==
  [sorted |-> FALSE, nodes |-> nodes, edges |-> edges, variables |-> <<>>, input |-> Absent, trigger |-> 1,
   forced |-> <<>>, failed |-> {}, maxSteps |-> 20, maxVisits |-> 10]

X  == <<"x">>
A  == <<"a">>
AB == <<"a", "b">>
AC == <<"a", "c">>

Work(d, operations) == [Plain("process") EXCEPT !.duration = d, !.operations = operations]
Join(mode)          == [Plain("process") EXCEPT !.mode = mode]

\* Two branches that meet, or do not.
Diamond(left, right, mode) ==
  Call(<<Plain("trigger"), left, right, Join(mode), Plain("end")>>,
       <<Arrow(1, 2), Arrow(1, 3), Arrow(2, 4), Arrow(3, 4), Arrow(4, 5)>>)

Diamonds ==
  {[Diamond(Work(d, l), Work(e, r), mode)
      EXCEPT !.failed = f, !.forced = o, !.maxSteps = m,
             !.variables = <<[path |-> AB, value |-> Scalar(0)]>>] :
     d \in 0..1, e \in {0, 2}, mode \in {"each", "any", "all"},
     l \in {<<>>, <<Set(X, Scalar(1))>>},
     r \in {<<>>, <<Set(X, Scalar(2))>>, <<Copy(X, A)>>, <<Copy(X, AC)>>},
     f \in {{}, {2}}, o \in {<<>>, 1 :> 2}, m \in {3, 20}}

\* A branch that forks again: its tokens meet at one any-join, or each passes one of two.
Nested(one, d, e) ==
  Call(<<Plain("trigger"), Work(0, <<>>), Work(d, <<>>), Work(0, <<>>), Work(e, <<>>),
         Join("any"), Join("any"), Join("all"), Plain("end")>>,
       <<Arrow(1, 2), Arrow(1, 3), Arrow(2, 4), Arrow(2, 5), Arrow(4, 6),
         Arrow(5, IF one THEN 6 ELSE 7), Arrow(6, 8), Arrow(7, 8), Arrow(3, 8), Arrow(8, 9)>>)

NestedFlows == {Nested(one, d, e) : one \in BOOLEAN, d \in 0..2, e \in 0..2}

\* A decision that loops until x is set, on a condition that may not be evaluable.
Loop(op, body, strategy) ==
  Call(<<Plain("trigger"), [Plain("decision") EXCEPT !.strategy = strategy], body, Plain("end"),
         [Plain("end") EXCEPT !.result = "failure"]>>,
       <<Arrow(1, 2), When(2, 4, op, X, Scalar(1)), When(2, 5, "equals", A, Scalar(1)),
         Otherwise(2, 3), Arrow(3, 2)>>)

Loops ==
  {[Loop(op, body, strategy) EXCEPT !.maxVisits = m, !.input = i] :
     op \in {"exists", "equals"}, strategy \in {"first_match", "all_matches"}, m \in {2, 4},
     body \in {Work(1, <<>>), Work(1, <<Set(X, Scalar(1))>>), Work(1, <<Set(A, Scalar(1)), Delete(X)>>)},
     i \in {A :> 0, (A :> 1) @@ (X :> 1), (A :> 0) @@ (X :> 2)}}

\* A decision on a condition of every kind.
Field(op, v) == [op |-> op, path |-> X, value |-> v]
Compound(op) == [op |-> op, conditions |-> <<Field("greater_than", Scalar(0)), Field("exists", Absent)>>]
Asks(condition) ==
  Call(<<Plain("trigger"), Plain("decision"), Plain("end"), [Plain("end") EXCEPT !.result = "failure"]>>,
       <<Arrow(1, 2), [Arrow(2, 3) EXCEPT !.condition = condition], Otherwise(2, 4)>>)
Conditions ==
  {[Asks(c) EXCEPT !.input = i] :
     c \in {Compound("and"), Compound("or"), [op |-> "or", conditions |-> <<>>]}
           \cup {Field(op, "b") : op \in {"contains", "not_contains"}}
           \cup {Field(op, Scalar(1)) : op \in {"not_exists", "not_equals", "greater_than_or_equal",
                                                 "less_than", "less_than_or_equal"}},
     i \in {Absent, X :> 0, X :> 1, <<"x", "b">> :> 1}}

\* A join that no fork precedes, and an edge that is not taken.
Strays ==
  {Call(<<Plain("trigger"), [Join(mode) EXCEPT !.fails = f], Plain("end")>>,
        <<Arrow(1, 2), When(2, 3, "exists", X, Absent)>>) :
     mode \in {"each", "any", "all"}, f \in BOOLEAN}

\* One branch sets or deletes an object, or puts a scalar there, the other sets a field of it.
Overlaps ==
  {[Diamond(Work(d, <<l>>), Work(0, <<Set(AB, Scalar(2))>>), "all") EXCEPT !.input = AC :> 1] :
     d \in 0..1, l \in {Set(A, <<"b">> :> 1), Set(A, Scalar(1)), Delete(A)}}

\* x is set before the fork, and one branch sets it again.
SetTwice ==
  {[Diamond(Work(0, <<Set(X, Scalar(2))>>), Work(0, <<>>), "all")
      EXCEPT !.nodes[1].operations = <<Set(X, Scalar(1))>>]}

\* One branch sets an object and then a field of it.
ParentAndChild ==
  {Diamond(Work(0, <<Set(A, <<"b">> :> 1), Set(AB, Scalar(2))>>), Work(0, <<>>), "all")}

\* With defaults for a and for a field of a, the input keeps the one from the other at the start of the
\* run, and not at the join.
Variables(paths) == [i \in DOMAIN paths |-> [path |-> paths[i], value |-> Scalar(0)]]
DefaultsApart ==
  {[Diamond(Work(0, <<Set(X, Scalar(2))>>), Work(d, <<>>), "all")
      EXCEPT !.variables = Variables(paths), !.input = AC :> 1] :
     d \in 0..1, paths \in {<<AB>>, <<A, AB>>, <<AB, X>>}}

InBothEngines(calls) == {[c EXCEPT !.sorted = sorted] : c \in calls, sorted \in BOOLEAN}
AllScenarios ==
  Diamonds \cup NestedFlows \cup Loops \cup Conditions \cup Strays \cup InBothEngines(Overlaps \cup ParentAndChild \cup SetTwice \cup DefaultsApart)
===============================================================================
