------------------------------ MODULE MCFlowImport ------------------------------
(***************************************************************************)
(* The materials that TLC reads.                                           *)
(***************************************************************************)
EXTENDS FlowImport

\* Two files of one base, and one in another directory.
MCFiles == <<[name |-> "a.js", base |-> "a", directory |-> "api"],
             [name |-> "a.ts", base |-> "a", directory |-> "api"],
             [name |-> "b.ts", base |-> "b", directory |-> "util"]>>

MCRowIds     == {<<"a">>, <<"b">>, <<>>}
MCRowTypes   == {"trigger", "decision", "group", "unknown"}
MCRowTargets == {<<>>, <<<<"b">>>>, <<<<"a">>, <<"b">>>>, <<<<"absent">>>>}

MCCanvas == {<<"trigger", "process", "decision", "end">>, <<"process", "trigger", "trigger", "group">>}

Plain(k)     == [kind |-> k, then |-> <<>>, else |-> <<>>]
UpTo2(S)     == {<<>>} \cup {<<x>> : x \in S} \cup {<<x, y>> : x, y \in S}
Branches     == {<<>>, <<Plain("return")>>, <<Plain("proceso")>>, <<Plain("proceso"), Plain("return")>>}
Conditionals == {[kind |-> "if", then |-> t, else |-> e] : t \in Branches, e \in Branches \cup {NoElse}}
MCBodies     == UpTo2(Conditionals \cup {Plain("throw"), Plain("return"), Plain("loop"), Plain("datos")})
                \cup {<<[kind |-> "if", then |-> <<c>>, else |-> NoElse]>> : c \in Conditionals}
===============================================================================
