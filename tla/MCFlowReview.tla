------------------------------ MODULE MCFlowReview ------------------------------
(***************************************************************************)
(* The definitions and the command lines that TLC takes.                   *)
(***************************************************************************)
EXTENDS FlowReview

Graph == INSTANCE FlowGraph
MCIssuesOf(def) == Graph!Codes(AsGraph(def))
MCWarningCodes == Graph!Warnings

In  == <<"in", "text">>
Out == <<"out", "text">>
Node(type, inputs, outputs) ==
  [type |-> type, label |-> "x", description |-> "absent", inputs |-> inputs, outputs |-> outputs, activationMode |-> "each",
   durationMs |-> 0, configuration |-> "c", position |-> "here", locked |-> "absent", metadata |-> "m"]
Edge(source, target) ==
  [source |-> source, target |-> target, sourcePort |-> "out", targetPort |-> "in", label |-> "x",
   condition |-> "absent", isDefault |-> FALSE, priority |-> 0]
Variable(required) == [type |-> "string", required |-> required, default |-> "absent", description |-> "d"]

MCBefore ==
  [flow      |-> [flow |-> [schemaVersion |-> "2", name |-> "x", description |-> "absent", metadata |-> "absent"]],
   layout    |-> [layout |-> [mode |-> "layers", clusterBy |-> "absent", camera |-> "absent"]],
   variables |-> [v |-> Variable(FALSE)],
   nodes     |-> [t |-> Node("trigger", {}, {Out}), p |-> Node("process", {In}, {Out}), e |-> Node("end", {In}, {}),
                  g |-> Node("group", {}, {})],
   edges     |-> [tp |-> Edge("t", "p"), pe |-> Edge("p", "e")]]

MCValues ==
  [flow      |-> [name |-> {"y"}],
   layout    |-> [mode |-> {"force"}],
   variables |-> [type |-> {"number"}, required |-> BOOLEAN, default |-> {"absent", "1"}, description |-> {"other"}],
   nodes     |-> [type |-> {"trigger", "process", "group", "decision"}, label |-> {"y"},
                  inputs |-> {{}, {In}, {<<"in", "other">>}, {In, <<"in2", "text">>}}, outputs |-> {{}, {Out}, {<<"out2", "text">>}},
                  activationMode |-> {"all"}, configuration |-> {"c", "d"}, position |-> {"there"}],
   edges     |-> [source |-> {"t", "e"}, target |-> {"p", "g"}, label |-> {"y"}, condition |-> {"c"}, isDefault |-> {TRUE},
                  priority |-> {1}]]

MCNewIds == [variables |-> {"w"}, nodes |-> {"n"}, edges |-> {"new"}]
MCNew ==
  [variables |-> {Variable(TRUE), Variable(FALSE)},
   nodes     |-> {Node("trigger", {}, {Out}), Node("end", {In}, {}), Node("group", {}, {})},
   edges     |-> {Edge("t", "e"), Edge("p", "p")}]

W(w) == <<"word", w>>
F(f) == <<"flag", f>>
V(f, v) == <<"flag", f, v>>
Run(command, arguments) == [command |-> command, arguments |-> arguments]
Gate(policy) == Run("check", <<W("after"), F("baseline"), W("before")>> \o policy)

MCInvocations ==
  {Run("validate", <<W(f)>>) : f \in {"after", "absent", "notflow"}}
  \cup {Run("diff", <<W("before"), W("after")>>), Run("diff", <<W("after"), F("sarif"), W("before")>>),
        Run("diff", <<W("before"), W("notflow")>>), Run("diff", <<W("after")>>)}
  \cup {Run("simulate", <<W("after")>> \o x) :
          x \in {<<>>, <<F("trigger"), W("n")>>, <<V("trigger", "t"), F("output"), W("file")>>, <<V("max-steps", "0")>>,
                 <<V("max-steps", "many")>>, <<F("input"), W("list")>>, <<F("baseline"), W("before")>>,
                 <<F("input"), W("scalar"), V("trigger", "")>>, <<F("fail-node"), W("p"), F("sarif")>>,
                 <<F("force-edge"), W("malformed"), F("force-edge"), W("t=tp")>>}}
  \cup {Gate(x) : x \in {<<>>, <<F("fail-on"), W("behavioral")>>, <<F("fail-on-breaking")>>,
                         <<F("fail-on"), W("none"), F("fail-on"), W("breaking"), V("output", "file")>>,
                         <<F("fail-on-breaking"), F("fail-on-behavioral")>>, <<F("fail-on"), W("visual")>>}}
  \cup {Run("check", <<W(f)>>) : f \in {"after", "notflow"}}
  \cup {Run("check", <<W("after"), F("fail-on-breaking")>>), Run("check", <<W("after"), F("baseline"), W("absent")>>),
        Run("check", <<W("after"), V("baseline", ""), V("format", ""), V("output", "")>>),
        Run("check", <<W("after"), F("fail-on-breaking"), V("baseline", "")>>),
        Run("check", <<W("notflow"), F("baseline"), W("notflow"), F("fail-on"), W("breaking")>>),
        Run("validate", <<<<"dashes">>, W("after"), F("json")>>), Run("validate", <<W("after"), F("json"), F("sarif")>>),
        Run("validate", <<W("after"), V("json", "yes")>>), Run("validate", <<W("after"), F("format")>>),
        Run("validate", <<W("after"), F("other")>>), Run("help", <<>>), Run("remove", <<F("help")>>), Run("remove", <<>>)}

MCMalformed  == {<<"max-steps", "0">>, <<"force-edge", "malformed">>}
MCOutOfRange == {<<"max-steps", "many">>, <<"input", "list">>}

\* An input that is blocked where the variables begin, and a plan that fails at a node the trigger leads to.
MCDefaultsFail(variables, input) == input = "scalar" /\ \E v \in DOMAIN variables : variables[v].default # "absent"
MCPlanFails(def, flags) ==
  "fail-node" \in DOMAIN flags
    /\ \E e \in DOMAIN def.edges : def.edges[e].target \in Range(flags["fail-node"]) /\ def.edges[e].source = "t"
===============================================================================
