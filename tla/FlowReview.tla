------------------------------- MODULE FlowReview -------------------------------
(***************************************************************************)
(* A flow is edited and reviewed on the command line (packages/cli): one   *)
(* invocation of validate, diff, simulate or check reads the files, makes  *)
(* its report and writes it, to the terminal or to a file.                 *)
(*                                                                         *)
(* An argument is <<"word", w>>, <<"flag", name>>, <<"flag", name, value>> *)
(* (--name=value) or <<"dashes">>.  Words name files of the disk: the      *)
(* files "before" and "after" hold the two definitions.                    *)
(***************************************************************************)
EXTENDS FlowDiff

CONSTANTS
  Before,      \* the definition before the edits
  Values,      \* part -> field -> what the field may hold
  New,         \* part -> the records that may be added
  NewIds,      \* part -> their ids
  Invocations, \* command lines: [command, arguments]
  Malformed,   \* values that the command line refuses: pairs of flag and value
  OutOfRange,  \* values that only the simulator refuses
  Unreadable,  \* files that do not exist or are not JSON
  NotFlows,    \* files of JSON that do not meet the schema
  WarningCodes,    \* the codes of the validation that are no errors
  IssuesOf(_), \* validateFlow: the codes of the issues of a definition
  DefaultsFail(_, _), \* setPath: whether an input blocks the default of one of the variables
  PlanFails(_, _),    \* createSimulationPlan: whether the plan of a definition under the flags ends as failed
  MaxEdits     \* bound on the edits

VARIABLES
  after,       \* the definition after the edits
  edits,       \* how many there were
  phase,       \* "editing", "reported" (about to be written) or "ended"
  invocation,  \* the command line
  report,      \* CommandReport, or NoReport
  exitCode,    \* of the process
  written      \* the report has been written

vars == <<after, edits, phase, invocation, report, exitCode, written>>

NoReport == [command |-> "none"]
Idle     == [command |-> "", arguments |-> <<>>]
Parts    == {"variables", "nodes", "edges"}

Init ==
  /\ after = Before /\ edits = 0
  /\ phase = "editing" /\ invocation = Idle /\ report = NoReport /\ exitCode = 0 /\ written = FALSE

\* The definitions have all their fields, before and after an edit; the finding of the schema is no
\* warning; a file that is no JSON is not asked whether it meets the schema.
ReviewAssumption ==
  /\ IsDefinition(Before)
  /\ \A part \in DOMAIN Values : part \in DOMAIN Fields /\ DOMAIN Values[part] \subseteq Fields[part]
  /\ "variables" \in DOMAIN Values /\ "required" \in DOMAIN Values.variables => Values.variables.required \subseteq BOOLEAN
  /\ \A part \in Parts : \A item \in New[part] : IsItem(part, item)
  /\ "flow.schema" \notin WarningCodes
  /\ Unreadable \cap NotFlows = {}
ASSUME ReviewAssumed == ReviewAssumption

-------------------------------------------------------------------------------
(* Editing: somebody changes the file.                                     *)

Editing == phase = "editing" /\ edits < MaxEdits /\ edits' = edits + 1
           /\ UNCHANGED <<phase, invocation, report, exitCode, written>>

SetField ==
  /\ Editing
  /\ \E part \in DOMAIN Values : \E id \in DOMAIN after[part], field \in DOMAIN Values[part] :
       \E v \in Values[part][field] : after' = [after EXCEPT ![part][id][field] = v]

AddItem ==
  /\ Editing
  /\ \E part \in Parts : \E id \in NewIds[part] \ DOMAIN after[part], item \in New[part] :
       after' = [after EXCEPT ![part] = [i \in {id} \cup DOMAIN @ |-> IF i = id THEN item ELSE @[i]]]

RemoveItem ==
  /\ Editing
  /\ \E part \in Parts : \E id \in DOMAIN after[part] :
       after' = [after EXCEPT ![part] = [i \in DOMAIN @ \ {id} |-> @[i]]]

-------------------------------------------------------------------------------
(* cli.ts: the arguments                                                   *)

booleanFlags == {"help", "version", "json", "sarif", "fail-on-behavioral", "fail-on-breaking"}
valueFlags   == {"format", "output", "input", "trigger", "fail-node", "force-edge", "max-steps", "max-visits-per-node",
                 "baseline", "fail-on"}
commonFlags  == {"format", "output", "json", "sarif", "help", "version"}

\* The loop over the arguments.  p.awaited is the flag whose value comes next, "" when none does.
Take(p, argument) ==
  LET name == argument[2]
      With(value) == [p EXCEPT !.flags = (name :> Append(IF name \in DOMAIN @ THEN @[name] ELSE <<>>, value)) @@ @]
      Refuse == [p EXCEPT !.error = TRUE]
  IN  CASE p.awaited # "" ->
             IF argument[1] # "word" THEN Refuse
             ELSE [p EXCEPT !.awaited = "", !.flags = (p.awaited :>
                     Append(IF p.awaited \in DOMAIN @ THEN @[p.awaited] ELSE <<>>, argument[2])) @@ @]
        [] p.awaited = "" /\ argument[1] = "dashes" -> [p EXCEPT !.positionalOnly = TRUE]
        [] p.awaited = "" /\ argument[1] # "dashes" /\ (argument[1] = "word" \/ p.positionalOnly) -> [p EXCEPT !.positionals = Append(@, name)]
        [] OTHER ->
             CASE name \in booleanFlags -> IF Len(argument) = 3 THEN Refuse ELSE With("true")
               [] name \in valueFlags   -> IF Len(argument) = 3 THEN With(argument[3]) ELSE [p EXCEPT !.awaited = name]
               [] OTHER -> Refuse

parseArguments(arguments) ==
  LET p == FoldLeft(Take, [positionals |-> <<>>, flags |-> [x \in {} |-> <<>>], positionalOnly |-> FALSE,
                           awaited |-> "", error |-> FALSE], arguments)
  IN  [p EXCEPT !.error = @ \/ p.awaited # ""]

Given(p, name) == name \in DOMAIN p.flags
flag(p, name)  == Last(p.flags[name])      \* of a flag that is given
Has(p, name)   == Given(p, name) /\ flag(p, name) # ""      \* an empty value is as none

\* Of formats and of policies only one may be selected; --format twice is once.
Selected(p, name, shortcuts) ==
  (IF Has(p, name) THEN {<<name, flag(p, name)>>} ELSE {})
  \cup {<<s, shortcuts[s]>> : s \in DOMAIN shortcuts \cap DOMAIN p.flags}
BadSelection(selections, known) == Cardinality(selections) > 1 \/ \E s \in selections : s[2] \notin known

Formats(p) == Selected(p, "format", [json |-> "json", sarif |-> "sarif"])

Policies(p) == Selected(p, "fail-on", [x \in {"fail-on-behavioral", "fail-on-breaking"} |->
                                         IF x = "fail-on-breaking" THEN "breaking" ELSE "behavioral"])
checkThreshold(p) == IF Policies(p) = {} THEN "none" ELSE (CHOOSE s \in Policies(p) : TRUE)[2]

Allowed ==
  [validate |-> {}, diff |-> {},
   simulate |-> {"input", "trigger", "fail-node", "force-edge", "max-steps", "max-visits-per-node"},
   check    |-> {"baseline", "fail-on", "fail-on-behavioral", "fail-on-breaking"}]

Positionals == [validate |-> 1, diff |-> 2, simulate |-> 1, check |-> 1]

\* What throws CLIInputError before any file is read.
UsageError(command, p) ==
  \/ BadSelection(Formats(p), {"human", "json", "sarif"})
  \/ command \notin DOMAIN Allowed
  \/ ~(DOMAIN p.flags \subseteq commonFlags \cup Allowed[command])
  \/ Len(p.positionals) # Positionals[command]
  \/ command = "check" /\ \/ BadSelection(Policies(p), {"none", "behavioral", "breaking"})
                          \/ checkThreshold(p) # "none" /\ ~Has(p, "baseline")

-------------------------------------------------------------------------------
(* commands.ts                                                             *)

Definition(file) == IF file = "before" THEN Before ELSE after

ValidationOf(issues) == [command |-> "validate", valid |-> issues \subseteq WarningCodes, issues |-> issues]

validateDefinition(def) == ValidationOf(IssuesOf(def))

diffDefinitions(baseline, candidate) == [command |-> "diff", diff |-> diffFlowDefinitions(baseline, candidate)]

\* createSimulationPlan throws: no trigger, a limit or an input it refuses, or an input with a plain
\* value where the default of a variable has to go in.
PlanRefused(def, p) ==
  LET triggers == {n \in DOMAIN def.nodes : def.nodes[n].type = "trigger"}
  IN  \/ IF Has(p, "trigger") THEN flag(p, "trigger") \notin triggers ELSE Cardinality(triggers) # 1
      \/ \E name \in DOMAIN p.flags : <<name, flag(p, name)>> \in OutOfRange
      \/ Given(p, "input") /\ DefaultsFail(def.variables, flag(p, "input"))

\* parseInputArgument, simulationOverrides and positiveIntegerFlag throw: of the forced edges every
\* one is looked at, of the other flags the last.
HasMalformed(p) ==
  \E name \in DOMAIN p.flags :
    \E value \in IF name = "force-edge" THEN Range(p.flags[name]) ELSE {flag(p, name)} : <<name, value>> \in Malformed

SimulationOf(issues, fails) ==
  [command |-> "simulate", valid |-> issues \subseteq WarningCodes, issues |-> issues, failed |-> fails]

simulateDefinition(def, p) == SimulationOf(IssuesOf(def), IssuesOf(def) \subseteq WarningCodes /\ PlanFails(def, p.flags))

StrictlyAbove(change, threshold) ==       \* mutant: > for >=
  threshold # "none" /\ IMPACT_RANK[change.impact] > IMPACT_RANK[threshold]

changeViolatesThreshold(change, threshold) ==
  threshold # "none" /\ IMPACT_RANK[change.impact] >= IMPACT_RANK[threshold]

NoDiff == [changes |-> {}]

\* failures: the codes of the errors and the changes that violate the policy.
CheckOf(validation, diff, threshold) ==
  LET violating == {c \in diff.changes : changeViolatesThreshold(c, threshold)}
  IN  [command |-> "check", valid |-> validation.valid, issues |-> validation.issues, diff |-> diff,
       failOn |-> threshold, errors |-> validation.issues \ WarningCodes, violating |-> violating,
       passed |-> validation.valid /\ violating = {}]

\* The difference from the baseline, when there is one.
Difference(p, def) ==
  IF Has(p, "baseline") THEN diffFlowDefinitions(Definition(flag(p, "baseline")), def) ELSE NoDiff

checkDefinition(def, difference, threshold) == CheckOf(validateDefinition(def), difference, threshold)

\* The report on a file that does not meet the schema: every finding is an error.
SchemaIssues == {"flow.schema"}
invalidReport(command, threshold) ==
  CASE command = "check" ->
         [command |-> command, valid |-> FALSE, issues |-> SchemaIssues, diff |-> NoDiff, failOn |-> threshold,
          errors |-> SchemaIssues, violating |-> {}, passed |-> FALSE]
    [] command = "simulate" -> SimulationOf(SchemaIssues, FALSE)
    [] OTHER -> ValidationOf(SchemaIssues)

-------------------------------------------------------------------------------
(* cli.ts: the commands                                                    *)

Result(r, code) == [report |-> r, exitCode |-> code]
Throws(code)    == Result(NoReport, code)
Judged(r)       == Result(r, IF IF r.command = "check" THEN r.passed ELSE r.valid THEN 0 ELSE 1)
Loads(file)     == file \notin Unreadable \cup NotFlows

\* The commands that report on one candidate; a candidate that breaks the schema is reported.
Candidate(command, p, outcome) ==
  LET file == p.positionals[1]
  IN  CASE file \in Unreadable -> Throws(2)
        [] file \in NotFlows   -> Result(invalidReport(command, checkThreshold(p)), 1)
        [] OTHER -> outcome

Validate(p) ==
  Candidate("validate", p, Judged(validateDefinition(Definition(p.positionals[1]))))

Diff(p) ==
  IF \E i \in 1..2 : ~Loads(p.positionals[i]) THEN Throws(2)
  ELSE Result(diffDefinitions(Definition(p.positionals[1]), Definition(p.positionals[2])), 0)

Simulate(p) ==
  LET def == Definition(p.positionals[1])
      r   == simulateDefinition(def, p)
  IN  Candidate("simulate", p,
        CASE HasMalformed(p) -> Throws(2)
          [] OTHER -> IF r.valid /\ PlanRefused(def, p) THEN Throws(1) ELSE Judged(r))

Check(p) ==
  LET def == Definition(p.positionals[1])
  IN  Candidate("check", p,
        IF Has(p, "baseline") /\ ~Loads(flag(p, "baseline")) THEN Throws(2)
        ELSE Judged(checkDefinition(def, Difference(p, def), checkThreshold(p))))

execute(command, p) ==
  CASE UsageError(command, p) -> Throws(2)
    [] OTHER ->
         CASE command = "validate" -> Validate(p)
           [] command = "diff"     -> Diff(p)
           [] command = "simulate" -> Simulate(p)
           [] command = "check"    -> Check(p)

Line == parseArguments(invocation.arguments)
WantsHelp(i, p) == i.command \in {"", "help", "version"} \/ Has(p, "help") \/ Has(p, "version")

Outcome(i, p) ==
  CASE p.error -> Throws(2)
    [] OTHER -> IF WantsHelp(i, p) THEN Throws(0) ELSE execute(i.command, p)

runCLI ==
  /\ phase = "editing"
  /\ \E i \in Invocations : \E p \in {parseArguments(i.arguments)} : \E r \in {Outcome(i, p)} :
         /\ invocation' = i /\ report' = r.report /\ exitCode' = r.exitCode
         /\ phase' = IF r.report = NoReport THEN "ended" ELSE "reported"
  /\ UNCHANGED <<after, edits, written>>

\* To the terminal, or to a file that it may fail to write: any error that is no CLIInputError.
WriteReport ==
  /\ phase = "reported" /\ phase' = "ended"
  /\ \/ written' = TRUE /\ UNCHANGED exitCode
     \/ Has(Line, "output") /\ exitCode' = 1 /\ UNCHANGED written
  /\ UNCHANGED <<after, edits, invocation, report>>

Next == SetField \/ AddItem \/ RemoveItem \/ runCLI \/ WriteReport

Spec == Init /\ [][Next]_vars

-------------------------------------------------------------------------------
(* sarif.ts                                                                *)

issueLevel(code) == IF code \in WarningCodes THEN "warning" ELSE "error"

changeLevel(change, violates) ==
  CASE violates -> "error"
    [] ~violates /\ change.impact # "visual" -> "warning"
    [] OTHER -> "note"

SimulationFailed == {<<"flowverse.simulation.failed", "warning">>}

\* ruleId and level of every result.
resultsFor(r) ==
  LET ofChanges(changes, violating) == {<<c.impact, changeLevel(c, c \in violating)>> : c \in changes}
      ofIssues == {<<code, issueLevel(code)>> : code \in r.issues}
  IN  CASE r.command = "diff"  -> ofChanges(r.diff.changes, {})
        [] r.command = "check" -> ofIssues \cup ofChanges(r.diff.changes, r.violating)
        [] r.command = "simulate" -> ofIssues \cup (IF r.failed THEN SimulationFailed ELSE {})
        [] OTHER -> ofIssues

LEVEL_RANK == [note |-> 0, warning |-> 1, error |-> 2]

\* The rules that the log declares, each with the highest level of its results.
SarifRules(r) ==
  {<<x[1], x[2]>> : x \in {y \in resultsFor(r) : \A z \in resultsFor(r) : z[1] = y[1] => LEVEL_RANK[z[2]] <= LEVEL_RANK[y[2]]}}

-------------------------------------------------------------------------------
\* What the engine reads of a definition: not the groups, the labels or the canvas.
Executed(def) ==
  LET nodes == {n \in DOMAIN def.nodes : def.nodes[n].type # "group"}
      Node(n) == <<def.nodes[n].type, def.nodes[n].activationMode, def.nodes[n].durationMs, def.nodes[n].configuration,
                   PortIds(def.nodes[n].inputs), PortIds(def.nodes[n].outputs)>>
      Edge(e) == LET x == def.edges[e]
                 IN  <<x.source, x.target, x.sourcePort, x.targetPort, x.condition, x.isDefault, x.priority>>
  IN  <<[n \in nodes |-> Node(n)], [e \in DOMAIN def.edges |-> Edge(e)],
        [v \in DOMAIN def.variables |-> def.variables[v].default]>>

\* What stands outside a definition and names its parts: triggers, forced edges, failed nodes,
\* ports and variables.  new keeps what a caller of old may rely on.
Keeps(old, new) ==
  /\ \A n \in DOMAIN old.nodes : old.nodes[n].type # "group" =>
       /\ n \in DOMAIN new.nodes /\ new.nodes[n].type = old.nodes[n].type
       /\ \A side \in {"inputs", "outputs"} : PortIds(old.nodes[n][side]) \subseteq PortIds(new.nodes[n][side])
       /\ old.nodes[n].type = "trigger" => new.nodes[n].configuration = old.nodes[n].configuration
  /\ \A e \in DOMAIN old.edges :
       e \in DOMAIN new.edges /\ \A f \in {"source", "target", "sourcePort", "targetPort"} : new.edges[e][f] = old.edges[e][f]
  /\ \A v \in DOMAIN old.variables : v \in DOMAIN new.variables /\ new.variables[v].type = old.variables[v].type
  /\ \A v \in DOMAIN new.variables :
       new.variables[v].required => v \in DOMAIN old.variables /\ old.variables[v].required

-------------------------------------------------------------------------------
\* Two definitions between which the difference finds no change of behaviour are executed alike,
\* however many visual changes there are among them.
VisualChangesKeepBehaviour ==
  phase = "editing" /\ ~diffFlowDefinitions(Before, after).behaviorChanged => Executed(Before) = Executed(after)

\* A change of behaviour is one in both directions: undoing a reviewed change is reviewed too,
\* although what is breaking one way may be behavioral the other.
RevertIsSeen ==
  phase = "editing" =>
    /\ diffFlowDefinitions(Before, after).behaviorChanged = diffFlowDefinitions(after, Before).behaviorChanged
    /\ diffFlowDefinitions(Before, after).hasChanges = (Before # after)

\* The verdict of the gate, which is an exit code: when it is 0 the candidate can be simulated, with
\* the policy "breaking" every caller of the baseline finds what it names, and with "behavioral" the
\* candidate is executed as the baseline.
GateIsSound ==
  phase = "ended" /\ exitCode = 0 /\ written /\ report.command \in {"validate", "simulate", "check"} =>
    LET candidate == Definition(Line.positionals[1])
        threshold == IF report.command = "check" THEN report.failOn ELSE "none"
    IN  /\ IssuesOf(candidate) \subseteq WarningCodes
        /\ threshold # "none" => Keeps(Definition(flag(Line, "baseline")), candidate)
        /\ threshold = "behavioral" => Executed(Definition(flag(Line, "baseline"))) = Executed(candidate)

\* A reader of the SARIF log and a reader of the exit code come to the same verdict: some result, and
\* some rule, is an error exactly when the candidate was rejected.
SarifAgrees ==
  phase # "editing" /\ report # NoReport =>
    LET rejected == CASE report.command = "check" -> ~report.passed
                      [] report.command = "diff"  -> FALSE
                      [] OTHER -> ~report.valid
    IN  /\ (\E x \in resultsFor(report) : x[2] = "error") = rejected
        /\ (\E x \in SarifRules(report) : x[2] = "error") = rejected

\* Whoever reads the exit code and whoever reads the log is told the same, and it is true.
ReportIsSound == GateIsSound /\ SarifAgrees
===============================================================================
