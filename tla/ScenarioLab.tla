------------------------------- MODULE ScenarioLab -------------------------------
(***************************************************************************)
(* The Scenario Lab of the editor (ScenarioLabDialog.tsx) with the engine  *)
(* behind it (scenario-lab.ts) and the presets that it keeps in            *)
(* localStorage (scenario-presets.ts): two scenarios are run on the draft, *)
(* or each of them on a published version and on the draft, and compared.  *)
(*                                                                         *)
(* While the dialog is open the draft changes under it (undo works from    *)
(* the keyboard), versions are published and presets written by another    *)
(* tab, and lists and snapshots are loaded.  The run of one scenario is    *)
(* given: it is what Simulator describes.                                  *)
(***************************************************************************)
EXTENDS Integers, Sequences, FiniteSets, SequencesExt

CONSTANTS
  Definitions,    \* of the draft: [nodes, triggers, failable, decisions: sets; edges: id -> source]
  Plan(_, _),     \* the outcome of a scenario on a definition: [status, path, duration, events]
  Names, Inputs,  \* what the fields hold; "" and "bad" are refused, as too long or as no object of JSON
  MAX_SCENARIO_PRESETS,
  MaxChanges, MaxVersions, MaxOthers     \* bounds: changes to the forms with new presets, versions, steps of others

VARIABLES
  draft,          \* document.definition
  published,      \* the versions on the server, newest first: their definitions; a version is its number
  stored,         \* the presets in localStorage, newest first: [id, a, b]
  open, mode,     \* the dialog and its tab, "scenarios" or "versions"
  forms,          \* scenarioA and scenarioB
  versions,       \* the numbers that versionsQuery has loaded, newest first
  snapshots,      \* number -> "ready" or "failed": what snapshotQuery came to
  selectedVersion,    \* 0 when there is none
  result,         \* LabResult, or NoResult
  presets, selectedPreset,    \* the list as the dialog has it; 0 when none is selected
  changes, others, lastPreset     \* counters: of the bounds, and the last id of a preset

vars == <<draft, published, stored, open, mode, forms, versions, snapshots, selectedVersion, result, presets, selectedPreset,
          changes, others, lastPreset>>
lists  == <<versions, snapshots>>
saving == <<stored, presets, selectedPreset, lastPreset>>
world  == <<draft, published, others>>

NoResult == [kind |-> "none"]

-------------------------------------------------------------------------------
(* The forms, and the runs of what is in them                              *)

\* What the fields of a form can hold: what is offered for some draft, and "" for nothing.
Forms ==
  [name : Names \cup {"base", "alternative"}, input : Inputs \cup {"default"},
   triggerId    : {""} \cup UNION {d.triggers : d \in Definitions},
   failedNodeId : {""} \cup UNION {d.failable : d \in Definitions},
   forcedNodeId : {""} \cup UNION {d.decisions : d \in Definitions},
   forcedEdgeId : {""} \cup UNION {DOMAIN d.edges : d \in Definitions}]

parseScenario(form) ==
  [name |-> form.name, input |-> form.input, triggerId |-> form.triggerId,
   failed |-> {form.failedNodeId} \ {""},
   forced |-> IF "" \in {form.forcedNodeId, form.forcedEdgeId} THEN {} ELSE {<<form.forcedNodeId, form.forcedEdgeId>>}]

Scenarios == {parseScenario(form) : form \in Forms}

\* createSimulationPlan throws when no trigger is named and there are several, or when the named
\* one is no trigger of this definition: of the version, for the draft has been asked already.
Runs(def, scenario) ==
  IF scenario.triggerId = "" THEN Cardinality(def.triggers) = 1 ELSE scenario.triggerId \in def.triggers

\* What the engine says of a run, whatever it is.
IsOutcome(o) ==
  /\ o = [status |-> o.status, path |-> o.path, duration |-> o.duration, events |-> o.events]
  /\ o.path \in Seq(ToSet(o.path))

ASSUME LabAssumption ==
  /\ \A def \in Definitions, scenario \in Scenarios : Runs(def, scenario) => IsOutcome(Plan(def, scenario))
  /\ MAX_SCENARIO_PRESETS \in Nat \ {0}
  /\ MaxChanges \in Nat /\ MaxVersions \in Nat /\ MaxOthers \in Nat

\* defaultInput gives the variables their defaults: a valid input.
initialForm(name) ==
  [name |-> name, input |-> "default", triggerId |-> "", failedNodeId |-> "", forcedNodeId |-> "", forcedEdgeId |-> ""]

Init ==
  /\ draft \in Definitions /\ published \in {<<>>, <<draft>>} /\ stored = <<>>
  /\ open = FALSE /\ mode = "scenarios"
  /\ forms = [A |-> initialForm("base"), B |-> initialForm("alternative")]
  /\ versions = <<>> /\ snapshots = [v \in {} |-> ""] /\ selectedVersion = 0
  /\ result = NoResult /\ presets = <<>> /\ selectedPreset = 0
  /\ changes = 0 /\ others = 0 /\ lastPreset = 0

-------------------------------------------------------------------------------
(* Scenarios and their comparison                                          *)

\* parseScenario throws.
Refused(form, def) ==
  \/ form.name = "" \/ form.input = "bad"
  \/ form.triggerId # "" /\ form.triggerId \notin def.triggers
  \/ form.failedNodeId # "" /\ form.failedNodeId \notin def.nodes
  \/ form.forcedNodeId # "" /\ ~(form.forcedEdgeId \in DOMAIN def.edges /\ def.edges[form.forcedEdgeId] = form.forcedNodeId)

WithoutRoute(scenario) ==       \* mutant: the forced route is not read back
  [name |-> scenario.name, input |-> scenario.input, triggerId |-> scenario.triggerId,
   failedNodeId |-> IF scenario.failed = {} THEN "" ELSE CHOOSE n \in scenario.failed : TRUE,
   forcedNodeId |-> "", forcedEdgeId |-> ""]

formFromScenario(scenario) ==
  LET forced == IF scenario.forced = {} THEN <<"", "">> ELSE CHOOSE f \in scenario.forced : TRUE
  IN  [name |-> scenario.name, input |-> scenario.input, triggerId |-> scenario.triggerId,
       failedNodeId |-> IF scenario.failed = {} THEN "" ELSE CHOOSE n \in scenario.failed : TRUE,
       forcedNodeId |-> forced[1], forcedEdgeId |-> forced[2]]

outcomeRank(status) == CASE status = "completed" -> 2 [] status = "cancelled" -> 1 [] OTHER -> 0

\* The index of the first difference, 0 when there is none.
firstDivergence(p, q) ==
  LET longest == IF Len(p) > Len(q) THEN Len(p) ELSE Len(q)
      differ  == {i \in 1..longest : i > Len(p) \/ i > Len(q) \/ (i <= Len(p) /\ i <= Len(q) /\ p[i] # q[i])}
  IN  IF differ = {} THEN 0 ELSE CHOOSE i \in differ : \A j \in differ : i <= j

Verdict(baseline, candidate) ==
  LET delta   == outcomeRank(candidate.status) - outcomeRank(baseline.status)
      changed == \/ baseline.status # candidate.status
                 \/ firstDivergence(baseline.path, candidate.path) # 0
                 \/ candidate.duration # baseline.duration
                 \/ candidate.events # baseline.events
  IN  CASE delta < 0 -> "regression"
        [] delta > 0 -> "improvement"
        [] OTHER -> IF changed THEN "changed" ELSE "unchanged"

compareScenarioOutcomes(baseline, candidate) ==
  [baseline |-> baseline, candidate |-> candidate, verdict |-> Verdict(baseline, candidate),
   divergence |-> firstDivergence(baseline.path, candidate.path),
   added   |-> ToSet(candidate.path) \ ToSet(baseline.path),
   removed |-> ToSet(baseline.path) \ ToSet(candidate.path)]

compareScenarios(def, a, b) == <<compareScenarioOutcomes(Plan(def, a), Plan(def, b))>>

compareFlowVariants(old, new, scenarios) ==
  [i \in DOMAIN scenarios |-> compareScenarioOutcomes(Plan(old, scenarios[i]), Plan(new, scenarios[i]))]

-------------------------------------------------------------------------------
(* The dialog                                                              *)

\* The effect that keeps the selected version one of the list; it runs after every change of the
\* tab, of the list or of the selection.
Selection(tab, list, selected) ==
  IF tab = "versions" /\ selected \notin ToSet(list) THEN (IF list = <<>> THEN 0 ELSE list[1]) ELSE selected

listScenarioPresets(store) == SubSeq(store, 1, IF Len(store) < MAX_SCENARIO_PRESETS THEN Len(store) ELSE MAX_SCENARIO_PRESETS)

OpenLab ==
  /\ ~open /\ open' = TRUE
  /\ result' = NoResult /\ presets' = listScenarioPresets(stored)
  /\ UNCHANGED <<world, stored, mode, forms, lists, selectedVersion, selectedPreset, changes, lastPreset>>

\* The forms, the tab and the selections stay as they are.
CloseLab ==
  /\ open /\ open' = FALSE
  /\ UNCHANGED <<world, saving, mode, forms, lists, selectedVersion, result, changes>>

SelectMode ==
  /\ open
  /\ \E m \in {"scenarios", "versions"} \ {mode} :
       mode' = m /\ selectedVersion' = Selection(m, versions, selectedVersion)
  /\ result' = NoResult
  /\ UNCHANGED <<world, saving, open, forms, lists, changes>>

\* What ScenarioEditor offers for a field (no trigger, end or group is to fail); another decision forgets the route.
Offered(field, form) ==
  CASE field = "name"  -> Names
    [] field = "input" -> Inputs
    [] field = "triggerId"    -> IF Cardinality(draft.triggers) > 1 THEN draft.triggers \cup {""} ELSE {}
    [] field = "failedNodeId" -> draft.failable \cup {""}
    [] field = "forcedNodeId" -> draft.decisions \cup {""}
    [] field = "forcedEdgeId" -> IF form.forcedNodeId = "" THEN {}
                                 ELSE {e \in DOMAIN draft.edges : draft.edges[e] = form.forcedNodeId} \cup {""}

Changed(form, field, value) ==
  IF field = "forcedNodeId" THEN [form EXCEPT !.forcedNodeId = value, !.forcedEdgeId = ""] ELSE [form EXCEPT ![field] = value]

KeepResult == UNCHANGED result      \* mutant: the result outlives a change of the forms
ClearResult == result' = NoResult

ChangeForm ==
  /\ open /\ changes + lastPreset < MaxChanges /\ changes' = changes + 1
  /\ \E side \in {"A", "B"}, field \in DOMAIN forms.A :
       \E value \in Offered(field, forms[side]) \ {forms[side][field]} :
         forms' = [forms EXCEPT ![side] = Changed(@, field, value)]
  /\ ClearResult
  /\ UNCHANGED <<world, saving, open, mode, lists, selectedVersion>>

ChooseVersion ==
  /\ open /\ mode = "versions"
  /\ \E v \in ToSet(versions) \ {selectedVersion} : selectedVersion' = v
  /\ ClearResult
  /\ UNCHANGED <<world, saving, open, mode, forms, lists, changes>>

\* versionsQuery answers.
VersionsLoaded ==
  /\ open /\ mode = "versions"
  /\ versions' = Reverse([v \in DOMAIN published |-> v])
  /\ selectedVersion' = Selection(mode, versions', selectedVersion)
  /\ UNCHANGED <<world, saving, open, mode, forms, snapshots, result, changes>>

\* snapshotQuery answers for the version that is selected; a version never changes, and what has
\* been loaded once is kept.
SnapshotLoaded ==
  /\ open /\ mode = "versions" /\ selectedVersion # 0
  /\ selectedVersion \in DOMAIN snapshots => snapshots[selectedVersion] = "failed"
  /\ \E outcome \in {"ready", "failed"} :
       snapshots' = [v \in DOMAIN snapshots \cup {selectedVersion} |-> IF v = selectedVersion THEN outcome ELSE snapshots[v]]
  /\ UNCHANGED <<world, saving, open, mode, forms, versions, selectedVersion, result, changes>>

CanCompare == mode = "scenarios" \/ selectedVersion \in DOMAIN snapshots

\* What executeComparison makes of the forms: a result, or an error in its place.
Compared ==
  LET a == parseScenario(forms.A)
      b == parseScenario(forms.B)
      invalid == \E side \in {"A", "B"} : Refused(forms[side], draft)
      Report(cases, version) == [kind |-> mode, a |-> a, b |-> b, version |-> version, cases |-> cases]
  IN  IF invalid \/ ~Runs(draft, a) \/ ~Runs(draft, b) THEN NoResult
      ELSE IF mode = "scenarios" THEN Report(compareScenarios(draft, a, b), 0)
      ELSE LET old == published[selectedVersion]
           IN  IF snapshots[selectedVersion] = "failed" \/ ~Runs(old, a) \/ ~Runs(old, b) THEN NoResult
               ELSE Report(compareFlowVariants(old, draft, <<a, b>>), selectedVersion)

executeComparison ==
  /\ open /\ CanCompare /\ result' = Compared
  /\ UNCHANGED <<world, saving, open, mode, forms, lists, selectedVersion, changes>>

\* The filter that both deleting and saving apply to what they have read.
Without(store, id) ==
  LET list == listScenarioPresets(store)
      kept[n \in 0..Len(list)] == IF n = 0 THEN <<>> ELSE IF list[n].id = id THEN kept[n - 1] ELSE Append(kept[n - 1], list[n])
  IN  kept[Len(list)]

\* saveScenarioPreset: read, replace the preset of that id, cut, write.
Kept(store, preset) == listScenarioPresets(<<preset>> \o Without(store, preset.id))

savePreset ==
  /\ open /\ \A side \in {"A", "B"} : ~Refused(forms[side], draft)
  /\ LET id == IF selectedPreset # 0 THEN selectedPreset ELSE lastPreset + 1
     IN  /\ stored' = Kept(stored, [id |-> id, a |-> parseScenario(forms.A), b |-> parseScenario(forms.B)])
         /\ id <= lastPreset \/ changes + lastPreset < MaxChanges
         /\ selectedPreset' = id /\ lastPreset' = IF id > lastPreset THEN id ELSE lastPreset
  /\ presets' = listScenarioPresets(stored')
  /\ UNCHANGED <<world, open, mode, forms, lists, selectedVersion, result, changes>>

choosePreset ==
  /\ open
  /\ \E id \in ({p.id : p \in ToSet(presets)} \cup {0}) \ {selectedPreset} : selectedPreset' = id
  /\ UNCHANGED <<world, stored, presets, lastPreset, open, mode, forms, lists, selectedVersion, result, changes>>

loadPreset ==
  /\ open
  /\ \E p \in ToSet(presets) :
       p.id = selectedPreset /\ forms' = [A |-> formFromScenario(p.a), B |-> formFromScenario(p.b)]
  /\ ClearResult
  /\ UNCHANGED <<world, saving, open, mode, lists, selectedVersion, changes>>

removePreset ==
  /\ open /\ selectedPreset # 0
  /\ stored' = Without(stored, selectedPreset) /\ presets' = listScenarioPresets(stored') /\ selectedPreset' = 0
  /\ UNCHANGED <<world, lastPreset, open, mode, forms, lists, selectedVersion, result, changes>>

\* A plan of the result is handed to the editor's startSimulation (Editor), and the dialog closes.
replay == result # NoResult /\ CloseLab

-------------------------------------------------------------------------------
(* What goes on around the dialog                                          *)

Around == others < MaxOthers /\ others' = others + 1
          /\ UNCHANGED <<open, mode, forms, lists, selectedVersion, result, presets, selectedPreset, changes>>

EditDraft == Around /\ draft' \in Definitions \ {draft} /\ UNCHANGED <<published, stored, lastPreset>>

PublishDraft ==
  /\ Around /\ Len(published) < MaxVersions
  /\ published' = Append(published, draft) /\ UNCHANGED <<draft, stored, lastPreset>>

\* Another tab has the same flow open: it saves a preset of its own or deletes one.
OtherTab ==
  /\ Around /\ UNCHANGED <<draft, published>>
  /\ \/ /\ stored' = Kept(stored, [id |-> lastPreset + 1, a |-> parseScenario(initialForm("base")),
                                   b |-> parseScenario(initialForm("alternative"))])
        /\ lastPreset' = lastPreset + 1
     \/ /\ \E p \in ToSet(stored) : stored' = Without(stored, p.id)
        /\ UNCHANGED lastPreset

Next ==
  \/ OpenLab \/ CloseLab \/ SelectMode \/ ChangeForm \/ ChooseVersion \/ VersionsLoaded \/ SnapshotLoaded
  \/ executeComparison \/ savePreset \/ choosePreset \/ loadPreset \/ removePreset \/ replay
  \/ EditDraft \/ PublishDraft \/ OtherTab

Spec == Init /\ [][Next]_vars

-------------------------------------------------------------------------------
\* The result on the screen is the comparison that the screen asks for: of the two scenarios in the
\* forms, on the tab that is shown, and of the version that is selected.  It goes when one changes.
ResultIsOfTheForms ==
  result # NoResult =>
    /\ result.kind = mode /\ result.a = parseScenario(forms.A) /\ result.b = parseScenario(forms.B)
    /\ mode = "versions" => result.version = selectedVersion

\* A verdict is fair: with the sides exchanged a regression is an improvement and the other verdicts
\* stay; a candidate that completes is no regression; "unchanged" means the same path to the same end.
VerdictIsFair ==
  result # NoResult =>
    \A i \in DOMAIN result.cases :
      LET c == result.cases[i]
          mirrored == Verdict(c.candidate, c.baseline)
      IN  /\ (c.verdict = "regression") = (mirrored = "improvement")
          /\ (c.verdict = "unchanged") = (mirrored = "unchanged")
          /\ c.verdict = "regression" => c.candidate.status # "completed"
          /\ c.verdict = "unchanged" => c.baseline = c.candidate /\ c.divergence = 0 /\ c.added \cup c.removed = {}

\* The comparison on the screen can be relied on.
ComparisonIsSound == ResultIsOfTheForms /\ VerdictIsFair

\* Saving never costs a preset but the oldest one of a full store, and what is saved from the forms
\* comes back into the forms, whatever other tabs wrote in between.
PresetsAreKept ==
  [][/\ \A p \in ToSet(stored) :
            \/ \E q \in ToSet(stored') : q.id = p.id
            \/ Len(stored') < Len(stored)               \* p was deleted
            \/ Len(stored) = MAX_SCENARIO_PRESETS /\ p = Last(stored)
     /\ loadPreset => \E p \in ToSet(presets) :
            p.id = selectedPreset /\ p.a = parseScenario(forms'.A) /\ p.b = parseScenario(forms'.B)]_vars
===============================================================================
