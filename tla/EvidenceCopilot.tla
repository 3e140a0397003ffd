---------------------------- MODULE EvidenceCopilot ----------------------------
(***************************************************************************)
(* The copilot of the editor (EvidenceCopilotDialog.tsx, copilot-service)  *)
(* and the Time Machine that it opens on a run (IncidentTimeMachineDialog, *)
(* incident-service): questions are answered with evidence, an answer has  *)
(* actions on the draft and on the run, and a report is played frame by    *)
(* frame while the run goes on and the report is fetched again.            *)
(*                                                                         *)
(* A part is a node or a connection.  React runs the effects of a change   *)
(* in the task of the change, so they are part of the action.              *)
(***************************************************************************)
EXTENDS Integers, Sequences, FiniteSets, SequencesExt

CONSTANTS
  Parts, Runs,
  Plans,          \* run -> the events it stores, in order
  MaxAsks, MaxChanges,    \* bounds: questions asked, changes of the draft
  None

\* An answer: the question, the parts that are evidence, the run that was asked about, and the
\* runs that actions name.
Answers == [question : Nat, parts : SUBSET Parts, run : Runs \cup {None}, runs : SUBSET Runs]

ASSUME CopilotAssumption ==
  /\ None \notin Parts \cup Runs \cup Nat \cup Answers
  /\ \A r \in Runs : Plans[r] \in Seq(ToSet(Plans[r]))
  /\ MaxAsks \in Nat /\ MaxChanges \in Nat

VARIABLES
  draft, selected,    \* the parts of the draft, and the one selected in the editor
  currentRun,         \* remoteRunId
  log,                \* run -> number of events that the server has stored
  open, contextRun,   \* the dialog and its form: contextRun is selectedRunId
  asking,             \* the requests under way: loading is that there is one
  answer,             \* response, with the number of the question it answers, or None
  failed,             \* an error is shown for the last question
  asked,              \* history: questions asked; a question is its number
  changes,
  incidentRun,        \* the run the Time Machine is open on, or None
  reports,            \* run -> frames of the report in the query cache; None before the first
  unreadable,         \* runs whose last fetch failed: the dialog offers a retry only
  selectedIndex, playing    \* the frame, 0 for none, and the transport

editor  == <<draft, selected, currentRun, changes>>
form    == <<open, contextRun>>
dialog  == <<asking, answer, failed, asked>>
machine == <<incidentRun, reports, unreadable, selectedIndex, playing>>
vars    == <<editor, log, form, dialog, machine>>

Incident == INSTANCE Incident

loading == asking # {}

\* The timeline of a run as a report of n frames has it; empty while there is none.
TimelineOf(run, n) == IF run = None \/ n = None THEN <<>> ELSE SubSeq(Plans[run], 1, n)
Timeline == TimelineOf(incidentRun, IF incidentRun = None THEN None ELSE reports[incidentRun])

Init ==
  /\ draft = Parts /\ selected = None /\ currentRun = None /\ changes = 0
  /\ log = [r \in Runs |-> 0]
  /\ open = FALSE /\ contextRun = None
  /\ asking = {} /\ answer = None /\ failed = FALSE /\ asked = 0
  /\ incidentRun = None /\ reports = [r \in Runs |-> None] /\ unreadable = {}
  /\ selectedIndex = 0 /\ playing = FALSE

-------------------------------------------------------------------------------
(* The selection follows the frame.                                        *)

\* onSelectNode as the copilot gives it: a part that is gone is not selected.
Choose(part, parts, was) == IF part \in parts THEN part ELSE was

\* The selection once the frame at index is shown.
Follow(timeline, index, parts, was) ==
  IF index \in 1..Len(timeline) /\ timeline[index].node # None
  THEN Choose(timeline[index].node, parts, was) ELSE was

\* The frame at index is shown.
Show(index) ==
  /\ selectedIndex' = index
  /\ selected' = Follow(Timeline, index, draft, selected)

\* Another report is there: it opens at its root cause, and first shows, for one commit, the
\* frame at the index that was left.
Rewind(timeline) ==
  /\ selectedIndex' = Incident!InitialFrameIndex(timeline)
  /\ playing' = FALSE
  /\ selected' = Follow(timeline, selectedIndex', draft, Follow(timeline, selectedIndex, draft, selected))

-------------------------------------------------------------------------------
(* The world around the dialogs.                                           *)

\* Undo and redo work from the keyboard under a dialog; they clear the selection, and the
\* render that follows selects the node of the frame again.  Other changes of the draft take no
\* dialog, and leave the selection unless it is deleted.
ChangeDraft == \E d \in SUBSET Parts :
  /\ changes < MaxChanges /\ changes' = changes + 1
  /\ d # draft /\ draft' = d
  /\ \E kept \in {None} \cup (IF open \/ incidentRun # None THEN {} ELSE {selected} \cap d) :
       selected' = Follow(Timeline, selectedIndex, d, kept)
  /\ UNCHANGED <<currentRun, log, form, dialog, machine>>

\* A run is new when it is started.
StartRun == \E r \in Runs \ {currentRun} :
  /\ ~open /\ incidentRun = None
  /\ log[r] = 0 /\ currentRun' = r
  /\ UNCHANGED <<draft, selected, changes, log, form, dialog, machine>>

\* Only a run that was started stores events.
StoreEvent == \E r \in {currentRun} \cap Runs :
  /\ log[r] < Len(Plans[r]) /\ log' = [log EXCEPT ![r] = @ + 1]
  /\ UNCHANGED <<editor, form, dialog, machine>>

-------------------------------------------------------------------------------
(* Questions.                                                              *)

Open ==
  /\ ~open /\ incidentRun = None
  /\ open' = TRUE /\ contextRun' = currentRun
  /\ UNCHANGED <<editor, log, dialog, machine>>

Close ==
  /\ open /\ open' = FALSE
  /\ UNCHANGED <<contextRun, editor, log, dialog, machine>>

\* mutant: the form is not disabled while a question is under way
FormAlways  == open
FormEnabled == open /\ ~loading

ChooseRun == \E r \in {None, currentRun} :
  /\ FormEnabled /\ contextRun' = r
  /\ UNCHANGED <<open, editor, log, dialog, machine>>

Ask ==
  /\ FormEnabled /\ asked < MaxAsks
  /\ asked' = asked + 1
  /\ asking' = asking \cup {[question |-> asked + 1, run |-> contextRun]}
  /\ failed' = FALSE
  /\ UNCHANGED <<answer, form, editor, log, machine>>

\* An action is accepted when what it names is in the evidence of the same answer; the run of
\* the evidence is the one asked about.
actionIsGrounded(request, evidence, parts, runs) == parts \subseteq evidence /\ runs \subseteq {request.run}

\* The provider answers with what it likes; an answer that is not grounded is an error.
Answered == \E request \in asking : \E evidence, parts \in SUBSET Parts, runs \in SUBSET Runs :
  /\ asking' = asking \ {request}
  /\ IF actionIsGrounded(request, evidence, parts, runs)
     THEN answer' = [question |-> request.question, parts |-> evidence, run |-> request.run, runs |-> runs]
          /\ UNCHANGED failed
     ELSE failed' = TRUE /\ UNCHANGED answer
  /\ UNCHANGED <<asked, form, editor, log, machine>>

RequestFails == \E request \in asking :
  /\ asking' = asking \ {request} /\ failed' = TRUE
  /\ UNCHANGED <<answer, asked, form, editor, log, machine>>

\* An answer is hidden while the next one is awaited.
Readable == open /\ ~loading /\ answer # None

\* A part that is gone is told of, and the dialog stays.
InspectPart == \E p \in Parts :
  /\ Readable /\ p \in answer.parts /\ p \in draft
  /\ selected' = p /\ open' = FALSE
  /\ UNCHANGED <<contextRun, draft, currentRun, changes, log, dialog, machine>>

OpenIncident == \E r \in Runs :
  /\ Readable /\ r \in answer.runs
  /\ incidentRun' = r /\ open' = FALSE
  /\ IF reports[r] = None THEN UNCHANGED <<selectedIndex, playing, selected>>
     ELSE Rewind(TimelineOf(r, reports[r]))
  /\ UNCHANGED <<contextRun, draft, currentRun, changes, reports, unreadable, log, dialog>>

-------------------------------------------------------------------------------
(* The Time Machine.                                                       *)

\* A report equal to the one in the cache is the same object, and resets nothing.
Fetch == \E r \in Runs \cap {incidentRun} :
  /\ unreadable' = unreadable \ {r}
  /\ IF reports[r] = log[r] THEN r \in unreadable /\ UNCHANGED <<reports, selectedIndex, playing, selected>>
     ELSE reports' = [reports EXCEPT ![r] = log[r]] /\ Rewind(TimelineOf(r, log[r]))
  /\ UNCHANGED <<incidentRun, draft, currentRun, changes, form, dialog, log>>

FetchFails == \E r \in Runs \cap {incidentRun} :
  /\ r \notin unreadable /\ unreadable' = unreadable \cup {r}
  /\ UNCHANGED <<incidentRun, reports, selectedIndex, playing, editor, form, dialog, log>>

\* The frames, and what is pressed, are shown while the last fetch came to something.
Transport == incidentRun \notin unreadable /\ selectedIndex \in 1..Len(Timeline)
StillHere == UNCHANGED <<incidentRun, reports, unreadable, draft, currentRun, changes, form, dialog, log>>

NavigateTo == \E i \in 1..Len(Timeline) :
  /\ Transport /\ i # selectedIndex
  /\ playing' = FALSE /\ Show(i) /\ StillHere

TogglePlay ==
  /\ Transport
  /\ IF playing THEN playing' = FALSE /\ UNCHANGED <<selectedIndex, selected>>
     ELSE /\ Show(IF selectedIndex = Len(Timeline) THEN 1 ELSE selectedIndex)
          /\ playing' = (selectedIndex' < Len(Timeline))
  /\ StillHere

PlayRound ==      \* mutant: in place of the last frame the first one is shown
  /\ playing /\ Show(IF selectedIndex + 1 < Len(Timeline) THEN selectedIndex + 1 ELSE 1) /\ UNCHANGED playing /\ StillHere

\* The timer of 800 ms; at the last frame the transport stops.
PlayTick ==
  /\ playing /\ selectedIndex \in 1..(Len(Timeline) - 1)
  /\ Show(selectedIndex + 1) /\ playing' = (selectedIndex' < Len(Timeline)) /\ StillHere

\* The button of a visit selects its node; the render that follows selects that of the frame.
SelectVisit ==
  /\ Transport
  /\ \E v \in Range(Incident!Reconstruct(Timeline, selectedIndex).nodeVisits) :
       selected' = Follow(Timeline, selectedIndex, draft, Choose(v.node, draft, selected))
  /\ UNCHANGED <<selectedIndex, playing>> /\ StillHere

CloseMachine ==
  /\ incidentRun # None /\ incidentRun' = None /\ playing' = FALSE
  /\ UNCHANGED <<reports, unreadable, selectedIndex, editor, form, dialog, log>>

Next ==
  \/ ChangeDraft \/ StartRun \/ StoreEvent
  \/ Open \/ Close \/ ChooseRun \/ Ask \/ Answered \/ RequestFails \/ InspectPart \/ OpenIncident
  \/ Fetch \/ FetchFails \/ NavigateTo \/ TogglePlay \/ PlayTick \/ SelectVisit \/ CloseMachine

Spec == Init /\ [][Next]_vars

\* The timer fires.
FairSpec == Spec /\ WF_vars(PlayTick)

-------------------------------------------------------------------------------
(* Properties.                                                             *)

\* Once nothing is awaited and no error is shown, the answer is that of the last question asked,
\* whatever was opened and closed meanwhile (ask awaits with the dialog usable).
AnswerIsOfTheQuestion ==
  ~loading /\ ~failed /\ asked > 0 => answer # None /\ answer.question = asked

\* What an answer or a report leads to is there: the selected part is in the draft although it
\* changes under both dialogs, and the run that is opened is the one whose evidence was read.
ActionsAreGrounded ==
  /\ selected \in draft \cup {None}
  /\ incidentRun # None => answer # None /\ incidentRun = answer.run

\* The answer and what it leads to are those of the question.
AdviceIsGrounded == AnswerIsOfTheQuestion /\ ActionsAreGrounded

\* The frame shown is one of the report shown, and the transport is not left on at its end,
\* though reports grow, fail and are replaced by those of other runs.
FrameIsOfTheReport ==
  /\ Timeline # <<>> => selectedIndex \in 1..Len(Timeline)
  /\ playing => selectedIndex < Len(Timeline)

\* Playing stops, whatever is fetched or pressed meanwhile (the timer is set again by each frame).
PlaybackSettles == playing ~> ~playing

\* The transport of the Time Machine stays within its report and comes to rest.
TransportSettles == []FrameIsOfTheReport /\ PlaybackSettles
===============================================================================
