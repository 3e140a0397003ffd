------------------------- MODULE EvidenceCopilotProofs -------------------------
(***************************************************************************)
(* Proofs about the copilot and the Time Machine, for any parts, runs and  *)
(* plans, any number of questions and any provider.                        *)
(***************************************************************************)
EXTENDS EvidenceCopilot, SequenceTheorems, WellFoundedInduction, TLAPS

TypeOK ==
  /\ draft \subseteq Parts /\ currentRun \in Runs \cup {None} /\ contextRun \in Runs \cup {None}
  /\ log \in [Runs -> Nat] /\ \A r \in Runs : log[r] <= Len(Plans[r])
  /\ asked \in Nat /\ answer \in Answers \cup {None}
  /\ reports \in [Runs -> Nat \cup {None}] /\ \A r \in Runs : reports[r] # None => reports[r] <= log[r]
  /\ incidentRun \in Runs \cup {None} /\ selectedIndex \in Nat

\* One question is under way, the last one asked, and only while the dialog may be open.
AskInv ==
  /\ \A q \in asking : q.question = asked /\ q.run \in Runs \cup {None}
  /\ \A q, r \in asking : q = r
  /\ incidentRun # None => ~open /\ asking = {}

\* The actions of an answer were accepted: they name the run that was asked about.
AnswerInv == answer # None => answer.runs \subseteq {answer.run}

IInv == TypeOK /\ AskInv /\ AnswerInv /\ AnswerIsOfTheQuestion /\ ActionsAreGrounded /\ FrameIsOfTheReport

-------------------------------------------------------------------------------
(* Timelines.                                                              *)

\* A set of numbers that is not empty has a least one.
LEMMA LeastNumber ==
  ASSUME NEW T \in SUBSET Nat, T # {}
  PROVE  \E n \in T : \A m \in T : n <= m
<1>1. PICK n \in T : \A m \in T : <<m, n>> \notin OpToRel(<, Nat)
  BY NatLessThanWellFounded, WFMin, Zenon
<1>2. \A m \in T : ~(m < n)
  BY <1>1 DEF OpToRel
<1> QED
  BY <1>2

\* A report opens at one of its frames.
LEMMA OpensWithin ==
  ASSUME NEW S, NEW timeline \in Seq(S)
  PROVE  /\ Incident!InitialFrameIndex(timeline) \in 0..Len(timeline)
         /\ timeline # <<>> => Incident!InitialFrameIndex(timeline) \in 1..Len(timeline)
<1> DEFINE fails == {i \in 1..Len(timeline) : timeline[i].type \in Incident!Failures}
           root   == IF fails = {} THEN 0 ELSE Incident!Min(fails)
<1>1. Len(timeline) \in Nat /\ (timeline # <<>> => Len(timeline) > 0)
  OBVIOUS
<1>2. fails # {} => Incident!Min(fails) \in fails
  <2> SUFFICES ASSUME fails # {} PROVE Incident!Min(fails) \in fails
    OBVIOUS
  <2>1. fails \in SUBSET Nat
    BY <1>1
  <2> HIDE DEF fails
  <2>2. \E n \in fails : \A m \in fails : n <= m
    BY <2>1, LeastNumber, Zenon
  <2> QED
    BY <2>2 DEF Incident!Min
<1>3. Incident!InitialFrameIndex(timeline) = IF root > 0 THEN root ELSE Len(timeline)
  BY DEF Incident!InitialFrameIndex, Incident!RootCause
<1>4. root \in 0..Len(timeline)
  BY <1>1, <1>2
<1> HIDE DEF root
<1> QED
  BY <1>1, <1>3, <1>4

\* The timeline of a report of n frames has them.
LEMMA TimelineHas ==
  ASSUME NEW r \in Runs, NEW n \in Nat, n <= Len(Plans[r])
  PROVE  TimelineOf(r, n) \in Seq(ToSet(Plans[r])) /\ Len(TimelineOf(r, n)) = n
<1>1. Plans[r] \in Seq(ToSet(Plans[r])) /\ r # None /\ n # None
  BY CopilotAssumption
<1>2. \A i \in 1..n : Plans[r][i] \in ToSet(Plans[r])
  BY <1>1, ElementOfSeq
<1>3. TimelineOf(r, n) = SubSeq(Plans[r], 1, n)
  BY <1>1 DEF TimelineOf
<1>4. 1 \in Int /\ n \in Int /\ (IF 1 <= n THEN n - 1 + 1 ELSE 0) = n
  OBVIOUS
<1> QED
  BY <1>2, <1>3, <1>4, SubSeqProperties

\* The report that is open, if there is one.
LEMMA TimelineShown ==
  ASSUME TypeOK
  PROVE  /\ Len(Timeline) \in Nat /\ (Timeline # <<>> <=> Len(Timeline) > 0)
         /\ incidentRun = None => Timeline = <<>>
         /\ incidentRun # None /\ reports[incidentRun] = None => Timeline = <<>>
         /\ incidentRun # None /\ reports[incidentRun] # None => Len(Timeline) = reports[incidentRun]
<1>1. CASE incidentRun = None
  <2>1. Timeline = <<>>
    BY <1>1 DEF Timeline, TimelineOf
  <2> QED
    BY <1>1, <2>1
<1>2. CASE incidentRun # None /\ reports[incidentRun] = None
  <2>1. Timeline = <<>>
    BY <1>2 DEF Timeline, TimelineOf
  <2> QED
    BY <1>2, <2>1
<1>3. CASE incidentRun # None /\ reports[incidentRun] # None
  <2>1. incidentRun \in Runs /\ reports[incidentRun] \in Nat /\ log[incidentRun] \in Nat
        /\ reports[incidentRun] <= log[incidentRun] /\ log[incidentRun] <= Len(Plans[incidentRun])
    BY <1>3 DEF TypeOK
  <2>2. Len(Plans[incidentRun]) \in Nat
    BY <2>1, CopilotAssumption
  <2>3. reports[incidentRun] <= Len(Plans[incidentRun])
    BY <2>1, <2>2
  <2>4. Timeline \in Seq(ToSet(Plans[incidentRun])) /\ Len(Timeline) = reports[incidentRun]
    BY <1>3, <2>1, <2>3, TimelineHas DEF Timeline
  <2> QED
    BY <1>3, <2>4
<1> QED
  BY <1>1, <1>2, <1>3

\* The selection follows a frame to a part of the draft.
LEMMA FollowsDraft ==
  ASSUME NEW timeline, NEW index, NEW parts, NEW was \in parts \cup {None}
  PROVE  Follow(timeline, index, parts, was) \in parts \cup {None}
BY DEF Follow, Choose

\* A report of n frames that is opened shows one of them, and nothing plays.
LEMMA RewindsWithin ==
  ASSUME ActionsAreGrounded, NEW r \in Runs, NEW n \in Nat, n <= Len(Plans[r]), Rewind(TimelineOf(r, n)), draft' = draft
  PROVE  /\ selectedIndex' \in 0..n /\ (n > 0 => selectedIndex' \in 1..n) /\ ~playing'
         /\ selected' \in draft' \cup {None}
<1>1. TimelineOf(r, n) \in Seq(ToSet(Plans[r])) /\ Len(TimelineOf(r, n)) = n
  BY TimelineHas
<1>2. TimelineOf(r, n) # <<>> <=> n > 0
  BY <1>1
<1>3. selected \in draft \cup {None}
  BY DEF ActionsAreGrounded
<1>4. selectedIndex' = Incident!InitialFrameIndex(TimelineOf(r, n)) /\ playing' = FALSE
  BY DEF Rewind
<1>5. selected' \in draft \cup {None}
  BY <1>3, FollowsDraft DEF Rewind
<1> QED
  BY <1>1, <1>2, <1>4, <1>5, OpensWithin

-------------------------------------------------------------------------------
(* The steps.                                                              *)

\* Every action keeps the types, and no report has more frames than the server has stored events.
LEMMA TypeStep ==
  ASSUME IInv, [Next]_vars
  PROVE  TypeOK'
<1>1. TypeOK /\ AskInv /\ ActionsAreGrounded /\ FrameIsOfTheReport
  BY DEF IInv
<1>2. CASE ChangeDraft \/ StartRun
  BY <1>1, <1>2 DEF TypeOK, ChangeDraft, StartRun, form, dialog, machine
<1>3. CASE StoreEvent
  <2>1. PICK r \in {currentRun} \cap Runs : log[r] < Len(Plans[r]) /\ log' = [log EXCEPT ![r] = @ + 1]
    BY <1>3 DEF StoreEvent
  <2>2. Len(Plans[r]) \in Nat
    BY <2>1, CopilotAssumption
  <2>3. log' \in [Runs -> Nat] /\ \A s \in Runs : log'[s] <= Len(Plans[s]) /\ log[s] <= log'[s]
    BY <1>1, <2>1, <2>2 DEF TypeOK
  <2>4. \A s \in Runs : reports[s] # None => reports[s] <= log'[s]
    BY <1>1, <2>3 DEF TypeOK
  <2> QED
    BY <1>1, <1>3, <2>3, <2>4 DEF TypeOK, StoreEvent, editor, form, dialog, machine
<1>4. CASE Open \/ Close \/ ChooseRun
  BY <1>1, <1>4 DEF TypeOK, Open, Close, ChooseRun, editor, dialog, machine
<1>5. CASE Ask \/ RequestFails
  BY <1>1, <1>5 DEF TypeOK, Ask, RequestFails, editor, form, machine
<1>6. CASE Answered
  <2>1. answer' \in Answers \cup {None}
    <3>1. PICK request \in asking, evidence \in SUBSET Parts, parts \in SUBSET Parts, runs \in SUBSET Runs :
            \/ answer' = [question |-> request.question, parts |-> evidence, run |-> request.run, runs |-> runs]
            \/ answer' = answer
      BY <1>6 DEF Answered
    <3>2. request.question \in Nat /\ request.run \in Runs \cup {None}
      BY <1>1 DEF AskInv, TypeOK
    <3> QED
      BY <1>1, <3>1, <3>2 DEF Answers, TypeOK
  <2> QED
    BY <1>1, <1>6, <2>1 DEF TypeOK, Answered, editor, form, machine
<1>7. CASE InspectPart
  BY <1>1, <1>7 DEF TypeOK, InspectPart, dialog, machine
<1>8. CASE OpenIncident
  <2>1. PICK r \in Runs : /\ incidentRun' = r
                          /\ IF reports[r] = None THEN UNCHANGED <<selectedIndex, playing, selected>>
                             ELSE Rewind(TimelineOf(r, reports[r]))
    BY <1>8 DEF OpenIncident
  <2>2. draft' = draft
    BY <1>8 DEF OpenIncident
  <2>3. selectedIndex' \in Nat
    <3>1. CASE reports[r] = None
      BY <1>1, <2>1, <3>1 DEF TypeOK
    <3>2. CASE reports[r] # None
      <4>1. reports[r] \in Nat /\ reports[r] <= log[r] /\ log[r] <= Len(Plans[r]) /\ log[r] \in Nat /\ Len(Plans[r]) \in Nat
        BY <1>1, <3>2, CopilotAssumption DEF TypeOK
      <4> QED
        BY <1>1, <2>1, <2>2, <3>2, <4>1, RewindsWithin
    <3> QED
      BY <3>1, <3>2
  <2> QED
    BY <1>1, <1>8, <2>1, <2>3 DEF TypeOK, OpenIncident, dialog
<1>9. CASE Fetch
  <2>1. PICK r \in Runs \cap {incidentRun} :
          IF reports[r] = log[r] THEN UNCHANGED <<reports, selectedIndex, playing, selected>>
          ELSE reports' = [reports EXCEPT ![r] = log[r]] /\ Rewind(TimelineOf(r, log[r]))
    BY <1>9 DEF Fetch
  <2>2. draft' = draft
    BY <1>9 DEF Fetch
  <2>3. CASE reports[r] = log[r]
    BY <1>1, <1>9, <2>1, <2>3 DEF TypeOK, Fetch, form, dialog
  <2>4. CASE reports[r] # log[r]
    <3>1. log[r] \in Nat /\ log[r] <= Len(Plans[r])
      BY <1>1 DEF TypeOK
    <3>2. selectedIndex' \in Nat
      BY <1>1, <2>1, <2>2, <2>4, <3>1, RewindsWithin
    <3>3. reports' \in [Runs -> Nat \cup {None}] /\ \A s \in Runs : reports'[s] # None => reports'[s] <= log[s]
      BY <1>1, <2>1, <2>4, <3>1 DEF TypeOK
    <3> QED
      BY <1>1, <1>9, <3>2, <3>3 DEF TypeOK, Fetch, form, dialog
  <2> QED
    BY <2>3, <2>4
<1>10. CASE FetchFails \/ SelectVisit \/ CloseMachine
  BY <1>1, <1>10 DEF TypeOK, FetchFails, SelectVisit, CloseMachine, StillHere, editor, form, dialog
<1>11. CASE NavigateTo \/ TogglePlay \/ PlayTick
  <2>1. selectedIndex' \in Nat
    BY <1>1, <1>11, TimelineShown DEF NavigateTo, TogglePlay, PlayTick, Show, TypeOK
  <2> QED
    BY <1>1, <1>11, <2>1 DEF TypeOK, NavigateTo, TogglePlay, PlayTick, StillHere, form, dialog
<1>12. CASE UNCHANGED vars
  BY <1>1, <1>12 DEF TypeOK, vars, editor, form, dialog, machine
<1> QED
  BY <1>2, <1>3, <1>4, <1>5, <1>6, <1>7, <1>8, <1>9, <1>10, <1>11, <1>12 DEF Next

\* A question is asked when none is under way, and its answer replaces that of the last one.
LEMMA AskStep ==
  ASSUME IInv, [Next]_vars
  PROVE  (AskInv /\ AnswerInv /\ AnswerIsOfTheQuestion)'
<1>1. TypeOK /\ AskInv /\ AnswerInv /\ AnswerIsOfTheQuestion
  BY DEF IInv
<1>2. CASE UNCHANGED <<asking, answer, failed, asked, open, incidentRun>>
  BY <1>1, <1>2 DEF AskInv, AnswerInv, AnswerIsOfTheQuestion, loading
<1>3. CASE Ask
  <2>1. /\ asked' = asked + 1 /\ asking' = asking \cup {[question |-> asked + 1, run |-> contextRun]}
        /\ asking = {} /\ open /\ UNCHANGED <<answer, open, incidentRun>>
    BY <1>3 DEF Ask, FormEnabled, loading, form, machine
  <2>2. asking' = {[question |-> asked + 1, run |-> contextRun]}
    BY <2>1
  <2>3. contextRun \in Runs \cup {None}
    BY <1>1 DEF TypeOK
  <2> QED
    BY <1>1, <2>1, <2>2, <2>3 DEF AskInv, AnswerInv, AnswerIsOfTheQuestion, loading
<1>4. CASE Answered
  <2>1. PICK request \in asking, evidence \in SUBSET Parts, parts \in SUBSET Parts, runs \in SUBSET Runs :
          /\ asking' = asking \ {request}
          /\ IF actionIsGrounded(request, evidence, parts, runs)
             THEN answer' = [question |-> request.question, parts |-> evidence, run |-> request.run, runs |-> runs]
                  /\ UNCHANGED failed
             ELSE failed' = TRUE /\ UNCHANGED answer
          /\ UNCHANGED <<asked, open, incidentRun>>
    BY <1>4 DEF Answered, form, machine
  <2>2. asking' = {} /\ request.question = asked /\ request.run \in Runs \cup {None} /\ asked \in Nat
    BY <1>1, <2>1 DEF AskInv, TypeOK
  <2>3. CASE actionIsGrounded(request, evidence, parts, runs)
    <3>1. answer' = [question |-> request.question, parts |-> evidence, run |-> request.run, runs |-> runs]
      BY <2>1, <2>3
    <3>2. answer' \in Answers
      BY <2>2, <3>1 DEF Answers
    <3>3. answer' # None
      BY <3>2, CopilotAssumption
    <3>4. answer'.question = asked /\ answer'.run = request.run /\ answer'.runs = runs /\ runs \subseteq {request.run}
      BY <2>2, <2>3, <3>1 DEF actionIsGrounded
    <3> QED
      BY <1>1, <2>1, <2>2, <3>3, <3>4 DEF AskInv, AnswerInv, AnswerIsOfTheQuestion
  <2>4. CASE ~actionIsGrounded(request, evidence, parts, runs)
    BY <1>1, <2>1, <2>2, <2>4 DEF AskInv, AnswerInv, AnswerIsOfTheQuestion
  <2> QED
    BY <2>3, <2>4
<1>5. CASE RequestFails
  <2>1. PICK request \in asking : /\ asking' = asking \ {request} /\ failed' = TRUE
                                  /\ UNCHANGED <<answer, asked, open, incidentRun>>
    BY <1>5 DEF RequestFails, form, machine
  <2> QED
    BY <1>1, <2>1 DEF AskInv, AnswerInv, AnswerIsOfTheQuestion
<1>6. CASE Open \/ Close
  BY <1>1, <1>6 DEF AskInv, AnswerInv, AnswerIsOfTheQuestion, Open, Close, dialog, machine, loading
<1>7. CASE InspectPart
  BY <1>1, <1>7 DEF AskInv, AnswerInv, AnswerIsOfTheQuestion, InspectPart, dialog, machine, loading
<1>8. CASE OpenIncident
  BY <1>1, <1>8 DEF AskInv, AnswerInv, AnswerIsOfTheQuestion, OpenIncident, Readable, dialog, loading
<1>9. CASE CloseMachine
  BY <1>1, <1>9 DEF AskInv, AnswerInv, AnswerIsOfTheQuestion, CloseMachine, form, dialog, loading
<1>10. CASE ChangeDraft \/ StartRun \/ StoreEvent \/ ChooseRun
  BY <1>2, <1>10 DEF ChangeDraft, StartRun, StoreEvent, ChooseRun, editor, form, dialog, machine
<1>11. CASE Fetch \/ FetchFails \/ NavigateTo \/ TogglePlay \/ PlayTick \/ SelectVisit
  BY <1>2, <1>11 DEF Fetch, FetchFails, NavigateTo, TogglePlay, PlayTick, SelectVisit, StillHere, form, dialog
<1>12. CASE UNCHANGED vars
  BY <1>2, <1>12 DEF vars, form, dialog, machine
<1> QED
  BY <1>3, <1>4, <1>5, <1>6, <1>7, <1>8, <1>9, <1>10, <1>11, <1>12 DEF Next

\* What is selected is in the draft, and the incident is of the run of the answer.
LEMMA GroundedStep ==
  ASSUME IInv, [Next]_vars
  PROVE  ActionsAreGrounded'
<1>1. TypeOK /\ AskInv /\ AnswerInv /\ ActionsAreGrounded
  BY DEF IInv
<1>2. selected \in draft \cup {None}
  BY <1>1 DEF ActionsAreGrounded
<1>3. CASE ChangeDraft
  <2>1. PICK kept \in draft' \cup {None} : selected' = Follow(Timeline, selectedIndex, draft', kept)
    BY <1>3 DEF ChangeDraft
  <2>2. selected' \in draft' \cup {None}
    BY <2>1, FollowsDraft
  <2> QED
    BY <1>1, <1>3, <2>2 DEF ActionsAreGrounded, ChangeDraft, dialog, machine
<1>4. CASE UNCHANGED <<selected, draft, answer, incidentRun>>
  BY <1>1, <1>4 DEF ActionsAreGrounded
<1>5. CASE Answered
  BY <1>1, <1>5 DEF ActionsAreGrounded, AskInv, Answered, editor, machine
<1>6. CASE InspectPart
  BY <1>1, <1>6 DEF ActionsAreGrounded, InspectPart, dialog, machine
<1>7. CASE OpenIncident
  <2>1. PICK r \in Runs : /\ answer # None /\ r \in answer.runs /\ incidentRun' = r
                          /\ IF reports[r] = None THEN UNCHANGED <<selectedIndex, playing, selected>>
                             ELSE Rewind(TimelineOf(r, reports[r]))
    BY <1>7 DEF OpenIncident, Readable
  <2>2. draft' = draft /\ answer' = answer
    BY <1>7 DEF OpenIncident, dialog
  <2>3. incidentRun' = answer.run
    BY <1>1, <2>1 DEF AnswerInv
  <2>4. selected' \in draft' \cup {None}
    BY <1>2, <2>1, <2>2, FollowsDraft DEF Rewind
  <2> QED
    BY <2>1, <2>2, <2>3, <2>4 DEF ActionsAreGrounded
<1>8. CASE Fetch
  <2>1. selected' \in draft \cup {None}
    BY <1>2, <1>8, FollowsDraft DEF Fetch, Rewind
  <2> QED
    BY <1>1, <1>8, <2>1 DEF ActionsAreGrounded, Fetch, dialog
<1>9. CASE NavigateTo \/ TogglePlay \/ PlayTick
  <2>1. selected' \in draft \cup {None}
    BY <1>2, <1>9, FollowsDraft DEF NavigateTo, TogglePlay, PlayTick, Show
  <2> QED
    BY <1>1, <1>9, <2>1 DEF ActionsAreGrounded, NavigateTo, TogglePlay, PlayTick, StillHere, dialog
<1>10. CASE SelectVisit
  <2>1. PICK v : selected' = Follow(Timeline, selectedIndex, draft, Choose(v.node, draft, selected))
    BY <1>10 DEF SelectVisit
  <2>2. Choose(v.node, draft, selected) \in draft \cup {None}
    BY <1>2 DEF Choose
  <2>3. selected' \in draft \cup {None}
    BY <2>1, <2>2, FollowsDraft
  <2> QED
    BY <1>1, <1>10, <2>3 DEF ActionsAreGrounded, SelectVisit, StillHere, dialog
<1>11. CASE CloseMachine
  BY <1>1, <1>11 DEF ActionsAreGrounded, CloseMachine, editor, dialog
<1>12. CASE StartRun \/ StoreEvent \/ Open \/ Close \/ ChooseRun \/ Ask \/ RequestFails \/ FetchFails \/ UNCHANGED vars
  BY <1>4, <1>12 DEF StartRun, StoreEvent, Open, Close, ChooseRun, Ask, RequestFails, FetchFails, vars,
                     editor, form, dialog, machine
<1> QED
  BY <1>3, <1>5, <1>6, <1>7, <1>8, <1>9, <1>10, <1>11, <1>12 DEF Next

\* The transport stays within the report, whichever report replaces the one shown.
LEMMA FrameStep ==
  ASSUME IInv, [Next]_vars
  PROVE  FrameIsOfTheReport'
<1>1. TypeOK /\ ActionsAreGrounded /\ FrameIsOfTheReport
  BY DEF IInv
<1>2. TypeOK'
  BY TypeStep
<1> DEFINE n == Len(Timeline)
<1>3. n \in Nat /\ (Timeline # <<>> <=> n > 0) /\ selectedIndex \in Nat
  BY <1>1, TimelineShown DEF TypeOK
<1>4. CASE UNCHANGED <<incidentRun, reports, selectedIndex, playing>>
  <2>1. Timeline' = Timeline
    BY <1>4 DEF Timeline, TimelineOf
  <2> QED
    BY <1>1, <1>4, <2>1 DEF FrameIsOfTheReport
<1>5. CASE OpenIncident
  <2>1. PICK r \in Runs : /\ incidentRun' = r
                          /\ IF reports[r] = None THEN UNCHANGED <<selectedIndex, playing, selected>>
                             ELSE Rewind(TimelineOf(r, reports[r]))
    BY <1>5 DEF OpenIncident
  <2>2. draft' = draft /\ reports' = reports /\ r # None
    BY <1>5, CopilotAssumption DEF OpenIncident
  <2>3. CASE reports[r] = None
    <3>1. Timeline' = <<>>
      BY <2>1, <2>2, <2>3 DEF Timeline, TimelineOf
    <3>2. CASE Timeline = <<>>
      <4>1. ~playing
        BY <1>1, <1>3, <3>2 DEF FrameIsOfTheReport
      <4> QED
        BY <2>1, <2>3, <3>1, <4>1 DEF FrameIsOfTheReport
    <3>3. CASE Timeline # <<>>
      <4>1. FALSE
        BY <1>1, <3>3, <1>5, TimelineShown DEF IInv, AskInv, OpenIncident, Readable
      <4> QED
        BY <4>1
    <3> QED
      BY <3>2, <3>3
  <2>4. CASE reports[r] # None
    <3>1. reports[r] \in Nat /\ reports[r] <= log[r] /\ log[r] <= Len(Plans[r]) /\ log[r] \in Nat /\ Len(Plans[r]) \in Nat
      BY <1>1, <2>4, CopilotAssumption DEF TypeOK
    <3>2. reports[r] <= Len(Plans[r])
      BY <3>1
    <3>3. (reports[r] > 0 => selectedIndex' \in 1..reports[r]) /\ ~playing'
      BY <1>1, <2>1, <2>2, <2>4, <3>1, <3>2, RewindsWithin
    <3>4. Timeline' = TimelineOf(r, reports[r])
      BY <2>1, <2>2 DEF Timeline
    <3>5. Timeline' \in Seq(ToSet(Plans[r])) /\ Len(Timeline') = reports[r]
      BY <3>1, <3>2, <3>4, TimelineHas
    <3>6. Timeline' # <<>> => reports[r] > 0
      BY <3>1, <3>5
    <3> QED
      BY <3>3, <3>5, <3>6 DEF FrameIsOfTheReport
  <2> QED
    BY <2>3, <2>4
<1>6. CASE Fetch
  <2>1. PICK r \in Runs \cap {incidentRun} :
          IF reports[r] = log[r] THEN UNCHANGED <<reports, selectedIndex, playing, selected>>
          ELSE reports' = [reports EXCEPT ![r] = log[r]] /\ Rewind(TimelineOf(r, log[r]))
    BY <1>6 DEF Fetch
  <2>2. draft' = draft /\ incidentRun' = incidentRun /\ incidentRun = r /\ r # None
    BY <1>6, <2>1, CopilotAssumption DEF Fetch
  <2>3. CASE reports[r] = log[r]
    BY <1>4, <2>1, <2>2, <2>3
  <2>4. CASE reports[r] # log[r]
    <3>1. log[r] \in Nat /\ log[r] <= Len(Plans[r]) /\ reports'[r] = log[r]
      BY <1>1, <2>1, <2>4 DEF TypeOK
    <3>2. (log[r] > 0 => selectedIndex' \in 1..log[r]) /\ ~playing'
      BY <1>1, <2>1, <2>2, <2>4, <3>1, RewindsWithin
    <3>3. Timeline' = TimelineOf(r, log[r])
      BY <2>2, <3>1 DEF Timeline
    <3>4. Timeline' \in Seq(ToSet(Plans[r])) /\ Len(Timeline') = log[r]
      BY <3>1, <3>3, TimelineHas
    <3>5. Timeline' # <<>> => log[r] > 0
      BY <3>1, <3>4
    <3> QED
      BY <3>2, <3>4, <3>5 DEF FrameIsOfTheReport
  <2> QED
    BY <2>3, <2>4
<1>7. CASE NavigateTo \/ TogglePlay \/ PlayTick
  <2>1. Timeline' = Timeline
    BY <1>7 DEF NavigateTo, TogglePlay, PlayTick, StillHere, Timeline, TimelineOf
  <2>2. CASE NavigateTo
    BY <1>1, <1>3, <2>1, <2>2 DEF NavigateTo, Show, FrameIsOfTheReport
  <2>3. CASE TogglePlay
    <3>1. selectedIndex \in 1..n
      BY <2>3 DEF TogglePlay, Transport
    <3>2. selectedIndex' \in 1..n
      BY <1>3, <2>3, <3>1 DEF TogglePlay, Show
    <3>3. playing' => selectedIndex' < n
      BY <2>3, Zenon DEF TogglePlay
    <3> QED
      BY <2>1, <3>2, <3>3 DEF FrameIsOfTheReport
  <2>4. CASE PlayTick
    <3>1. selectedIndex' \in 1..n
      BY <1>3, <2>4 DEF PlayTick, Show
    <3>2. playing' => selectedIndex' < n
      BY <2>4, Zenon DEF PlayTick
    <3> QED
      BY <2>1, <3>1, <3>2 DEF FrameIsOfTheReport
  <2> QED
    BY <1>7, <2>2, <2>3, <2>4
<1>8. CASE CloseMachine
  <2>1. Timeline' = <<>> /\ playing' = FALSE
    BY <1>8 DEF CloseMachine, Timeline, TimelineOf
  <2> QED
    BY <2>1 DEF FrameIsOfTheReport
<1>9. CASE ChangeDraft \/ StartRun \/ StoreEvent \/ Open \/ Close \/ ChooseRun \/ Ask \/ Answered \/ RequestFails
           \/ InspectPart \/ FetchFails \/ SelectVisit \/ UNCHANGED vars
  BY <1>4, <1>9 DEF ChangeDraft, StartRun, StoreEvent, Open, Close, ChooseRun, Ask, Answered, RequestFails,
                    InspectPart, FetchFails, SelectVisit, StillHere, vars, machine
<1> QED
  BY <1>5, <1>6, <1>7, <1>8, <1>9 DEF Next

-------------------------------------------------------------------------------
(* The theorems.                                                           *)

\* Nothing is asked, opened or shown at the start.
LEMMA InitInv ==
  ASSUME Init
  PROVE  IInv
<1>1. Timeline = <<>>
  BY DEF Init, Timeline, TimelineOf
<1>2. \A r \in Runs : Len(Plans[r]) \in Nat
  BY CopilotAssumption
<1>3. TypeOK
  BY <1>2 DEF Init, TypeOK
<1>4. FrameIsOfTheReport
  BY <1>1 DEF Init, FrameIsOfTheReport
<1> QED
  BY <1>3, <1>4 DEF Init, IInv, AskInv, AnswerInv, AnswerIsOfTheQuestion, ActionsAreGrounded

\* The inductive invariant holds in every state of the copilot and the Time Machine.
THEOREM Invariant == Spec => []IInv
<1>1. Init => IInv
  BY InitInv
<1>2. IInv /\ [Next]_vars => IInv'
  BY TypeStep, AskStep, GroundedStep, FrameStep DEF IInv
<1> QED
  BY <1>1, <1>2, PTL DEF Spec

\* Whatever the provider answers and however the draft changes under the dialogs, the answer that
\* is shown is that of the last question, the selected part is in the draft, and the incident
\* that is opened is of the run whose evidence was read.
THEOREM AdviceStaysGrounded == Spec => []AdviceIsGrounded
<1>1. IInv => AdviceIsGrounded
  BY DEF IInv, AdviceIsGrounded
<1> QED
  BY <1>1, Invariant, PTL

\* The Time Machine shows a frame of the report that is open, and does not play at or past its
\* end, though reports grow, fail and are replaced by those of other runs.
THEOREM FramesAreOfTheReport == Spec => []FrameIsOfTheReport
<1>1. IInv => FrameIsOfTheReport
  BY DEF IInv
<1> QED
  BY <1>1, Invariant, PTL
================================================================================
