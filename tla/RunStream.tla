------------------------------- MODULE RunStream -------------------------------
(***************************************************************************)
(* A run as the editor shows it: startRun, controlRun and connectRunEvents *)
(* of flow-service.ts, the handlers of RunControls.tsx and RunDialog, the  *)
(* effects of EditorClient.tsx, and the run state of flow-store.ts.        *)
(*                                                                         *)
(* The API plays a run and appends to its journal (external; RunPlayback   *)
(* models it).  The editor follows the journal over a WebSocket that a     *)
(* React effect opens: the effect is torn down and run again whenever the  *)
(* source, the run or the status of the store changes, and then asks for   *)
(* the events from the first.  One action is one task of the browser.      *)
(***************************************************************************)
EXTENDS Naturals, FiniteSets, Sequences, SequencesExt

CONSTANTS
  Runs,          \* identifiers of the runs the API creates
  NoRun,         \* remoteRunId is undefined
  Modes,         \* subset of {"api", "local"}: hasConfiguredApi, chosen when the program starts
  Window,        \* the 500 visibleEvents that are kept
  MaxAttempts,   \* the 5 attempts to reconnect
  PlanLength,    \* bound: node events of a run
  MaxClicks,     \* bound: controls, starts and reloads by the user
  MaxFaults      \* bound: lost requests, broken sockets, interruptions

ASSUME StreamAssumption ==
  /\ NoRun \notin Runs /\ Modes \subseteq {"api", "local"}
  /\ {Window, MaxAttempts, PlanLength} \subseteq Nat \ {0} /\ {MaxClicks, MaxFaults} \subseteq Nat

VARIABLES
  mode,        \* "api" or "local"
  journal,     \* the events of each run in the API, <<>> before it is created
  source,      \* runSource
  run,         \* remoteRunId
  status,      \* runStatus
  visible,     \* visibleEvents: records of run, sequence and type
  node,        \* the event that last changed nodeStates
  cursor,      \* eventCursor of a local plan
  stream,      \* streamStatus
  history,     \* runHistory: run and status of each entry
  links,       \* the closures of connectRunEvents that still have something to do
  starting,    \* the request of RunDialog: the run it created, or what it waits for
  control,     \* the request of RunControls
  clicks, faults

storeVars == <<source, run, status, visible, node, cursor, history>>
streamVars == <<mode, journal, storeVars, stream, links, starting, control, clicks, faults>>

Terminal == {"run.completed", "run.cancelled", "run.interrupted"}
Kinds    == {"node", "run.paused", "run.resumed"} \cup Terminal
NoEvent  == [run |-> NoRun, sequence |-> 0, type |-> "none"]
Idle     == [phase |-> "idle", run |-> NoRun]

OnlyKnownEnds(type, before) ==      \* mutant: the reducer does not know run.interrupted
  CASE type = "run.paused"    -> "paused"
    [] type = "run.resumed"   -> "running"
    [] type = "run.completed" -> "completed"
    [] type = "run.cancelled" -> "cancelled"
    [] OTHER                  -> before

\* The status that an event gives to the run it belongs to.
StatusAfter(type, before) ==
  CASE type = "run.paused"      -> "paused"
    [] type = "run.resumed"     -> "running"
    [] type = "run.completed"   -> "completed"
    [] type = "run.cancelled"   -> "cancelled"
    [] type = "run.interrupted" -> "failed"
    [] OTHER                    -> before

Told(log)     == {i \in DOMAIN log : log[i] # "node"}
StatusOf(log) ==
  IF Told(log) = {} THEN "running"
  ELSE StatusAfter(log[CHOOSE i \in Told(log) : \A j \in Told(log) : j <= i], "running")
JournalStatus(r) == StatusOf(journal[r])
Created(r) == journal[r] # <<>>
Ended(r)   == Created(r) /\ Last(journal[r]) \in Terminal
Played(r)  == Cardinality({i \in DOMAIN journal[r] : journal[r][i] = "node"})

Followed == {"running", "paused"}

-------------------------------------------------------------------------------
(* The effect that follows a run.                                          *)

Link(r) == [run |-> r, stopped |-> FALSE, phase |-> "ticket", last |-> 0, attempts |-> 0]

\* The cleanup clears the timer and closes the socket.  It cannot call back a request for a
\* ticket, and connect does not look at stopped again when the ticket arrives.
Stop(l)     == IF l.phase = "ticket" THEN {[l EXCEPT !.stopped = TRUE]} ELSE {}
Cleanup(ls) == UNION {IF l.stopped THEN {l} ELSE Stop(l) : l \in ls}

Follow(src, r, st) == IF src = "api" /\ r # NoRun /\ st \in Followed THEN {Link(r)} ELSE {}

\* The links after a task that left the links ls: React runs the effect again if one of the
\* values it depends on has changed.
Effect(ls) == links' = IF <<source, run, status>>' = <<source, run, status>> THEN ls
                       ELSE Cleanup(ls) \cup Follow(source', run', status')

\* onclose, and the catch of connect.
Retry(l) ==
  IF l.stopped \/ l.attempts + 1 > MaxAttempts THEN {}
  ELSE {[l EXCEPT !.phase = "retry", !.attempts = @ + 1]}
StreamAfterClose(l) ==
  IF l.stopped THEN stream ELSE IF l.attempts + 1 > MaxAttempts THEN "closed" ELSE "reconnecting"

-------------------------------------------------------------------------------
(* The store.                                                              *)

Newest(events) == {e \in events : Cardinality({f \in events : f.sequence > e.sequence}) < Window}

AppliedAgain(e) ==      \* mutant: a duplicate is not looked for
  /\ visible' = Newest(visible \cup {e})
  /\ node'    = IF e.type = "node" THEN e ELSE node
  /\ status'  = StatusAfter(e.type, status)
  /\ history' = IF e.type \in Terminal /\ run # NoRun
                THEN <<[run |-> run, status |-> StatusAfter(e.type, status)]>>
                       \o SelectSeq(history, LAMBDA s : s.run # run)
                ELSE history

ingestRemoteEvent(e) ==
  IF \E f \in visible : f.sequence = e.sequence
  THEN UNCHANGED <<visible, node, status, history>>
  ELSE /\ visible' = Newest(visible \cup {e})
       /\ node'    = IF e.type = "node" THEN e ELSE node
       /\ status'  = StatusAfter(e.type, status)
       /\ history' = IF e.type \in Terminal /\ run # NoRun
                     THEN <<[run |-> run, status |-> StatusAfter(e.type, status)]>>
                            \o SelectSeq(history, LAMBDA s : s.run # run)
                     ELSE history

\* What startSimulation, startRemoteSimulation, resetSimulation, loadDocument and
\* replaceDefinition have in common.
Show(src, r, st) ==
  /\ source' = src /\ run' = r /\ status' = st
  /\ visible' = {} /\ node' = NoEvent /\ cursor' = 0

resetSimulation == Show("local", NoRun, "idle") /\ stream' = "idle" /\ UNCHANGED history

PauseAnyway == status' = "paused"      \* mutant: pauseSimulation without its guard

pauseSimulation  == status' = IF status = "running" THEN "paused" ELSE status
resumeSimulation == status' = IF status = "paused" THEN "running" ELSE status

\* The plan of a local run: its node events and run.completed.
Planned(i) == IF i <= PlanLength THEN "node" ELSE "run.completed"

applyNextEvent ==
  LET e == [run |-> NoRun, sequence |-> cursor + 1, type |-> Planned(cursor + 1)]
  IN  IF cursor > PlanLength THEN UNCHANGED <<visible, node, status, cursor, history>>
      ELSE /\ visible' = Newest(visible \cup {e})
           /\ node'    = IF e.type = "node" THEN e ELSE node
           /\ status'  = StatusAfter(e.type, status)
           /\ cursor'  = cursor + 1
           /\ history' = IF e.type \in Terminal
                         THEN <<[run |-> NoRun, status |-> "completed"]>>
                                \o SelectSeq(history, LAMBDA s : s.run # NoRun)
                         ELSE history

-------------------------------------------------------------------------------
(* The user.                                                               *)

StreamInit ==
  /\ mode \in Modes
  /\ journal = [r \in Runs |-> <<>>]
  /\ source = "local" /\ run = NoRun /\ status = "idle"
  /\ visible = {} /\ node = NoEvent /\ cursor = 0 /\ history = <<>>
  /\ stream = "idle" /\ links = {} /\ starting = Idle /\ control = Idle
  /\ clicks = 0 /\ faults = 0

Click == clicks < MaxClicks /\ clicks' = clicks + 1
Fault == faults < MaxFaults /\ faults' = faults + 1

\* startRun without an API simulates at once, and startSimulation shows the plan.
StartLocal ==
  /\ mode = "local" /\ Click
  /\ Show("local", NoRun, "running") /\ stream' = "idle" /\ UNCHANGED history
  /\ Effect(links)
  /\ UNCHANGED <<mode, journal, starting, control, faults>>

StartAsk ==
  /\ mode = "api" /\ starting = Idle /\ Click
  /\ starting' = [phase |-> "asked", run |-> NoRun]
  /\ UNCHANGED <<mode, journal, storeVars, stream, links, control, faults>>

\* The player of a local run, a timer that only runs while the run does.
LocalTick ==
  /\ source = "local" /\ status = "running"
  /\ applyNextEvent
  /\ UNCHANGED <<mode, journal, source, run, stream, starting, control, clicks, faults>>
  /\ Effect(links)

Remote == source = "api" /\ run # NoRun

\* What the buttons of RunControls do, by what they are for.
Enabled(kind) ==
  CASE kind = "pause"  -> status = "running"
    [] kind = "resume" -> status = "paused"
    [] kind = "step"   -> status = "paused"
    [] kind = "cancel" -> status # "idle"

Asks(kind) == Remote /\ (kind = "cancel" => status \in Followed)

Done(kind) ==
  CASE kind = "pause"  -> pauseSimulation /\ UNCHANGED <<source, run, visible, node, cursor, history, stream>>
    [] kind = "resume" -> resumeSimulation /\ UNCHANGED <<source, run, visible, node, cursor, history, stream>>
    [] kind = "step"   -> IF Remote THEN UNCHANGED <<storeVars, stream>>
                          ELSE applyNextEvent /\ UNCHANGED <<source, run, stream>>
    [] kind = "cancel" -> resetSimulation

Control(kind) ==
  /\ control = Idle /\ Enabled(kind) /\ Click
  /\ IF Asks(kind)
     THEN /\ control' = [phase |-> "asked", run |-> run, kind |-> kind]
          /\ UNCHANGED <<storeVars, stream, links>>
     ELSE Done(kind) /\ Effect(links) /\ UNCHANGED control
  /\ UNCHANGED <<mode, journal, starting, faults>>

\* The document is loaded, imported or restored while a run is shown.
Reload ==
  /\ status # "idle" /\ Click
  /\ resetSimulation /\ Effect(links)
  /\ UNCHANGED <<mode, journal, starting, control, faults>>

-------------------------------------------------------------------------------
(* The API (external).                                                     *)

Append1(r, type) == journal' = [journal EXCEPT ![r] = Append(@, type)]

Play(r) ==
  /\ Created(r) /\ JournalStatus(r) = "running"
  /\ Append1(r, Planned(Played(r) + 1))
  /\ UNCHANGED <<mode, storeVars, stream, links, starting, control, clicks, faults>>

\* A crash of the API, or an instance that takes over.
Interrupt(r) ==
  /\ Created(r) /\ ~Ended(r) /\ Fault
  /\ Append1(r, "run.interrupted")
  /\ UNCHANGED <<mode, storeVars, stream, links, starting, control, clicks>>

\* The identifier is a new one, whichever.
CreateRun ==
  /\ starting.phase = "asked" /\ \E r \in Runs : ~Created(r)
  /\ LET r == CHOOSE x \in Runs : ~Created(x)
     IN  Append1(r, "node") /\ starting' = [phase |-> "answered", run |-> r]
  /\ UNCHANGED <<mode, storeVars, stream, links, control, clicks, faults>>

Accepted(kind, r) ==
  CASE kind = "pause"  -> JournalStatus(r) = "running"
    [] kind = "resume" -> JournalStatus(r) = "paused"
    [] kind = "step"   -> JournalStatus(r) = "paused"
    [] kind = "cancel" -> ~Ended(r)
Recorded(kind, r) ==
  CASE kind = "pause"  -> "run.paused"
    [] kind = "resume" -> "run.resumed"
    [] kind = "step"   -> Planned(Played(r) + 1)
    [] kind = "cancel" -> "run.cancelled"

ServeControl ==
  /\ control.phase = "asked"
  /\ IF Accepted(control.kind, control.run)
     THEN /\ Append1(control.run, Recorded(control.kind, control.run))
          /\ control' = [control EXCEPT !.phase = "done"]
     ELSE UNCHANGED journal /\ control' = [control EXCEPT !.phase = "refused"]
  /\ UNCHANGED <<mode, storeVars, stream, links, starting, clicks, faults>>

-------------------------------------------------------------------------------
(* Answers.                                                                *)

StartAnswer ==
  /\ starting.phase = "answered"
  /\ Show("api", starting.run, "running") /\ stream' = "reconnecting" /\ UNCHANGED history
  /\ starting' = Idle
  /\ Effect(links)
  /\ UNCHANGED <<mode, journal, control, clicks, faults>>

\* The dialog shows an error; the run may have been created, and nobody follows it.
StartLost ==
  /\ starting # Idle /\ Fault
  /\ starting' = Idle
  /\ UNCHANGED <<mode, journal, storeVars, stream, links, control, clicks>>

\* The handler was closed over the click: it does not look again at what is shown.
ControlAnswer ==
  /\ control.phase = "done"
  /\ control' = Idle
  /\ Done(control.kind) /\ Effect(links)
  /\ UNCHANGED <<mode, journal, starting, clicks, faults>>

ControlRefused ==
  /\ control.phase = "refused"
  /\ control' = Idle
  /\ UNCHANGED <<mode, journal, storeVars, stream, links, starting, clicks, faults>>

ControlLost ==
  /\ control # Idle /\ Fault
  /\ control' = Idle
  /\ UNCHANGED <<mode, journal, storeVars, stream, links, starting, clicks>>

-------------------------------------------------------------------------------
(* The stream.                                                             *)

Replaced(l, m) == (links \ {l}) \cup {m}

Ticket(l) ==
  /\ l.phase = "ticket"
  /\ links' = Replaced(l, [l EXCEPT !.phase = "opening"])
  /\ UNCHANGED <<mode, journal, storeVars, stream, starting, control, clicks, faults>>

Open(l) ==
  /\ l.phase = "opening"
  /\ links' = Replaced(l, [l EXCEPT !.phase = "open", !.attempts = 0])
  /\ stream' = "connected"
  /\ UNCHANGED <<mode, journal, storeVars, starting, control, clicks, faults>>

\* onmessage: the API sends the events after the sequence asked for, in order.
Deliver(l) ==
  /\ l.phase = "open" /\ l.last < Len(journal[l.run])
  /\ ingestRemoteEvent([run |-> l.run, sequence |-> l.last + 1, type |-> journal[l.run][l.last + 1]])
  /\ UNCHANGED <<source, run, cursor>>
  /\ Effect(Replaced(l, [l EXCEPT !.last = @ + 1]))
  /\ UNCHANGED <<mode, journal, stream, starting, control, clicks, faults>>

\* The ticket is refused, or the socket breaks.
Break(l) ==
  /\ l.phase \in {"ticket", "opening", "open"} /\ Fault
  /\ links' = (links \ {l}) \cup Retry(l)
  /\ stream' = StreamAfterClose(l)
  /\ UNCHANGED <<mode, journal, storeVars, starting, control, clicks>>

\* The API closes the socket once the journal is closed and sent; or it refuses a ticket then.
EndOfStream(l) ==
  /\ l.phase = "open" /\ Ended(l.run) /\ l.last = Len(journal[l.run])
  /\ links' = (links \ {l}) \cup Retry(l)
  /\ stream' = StreamAfterClose(l)
  /\ UNCHANGED <<mode, journal, storeVars, starting, control, clicks, faults>>

Reconnect(l) ==
  /\ l.phase = "retry"
  /\ links' = Replaced(l, [l EXCEPT !.phase = "ticket"])
  /\ UNCHANGED <<mode, journal, storeVars, stream, starting, control, clicks, faults>>

StreamNext ==
  \/ StartLocal \/ StartAsk \/ LocalTick \/ Reload
  \/ \E kind \in {"pause", "resume", "step", "cancel"} : Control(kind)
  \/ CreateRun \/ \E r \in Runs : Play(r) \/ Interrupt(r)
  \/ ServeControl \/ StartAnswer \/ StartLost \/ ControlAnswer \/ ControlRefused \/ ControlLost
  \/ \E l \in links : Ticket(l) \/ Open(l) \/ Deliver(l) \/ Break(l) \/ EndOfStream(l) \/ Reconnect(l)

\* A link of the present instance of the effect makes its next step.
Connect == \E l \in links : ~l.stopped /\ (Ticket(l) \/ Open(l) \/ Reconnect(l))
Receive == \E l \in links : ~l.stopped /\ Deliver(l)

\* Timers fire, requests are served or lost and answered, open sockets deliver.  Nothing is
\* assumed of the user, of faults, nor of the links of instances that are gone.
Fairness ==
  /\ WF_streamVars(LocalTick) /\ WF_streamVars(CreateRun \/ \E r \in Runs : Play(r))
  /\ WF_streamVars(ServeControl) /\ WF_streamVars(StartAnswer) /\ WF_streamVars(ControlAnswer \/ ControlRefused)
  /\ WF_streamVars(Connect) /\ WF_streamVars(Receive)

StreamSpec == StreamInit /\ [][StreamNext]_streamVars /\ Fairness

-------------------------------------------------------------------------------
(* Properties.                                                             *)

Current == {l \in links : ~l.stopped}
EventAt(n) == [run |-> run, sequence |-> n, type |-> journal[run][n]]

\* Sequences are those of one run, and the replay from the first meets nothing that was cut: the
\* reducer tells neither the runs nor the events cut from the window apart (flow-store.ts:536, :570).
Alone ==
  /\ \A r, s \in Runs : Created(r) /\ Created(s) => r = s
  /\ \A r \in Runs : Len(journal[r]) <= Window

\* One instance of the effect follows the run that is shown, and only while it may change.
OneFollows ==
  Cardinality(Current) <= 1 /\ \A l \in Current : source = "api" /\ l.run = run /\ status \in Followed

\* No gaps, and duplicates do no harm (docs/api-realtime.md:329): an event the stream of the run
\* delivered is shown however often the effect asked for all of them again, and the nodes are
\* as the latest of the events shown left them.
DeliveredIsShown ==
  source = "api" =>
    /\ \A l \in Current : \A n \in 1..l.last : EventAt(n) \in visible
    /\ \A e \in visible : e.type = "node" => node.run = e.run /\ node.sequence >= e.sequence

\* However often the effect is torn down and run again, one link follows the run, and everything
\* it delivered is shown once.
FollowingIsSound == OneFollows /\ (Alone => DeliveredIsShown)

\* Once every event of the run is shown and no request is under way, the status is that of the
\* journal: an answer that comes late does not leave the editor with a status of its own.
CaughtUpIsTrue ==
  /\ Alone /\ source = "api" /\ run # NoRun /\ control = Idle
  /\ \A n \in 1..Len(journal[run]) : EventAt(n) \in visible
  => status = JournalStatus(run)

\* The end of a run that is shown is shown in time, unless connectRunEvents gave up after its
\* attempts, the user moved on (docs/3d-experience.md:251), or events of another run came between.
EndIsShown ==
  \A r \in Runs : run = r /\ Ended(r) ~> run # r \/ status \notin Followed \/ Current = {} \/ ~Alone
===============================================================================
