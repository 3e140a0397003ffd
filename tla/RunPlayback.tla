------------------------------ MODULE RunPlayback -----------------------------
(***************************************************************************)
(* The playback of one run: runtime.Manager (apps/api/internal/runtime/    *)
(* manager.go) over the run rows of the repository.                        *)
(*                                                                         *)
(* A goroutine (the player) writes the planned events of the simulation    *)
(* one by one; control requests (pause, resume, step, speed, cancel) act   *)
(* on the same state under state.mu; WebSocket clients subscribe, fall     *)
(* behind, are dropped and come back.  Every event is written to the store *)
(* before it is published, and the store may refuse the write, lose it, or *)
(* commit it and lose the answer.  The process may crash and start again.  *)
(*                                                                         *)
(* state.mu is held across a write and its publication, but the store, its *)
(* HTTP readers and a crash see the moment in between, so a critical       *)
(* section that writes is split: write, then publish or interrupt.         *)
(***************************************************************************)
EXTENDS Naturals, Sequences, FiniteSets

CONSTANTS
  Controllers,   \* requests that can be inside Manager.control at one time
  Clients,       \* WebSocket clients of the run
  Plans,         \* the event types the simulator may have planned
  Speeds,        \* the speeds a client asks for
  Slack,         \* live capacity of a subscriber beyond its replay (128)
  LeaseRow,      \* does the run have a row in run_leases?
  MaxControls,   \* bound: control requests accepted
  MaxFaults,     \* bound: storage calls that report an error
  MaxCrashes,    \* bound: crashes of the process
  Nobody         \* no goroutine holds state.mu

VARIABLES
  stored,        \* the run in the repository: its status and its events
  launch,        \* how far createRun got: created, queued, started, lost
  up,            \* the process runs
  active,        \* the run is in Manager.active
  player,        \* the goroutine of play: absent, loop, blocked, leaving, done
  planned, index,                                     \* state.planned, state.index
  status, events,                                     \* state.run.Status, .Events
  paused, step, cancelled, interrupted, finished,     \* flags of state
  speed, wake,   \* state.speed; a token waits in state.wake
  holder, phase, pending,   \* who holds state.mu, where it is, the event type it writes
  ctl,           \* ctl[c]: the operation request c is about to apply
  conn, chan, room,         \* state of each client's connection, its channel, its capacity
  seen,          \* seen[s]: the events client s has applied
  controls, faults, crashes \* how much of each bound is used

storeVars   == <<stored, launch>>
flagVars    == <<paused, step, cancelled, interrupted, finished, speed>>
runVars     == <<planned, index, status, events>>
lockVars    == <<holder, phase, pending>>
clientVars  == <<conn, chan, room, seen>>
boundVars   == <<controls, faults, crashes>>
vars == <<storeVars, up, active, player, runVars, flagVars, wake, lockVars, ctl,
          clientVars, boundVars>>

\* mutant: a step runs through the visits that are skipped or fail
CompletedOnly == {"node.completed"}
Ops       == {"pause", "resume", "step", "speed", "cancel"}
Visited   == {"node.completed", "node.failed", "node.skipped"}
Player    == "player"

Journal == INSTANCE RunJournal
             WITH Observers <- Clients, status <- stored.status, log <- stored.events,
                  seen <- seen

ASSUME PlaybackAssumption ==
  /\ Player \notin Controllers /\ Nobody \notin Controllers \cup {Player}
  /\ Plans \subseteq Seq(Journal!PlannedTypes)
  /\ \A plan \in Plans :      \* the simulator ends every plan with its verdict
       /\ plan # <<>>
       /\ \A i \in 1..Len(plan) : plan[i] \in Journal!TerminalTypes <=> i = Len(plan)
  /\ LeaseRow \in BOOLEAN /\ Slack \in Nat
  /\ MaxControls \in Nat /\ MaxFaults \in Nat /\ MaxCrashes \in Nat

-------------------------------------------------------------------------------
(* The repository: AppendRunEvent, interruptRun.                           *)

\* AppendRunEvent takes an event only for an active run, at the next sequence.
Accepts(event) ==
  /\ stored.status \in Journal!ActiveStatus
  /\ event.seq = Len(stored.events) + 1

\* mutant: the event is inserted and the row keeps its status
WrittenEventOnly(newStatus, event) ==
  [status |-> stored.status, events |-> Append(stored.events, event)]

\* The row and the event are written together, or not at all.
Written(newStatus, event) ==
  [status |-> newStatus, events |-> Append(stored.events, event)]

\* The sequence comes from the events in memory, not from the store.
NextEvent(type) == [seq |-> Len(events) + 1, type |-> type]

\* mutant: the recovery closes the row without an event
InterruptRowOnly == [status |-> "interrupted", events |-> stored.events]

\* interruptRun numbers its event from the stored ones.
InterruptRun ==
  Written("interrupted", [seq |-> Len(stored.events) + 1, type |-> "run.interrupted"])

Locked   == holder # Nobody
Unlocked == holder = Nobody
Ended    == cancelled \/ interrupted \/ finished

\* mutant: a limit is not a failure
StatusOfVerdicts(type) ==
  CASE type = "run.started" -> "running" [] type = "run.completed" -> "completed"
    [] type = "run.failed" -> "failed" [] OTHER -> status

\* Planned events carry the status the run takes when they are recorded.
StatusOf(type) ==
  CASE type = "run.started"                            -> "running"
    [] type = "run.completed"                          -> "completed"
    [] type \in {"run.failed", "run.limit_exceeded"}   -> "failed"
    [] OTHER                                           -> status

-------------------------------------------------------------------------------
Init ==
  /\ stored = [status |-> "created", events |-> <<>>]
  /\ launch = "created" /\ up = TRUE /\ active = FALSE /\ player = "absent"
  /\ planned \in Plans /\ index = 0
  /\ status = "created" /\ events = <<>>
  /\ paused = FALSE /\ step = FALSE /\ cancelled = FALSE
  /\ interrupted = FALSE /\ finished = FALSE /\ speed = 1 /\ wake = FALSE
  /\ holder = Nobody /\ phase = "free" /\ pending = "none"
  /\ ctl = [c \in Controllers |-> "idle"]
  /\ conn = [s \in Clients |-> "off"] /\ chan = [s \in Clients |-> <<>>]
  /\ room = [s \in Clients |-> 0] /\ seen = [s \in Clients |-> <<>>]
  /\ controls = 0 /\ faults = 0 /\ crashes = 0

-------------------------------------------------------------------------------
(* Subscribers: publishLocked, closeSubscribersLocked, eventsAfter.        *)

Live(s) == conn[s] = "live"
Full(s) == Len(chan[s]) >= room[s]

\* mutant: a full channel misses the event and stays open
PublishOrSkip(event, closing) ==
  /\ chan' = [s \in Clients |-> IF Live(s) /\ ~Full(s) THEN Append(chan[s], event)
                                                      ELSE chan[s]]
  /\ conn' = [s \in Clients |-> IF Live(s) /\ closing THEN "closed" ELSE conn[s]]
  /\ UNCHANGED <<room, seen>>

\* Send to every subscriber without waiting; one with a full channel is closed.
Publish(event, closing) ==
  /\ chan' = [s \in Clients |-> IF Live(s) /\ ~Full(s) THEN Append(chan[s], event)
                                                      ELSE chan[s]]
  /\ conn' = [s \in Clients |-> IF Live(s) /\ (closing \/ Full(s)) THEN "closed"
                                                                  ELSE conn[s]]
  /\ UNCHANGED <<room, seen>>

\* mutant: the streams of a run that ends stay open
LeaveSubscribers == UNCHANGED clientVars

CloseSubscribers ==
  /\ conn' = [s \in Clients |-> IF Live(s) THEN "closed" ELSE conn[s]]
  /\ UNCHANGED <<chan, room, seen>>

\* Sequences are contiguous, so the events after a sequence are a suffix.
EventsAfter(history, after) == SubSeq(history, after + 1, Len(history))

\* afterSequence of a client: the last sequence it applied.
LastApplied(s) == IF seen[s] = <<>> THEN 0 ELSE seen[s][Len(seen[s])].seq

-------------------------------------------------------------------------------
(* Manager.Start, called by createRun for a run that is stored as created. *)

StartPersist ==
  /\ launch = "created" /\ up
  /\ stored' = [status |-> "queued", events |-> <<>>]
  /\ launch' = "queued"
  /\ UNCHANGED <<up, active, player, runVars, flagVars, wake, lockVars, ctl, clientVars,
                 boundVars>>

\* UpdateRun reports an error, committed or not: createRun gives up.
StartError ==
  /\ launch = "created" /\ up
  /\ faults < MaxFaults /\ faults' = faults + 1
  /\ stored' \in {stored, [status |-> "queued", events |-> <<>>]}
  /\ launch' = "lost"
  /\ UNCHANGED <<up, active, player, runVars, flagVars, wake, lockVars, ctl, clientVars,
                 controls, crashes>>

StartActivate ==
  /\ launch = "queued" /\ up
  /\ launch' = "started" /\ active' = TRUE /\ player' = "loop"
  /\ status' = "queued"
  /\ UNCHANGED <<stored, up, planned, index, events, flagVars, wake, lockVars, ctl,
                 clientVars, boundVars>>

-------------------------------------------------------------------------------
(* The player: one turn of the loop of play.                               *)

Acquire(who, type) == holder' = who /\ phase' = "write" /\ pending' = type
Release            == holder' = Nobody /\ phase' = "free" /\ pending' = "none"

Exhausted == index >= Len(planned)

\* mutant: a run paused before its first event starts anyway
MayPlayFirst == ~paused \/ step \/ index = 0
MayPlay      == ~paused \/ step

\* Cancelled or interrupted by a control, or nothing is left to play.
PlayReturn ==
  /\ player = "loop" /\ Unlocked
  /\ cancelled \/ interrupted \/ Exhausted
  /\ finished' = (~cancelled /\ ~interrupted)
  /\ CloseSubscribers
  /\ player' = "leaving"
  /\ UNCHANGED <<storeVars, up, active, runVars, paused, step, cancelled, interrupted,
                 speed, wake, lockVars, ctl, boundVars>>

\* Paused without a step permit: unlock and wait on the wake channel.
PlayBlock ==
  /\ player = "loop" /\ Unlocked
  /\ ~cancelled /\ ~interrupted /\ ~Exhausted
  /\ ~MayPlay
  /\ player' = "blocked"
  /\ UNCHANGED <<storeVars, up, active, runVars, flagVars, wake, lockVars, ctl, clientVars,
                 boundVars>>

PlayWake ==
  /\ player = "blocked" /\ wake
  /\ player' = "loop" /\ wake' = FALSE
  /\ UNCHANGED <<storeVars, up, active, runVars, flagVars, lockVars, ctl, clientVars,
                 boundVars>>

\* Take the next planned event, move the status with it, and start to write it.
PlayEvent ==
  /\ player = "loop" /\ Unlocked
  /\ ~cancelled /\ ~interrupted /\ ~Exhausted
  /\ MayPlay
  /\ status' = StatusOf(planned[index + 1])
  /\ Acquire(Player, planned[index + 1])
  /\ UNCHANGED <<storeVars, up, active, player, planned, index, events, flagVars, wake, ctl,
                 clientVars, boundVars>>

\* The planned event is durable: remember it, publish it, go on.
PlayPublish ==
  /\ holder = Player /\ phase = "publish" /\ pending \in Journal!PlannedTypes
  /\ ~(step /\ pending \in Visited)
  /\ events' = Append(events, NextEvent(pending))
  /\ index' = index + 1
  /\ Publish(NextEvent(pending), pending \in Journal!TerminalTypes)
  /\ finished' = (pending \in Journal!TerminalTypes)
  /\ player' = IF pending \in Journal!TerminalTypes THEN "leaving" ELSE "loop"
  /\ Release
  /\ UNCHANGED <<storeVars, up, active, planned, status, paused, step, cancelled,
                 interrupted, speed, wake, ctl, boundVars>>

\* It completes the visit a step was granted for: go back to paused, and write
\* run.paused before the lock is released.
PlayStepDone ==
  /\ holder = Player /\ phase = "publish" /\ pending \in Visited /\ step
  /\ events' = Append(events, NextEvent(pending))
  /\ index' = index + 1
  /\ Publish(NextEvent(pending), FALSE)
  /\ step' = FALSE /\ paused' = TRUE /\ status' = "paused"
  /\ Acquire(Player, "run.paused")
  /\ UNCHANGED <<storeVars, up, active, player, planned, cancelled, interrupted, finished,
                 speed, wake, ctl, boundVars>>

\* The run.paused that ends a step is durable.
PlayStepPaused ==
  /\ holder = Player /\ phase = "publish" /\ pending = "run.paused"
  /\ events' = Append(events, NextEvent(pending))
  /\ Publish(NextEvent(pending), FALSE)
  /\ Release
  /\ UNCHANGED <<storeVars, up, active, player, planned, index, status, flagVars, wake, ctl,
                 boundVars>>

\* The deferred deactivate: the run leaves Manager.active after the unlock.
PlayLeave ==
  /\ player = "leaving"
  /\ player' = "done" /\ active' = FALSE
  /\ UNCHANGED <<storeVars, up, runVars, flagVars, wake, lockVars, ctl, clientVars,
                 boundVars>>

-------------------------------------------------------------------------------
(* appendLocked and interruptLocked, by whoever holds the lock.            *)

WriteOk ==
  /\ phase = "write"
  /\ Accepts(NextEvent(pending))
  /\ stored' = Written(status, NextEvent(pending))
  /\ phase' = "publish"
  /\ UNCHANGED <<launch, up, active, player, runVars, flagVars, wake, holder, pending, ctl,
                 clientVars, boundVars>>

\* The store refuses the event (accepted is false), or it reports an error after
\* the transaction rolled back or, its answer lost, after it committed.
Fails(accepted, committed) ==
  /\ accepted => faults < MaxFaults
  /\ faults'  = IF accepted THEN faults + 1 ELSE faults
  /\ stored' \in IF accepted THEN {stored, committed} ELSE {stored}

WriteError ==
  /\ phase = "write"
  /\ Fails(Accepts(NextEvent(pending)), Written(status, NextEvent(pending)))
  /\ phase' = "interrupt"
  /\ UNCHANGED <<launch, up, active, player, runVars, flagVars, wake, holder, pending, ctl,
                 clientVars, controls, crashes>>

\* mutant: a request that interrupts the run does not deactivate it
DepartPlayerOnly ==
  /\ player' = IF holder = Player THEN "leaving" ELSE player
  /\ ctl' = [c \in Controllers |-> IF holder = c THEN "idle" ELSE ctl[c]]
  /\ Release

\* After the critical section the goroutine deactivates the run and returns.
Depart ==
  /\ player' = IF holder = Player THEN "leaving" ELSE player
  /\ ctl' = [c \in Controllers |-> IF holder = c THEN "leaving" ELSE ctl[c]]
  /\ Release

Interruption == NextEvent("run.interrupted")

\* A second write records the interruption, and it is published.
InterruptRecorded ==
  /\ phase = "interrupt"
  /\ Accepts(Interruption)
  /\ stored' = Written("interrupted", Interruption)
  /\ events' = Append(events, Interruption)
  /\ interrupted' = TRUE /\ status' = "interrupted"
  /\ Publish(Interruption, TRUE)
  /\ Depart
  /\ UNCHANGED <<launch, up, active, planned, index, paused, step, cancelled, finished,
                 speed, wake, boundVars>>

\* The second write fails too (its sequence may be taken): nothing is published.
InterruptUnrecorded ==
  /\ phase = "interrupt"
  /\ Fails(Accepts(Interruption), Written("interrupted", Interruption))
  /\ interrupted' = TRUE /\ status' = "interrupted"
  /\ CloseSubscribers
  /\ Depart
  /\ UNCHANGED <<launch, up, active, planned, index, events, paused, step, cancelled,
                 finished, speed, wake, controls, crashes>>

-------------------------------------------------------------------------------
(* Manager.control and the five operations it runs under the lock.         *)

\* Look the run up in Manager.active; the state is locked later.
ControlLookup(c, op) ==
  /\ ctl[c] = "idle" /\ up /\ active
  /\ controls < MaxControls /\ controls' = controls + 1
  /\ ctl' = [ctl EXCEPT ![c] = op]
  /\ UNCHANGED <<storeVars, up, active, player, runVars, flagVars, wake, lockVars,
                 clientVars, faults, crashes>>

\* The run ended between the lookup and the lock.
ControlTooLate(c) ==
  /\ ctl[c] \in Ops /\ Unlocked /\ Ended
  /\ ctl' = [ctl EXCEPT ![c] = "leaving"]
  /\ UNCHANGED <<storeVars, up, active, player, runVars, flagVars, wake, lockVars,
                 clientVars, boundVars>>

\* The request holds the lock, and the run has not ended.
Entered(c, op) == ctl[c] = op /\ Unlocked /\ ~Ended

\* Nothing to do: a pause of a paused run, a resume or a step of a running one.
ControlNoop(c) ==
  /\ \/ Entered(c, "pause") /\ paused
     \/ Entered(c, "resume") /\ ~paused
     \/ Entered(c, "step") /\ ~paused
  /\ ctl' = [ctl EXCEPT ![c] = "idle"]
  /\ UNCHANGED <<storeVars, up, active, player, runVars, flagVars, wake, lockVars,
                 clientVars, boundVars>>

Pause(c) ==
  /\ Entered(c, "pause") /\ ~paused
  /\ paused' = TRUE /\ status' = "paused"
  /\ Acquire(c, "run.paused")
  /\ UNCHANGED <<storeVars, up, active, player, planned, index, events, step, cancelled,
                 interrupted, finished, speed, wake, ctl, clientVars, boundVars>>

Resume(c) ==
  /\ Entered(c, "resume") /\ paused
  /\ paused' = FALSE /\ step' = FALSE /\ status' = "running"
  /\ Acquire(c, "run.resumed")
  /\ UNCHANGED <<storeVars, up, active, player, planned, index, events, cancelled,
                 interrupted, finished, speed, wake, ctl, clientVars, boundVars>>

\* A permit for one visit; nothing is written until the player uses it.
Step(c) ==
  /\ Entered(c, "step") /\ paused
  /\ step' = TRUE /\ status' = "running"
  /\ wake' = TRUE
  /\ ctl' = [ctl EXCEPT ![c] = "idle"]
  /\ UNCHANGED <<storeVars, up, active, player, planned, index, events, paused, cancelled,
                 interrupted, finished, speed, lockVars, clientVars, boundVars>>

SetSpeed(c) ==
  /\ Entered(c, "speed")
  /\ speed' \in Speeds
  /\ ctl' = [ctl EXCEPT ![c] = "idle"]
  /\ UNCHANGED <<storeVars, up, active, player, runVars, paused, step, cancelled,
                 interrupted, finished, wake, lockVars, clientVars, boundVars>>

Cancel(c) ==
  /\ Entered(c, "cancel")
  /\ cancelled' = TRUE /\ status' = "cancelled"
  /\ Acquire(c, "run.cancelled")
  /\ UNCHANGED <<storeVars, up, active, player, planned, index, events, paused, step,
                 interrupted, finished, speed, wake, ctl, clientVars, boundVars>>

\* mutant: only a cancel wakes the player
ResumePublishNoWake(c) ==
  /\ holder = c /\ phase = "publish"
  /\ events' = Append(events, NextEvent(pending))
  /\ Publish(NextEvent(pending), pending = "run.cancelled")
  /\ wake' = (wake \/ pending = "run.cancelled")
  /\ ctl' = [ctl EXCEPT ![c] = IF cancelled THEN "leaving" ELSE "idle"]
  /\ Release
  /\ UNCHANGED <<storeVars, up, active, player, planned, index, status, flagVars, boundVars>>

\* The control event is durable: publish it, wake the player, unlock.
ControlPublish(c) ==
  /\ holder = c /\ phase = "publish"
  /\ events' = Append(events, NextEvent(pending))
  /\ Publish(NextEvent(pending), pending = "run.cancelled")
  /\ wake' = (wake \/ pending \in {"run.resumed", "run.cancelled"})
  /\ ctl' = [ctl EXCEPT ![c] = IF cancelled THEN "leaving" ELSE "idle"]
  /\ Release
  /\ UNCHANGED <<storeVars, up, active, player, planned, index, status, flagVars, boundVars>>

\* control deactivates a run that has ended, after the unlock.
ControlLeave(c) ==
  /\ ctl[c] = "leaving"
  /\ ctl' = [ctl EXCEPT ![c] = "idle"] /\ active' = FALSE
  /\ UNCHANGED <<storeVars, up, player, runVars, flagVars, wake, lockVars, clientVars,
                 boundVars>>

Control(c) ==
  \/ ControlTooLate(c) \/ ControlNoop(c) \/ Pause(c) \/ Resume(c) \/ Step(c)
  \/ SetSpeed(c) \/ Cancel(c) \/ ControlPublish(c) \/ ControlLeave(c)

-------------------------------------------------------------------------------
(* Manager.Subscribe and liveRun, on behalf of a client that reconnects.   *)

\* Look the run up in Manager.active; the lock, or the store, comes later.
Connect(s) ==
  /\ conn[s] = "off" /\ up
  /\ conn' = [conn EXCEPT ![s] = IF active THEN "attaching" ELSE "replaying"]
  /\ UNCHANGED <<storeVars, up, active, player, runVars, flagVars, wake, lockVars, ctl,
                 chan, room, seen, boundVars>>

\* Under the lock: queue the replay, and register unless the run has ended.
Attach(s) ==
  /\ conn[s] = "attaching" /\ Unlocked
  /\ LET replay == EventsAfter(events, LastApplied(s))
     IN  /\ chan' = [chan EXCEPT ![s] = replay]
         /\ room' = [room EXCEPT ![s] = Len(replay) + Slack]
  /\ conn' = [conn EXCEPT ![s] = IF Ended THEN "closed" ELSE "live"]
  /\ UNCHANGED <<storeVars, up, active, player, runVars, flagVars, wake, lockVars, ctl,
                 seen, boundVars>>

\* The run was not active: replay what the store has, and close.
Replay(s) ==
  /\ conn[s] = "replaying"
  /\ chan' = [chan EXCEPT ![s] = EventsAfter(stored.events, LastApplied(s))]
  /\ conn' = [conn EXCEPT ![s] = "closed"]
  /\ UNCHANGED <<storeVars, up, active, player, runVars, flagVars, wake, lockVars, ctl,
                 room, seen, boundVars>>

\* liveRun sends the next event of the channel and the client applies it.
Receive(s) ==
  /\ conn[s] \in {"live", "closed"} /\ chan[s] # <<>>
  /\ seen' = [seen EXCEPT ![s] = Append(@, Head(chan[s]))]
  /\ chan' = [chan EXCEPT ![s] = Tail(@)]
  /\ UNCHANGED <<storeVars, up, active, player, runVars, flagVars, wake, lockVars, ctl,
                 conn, room, boundVars>>

\* The channel is closed and drained: the stream ends, the client may come back.
Hangup(s) ==
  /\ conn[s] = "closed" /\ chan[s] = <<>>
  /\ conn' = [conn EXCEPT ![s] = "off"] /\ room' = [room EXCEPT ![s] = 0]
  /\ UNCHANGED <<storeVars, up, active, player, runVars, flagVars, wake, lockVars, ctl,
                 chan, seen, boundVars>>

\* The connection breaks with events still queued; liveRun unsubscribes.
Unsubscribe(s) ==
  /\ conn[s] \in {"live", "closed"} /\ Unlocked
  /\ conn' = [conn EXCEPT ![s] = "off"]
  /\ chan' = [chan EXCEPT ![s] = <<>>] /\ room' = [room EXCEPT ![s] = 0]
  /\ UNCHANGED <<storeVars, up, active, player, runVars, flagVars, wake, lockVars, ctl,
                 seen, boundVars>>

-------------------------------------------------------------------------------
(* The process.                                                            *)

\* Everything but the store and what the clients applied is gone.
Crash ==
  /\ up /\ crashes < MaxCrashes /\ crashes' = crashes + 1
  /\ up' = FALSE /\ active' = FALSE
  /\ launch' = IF launch = "started" THEN "started" ELSE "lost"
  /\ player' = IF player = "absent" THEN "absent" ELSE "done"
  /\ events' = <<>> /\ status' = "created" /\ index' = 0
  /\ paused' = FALSE /\ step' = FALSE /\ cancelled' = FALSE
  /\ interrupted' = FALSE /\ finished' = FALSE /\ speed' = 1 /\ wake' = FALSE
  /\ Release
  /\ ctl' = [c \in Controllers |-> "idle"]
  /\ conn' = [s \in Clients |-> "off"] /\ chan' = [s \in Clients |-> <<>>]
  /\ room' = [s \in Clients |-> 0]
  /\ UNCHANGED <<stored, planned, seen, controls, faults>>

\* RecoverInterrupted before the API accepts traffic: it interrupts an active
\* run whose lease row has expired, and no other run.
Restart ==
  /\ ~up /\ up' = TRUE
  /\ \/ /\ LeaseRow /\ stored.status \in Journal!ActiveStatus
        /\ stored' = InterruptRun
     \/ stored' = stored
  /\ UNCHANGED <<launch, active, player, runVars, flagVars, wake, lockVars, ctl,
                 clientVars, boundVars>>

-------------------------------------------------------------------------------
Start  == StartPersist \/ StartError \/ StartActivate
Play   == \/ PlayReturn \/ PlayBlock \/ PlayWake \/ PlayEvent
          \/ PlayPublish \/ PlayStepDone \/ PlayStepPaused \/ PlayLeave
Persist == WriteOk \/ WriteError \/ InterruptRecorded \/ InterruptUnrecorded
Client(s) == \/ Connect(s) \/ Attach(s) \/ Replay(s) \/ Receive(s) \/ Hangup(s)
             \/ Unsubscribe(s)

Next ==
  \/ Start \/ Play \/ Persist
  \/ \E c \in Controllers : Control(c) \/ \E op \in Ops : ControlLookup(c, op)
  \/ \E s \in Clients : Client(s)
  \/ Crash \/ Restart

Spec == Init /\ [][Next]_vars

\* The goroutine and the requests are scheduled, every storage call returns, a
\* crashed process is started again, and a client keeps reconnecting over a
\* network that does not break before every single frame.
Fairness ==
  /\ WF_vars(StartPersist) /\ WF_vars(StartActivate)
  /\ WF_vars(Play) /\ WF_vars(Persist) /\ WF_vars(Restart)
  /\ \A c \in Controllers : WF_vars(Control(c))
  /\ \A s \in Clients :
       /\ WF_vars(Connect(s)) /\ WF_vars(Attach(s)) /\ WF_vars(Replay(s))
       /\ WF_vars(Hangup(s)) /\ SF_vars(Receive(s))

FairSpec == Spec /\ Fairness

-------------------------------------------------------------------------------
ProcessTypes ==
  /\ launch \in {"created", "queued", "started", "lost"}
  /\ up \in BOOLEAN /\ active \in BOOLEAN
  /\ player \in {"absent", "loop", "blocked", "leaving", "done"}
  /\ planned \in Plans /\ index \in Nat
MemoryTypes ==
  /\ status \in Journal!ActiveStatus \cup Journal!TerminalStatus
  /\ events \in Seq(Journal!Event)
  /\ paused \in BOOLEAN /\ step \in BOOLEAN /\ cancelled \in BOOLEAN
  /\ interrupted \in BOOLEAN /\ finished \in BOOLEAN /\ wake \in BOOLEAN
  /\ speed \in Speeds \cup {1}
LockTypes ==
  /\ holder \in Controllers \cup {Player, Nobody}
  /\ phase \in {"free", "write", "publish", "interrupt"}
  /\ pending \in Journal!EventTypes \cup {"none"}
  /\ ctl \in [Controllers -> Ops \cup {"idle", "leaving"}]
StreamTypes ==
  /\ conn \in [Clients -> {"off", "attaching", "replaying", "live", "closed"}]
  /\ chan \in [Clients -> Seq(Journal!Event)]
  /\ room \in [Clients -> Nat]
BoundTypes ==
  /\ controls \in 0..MaxControls /\ faults \in 0..MaxFaults /\ crashes \in 0..MaxCrashes

\* Every variable has its type; a run never takes a status the store does not know.
TypeOK == /\ Journal!TypeOK /\ ProcessTypes /\ MemoryTypes /\ LockTypes /\ StreamTypes
          /\ BoundTypes

\* Sequences of the stored events are 1, 2, 3, ... whatever writes failed.
LogContiguous == Journal!Contiguous

\* The stored status is terminal exactly when the stored log ends in a terminal
\* event, and no event follows one: cancel, the verdict of the plan, the
\* interruption and the recovery at startup never both close a run.
TerminalClosesLog == Journal!TerminalClosesLog

\* What a client has applied, over any number of dropped, broken and reopened
\* streams and crashes, is a prefix of the stored log: no gap, no duplicate, no
\* event that was published and then lost ("durability precedes publication").
SeenIsDurable == Journal!SeenIsDurable

\* Between critical sections a playing run has in memory exactly what is stored;
\* only a granted step is in memory alone, until the next event carries it.
MemoryMatchesStore ==
  player \in {"loop", "blocked", "leaving"} /\ Unlocked /\ ~interrupted =>
    /\ events = stored.events
    /\ status # stored.status => paused /\ step /\ stored.status = "paused"

\* A visit completed on a step permit is the last thing played: the next stored
\* event is the run.paused of the step, or the interruption of the run.
PausedAt(i) ==
  \E j \in 1..(i - 1) : /\ stored.events[j].type = "run.paused"
                        /\ \A k \in (j + 1)..(i - 1) : stored.events[k].type # "run.resumed"
StepStopsAfterOneVisit ==
  \A i \in 1..(Len(stored.events) - 1) :
    stored.events[i].type \in {"node.completed", "node.failed", "node.skipped"} /\ PausedAt(i)
      => stored.events[i + 1].type \in {"run.paused", "run.interrupted"}

\* A stored paused status is true: nothing planned is written over it unless a
\* step was granted since.
PausedIsQuiet ==
  [][stored.status = "paused" /\ stored' # stored
       => \/ stored'.status \in {"paused", "cancelled", "interrupted"}
          \/ pending = "run.resumed"
          \/ holder = Player /\ step]_vars

\* The playback implements the journal: every step of the goroutine, of a
\* request, of a client, of a crash is one step of the journal or none.
JournalSpec == Journal!Spec

\* A run that ended, however it did, leaves Manager.active.
EndedRunIsReleased == Ended ~> ~active

\* No resume, step or cancel is lost by the one-slot wake channel (manager.go:133): a player that
\* may go on does, and a run that is not paused plays to its end, unless it is paused again.  A run that a failed write
\* interrupts is excepted, because Resume and Cancel then return before they wake the player.
ControlsWakePlayer == player = "blocked" /\ (~paused \/ step \/ cancelled) ~> player # "blocked" \/ interrupted
PlaybackEnds ==
  player \in {"loop", "blocked"} /\ ~paused ~> player = "done" \/ paused \/ interrupted
PlayerMovesOn == ControlsWakePlayer /\ PlaybackEnds

\* A client that keeps reconnecting applies the whole log of a closed run.
ClientsCatchUp ==
  \A s \in Clients : stored.status \in Journal!TerminalStatus ~> seen[s] = stored.events

===============================================================================
