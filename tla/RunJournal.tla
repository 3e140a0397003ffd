------------------------------ MODULE RunJournal ------------------------------
(***************************************************************************)
(* What the runtime promises about the recorded history of one run, with   *)
(* no mention of goroutines, locks, control requests or storage errors.    *)
(*                                                                         *)
(* The journal is the pair (status, log) that the repository stores.  It   *)
(* grows by one event at a time, only while the status is active, and the  *)
(* status becomes terminal together with the terminal event.  An observer  *)
(* (a WebSocket client that reconnects with afterSequence) has applied a   *)
(* prefix of the journal, and learns the next event or nothing.            *)
(***************************************************************************)
EXTENDS Naturals, Sequences

CONSTANT Observers      \* the clients that follow the run

VARIABLES status,       \* runs.status
          log,          \* run_events, in order of sequence
          seen          \* seen[o]: the events observer o has applied

journalVars == <<status, log, seen>>

ActiveStatus   == {"created", "queued", "running", "paused", "waiting"}
TerminalStatus == {"completed", "failed", "cancelled", "interrupted"}

PlannedTypes  == {"run.started", "node.queued", "node.started", "node.waiting", "node.skipped",
                  "node.completed", "node.failed", "edge.traversed",
                  "run.completed", "run.failed", "run.limit_exceeded"}
ControlTypes  == {"run.paused", "run.resumed", "run.cancelled", "run.interrupted"}
EventTypes    == PlannedTypes \cup ControlTypes
TerminalTypes == {"run.completed", "run.failed", "run.limit_exceeded",
                  "run.cancelled", "run.interrupted"}

Event == [seq : Nat, type : EventTypes]

IsPrefixOf(s, t) ==
  /\ Len(s) <= Len(t)
  /\ \A i \in 1..Len(s) : s[i] = t[i]

-------------------------------------------------------------------------------
Init ==
  /\ status = "created"
  /\ log = <<>>
  /\ seen = [o \in Observers |-> <<>>]

\* The run leaves "created" for the queue before its first event.
Enqueue ==
  /\ status = "created"
  /\ status' = "queued"
  /\ UNCHANGED <<log, seen>>

\* One durable write: the event and the status that goes with it.
Record(type) ==
  /\ status \in ActiveStatus
  /\ log' = Append(log, [seq |-> Len(log) + 1, type |-> type])
  /\ IF type \in TerminalTypes THEN status' \in TerminalStatus
                               ELSE status' \in ActiveStatus
  /\ UNCHANGED seen

\* An observer applies the first event it has not applied yet.
Observe(o) ==
  /\ Len(seen[o]) < Len(log)
  /\ seen' = [seen EXCEPT ![o] = Append(@, log[Len(@) + 1])]
  /\ UNCHANGED <<status, log>>

Next ==
  \/ Enqueue
  \/ \E type \in EventTypes : Record(type)
  \/ \E o \in Observers : Observe(o)

Spec == Init /\ [][Next]_journalVars

-------------------------------------------------------------------------------
TypeOK ==
  /\ status \in ActiveStatus \cup TerminalStatus
  /\ log \in Seq(Event)
  /\ seen \in [Observers -> Seq(Event)]

\* Sequences are 1, 2, 3, ... with no gap and no repetition.
Contiguous == \A i \in 1..Len(log) : log[i].seq = i

\* Nothing follows a terminal event, and the status is terminal exactly when
\* the last event is.
TerminalClosesLog ==
  /\ \A i \in 1..Len(log) : log[i].type \in TerminalTypes => i = Len(log)
  /\ status \in TerminalStatus <=> Len(log) > 0 /\ log[Len(log)].type \in TerminalTypes

\* An observer never applies an event it could not read back from the store.
SeenIsDurable == \A o \in Observers : IsPrefixOf(seen[o], log)

\* A recorded event is never rewritten, and a closed run never changes again.
HistoryIsFinal ==
  [][/\ IsPrefixOf(log, log')
     /\ status \in TerminalStatus => status' = status /\ log' = log]_<<status, log>>

-------------------------------------------------------------------------------
\* What holds of the journal in every state.

JournalInv == TypeOK /\ Contiguous /\ TerminalClosesLog /\ SeenIsDurable
===============================================================================
