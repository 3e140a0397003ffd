-------------------------------- MODULE Incident --------------------------------
(***************************************************************************)
(* The report of a run (incident.Build, read by incident-service.ts) and   *)
(* the state of the run that the Time Machine rebuilds from it at a frame. *)
(*                                                                         *)
(* A frame is the event it shows: its type, its node and its token.  Stored *)
(* sequences are contiguous from 1 (RunJournal), so the sequence of a frame *)
(* is its place.  Of the connections that were traversed only the number is *)
(* kept; what was traversed is in the frame itself.                         *)
(***************************************************************************)
EXTENDS Integers, Sequences, FiniteSets, FiniteSetsExt, SequencesExt

\* The state that an event leaves a node in; "none" for an event that says nothing of a node.
NodeStateFromEvent(type) ==
  CASE type = "node.queued"    -> "queued"
    [] type = "node.started"   -> "running"
    [] type = "node.waiting"   -> "waiting"
    [] type = "node.completed" -> "completed"
    [] type = "node.failed"    -> "failed"
    [] type = "node.skipped"   -> "skipped"
    [] OTHER                   -> "none"

RunStateFromEvent(type, now) ==
  CASE type \in {"run.started", "run.resumed"}                           -> "running"
    [] type \in {"run.failed", "run.limit_exceeded", "run.interrupted"} -> "failed"
    [] type = "run.paused"    -> "paused"
    [] type = "run.completed" -> "completed"
    [] type = "run.cancelled" -> "cancelled"
    [] OTHER                  -> now

VisitEnds(state) == state \in {"completed", "failed", "skipped"}

\* Before the first frame.  open holds the places of activeVisits.
Unplayed == [applied |-> 0, runStatus |-> "created", nodeVisits |-> <<>>, open |-> {}, crossed |-> 0]

Of(frame, visit) == visit.node = frame.node /\ visit.token = frame.token
Correlated(replay, frame) ==
  {i \in 1..Len(replay.nodeVisits) : Of(frame, replay.nodeVisits[i])}

\* mutant: the visits of a node are told apart by the node alone
OpenAtNode(replay, frame) == {i \in replay.open : replay.nodeVisits[i].node = frame.node}
OpenVisits(replay, frame) == replay.open \cap Correlated(replay, frame)

\* The visits after a frame that says something of its node: a queued frame opens a visit, and
\* so does one that finds none; any other frame moves the visit that is open.
Visited(replay, frame) ==
  LET state == NodeStateFromEvent(frame.type)
      mine  == OpenVisits(replay, frame)
      fresh == frame.type = "node.queued" \/ mine = {}
      at    == IF fresh THEN Len(replay.nodeVisits) + 1 ELSE CHOOSE i \in mine : TRUE
      count == IF fresh THEN Cardinality(Correlated(replay, frame)) + 1 ELSE replay.nodeVisits[at].visit
      visit == [node |-> frame.node, token |-> frame.token, visit |-> count, state |-> state,
                lastSequence |-> replay.applied + 1]
  IN  [nodeVisits |-> IF fresh THEN Append(replay.nodeVisits, visit)
                      ELSE [replay.nodeVisits EXCEPT ![at] = visit],
       open |-> IF VisitEnds(state) THEN replay.open \ (mine \cup {at}) ELSE (replay.open \ mine) \cup {at}]

ApplyFrame(replay, frame) ==
  LET seen == IF NodeStateFromEvent(frame.type) = "none" THEN replay ELSE Visited(replay, frame)
  IN  [applied |-> replay.applied + 1, runStatus |-> RunStateFromEvent(frame.type, replay.runStatus),
       nodeVisits |-> seen.nodeVisits, open |-> seen.open,
       crossed |-> replay.crossed + (IF frame.type = "edge.traversed" THEN 1 ELSE 0)]

\* The deltas of the timeline up to the chosen frame, that frame included.
Reconstruct(timeline, index) ==
  LET replay[i \in 0..index] == IF i = 0 THEN Unplayed ELSE ApplyFrame(replay[i - 1], timeline[i])
  IN  replay[index]

\* The frame the report names as the root cause: the first that tells of a failure; 0 for none.
Failures == {"node.failed", "run.failed", "run.limit_exceeded", "run.interrupted"}
RootCause(timeline) ==
  LET failed == {i \in 1..Len(timeline) : timeline[i].type \in Failures}
  IN  IF failed = {} THEN 0 ELSE Min(failed)

\* The frame that a report opens at; 0 when it has no frames.
InitialFrameIndex(timeline) == IF RootCause(timeline) > 0 THEN RootCause(timeline) ELSE Len(timeline)
================================================================================
