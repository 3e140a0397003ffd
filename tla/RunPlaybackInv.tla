---------------------------- MODULE RunPlaybackInv ----------------------------
(***************************************************************************)
(* The inductive invariant of RunPlayback: what is true at every point of  *)
(* every critical section, from which the safety properties follow.        *)
(***************************************************************************)
EXTENDS RunPlayback

\* The goroutine of play exists and has not been told to return.
Playing == player \in {"loop", "blocked"}

\* The state of the run is in this process: it is played, or it has ended.
InMemory == Playing \/ Ended

\* Before Start has activated the run, nobody but createRun knows it.
NotStarted ==
  launch \in {"created", "queued"} =>
    /\ up /\ ~active /\ player = "absent" /\ phase = "free" /\ events = <<>> /\ ~Ended
    /\ ctl = [c \in Controllers |-> "idle"]
    /\ conn \in [Clients -> {"off", "replaying", "closed"}]
    /\ stored.status = launch /\ stored.events = <<>>

\* state.mu: who holds it, what is being written, and that the run has not ended.
LockInv ==
  /\ phase = "free" <=> holder = Nobody
  /\ phase # "free" => /\ Playing /\ ~interrupted /\ ~finished
                       /\ cancelled => pending = "run.cancelled"
                       /\ pending \in Journal!EventTypes
                       /\ pending = "run.cancelled" => cancelled
  /\ holder = Player => player = "loop" /\ pending \notin {"run.resumed", "run.cancelled"}
  /\ holder \in Controllers => /\ ctl[holder] \in Ops
                               /\ pending \in {"run.paused", "run.resumed", "run.cancelled"}

\* Whoever found the run in Manager.active has a state that is being played or
\* has ended: nobody acts on a run that a crash took away.
HandleInv ==
  /\ active => InMemory
  /\ \A c \in Controllers : ctl[c] # "idle" => InMemory
  /\ \A s \in Clients : conn[s] = "attaching" => InMemory
  /\ player = "leaving" => Ended
  /\ Playing => ~finished
  /\ ~up => player \in {"absent", "done"} /\ ~Ended /\ launch \in {"started", "lost"}

\* The status in memory is the one the event being written calls for.
StatusInv ==
  /\ phase = "free" /\ ~Ended => status \in Journal!ActiveStatus
  /\ phase \in {"write", "publish"} =>
       (pending \in Journal!TerminalTypes <=> status \in Journal!TerminalStatus)

\* The events in memory are the stored ones, but for the event being written and
\* for what a failed write may have left in the store.
MemoryInv ==
  /\ Journal!IsPrefixOf(events, stored.events)
  /\ Playing /\ ~interrupted /\ phase \in {"free", "write"} => events = stored.events
  /\ phase = "publish" => stored.events = Append(events, NextEvent(pending))

\* What is queued follows, in the history, what has been applied.
Delivers(history, queued, applied) ==
  /\ Len(applied) + Len(queued) <= Len(history)
  /\ \A i \in 1..Len(queued) : queued[i] = history[Len(applied) + i]

\* A stream delivers the stored events that follow what its client has applied,
\* and a live one all that are in memory.
StreamInv ==
  \A s \in Clients :
    /\ conn[s] \in {"live", "closed"} => Delivers(stored.events, chan[s], seen[s])
    /\ conn[s] = "live" => Len(seen[s]) + Len(chan[s]) = Len(events)

IInv == /\ TypeOK /\ NotStarted /\ LockInv /\ HandleInv /\ StatusInv
        /\ LogContiguous /\ TerminalClosesLog /\ SeenIsDurable /\ MemoryInv /\ StreamInv
-------------------------------------------------------------------------------
(* What IInv leaves open: the status while a run is paused or stepped.     *)

\* Between critical sections the memory is what is stored, but for a granted step.
Settled ==
  /\ events = stored.events
  /\ status # stored.status => step /\ stored.status = "paused"

\* The pause flags and the status of a run that nobody is writing.
Flags ==
  /\ step => status = "running"
  /\ paused /\ ~step <=> status = "paused"

\* The status that goes with the event being written: nothing planned is played in
\* a pause but by a step.
WritesFlags ==
  /\ pending \in Journal!PlannedTypes =>
       /\ paused => step
       /\ status # "paused"
       /\ step /\ pending \notin Journal!TerminalTypes => status = "running"
       /\ phase = "write" /\ ~step => stored.status # "paused"
  /\ pending = "run.paused"    => paused /\ ~step /\ status = "paused"
  /\ pending = "run.resumed"   => ~paused /\ ~step /\ status = "running"
  /\ pending = "run.cancelled" => status = "cancelled"
  /\ pending # "run.interrupted"
  /\ phase = "publish" => stored.status = status

PauseInv ==
  /\ step => paused
  /\ player = "absent" => ~paused
  /\ player \in {"loop", "blocked", "leaving"} /\ Unlocked /\ ~interrupted => Settled
  /\ Playing /\ Unlocked /\ ~Ended => Flags
  /\ phase \in {"write", "publish"} => WritesFlags

\* The log ends in a pause that was not resumed.
LogPaused == PausedAt(Len(stored.events) + 1)

\* The log ends in a visit played in a pause.
LastVisitPaused ==
  LET n == Len(stored.events)
  IN  n > 0 /\ stored.events[n].type \in Visited /\ PausedAt(n)

\* What the log says of the pause is known in memory, and a visit played in a pause
\* is followed by the pause that ends the step.
LogInv ==
  /\ Playing /\ Unlocked /\ ~Ended /\ LogPaused => paused
  /\ phase \in {"write", "publish"} /\ LogPaused =>
       /\ pending \in Journal!PlannedTypes => step
       /\ phase = "publish" => pending # "run.resumed"
  /\ LastVisitPaused => \/ phase = "publish" /\ pending \in Visited /\ step
                        \/ phase = "write" /\ pending = "run.paused"
                        \/ phase = "interrupt"
                        \/ phase = "free" /\ (interrupted \/ ~Playing)
  /\ StepStopsAfterOneVisit
===============================================================================
