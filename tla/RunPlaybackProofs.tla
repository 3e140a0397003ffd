--------------------------- MODULE RunPlaybackProofs --------------------------
(* Proofs about RunPlayback, for every value of its constants.              *)
EXTENDS RunPlaybackInv, SequenceTheorems, TLAPS

-------------------------------------------------------------------------------
(* The journal, of every stored run and every set of clients.               *)

\* Appending an element keeps every prefix.
LEMMA AppendPrefix ==
  ASSUME NEW S, NEW s \in Seq(S), NEW t \in Seq(S), NEW e \in S, Journal!IsPrefixOf(s, t)
  PROVE  Journal!IsPrefixOf(s, Append(t, e))
BY DEF Journal!IsPrefixOf

\* The journal starts in its invariant.
LEMMA JournalInit ==
  ASSUME Journal!Init
  PROVE  Journal!JournalInv
<1>1. Journal!TypeOK
  BY EmptySeq DEF Journal!Init, Journal!TypeOK, Journal!ActiveStatus
<1>2. QED
  BY <1>1 DEF Journal!Init, Journal!JournalInv, Journal!Contiguous, Journal!TerminalClosesLog, Journal!SeenIsDurable,
              Journal!IsPrefixOf,
              Journal!TerminalStatus

\* One recorded event keeps the journal contiguous, closed once and readable.
LEMMA RecordStep ==
  ASSUME Journal!JournalInv, NEW type \in Journal!EventTypes, Journal!Record(type)
  PROVE  Journal!JournalInv'
<1> DEFINE event == [seq |-> Len(stored.events) + 1, type |-> type]
<1>1. /\ stored.events \in Seq(Journal!Event) /\ event \in Journal!Event
      /\ stored'.events = Append(stored.events, event) /\ seen' = seen
  BY DEF Journal!JournalInv, Journal!TypeOK, Journal!Record, Journal!Event
<1>2. Journal!TypeOK'
  BY <1>1 DEF Journal!JournalInv, Journal!TypeOK, Journal!Record
<1>3. Journal!Contiguous'
  BY <1>1 DEF Journal!JournalInv, Journal!Contiguous
<1>4. Journal!TerminalClosesLog'
  <2>1. \A i \in 1..Len(stored.events) : stored.events[i].type \notin Journal!TerminalTypes
    BY <1>1 DEF Journal!JournalInv, Journal!TerminalClosesLog, Journal!Record, Journal!ActiveStatus, Journal!TerminalStatus
  <2>2. stored'.status \in Journal!TerminalStatus <=> type \in Journal!TerminalTypes
    BY DEF Journal!Record, Journal!ActiveStatus, Journal!TerminalStatus
  <2>3. QED
    BY <1>1, <2>1, <2>2 DEF Journal!TerminalClosesLog
<1>5. Journal!SeenIsDurable'
  BY <1>1, AppendPrefix DEF Journal!JournalInv, Journal!TypeOK, Journal!SeenIsDurable
<1>6. QED
  BY <1>2, <1>3, <1>4, <1>5 DEF Journal!JournalInv

\* An observer that applies the next event has still applied a prefix.
LEMMA ObserveStep ==
  ASSUME Journal!JournalInv, NEW o \in Clients, Journal!Observe(o)
  PROVE  Journal!JournalInv'
<1>1. /\ stored.events \in Seq(Journal!Event) /\ seen[o] \in Seq(Journal!Event)
      /\ Len(seen[o]) + 1 \in 1..Len(stored.events)
      /\ stored.events[Len(seen[o]) + 1] \in Journal!Event
  BY ElementOfSeq DEF Journal!JournalInv, Journal!TypeOK, Journal!Observe
<1>2. Journal!IsPrefixOf(Append(seen[o], stored.events[Len(seen[o]) + 1]), stored.events)
  BY <1>1 DEF Journal!JournalInv, Journal!SeenIsDurable, Journal!IsPrefixOf
<1>3. Journal!TypeOK'
  BY <1>1 DEF Journal!JournalInv, Journal!TypeOK, Journal!Observe
<1>4. Journal!SeenIsDurable'
  BY <1>2 DEF Journal!JournalInv, Journal!TypeOK, Journal!SeenIsDurable, Journal!Observe
<1>5. Journal!Contiguous' /\ Journal!TerminalClosesLog'
  BY DEF Journal!JournalInv, Journal!Contiguous, Journal!TerminalClosesLog, Journal!Observe
<1>6. QED
  BY <1>3, <1>4, <1>5 DEF Journal!JournalInv

\* Every step of the journal preserves its invariant.
LEMMA JournalStep ==
  ASSUME Journal!JournalInv, [Journal!Next]_(Journal!journalVars)
  PROVE  Journal!JournalInv'
<1>1. CASE UNCHANGED Journal!journalVars
  BY <1>1 DEF Journal!journalVars, Journal!JournalInv, Journal!TypeOK, Journal!Contiguous, Journal!TerminalClosesLog,
              Journal!SeenIsDurable
<1>2. CASE Journal!Enqueue
  BY <1>2 DEF Journal!Enqueue, Journal!JournalInv, Journal!TypeOK, Journal!Contiguous, Journal!TerminalClosesLog,
              Journal!SeenIsDurable,
              Journal!ActiveStatus, Journal!TerminalStatus
<1>3. QED
  BY <1>1, <1>2, RecordStep, ObserveStep DEF Journal!Next

\* The journal is contiguous, closed once, and every observer has a prefix of it.
THEOREM JournalSafe == Journal!Spec => []Journal!JournalInv
<1>1. Journal!Init => Journal!JournalInv
  BY JournalInit
<1>2. Journal!JournalInv /\ [Journal!Next]_(Journal!journalVars) => Journal!JournalInv'
  BY JournalStep
<1>3. QED
  BY <1>1, <1>2, PTL DEF Journal!Spec

\* A recorded event is never rewritten, and a closed run never changes again:
\* of every pair (row, events) that the repository may hold.
THEOREM JournalFinal == Journal!Spec => Journal!HistoryIsFinal
<1>1. ASSUME Journal!JournalInv, [Journal!Next]_(Journal!journalVars)
      PROVE  [/\ Journal!IsPrefixOf(stored.events, (stored.events)')
              /\ stored.status \in Journal!TerminalStatus =>
                   (stored.status)' = stored.status /\ (stored.events)' = stored.events]_<<stored.status, stored.events>>
  <2>1. CASE UNCHANGED Journal!journalVars
    BY <2>1 DEF Journal!journalVars
  <2>2. CASE Journal!Enqueue
    BY <2>2 DEF Journal!Enqueue, Journal!IsPrefixOf, Journal!TerminalStatus, Journal!JournalInv, Journal!TypeOK
  <2>3. ASSUME NEW type \in Journal!EventTypes, Journal!Record(type)
        PROVE  Journal!IsPrefixOf(stored.events, (stored.events)') /\ stored.status \notin Journal!TerminalStatus
    BY <2>3, <1>1 DEF Journal!Record, Journal!IsPrefixOf, Journal!ActiveStatus, Journal!TerminalStatus, Journal!JournalInv,
                      Journal!TypeOK, Journal!Event
  <2>4. CASE \E o \in Clients : Journal!Observe(o)
    BY <2>4 DEF Journal!Observe
  <2>5. QED
    BY <1>1, <2>1, <2>2, <2>3, <2>4 DEF Journal!Next
<1>2. QED
  BY <1>1, JournalSafe, PTL DEF Journal!Spec, Journal!HistoryIsFinal

-------------------------------------------------------------------------------
(* Which actions change which variables.                                    *)

\* The stored run changes at the start, at a write, and at the recovery.
LEMMA StoredFrame ==
  ASSUME [Next]_vars
  PROVE  \/ UNCHANGED <<stored>>
         \/ StartPersist \/ StartError \/ WriteOk \/ WriteError \/ InterruptRecorded
         \/ InterruptUnrecorded \/ Restart
BY DEF Next, Start, Play, Persist, Control, Client, vars, storeVars, StartActivate,
       PlayReturn, PlayBlock, PlayWake, PlayEvent, PlayPublish, PlayStepDone,
       PlayStepPaused, PlayLeave, ControlLookup, ControlTooLate, ControlNoop, Pause,
       Resume, Step, SetSpeed, Cancel, ControlPublish, ControlLeave, Connect, Attach,
       Replay, Receive, Hangup, Unsubscribe, Crash

\* createRun, the goroutine and its place in the plan.
LEMMA ProcessFrame ==
  ASSUME [Next]_vars
  PROVE  \/ UNCHANGED <<launch, up, active, player, planned, index>>
         \/ StartPersist \/ StartError \/ StartActivate \/ PlayReturn \/ PlayBlock
         \/ PlayWake \/ PlayEvent \/ PlayPublish \/ PlayStepDone \/ PlayLeave
         \/ InterruptRecorded \/ InterruptUnrecorded \/ Crash \/ Restart
         \/ \E c \in Controllers : ControlLeave(c)
BY DEF Next, Start, Play, Persist, Control, Client, vars, storeVars, runVars,
       PlayStepPaused, WriteOk, WriteError, ControlLookup, ControlTooLate,
       ControlNoop, Pause, Resume, Step, SetSpeed, Cancel, ControlPublish, Connect,
       Attach, Replay, Receive, Hangup, Unsubscribe

\* The run in memory and the flags of its state.
LEMMA MemoryFrame ==
  ASSUME [Next]_vars
  PROVE  \/ UNCHANGED <<status, events, flagVars, wake>>
         \/ StartActivate \/ PlayReturn \/ PlayWake \/ PlayEvent \/ PlayPublish
         \/ PlayStepDone \/ PlayStepPaused \/ InterruptRecorded \/ InterruptUnrecorded \/ Crash
         \/ \E c \in Controllers : Pause(c) \/ Resume(c) \/ Step(c) \/ SetSpeed(c) \/ Cancel(c)
                                   \/ ControlPublish(c)
BY DEF Next, Start, Play, Persist, Control, Client, vars, runVars, flagVars,
       StartPersist, StartError, PlayBlock, PlayLeave, WriteOk, WriteError,
       ControlLookup, ControlTooLate, ControlNoop, ControlLeave, Connect, Attach,
       Replay, Receive, Hangup, Unsubscribe, Restart

\* Who holds the lock, and what the requests are about to do.
LEMMA LockFrame ==
  ASSUME [Next]_vars
  PROVE  \/ UNCHANGED <<lockVars, ctl>>
         \/ PlayEvent \/ PlayPublish \/ PlayStepDone \/ PlayStepPaused \/ WriteOk
         \/ WriteError \/ InterruptRecorded \/ InterruptUnrecorded \/ Crash
         \/ \E c \in Controllers, op \in Ops : ControlLookup(c, op)
         \/ \E c \in Controllers : ControlTooLate(c) \/ ControlNoop(c) \/ Pause(c) \/ Resume(c)
                                   \/ Step(c) \/ SetSpeed(c) \/ Cancel(c) \/ ControlPublish(c)
                                   \/ ControlLeave(c)
BY DEF Next, Start, Play, Persist, Control, Client, vars, lockVars, StartPersist,
       StartError, StartActivate, PlayReturn, PlayBlock, PlayWake, PlayLeave,
       Connect, Attach, Replay, Receive, Hangup, Unsubscribe, Restart

\* The streams, and what the clients applied.
LEMMA StreamFrame ==
  ASSUME [Next]_vars
  PROVE  \/ UNCHANGED <<clientVars>>
         \/ PlayReturn \/ PlayPublish \/ PlayStepDone \/ PlayStepPaused \/ InterruptRecorded
         \/ InterruptUnrecorded \/ Crash
         \/ \E c \in Controllers : ControlPublish(c)
         \/ \E s \in Clients : Connect(s) \/ Attach(s) \/ Replay(s) \/ Receive(s) \/
                               Hangup(s) \/ Unsubscribe(s)
BY DEF Next, Start, Play, Persist, Control, Client, vars, clientVars, StartPersist,
       StartError, StartActivate, PlayBlock, PlayWake, PlayEvent, PlayLeave, WriteOk,
       WriteError, ControlLookup, ControlTooLate, ControlNoop, Pause, Resume, Step,
       SetSpeed, Cancel, ControlLeave, Restart

\* Only the client itself applies an event.
LEMMA SeenFrame ==
  ASSUME [Next]_vars
  PROVE  \/ UNCHANGED <<seen>>
         \/ \E s \in Clients : Receive(s)
BY DEF Next, Start, Play, Persist, Control, Client, vars, clientVars, Publish,
       CloseSubscribers, StartPersist, StartError, StartActivate, PlayReturn,
       PlayBlock, PlayWake, PlayEvent, PlayPublish, PlayStepDone, PlayStepPaused,
       PlayLeave, WriteOk, WriteError, InterruptRecorded, InterruptUnrecorded,
       ControlLookup, ControlTooLate, ControlNoop, Pause, Resume, Step, SetSpeed,
       Cancel, ControlPublish, ControlLeave, Connect, Attach, Replay, Hangup,
       Unsubscribe, Crash, Restart

\* The bounds.
LEMMA BoundFrame ==
  ASSUME [Next]_vars
  PROVE  \/ UNCHANGED <<boundVars>>
         \/ StartError \/ WriteError \/ InterruptUnrecorded \/ Crash
         \/ \E c \in Controllers, op \in Ops : ControlLookup(c, op)
BY DEF Next, Start, Play, Persist, Control, Client, vars, boundVars, StartPersist,
       StartActivate, PlayReturn, PlayBlock, PlayWake, PlayEvent, PlayPublish,
       PlayStepDone, PlayStepPaused, PlayLeave, WriteOk, InterruptRecorded,
       ControlTooLate, ControlNoop, Pause, Resume, Step, SetSpeed, Cancel,
       ControlPublish, ControlLeave, Connect, Attach, Replay, Receive, Hangup,
       Unsubscribe, Restart

-------------------------------------------------------------------------------
(* Types.                                                                   *)

\* createRun, the process and the goroutine.
LEMMA ProcessStep ==
  ASSUME ProcessTypes, [Next]_vars
  PROVE  ProcessTypes'
<1>1. CASE UNCHANGED <<launch, up, active, player, planned, index>>
  BY <1>1 DEF ProcessTypes, storeVars, runVars
<1>2. CASE StartPersist
  BY <1>2 DEF ProcessTypes, storeVars, runVars, StartPersist
<1>3. CASE StartError
  BY <1>3 DEF ProcessTypes, storeVars, runVars, StartError
<1>4. CASE StartActivate
  BY <1>4 DEF ProcessTypes, storeVars, runVars, StartActivate
<1>5. CASE PlayReturn
  BY <1>5 DEF ProcessTypes, storeVars, runVars, PlayReturn
<1>6. CASE PlayBlock
  BY <1>6 DEF ProcessTypes, storeVars, runVars, PlayBlock
<1>7. CASE PlayWake
  BY <1>7 DEF ProcessTypes, storeVars, runVars, PlayWake
<1>8. CASE PlayEvent
  BY <1>8 DEF ProcessTypes, storeVars, runVars, PlayEvent
<1>9. CASE PlayPublish
  BY <1>9 DEF ProcessTypes, storeVars, runVars, PlayPublish
<1>10. CASE PlayStepDone
  BY <1>10 DEF ProcessTypes, storeVars, runVars, PlayStepDone
<1>11. CASE PlayLeave
  BY <1>11 DEF ProcessTypes, storeVars, runVars, PlayLeave
<1>12. CASE InterruptRecorded
  BY <1>12 DEF ProcessTypes, storeVars, runVars, InterruptRecorded, Depart
<1>13. CASE InterruptUnrecorded
  BY <1>13 DEF ProcessTypes, storeVars, runVars, InterruptUnrecorded, Depart
<1>14. ASSUME NEW c \in Controllers, ControlLeave(c) PROVE ProcessTypes'
  BY <1>14 DEF ProcessTypes, storeVars, runVars, ControlLeave
<1>15. CASE Crash
  BY <1>15 DEF ProcessTypes, storeVars, runVars, Crash
<1>16. CASE Restart
  BY <1>16 DEF ProcessTypes, storeVars, runVars, Restart
<1>17. QED
  BY <1>1, <1>2, <1>3, <1>4, <1>5, <1>6, <1>7, <1>8, <1>9, <1>10, <1>11, <1>12, <1>13,
     <1>14, <1>15, <1>16, ProcessFrame

\* What a critical section writes is an event.
LEMMA PendingEventType ==
  ASSUME MemoryTypes, LockInv, phase # "free"
  PROVE  NextEvent(pending) \in Journal!Event
BY DEF MemoryTypes, LockInv, NextEvent, Journal!Event

\* What a shutdown writes is an event.
LEMMA InterruptionType ==
  ASSUME MemoryTypes
  PROVE  Interruption \in Journal!Event
BY DEF MemoryTypes, Interruption, NextEvent, Journal!Event, Journal!EventTypes,
       Journal!ControlTypes

\* The run in memory.
LEMMA MemoryStep ==
  ASSUME MemoryTypes, LockInv, [Next]_vars
  PROVE  MemoryTypes'
<1>1. CASE UNCHANGED <<status, events, flagVars, wake>>
  BY <1>1 DEF MemoryTypes, runVars, flagVars
<1>2. CASE StartActivate
  BY <1>2 DEF MemoryTypes, runVars, flagVars, StartActivate, Journal!ActiveStatus,
     Journal!TerminalStatus
<1>3. CASE PlayReturn
  BY <1>3 DEF MemoryTypes, runVars, flagVars, PlayReturn
<1>4. CASE PlayWake
  BY <1>4 DEF MemoryTypes, runVars, flagVars, PlayWake
<1>5. CASE PlayEvent
  BY <1>5 DEF MemoryTypes, runVars, flagVars, PlayEvent, Journal!ActiveStatus,
     Journal!TerminalStatus, StatusOf
<1>6. CASE PlayPublish
  BY <1>6, PendingEventType DEF MemoryTypes, runVars, flagVars, PlayPublish
<1>7. CASE PlayStepDone
  <2>1. NextEvent(pending) \in Journal!Event
    BY <1>7, PendingEventType DEF PlayStepDone
  <2>2. events' = Append(events, NextEvent(pending)) /\ status' = "paused"
    BY <1>7 DEF PlayStepDone
  <2>3. (events \in Seq(Journal!Event))'
    BY <2>1, <2>2 DEF MemoryTypes
  <2>4. QED
    BY <1>7, <2>2, <2>3 DEF MemoryTypes, PlayStepDone, Journal!ActiveStatus
<1>8. CASE PlayStepPaused
  BY <1>8, PendingEventType DEF MemoryTypes, runVars, flagVars, PlayStepPaused
<1>9. CASE InterruptRecorded
  BY <1>9, InterruptionType DEF MemoryTypes, runVars, flagVars, InterruptRecorded,
     Journal!ActiveStatus, Journal!TerminalStatus
<1>10. CASE InterruptUnrecorded
  BY <1>10 DEF MemoryTypes, runVars, flagVars, InterruptUnrecorded,
     Journal!ActiveStatus, Journal!TerminalStatus
<1>11. ASSUME NEW c \in Controllers, Pause(c) PROVE MemoryTypes'
  BY <1>11 DEF MemoryTypes, runVars, flagVars, Pause, Journal!ActiveStatus,
     Journal!TerminalStatus
<1>12. ASSUME NEW c \in Controllers, Resume(c) PROVE MemoryTypes'
  BY <1>12 DEF MemoryTypes, runVars, flagVars, Resume, Journal!ActiveStatus,
     Journal!TerminalStatus
<1>13. ASSUME NEW c \in Controllers, Step(c) PROVE MemoryTypes'
  BY <1>13 DEF MemoryTypes, runVars, flagVars, Step, Journal!ActiveStatus,
     Journal!TerminalStatus
<1>14. ASSUME NEW c \in Controllers, SetSpeed(c) PROVE MemoryTypes'
  BY <1>14 DEF MemoryTypes, runVars, flagVars, SetSpeed
<1>15. ASSUME NEW c \in Controllers, Cancel(c) PROVE MemoryTypes'
  BY <1>15 DEF MemoryTypes, runVars, flagVars, Cancel, Journal!ActiveStatus,
     Journal!TerminalStatus
<1>16. ASSUME NEW c \in Controllers, ControlPublish(c) PROVE MemoryTypes'
  BY <1>16, PendingEventType DEF MemoryTypes, runVars, flagVars, ControlPublish
<1>17. CASE Crash
  BY <1>17, EmptySeq DEF MemoryTypes, runVars, flagVars, Crash, Journal!ActiveStatus,
     Journal!TerminalStatus
<1>18. QED
  BY <1>1, <1>2, <1>3, <1>4, <1>5, <1>6, <1>7, <1>8, <1>9, <1>10, <1>11, <1>12, <1>13,
     <1>14, <1>15, <1>16, <1>17, MemoryFrame

\* Who holds the lock, and the requests.
LEMMA LockTypeStep ==
  ASSUME ProcessTypes, LockTypes, [Next]_vars
  PROVE  LockTypes'
<1>1. CASE UNCHANGED <<lockVars, ctl>>
  BY <1>1 DEF LockTypes, lockVars
<1>2. CASE PlayEvent
  BY <1>2, PlaybackAssumption DEF LockTypes, lockVars, PlayEvent, Acquire, Player,
     ProcessTypes, Exhausted, Journal!EventTypes
<1>3. CASE PlayPublish
  BY <1>3 DEF LockTypes, lockVars, PlayPublish, Release
<1>4. CASE PlayStepDone
  BY <1>4 DEF LockTypes, lockVars, PlayStepDone, Acquire, Journal!EventTypes,
     Journal!ControlTypes
<1>5. CASE PlayStepPaused
  BY <1>5 DEF LockTypes, lockVars, PlayStepPaused, Release
<1>6. CASE WriteOk
  BY <1>6 DEF LockTypes, lockVars, WriteOk
<1>7. CASE WriteError
  BY <1>7 DEF LockTypes, lockVars, WriteError
<1>8. CASE InterruptRecorded
  BY <1>8 DEF LockTypes, lockVars, InterruptRecorded, Depart, Release
<1>9. CASE InterruptUnrecorded
  BY <1>9 DEF LockTypes, lockVars, InterruptUnrecorded, Depart, Release
<1>10. ASSUME NEW c \in Controllers, NEW op \in Ops, ControlLookup(c, op) PROVE LockTypes'
  BY <1>10 DEF LockTypes, lockVars, ControlLookup
<1>11. ASSUME NEW c \in Controllers, ControlTooLate(c) PROVE LockTypes'
  BY <1>11 DEF LockTypes, lockVars, ControlTooLate
<1>12. ASSUME NEW c \in Controllers, ControlNoop(c) PROVE LockTypes'
  BY <1>12 DEF LockTypes, lockVars, ControlNoop
<1>13. ASSUME NEW c \in Controllers, Pause(c) PROVE LockTypes'
  BY <1>13 DEF LockTypes, lockVars, Pause, Acquire, Journal!EventTypes,
     Journal!ControlTypes
<1>14. ASSUME NEW c \in Controllers, Resume(c) PROVE LockTypes'
  BY <1>14 DEF LockTypes, lockVars, Resume, Acquire, Journal!EventTypes,
     Journal!ControlTypes
<1>15. ASSUME NEW c \in Controllers, Step(c) PROVE LockTypes'
  BY <1>15 DEF LockTypes, lockVars, Step
<1>16. ASSUME NEW c \in Controllers, SetSpeed(c) PROVE LockTypes'
  BY <1>16 DEF LockTypes, lockVars, SetSpeed
<1>17. ASSUME NEW c \in Controllers, Cancel(c) PROVE LockTypes'
  BY <1>17 DEF LockTypes, lockVars, Cancel, Acquire, Journal!EventTypes,
     Journal!ControlTypes
<1>18. ASSUME NEW c \in Controllers, ControlPublish(c) PROVE LockTypes'
  BY <1>18 DEF LockTypes, lockVars, ControlPublish, Release
<1>19. ASSUME NEW c \in Controllers, ControlLeave(c) PROVE LockTypes'
  BY <1>19 DEF LockTypes, lockVars, ControlLeave
<1>20. CASE Crash
  BY <1>20 DEF LockTypes, lockVars, Crash, Release
<1>21. QED
  BY <1>1, <1>2, <1>3, <1>4, <1>5, <1>6, <1>7, <1>8, <1>9, <1>10, <1>11, <1>12, <1>13,
     <1>14, <1>15, <1>16, <1>17, <1>18, <1>19, <1>20, LockFrame

\* The bounds.
LEMMA BoundStep ==
  ASSUME BoundTypes, [Next]_vars
  PROVE  BoundTypes'
<1>1. CASE UNCHANGED <<boundVars>>
  BY <1>1, PlaybackAssumption DEF BoundTypes, boundVars, PlaybackAssumption
<1>2. CASE StartError
  BY <1>2, PlaybackAssumption DEF BoundTypes, boundVars, PlaybackAssumption,
     StartError
<1>3. CASE WriteError
  BY <1>3, PlaybackAssumption DEF BoundTypes, boundVars, PlaybackAssumption,
     WriteError, Fails
<1>4. CASE InterruptUnrecorded
  BY <1>4, PlaybackAssumption DEF BoundTypes, boundVars, PlaybackAssumption,
     InterruptUnrecorded, Fails
<1>5. ASSUME NEW c \in Controllers, NEW op \in Ops, ControlLookup(c, op) PROVE BoundTypes'
  BY <1>5, PlaybackAssumption DEF BoundTypes, boundVars, PlaybackAssumption,
     ControlLookup
<1>6. CASE Crash
  BY <1>6, PlaybackAssumption DEF BoundTypes, boundVars, PlaybackAssumption, Crash
<1>7. QED
  BY <1>1, <1>2, <1>3, <1>4, <1>5, <1>6, BoundFrame

\* The events after any sequence number are a sequence of events.
LEMMA EventsAfterType ==
  ASSUME NEW history \in Seq(Journal!Event), NEW after \in Nat
  PROVE  EventsAfter(history, after) \in Seq(Journal!Event)
<1>1. CASE after + 1 <= Len(history)
  <2>1. after + 1 \in 1..(Len(history) + 1) /\ Len(history) \in after..Len(history)
    BY <1>1
  <2>2. QED
    BY <2>1 DEF EventsAfter
<1>2. CASE after + 1 > Len(history)
  <2>1. SubSeq(history, after + 1, Len(history)) = <<>>
    BY <1>2, SubSeqEmpty
  <2>2. QED
    BY <2>1, EmptySeq DEF EventsAfter
<1>3. QED
  BY <1>1, <1>2

\* What a client sends as afterSequence is a sequence number.
LEMMA LastAppliedType ==
  ASSUME Journal!TypeOK, NEW s \in Clients
  PROVE  LastApplied(s) \in Nat
<1>1. seen[s] \in Seq(Journal!Event)
  BY DEF Journal!TypeOK
<1>2. CASE seen[s] = <<>>
  BY <1>2 DEF LastApplied
<1>3. CASE seen[s] # <<>>
  <2>1. Len(seen[s]) \in 1..Len(seen[s])
    BY <1>1, <1>3
  <2>2. seen[s][Len(seen[s])] \in Journal!Event
    BY <1>1, <2>1, ElementOfSeq
  <2>3. QED
    BY <2>2, <1>3 DEF LastApplied, Journal!Event
<1>4. QED
  BY <1>2, <1>3


\* The streams.
LEMMA StreamTypeStep ==
  ASSUME Journal!TypeOK, MemoryTypes, LockInv, StreamTypes, [Next]_vars
  PROVE  StreamTypes'
<1>1. CASE UNCHANGED <<clientVars>>
  BY <1>1 DEF StreamTypes, clientVars
<1>2. CASE PlayReturn
  BY <1>2 DEF StreamTypes, clientVars, PlayReturn, CloseSubscribers, Live
<1>3. CASE PlayPublish
  <2>1. NextEvent(pending) \in Journal!Event
    BY <1>3, PendingEventType DEF PlayPublish
  <2>2. QED
    BY <1>3, <2>1 DEF StreamTypes, PlayPublish, Publish, Live, Full
<1>4. CASE PlayStepDone
  <2>1. NextEvent(pending) \in Journal!Event
    BY <1>4, PendingEventType DEF PlayStepDone
  <2>2. QED
    BY <1>4, <2>1 DEF StreamTypes, PlayStepDone, Publish, Live, Full
<1>5. CASE PlayStepPaused
  <2>1. NextEvent(pending) \in Journal!Event
    BY <1>5, PendingEventType DEF PlayStepPaused
  <2>2. QED
    BY <1>5, <2>1 DEF StreamTypes, PlayStepPaused, Publish, Live, Full
<1>6. CASE InterruptRecorded
  BY <1>6, InterruptionType DEF StreamTypes, clientVars, InterruptRecorded, Publish,
     Live, Full
<1>7. CASE InterruptUnrecorded
  BY <1>7 DEF StreamTypes, clientVars, InterruptUnrecorded, CloseSubscribers, Live
<1>8. ASSUME NEW c \in Controllers, ControlPublish(c) PROVE StreamTypes'
  <2>1. NextEvent(pending) \in Journal!Event
    BY <1>8, PendingEventType DEF ControlPublish
  <2>2. QED
    BY <1>8, <2>1 DEF StreamTypes, ControlPublish, Publish, Live, Full
<1>9. ASSUME NEW s \in Clients, Connect(s) PROVE StreamTypes'
  BY <1>9 DEF StreamTypes, clientVars, Connect
<1>10. ASSUME NEW s \in Clients, Attach(s) PROVE StreamTypes'
  <2>1. EventsAfter(events, LastApplied(s)) \in Seq(Journal!Event)
    BY EventsAfterType, LastAppliedType DEF MemoryTypes
  <2>2. Len(EventsAfter(events, LastApplied(s))) + Slack \in Nat
    BY <2>1, PlaybackAssumption
  <2>3. QED
    BY <1>10, <2>1, <2>2 DEF StreamTypes, Attach
<1>11. ASSUME NEW s \in Clients, Replay(s) PROVE StreamTypes'
  BY <1>11, EventsAfterType, LastAppliedType DEF StreamTypes, clientVars, Replay,
     Journal!TypeOK
<1>12. ASSUME NEW s \in Clients, Receive(s) PROVE StreamTypes'
  BY <1>12 DEF StreamTypes, clientVars, Receive
<1>13. ASSUME NEW s \in Clients, Hangup(s) PROVE StreamTypes'
  BY <1>13 DEF StreamTypes, clientVars, Hangup
<1>14. ASSUME NEW s \in Clients, Unsubscribe(s) PROVE StreamTypes'
  BY <1>14, EmptySeq DEF StreamTypes, clientVars, Unsubscribe
<1>15. CASE Crash
  BY <1>15, EmptySeq DEF StreamTypes, clientVars, Crash
<1>16. QED
  BY <1>1, <1>2, <1>3, <1>4, <1>5, <1>6, <1>7, <1>8, <1>9, <1>10, <1>11, <1>12, <1>13,
     <1>14, <1>15, StreamFrame

\* A row of the store.
StoredType(run) ==
  /\ run.status \in Journal!ActiveStatus \cup Journal!TerminalStatus
  /\ run.events \in Seq(Journal!Event)

\* A write of the store leaves it typed.
LEMMA WrittenType ==
  ASSUME StoredType(stored), NEW newStatus \in Journal!ActiveStatus \cup Journal!TerminalStatus,
         NEW event \in Journal!Event
  PROVE  StoredType(Written(newStatus, event))
BY DEF StoredType, Written

\* InterruptRun leaves the store typed.
LEMMA InterruptRunType ==
  ASSUME StoredType(stored)
  PROVE  StoredType(InterruptRun)
<1>1. "interrupted" \in Journal!ActiveStatus \cup Journal!TerminalStatus
  BY DEF Journal!TerminalStatus
<1>2. [seq |-> Len(stored.events) + 1, type |-> "run.interrupted"] \in Journal!Event
  BY DEF StoredType, Journal!Event, Journal!EventTypes, Journal!ControlTypes
<1>3. QED
  BY <1>1, <1>2, WrittenType DEF InterruptRun

\* The stored run.
LEMMA StoredStep ==
  ASSUME StoredType(stored), MemoryTypes, LockInv, [Next]_vars
  PROVE  StoredType(stored')
<1>1. CASE UNCHANGED <<stored>>
  BY <1>1
<1>2. CASE StartPersist
  BY <1>2, EmptySeq DEF StartPersist, StoredType, Journal!ActiveStatus
<1>3. CASE StartError
  <2>1. StoredType([status |-> "queued", events |-> <<>>])
    BY EmptySeq DEF StoredType, Journal!ActiveStatus
  <2>2. QED
    BY <1>3, <2>1 DEF StartError
<1>4. CASE WriteOk
  <2>1. stored' \in {stored, Written(status, NextEvent(pending))}
    BY <1>4 DEF WriteOk, Fails
  <2>2. QED
    BY <1>4, <2>1, WrittenType, PendingEventType DEF WriteOk, MemoryTypes, Journal!TerminalStatus
<1>5. CASE WriteError
  <2>1. stored' \in {stored, Written(status, NextEvent(pending))}
    BY <1>5 DEF WriteError, Fails
  <2>2. QED
    BY <1>5, <2>1, WrittenType, PendingEventType DEF WriteError, MemoryTypes, Journal!TerminalStatus
<1>6. CASE InterruptRecorded
  <2>1. stored' \in {stored, Written("interrupted", Interruption)}
    BY <1>6 DEF InterruptRecorded, Fails
  <2>2. QED
    BY <1>6, <2>1, WrittenType, InterruptionType DEF InterruptRecorded, MemoryTypes, Journal!TerminalStatus
<1>7. CASE InterruptUnrecorded
  <2>1. stored' \in {stored, Written("interrupted", Interruption)}
    BY <1>7 DEF InterruptUnrecorded, Fails
  <2>2. QED
    BY <1>7, <2>1, WrittenType, InterruptionType DEF InterruptUnrecorded, MemoryTypes, Journal!TerminalStatus
<1>8. CASE Restart
  BY <1>8, InterruptRunType DEF Restart
<1>9. QED
  BY <1>1, <1>2, <1>3, <1>4, <1>5, <1>6, <1>7, <1>8, StoredFrame

\* What the clients applied.
LEMMA SeenStep ==
  ASSUME Journal!TypeOK, StreamTypes, [Next]_vars
  PROVE  (seen \in [Clients -> Seq(Journal!Event)])'
<1>1. CASE UNCHANGED seen
  BY <1>1 DEF Journal!TypeOK
<1>2. ASSUME NEW s \in Clients, Receive(s) PROVE (seen \in [Clients -> Seq(Journal!Event)])'
  <2>1. Head(chan[s]) \in Journal!Event
    BY <1>2 DEF StreamTypes, Receive
  <2>2. QED
    BY <1>2, <2>1 DEF Journal!TypeOK, Receive
<1>3. QED
  BY <1>1, <1>2, SeenFrame

\* The system starts typed.
LEMMA TypeInit ==
  ASSUME Init
  PROVE  TypeOK
<1>1. Journal!TypeOK
  BY EmptySeq DEF Init, Journal!TypeOK, Journal!ActiveStatus
<1>2. ProcessTypes
  BY DEF Init, ProcessTypes
<1>3. MemoryTypes
  BY EmptySeq DEF Init, MemoryTypes, Journal!ActiveStatus
<1>4. LockTypes
  BY DEF Init, LockTypes
<1>5. StreamTypes
  BY EmptySeq DEF Init, StreamTypes
<1>6. BoundTypes
  BY PlaybackAssumption DEF Init, BoundTypes, PlaybackAssumption
<1>7. QED
  BY <1>1, <1>2, <1>3, <1>4, <1>5, <1>6 DEF TypeOK

\* Every step leaves the system typed.
LEMMA TypeStep ==
  ASSUME TypeOK, LockInv, [Next]_vars
  PROVE  TypeOK'
<1>1. Journal!TypeOK /\ ProcessTypes /\ MemoryTypes /\ LockTypes /\ StreamTypes /\ BoundTypes
  BY DEF TypeOK
<1>2. StoredType(stored)
  BY <1>1 DEF StoredType, Journal!TypeOK
<1>3. Journal!TypeOK'
  BY <1>1, <1>2, StoredStep, SeenStep DEF StoredType, Journal!TypeOK
<1>4. ProcessTypes' /\ MemoryTypes' /\ LockTypes' /\ StreamTypes' /\ BoundTypes'
  BY <1>1, ProcessStep, MemoryStep, LockTypeStep, StreamTypeStep, BoundStep
<1>5. QED
  BY <1>3, <1>4 DEF TypeOK

-------------------------------------------------------------------------------
(* The lock.                                                                *)

\* Planned events are not control events.
LEMMA PlannedEvent ==
  ASSUME ProcessTypes, ~Exhausted
  PROVE  /\ planned[index + 1] \in Journal!PlannedTypes
         /\ planned[index + 1] \in Journal!EventTypes
         /\ planned[index + 1] \notin {"run.paused", "run.resumed", "run.cancelled"}
BY PlaybackAssumption
   DEF PlaybackAssumption, ProcessTypes, Exhausted, Journal!PlannedTypes, Journal!EventTypes

\* Who holds the lock, and what is being written.
LEMMA LockStep ==
  ASSUME TypeOK, LockInv, HandleInv, [Next]_vars
  PROVE  LockInv'
<1>1. CASE UNCHANGED <<lockVars, ctl, launch, up, active, player, planned, index, status, events, flagVars, wake>>
  BY <1>1 DEF LockInv, Playing, runVars, flagVars, lockVars
<1>2. CASE StartPersist
  BY <1>2 DEF LockInv, Playing, runVars, flagVars, lockVars, StartPersist
<1>3. CASE StartError
  BY <1>3 DEF LockInv, Playing, runVars, flagVars, lockVars, StartError
<1>4. CASE StartActivate
  BY <1>4 DEF LockInv, Playing, runVars, flagVars, lockVars, StartActivate
<1>5. CASE PlayReturn
  BY <1>5, PlaybackAssumption DEF LockInv, Playing, runVars, flagVars, lockVars,
     PlayReturn, Unlocked, PlaybackAssumption
<1>6. CASE PlayBlock
  BY <1>6, PlaybackAssumption DEF LockInv, Playing, runVars, flagVars, lockVars,
     PlayBlock, Unlocked, PlaybackAssumption
<1>7. CASE PlayWake
  BY <1>7 DEF LockInv, Playing, runVars, flagVars, lockVars, PlayWake
<1>8. CASE PlayEvent
  BY <1>8, PlannedEvent, PlaybackAssumption DEF LockInv, Playing, runVars, flagVars,
     lockVars, PlayEvent, Acquire, TypeOK, PlaybackAssumption, HandleInv, Unlocked
<1>9. CASE PlayPublish
  BY <1>9, PlaybackAssumption DEF LockInv, Playing, runVars, flagVars, lockVars,
     PlayPublish, Release, PlaybackAssumption
<1>10. CASE PlayStepDone
  BY <1>10, PlaybackAssumption DEF LockInv, Playing, runVars, flagVars, lockVars,
     PlayStepDone, Acquire, PlaybackAssumption, Visited, Journal!EventTypes,
     Journal!ControlTypes
<1>11. CASE PlayStepPaused
  BY <1>11, PlaybackAssumption DEF LockInv, Playing, runVars, flagVars, lockVars,
     PlayStepPaused, Release, PlaybackAssumption
<1>12. CASE PlayLeave
  BY <1>12 DEF LockInv, Playing, runVars, flagVars, lockVars, PlayLeave
<1>13. CASE WriteOk
  BY <1>13 DEF LockInv, Playing, runVars, flagVars, lockVars, WriteOk
<1>14. CASE WriteError
  BY <1>14 DEF LockInv, Playing, runVars, flagVars, lockVars, WriteError
<1>15. CASE InterruptRecorded
  BY <1>15, PlaybackAssumption DEF LockInv, Playing, runVars, flagVars, lockVars,
     InterruptRecorded, Depart, Release, PlaybackAssumption
<1>16. CASE InterruptUnrecorded
  BY <1>16, PlaybackAssumption DEF LockInv, Playing, runVars, flagVars, lockVars,
     InterruptUnrecorded, Depart, Release, PlaybackAssumption
<1>17. ASSUME NEW c \in Controllers, NEW op \in Ops, ControlLookup(c, op) PROVE LockInv'
  BY <1>17 DEF LockInv, Playing, runVars, flagVars, lockVars, ControlLookup, TypeOK,
     LockTypes, Ops
<1>18. ASSUME NEW c \in Controllers, ControlTooLate(c) PROVE LockInv'
  BY <1>18, PlaybackAssumption DEF LockInv, Playing, runVars, flagVars, lockVars,
     ControlTooLate, Unlocked, PlaybackAssumption
<1>19. ASSUME NEW c \in Controllers, ControlNoop(c) PROVE LockInv'
  BY <1>19, PlaybackAssumption DEF LockInv, Playing, runVars, flagVars, lockVars,
     ControlNoop, Entered, Unlocked, Ended, TypeOK, LockTypes, Ops, PlaybackAssumption
<1>20. ASSUME NEW c \in Controllers, Pause(c) PROVE LockInv'
  BY <1>20, PlaybackAssumption DEF LockInv, Playing, runVars, flagVars, lockVars,
     Pause, Entered, Unlocked, Ended, TypeOK, LockTypes, Ops, PlaybackAssumption,
     HandleInv, InMemory, Acquire, Journal!EventTypes, Journal!ControlTypes
<1>21. ASSUME NEW c \in Controllers, Resume(c) PROVE LockInv'
  BY <1>21, PlaybackAssumption DEF LockInv, Playing, runVars, flagVars, lockVars,
     Resume, Entered, Unlocked, Ended, TypeOK, LockTypes, Ops, PlaybackAssumption,
     HandleInv, InMemory, Acquire, Journal!EventTypes, Journal!ControlTypes
<1>22. ASSUME NEW c \in Controllers, Step(c) PROVE LockInv'
  BY <1>22, PlaybackAssumption DEF LockInv, Playing, runVars, flagVars, lockVars,
     Step, Entered, Unlocked, Ended, TypeOK, LockTypes, Ops, PlaybackAssumption
<1>23. ASSUME NEW c \in Controllers, SetSpeed(c) PROVE LockInv'
  BY <1>23, PlaybackAssumption DEF LockInv, Playing, runVars, flagVars, lockVars,
     SetSpeed, Entered, Unlocked, Ended, TypeOK, LockTypes, Ops, PlaybackAssumption
<1>24. ASSUME NEW c \in Controllers, Cancel(c) PROVE LockInv'
  BY <1>24, PlaybackAssumption DEF LockInv, Playing, runVars, flagVars, lockVars,
     Cancel, Entered, Unlocked, Ended, TypeOK, LockTypes, Ops, PlaybackAssumption,
     HandleInv, InMemory, Acquire, Journal!EventTypes, Journal!ControlTypes
<1>25. ASSUME NEW c \in Controllers, ControlPublish(c) PROVE LockInv'
  BY <1>25, PlaybackAssumption DEF LockInv, Playing, runVars, flagVars, lockVars,
     ControlPublish, Release, PlaybackAssumption
<1>26. ASSUME NEW c \in Controllers, ControlLeave(c) PROVE LockInv'
  BY <1>26 DEF LockInv, Playing, runVars, flagVars, lockVars, ControlLeave, TypeOK,
     LockTypes, Ops
<1>27. CASE Crash
  BY <1>27, PlaybackAssumption DEF LockInv, Playing, runVars, flagVars, lockVars,
     Crash, Release, PlaybackAssumption
<1>28. CASE Restart
  BY <1>28 DEF LockInv, Playing, runVars, flagVars, lockVars, Restart
<1>29. QED
  BY <1>1, <1>2, <1>3, <1>4, <1>5, <1>6, <1>7, <1>8, <1>9, <1>10, <1>11, <1>12, <1>13,
     <1>14, <1>15, <1>16, <1>17, <1>18, <1>19, <1>20, <1>21, <1>22, <1>23, <1>24, <1>25,
     <1>26, <1>27, <1>28, LockFrame, ProcessFrame, MemoryFrame

-------------------------------------------------------------------------------
(* The process: before the start, while the run is in memory, after a crash. *)

\* Nothing but createRun happens before the run is activated.
LEMMA NotStartedStep ==
  ASSUME TypeOK, LockInv, NotStarted, [Next]_vars
  PROVE  NotStarted'
<1>1. CASE UNCHANGED <<stored, launch, up, active, player, planned, index, status, events, flagVars, wake, lockVars, ctl, clientVars>>
  BY <1>1 DEF NotStarted, Ended, runVars, flagVars, lockVars, storeVars, clientVars
<1>2. CASE StartPersist
  BY <1>2 DEF NotStarted, Ended, runVars, flagVars, lockVars, storeVars, clientVars,
     StartPersist
<1>3. CASE StartError
  BY <1>3 DEF NotStarted, Ended, runVars, flagVars, lockVars, storeVars, clientVars,
     StartError
<1>4. CASE StartActivate
  BY <1>4 DEF NotStarted, Ended, runVars, flagVars, lockVars, storeVars, clientVars,
     StartActivate
<1>5. CASE PlayReturn
  BY <1>5 DEF NotStarted, Ended, runVars, flagVars, lockVars, storeVars, clientVars,
     PlayReturn
<1>6. CASE PlayBlock
  BY <1>6 DEF NotStarted, Ended, runVars, flagVars, lockVars, storeVars, clientVars,
     PlayBlock
<1>7. CASE PlayWake
  BY <1>7 DEF NotStarted, Ended, runVars, flagVars, lockVars, storeVars, clientVars,
     PlayWake
<1>8. CASE PlayEvent
  BY <1>8 DEF NotStarted, Ended, runVars, flagVars, lockVars, storeVars, clientVars,
     PlayEvent
<1>9. CASE PlayPublish
  BY <1>9 DEF NotStarted, Ended, runVars, flagVars, lockVars, storeVars, clientVars,
     PlayPublish
<1>10. CASE PlayStepDone
  BY <1>10 DEF NotStarted, Ended, runVars, flagVars, lockVars, storeVars, clientVars,
     PlayStepDone
<1>11. CASE PlayStepPaused
  BY <1>11 DEF NotStarted, Ended, runVars, flagVars, lockVars, storeVars, clientVars,
     PlayStepPaused
<1>12. CASE PlayLeave
  BY <1>12 DEF NotStarted, Ended, runVars, flagVars, lockVars, storeVars, clientVars,
     PlayLeave
<1>13. CASE WriteOk
  BY <1>13 DEF NotStarted, Ended, runVars, flagVars, lockVars, storeVars, clientVars,
     WriteOk
<1>14. CASE WriteError
  BY <1>14 DEF NotStarted, Ended, runVars, flagVars, lockVars, storeVars, clientVars,
     WriteError
<1>15. CASE InterruptRecorded
  BY <1>15 DEF NotStarted, Ended, runVars, flagVars, lockVars, storeVars, clientVars,
     InterruptRecorded
<1>16. CASE InterruptUnrecorded
  BY <1>16 DEF NotStarted, Ended, runVars, flagVars, lockVars, storeVars, clientVars,
     InterruptUnrecorded
<1>17. ASSUME NEW c \in Controllers, NEW op \in Ops, ControlLookup(c, op) PROVE NotStarted'
  BY <1>17 DEF NotStarted, Ended, runVars, flagVars, lockVars, storeVars, clientVars,
     ControlLookup
<1>18. ASSUME NEW c \in Controllers, ControlTooLate(c) PROVE NotStarted'
  BY <1>18 DEF NotStarted, Ended, runVars, flagVars, lockVars, storeVars, clientVars,
     ControlTooLate
<1>19. ASSUME NEW c \in Controllers, ControlNoop(c) PROVE NotStarted'
  BY <1>19 DEF NotStarted, Ended, runVars, flagVars, lockVars, storeVars, clientVars,
     ControlNoop, Entered, Ops
<1>20. ASSUME NEW c \in Controllers, Pause(c) PROVE NotStarted'
  BY <1>20 DEF NotStarted, Ended, runVars, flagVars, lockVars, storeVars, clientVars,
     Pause, Entered, Ops
<1>21. ASSUME NEW c \in Controllers, Resume(c) PROVE NotStarted'
  BY <1>21 DEF NotStarted, Ended, runVars, flagVars, lockVars, storeVars, clientVars,
     Resume, Entered, Ops
<1>22. ASSUME NEW c \in Controllers, Step(c) PROVE NotStarted'
  BY <1>22 DEF NotStarted, Ended, runVars, flagVars, lockVars, storeVars, clientVars,
     Step, Entered, Ops
<1>23. ASSUME NEW c \in Controllers, SetSpeed(c) PROVE NotStarted'
  BY <1>23 DEF NotStarted, Ended, runVars, flagVars, lockVars, storeVars, clientVars,
     SetSpeed, Entered, Ops
<1>24. ASSUME NEW c \in Controllers, Cancel(c) PROVE NotStarted'
  BY <1>24 DEF NotStarted, Ended, runVars, flagVars, lockVars, storeVars, clientVars,
     Cancel, Entered, Ops
<1>25. ASSUME NEW c \in Controllers, ControlPublish(c) PROVE NotStarted'
  BY <1>25 DEF NotStarted, Ended, runVars, flagVars, lockVars, storeVars, clientVars,
     ControlPublish
<1>26. ASSUME NEW c \in Controllers, ControlLeave(c) PROVE NotStarted'
  BY <1>26 DEF NotStarted, Ended, runVars, flagVars, lockVars, storeVars, clientVars,
     ControlLeave
<1>27. ASSUME NEW s \in Clients, Connect(s) PROVE NotStarted'
  BY <1>27 DEF NotStarted, Ended, runVars, flagVars, lockVars, storeVars, clientVars,
     Connect
<1>28. ASSUME NEW s \in Clients, Attach(s) PROVE NotStarted'
  BY <1>28 DEF NotStarted, Ended, runVars, flagVars, lockVars, storeVars, clientVars,
     Attach
<1>29. ASSUME NEW s \in Clients, Replay(s) PROVE NotStarted'
  BY <1>29 DEF NotStarted, Ended, runVars, flagVars, lockVars, storeVars, clientVars,
     Replay
<1>30. ASSUME NEW s \in Clients, Receive(s) PROVE NotStarted'
  BY <1>30 DEF NotStarted, Ended, runVars, flagVars, lockVars, storeVars, clientVars,
     Receive
<1>31. ASSUME NEW s \in Clients, Hangup(s) PROVE NotStarted'
  BY <1>31 DEF NotStarted, Ended, runVars, flagVars, lockVars, storeVars, clientVars,
     Hangup
<1>32. ASSUME NEW s \in Clients, Unsubscribe(s) PROVE NotStarted'
  BY <1>32 DEF NotStarted, Ended, runVars, flagVars, lockVars, storeVars, clientVars,
     Unsubscribe
<1>33. CASE Crash
  BY <1>33 DEF NotStarted, Ended, runVars, flagVars, lockVars, storeVars, clientVars,
     Crash
<1>34. CASE Restart
  BY <1>34 DEF NotStarted, Ended, runVars, flagVars, lockVars, storeVars, clientVars,
     Restart
<1>35. QED
  BY <1>1, <1>2, <1>3, <1>4, <1>5, <1>6, <1>7, <1>8, <1>9, <1>10, <1>11, <1>12, <1>13,
     <1>14, <1>15, <1>16, <1>17, <1>18, <1>19, <1>20, <1>21, <1>22, <1>23, <1>24, <1>25,
     <1>26, <1>27, <1>28, <1>29, <1>30, <1>31, <1>32, <1>33, <1>34, StoredFrame,
     ProcessFrame, MemoryFrame, LockFrame, StreamFrame

\* Nobody acts on a run that is not in memory.
LEMMA HandleStep ==
  ASSUME TypeOK, LockInv, NotStarted, HandleInv, [Next]_vars
  PROVE  HandleInv'
<1>1. CASE UNCHANGED <<launch, up, active, player, planned, index, status, events, flagVars, wake, lockVars, ctl, clientVars>>
  BY <1>1 DEF HandleInv, InMemory, Playing, Ended, runVars, flagVars, lockVars,
     storeVars, clientVars
<1>2. CASE StartPersist
  BY <1>2 DEF HandleInv, InMemory, Playing, Ended, runVars, flagVars, lockVars,
     storeVars, clientVars, StartPersist
<1>3. CASE StartError
  BY <1>3 DEF HandleInv, InMemory, Playing, Ended, runVars, flagVars, lockVars,
     storeVars, clientVars, StartError
<1>4. CASE StartActivate
  BY <1>4 DEF HandleInv, InMemory, Playing, Ended, runVars, flagVars, lockVars,
     storeVars, clientVars, StartActivate, NotStarted
<1>5. CASE PlayReturn
  BY <1>5 DEF HandleInv, InMemory, Playing, Ended, runVars, flagVars, lockVars,
     storeVars, clientVars, PlayReturn, CloseSubscribers, Live
<1>6. CASE PlayBlock
  BY <1>6 DEF HandleInv, InMemory, Playing, Ended, runVars, flagVars, lockVars,
     storeVars, clientVars, PlayBlock
<1>7. CASE PlayWake
  BY <1>7 DEF HandleInv, InMemory, Playing, Ended, runVars, flagVars, lockVars,
     storeVars, clientVars, PlayWake
<1>8. CASE PlayEvent
  BY <1>8 DEF HandleInv, InMemory, Playing, Ended, runVars, flagVars, lockVars,
     storeVars, clientVars, PlayEvent
<1>9. CASE PlayPublish
  BY <1>9 DEF HandleInv, InMemory, Playing, Ended, runVars, flagVars, lockVars,
     storeVars, clientVars, PlayPublish, LockInv, Publish, Live
<1>10. CASE PlayStepDone
  BY <1>10 DEF HandleInv, InMemory, Playing, Ended, runVars, flagVars, lockVars,
     storeVars, clientVars, PlayStepDone, LockInv, Publish, Live
<1>11. CASE PlayStepPaused
  BY <1>11 DEF HandleInv, InMemory, Playing, Ended, runVars, flagVars, lockVars,
     storeVars, clientVars, PlayStepPaused, LockInv, Publish, Live
<1>12. CASE PlayLeave
  BY <1>12 DEF HandleInv, InMemory, Playing, Ended, runVars, flagVars, lockVars,
     storeVars, clientVars, PlayLeave
<1>13. CASE WriteOk
  BY <1>13 DEF HandleInv, InMemory, Playing, Ended, runVars, flagVars, lockVars,
     storeVars, clientVars, WriteOk
<1>14. CASE WriteError
  BY <1>14 DEF HandleInv, InMemory, Playing, Ended, runVars, flagVars, lockVars,
     storeVars, clientVars, WriteError
<1>15. CASE InterruptRecorded
  BY <1>15 DEF HandleInv, InMemory, Playing, Ended, runVars, flagVars, lockVars,
     storeVars, clientVars, InterruptRecorded, LockInv, Depart, Publish, Live
<1>16. CASE InterruptUnrecorded
  BY <1>16 DEF HandleInv, InMemory, Playing, Ended, runVars, flagVars, lockVars,
     storeVars, clientVars, InterruptUnrecorded, LockInv, Depart, CloseSubscribers, Live
<1>17. ASSUME NEW c \in Controllers, NEW op \in Ops, ControlLookup(c, op) PROVE HandleInv'
  BY <1>17 DEF HandleInv, InMemory, Playing, Ended, runVars, flagVars, lockVars,
     storeVars, clientVars, ControlLookup
<1>18. ASSUME NEW c \in Controllers, ControlTooLate(c) PROVE HandleInv'
  BY <1>18 DEF HandleInv, InMemory, Playing, Ended, runVars, flagVars, lockVars,
     storeVars, clientVars, ControlTooLate
<1>19. ASSUME NEW c \in Controllers, ControlNoop(c) PROVE HandleInv'
  BY <1>19 DEF HandleInv, InMemory, Playing, Ended, runVars, flagVars, lockVars,
     storeVars, clientVars, ControlNoop, Entered, Ops
<1>20. ASSUME NEW c \in Controllers, Pause(c) PROVE HandleInv'
  BY <1>20 DEF HandleInv, InMemory, Playing, Ended, runVars, flagVars, lockVars,
     storeVars, clientVars, Pause, Entered, Ops
<1>21. ASSUME NEW c \in Controllers, Resume(c) PROVE HandleInv'
  BY <1>21 DEF HandleInv, InMemory, Playing, Ended, runVars, flagVars, lockVars,
     storeVars, clientVars, Resume, Entered, Ops
<1>22. ASSUME NEW c \in Controllers, Step(c) PROVE HandleInv'
  BY <1>22 DEF HandleInv, InMemory, Playing, Ended, runVars, flagVars, lockVars,
     storeVars, clientVars, Step, Entered, Ops
<1>23. ASSUME NEW c \in Controllers, SetSpeed(c) PROVE HandleInv'
  BY <1>23 DEF HandleInv, InMemory, Playing, Ended, runVars, flagVars, lockVars,
     storeVars, clientVars, SetSpeed, Entered, Ops
<1>24. ASSUME NEW c \in Controllers, Cancel(c) PROVE HandleInv'
  BY <1>24 DEF HandleInv, InMemory, Playing, Ended, runVars, flagVars, lockVars,
     storeVars, clientVars, Cancel, Entered, Ops
<1>25. ASSUME NEW c \in Controllers, ControlPublish(c) PROVE HandleInv'
  BY <1>25 DEF HandleInv, InMemory, Playing, Ended, runVars, flagVars, lockVars,
     storeVars, clientVars, ControlPublish, LockInv, Publish, Live
<1>26. ASSUME NEW c \in Controllers, ControlLeave(c) PROVE HandleInv'
  BY <1>26 DEF HandleInv, InMemory, Playing, Ended, runVars, flagVars, lockVars,
     storeVars, clientVars, ControlLeave
<1>27. ASSUME NEW s \in Clients, Connect(s) PROVE HandleInv'
  BY <1>27 DEF HandleInv, InMemory, Playing, Ended, runVars, flagVars, lockVars,
     storeVars, clientVars, Connect
<1>28. ASSUME NEW s \in Clients, Attach(s) PROVE HandleInv'
  BY <1>28 DEF HandleInv, InMemory, Playing, Ended, runVars, flagVars, lockVars,
     storeVars, clientVars, Attach
<1>29. ASSUME NEW s \in Clients, Replay(s) PROVE HandleInv'
  BY <1>29 DEF HandleInv, InMemory, Playing, Ended, runVars, flagVars, lockVars,
     storeVars, clientVars, Replay
<1>30. ASSUME NEW s \in Clients, Receive(s) PROVE HandleInv'
  BY <1>30 DEF HandleInv, InMemory, Playing, Ended, runVars, flagVars, lockVars,
     storeVars, clientVars, Receive
<1>31. ASSUME NEW s \in Clients, Hangup(s) PROVE HandleInv'
  BY <1>31 DEF HandleInv, InMemory, Playing, Ended, runVars, flagVars, lockVars,
     storeVars, clientVars, Hangup
<1>32. ASSUME NEW s \in Clients, Unsubscribe(s) PROVE HandleInv'
  BY <1>32 DEF HandleInv, InMemory, Playing, Ended, runVars, flagVars, lockVars,
     storeVars, clientVars, Unsubscribe
<1>33. CASE Crash
  BY <1>33 DEF HandleInv, InMemory, Playing, Ended, runVars, flagVars, lockVars,
     storeVars, clientVars, Crash
<1>34. CASE Restart
  BY <1>34 DEF HandleInv, InMemory, Playing, Ended, runVars, flagVars, lockVars,
     storeVars, clientVars, Restart
<1>35. QED
  BY <1>1, <1>2, <1>3, <1>4, <1>5, <1>6, <1>7, <1>8, <1>9, <1>10, <1>11, <1>12, <1>13,
     <1>14, <1>15, <1>16, <1>17, <1>18, <1>19, <1>20, <1>21, <1>22, <1>23, <1>24, <1>25,
     <1>26, <1>27, <1>28, <1>29, <1>30, <1>31, <1>32, <1>33, <1>34, ProcessFrame,
     MemoryFrame, LockFrame, StreamFrame

-------------------------------------------------------------------------------
(* Every step is a step of the journal, or none.                            *)

\* A write that the store accepts records one event of the journal.
LEMMA WrittenIsRecord ==
  ASSUME StoredType(stored), NEW type \in Journal!EventTypes, NEW newStatus,
         Accepts(NextEvent(type)), stored' = Written(newStatus, NextEvent(type)), seen' = seen,
         IF type \in Journal!TerminalTypes THEN newStatus \in Journal!TerminalStatus
                                           ELSE newStatus \in Journal!ActiveStatus
  PROVE  Journal!Record(type)
BY DEF StoredType, Journal!Record, Accepts, Written, NextEvent

\* The status in memory goes with the event that is being written.
LEMMA StatusOfPending ==
  ASSUME TypeOK, LockInv, StatusInv, phase = "write"
  PROVE  /\ pending \in Journal!EventTypes
         /\ IF pending \in Journal!TerminalTypes THEN status \in Journal!TerminalStatus
                                                 ELSE status \in Journal!ActiveStatus
BY DEF TypeOK, MemoryTypes, LockInv, StatusInv

\* The interruption is one of the verdicts of a run.
LEMMA InterruptionStatus ==
  /\ "run.interrupted" \in Journal!EventTypes
  /\ "run.interrupted" \in Journal!TerminalTypes /\ "interrupted" \in Journal!TerminalStatus
BY DEF Journal!EventTypes, Journal!ControlTypes, Journal!TerminalTypes, Journal!TerminalStatus

\* A step of the system is a step of the journal, or leaves it alone.
LEMMA StepIsJournalStep ==
  ASSUME IInv, [Next]_vars
  PROVE  [Journal!Next]_(Journal!journalVars)
<1>1. StoredType(stored)
  BY DEF IInv, TypeOK, Journal!TypeOK, StoredType
<1>2. CASE UNCHANGED <<stored, seen>>
  BY <1>2 DEF Journal!journalVars
<1>3. CASE stored' # stored /\ UNCHANGED seen
  <2>1. CASE StartPersist \/ StartError
    <3>1. launch = "created" /\ stored' = [status |-> "queued", events |-> <<>>]
      BY <2>1, <1>3 DEF StartPersist, StartError
    <3>2. Journal!Enqueue
      BY <3>1, <1>3 DEF IInv, NotStarted, Journal!Enqueue
    <3>3. QED
      BY <3>2 DEF Journal!Next
  <2>2. CASE WriteOk \/ WriteError
    <3>1. phase = "write" /\ Accepts(NextEvent(pending))
          /\ stored' = Written(status, NextEvent(pending))
      BY <2>2, <1>3 DEF WriteOk, WriteError, Fails
    <3>2. Journal!Record(pending) /\ pending \in Journal!EventTypes
      BY <1>1, <1>3, <3>1, StatusOfPending, WrittenIsRecord DEF IInv
    <3>3. QED
      BY <3>2 DEF Journal!Next
  <2>3. CASE InterruptRecorded \/ InterruptUnrecorded
    <3>1. Accepts(Interruption) /\ stored' = Written("interrupted", Interruption)
      BY <2>3, <1>3 DEF InterruptRecorded, InterruptUnrecorded, Fails
    <3>2. Journal!Record("run.interrupted")
      BY <1>1, <1>3, <3>1, InterruptionStatus, WrittenIsRecord DEF Interruption
    <3>3. QED
      BY <3>2, InterruptionStatus DEF Journal!Next
  <2>4. CASE Restart
    <3>1. stored.status \in Journal!ActiveStatus /\ stored' = InterruptRun
      BY <2>4, <1>3 DEF Restart
    <3>2. Journal!Record("run.interrupted")
      BY <1>1, <1>3, <3>1, InterruptionStatus
         DEF StoredType, Journal!Record, InterruptRun, Written
    <3>3. QED
      BY <3>2, InterruptionStatus DEF Journal!Next
  <2>5. QED
    BY <1>3, <2>1, <2>2, <2>3, <2>4, StoredFrame
<1>4. ASSUME NEW s \in Clients, Receive(s)
      PROVE  Journal!Observe(s)
  <2>1. stored' = stored
    BY <1>4 DEF Receive, storeVars
  <2>2. seen[s] \in Seq(Journal!Event) /\ chan[s] \in Seq(Journal!Event)
        /\ stored.events \in Seq(Journal!Event)
    BY DEF IInv, TypeOK, StreamTypes, Journal!TypeOK
  <2>3. chan[s] # <<>> /\ conn[s] \in {"live", "closed"}
    BY <1>4 DEF Receive
  <2>4. 1 \in 1..Len(chan[s]) /\ Head(chan[s]) = chan[s][1]
    BY <2>2, <2>3
  <2>5. /\ Len(seen[s]) + Len(chan[s]) <= Len(stored.events)
        /\ chan[s][1] = stored.events[Len(seen[s]) + 1]
    BY <2>3, <2>4 DEF IInv, StreamInv, Delivers
  <2>6. Len(seen[s]) < Len(stored.events)
    <3>1. /\ Len(seen[s]) \in Nat /\ Len(chan[s]) \in Nat /\ Len(stored.events) \in Nat
          /\ Len(chan[s]) > 0
      BY <2>2, <2>3
    <3>2. Len(seen[s]) + Len(chan[s]) <= Len(stored.events)
      BY <2>5
    <3>3. \A m, n, k \in Nat : n > 0 /\ m + n <= k => m < k
      OBVIOUS
    <3>4. QED
      BY <3>1, <3>2, <3>3, Zenon
  <2>7. seen' = [seen EXCEPT ![s] = Append(seen[s], stored.events[Len(seen[s]) + 1])]
    BY <1>4, <2>4, <2>5 DEF Receive
  <2>8. QED
    BY <2>1, <2>6, <2>7 DEF Journal!Observe
<1>5. QED
  BY <1>2, <1>3, <1>4, SeenFrame DEF Journal!Next

-------------------------------------------------------------------------------
(* The status in memory.                                                    *)

\* A verdict, and only a verdict, gives the run a terminal status.
LEMMA PlannedStatus ==
  ASSUME ProcessTypes, ~Exhausted, status \in Journal!ActiveStatus
  PROVE  planned[index + 1] \in Journal!TerminalTypes
           <=> StatusOf(planned[index + 1]) \in Journal!TerminalStatus
<1>1. planned[index + 1] \in Journal!PlannedTypes
  BY PlannedEvent
<1>2. QED
  BY <1>1 DEF StatusOf, Journal!PlannedTypes, Journal!TerminalTypes, Journal!TerminalStatus,
              Journal!ActiveStatus

\* The status in memory goes with the event that is being written.
LEMMA StatusStep ==
  ASSUME TypeOK, NotStarted, LockInv, HandleInv, StatusInv, [Next]_vars
  PROVE  StatusInv'
<1>1. CASE UNCHANGED <<status, events, flagVars, wake, lockVars, ctl>>
  BY <1>1 DEF StatusInv, Ended, runVars, flagVars, lockVars
<1>2. CASE StartActivate
  BY <1>2 DEF StatusInv, Ended, runVars, flagVars, lockVars, StartActivate,
     NotStarted, Journal!ActiveStatus
<1>3. CASE PlayReturn
  BY <1>3 DEF StatusInv, Ended, runVars, flagVars, lockVars, PlayReturn
<1>4. CASE PlayWake
  BY <1>4 DEF StatusInv, Ended, runVars, flagVars, lockVars, PlayWake
<1>5. CASE PlayEvent
  BY <1>5, PlannedStatus DEF StatusInv, Ended, runVars, flagVars, lockVars, PlayEvent,
     Acquire, TypeOK, HandleInv, Playing, Unlocked, LockInv
<1>6. CASE PlayPublish
  BY <1>6 DEF StatusInv, Ended, runVars, flagVars, lockVars, PlayPublish, Release,
     LockInv, TypeOK, MemoryTypes, Journal!TerminalTypes, Journal!TerminalStatus,
     Journal!ActiveStatus
<1>7. CASE PlayStepDone
  BY <1>7 DEF StatusInv, Ended, runVars, flagVars, lockVars, PlayStepDone, Acquire,
     Journal!TerminalTypes, Journal!TerminalStatus, Journal!ActiveStatus
<1>8. CASE PlayStepPaused
  BY <1>8 DEF StatusInv, Ended, runVars, flagVars, lockVars, PlayStepPaused, Release,
     TypeOK, MemoryTypes, Journal!TerminalTypes, Journal!TerminalStatus,
     Journal!ActiveStatus
<1>9. CASE WriteOk
  BY <1>9 DEF StatusInv, Ended, runVars, flagVars, lockVars, WriteOk, LockInv
<1>10. CASE WriteError
  BY <1>10 DEF StatusInv, Ended, runVars, flagVars, lockVars, WriteError
<1>11. CASE InterruptRecorded
  BY <1>11 DEF StatusInv, Ended, runVars, flagVars, lockVars, InterruptRecorded,
     Depart, Release
<1>12. CASE InterruptUnrecorded
  BY <1>12 DEF StatusInv, Ended, runVars, flagVars, lockVars, InterruptUnrecorded,
     Depart, Release
<1>13. ASSUME NEW c \in Controllers, NEW op \in Ops, ControlLookup(c, op) PROVE StatusInv'
  BY <1>13 DEF StatusInv, Ended, runVars, flagVars, lockVars, ControlLookup
<1>14. ASSUME NEW c \in Controllers, ControlTooLate(c) PROVE StatusInv'
  BY <1>14 DEF StatusInv, Ended, runVars, flagVars, lockVars, ControlTooLate
<1>15. ASSUME NEW c \in Controllers, ControlNoop(c) PROVE StatusInv'
  BY <1>15 DEF StatusInv, Ended, runVars, flagVars, lockVars, ControlNoop
<1>16. ASSUME NEW c \in Controllers, Pause(c) PROVE StatusInv'
  BY <1>16 DEF StatusInv, Ended, runVars, flagVars, lockVars, Pause, Acquire,
     Journal!TerminalTypes, Journal!TerminalStatus, Journal!ActiveStatus
<1>17. ASSUME NEW c \in Controllers, Resume(c) PROVE StatusInv'
  BY <1>17 DEF StatusInv, Ended, runVars, flagVars, lockVars, Resume, Acquire,
     Journal!TerminalTypes, Journal!TerminalStatus, Journal!ActiveStatus
<1>18. ASSUME NEW c \in Controllers, Step(c) PROVE StatusInv'
  BY <1>18 DEF StatusInv, Ended, runVars, flagVars, lockVars, Step, Entered, Unlocked,
     Ended, LockInv, Journal!ActiveStatus
<1>19. ASSUME NEW c \in Controllers, SetSpeed(c) PROVE StatusInv'
  BY <1>19 DEF StatusInv, Ended, runVars, flagVars, lockVars, SetSpeed
<1>20. ASSUME NEW c \in Controllers, Cancel(c) PROVE StatusInv'
  BY <1>20 DEF StatusInv, Ended, runVars, flagVars, lockVars, Cancel, Acquire,
     Journal!TerminalTypes, Journal!TerminalStatus, Journal!ActiveStatus
<1>21. ASSUME NEW c \in Controllers, ControlPublish(c) PROVE StatusInv'
  BY <1>21, PlaybackAssumption DEF StatusInv, Ended, runVars, flagVars, lockVars,
     ControlPublish, Release, LockInv, TypeOK, MemoryTypes, PlaybackAssumption,
     Journal!TerminalTypes, Journal!TerminalStatus, Journal!ActiveStatus
<1>22. ASSUME NEW c \in Controllers, ControlLeave(c) PROVE StatusInv'
  BY <1>22 DEF StatusInv, Ended, runVars, flagVars, lockVars, ControlLeave
<1>23. CASE Crash
  BY <1>23 DEF StatusInv, Ended, runVars, flagVars, lockVars, Crash, Release,
     Journal!ActiveStatus
<1>24. QED
  BY <1>1, <1>2, <1>3, <1>4, <1>5, <1>6, <1>7, <1>8, <1>9, <1>10, <1>11, <1>12, <1>13,
     <1>14, <1>15, <1>16, <1>17, <1>18, <1>19, <1>20, <1>21, <1>22, <1>23, MemoryFrame,
     LockFrame

-------------------------------------------------------------------------------
(* The events in memory and the stored ones.                                *)

\* A write adds one event to the stored ones.
LEMMA WrittenPrefix ==
  ASSUME TypeOK, MemoryInv, NEW newStatus, NEW event \in Journal!Event
  PROVE  Journal!IsPrefixOf(events, Written(newStatus, event).events)
<1>1. events \in Seq(Journal!Event) /\ stored.events \in Seq(Journal!Event)
  BY DEF TypeOK, MemoryTypes, Journal!TypeOK
<1>2. QED
  BY <1>1, AppendPrefix DEF MemoryInv, Written

\* A prefix of the same length is the whole.
LEMMA SamePrefix ==
  ASSUME NEW s \in Seq(Journal!Event), NEW t \in Seq(Journal!Event),
         Journal!IsPrefixOf(s, t), Len(s) + 1 = Len(t) + 1
  PROVE  s = t
BY DEF Journal!IsPrefixOf

\* Every list is a prefix of itself, and the empty one of all.
LEMMA ReflexivePrefix ==
  ASSUME NEW s
  PROVE  Journal!IsPrefixOf(s, s) /\ (s \in Seq(Journal!Event) => Journal!IsPrefixOf(<<>>, s))
BY DEF Journal!IsPrefixOf

\* The events in memory are the stored ones, but for a write in progress.
LEMMA MemoryInvStep ==
  ASSUME TypeOK, NotStarted, LockInv, HandleInv, MemoryInv, [Next]_vars
  PROVE  MemoryInv'
<1>1. CASE UNCHANGED <<stored, launch, up, active, player, planned, index, status, events, flagVars, wake, lockVars, ctl>>
  BY <1>1 DEF MemoryInv, NextEvent, Playing, storeVars, runVars, flagVars, lockVars
<1>2. CASE StartPersist
  BY <1>2, ReflexivePrefix DEF MemoryInv, NextEvent, Playing, storeVars, runVars,
     flagVars, lockVars, StartPersist, NotStarted, Journal!IsPrefixOf
<1>3. CASE StartError
  BY <1>3, ReflexivePrefix DEF MemoryInv, NextEvent, Playing, storeVars, runVars,
     flagVars, lockVars, StartError, NotStarted
<1>4. CASE StartActivate
  BY <1>4, ReflexivePrefix DEF MemoryInv, NextEvent, Playing, storeVars, runVars,
     flagVars, lockVars, StartActivate, NotStarted
<1>5. CASE PlayReturn
  BY <1>5 DEF MemoryInv, NextEvent, Playing, storeVars, runVars, flagVars, lockVars,
     PlayReturn
<1>6. CASE PlayBlock
  BY <1>6 DEF MemoryInv, NextEvent, Playing, storeVars, runVars, flagVars, lockVars,
     PlayBlock
<1>7. CASE PlayWake
  BY <1>7 DEF MemoryInv, NextEvent, Playing, storeVars, runVars, flagVars, lockVars,
     PlayWake
<1>8. CASE PlayEvent
  BY <1>8 DEF MemoryInv, NextEvent, Playing, storeVars, runVars, flagVars, lockVars,
     PlayEvent, Acquire, Unlocked, LockInv
<1>9. CASE PlayPublish
  <2>1. events' = stored'.events /\ phase' = "free"
    BY <1>9 DEF MemoryInv, storeVars, PlayPublish, Release
  <2>2. QED
    BY <2>1, ReflexivePrefix DEF MemoryInv
<1>10. CASE PlayStepDone
  <2>1. events' = stored'.events /\ phase' = "write"
    BY <1>10 DEF MemoryInv, storeVars, PlayStepDone, Acquire
  <2>2. QED
    BY <2>1, ReflexivePrefix DEF MemoryInv
<1>11. CASE PlayStepPaused
  <2>1. events' = stored'.events /\ phase' = "free"
    BY <1>11 DEF MemoryInv, storeVars, PlayStepPaused, Release
  <2>2. QED
    BY <2>1, ReflexivePrefix DEF MemoryInv
<1>12. CASE PlayLeave
  BY <1>12 DEF MemoryInv, NextEvent, Playing, storeVars, runVars, flagVars, lockVars,
     PlayLeave
<1>13. CASE WriteOk
  <2>1. stored'.events = Append(stored.events, NextEvent(pending)) /\ phase = "write"
        /\ events' = events /\ NextEvent(pending)' = NextEvent(pending) /\ phase' = "publish"
    BY <1>13 DEF WriteOk, Written, runVars, NextEvent
  <2>2. events = stored.events
    BY <2>1 DEF LockInv, MemoryInv
  <2>3. Journal!IsPrefixOf(events, stored'.events)
    BY <1>13, <2>1, WrittenPrefix, PendingEventType DEF WriteOk, TypeOK
  <2>4. QED
    BY <2>1, <2>2, <2>3 DEF MemoryInv
<1>14. CASE WriteError
  <2>1. stored' \in {stored, Written(status, NextEvent(pending))}
    BY <1>14 DEF WriteError, Fails
  <2>2. Journal!IsPrefixOf(events, stored'.events)
    BY <1>14, <2>1, WrittenPrefix, PendingEventType DEF WriteError, TypeOK, MemoryInv
  <2>3. QED
    BY <1>14, <2>2 DEF MemoryInv, Playing, runVars, flagVars, lockVars, WriteError
<1>15. CASE InterruptRecorded
  <2>1. /\ stored'.events = Append(stored.events, Interruption)
        /\ events' = Append(events, Interruption) /\ phase' = "free" /\ interrupted'
        /\ Len(events) + 1 = Len(stored.events) + 1
    BY <1>15 DEF InterruptRecorded, Written, Depart, Release, Accepts, Interruption, NextEvent
  <2>2. events = stored.events
    BY <2>1, SamePrefix DEF MemoryInv, TypeOK, MemoryTypes, Journal!TypeOK
  <2>3. QED
    BY <2>1, <2>2, ReflexivePrefix DEF MemoryInv
<1>16. CASE InterruptUnrecorded
  <2>1. stored' \in {stored, Written("interrupted", Interruption)}
    BY <1>16 DEF InterruptUnrecorded, Fails
  <2>2. Journal!IsPrefixOf(events, stored'.events)
    BY <1>16, <2>1, WrittenPrefix, InterruptionType DEF InterruptUnrecorded, TypeOK, MemoryInv
  <2>3. QED
    BY <1>16, <2>2 DEF MemoryInv, Playing, runVars, flagVars, lockVars, InterruptUnrecorded, Depart, Release
<1>17. ASSUME NEW c \in Controllers, NEW op \in Ops, ControlLookup(c, op) PROVE MemoryInv'
  BY <1>17 DEF MemoryInv, NextEvent, Playing, storeVars, runVars, flagVars, lockVars,
     ControlLookup
<1>18. ASSUME NEW c \in Controllers, ControlTooLate(c) PROVE MemoryInv'
  BY <1>18 DEF MemoryInv, NextEvent, Playing, storeVars, runVars, flagVars, lockVars,
     ControlTooLate
<1>19. ASSUME NEW c \in Controllers, ControlNoop(c) PROVE MemoryInv'
  BY <1>19 DEF MemoryInv, NextEvent, Playing, storeVars, runVars, flagVars, lockVars,
     ControlNoop
<1>20. ASSUME NEW c \in Controllers, Pause(c) PROVE MemoryInv'
  BY <1>20 DEF MemoryInv, NextEvent, Playing, storeVars, runVars, flagVars, lockVars,
     Pause, Acquire, Entered, Unlocked, LockInv
<1>21. ASSUME NEW c \in Controllers, Resume(c) PROVE MemoryInv'
  BY <1>21 DEF MemoryInv, NextEvent, Playing, storeVars, runVars, flagVars, lockVars,
     Resume, Acquire, Entered, Unlocked, LockInv
<1>22. ASSUME NEW c \in Controllers, Step(c) PROVE MemoryInv'
  BY <1>22 DEF MemoryInv, NextEvent, Playing, storeVars, runVars, flagVars, lockVars,
     Step
<1>23. ASSUME NEW c \in Controllers, SetSpeed(c) PROVE MemoryInv'
  BY <1>23 DEF MemoryInv, NextEvent, Playing, storeVars, runVars, flagVars, lockVars,
     SetSpeed
<1>24. ASSUME NEW c \in Controllers, Cancel(c) PROVE MemoryInv'
  BY <1>24 DEF MemoryInv, NextEvent, Playing, storeVars, runVars, flagVars, lockVars,
     Cancel, Acquire, Entered, Unlocked, LockInv
<1>25. ASSUME NEW c \in Controllers, ControlPublish(c) PROVE MemoryInv'
  <2>1. events' = stored'.events /\ phase' = "free"
    BY <1>25 DEF MemoryInv, storeVars, ControlPublish, Release
  <2>2. QED
    BY <2>1, ReflexivePrefix DEF MemoryInv
<1>26. ASSUME NEW c \in Controllers, ControlLeave(c) PROVE MemoryInv'
  BY <1>26 DEF MemoryInv, NextEvent, Playing, storeVars, runVars, flagVars, lockVars,
     ControlLeave
<1>27. CASE Crash
  <2>1. events' = <<>> /\ stored' = stored /\ phase' = "free" /\ player' \in {"absent", "done"}
    BY <1>27 DEF Crash, Release
  <2>2. stored.events \in Seq(Journal!Event)
    BY DEF TypeOK, Journal!TypeOK
  <2>3. QED
    BY <2>1, <2>2, ReflexivePrefix DEF MemoryInv, Playing
<1>28. CASE Restart
  <2>1. player \in {"absent", "done"} /\ ~Playing /\ phase = "free"
    BY <1>28 DEF Restart, HandleInv, LockInv, Playing
  <2>2. Journal!IsPrefixOf(events, InterruptRun.events)
    <3>1. [seq |-> Len(stored.events) + 1, type |-> "run.interrupted"] \in Journal!Event
      BY InterruptionStatus DEF TypeOK, Journal!TypeOK, Journal!Event
    <3>2. QED
      BY <3>1, WrittenPrefix DEF InterruptRun
  <2>3. ~Playing' /\ phase' = "free" /\ events' = events /\ stored' \in {stored, InterruptRun}
    BY <1>28, <2>1 DEF Restart, Playing, runVars, lockVars
  <2>4. QED
    BY <2>2, <2>3 DEF MemoryInv
<1>29. QED
  BY <1>1, <1>2, <1>3, <1>4, <1>5, <1>6, <1>7, <1>8, <1>9, <1>10, <1>11, <1>12, <1>13,
     <1>14, <1>15, <1>16, <1>17, <1>18, <1>19, <1>20, <1>21, <1>22, <1>23, <1>24, <1>25,
     <1>26, <1>27, <1>28, StoredFrame, ProcessFrame, MemoryFrame, LockFrame

-------------------------------------------------------------------------------
(* The streams.                                                             *)

\* What a stream delivers of a log, it delivers of a longer one.
LEMMA DeliversLonger ==
  ASSUME NEW history \in Seq(Journal!Event), NEW longer \in Seq(Journal!Event),
         NEW queued \in Seq(Journal!Event), NEW applied \in Seq(Journal!Event),
         Journal!IsPrefixOf(history, longer), Delivers(history, queued, applied)
  PROVE  Delivers(longer, queued, applied)
BY DEF Delivers, Journal!IsPrefixOf

\* Publishing the next event to a channel that has all the others.
LEMMA DeliversPublished ==
  ASSUME NEW history \in Seq(Journal!Event), NEW event \in Journal!Event,
         NEW queued \in Seq(Journal!Event), NEW applied \in Seq(Journal!Event),
         Delivers(history, queued, applied), Len(applied) + Len(queued) = Len(history)
  PROVE  /\ Delivers(Append(history, event), Append(queued, event), applied)
         /\ Len(applied) + Len(Append(queued, event)) = Len(Append(history, event))
BY DEF Delivers

\* A channel that has all of a known part of the history.
LEMMA DeliversKnown ==
  ASSUME NEW history \in Seq(Journal!Event), NEW known \in Seq(Journal!Event),
         NEW queued \in Seq(Journal!Event), NEW applied \in Seq(Journal!Event),
         Journal!IsPrefixOf(known, history), Delivers(history, queued, applied),
         Len(applied) + Len(queued) = Len(known)
  PROVE  Delivers(known, queued, applied)
BY DEF Delivers, Journal!IsPrefixOf

\* Applying the first queued event.
LEMMA DeliversApplied ==
  ASSUME NEW history \in Seq(Journal!Event), NEW queued \in Seq(Journal!Event),
         NEW applied \in Seq(Journal!Event), Delivers(history, queued, applied), queued # <<>>
  PROVE  /\ Delivers(history, Tail(queued), Append(applied, Head(queued)))
         /\ Len(Append(applied, Head(queued))) + Len(Tail(queued)) = Len(applied) + Len(queued)
<1>1. Head(queued) \in Journal!Event /\ Len(queued) > 0
  BY EmptySeq
<1>2. /\ Len(Tail(queued)) = Len(queued) - 1 /\ Len(Append(applied, Head(queued))) = Len(applied) + 1
      /\ \A i \in 1..Len(Tail(queued)) : Tail(queued)[i] = queued[i + 1]
  BY <1>1
<1>3. QED
  BY <1>1, <1>2 DEF Delivers

\* A replay: the events of a known part of the history after the last applied.
LEMMA DeliversReplay ==
  ASSUME NEW history \in Seq(Journal!Event), NEW known \in Seq(Journal!Event),
         NEW applied \in Seq(Journal!Event),
         Journal!IsPrefixOf(known, history), Len(applied) <= Len(history)
  PROVE  /\ Delivers(history, EventsAfter(known, Len(applied)), applied)
         /\ Len(applied) <= Len(known) =>
              Len(applied) + Len(EventsAfter(known, Len(applied))) = Len(known)
<1>1. CASE Len(applied) + 1 <= Len(known)
  <2>1. Len(applied) + 1 \in 1..(Len(known) + 1) /\ Len(known) \in Len(applied)..Len(known)
    BY <1>1
  <2>2. /\ Len(EventsAfter(known, Len(applied))) = Len(known) - Len(applied)
        /\ \A i \in 1..(Len(known) - Len(applied)) :
             EventsAfter(known, Len(applied))[i] = known[Len(applied) + i]
    BY <2>1 DEF EventsAfter
  <2>3. QED
    BY <2>2, <1>1 DEF Delivers, Journal!IsPrefixOf
<1>2. CASE Len(applied) + 1 > Len(known)
  <2>1. EventsAfter(known, Len(applied)) = <<>>
    BY <1>2, SubSeqEmpty DEF EventsAfter
  <2>2. QED
    BY <2>1, <1>2 DEF Delivers
<1>3. QED
  BY <1>1, <1>2

\* The sequence a client sends back is the number of events it has applied.
LEMMA LastAppliedIsLen ==
  ASSUME TypeOK, LogContiguous, SeenIsDurable, NEW s \in Clients
  PROVE  LastApplied(s) = Len(seen[s]) /\ Len(seen[s]) <= Len(stored.events)
<1>1. seen[s] \in Seq(Journal!Event) /\ stored.events \in Seq(Journal!Event)
  BY DEF TypeOK, Journal!TypeOK
<1>2. Journal!IsPrefixOf(seen[s], stored.events)
  BY DEF SeenIsDurable, Journal!SeenIsDurable
<1>3. ASSUME seen[s] # <<>> PROVE seen[s][Len(seen[s])].seq = Len(seen[s])
  <2>1. Len(seen[s]) \in 1..Len(seen[s]) /\ Len(seen[s]) \in 1..Len(stored.events)
    BY <1>1, <1>2, <1>3 DEF Journal!IsPrefixOf
  <2>2. QED
    BY <2>1, <1>2 DEF LogContiguous, Journal!Contiguous, Journal!IsPrefixOf
<1>4. QED
  BY <1>1, <1>2, <1>3 DEF LastApplied, Journal!IsPrefixOf

\* The stored events only grow.
LEMMA StoredGrows ==
  ASSUME IInv, [Next]_vars
  PROVE  Journal!IsPrefixOf(stored.events, stored'.events)
<1>1. stored.events \in Seq(Journal!Event)
  BY DEF IInv, TypeOK, Journal!TypeOK
<1>2. [Journal!Next]_(Journal!journalVars)
  BY StepIsJournalStep
<1>3. ASSUME NEW type \in Journal!EventTypes, Journal!Record(type)
      PROVE  Journal!IsPrefixOf(stored.events, stored'.events)
  BY <1>1, <1>3 DEF Journal!Record, Journal!IsPrefixOf
<1>4. QED
  BY <1>2, <1>3, ReflexivePrefix
     DEF Journal!Next, Journal!journalVars, Journal!Enqueue, Journal!Observe

StreamTyped(s) ==
  /\ chan[s] \in Seq(Journal!Event) /\ seen[s] \in Seq(Journal!Event)
  /\ stored.events \in Seq(Journal!Event) /\ events \in Seq(Journal!Event)

\* The streams are typed.
LEMMA StreamsTyped ==
  ASSUME TypeOK, NEW s \in Clients
  PROVE  StreamTyped(s)
BY DEF TypeOK, Journal!TypeOK, MemoryTypes, StreamTypes, StreamTyped

\* A step that gives no stream more than it had, and closes some.
LEMMA StreamKept ==
  ASSUME TypeOK, TypeOK', StreamInv, Journal!IsPrefixOf(stored.events, stored'.events),
         NEW s \in Clients, seen'[s] = seen[s], chan'[s] = chan[s],
         conn'[s] = conn[s] \/ (conn[s] = "live" /\ conn'[s] = "closed"),
         conn'[s] = "live" => Len(events') = Len(events)
  PROVE  /\ conn'[s] \in {"live", "closed"} => Delivers(stored'.events, chan'[s], seen'[s])
         /\ conn'[s] = "live" => Len(seen'[s]) + Len(chan'[s]) = Len(events')
<1>1. StreamTyped(s) /\ StreamTyped(s)'
  BY DEF TypeOK, Journal!TypeOK, MemoryTypes, StreamTypes, StreamTyped
<1>2. QED
  BY <1>1, DeliversLonger DEF StreamInv, StreamTyped

\* A publication of the event that the store has just taken.
LEMMA StreamPublished ==
  ASSUME TypeOK, TypeOK', StreamInv, Journal!IsPrefixOf(stored.events, stored'.events),
         NEW event \in Journal!Event, NEW closing, Publish(event, closing),
         events' = Append(events, event), Journal!IsPrefixOf(events', stored'.events),
         MemoryInv
  PROVE  StreamInv'
<1> SUFFICES ASSUME NEW s \in Clients
             PROVE  /\ conn'[s] \in {"live", "closed"} =>
                         Delivers(stored'.events, chan'[s], seen'[s])
                    /\ conn'[s] = "live" => Len(seen'[s]) + Len(chan'[s]) = Len(events')
  BY DEF StreamInv
<1>1. StreamTyped(s) /\ StreamTyped(s)'
  BY DEF TypeOK, Journal!TypeOK, MemoryTypes, StreamTypes, StreamTyped
<1>2. CASE Live(s) /\ ~Full(s)
  <2>1. /\ Delivers(stored.events, chan[s], seen[s])
        /\ Len(seen[s]) + Len(chan[s]) = Len(events)
    BY <1>2 DEF StreamInv, Live
  <2>2. chan'[s] = Append(chan[s], event) /\ seen'[s] = seen[s]
    BY <1>2 DEF Publish
  <2>3. Delivers(events, chan[s], seen[s])
    BY <1>1, <2>1, DeliversKnown DEF MemoryInv, StreamTyped
  <2>4. Delivers(events', chan'[s], seen'[s]) /\ Len(seen'[s]) + Len(chan'[s]) = Len(events')
    <3>1. /\ Delivers(Append(events, event), Append(chan[s], event), seen[s])
          /\ Len(seen[s]) + Len(Append(chan[s], event)) = Len(Append(events, event))
      <4>1. /\ events \in Seq(Journal!Event) /\ chan[s] \in Seq(Journal!Event)
            /\ seen[s] \in Seq(Journal!Event)
        BY <1>1 DEF StreamTyped
      <4>2. QED
        BY <4>1, <2>1, <2>3, DeliversPublished, Zenon
    <3>2. QED
      BY <2>2, <3>1
  <2>5. Delivers(stored'.events, chan'[s], seen'[s])
    BY <1>1, <2>4, DeliversLonger DEF StreamTyped
  <2>6. QED
    BY <2>4, <2>5
<1>3. CASE ~Live(s) \/ Full(s)
  <2>1. /\ chan'[s] = chan[s] /\ seen'[s] = seen[s]
        /\ conn'[s] = IF Live(s) THEN "closed" ELSE conn[s]
    BY <1>3 DEF Publish, TypeOK, StreamTypes, Live
  <2>2. QED
    BY <2>1, StreamKept DEF Live
<1>4. QED
  BY <1>2, <1>3

\* A step that leaves the streams and the events in memory alone.
LEMMA StreamsKept ==
  ASSUME TypeOK, TypeOK', StreamInv, Journal!IsPrefixOf(stored.events, stored'.events),
         events' = events, UNCHANGED clientVars
  PROVE  StreamInv'
<1>1. \A s \in Clients : seen'[s] = seen[s] /\ chan'[s] = chan[s] /\ conn'[s] = conn[s]
  BY DEF clientVars
<1>2. QED
  BY <1>1, StreamKept DEF StreamInv

\* A step that closes the live streams.
LEMMA StreamsClosed ==
  ASSUME TypeOK, TypeOK', StreamInv, Journal!IsPrefixOf(stored.events, stored'.events),
         events' = events, CloseSubscribers
  PROVE  StreamInv'
<1>1. \A s \in Clients : /\ seen'[s] = seen[s] /\ chan'[s] = chan[s]
                         /\ conn'[s] = IF Live(s) THEN "closed" ELSE conn[s]
  BY DEF CloseSubscribers, TypeOK, StreamTypes
<1>2. \A s \in Clients : conn'[s] = conn[s] \/ (conn[s] = "live" /\ conn'[s] = "closed")
  BY <1>1 DEF Live
<1>3. QED
  BY <1>1, <1>2, StreamKept DEF StreamInv

\* The streams and the events in memory.
LEMMA DeliveryFrame ==
  ASSUME [Next]_vars
  PROVE  \/ UNCHANGED <<clientVars, events>>
         \/ PlayReturn \/ PlayPublish \/ PlayStepDone \/ PlayStepPaused \/ InterruptRecorded
         \/ InterruptUnrecorded \/ Crash
         \/ \E c \in Controllers : ControlPublish(c)
         \/ \E s \in Clients : Connect(s) \/ Attach(s) \/ Replay(s) \/ Receive(s) \/
                               Hangup(s) \/ Unsubscribe(s)
BY DEF Next, Start, Play, Persist, Control, Client, vars, clientVars, runVars,
       StartPersist, StartError, StartActivate, PlayBlock, PlayWake, PlayEvent,
       PlayLeave, WriteOk, WriteError, ControlLookup, ControlTooLate, ControlNoop,
       Pause, Resume, Step, SetSpeed, Cancel, ControlLeave, Restart

\* Every stream delivers the stored events that its client has not applied.
LEMMA StreamInvStep ==
  ASSUME IInv, TypeOK', [Next]_vars
  PROVE  StreamInv'
<1>1. Journal!IsPrefixOf(stored.events, stored'.events)
  BY StoredGrows
<1>2. CASE UNCHANGED <<clientVars, events>>
  BY <1>1, <1>2, StreamsKept DEF IInv
<1>3. CASE PlayReturn \/ InterruptUnrecorded
  BY <1>1, <1>3, StreamsClosed DEF IInv, PlayReturn, InterruptUnrecorded, runVars
<1>4. CASE PlayPublish
  <2>1. /\ NextEvent(pending) \in Journal!Event /\ phase = "publish"
        /\ events' = Append(events, NextEvent(pending)) /\ stored' = stored
        /\ Publish(NextEvent(pending), pending \in Journal!TerminalTypes)
    BY <1>4, PendingEventType DEF IInv, TypeOK, PlayPublish, storeVars
  <2>2. Journal!IsPrefixOf(events', stored'.events)
    BY <2>1, ReflexivePrefix DEF IInv, MemoryInv
  <2>3. QED
    BY <1>1, <2>1, <2>2, StreamPublished DEF IInv
<1>5. CASE PlayStepDone
  <2>1. /\ NextEvent(pending) \in Journal!Event /\ phase = "publish"
        /\ events' = Append(events, NextEvent(pending)) /\ stored' = stored
        /\ Publish(NextEvent(pending), FALSE)
    BY <1>5, PendingEventType DEF IInv, TypeOK, PlayStepDone, storeVars
  <2>2. Journal!IsPrefixOf(events', stored'.events)
    BY <2>1, ReflexivePrefix DEF IInv, MemoryInv
  <2>3. QED
    BY <1>1, <2>1, <2>2, StreamPublished DEF IInv
<1>6. CASE PlayStepPaused
  <2>1. /\ NextEvent(pending) \in Journal!Event /\ phase = "publish"
        /\ events' = Append(events, NextEvent(pending)) /\ stored' = stored
        /\ Publish(NextEvent(pending), FALSE)
    BY <1>6, PendingEventType DEF IInv, TypeOK, PlayStepPaused, storeVars
  <2>2. Journal!IsPrefixOf(events', stored'.events)
    BY <2>1, ReflexivePrefix DEF IInv, MemoryInv
  <2>3. QED
    BY <1>1, <2>1, <2>2, StreamPublished DEF IInv
<1>7. ASSUME NEW c \in Controllers, ControlPublish(c) PROVE StreamInv'
  <2>1. /\ NextEvent(pending) \in Journal!Event /\ phase = "publish"
        /\ events' = Append(events, NextEvent(pending)) /\ stored' = stored
        /\ Publish(NextEvent(pending), pending = "run.cancelled")
    BY <1>7, PendingEventType DEF IInv, TypeOK, ControlPublish, storeVars
  <2>2. Journal!IsPrefixOf(events', stored'.events)
    BY <2>1, ReflexivePrefix DEF IInv, MemoryInv
  <2>3. QED
    BY <1>1, <2>1, <2>2, StreamPublished DEF IInv
<1>8. CASE InterruptRecorded
  <2>1. /\ Interruption \in Journal!Event /\ Publish(Interruption, TRUE)
        /\ events' = Append(events, Interruption)
        /\ stored'.events = Append(stored.events, Interruption)
        /\ Len(events) + 1 = Len(stored.events) + 1
    BY <1>8, InterruptionType
       DEF IInv, TypeOK, InterruptRecorded, Written, Accepts, Interruption, NextEvent
  <2>2. events = stored.events
    BY <2>1, SamePrefix DEF IInv, MemoryInv, TypeOK, MemoryTypes, Journal!TypeOK
  <2>3. Journal!IsPrefixOf(events', stored'.events)
    BY <2>1, <2>2, ReflexivePrefix
  <2>4. QED
    BY <1>1, <2>1, <2>3, StreamPublished DEF IInv
<1>9. ASSUME NEW s \in Clients, Connect(s) PROVE StreamInv'
  BY <1>9 DEF IInv, StreamInv, Connect, storeVars, runVars, TypeOK, StreamTypes
<1>10. ASSUME NEW s \in Clients, Attach(s) PROVE StreamInv'
  <2>1. /\ LastApplied(s) = Len(seen[s]) /\ Len(seen[s]) <= Len(stored.events)
        /\ Journal!IsPrefixOf(events, stored.events) /\ StreamTyped(s)
    BY LastAppliedIsLen, StreamsTyped DEF IInv, MemoryInv
  <2>2. Delivers(stored.events, EventsAfter(events, LastApplied(s)), seen[s])
    BY <2>1, DeliversReplay DEF StreamTyped
  <2>3. ASSUME ~Ended
        PROVE  Len(seen[s]) + Len(EventsAfter(events, LastApplied(s))) = Len(events)
    <3>1. events = stored.events
      BY <2>3, <1>10 DEF Attach, IInv, HandleInv, InMemory, LockInv, MemoryInv, Unlocked, Ended
    <3>2. QED
      BY <2>1, <3>1, DeliversReplay DEF StreamTyped
  <2>4. /\ chan' = [chan EXCEPT ![s] = EventsAfter(events, LastApplied(s))]
        /\ conn' = [conn EXCEPT ![s] = IF Ended THEN "closed" ELSE "live"]
        /\ stored' = stored /\ events' = events /\ seen' = seen
    BY <1>10 DEF Attach, storeVars, runVars
  <2>5. QED
    BY <2>2, <2>3, <2>4 DEF IInv, StreamInv, TypeOK, StreamTypes
<1>11. ASSUME NEW s \in Clients, Replay(s) PROVE StreamInv'
  <2>1. /\ LastApplied(s) = Len(seen[s]) /\ Len(seen[s]) <= Len(stored.events)
        /\ StreamTyped(s)
    BY LastAppliedIsLen, StreamsTyped DEF IInv
  <2>2. Delivers(stored.events, EventsAfter(stored.events, LastApplied(s)), seen[s])
    BY <2>1, DeliversReplay, ReflexivePrefix DEF StreamTyped
  <2>3. /\ chan' = [chan EXCEPT ![s] = EventsAfter(stored.events, LastApplied(s))]
        /\ conn' = [conn EXCEPT ![s] = "closed"]
        /\ stored' = stored /\ events' = events /\ seen' = seen
    BY <1>11 DEF Replay, storeVars, runVars
  <2>4. QED
    BY <2>2, <2>3 DEF IInv, StreamInv, TypeOK, StreamTypes
<1>12. ASSUME NEW s \in Clients, Receive(s) PROVE StreamInv'
  <2>1. /\ StreamTyped(s) /\ conn[s] \in {"live", "closed"} /\ chan[s] # <<>>
        /\ Delivers(stored.events, chan[s], seen[s])
    BY <1>12, StreamsTyped DEF Receive, IInv, StreamInv
  <2>2. /\ Delivers(stored.events, Tail(chan[s]), Append(seen[s], Head(chan[s])))
        /\ Len(Append(seen[s], Head(chan[s]))) + Len(Tail(chan[s])) = Len(seen[s]) + Len(chan[s])
    BY <2>1, DeliversApplied DEF StreamTyped
  <2>3. /\ seen' = [seen EXCEPT ![s] = Append(seen[s], Head(chan[s]))]
        /\ chan' = [chan EXCEPT ![s] = Tail(chan[s])]
        /\ stored' = stored /\ events' = events /\ conn' = conn
    BY <1>12 DEF Receive, storeVars, runVars
  <2>4. QED
    BY <2>2, <2>3 DEF IInv, StreamInv, TypeOK, StreamTypes, Journal!TypeOK
<1>13. ASSUME NEW s \in Clients, Hangup(s) PROVE StreamInv'
  BY <1>13 DEF IInv, StreamInv, Hangup, storeVars, runVars, TypeOK, StreamTypes
<1>14. ASSUME NEW s \in Clients, Unsubscribe(s) PROVE StreamInv'
  BY <1>14 DEF IInv, StreamInv, Unsubscribe, storeVars, runVars, TypeOK, StreamTypes
<1>15. CASE Crash
  BY <1>15 DEF StreamInv, Crash
<1>16. QED
  BY <1>2, <1>3, <1>4, <1>5, <1>6, <1>7, <1>8, <1>9, <1>10, <1>11, <1>12, <1>13, <1>14,
     <1>15, DeliveryFrame

-------------------------------------------------------------------------------
(* The inductive invariant, and what follows from it.                       *)

\* The mapping of the run to the journal: JournalInv of the stored run.
LEMMA JournalInvStep ==
  ASSUME IInv, [Next]_vars
  PROVE  Journal!JournalInv'
<1>1. Journal!JournalInv
  BY DEF IInv, TypeOK, LogContiguous, TerminalClosesLog, SeenIsDurable, Journal!JournalInv
<1>2. [Journal!Next]_(Journal!journalVars)
  BY StepIsJournalStep
<1>3. QED
  BY <1>1, <1>2, JournalStep

\* The system starts in the invariant.
LEMMA InvInit ==
  ASSUME Init
  PROVE  IInv
<1>1. Journal!Init
  BY DEF Init, Journal!Init
<1>2. Journal!JournalInv
  BY <1>1, JournalInit
<1>3. LogContiguous /\ TerminalClosesLog /\ SeenIsDurable
  BY <1>2 DEF LogContiguous, TerminalClosesLog, SeenIsDurable, Journal!JournalInv
<1>4. NotStarted /\ LockInv
  BY PlaybackAssumption DEF Init, NotStarted, LockInv, Ended, PlaybackAssumption
<1>5. HandleInv /\ StatusInv
  BY DEF Init, HandleInv, InMemory, Playing, Ended, StatusInv, Journal!ActiveStatus
<1>6. MemoryInv /\ StreamInv
  BY ReflexivePrefix DEF Init, MemoryInv, StreamInv
<1>7. QED
  BY <1>3, <1>4, <1>5, <1>6, TypeInit DEF IInv

\* Every step preserves the invariant.
LEMMA InvStep ==
  ASSUME IInv, [Next]_vars
  PROVE  IInv'
<1>1. TypeOK'
  BY TypeStep DEF IInv
<1>2. NotStarted' /\ LockInv' /\ HandleInv' /\ StatusInv' /\ MemoryInv'
  BY NotStartedStep, LockStep, HandleStep, StatusStep, MemoryInvStep DEF IInv
<1>3. (LogContiguous /\ TerminalClosesLog /\ SeenIsDurable)'
  BY JournalInvStep DEF LogContiguous, TerminalClosesLog, SeenIsDurable, Journal!JournalInv
<1>4. StreamInv'
  BY <1>1, StreamInvStep
<1>5. QED
  BY <1>1, <1>2, <1>3, <1>4 DEF IInv

\* The inductive invariant holds of every run: the lock, the memory and the
\* streams agree at every point of every critical section.
THEOREM Invariant == Spec => []IInv
<1>1. Init => IInv
  BY InvInit
<1>2. IInv /\ [Next]_vars => IInv'
  BY InvStep
<1>3. QED
  BY <1>1, <1>2, PTL DEF Spec

\* Every variable keeps its type; the store never holds an unknown status.
THEOREM TypeCorrect == Spec => []TypeOK
<1>1. IInv => TypeOK
  BY DEF IInv
<1>2. QED
  BY <1>1, Invariant, PTL

\* The stored sequences are 1, 2, 3, ... whatever write fails (AppendRunEvent).
THEOREM LogIsContiguous == Spec => []LogContiguous
<1>1. IInv => LogContiguous
  BY DEF IInv
<1>2. QED
  BY <1>1, Invariant, PTL

\* A run is closed once: by its verdict, a cancel, an interruption or the recovery.
THEOREM RunClosedOnce == Spec => []TerminalClosesLog
<1>1. IInv => TerminalClosesLog
  BY DEF IInv
<1>2. QED
  BY <1>1, Invariant, PTL

\* Clients apply a prefix of what is stored, over reconnections and crashes.
THEOREM PublishedIsDurable == Spec => []SeenIsDurable
<1>1. IInv => SeenIsDurable
  BY DEF IInv
<1>2. QED
  BY <1>1, Invariant, PTL

\* Manager over the repository implements the journal.
THEOREM PlaybackImplementsJournal == Spec => JournalSpec
<1>1. Init => Journal!Init
  BY DEF Init, Journal!Init
<1>2. IInv /\ [Next]_vars => [Journal!Next]_(Journal!journalVars)
  BY StepIsJournalStep
<1>3. QED
  BY <1>1, <1>2, Invariant, PTL DEF Spec, JournalSpec, Journal!Spec

-------------------------------------------------------------------------------
(* Pauses and steps.                                                        *)

\* What is in memory while a run is paused or stepped is kept by every step.
LEMMA PauseStep ==
  ASSUME IInv, PauseInv, [Next]_vars
  PROVE  PauseInv'
<1> USE DEF IInv
<1>1. CASE UNCHANGED <<stored, launch, up, active, player, planned, index, status, events, flagVars, wake, lockVars, ctl>>
  BY <1>1, PlaybackAssumption DEF PlaybackAssumption, PauseInv, Settled, Flags,
     WritesFlags, Playing, Unlocked, Ended, storeVars, runVars, flagVars, lockVars
<1>2. CASE StartPersist
  BY <1>2, PlaybackAssumption DEF PlaybackAssumption, PauseInv, Settled, Flags,
     WritesFlags, Playing, Unlocked, Ended, storeVars, runVars, flagVars, lockVars,
     StartPersist, NotStarted
<1>3. CASE StartError
  BY <1>3, PlaybackAssumption DEF PlaybackAssumption, PauseInv, Settled, Flags,
     WritesFlags, Playing, Unlocked, Ended, storeVars, runVars, flagVars, lockVars,
     StartError, NotStarted, LockInv
<1>4. CASE StartActivate
  BY <1>4, PlaybackAssumption DEF PlaybackAssumption, PauseInv, Settled, Flags,
     WritesFlags, Playing, Unlocked, Ended, storeVars, runVars, flagVars, lockVars,
     StartActivate, NotStarted, LockInv
<1>5. CASE PlayReturn
  BY <1>5, PlaybackAssumption DEF PlaybackAssumption, PauseInv, Settled, Flags,
     WritesFlags, Playing, Unlocked, Ended, storeVars, runVars, flagVars, lockVars,
     PlayReturn
<1>6. CASE PlayBlock
  BY <1>6, PlaybackAssumption DEF PlaybackAssumption, PauseInv, Settled, Flags,
     WritesFlags, Playing, Unlocked, Ended, storeVars, runVars, flagVars, lockVars,
     PlayBlock
<1>7. CASE PlayWake
  BY <1>7, PlaybackAssumption DEF PlaybackAssumption, PauseInv, Settled, Flags,
     WritesFlags, Playing, Unlocked, Ended, storeVars, runVars, flagVars, lockVars,
     PlayWake
<1>8. CASE PlayEvent
  <2>1. /\ player = "loop" /\ ~Ended /\ Settled /\ Flags /\ (~paused \/ step)
        /\ status' = StatusOf(planned[index + 1]) /\ pending' = planned[index + 1]
        /\ phase' = "write" /\ ~Unlocked' /\ player' = player /\ stored' = stored
        /\ paused' = paused /\ step' = step
    BY <1>8, PlaybackAssumption DEF PlaybackAssumption, PauseInv, Playing, Unlocked, Ended,
       HandleInv, storeVars, flagVars, PlayEvent, Acquire, MayPlay
  <2>2. pending' \in Journal!PlannedTypes
    BY <1>8, <2>1, PlannedEvent DEF PlayEvent, TypeOK
  <2>3. pending' \notin {"run.paused", "run.resumed", "run.cancelled", "run.interrupted"}
    BY <2>2 DEF Journal!PlannedTypes
  <2>4. status' # "paused" /\ (~step => stored.status # "paused")
    BY <2>1 DEF Settled, Flags, StatusOf
  <2>5. step /\ pending' \notin Journal!TerminalTypes => status' = "running"
    BY <2>1, <2>2 DEF Flags, StatusOf, Journal!TerminalTypes
  <2>6. WritesFlags'
    BY <2>1, <2>2, <2>3, <2>4, <2>5 DEF WritesFlags
  <2>7. (step => paused)' /\ (player = "absent" => ~paused)'
    BY <2>1 DEF PauseInv
  <2>8. QED
    BY <2>1, <2>6, <2>7 DEF PauseInv
<1>9. CASE PlayPublish
  BY <1>9, PlaybackAssumption DEF PlaybackAssumption, PauseInv, Settled, Flags,
     WritesFlags, Playing, Unlocked, Ended, storeVars, runVars, flagVars, lockVars,
     PlayPublish, Release, MemoryInv, LockInv, StatusInv, Visited
<1>10. CASE PlayStepDone
  BY <1>10, PlaybackAssumption DEF PlaybackAssumption, PauseInv, Settled, Flags,
     WritesFlags, Playing, Unlocked, Ended, storeVars, runVars, flagVars, lockVars,
     PlayStepDone, Acquire, LockInv, Visited, Journal!PlannedTypes
<1>11. CASE PlayStepPaused
  BY <1>11, PlaybackAssumption DEF PlaybackAssumption, PauseInv, Settled, Flags,
     WritesFlags, Playing, Unlocked, Ended, storeVars, runVars, flagVars, lockVars,
     PlayStepPaused, Release, MemoryInv, LockInv
<1>12. CASE PlayLeave
  BY <1>12, PlaybackAssumption DEF PlaybackAssumption, PauseInv, Settled, Flags,
     WritesFlags, Playing, Unlocked, Ended, storeVars, runVars, flagVars, lockVars,
     PlayLeave
<1>13. CASE WriteOk
  BY <1>13, PlaybackAssumption DEF PlaybackAssumption, PauseInv, Settled, Flags,
     WritesFlags, Playing, Unlocked, Ended, storeVars, runVars, flagVars, lockVars,
     WriteOk, Written, LockInv
<1>14. CASE WriteError
  BY <1>14, PlaybackAssumption DEF PlaybackAssumption, PauseInv, Settled, Flags,
     WritesFlags, Playing, Unlocked, Ended, storeVars, runVars, flagVars, lockVars,
     WriteError, LockInv
<1>15. CASE InterruptRecorded
  BY <1>15, PlaybackAssumption DEF PlaybackAssumption, PauseInv, Settled, Flags,
     WritesFlags, Playing, Unlocked, Ended, storeVars, runVars, flagVars, lockVars,
     InterruptRecorded, Depart, Release, LockInv
<1>16. CASE InterruptUnrecorded
  BY <1>16, PlaybackAssumption DEF PlaybackAssumption, PauseInv, Settled, Flags,
     WritesFlags, Playing, Unlocked, Ended, storeVars, runVars, flagVars, lockVars,
     InterruptUnrecorded, Depart, Release, LockInv
<1>17. ASSUME NEW c \in Controllers, NEW op \in Ops, ControlLookup(c, op) PROVE PauseInv'
  BY <1>17, PlaybackAssumption DEF PlaybackAssumption, PauseInv, Settled, Flags,
     WritesFlags, Playing, Unlocked, Ended, storeVars, runVars, flagVars, lockVars,
     ControlLookup
<1>18. ASSUME NEW c \in Controllers, ControlTooLate(c) PROVE PauseInv'
  BY <1>18, PlaybackAssumption DEF PlaybackAssumption, PauseInv, Settled, Flags,
     WritesFlags, Playing, Unlocked, Ended, storeVars, runVars, flagVars, lockVars,
     ControlTooLate
<1>19. ASSUME NEW c \in Controllers, ControlNoop(c) PROVE PauseInv'
  BY <1>19, PlaybackAssumption DEF PlaybackAssumption, PauseInv, Settled, Flags,
     WritesFlags, Playing, Unlocked, Ended, storeVars, runVars, flagVars, lockVars,
     ControlNoop
<1>20. ASSUME NEW c \in Controllers, Pause(c) PROVE PauseInv'
  <2>1. /\ Playing /\ ~Ended /\ Unlocked
        /\ ~paused /\ paused' /\ status' = "paused" /\ pending' = "run.paused"
        /\ phase' = "write" /\ ~Unlocked' /\ player' = player /\ step' = step
    BY <1>20, PlaybackAssumption DEF PlaybackAssumption, Playing, Unlocked, Ended,
       HandleInv, InMemory, Pause, Entered, Acquire
  <2>2. ~step /\ player # "absent"
    BY <2>1 DEF PauseInv, Playing
  <2>3. WritesFlags'
    BY <2>1, <2>2 DEF WritesFlags, Journal!PlannedTypes
  <2>4. QED
    BY <2>1, <2>2, <2>3 DEF PauseInv
<1>21. ASSUME NEW c \in Controllers, Resume(c) PROVE PauseInv'
  BY <1>21, PlaybackAssumption DEF PlaybackAssumption, PauseInv, Settled, Flags,
     WritesFlags, Playing, Unlocked, Ended, storeVars, runVars, flagVars, lockVars,
     Resume, Entered, Acquire, LockInv, HandleInv, Journal!PlannedTypes
<1>22. ASSUME NEW c \in Controllers, Step(c) PROVE PauseInv'
  BY <1>22, PlaybackAssumption DEF PlaybackAssumption, PauseInv, Settled, Flags,
     WritesFlags, Playing, Unlocked, Ended, storeVars, runVars, flagVars, lockVars,
     Step, Entered, HandleInv, LockInv
<1>23. ASSUME NEW c \in Controllers, SetSpeed(c) PROVE PauseInv'
  BY <1>23, PlaybackAssumption DEF PlaybackAssumption, PauseInv, Settled, Flags,
     WritesFlags, Playing, Unlocked, Ended, storeVars, runVars, flagVars, lockVars,
     SetSpeed
<1>24. ASSUME NEW c \in Controllers, Cancel(c) PROVE PauseInv'
  BY <1>24, PlaybackAssumption DEF PlaybackAssumption, PauseInv, Settled, Flags,
     WritesFlags, Playing, Unlocked, Ended, storeVars, runVars, flagVars, lockVars,
     Cancel, Entered, Acquire, LockInv, HandleInv, Journal!PlannedTypes
<1>25. ASSUME NEW c \in Controllers, ControlPublish(c) PROVE PauseInv'
  BY <1>25, PlaybackAssumption DEF PlaybackAssumption, PauseInv, Settled, Flags,
     WritesFlags, Playing, Unlocked, Ended, storeVars, runVars, flagVars, lockVars,
     ControlPublish, Release, MemoryInv, LockInv
<1>26. ASSUME NEW c \in Controllers, ControlLeave(c) PROVE PauseInv'
  BY <1>26, PlaybackAssumption DEF PlaybackAssumption, PauseInv, Settled, Flags,
     WritesFlags, Playing, Unlocked, Ended, storeVars, runVars, flagVars, lockVars,
     ControlLeave
<1>27. CASE Crash
  BY <1>27, PlaybackAssumption DEF PlaybackAssumption, PauseInv, Settled, Flags,
     WritesFlags, Playing, Unlocked, Ended, storeVars, runVars, flagVars, lockVars,
     Crash, Release
<1>28. CASE Restart
  BY <1>28, PlaybackAssumption DEF PlaybackAssumption, PauseInv, Settled, Flags,
     WritesFlags, Playing, Unlocked, Ended, storeVars, runVars, flagVars, lockVars,
     Restart, HandleInv, LockInv
<1> QED
  BY <1>1, <1>2, <1>3, <1>4, <1>5, <1>6, <1>7, <1>8, <1>9, <1>10, <1>11, <1>12, <1>13,
     <1>14, <1>15, <1>16, <1>17, <1>18, <1>19, <1>20, <1>21, <1>22, <1>23, <1>24, <1>25,
     <1>26, <1>27, <1>28, StoredFrame, LockFrame, ProcessFrame, MemoryFrame

\* A run that createRun has just stored is neither paused nor being written.
LEMMA PauseInit ==
  ASSUME Init
  PROVE  PauseInv /\ LogInv
<1>1. PauseInv
  BY DEF Init, PauseInv, Settled, Flags, Playing, Unlocked
<1>2. stored.events = <<>> /\ player = "absent" /\ phase = "free"
  BY DEF Init
<1>3. LogInv
  BY <1>2 DEF LogInv, Playing, LastVisitPaused, StepStopsAfterOneVisit
<1>4. QED
  BY <1>1, <1>3

\* PausedAt reads the stored log only: it is a fact of a log and a position.
PausedIn(log, i) ==
  \E j \in 1..(i - 1) : /\ log[j].type = "run.paused"
                        /\ \A k \in (j + 1)..(i - 1) : log[k].type # "run.resumed"

\* An event that is appended changes no earlier position, and decides the next one.
LEMMA PausedAppend ==
  ASSUME NEW log \in Seq(Journal!Event), NEW event \in Journal!Event
  PROVE  /\ \A i \in 1..(Len(log) + 1) : PausedIn(Append(log, event), i) <=> PausedIn(log, i)
         /\ PausedIn(Append(log, event), Len(log) + 2)
              <=> \/ event.type = "run.paused"
                  \/ PausedIn(log, Len(log) + 1) /\ event.type # "run.resumed"
<1> DEFINE longer == Append(log, event)
<1>1. /\ Len(log) \in Nat /\ longer[Len(log) + 1] = event
      /\ \A i \in 1..Len(log) : longer[i] = log[i]
  OBVIOUS
<1> HIDE DEF longer
<1>2. \A i \in 1..(Len(log) + 1) : PausedIn(longer, i) <=> PausedIn(log, i)
  BY <1>1 DEF PausedIn
<1>3. event.type = "run.paused" => PausedIn(longer, Len(log) + 2)
  <2>1. Len(log) + 1 \in 1..(Len(log) + 2 - 1)
        /\ (Len(log) + 1 + 1)..(Len(log) + 2 - 1) = {}
    BY <1>1
  <2>2. QED
    BY <1>1, <2>1 DEF PausedIn
<1>4. ASSUME PausedIn(log, Len(log) + 1), event.type # "run.resumed"
      PROVE  PausedIn(longer, Len(log) + 2)
  <2>1. PICK j \in 1..(Len(log) + 1 - 1) :
          /\ log[j].type = "run.paused"
          /\ \A k \in (j + 1)..(Len(log) + 1 - 1) : log[k].type # "run.resumed"
    BY <1>4 DEF PausedIn
  <2>2. j \in 1..(Len(log) + 2 - 1) /\ longer[j].type = "run.paused"
    BY <1>1, <2>1
  <2>3. \A k \in (j + 1)..(Len(log) + 2 - 1) : longer[k].type # "run.resumed"
    <3>1. TAKE k \in (j + 1)..(Len(log) + 2 - 1)
    <3>2. CASE k = Len(log) + 1
      BY <3>2, <1>1, <1>4
    <3>3. CASE k # Len(log) + 1
      <4>1. k \in (j + 1)..(Len(log) + 1 - 1) /\ k \in 1..Len(log)
        BY <3>3, <1>1
      <4>2. QED
        BY <4>1, <1>1, <2>1
    <3>4. QED
      BY <3>2, <3>3
  <2>4. QED
    BY <2>2, <2>3 DEF PausedIn
<1>5. ASSUME PausedIn(longer, Len(log) + 2), event.type # "run.paused"
      PROVE  PausedIn(log, Len(log) + 1) /\ event.type # "run.resumed"
  <2>1. PICK j \in 1..(Len(log) + 2 - 1) :
          /\ longer[j].type = "run.paused"
          /\ \A k \in (j + 1)..(Len(log) + 2 - 1) : longer[k].type # "run.resumed"
    BY <1>5 DEF PausedIn
  <2>2. j # Len(log) + 1
    BY <1>1, <1>5, <2>1
  <2>3. /\ j \in 1..(Len(log) + 1 - 1) /\ log[j].type = "run.paused"
        /\ Len(log) + 1 \in (j + 1)..(Len(log) + 2 - 1)
    BY <1>1, <2>1, <2>2
  <2>4. event.type # "run.resumed"
    BY <1>1, <2>1, <2>3
  <2>5. \A k \in (j + 1)..(Len(log) + 1 - 1) : log[k].type # "run.resumed"
    BY <1>1, <2>1, <2>3
  <2>6. QED
    BY <2>3, <2>4, <2>5 DEF PausedIn
<1>6. QED
  BY <1>2, <1>3, <1>4, <1>5 DEF longer

\* A step that leaves the stored log alone leaves what it says of pauses alone.
LEMMA LogStays ==
  ASSUME stored'.events = stored.events
  PROVE  /\ LogPaused' <=> LogPaused
         /\ LastVisitPaused' <=> LastVisitPaused
         /\ StepStopsAfterOneVisit' <=> StepStopsAfterOneVisit
<1>1. \A i : PausedAt(i)' <=> PausedAt(i)
  BY DEF PausedAt
<1>2. QED
  BY <1>1 DEF LogPaused, LastVisitPaused, StepStopsAfterOneVisit

\* What an event that is appended to the stored log does to it: the log is paused
\* by a pause and until a resume, and after a visit in a pause only a pause or the
\* interruption may come.
LEMMA LogGrows ==
  ASSUME stored.events \in Seq(Journal!Event), NEW event \in Journal!Event,
         stored'.events = Append(stored.events, event)
  PROVE  /\ LogPaused' <=> \/ event.type = "run.paused"
                           \/ LogPaused /\ event.type # "run.resumed"
         /\ LastVisitPaused' => event.type \in Visited /\ LogPaused
         /\ StepStopsAfterOneVisit
              /\ (LastVisitPaused => event.type \in {"run.paused", "run.interrupted"})
              => StepStopsAfterOneVisit'
<1> DEFINE log == stored.events
           longer == Append(log, event)
<1>1. /\ Len(log) \in Nat /\ Len(longer) = Len(log) + 1 /\ longer[Len(log) + 1] = event
      /\ \A i \in 1..Len(log) : longer[i] = log[i]
  OBVIOUS
<1>2. /\ \A i \in 1..(Len(log) + 1) : PausedIn(longer, i) <=> PausedIn(log, i)
      /\ PausedIn(longer, Len(log) + 2)
           <=> event.type = "run.paused" \/ (PausedIn(log, Len(log) + 1) /\ event.type # "run.resumed")
  BY PausedAppend
<1>3. /\ \A i : PausedAt(i) <=> PausedIn(log, i)
      /\ \A i : PausedAt(i)' <=> PausedIn(longer, i)
  BY DEF PausedAt, PausedIn
<1>4. stored.events = log /\ stored'.events = longer
  OBVIOUS
<1> HIDE DEF log, longer
<1>5. LogPaused <=> PausedIn(log, Len(log) + 1)
  BY <1>3, <1>4 DEF LogPaused
<1>6. LogPaused' <=> PausedIn(longer, Len(log) + 2)
  <2>1. LogPaused' <=> PausedIn(longer, Len(longer) + 1)
    BY <1>3, <1>4 DEF LogPaused
  <2>2. Len(longer) + 1 = Len(log) + 2
    BY <1>1
  <2>3. QED
    BY <2>1, <2>2
<1>7. LastVisitPaused' => event.type \in Visited /\ LogPaused
  <2>1. LastVisitPaused' => longer[Len(longer)].type \in Visited /\ PausedIn(longer, Len(longer))
    BY <1>3, <1>4 DEF LastVisitPaused, Visited
  <2>2. Len(log) + 1 \in 1..(Len(log) + 1)
    BY <1>1
  <2>3. QED
    BY <1>1, <1>2, <1>5, <2>1, <2>2
<1>8. ASSUME StepStopsAfterOneVisit,
             LastVisitPaused => event.type \in {"run.paused", "run.interrupted"}
      PROVE  StepStopsAfterOneVisit'
  <2>1. SUFFICES ASSUME NEW i \in 1..(Len(longer) - 1),
                        longer[i].type \in Visited, PausedIn(longer, i)
                 PROVE  longer[i + 1].type \in {"run.paused", "run.interrupted"}
    BY <1>3, <1>4 DEF StepStopsAfterOneVisit, Visited
  <2>2. i \in 1..Len(log) /\ i \in 1..(Len(log) + 1)
    BY <1>1
  <2>3. log[i].type \in Visited /\ PausedAt(i)
    BY <1>1, <1>2, <1>3, <2>1, <2>2
  <2>4. CASE i = Len(log)
    <3>1. LastVisitPaused
      BY <1>4, <2>2, <2>3, <2>4 DEF LastVisitPaused
    <3>2. QED
      BY <1>1, <1>8, <2>4, <3>1
  <2>5. CASE i # Len(log)
    <3>1. i \in 1..(Len(log) - 1) /\ i + 1 \in 1..Len(log)
      BY <1>1, <2>2, <2>5
    <3>2. log[i + 1].type \in {"run.paused", "run.interrupted"}
      BY <1>4, <1>8, <2>3, <3>1 DEF StepStopsAfterOneVisit, Visited
    <3>3. QED
      BY <1>1, <3>1, <3>2
  <2>6. QED
    BY <2>4, <2>5
<1>9. QED
  BY <1>2, <1>5, <1>6, <1>7, <1>8

\* What the log says of a pause is kept true: a pause that is recorded is known to
\* the player before it plays on, and a step ends at the visit it was granted for.
LEMMA LogStep ==
  ASSUME IInv, PauseInv, LogInv, [Next]_vars
  PROVE  LogInv'
<1> USE DEF IInv
<1>1. CASE UNCHANGED <<stored, launch, up, active, player, planned, index, status, events, flagVars, wake, lockVars, ctl>>
  BY <1>1, LogStays, PlaybackAssumption DEF PlaybackAssumption, LogInv, Playing,
     Unlocked, Ended, storeVars, runVars, flagVars, lockVars
<1>2. CASE StartPersist
  <2>1. stored'.events = stored.events /\ player' = player /\ holder' = holder
        /\ phase' = phase /\ ~Playing /\ interrupted' = interrupted
    BY <1>2 DEF StartPersist, NotStarted, Playing, lockVars, flagVars
  <2>2. QED
    BY <2>1, LogStays DEF LogInv, Playing, NotStarted, LockInv, Unlocked
<1>3. CASE StartError
  <2>1. stored'.events = stored.events /\ player' = player /\ holder' = holder
        /\ phase' = phase /\ ~Playing /\ interrupted' = interrupted
    BY <1>3 DEF StartError, NotStarted, Playing, lockVars, flagVars
  <2>2. QED
    BY <2>1, LogStays DEF LogInv, Playing, NotStarted, LockInv, Unlocked
<1>4. CASE StartActivate
  <2>1. stored' = stored /\ stored.events = <<>> /\ phase' = "free"
    BY <1>4 DEF StartActivate, NotStarted, lockVars
  <2>2. ~LogPaused /\ ~LastVisitPaused
    BY <2>1 DEF LogPaused, PausedAt, LastVisitPaused
  <2>3. QED
    BY <2>1, <2>2, LogStays DEF LogInv
<1>5. CASE PlayReturn
  BY <1>5, LogStays, PlaybackAssumption DEF PlaybackAssumption, LogInv, Playing,
     Unlocked, Ended, PlayReturn, LockInv, storeVars, runVars, flagVars, lockVars
<1>6. CASE PlayBlock
  BY <1>6, LogStays, PlaybackAssumption DEF PlaybackAssumption, LogInv, Playing,
     Unlocked, Ended, PlayBlock, storeVars, runVars, flagVars, lockVars
<1>7. CASE PlayWake
  BY <1>7, LogStays, PlaybackAssumption DEF PlaybackAssumption, LogInv, Playing,
     Unlocked, Ended, PlayWake, storeVars, runVars, flagVars, lockVars
<1>8. CASE PlayLeave
  BY <1>8, LogStays, PlaybackAssumption DEF PlaybackAssumption, LogInv, Playing,
     Unlocked, Ended, PlayLeave, LockInv, storeVars, runVars, flagVars, lockVars
<1>9. CASE PlayEvent
  BY <1>9, LogStays, PlaybackAssumption DEF PlaybackAssumption, LogInv, Playing,
     Unlocked, Ended, PlayEvent, Acquire, MayPlay, HandleInv, PauseInv, LockInv,
     storeVars, runVars, flagVars, lockVars
<1>10. CASE PlayPublish
  BY <1>10, LogStays, PlaybackAssumption DEF PlaybackAssumption, LogInv, Playing,
     Unlocked, Ended, PlayPublish, Release, PauseInv, storeVars, runVars, flagVars,
     lockVars
<1>11. CASE PlayStepDone
  BY <1>11, LogStays, PlaybackAssumption DEF PlaybackAssumption, LogInv, Playing,
     Unlocked, Ended, PlayStepDone, Acquire, Journal!PlannedTypes, storeVars, runVars,
     flagVars, lockVars
<1>12. CASE PlayStepPaused
  BY <1>12, LogStays, PlaybackAssumption DEF PlaybackAssumption, LogInv, Playing,
     Unlocked, Ended, PlayStepPaused, Release, PauseInv, WritesFlags, Visited,
     storeVars, runVars, flagVars, lockVars
<1>13. CASE WriteOk
  <2>1. /\ NextEvent(pending) \in Journal!Event /\ stored.events \in Seq(Journal!Event)
        /\ NextEvent(pending).type = pending
        /\ stored'.events = Append(stored.events, NextEvent(pending))
        /\ phase = "write" /\ phase' = "publish" /\ pending' = pending /\ step' = step
        /\ holder' = holder /\ ~Unlocked'
    BY <1>13, PendingEventType DEF TypeOK, Journal!TypeOK, WriteOk, Written, NextEvent, LockInv,
       Unlocked, flagVars
  <2>2. /\ LogPaused' => pending = "run.paused" \/ (LogPaused /\ pending # "run.resumed")
        /\ LastVisitPaused' => pending \in Visited /\ LogPaused
        /\ (LastVisitPaused => pending \in {"run.paused", "run.interrupted"})
             /\ StepStopsAfterOneVisit => StepStopsAfterOneVisit'
    BY <2>1, LogGrows
  <2>3. StepStopsAfterOneVisit'
    BY <2>1, <2>2 DEF LogInv
  <2>4. QED
    BY <2>1, <2>2, <2>3 DEF LogInv, Visited, Journal!PlannedTypes
<1>14. CASE WriteError
  <2>1. /\ NextEvent(pending) \in Journal!Event /\ stored.events \in Seq(Journal!Event)
        /\ NextEvent(pending).type = pending
        /\ \/ stored'.events = stored.events
           \/ stored'.events = Append(stored.events, NextEvent(pending))
        /\ phase = "write" /\ phase' = "interrupt" /\ ~Unlocked'
    BY <1>14, PendingEventType DEF TypeOK, Journal!TypeOK, WriteError, Fails, Written, NextEvent,
       LockInv, Unlocked
  <2>2. StepStopsAfterOneVisit'
    BY <2>1, LogGrows, LogStays DEF LogInv
  <2>3. QED
    BY <2>1, <2>2 DEF LogInv
<1>15. CASE InterruptRecorded
  <2>1. /\ Interruption \in Journal!Event /\ stored.events \in Seq(Journal!Event)
        /\ Interruption.type = "run.interrupted"
        /\ \/ stored'.events = stored.events
           \/ stored'.events = Append(stored.events, Interruption)
        /\ phase' = "free" /\ interrupted'
    BY <1>15, InterruptionType DEF TypeOK, Journal!TypeOK, InterruptRecorded, Fails, Written, Depart,
       Release, Interruption, NextEvent
  <2>2. StepStopsAfterOneVisit'
    BY <2>1, LogGrows, LogStays DEF LogInv
  <2>3. QED
    BY <2>1, <2>2 DEF LogInv, Ended
<1>16. CASE InterruptUnrecorded
  <2>1. /\ Interruption \in Journal!Event /\ stored.events \in Seq(Journal!Event)
        /\ Interruption.type = "run.interrupted"
        /\ \/ stored'.events = stored.events
           \/ stored'.events = Append(stored.events, Interruption)
        /\ phase' = "free" /\ interrupted'
    BY <1>16, InterruptionType DEF TypeOK, Journal!TypeOK, InterruptUnrecorded, Fails, Written, Depart,
       Release, Interruption, NextEvent
  <2>2. StepStopsAfterOneVisit'
    BY <2>1, LogGrows, LogStays DEF LogInv
  <2>3. QED
    BY <2>1, <2>2 DEF LogInv, Ended
<1>17. ASSUME NEW c \in Controllers, NEW op \in Ops, ControlLookup(c, op) PROVE LogInv'
  BY <1>17, LogStays, PlaybackAssumption DEF PlaybackAssumption, LogInv, Playing,
     Unlocked, Ended, ControlLookup, storeVars, runVars, flagVars, lockVars
<1>18. ASSUME NEW c \in Controllers, ControlTooLate(c) PROVE LogInv'
  BY <1>18, LogStays, PlaybackAssumption DEF PlaybackAssumption, LogInv, Playing,
     Unlocked, Ended, ControlTooLate, storeVars, runVars, flagVars, lockVars
<1>19. ASSUME NEW c \in Controllers, ControlNoop(c) PROVE LogInv'
  BY <1>19, LogStays, PlaybackAssumption DEF PlaybackAssumption, LogInv, Playing,
     Unlocked, Ended, ControlNoop, storeVars, runVars, flagVars, lockVars
<1>20. ASSUME NEW c \in Controllers, Step(c) PROVE LogInv'
  BY <1>20, LogStays, PlaybackAssumption DEF PlaybackAssumption, LogInv, Playing,
     Unlocked, Ended, Step, storeVars, runVars, flagVars, lockVars
<1>21. ASSUME NEW c \in Controllers, SetSpeed(c) PROVE LogInv'
  BY <1>21, LogStays, PlaybackAssumption DEF PlaybackAssumption, LogInv, Playing,
     Unlocked, Ended, SetSpeed, storeVars, runVars, flagVars, lockVars
<1>22. ASSUME NEW c \in Controllers, ControlLeave(c) PROVE LogInv'
  BY <1>22, LogStays, PlaybackAssumption DEF PlaybackAssumption, LogInv, Playing,
     Unlocked, Ended, ControlLeave, storeVars, runVars, flagVars, lockVars
<1>23. ASSUME NEW c \in Controllers, Pause(c) PROVE LogInv'
  BY <1>23, LogStays, PlaybackAssumption DEF PlaybackAssumption, LogInv, Playing,
     Unlocked, Ended, Pause, Entered, Acquire, HandleInv, InMemory, LockInv,
     Journal!PlannedTypes, storeVars, runVars, flagVars, lockVars
<1>24. ASSUME NEW c \in Controllers, Resume(c) PROVE LogInv'
  BY <1>24, LogStays, PlaybackAssumption DEF PlaybackAssumption, LogInv, Playing,
     Unlocked, Ended, Resume, Entered, Acquire, HandleInv, InMemory, LockInv,
     Journal!PlannedTypes, storeVars, runVars, flagVars, lockVars
<1>25. ASSUME NEW c \in Controllers, Cancel(c) PROVE LogInv'
  BY <1>25, LogStays, PlaybackAssumption DEF PlaybackAssumption, LogInv, Playing,
     Unlocked, Ended, Cancel, Entered, Acquire, HandleInv, InMemory, LockInv,
     Journal!PlannedTypes, storeVars, runVars, flagVars, lockVars
<1>26. ASSUME NEW c \in Controllers, ControlPublish(c) PROVE LogInv'
  BY <1>26, LogStays, PlaybackAssumption DEF PlaybackAssumption, LogInv, Playing,
     Unlocked, Ended, ControlPublish, Release, PauseInv, WritesFlags, LockInv, Visited,
     storeVars, runVars, flagVars, lockVars
<1>27. CASE Crash
  BY <1>27, LogStays, PlaybackAssumption DEF PlaybackAssumption, LogInv, Playing,
     Unlocked, Ended, Crash, Release
<1>28. CASE Restart
  <2>1. /\ stored.events \in Seq(Journal!Event)
        /\ \/ stored'.events = stored.events
           \/ stored'.events = Append(stored.events, [seq  |-> Len(stored.events) + 1,
                                                      type |-> "run.interrupted"])
        /\ phase' = "free" /\ player' = player /\ ~Playing
    BY <1>28 DEF TypeOK, Journal!TypeOK, Restart, InterruptRun, Written, HandleInv, LockInv,
       Playing, lockVars
  <2>2. [seq |-> Len(stored.events) + 1, type |-> "run.interrupted"] \in Journal!Event
    BY <2>1, InterruptionStatus DEF Journal!Event
  <2>3. StepStopsAfterOneVisit'
    BY <2>1, <2>2, LogGrows, LogStays DEF LogInv
  <2>4. QED
    BY <2>1, <2>3 DEF LogInv, Playing
<1> QED
  BY <1>1, <1>2, <1>3, <1>4, <1>5, <1>6, <1>7, <1>8, <1>9, <1>10, <1>11, <1>12, <1>13,
     <1>14, <1>15, <1>16, <1>17, <1>18, <1>19, <1>20, <1>21, <1>22, <1>23, <1>24, <1>25,
     <1>26, <1>27, <1>28, StoredFrame, LockFrame, ProcessFrame, MemoryFrame

\* At every point of every critical section the memory, the flags and the log agree
\* on whether the run is paused and whether a step is granted.
THEOREM Pauses == Spec => [](PauseInv /\ LogInv)
<1>1. Init => PauseInv /\ LogInv
  BY PauseInit
<1>2. IInv /\ PauseInv /\ LogInv /\ [Next]_vars => (PauseInv /\ LogInv)'
  BY PauseStep, LogStep
<1>3. QED
  BY <1>1, <1>2, Invariant, PTL DEF Spec

\* While nobody writes, a run that is played has in memory what the repository has,
\* but for a step that was granted and not yet used.
THEOREM MemoryIsStored == Spec => []MemoryMatchesStore
<1>1. PauseInv => MemoryMatchesStore
  BY DEF PauseInv, Settled, MemoryMatchesStore
<1>2. QED
  BY <1>1, Pauses, PTL

\* A step plays one visit: what is recorded after it is the pause, or the
\* interruption, whatever requests and failures come in between.
THEOREM StepsAreSingle == Spec => []StepStopsAfterOneVisit
<1>1. LogInv => StepStopsAfterOneVisit
  BY DEF LogInv
<1>2. QED
  BY <1>1, Pauses, PTL

\* What may be stored over a paused run: the planned events of a granted step, and
\* what a request or an interruption asks for.
LEMMA PausedRecords ==
  ASSUME IInv, PauseInv, [Next]_vars, stored.status = "paused", stored' # stored
  PROVE  \/ stored'.status \in {"paused", "cancelled", "interrupted"}
         \/ pending = "run.resumed"
         \/ holder = Player /\ step
<1> USE DEF IInv
<1>1. CASE StartPersist \/ StartError
  BY <1>1 DEF StartPersist, StartError, NotStarted
<1>2. ASSUME phase = "write",
             stored' \in {stored, Written(status, NextEvent(pending))}
      PROVE  \/ stored'.status \in {"paused", "cancelled", "interrupted"}
             \/ pending = "run.resumed"
             \/ holder = Player /\ step
  <2>1. stored'.status = status /\ WritesFlags
    BY <1>2 DEF Written, PauseInv
  <2>2. /\ pending \in Journal!PlannedTypes
             \cup {"run.paused", "run.resumed", "run.cancelled", "run.interrupted"}
        /\ pending \in Journal!PlannedTypes => holder = Player
    BY <1>2 DEF LockInv, TypeOK, LockTypes, Journal!EventTypes, Journal!ControlTypes,
                Journal!PlannedTypes
  <2>3. QED
    BY <1>2, <2>1, <2>2 DEF WritesFlags
<1>3. CASE WriteOk
  BY <1>2, <1>3 DEF WriteOk
<1>4. CASE WriteError
  BY <1>2, <1>4 DEF WriteError, Fails
<1>5. CASE InterruptRecorded
  BY <1>5 DEF InterruptRecorded, Written
<1>6. CASE InterruptUnrecorded
  <2>1. stored' \in {stored, Written("interrupted", Interruption)}
    BY <1>6 DEF InterruptUnrecorded, Fails
  <2>2. QED
    BY <2>1 DEF Written
<1>7. CASE Restart
  BY <1>7 DEF Restart, InterruptRun, Written
<1>8. QED
  BY <1>1, <1>3, <1>4, <1>5, <1>6, <1>7, StoredFrame

\* A stored pause is true: no planned event is recorded over it without a step.
THEOREM PausesAreQuiet == Spec => PausedIsQuiet
<1>1. IInv /\ PauseInv /\ [Next]_vars
        => [stored.status = "paused" /\ stored' # stored
              => \/ stored'.status \in {"paused", "cancelled", "interrupted"}
                 \/ pending = "run.resumed"
                 \/ holder = Player /\ step]_vars
  BY PausedRecords
<1>2. QED
  BY <1>1, Invariant, Pauses, PTL DEF Spec, PausedIsQuiet

===============================================================================
