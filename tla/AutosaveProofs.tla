----------------------------- MODULE AutosaveProofs -----------------------------
(***************************************************************************)
(* Proofs about the tab that edits a flow, for any definitions and bounds. *)
(*                                                                         *)
(* Every operation of a hook works on a desk and sends or queues what was  *)
(* queued before, or the document of the moment (Within). The lemmas about *)
(* desks come first; the steps of the tab then add what happens to the     *)
(* document, the draft and the history.                                    *)
(***************************************************************************)
EXTENDS AutosaveInv, TLAPS

\* A desk that holds what Q allows to wait, what was sent before (C), and saves of what was
\* allowed to wait; its status is st unless a save has just begun.
Within(k, Q, C, st) ==
  /\ k \in Desks /\ Serial(k)
  /\ \A g \in Hooks : k.pending[g] \subseteq Q[g]
  /\ \A r \in k.calls : r \in C \/ \E g \in Hooks : \E s \in Q[g] : r = Send(g, "put", s)
  /\ k.status = st \/ (ours /\ k.status = "saving")

\* What SaveNext leaves when it sends s.
Sending(k, h, s) ==
  [pending |-> [k.pending EXCEPT ![h] = {}], flush |-> [k.flush EXCEPT ![h] = FALSE],
   timer |-> k.timer, calls |-> k.calls \cup {Send(h, "put", s)},
   status |-> IF ours THEN "saving" ELSE k.status]

\* What Schedule leaves when it sends nothing.
Waiting(k, h, s, immediate, timed) ==
  [pending |-> [k.pending EXCEPT ![h] = {s}], flush |-> [k.flush EXCEPT ![h] = @ \/ immediate],
   timer |-> [k.timer EXCEPT ![h] = timed], calls |-> k.calls, status |-> k.status]

\* The effect has nothing to do.
Quiet(k, d, seen) == page # "ready" \/ (d = seen.doc /\ k.status = seen.status)

-------------------------------------------------------------------------------
\* A record with one field replaced is the record of its fields.
LEMMA FieldUpdate ==
  ASSUME NEW p, NEW f, NEW t, NEW c, NEW s, NEW k, k = [pending |-> p, flush |-> f, timer |-> t, calls |-> c, status |-> s]
  PROVE  /\ \A x : [k EXCEPT !.pending = x] =
              [pending |-> x, flush |-> f, timer |-> t, calls |-> c, status |-> s]
         /\ \A x : [k EXCEPT !.flush = x] =
              [pending |-> p, flush |-> x, timer |-> t, calls |-> c, status |-> s]
         /\ \A x : [k EXCEPT !.timer = x] =
              [pending |-> p, flush |-> f, timer |-> x, calls |-> c, status |-> s]
         /\ \A x : [k EXCEPT !.calls = x] =
              [pending |-> p, flush |-> f, timer |-> t, calls |-> x, status |-> s]
         /\ \A x : [k EXCEPT !.status = x] =
              [pending |-> p, flush |-> f, timer |-> t, calls |-> c, status |-> x]
  OBVIOUS

\* A desk has its fields, and keeps the others when one is replaced.
LEMMA DeskUpdate ==
  ASSUME NEW k \in Desks
  PROVE  /\ \A x : [k EXCEPT !.pending = x] =
              [pending |-> x, flush |-> k.flush, timer |-> k.timer, calls |-> k.calls, status |-> k.status]
         /\ \A x : [k EXCEPT !.flush = x] =
              [pending |-> k.pending, flush |-> x, timer |-> k.timer, calls |-> k.calls, status |-> k.status]
         /\ \A x : [k EXCEPT !.timer = x] =
              [pending |-> k.pending, flush |-> k.flush, timer |-> x, calls |-> k.calls, status |-> k.status]
         /\ \A x : [k EXCEPT !.calls = x] =
              [pending |-> k.pending, flush |-> k.flush, timer |-> k.timer, calls |-> x, status |-> k.status]
         /\ \A x : [k EXCEPT !.status = x] =
              [pending |-> k.pending, flush |-> k.flush, timer |-> k.timer, calls |-> k.calls, status |-> x]
  <1>1. PICK p, f, t, c, s : k = [pending |-> p, flush |-> f, timer |-> t, calls |-> c, status |-> s]
    <2>1. k = [pending |-> k.pending, flush |-> k.flush, timer |-> k.timer, calls |-> k.calls, status |-> k.status]
      BY DEF Desks
    <2> QED BY <2>1
  <1>2. p = k.pending /\ f = k.flush /\ t = k.timer /\ c = k.calls /\ s = k.status
    BY <1>1
  <1>3. ASSUME NEW x
        PROVE  [k EXCEPT !.pending = x] = [pending |-> x, flush |-> k.flush, timer |-> k.timer, calls |-> k.calls, status |-> k.status]
    <2>1. [k EXCEPT !.pending = x] = [pending |-> x, flush |-> f, timer |-> t, calls |-> c, status |-> s]
      BY <1>1, FieldUpdate
    <2> QED BY <1>2, <2>1
  <1>4. ASSUME NEW x
        PROVE  [k EXCEPT !.flush = x] = [pending |-> k.pending, flush |-> x, timer |-> k.timer, calls |-> k.calls, status |-> k.status]
    <2>1. [k EXCEPT !.flush = x] = [pending |-> p, flush |-> x, timer |-> t, calls |-> c, status |-> s]
      BY <1>1, FieldUpdate
    <2> QED BY <1>2, <2>1
  <1>5. ASSUME NEW x
        PROVE  [k EXCEPT !.timer = x] = [pending |-> k.pending, flush |-> k.flush, timer |-> x, calls |-> k.calls, status |-> k.status]
    <2>1. [k EXCEPT !.timer = x] = [pending |-> p, flush |-> f, timer |-> x, calls |-> c, status |-> s]
      BY <1>1, FieldUpdate
    <2> QED BY <1>2, <2>1
  <1>6. ASSUME NEW x
        PROVE  [k EXCEPT !.calls = x] = [pending |-> k.pending, flush |-> k.flush, timer |-> k.timer, calls |-> x, status |-> k.status]
    <2>1. [k EXCEPT !.calls = x] = [pending |-> p, flush |-> f, timer |-> t, calls |-> x, status |-> s]
      BY <1>1, FieldUpdate
    <2> QED BY <1>2, <2>1
  <1>7. ASSUME NEW x
        PROVE  [k EXCEPT !.status = x] = [pending |-> k.pending, flush |-> k.flush, timer |-> k.timer, calls |-> k.calls, status |-> x]
    <2>1. [k EXCEPT !.status = x] = [pending |-> p, flush |-> f, timer |-> t, calls |-> c, status |-> x]
      BY <1>1, FieldUpdate
    <2> QED BY <1>2, <2>1
  <1> QED BY <1>3, <1>4, <1>5, <1>6, <1>7

\* Several fields of a desk are replaced one after the other.
LEMMA DeskUpdates ==
  ASSUME NEW k \in Desks, NEW x, NEW y, NEW z, NEW w
  PROVE  [[[[k EXCEPT !.pending = x] EXCEPT !.flush = y] EXCEPT !.calls = z] EXCEPT !.status = w] =
           [pending |-> x, flush |-> y, timer |-> k.timer, calls |-> z, status |-> w]
  <1> DEFINE k1 == [k EXCEPT !.pending = x]
             k2 == [k1 EXCEPT !.flush = y]
             k3 == [k2 EXCEPT !.calls = z]
             k4 == [k3 EXCEPT !.status = w]
  <1>1. k1 = [pending |-> x, flush |-> k.flush, timer |-> k.timer, calls |-> k.calls, status |-> k.status]
    BY DeskUpdate
  <1> HIDE DEF k1
  <1>2. k2 = [pending |-> x, flush |-> y, timer |-> k.timer, calls |-> k.calls, status |-> k.status]
    BY <1>1, FieldUpdate
  <1> HIDE DEF k2
  <1>3. k3 = [pending |-> x, flush |-> y, timer |-> k.timer, calls |-> z, status |-> k.status]
    BY <1>2, FieldUpdate
  <1> HIDE DEF k3
  <1>4. k4 = [pending |-> x, flush |-> y, timer |-> k.timer, calls |-> z, status |-> w]
    BY <1>3, FieldUpdate
  <1> HIDE DEF k4
  <1> QED BY <1>4 DEF k1, k2, k3, k4

\* A save that is sent is a request.
LEMMA SendIsRequest ==
  ASSUME NEW h \in Loads, NEW s \in Snapshot, NEW kind \in {"load", "put", "publish", "restore"}
  PROVE  Send(h, kind, s) \in Request
  BY DEF Send, Request

\* The hooks are loads.
LEMMA HooksAreLoads == Hooks \subseteq Loads /\ 0 \in Loads /\ 0 \notin Hooks
  BY AutosaveAssumption DEF Hooks, Loads

\* SaveNext does nothing, or sends the one snapshot that waits while no save is in flight.
LEMMA SaveNextSends ==
  ASSUME NEW k \in Desks, NEW h \in Hooks, Serial(k)
  PROVE  \/ SaveNext(k, h) = k /\ (InFlight(k.calls, h) \/ k.pending[h] = {})
         \/ /\ ~InFlight(k.calls, h)
            /\ \E s \in Snapshot : k.pending[h] = {s} /\ SaveNext(k, h) = Sending(k, h, s)
  <1>1. CASE InFlight(k.calls, h) \/ k.pending[h] = {}
    BY <1>1 DEF SaveNext
  <1>2. CASE ~(InFlight(k.calls, h) \/ k.pending[h] = {})
    <2>1. PICK s \in k.pending[h] : TRUE
      BY <1>2
    <2>2. k.pending[h] = {s} /\ s \in Snapshot
      BY <2>1 DEF Serial, Desks
    <2>3. {Send(h, "put", t) : t \in k.pending[h]} = {Send(h, "put", s)}
      BY <2>2
    <2>4. SaveNext(k, h) = [k EXCEPT !.pending[h] = {}, !.flush[h] = FALSE,
                                     !.calls = @ \cup {Send(h, "put", s)},
                                     !.status = IF ours THEN "saving" ELSE @]
      BY <1>2, <2>3 DEF SaveNext
    <2> DEFINE x == [k.pending EXCEPT ![h] = {}]
               y == [k.flush EXCEPT ![h] = FALSE]
               z == k.calls \cup {Send(h, "put", s)}
               w == IF ours THEN "saving" ELSE k.status
    <2>5. SaveNext(k, h) =
            [[[[k EXCEPT !.pending = x] EXCEPT !.flush = y] EXCEPT !.calls = z] EXCEPT !.status = w]
      BY <2>4
    <2> HIDE DEF x, y, z, w
    <2>6. SaveNext(k, h) = [pending |-> x, flush |-> y, timer |-> k.timer, calls |-> z, status |-> w]
      BY <2>5, DeskUpdates
    <2>7. SaveNext(k, h) = Sending(k, h, s)
      BY <2>6 DEF Sending, x, y, z, w
    <2> QED BY <1>2, <2>2, <2>7
  <1> QED BY <1>1, <1>2

\* A snapshot whose revision and ETag are replaced.
LEMMA SnapUpdate ==
  ASSUME NEW s \in Snapshot, NEW rev \in Nat, NEW etag \in Definitions
  PROVE  [[s EXCEPT !.rev = rev] EXCEPT !.etag = etag] =
           [def |-> s.def, ref |-> s.ref, etag |-> etag, rev |-> rev, load |-> s.load]
  <1> DEFINE y == [s EXCEPT !.rev = rev]
             z == [y EXCEPT !.etag = etag]
  <1>1. y \in Snapshot /\ y.def = s.def /\ y.ref = s.ref /\ y.load = s.load /\ y.rev = rev
    BY DEF Snapshot
  <1> HIDE DEF y
  <1>2. z \in Snapshot /\ z.def = y.def /\ z.ref = y.ref /\ z.load = y.load /\ z.rev = y.rev /\ z.etag = etag
    BY <1>1 DEF Snapshot
  <1> HIDE DEF z
  <1>3. z = [def |-> z.def, ref |-> z.ref, etag |-> z.etag, rev |-> z.rev, load |-> z.load]
    BY <1>2 DEF Snapshot
  <1>4. z = [def |-> s.def, ref |-> s.ref, etag |-> etag, rev |-> rev, load |-> s.load]
    BY <1>1, <1>2, <1>3, Zenon
  <1> QED BY <1>4 DEF y, z

\* A desk that sends what waits stays within its bounds.
LEMMA SendingWithin ==
  ASSUME NEW k, NEW Q, NEW C, NEW st, NEW h \in Hooks, NEW s \in Snapshot,
         Within(k, Q, C, st), k.pending[h] = {s}, ~InFlight(k.calls, h)
  PROVE  Within(Sending(k, h, s), Q, C, st)
  <1> DEFINE m == Sending(k, h, s)
  <1>1. m \in Desks
    <2>1. Send(h, "put", s) \in Request
      BY SendIsRequest, HooksAreLoads
    <2> QED BY <2>1 DEF Within, Desks, Sending, Statuses
  <1>2. m.pending = [k.pending EXCEPT ![h] = {}] /\ m.calls = k.calls \cup {Send(h, "put", s)}
        /\ m.status = (IF ours THEN "saving" ELSE k.status)
    BY DEF Sending
  <1>3. \A g \in Hooks : m.pending[g] \subseteq k.pending[g]
    BY <1>2 DEF Within, Desks
  <1>4. Serial(m)
    <2>1. \A r \in Puts(k.calls, h) : ~r.awaited
      BY DEF InFlight, Puts
    <2>2. \A g \in Hooks : \A r \in Puts(m.calls, g) :
            r \in Puts(k.calls, g) \/ (g = h /\ r = Send(h, "put", s))
      BY <1>2 DEF Puts, Send
    <2> QED BY <1>3, <2>1, <2>2 DEF Serial, Within
  <1>5. s \in Q[h]
    BY DEF Within
  <1> QED BY <1>1, <1>2, <1>3, <1>4, <1>5 DEF Within

\* SaveNext stays within the bounds of the desk.
LEMMA SaveNextWithin ==
  ASSUME NEW k, NEW Q, NEW C, NEW st, NEW h \in Hooks, Within(k, Q, C, st)
  PROVE  Within(SaveNext(k, h), Q, C, st)
  <1>1. k \in Desks /\ Serial(k)
    BY DEF Within
  <1> QED BY <1>1, SaveNextSends, SendingWithin

\* Schedule sends at once, or leaves the snapshot waiting.
LEMMA ScheduleWaits ==
  ASSUME NEW k \in Desks, NEW h \in Hooks, NEW s \in Snapshot, NEW immediate \in BOOLEAN
  PROVE  /\ InFlight(k.calls, h) => Schedule(k, h, s, immediate) = Waiting(k, h, s, immediate, FALSE)
         /\ ~InFlight(k.calls, h) /\ immediate =>
              Schedule(k, h, s, immediate) = SaveNext(Waiting(k, h, s, immediate, FALSE), h)
         /\ ~InFlight(k.calls, h) /\ ~immediate =>
              Schedule(k, h, s, immediate) = Waiting(k, h, s, immediate, TRUE)
  <1> DEFINE queued == [ClearTimer(k, h) EXCEPT !.pending[h] = {s}, !.flush[h] = @ \/ immediate]
  <1>1. queued = Waiting(k, h, s, immediate, FALSE)
    <2>1. ClearTimer(k, h) = [k EXCEPT !.timer = [k.timer EXCEPT ![h] = FALSE]]
      BY DEF ClearTimer
    <2>2. @ = [pending |-> k.pending, flush |-> k.flush, timer |-> [k.timer EXCEPT ![h] = FALSE],
               calls |-> k.calls, status |-> k.status]
      BY DeskUpdate
    <2> DEFINE c == ClearTimer(k, h)
    <2>3. c \in Desks
      <3>1. [k.timer EXCEPT ![h] = FALSE] \in [Hooks -> BOOLEAN]
        BY DEF Desks
      <3>2. k.pending \in [Hooks -> SUBSET Snapshot] /\ k.flush \in [Hooks -> BOOLEAN]
            /\ k.calls \in SUBSET Request /\ k.status \in Statuses
        BY DEF Desks
      <3> QED BY <2>1, <2>2, <3>1, <3>2 DEF Desks
    <2>4. c.pending = k.pending /\ c.flush = k.flush /\ c.calls = k.calls /\ c.status = k.status
          /\ c.timer = [k.timer EXCEPT ![h] = FALSE]
      BY <2>1, <2>2
    <2>5. queued = [c EXCEPT !.pending = [c.pending EXCEPT ![h] = {s}],
                             !.flush = [c.flush EXCEPT ![h] = @ \/ immediate]]
      OBVIOUS
    <2> DEFINE q == [c EXCEPT !.pending = [c.pending EXCEPT ![h] = {s}]]
    <2>6. queued = [q EXCEPT !.flush = [c.flush EXCEPT ![h] = @ \/ immediate]]
      BY <2>5
    <2> HIDE DEF c, queued
    <2>7. q = [pending |-> [c.pending EXCEPT ![h] = {s}], flush |-> c.flush, timer |-> c.timer,
               calls |-> c.calls, status |-> c.status]
      BY <2>3, DeskUpdate
    <2> HIDE DEF q
    <2>8. queued = [pending |-> [c.pending EXCEPT ![h] = {s}],
                    flush |-> [c.flush EXCEPT ![h] = @ \/ immediate],
                    timer |-> c.timer, calls |-> c.calls, status |-> c.status]
      BY <2>6, <2>7, FieldUpdate
    <2> QED BY <2>4, <2>8 DEF Waiting
  <1>2. [queued EXCEPT !.timer[h] = TRUE] = Waiting(k, h, s, immediate, TRUE)
    <2>1. [queued EXCEPT !.timer[h] = TRUE] = [queued EXCEPT !.timer = [queued.timer EXCEPT ![h] = TRUE]]
      OBVIOUS
    <2>2. [k.timer EXCEPT ![h] = TRUE] = [[k.timer EXCEPT ![h] = FALSE] EXCEPT ![h] = TRUE]
      BY DEF Desks
    <2> HIDE DEF queued
    <2>3. queued \in Desks
      BY <1>1 DEF Waiting, Desks
    <2>4. [queued EXCEPT !.timer = [queued.timer EXCEPT ![h] = TRUE]] =
            [pending |-> queued.pending, flush |-> queued.flush,
             timer |-> [queued.timer EXCEPT ![h] = TRUE], calls |-> queued.calls, status |-> queued.status]
      BY <2>3, DeskUpdate
    <2> QED BY <1>1, <2>1, <2>2, <2>4 DEF Waiting
  <1>3. Schedule(k, h, s, immediate) =
          CASE InFlight(k.calls, h) -> queued
            [] ~InFlight(k.calls, h) /\ immediate -> SaveNext(queued, h)
            [] OTHER -> [queued EXCEPT !.timer[h] = TRUE]
    BY DEF Schedule
  <1> HIDE DEF queued
  <1> QED BY <1>1, <1>2, <1>3

\* A desk stays within its bounds when a snapshot that is allowed to waits.
LEMMA WaitingWithin ==
  ASSUME NEW k, NEW Q, NEW C, NEW st, NEW h \in Hooks, NEW s \in Snapshot,
         NEW immediate \in BOOLEAN, NEW timed \in BOOLEAN, Within(k, Q, C, st), s \in Q[h]
  PROVE  Within(Waiting(k, h, s, immediate, timed), Q, C, st)
  <1> DEFINE m == Waiting(k, h, s, immediate, timed)
  <1>1. m \in Desks
    BY DEF Within, Desks, Waiting
  <1>2. m.pending = [k.pending EXCEPT ![h] = {s}] /\ m.calls = k.calls /\ m.status = k.status
    BY DEF Waiting
  <1>3. \A g \in Hooks : m.pending[g] \subseteq Q[g] /\ \A x, y \in m.pending[g] : x = y
    BY <1>2 DEF Within, Desks, Serial
  <1> QED BY <1>1, <1>2, <1>3 DEF Within, Serial

\* Schedule stays within the bounds of the desk.
LEMMA ScheduleWithin ==
  ASSUME NEW k, NEW Q, NEW C, NEW st, NEW h \in Hooks, NEW s \in Snapshot,
         NEW immediate \in BOOLEAN, Within(k, Q, C, st), s \in Q[h]
  PROVE  Within(Schedule(k, h, s, immediate), Q, C, st)
  <1>1. k \in Desks
    BY DEF Within
  <1>2. \A timed \in BOOLEAN : Within(Waiting(k, h, s, immediate, timed), Q, C, st)
    BY WaitingWithin
  <1>3. Within(SaveNext(Waiting(k, h, s, immediate, FALSE), h), Q, C, st)
    BY <1>2, SaveNextWithin
  <1> QED BY <1>1, <1>2, <1>3, ScheduleWaits

\* A cleared timer, or a flag, changes nothing else of a desk.
LEMMA ClearTimerWithin ==
  ASSUME NEW k, NEW Q, NEW C, NEW st, NEW h \in Hooks, Within(k, Q, C, st)
  PROVE  /\ ClearTimer(k, h) = [pending |-> k.pending, flush |-> k.flush,
                timer |-> [k.timer EXCEPT ![h] = FALSE], calls |-> k.calls, status |-> k.status]
         /\ Within(ClearTimer(k, h), Q, C, st)
  <1>1. ClearTimer(k, h) = [pending |-> k.pending, flush |-> k.flush,
                timer |-> [k.timer EXCEPT ![h] = FALSE], calls |-> k.calls, status |-> k.status]
    <2>1. ClearTimer(k, h) = [k EXCEPT !.timer = [k.timer EXCEPT ![h] = FALSE]]
      BY DEF ClearTimer
    <2> QED BY <2>1, DeskUpdate DEF Within
  <1>2. ClearTimer(k, h) \in Desks
    BY <1>1 DEF Within, Desks
  <1> QED BY <1>1, <1>2 DEF Within, Serial

\* FlushPending stays within the bounds of the desk.
LEMMA FlushPendingWithin ==
  ASSUME NEW k, NEW Q, NEW C, NEW st, NEW h \in Hooks, Within(k, Q, C, st)
  PROVE  /\ \E f \in [Hooks -> BOOLEAN] :
               FlushPending(k, h) = SaveNext([pending |-> k.pending, flush |-> f,
                  timer |-> [k.timer EXCEPT ![h] = FALSE], calls |-> k.calls, status |-> k.status], h)
         /\ Within(FlushPending(k, h), Q, C, st)
  <1> DEFINE c == ClearTimer(k, h)
             f == [c.flush EXCEPT ![h] = @ \/ k.pending[h] # {}]
             m == [c EXCEPT !.flush = f]
  <1>1. c = [pending |-> k.pending, flush |-> k.flush,
             timer |-> [k.timer EXCEPT ![h] = FALSE], calls |-> k.calls, status |-> k.status]
        /\ Within(c, Q, C, st)
    BY ClearTimerWithin
  <1>2. FlushPending(k, h) = SaveNext(m, h)
    BY DEF FlushPending
  <1>3. c \in Desks /\ c.flush \in [Hooks -> BOOLEAN]
    BY <1>1 DEF Within, Desks
  <1>4. f \in [Hooks -> BOOLEAN]
    BY <1>3
  <1> HIDE DEF c, f
  <1>5. m = [pending |-> c.pending, flush |-> f, timer |-> c.timer, calls |-> c.calls, status |-> c.status]
    BY <1>3, DeskUpdate
  <1> HIDE DEF m
  <1>6. Within(m, Q, C, st)
    <2>1. m \in Desks
      BY <1>1, <1>4, <1>5 DEF Within, Desks
    <2> QED BY <2>1, <1>1, <1>5 DEF Within, Serial
  <1>7. m = [pending |-> k.pending, flush |-> f, timer |-> [k.timer EXCEPT ![h] = FALSE],
             calls |-> k.calls, status |-> k.status]
    BY <1>1, <1>5
  <1> QED BY <1>2, <1>4, <1>6, <1>7, SaveNextWithin

\* Finally puts what waits back, or on its way.
LEMMA FinallyWithin ==
  ASSUME NEW k, NEW Q, NEW C, NEW st, NEW h \in Hooks, NEW mounted \in BOOLEAN, Within(k, Q, C, st)
  PROVE  /\ Within(Finally(k, h, mounted), Q, C, st)
         /\ k.pending[h] = {} => Finally(k, h, mounted) = k
         /\ \A s : k.pending[h] = {s} =>
              s \in Snapshot /\ Finally(k, h, mounted) = Schedule(k, h, s, k.flush[h] \/ ~mounted)
  <1>1. k \in Desks /\ k.pending[h] \in SUBSET Snapshot /\ k.flush[h] \in BOOLEAN
        /\ k.pending[h] \subseteq Q[h]
    BY DEF Within, Desks
  <1>2. CASE k.pending[h] = {}
    BY <1>2 DEF Finally
  <1>3. CASE k.pending[h] # {}
    <2>1. PICK s \in k.pending[h] : k.pending[h] = {s}
      BY <1>3 DEF Within, Serial
    <2>2. (CHOOSE x \in k.pending[h] : TRUE) = s
      BY <2>1
    <2>3. Finally(k, h, mounted) = Schedule(k, h, s, k.flush[h] \/ ~mounted)
      BY <1>3, <2>2 DEF Finally
    <2>4. s \in Snapshot /\ s \in Q[h] /\ (k.flush[h] \/ ~mounted) \in BOOLEAN
      BY <1>1, <2>1
    <2>5. Within(Schedule(k, h, s, k.flush[h] \/ ~mounted), Q, C, st)
      BY <2>4, ScheduleWithin
    <2> QED BY <1>3, <2>1, <2>3, <2>4, <2>5
  <1> QED BY <1>2, <1>3

\* Finally schedules the snapshot that waits.
LEMMA FinallyIs ==
  ASSUME NEW k \in Desks, NEW h \in Hooks, NEW mounted, NEW s, k.pending[h] = {s}
  PROVE  s \in Snapshot /\ Finally(k, h, mounted) = Schedule(k, h, s, k.flush[h] \/ ~mounted)
  <1>1. (CHOOSE x \in k.pending[h] : TRUE) = s
    OBVIOUS
  <1>2. s \in Snapshot
    BY DEF Desks
  <1>3. Finally(k, h, mounted) = Schedule(k, h, CHOOSE x \in k.pending[h] : TRUE, k.flush[h] \/ ~mounted)
    BY DEF Finally
  <1> QED BY <1>1, <1>2, <1>3

\* A flag that is set to what it was.
LEMMA FlagStays ==
  ASSUME NEW f \in [Hooks -> BOOLEAN], NEW h \in Hooks
  PROVE  [f EXCEPT ![h] = @ \/ FALSE] = f
  <1>1. (f[h] \/ FALSE) = f[h]
    OBVIOUS
  <1>2. [f EXCEPT ![h] = f[h]] = f
    OBVIOUS
  <1> QED BY <1>1, <1>2

\* What an effect leaves: nothing is sent; a dirty document that changed waits, for the debounce
\* or for the save in flight; and what a hook that is not mounted holds stays.
LEMMA EffectQueues ==
  ASSUME NEW k \in Desks, NEW d \in Snapshot, NEW seen, page = "ready" => hook \in Hooks,
         NEW m, m = Effect(k, d, seen)
  PROVE  /\ m \in Desks /\ m.calls = k.calls /\ m.status = k.status /\ m.flush = k.flush
         /\ \A g \in Hooks : g # hook => m.pending[g] = k.pending[g] /\ m.timer[g] = k.timer[g]
         /\ Quiet(k, d, seen) => m = k
         /\ ~Quiet(k, d, seen) /\ k.status = "dirty" =>
              m.pending[hook] = {d} /\ (m.timer[hook] \/ InFlight(k.calls, hook))
         /\ ~Quiet(k, d, seen) /\ k.status # "dirty" =>
              m.pending = k.pending /\ (seen.status # "dirty" => m.timer = k.timer)
  <1> DEFINE c == IF seen.status = "dirty" THEN ClearTimer(k, hook) ELSE k
  <1>1. CASE Quiet(k, d, seen)
    <2>1. m = k
      BY <1>1 DEF Effect, Quiet
    <2> QED BY <1>1, <2>1
  <1>2. CASE ~Quiet(k, d, seen)
    <2>1. hook \in Hooks
      BY <1>2 DEF Quiet
    <2>2. ClearTimer(k, hook) = [pending |-> k.pending, flush |-> k.flush,
            timer |-> [k.timer EXCEPT ![hook] = FALSE], calls |-> k.calls, status |-> k.status]
      <3>1. ClearTimer(k, hook) = [k EXCEPT !.timer = [k.timer EXCEPT ![hook] = FALSE]]
        BY DEF ClearTimer
      <3> QED BY <3>1, DeskUpdate
    <2>3. /\ c \in Desks /\ c.pending = k.pending /\ c.flush = k.flush /\ c.calls = k.calls
          /\ c.status = k.status /\ \A g \in Hooks : g # hook => c.timer[g] = k.timer[g]
          /\ seen.status # "dirty" => c.timer = k.timer
      <3>1. CASE seen.status = "dirty"
        <4>1. c = ClearTimer(k, hook)
          BY <3>1
        <4>2. [k.timer EXCEPT ![hook] = FALSE] \in [Hooks -> BOOLEAN]
          BY DEF Desks
        <4>3. c \in Desks
          BY <2>2, <4>1, <4>2 DEF Desks
        <4> HIDE DEF c
        <4> QED BY <2>2, <3>1, <4>1, <4>3 DEF Desks
      <3>2. CASE seen.status # "dirty"
        BY <3>2
      <3> QED BY <3>1, <3>2
    <2>4. Effect(k, d, seen) = IF k.status = "dirty" THEN Schedule(c, hook, d, FALSE) ELSE c
      BY <1>2 DEF Effect, Quiet
    <2> HIDE DEF c
    <2>5. CASE k.status = "dirty"
      <3>1. PICK timed \in BOOLEAN :
              /\ Effect(k, d, seen) = Waiting(c, hook, d, FALSE, timed)
              /\ timed = ~InFlight(k.calls, hook)
        <4>1. Effect(k, d, seen) = Schedule(c, hook, d, FALSE)
          BY <2>4, <2>5
        <4>2. InFlight(c.calls, hook) => Schedule(c, hook, d, FALSE) = Waiting(c, hook, d, FALSE, FALSE)
          BY <2>1, <2>3, ScheduleWaits
        <4>3. ~InFlight(c.calls, hook) => Schedule(c, hook, d, FALSE) = Waiting(c, hook, d, FALSE, TRUE)
          BY <2>1, <2>3, ScheduleWaits
        <4> QED BY <2>3, <4>1, <4>2, <4>3
      <3> DEFINE w == Waiting(c, hook, d, FALSE, timed)
      <3>2. w.pending = [c.pending EXCEPT ![hook] = {d}] /\ w.timer = [c.timer EXCEPT ![hook] = timed]
            /\ w.calls = k.calls /\ w.status = k.status
            /\ w.flush = [c.flush EXCEPT ![hook] = @ \/ FALSE]
        BY <2>3 DEF Waiting
      <3>3. w.flush = k.flush
        <4>1. c.flush \in [Hooks -> BOOLEAN]
          BY <2>3 DEF Desks
        <4> QED BY <2>1, <2>3, <3>2, <4>1, FlagStays
      <3>4. w \in Desks
        BY <2>1, <2>3 DEF Waiting, Desks
      <3>5. w.pending[hook] = {d} /\ w.timer[hook] = timed
            /\ \A g \in Hooks : g # hook => w.pending[g] = k.pending[g] /\ w.timer[g] = k.timer[g]
        <4>1. c.pending \in [Hooks -> SUBSET Snapshot] /\ c.timer \in [Hooks -> BOOLEAN]
          BY <2>3 DEF Desks
        <4> HIDE DEF w
        <4> QED BY <2>1, <2>3, <3>2, <4>1
      <3>6. m = w
        BY <3>1
      <3> HIDE DEF w
      <3> QED BY <1>2, <2>5, <3>1, <3>2, <3>3, <3>4, <3>5, <3>6
    <2>6. CASE k.status # "dirty"
      <3>1. Effect(k, d, seen) = c
        BY <2>4, <2>6
      <3> QED BY <1>2, <2>3, <2>6, <3>1
    <2> QED BY <2>5, <2>6
  <1> QED BY <1>1, <1>2

\* An effect stays within the bounds of the desk.
LEMMA EffectWithin ==
  ASSUME NEW k, NEW Q, NEW C, NEW st, NEW d \in Snapshot, NEW seen, Within(k, Q, C, st),
         page = "ready" => hook \in Hooks /\ d \in Q[hook]
  PROVE  Within(Effect(k, d, seen), Q, C, st)
  <1>1. k \in Desks /\ (page = "ready" => hook \in Hooks)
    BY DEF Within
  <1>2. PICK m : m = Effect(k, d, seen)
    OBVIOUS
  <1>3. m \in Desks /\ m.calls = k.calls /\ m.status = k.status
        /\ \A g \in Hooks : g # hook => m.pending[g] = k.pending[g]
    BY <1>1, <1>2, EffectQueues
  <1>4. \/ m = k
        \/ page = "ready" /\ m.pending[hook] = {d}
        \/ m.pending = k.pending
    <2>1. Quiet(k, d, seen) => m = k
      BY <1>1, <1>2, EffectQueues
    <2>2. ~Quiet(k, d, seen) /\ k.status = "dirty" => m.pending[hook] = {d}
      BY <1>1, <1>2, EffectQueues
    <2>3. ~Quiet(k, d, seen) /\ k.status # "dirty" => m.pending = k.pending
      BY <1>1, <1>2, EffectQueues
    <2>4. ~Quiet(k, d, seen) => page = "ready"
      BY DEF Quiet
    <2> QED BY <2>1, <2>2, <2>3, <2>4
  <1>5. \A g \in Hooks : m.pending[g] \subseteq Q[g] /\ \A x, y \in m.pending[g] : x = y
    BY <1>3, <1>4 DEF Within, Serial
  <1>6. Within(m, Q, C, st)
    BY <1>3, <1>5 DEF Within, Serial
  <1> QED BY <1>2, <1>6

-------------------------------------------------------------------------------
\* What may wait after a step that leaves the document: what waited, and the document of a page
\* that is ready.
Waiters == [g \in Hooks |-> pending[g] \cup {d \in {doc} : Ready /\ g = hook}]

\* A step never goes back: to an earlier visit, or an earlier time of the document.
Later ==
  /\ hook <= hook' /\ (page' = "loading" => hook < hook' \/ page = "loading")
  /\ doc.ref <= doc'.ref /\ (doc.ref = doc'.ref => doc'.def = doc.def /\ doc'.load = doc.load)
  /\ crossed \subseteq crossed'
  /\ \A l \in Hooks : (page = "loading" => l # hook) => known[l] \subseteq known'[l]

\* SetDesk sets the desk.
LEMMA SetDeskIs ==
  ASSUME NEW m \in Desks, SetDesk(m)
  PROVE  Desk' = m
  <1>1. m = [pending |-> m.pending, flush |-> m.flush, timer |-> m.timer, calls |-> m.calls,
             status |-> m.status]
    BY DEF Desks
  <1>2. Desk' = [pending |-> pending', flush |-> flush', timer |-> timer', calls |-> calls',
                 status |-> status']
    BY DEF Desk
  <1>3. pending' = m.pending /\ flush' = m.flush /\ timer' = m.timer /\ calls' = m.calls
        /\ status' = m.status
    BY DEF SetDesk
  <1> QED BY <1>1, <1>2, <1>3, Zenon

\* A snapshot stays one of the store.
LEMMA TakenStays ==
  ASSUME TypeOK, doc' \in Snapshot, hook' \in Loads, Later, NEW s \in Snapshot, Taken(s)
  PROVE  /\ Taken(s)'
         /\ Copy(s) => Copy(s)'
         /\ doc.ref # doc'.ref => Timely(s)'
  <1>1. s.ref \in Nat /\ s.load \in Nat /\ doc.ref \in Nat /\ doc'.ref \in Nat
        /\ hook \in Nat /\ hook' \in Nat
    BY AutosaveAssumption DEF TypeOK, Snapshot, Loads
  <1>2. Knows(s)'
    BY DEF Taken, Knows, Later
  <1>3. s.load <= hook' /\ (page' = "loading" => s.load # hook')
    BY <1>1 DEF Taken, Later
  <1>4. s.ref <= doc'.ref
    BY <1>1 DEF Taken, Later
  <1>5. Copy(s) => Copy(s)'
    BY <1>1 DEF Taken, Later, Copy
  <1>6. doc.ref # doc'.ref => Timely(s)'
    BY <1>1 DEF Taken, Later, Timely
  <1> QED BY <1>2, <1>3, <1>4, <1>5, <1>6 DEF Taken

\* What a step leaves on the desk fits, if what may wait and what was sent do.
LEMMA Fit ==
  ASSUME NEW Q, NEW C, NEW st, Within(Desk', Q, C, st),
         \A g \in Hooks : \A s \in Q[g] : Waits(g, s)',
         \A r \in C : r.kind # "load" => Sent(r)',
         doc'.load \in Hooks => Knows(doc)'
  PROVE  /\ Desk' \in Desks /\ Serial(Desk)' /\ SnapInv'
         /\ status' = st \/ (ours /\ status' = "saving")
  <1>1. Desk'.pending = pending' /\ Desk'.calls = calls' /\ Desk'.status = status'
    BY DEF Desk
  <1>2. \A h \in Hooks : \A s \in pending'[h] : Waits(h, s)'
    BY <1>1 DEF Within
  <1>3. \A g \in Hooks : \A s \in Q[g] : Sent(Send(g, "put", s))'
    BY DEF Waits, Sent, Send
  <1>4. \A r \in calls' : r.kind # "load" => Sent(r)'
    BY <1>1, <1>3 DEF Within
  <1>5. SnapInv'
    BY <1>2, <1>4 DEF SnapInv
  <1> QED BY <1>1, <1>5 DEF Within

\* The document of a page that is ready may wait.
LEMMA DocumentMayWait ==
  ASSUME TypeOK, PageInv, SnapInv, Ready
  PROVE  Waits(hook, doc) /\ hook \in Hooks /\ doc \in Snapshot
  <1>1. doc.load = hook /\ hook \in Hooks /\ doc \in Snapshot
    BY DEF PageInv, Ready, TypeOK
  <1>2. doc.rev \in Nat /\ doc.ref \in Nat /\ hook \in Nat
    BY <1>1 DEF Snapshot, Hooks
  <1>3. Timely(doc) /\ Copy(doc)
    BY <1>2 DEF Timely, Copy
  <1> QED BY <1>1, <1>2, <1>3 DEF Waits, Taken, SnapInv, Ready

\* A step that leaves the document and the history fits.
LEMMA StillFits ==
  ASSUME TypeOK, PageInv, SnapInv,
         doc' = doc, hook' = hook, ours' => ours, page' = "loading" => page = "loading",
         \A l \in Hooks : known[l] \subseteq known'[l], crossed' = crossed, overlapped' = overlapped,
         NEW C, NEW st, Within(Desk', Waiters, C, st),
         \A r \in C : \/ r \in calls \/ Sent(r)'
                      \/ r.kind # "load" => r.snap \in Snapshot /\ Sent(r)
  PROVE  /\ Desk' \in Desks /\ Serial(Desk)' /\ SnapInv'
         /\ status' = st \/ (ours /\ status' = "saving")
  <1>1. Later /\ doc' \in Snapshot /\ hook' \in Loads
    BY DEF Later, TypeOK, Snapshot, Loads
  <1>2. \A s \in Snapshot : Timely(s) => Timely(s)'
    BY DEF Timely, Fine
  <1>3. \A s \in Snapshot : Taken(s) => Taken(s)' /\ (Copy(s) => Copy(s)')
    BY <1>1, TakenStays
  <1>4. \A g \in Hooks : \A s \in Snapshot : Waits(g, s) => Waits(g, s)'
    BY <1>2, <1>3 DEF Waits
  <1>5. ASSUME NEW g \in Hooks, NEW s \in Waiters[g]
        PROVE  Waits(g, s)'
    <2>1. s \in pending[g] \/ (Ready /\ g = hook /\ s = doc)
      BY <1>5 DEF Waiters
    <2>2. s \in Snapshot /\ Waits(g, s)
      BY <2>1, DocumentMayWait DEF TypeOK, Desks, Desk, SnapInv
    <2> QED BY <1>4, <2>2
  <1>6. ASSUME NEW r \in C, r.kind # "load"
        PROVE  Sent(r)'
    <2>1. Sent(r)' \/ (r.snap \in Snapshot /\ Sent(r))
      BY <1>6 DEF TypeOK, Desks, Desk, Request, SnapInv
    <2>2. CASE r.snap \in Snapshot /\ Sent(r)
      <3>1. r.snap.load \in Hooks
        BY <2>2 DEF Sent, Taken, Knows
      <3> QED BY <1>2, <1>3, <2>2, <3>1 DEF Sent
    <2> QED BY <2>1, <2>2
  <1>7. doc'.load \in Hooks => Knows(doc)'
    BY DEF SnapInv, Knows
  <1> QED BY <1>5, <1>6, <1>7, Fit

\* A desk stays within its bounds when snapshots or requests are taken off it.
LEMMA LessWithin ==
  ASSUME NEW k, NEW Q, NEW C, NEW st, Within(k, Q, C, st), NEW m \in Desks,
         \A g \in Hooks : m.pending[g] \subseteq k.pending[g], m.calls \subseteq k.calls
  PROVE  Within(m, Q, C, m.status)
  BY DEF Within, Serial, Puts

\* The desk between two steps.
LEMMA DeskWithin ==
  ASSUME TypeOK, Serial(Desk), PageInv, SnapInv
  PROVE  /\ Within(Desk, Waiters, calls, status)
         /\ page = "ready" => hook \in Hooks /\ doc \in Snapshot /\ doc \in Waiters[hook] /\ ours
         /\ Desk \in Desks /\ Desk.pending = pending /\ Desk.calls = calls /\ Desk.status = status
         /\ Desk.timer = timer /\ Desk.flush = flush
  <1>1. Desk \in Desks /\ Desk.pending = pending /\ Desk.calls = calls /\ Desk.status = status
        /\ Desk.timer = timer /\ Desk.flush = flush
    BY DEF TypeOK, Desk
  <1>2. \A g \in Hooks : pending[g] \subseteq Waiters[g]
    BY DEF Waiters
  <1>3. page = "ready" => hook \in Hooks /\ doc \in Snapshot /\ doc \in Waiters[hook] /\ ours
    BY DocumentMayWait DEF Waiters, Ready, PageInv
  <1> QED BY <1>1, <1>2, <1>3 DEF Within

\* The requests and the status of the desk are replaced.
LEMMA CallsAndStatus ==
  ASSUME NEW z, NEW w
  PROVE  [[Desk EXCEPT !.calls = z] EXCEPT !.status = w] =
           [pending |-> pending, flush |-> flush, timer |-> timer, calls |-> z, status |-> w]
  <1> DEFINE k1 == [Desk EXCEPT !.calls = z]
             k2 == [k1 EXCEPT !.status = w]
  <1>1. k1 = [pending |-> pending, flush |-> flush, timer |-> timer, calls |-> z, status |-> status]
    BY FieldUpdate DEF Desk
  <1> HIDE DEF k1
  <1>2. k2 = [pending |-> pending, flush |-> flush, timer |-> timer, calls |-> z, status |-> w]
    BY <1>1, FieldUpdate
  <1> HIDE DEF k2
  <1> QED BY <1>2 DEF k1, k2

\* A desk whose requests are others.
LEMMA CallsWithin ==
  ASSUME TypeOK, Serial(Desk), PageInv, SnapInv, UNCHANGED <<hookVars, status>>,
         calls' \in SUBSET Request,
         \A h \in Hooks : \A q, r \in Puts(calls', h) : q.awaited /\ r.awaited => q = r
  PROVE  Within(Desk', Waiters, calls', status)
  <1>1. Desk' = [pending |-> pending, flush |-> flush, timer |-> timer, calls |-> calls', status |-> status]
    BY DEF Desk, hookVars
  <1>2. Desk' \in Desks
    BY <1>1, DeskWithin DEF Desks
  <1>3. \A g \in Hooks : pending[g] \subseteq Waiters[g]
    BY DEF Waiters
  <1>4. \A h \in Hooks : \A s, t \in pending[h] : s = t
    BY DeskWithin DEF Within, Serial
  <1>5. Desk'.pending = pending /\ Desk'.calls = calls' /\ Desk'.status = status
    BY <1>1
  <1> QED BY <1>2, <1>3, <1>4, <1>5 DEF Within, Serial

\* TimerFires
LEMMA TimerFiresFits ==
  ASSUME TypeOK, Serial(Desk), PageInv, SnapInv, NEW h \in Hooks, TimerFires(h)
  PROVE  /\ Desk' \in Desks /\ Serial(Desk)' /\ SnapInv'
         /\ status' = status \/ (ours /\ status' = "saving")
  <1> DEFINE m == Effect(SaveNext(ClearTimer(Desk, h), h), doc, Seen)
  <1>1. Within(m, Waiters, calls, status)
    <2>1. Within(SaveNext(ClearTimer(Desk, h), h), Waiters, calls, status)
      BY DeskWithin, ClearTimerWithin, SaveNextWithin
    <2> QED BY <2>1, DeskWithin, EffectWithin DEF TypeOK
  <1>2. SetDesk(m) /\ doc' = doc /\ UNCHANGED <<ours, page, hook, historyVars>>
    BY DEF TimerFires, Change
  <1> HIDE DEF m
  <1>3. Desk' = m
    BY <1>1, <1>2, SetDeskIs DEF Within
  <1> QED BY <1>1, <1>2, <1>3, StillFits DEF historyVars

\* The document of the moment waits, if it is dirty.
LEMMA FlushedWithin ==
  ASSUME TypeOK, Serial(Desk), PageInv, SnapInv, Ready,
         NEW k, k = IF status = "dirty" THEN [Desk EXCEPT !.pending[hook] = {doc}] ELSE Desk
  PROVE  /\ Within(k, Waiters, calls, status) /\ k.status = status /\ k.calls = calls
         /\ IF status = "dirty" THEN k.pending[hook] = {doc} ELSE k = Desk
  <1>1. hook \in Hooks /\ doc \in Snapshot /\ doc \in Waiters[hook] /\ page = "ready"
    BY DeskWithin DEF Ready
  <1>2. CASE status = "dirty"
    <2>1. k = [Desk EXCEPT !.pending = [Desk.pending EXCEPT ![hook] = {doc}]]
      BY <1>2
    <2>2. k = [pending |-> [pending EXCEPT ![hook] = {doc}], flush |-> flush, timer |-> timer,
               calls |-> calls, status |-> status]
      BY <2>1, DeskWithin, DeskUpdate
    <2>3. k \in Desks
      BY <1>1, <2>2, DeskWithin DEF Desks
    <2>4. \A g \in Hooks : k.pending[g] \subseteq Waiters[g] /\ \A x, y \in k.pending[g] : x = y
      BY <1>1, <2>2, DeskWithin DEF Within, Serial, Desks
    <2>5. k.calls = calls /\ k.status = status /\ k.pending[hook] = {doc}
      BY <1>1, <2>2, DeskWithin DEF Desks
    <2> QED BY <1>2, <2>3, <2>4, <2>5, DeskWithin DEF Within, Serial
  <1>3. CASE status # "dirty"
    BY <1>3, DeskWithin
  <1> QED BY <1>2, <1>3

\* FlushBeforePageExit
LEMMA FlushFits ==
  ASSUME TypeOK, Serial(Desk), PageInv, SnapInv, FlushBeforePageExit
  PROVE  /\ Desk' \in Desks /\ Serial(Desk)' /\ SnapInv'
         /\ status' = status \/ (ours /\ status' = "saving")
  <1> DEFINE k == IF status = "dirty" THEN [Desk EXCEPT !.pending[hook] = {doc}] ELSE Desk
             m == Effect(FlushPending(k, hook), doc, Seen)
  <1>1. hook \in Hooks /\ doc \in Snapshot /\ doc \in Waiters[hook] /\ page = "ready" /\ Ready
    BY DeskWithin DEF FlushBeforePageExit, Ready
  <1>2. Within(k, Waiters, calls, status)
    BY <1>1, FlushedWithin
  <1>3. SetDesk(m) /\ doc' = doc /\ UNCHANGED <<ours, page, hook, historyVars>>
    BY DEF FlushBeforePageExit, Change
  <1> HIDE DEF k
  <1>4. Within(m, Waiters, calls, status)
    <2>1. Within(FlushPending(k, hook), Waiters, calls, status)
      BY <1>1, <1>2, FlushPendingWithin
    <2> QED BY <1>1, <2>1, EffectWithin
  <1> HIDE DEF m
  <1>5. Desk' = m
    BY <1>3, <1>4, SetDeskIs DEF Within
  <1> QED BY <1>3, <1>4, <1>5, StillFits DEF historyVars

\* Leave
LEMMA LeaveFits ==
  ASSUME TypeOK, Serial(Desk), PageInv, SnapInv, Leave
  PROVE  /\ Desk' \in Desks /\ Serial(Desk)' /\ SnapInv'
         /\ status' = status \/ (ours /\ status' = "saving")
  <1>1. page' = "closed" /\ doc' = doc /\ UNCHANGED <<ours, hook, historyVars>>
    BY DEF Leave
  <1>2. CASE Ready
    <2> DEFINE k == IF status = "dirty" THEN Schedule(Desk, hook, doc, TRUE) ELSE Desk
               m == FlushPending(k, hook)
    <2>1. hook \in Hooks /\ doc \in Snapshot /\ doc \in Waiters[hook]
      BY <1>2, DeskWithin DEF Ready
    <2>2. Within(k, Waiters, calls, status)
      <3>1. Within(Schedule(Desk, hook, doc, TRUE), Waiters, calls, status)
        BY <2>1, DeskWithin, ScheduleWithin
      <3> QED BY <3>1, DeskWithin
    <2>3. SetDesk(m)
      BY <1>2 DEF Leave
    <2> HIDE DEF k
    <2>4. Within(m, Waiters, calls, status)
      BY <2>1, <2>2, FlushPendingWithin
    <2> HIDE DEF m
    <2>5. Desk' = m
      BY <2>3, <2>4, SetDeskIs DEF Within
    <2> QED BY <1>1, <2>4, <2>5, StillFits DEF historyVars
  <1>3. CASE ~Ready
    <2>1. calls' \subseteq calls /\ UNCHANGED <<hookVars, status>>
      BY <1>3 DEF Leave
    <2>2. Within(Desk', Waiters, calls', status)
      BY <2>1, CallsWithin, DeskWithin DEF Within, Serial, Puts, Desks
    <2> QED BY <1>1, <2>1, <2>2, StillFits DEF historyVars
  <1> QED BY <1>2, <1>3

\* SaveFails
LEMMA SaveFailsFits ==
  ASSUME TypeOK, Serial(Desk), PageInv, SnapInv, NEW h \in Hooks, SaveFails(h)
  PROVE  /\ Desk' \in Desks /\ Serial(Desk)' /\ SnapInv'
         /\ status' = (IF ours THEN status' ELSE status) /\ (ours => status' \in {"conflict", "error", "saving"})
  <1>1. PICK r \in Awaits(h, "put") :
          Failed(r) /\
          Change([Desk EXCEPT !.calls = @ \ {r}, !.pending[h] = {}, !.flush[h] = FALSE,
                   !.status = IF ~ours THEN @ ELSE IF r.result = "refused" THEN "conflict" ELSE "error"], doc)
    BY DEF SaveFails
  <1> DEFINE z == calls \ {r}
             x == [pending EXCEPT ![h] = {}]
             y == [flush EXCEPT ![h] = FALSE]
             w == IF ~ours THEN status ELSE IF r.result = "refused" THEN "conflict" ELSE "error"
             k == [Desk EXCEPT !.calls = @ \ {r}, !.pending[h] = {}, !.flush[h] = FALSE,
                   !.status = IF ~ours THEN @ ELSE IF r.result = "refused" THEN "conflict" ELSE "error"]
             m == Effect(k, doc, Seen)
  <1>2. k = [pending |-> x, flush |-> y, timer |-> timer, calls |-> z, status |-> w]
    <2> DEFINE k1 == [Desk EXCEPT !.calls = z]
               k2 == [k1 EXCEPT !.pending = x]
               k3 == [k2 EXCEPT !.flush = y]
               k4 == [k3 EXCEPT !.status = w]
    <2>1. k = k4
      BY DeskWithin
    <2> HIDE DEF x, y, z, w, k
    <2>2. k1 = [pending |-> pending, flush |-> flush, timer |-> timer, calls |-> z, status |-> status]
      BY FieldUpdate DEF Desk
    <2> HIDE DEF k1
    <2>3. k2 = [pending |-> x, flush |-> flush, timer |-> timer, calls |-> z, status |-> status]
      BY <2>2, FieldUpdate
    <2> HIDE DEF k2
    <2>4. k3 = [pending |-> x, flush |-> y, timer |-> timer, calls |-> z, status |-> status]
      BY <2>3, FieldUpdate
    <2> HIDE DEF k3
    <2>5. k4 = [pending |-> x, flush |-> y, timer |-> timer, calls |-> z, status |-> w]
      BY <2>4, FieldUpdate
    <2> QED BY <2>1, <2>5
  <1>3. k \in Desks
    <2>1. x \in [Hooks -> SUBSET Snapshot] /\ y \in [Hooks -> BOOLEAN] /\ z \in SUBSET Request /\ w \in Statuses
      BY DeskWithin DEF Desks, Statuses
    <2> HIDE DEF x, y, z, w, k
    <2> QED BY <1>2, <2>1, DeskWithin DEF Desks
  <1>4. \A g \in Hooks : x[g] \subseteq pending[g]
    BY DeskWithin DEF Desks
  <1>5. SetDesk(m) /\ doc' = doc /\ UNCHANGED <<ours, page, hook, historyVars>>
    BY <1>1 DEF SaveFails, Change
  <1> HIDE DEF k
  <1>6. Within(k, Waiters, calls, w)
    <2>1. k.pending = x /\ k.calls = z /\ k.status = w
      BY <1>2
    <2> HIDE DEF w, x
    <2> QED BY <1>3, <1>4, <2>1, DeskWithin, LessWithin
  <1>7. Within(m, Waiters, calls, w)
    BY <1>6, DeskWithin, EffectWithin DEF TypeOK
  <1> HIDE DEF m
  <1>8. Desk' = m
    BY <1>5, <1>7, SetDeskIs DEF Within
  <1>9. Desk' \in Desks /\ Serial(Desk)' /\ SnapInv' /\ (status' = w \/ (ours /\ status' = "saving"))
    <2> HIDE DEF w
    <2> QED BY <1>5, <1>7, <1>8, StillFits DEF historyVars
  <1> QED BY <1>9

\* The end of a dialog: its request is taken off, the status set, and the effect runs.
LEMMA DialogWithin ==
  ASSUME TypeOK, Serial(Desk), PageInv, SnapInv, NEW cs \in SUBSET Request, NEW new \in Statuses,
         NEW Q, NEW C, NEW d \in Snapshot, cs \subseteq C,
         \A h \in Hooks : Puts(cs, h) \subseteq Puts(calls, h),
         \A g \in Hooks : pending[g] \subseteq Q[g], Ready => d \in Q[hook],
         NEW k, k = [pending |-> pending, flush |-> flush, timer |-> timer, calls |-> cs, status |-> new],
         SetDesk(Effect(k, d, Seen))
  PROVE  Within(Desk', Q, C, new) /\ status' = new
  <1>1. k \in Desks
    BY DeskWithin DEF Desks
  <1>2. k.pending = pending /\ k.calls = cs /\ k.status = new
    OBVIOUS
  <1>3. Within(k, Q, C, new)
    <2>1. Serial(k)
      BY <1>2, DeskWithin DEF Serial, Within
    <2> QED BY <1>1, <1>2, <2>1 DEF Within
  <1>4. page = "ready" => hook \in Hooks /\ d \in Q[hook]
    BY DeskWithin DEF Ready
  <1>5. PICK m : m = Effect(k, d, Seen)
    OBVIOUS
  <1>6. Within(m, Q, C, new)
    BY <1>3, <1>4, <1>5, EffectWithin
  <1>7. m.status = new
    BY <1>1, <1>2, <1>4, <1>5, EffectQueues
  <1>8. Desk' = m
    BY <1>5, <1>6, SetDeskIs DEF Within
  <1>9. status' = Desk'.status
    BY DEF Desk
  <1> QED BY <1>6, <1>7, <1>8, <1>9

\* PublishClick
LEMMA PublishClickFits ==
  ASSUME TypeOK, Serial(Desk), PageInv, SnapInv, PublishClick
  PROVE  /\ Desk' \in Desks /\ Serial(Desk)' /\ SnapInv' /\ status' = "saving"
  <1> DEFINE r == Send(Dialog, "put", doc)
             k == [Desk EXCEPT !.calls = @ \cup {r}, !.status = "saving"]
             cs == calls \cup {r}
  <1>1. doc \in Snapshot /\ Waits(hook, doc) /\ hook \in Hooks
    BY DocumentMayWait DEF PublishClick
  <1>2. r \in Request
    BY <1>1, SendIsRequest, HooksAreLoads DEF Dialog
  <1>3. r.kind = "put" /\ r.snap = doc /\ r.from = 0 /\ r.result = "sent"
    BY DEF Send, Dialog
  <1>4. SetDesk(Effect(k, doc, Seen)) /\ doc' = doc /\ UNCHANGED <<ours, page, hook, historyVars>>
    BY DEF PublishClick, Change
  <1>5. k = [pending |-> pending, flush |-> flush, timer |-> timer, calls |-> cs, status |-> "saving"]
    <2>1. k = [[Desk EXCEPT !.calls = cs] EXCEPT !.status = "saving"]
      BY DeskWithin
    <2> QED BY <2>1, CallsAndStatus
  <1>6. Sent(r)
    BY <1>1, <1>3, HooksAreLoads DEF Sent, Waits
  <1> HIDE DEF r
  <1>7. \A h \in Hooks : Puts(cs, h) \subseteq Puts(calls, h)
    BY <1>3, HooksAreLoads DEF Puts
  <1>8. cs \in SUBSET Request
    BY <1>2, DeskWithin DEF Desks
  <1> HIDE DEF k, cs
  <1>9. Within(Desk', Waiters, cs, "saving") /\ status' = "saving"
    <2>1. \A g \in Hooks : pending[g] \subseteq Waiters[g]
      BY DEF Waiters
    <2>2. "saving" \in Statuses
      BY DEF Statuses
    <2> QED BY <1>1, <1>4, <1>5, <1>7, <1>8, <2>1, <2>2, DeskWithin, DialogWithin DEF Ready
  <1>10. \A q \in cs : q \in calls \/ (q.kind # "load" => q.snap \in Snapshot /\ Sent(q))
    BY <1>1, <1>3, <1>6 DEF cs
  <1> QED BY <1>4, <1>9, <1>10, StillFits DEF historyVars

\* The end of a dialog that leaves the document.
LEMMA DialogFits ==
  ASSUME TypeOK, Serial(Desk), PageInv, SnapInv, NEW r \in calls, NEW new \in Statuses,
         DialogEnds(r, new, doc), crossed' = crossed, overlapped' = overlapped
  PROVE  /\ Desk' \in Desks /\ Serial(Desk)' /\ SnapInv' /\ doc' = doc
         /\ status' = (IF ours THEN new ELSE status)
  <1> DEFINE w == IF ours THEN new ELSE status
             cs == calls \ {r}
             k == [Desk EXCEPT !.calls = @ \ {r}, !.status = IF ours THEN new ELSE @]
  <1>1. SetDesk(Effect(k, doc, Seen)) /\ doc' = doc /\ UNCHANGED <<ours, page, hook, known, blind>>
    BY DEF DialogEnds, Change
  <1>2. k = [pending |-> pending, flush |-> flush, timer |-> timer, calls |-> cs, status |-> w]
    <2>1. k = [[Desk EXCEPT !.calls = cs] EXCEPT !.status = w]
      BY DeskWithin
    <2> QED BY <2>1, CallsAndStatus
  <1>3. cs \in SUBSET Request /\ cs \subseteq calls /\ w \in Statuses
    BY DeskWithin DEF Desks
  <1>4. \A h \in Hooks : Puts(cs, h) \subseteq Puts(calls, h)
    BY DEF Puts
  <1> HIDE DEF k, cs, w
  <1>5. Within(Desk', Waiters, calls, w) /\ status' = w
    <2>1. \A g \in Hooks : pending[g] \subseteq Waiters[g]
      BY DEF Waiters
    <2>2. doc \in Snapshot /\ (Ready => doc \in Waiters[hook])
      BY DeskWithin DEF Ready, TypeOK
    <2> QED BY <1>1, <1>2, <1>3, <1>4, <2>1, <2>2, DialogWithin
  <1> QED BY <1>1, <1>5, StillFits DEF w

\* Steps that change requests only, and keep the history.
LEMMA CallsFit ==
  ASSUME TypeOK, Serial(Desk), PageInv, SnapInv,
         UNCHANGED <<doc, hook, hookVars, status, crossed, overlapped>>,
         \A l \in Hooks : known[l] \subseteq known'[l],
         ours' => ours, page' = "loading" => page = "loading",
         calls' \in SUBSET Request,
         \A h \in Hooks : \A q, r \in Puts(calls', h) : q.awaited /\ r.awaited => q = r,
         \A r \in calls' : r \in calls \/ Sent(r)' \/ (r.kind # "load" => Sent(r))
  PROVE  Desk' \in Desks /\ Serial(Desk)' /\ SnapInv'
  <1>1. Within(Desk', Waiters, calls', status)
    BY CallsWithin
  <1>2. \A r \in calls' : r \in calls \/ Sent(r)' \/ (r.kind # "load" => r.snap \in Snapshot /\ Sent(r))
    BY DEF Request
  <1> QED BY <1>1, <1>2, StillFits

\* Some requests are taken off.
LEMMA FewerCallsFit ==
  ASSUME TypeOK, Serial(Desk), PageInv, SnapInv,
         UNCHANGED <<doc, hook, hookVars, status, known, crossed, overlapped>>,
         ours' => ours, page' = "loading" => page = "loading", calls' \subseteq calls
  PROVE  Desk' \in Desks /\ Serial(Desk)' /\ SnapInv'
  <1>1. calls \in SUBSET Request /\ \A h \in Hooks : Puts(calls', h) \subseteq Puts(calls, h)
    BY DeskWithin DEF Desks, Puts
  <1>2. \A h \in Hooks : \A q, r \in Puts(calls, h) : q.awaited /\ r.awaited => q = r
    BY DeskWithin DEF Serial
  <1>3. \A h \in Hooks : \A q, r \in Puts(calls', h) : q.awaited /\ r.awaited => q = r
    BY <1>1, <1>2
  <1>4. calls' \in SUBSET Request
    BY <1>1
  <1> QED BY <1>3, <1>4, CallsFit

\* A request of a dialog takes the place of others.
LEMMA DialogSends ==
  ASSUME TypeOK, Serial(Desk), PageInv, SnapInv,
         UNCHANGED <<doc, hook, hookVars, status, known, crossed, overlapped>>,
         ours' => ours, page' = "loading" => page = "loading",
         NEW q \in Request, calls' \subseteq calls \cup {q}, q.from = Dialog, Sent(q)
  PROVE  Desk' \in Desks /\ Serial(Desk)' /\ SnapInv'
  <1>1. calls \in SUBSET Request
    BY DeskWithin DEF Desks
  <1>2. \A h \in Hooks : Puts(calls', h) \subseteq Puts(calls, h)
    BY HooksAreLoads DEF Puts, Dialog
  <1>3. \A h \in Hooks : \A p, r \in Puts(calls, h) : p.awaited /\ r.awaited => p = r
    BY DeskWithin DEF Serial
  <1>4. \A h \in Hooks : \A p, r \in Puts(calls', h) : p.awaited /\ r.awaited => p = r
    BY <1>2, <1>3
  <1>5. calls' \in SUBSET Request
    BY <1>1
  <1> QED BY <1>4, <1>5, CallsFit

\* PublishSaved
LEMMA PublishSavedFits ==
  ASSUME TypeOK, Serial(Desk), PageInv, SnapInv, PublishSaved
  PROVE  Desk' \in Desks /\ Serial(Desk)' /\ SnapInv'
  <1>1. PICK r \in Awaits(Dialog, "put") :
          /\ Answered(r)
          /\ calls' = (calls \ {r})
               \cup {Send(Dialog, "publish", [r.snap EXCEPT !.rev = @ + 1, !.etag = ETag(r.snap.def)])}
    BY DEF PublishSaved
  <1> DEFINE s == [r.snap EXCEPT !.rev = @ + 1, !.etag = ETag(r.snap.def)]
             q == Send(Dialog, "publish", s)
  <1>2. r \in calls /\ r.kind = "put" /\ r.snap \in Snapshot /\ r.result = "ok" /\ Sent(r)
    BY <1>1, DeskWithin DEF Awaits, Answered, Desks, Request, SnapInv
  <1>3. s \in Snapshot /\ s.def = r.snap.def /\ s.ref = r.snap.ref /\ s.load = r.snap.load
        /\ s.etag = ETag(s.def)
    <2>1. r.snap.rev + 1 \in Nat /\ r.snap.def \in Definitions
      BY <1>2 DEF Snapshot
    <2> DEFINE rev == r.snap.rev + 1
               etag == ETag(r.snap.def)
    <2>2. rev \in Nat /\ etag \in Definitions
      BY <2>1 DEF ETag
    <2>3. s = [[r.snap EXCEPT !.rev = rev] EXCEPT !.etag = etag]
      OBVIOUS
    <2> HIDE DEF rev, etag, s
    <2>4. s = [def |-> r.snap.def, ref |-> r.snap.ref, etag |-> etag, rev |-> rev, load |-> r.snap.load]
      BY <1>2, <2>2, <2>3, SnapUpdate
    <2>5. s \in Snapshot
      BY <1>2, <2>2, <2>4 DEF Snapshot
    <2> QED BY <2>4, <2>5 DEF etag
  <1> HIDE DEF s
  <1>4. q \in Request
    BY <1>3, SendIsRequest, HooksAreLoads DEF Dialog
  <1>5. q.from = Dialog /\ q.kind = "publish" /\ q.snap = s /\ q.result = "sent"
    BY DEF Send
  <1>6. Taken(s) /\ Copy(s)
    BY <1>2, <1>3 DEF Sent, Taken, Knows, Copy, ETag
  <1>7. Sent(q)
    BY <1>3, <1>5, <1>6, HooksAreLoads DEF Sent, Dialog
  <1> HIDE DEF q
  <1>8. calls' \subseteq calls \cup {q}
    BY <1>1 DEF q, s
  <1> QED BY <1>4, <1>5, <1>7, <1>8, DialogSends DEF PublishSaved, storeVars, historyVars

\* RestoreClick
LEMMA RestoreClickFits ==
  ASSUME TypeOK, Serial(Desk), PageInv, SnapInv, NEW v \in Definitions, RestoreClick(v)
  PROVE  Desk' \in Desks /\ Serial(Desk)' /\ SnapInv'
  <1> DEFINE s == [doc EXCEPT !.def = v]
             q == Send(Dialog, "restore", s)
  <1>1. doc \in Snapshot /\ Waits(hook, doc)
    BY DocumentMayWait DEF RestoreClick
  <1>2. s \in Snapshot /\ s.ref = doc.ref /\ s.load = doc.load /\ s.etag = doc.etag
    BY <1>1 DEF Snapshot
  <1> HIDE DEF s
  <1>3. q \in Request
    BY <1>2, SendIsRequest, HooksAreLoads DEF Dialog
  <1>4. q.from = Dialog /\ q.kind = "restore" /\ q.snap = s /\ q.result = "sent"
    BY DEF Send
  <1>5. Taken(s)
    BY <1>1, <1>2 DEF Waits, Taken, Knows
  <1>6. Sent(q)
    BY <1>4, <1>5, HooksAreLoads DEF Sent, Dialog
  <1> HIDE DEF q
  <1>7. calls' \subseteq calls \cup {q}
    BY DEF RestoreClick, q, s
  <1> QED BY <1>3, <1>4, <1>6, <1>7, DialogSends DEF RestoreClick, storeVars, historyVars

\* Break
LEMMA BreakFits ==
  ASSUME TypeOK, Serial(Desk), PageInv, SnapInv, Break
  PROVE  Desk' \in Desks /\ Serial(Desk)' /\ SnapInv'
  <1>1. PICK r \in calls : r.awaited /\ \E left \in SUBSET {[r EXCEPT !.awaited = FALSE]} :
          /\ left # {} => r.result = "sent"
          /\ calls' = (calls \ {r}) \cup {[r EXCEPT !.result = "broken"]} \cup left
    BY DEF Break
  <1> DEFINE b == [r EXCEPT !.result = "broken"]
             l == [r EXCEPT !.awaited = FALSE]
  <1>2. r \in Request /\ calls \in SUBSET Request
    BY DeskWithin DEF Desks
  <1>3. b \in Request /\ b.from = r.from /\ b.kind = r.kind /\ b.snap = r.snap /\ b.result = "broken"
        /\ b.awaited = r.awaited
    BY <1>2 DEF Request
  <1>4. l \in Request /\ l.from = r.from /\ l.kind = r.kind /\ l.snap = r.snap /\ l.result = r.result
        /\ l.awaited = FALSE
    BY <1>2 DEF Request
  <1>5. calls' = (calls \ {r}) \cup {b} \/ (calls' = (calls \ {r}) \cup {b} \cup {l} /\ r.result = "sent")
    <2>1. PICK left \in SUBSET {l} :
          /\ left # {} => r.result = "sent"
          /\ calls' = (calls \ {r}) \cup {b} \cup left
      BY <1>1
    <2> HIDE DEF b, l
    <2>2. left = {} \/ left = {l}
      OBVIOUS
    <2> QED BY <2>1, <2>2
  <1> HIDE DEF b, l
  <1>6. r.kind # "load" => Sent(r)
    BY DEF SnapInv
  <1>7. r.kind # "load" => Sent(b)
    BY <1>3, <1>6 DEF Sent
  <1>8. r.kind # "load" /\ r.result = "sent" => Sent(l)
    BY <1>4, <1>6 DEF Sent
  <1>9. \A h \in Hooks : \A q, p \in Puts(calls', h) : q.awaited /\ p.awaited => q = p
    <2>1. \A h \in Hooks : \A q, p \in Puts(calls, h) : q.awaited /\ p.awaited => q = p
      BY DeskWithin DEF Serial
    <2> QED BY <1>1, <1>3, <1>4, <1>5, <2>1 DEF Puts
  <1>10. calls' \in SUBSET Request
    BY <1>2, <1>3, <1>4, <1>5
  <1>11. \A q \in calls' : q \in calls \/ (q.kind # "load" => Sent(q))
    BY <1>3, <1>4, <1>5, <1>7, <1>8
  <1>12. UNCHANGED <<doc, ours, page, hook, hookVars, status, known, crossed, overlapped>>
    BY DEF Break, storeVars, historyVars
  <1> QED BY <1>9, <1>10, <1>11, <1>12, CallsFit

\* A reply takes the place of its request, if somebody awaits it.
LEMMA ReplySerial ==
  ASSUME TypeOK, Serial(Desk), PageInv, SnapInv, NEW r \in calls, NEW a \in Request,
         calls' = (calls \ {r}) \cup {b \in {a} : r.awaited},
         a.from = r.from, a.kind = r.kind
  PROVE  /\ calls' \in SUBSET Request
         /\ \A h \in Hooks : \A q, p \in Puts(calls', h) : q.awaited /\ p.awaited => q = p
  <1>1. calls \in SUBSET Request
    BY DeskWithin DEF Desks
  <1>2. \A h \in Hooks : \A q, p \in Puts(calls, h) : q.awaited /\ p.awaited => q = p
    BY DeskWithin DEF Serial
  <1> QED BY <1>1, <1>2 DEF Puts

\* Serve, when the request is accepted
LEMMA AcceptFits ==
  ASSUME TypeOK, Serial(Desk), PageInv, SnapInv, OnlyCrossedOverwrite,
         NEW r \in calls, Accept(r), UNCHANGED <<doc, ours, status, page, hook, hookVars, crossed, overlapped>>
  PROVE  /\ Desk' \in Desks /\ Serial(Desk)' /\ SnapInv' /\ OnlyCrossedOverwrite'
         /\ draft' \in Definitions /\ versions' \in SUBSET Definitions
         /\ known' \in [Hooks -> SUBSET Definitions] /\ blind' \in SUBSET Loads
  <1> DEFINE a == [r EXCEPT !.result = "ok"]
  <1>1. r \in Request /\ r.snap \in Snapshot /\ r.kind # "load" /\ Sent(r)
    BY DeskWithin DEF Desks, Request, Accept, SnapInv
  <1>2. a \in Request /\ a.from = r.from /\ a.kind = r.kind /\ a.snap = r.snap /\ a.awaited = r.awaited
    BY <1>1 DEF Request
  <1>3. calls' = (calls \ {r}) \cup {b \in {a} : r.awaited}
    BY DEF Accept, Reply
  <1> HIDE DEF a
  <1>4. r.snap.load \in Hooks /\ r.snap.def \in Definitions /\ r.snap.load \in Loads
        /\ (r.snap.etag \in known[r.snap.load] \/ r.snap.load \in crossed)
    BY <1>1, HooksAreLoads DEF Sent, Taken, Knows, Snapshot
  <1>5. known' = [known EXCEPT ![r.snap.load] = @ \cup {r.snap.def}]
    BY DEF Accept
  <1>6. known' \in [Hooks -> SUBSET Definitions] /\ r.snap.def \in known'[r.snap.load]
        /\ \A l \in Hooks : known[l] \subseteq known'[l]
    BY <1>4, <1>5 DEF TypeOK
  <1>7. Sent(a)' \/ ~r.awaited
    <2>1. Later /\ doc' \in Snapshot /\ hook' \in Loads
      BY <1>6 DEF Later, TypeOK, Snapshot, Loads
    <2>2. Taken(r.snap)' /\ (Copy(r.snap) => Copy(r.snap)') /\ (Timely(r.snap) => Timely(r.snap)')
      BY <1>1, <2>1, TakenStays DEF Sent, Timely, Fine
    <2> QED BY <1>1, <1>2, <1>6, <2>2 DEF Sent
  <1>8. Desk' \in Desks /\ Serial(Desk)' /\ SnapInv'
    <2>1. calls' \in SUBSET Request
          /\ \A h \in Hooks : \A q, p \in Puts(calls', h) : q.awaited /\ p.awaited => q = p
      BY <1>2, <1>3, ReplySerial
    <2>2. \A q \in calls' : q \in calls \/ Sent(q)'
      BY <1>3, <1>7
    <2> QED BY <1>6, <2>1, <2>2, CallsFit
  <1>9. r.snap.etag = draft /\ draft' \in Definitions /\ versions' \in SUBSET Definitions
    BY <1>4 DEF Accept, ReplaceFlowDraft, RestoreFlowDraft, PublishVersion, UpdateFlow, Current, ETag, TypeOK
  <1>10. blind' = blind \cup {l \in {r.snap.load} : draft \notin known[l]}
    BY DEF Accept
  <1> QED BY <1>4, <1>6, <1>8, <1>9, <1>10 DEF OnlyCrossedOverwrite, TypeOK

\* Serve, when the request is refused, or reads the draft
LEMMA RefuseFits ==
  ASSUME TypeOK, Serial(Desk), PageInv, SnapInv, OnlyCrossedOverwrite,
         NEW r \in calls, r.result = "sent", Refuse(r) \/ GetFlowDraft(r),
         UNCHANGED <<doc, ours, status, page, hook, hookVars, crossed, overlapped>>
  PROVE  /\ Desk' \in Desks /\ Serial(Desk)' /\ SnapInv' /\ OnlyCrossedOverwrite'
         /\ UNCHANGED <<draftVars, known, blind>>
  <1>1. r \in Request /\ (r.kind # "load" => Sent(r)) /\ calls \in SUBSET Request
    BY DeskWithin DEF Desks, SnapInv
  <1>2. UNCHANGED <<draftVars, known, blind>>
    BY DEF Refuse, GetFlowDraft, PreconditionFailed, draftVars
  <1>3. CASE Refuse(r)
    <2> DEFINE a == [r EXCEPT !.result = "refused"]
    <2>1. a \in Request /\ a.from = r.from /\ a.kind = r.kind /\ a.snap = r.snap /\ a.awaited = r.awaited
          /\ a.result = "refused"
      BY <1>1 DEF Request
    <2>2. calls' = (calls \ {r}) \cup {b \in {a} : r.awaited}
      BY <1>3 DEF Refuse, Reply
    <2> HIDE DEF a
    <2>3. Sent(a) /\ a.kind # "load"
      BY <1>1, <1>3, <2>1 DEF Sent, Refuse
    <2>4. calls' \in SUBSET Request
          /\ \A h \in Hooks : \A q, p \in Puts(calls', h) : q.awaited /\ p.awaited => q = p
      BY <2>1, <2>2, ReplySerial
    <2>5. \A q \in calls' : q \in calls \/ Sent(q)
      BY <2>2, <2>3
    <2> QED BY <1>2, <2>4, <2>5, CallsFit DEF OnlyCrossedOverwrite
  <1>4. CASE GetFlowDraft(r)
    <2> DEFINE a == [r EXCEPT !.result = "ok", !.snap.def = draft]
    <2>1. a \in Request /\ a.kind = "load"
      <3> DEFINE r1 == [r EXCEPT !.result = "ok"]
                 s == [r.snap EXCEPT !.def = draft]
                 r2 == [r1 EXCEPT !.snap = s]
      <3>1. a = r2
        BY <1>1 DEF Request
      <3>2. s \in Snapshot
        BY <1>1 DEF Request, Snapshot, TypeOK
      <3> HIDE DEF s
      <3>3. r1 \in Request /\ r1.kind = "load"
        BY <1>1, <1>4 DEF Request, GetFlowDraft
      <3> HIDE DEF r1
      <3>4. r2 \in Request /\ r2.kind = "load"
        BY <3>2, <3>3 DEF Request
      <3> HIDE DEF a, r2
      <3> QED BY <3>1, <3>4
    <2>2. calls' = (calls \ {r}) \cup {a}
      BY <1>4 DEF GetFlowDraft
    <2> HIDE DEF a
    <2>3. calls' \in SUBSET Request
      BY <1>1, <2>1, <2>2
    <2>4. \A h \in Hooks : \A q, p \in Puts(calls', h) : q.awaited /\ p.awaited => q = p
      <3>1. \A h \in Hooks : \A q, p \in Puts(calls, h) : q.awaited /\ p.awaited => q = p
        BY DeskWithin DEF Serial
      <3> QED BY <2>1, <2>2, <3>1 DEF Puts
    <2>5. \A q \in calls' : q \in calls \/ q.kind = "load"
      BY <2>1, <2>2
    <2> QED BY <1>2, <2>3, <2>4, <2>5, CallsFit DEF OnlyCrossedOverwrite
  <1> QED BY <1>3, <1>4

\* A step to a later time, or to a document with its own ETag, fits if the new document does.
LEMMA LaterFits ==
  ASSUME TypeOK, PageInv, SnapInv, Later, doc.ref # doc'.ref \/ Fine', doc' \in Snapshot, hook' \in Loads,
         \A l \in Hooks : (page = "loading" => l # hook) => known[l] \subseteq known'[l],
         NEW Q, NEW C, NEW st, Within(Desk', Q, C, st),
         \A g \in Hooks : \A s \in Q[g] : s \in pending[g] \/ Waits(g, s)', C \subseteq calls,
         doc'.load \in Hooks => Knows(doc)'
  PROVE  /\ Desk' \in Desks /\ Serial(Desk)' /\ SnapInv'
         /\ status' = st \/ (ours /\ status' = "saving")
  <1>1. \A s \in Snapshot : Taken(s) => Taken(s)' /\ (Copy(s) => Copy(s)') /\ Timely(s)'
    BY TakenStays DEF Timely
  <1>2. ASSUME NEW g \in Hooks, NEW s \in Q[g]
        PROVE  Waits(g, s)'
    <2>1. CASE s \in pending[g]
      <3>1. s \in Snapshot /\ Waits(g, s)
        BY <2>1 DEF TypeOK, Desks, Desk, SnapInv
      <3> QED BY <1>1, <3>1 DEF Waits
    <2> QED BY <1>2, <2>1
  <1>3. ASSUME NEW r \in C, r.kind # "load"
        PROVE  Sent(r)'
    <2>1. r.snap \in Snapshot /\ Sent(r)
      BY <1>3 DEF TypeOK, Desks, Desk, Request, SnapInv
    <2>2. r.snap.load \in Hooks /\ (page = "loading" => r.snap.load # hook)
      BY <2>1 DEF Sent, Taken, Knows
    <2> QED BY <1>1, <2>1, <2>2 DEF Sent
  <1> QED BY <1>2, <1>3, Fit

\* Edit
LEMMA EditFits ==
  ASSUME TypeOK, Serial(Desk), PageInv, SnapInv, NEW d \in Definitions, Edit(d)
  PROVE  /\ Desk' \in Desks /\ Serial(Desk)' /\ SnapInv' /\ doc' \in Snapshot
         /\ doc' = [def |-> d, ref |-> doc.ref + 1, etag |-> doc.etag, rev |-> doc.rev, load |-> doc.load]
         /\ status' = "dirty" /\ SetDesk(Effect([Desk EXCEPT !.status = "dirty"], doc', Seen))
  <1>1. doc \in Snapshot /\ Waits(hook, doc) /\ hook \in Hooks /\ doc.load = hook
    BY DocumentMayWait DEF Edit, PageInv
  <1>2. doc' = [def |-> d, ref |-> doc.ref + 1, etag |-> doc.etag, rev |-> doc.rev, load |-> doc.load]
    <2> DEFINE y == [doc EXCEPT !.def = d]
               z == [y EXCEPT !.ref = doc.ref + 1]
    <2>1. doc' = z
      BY DEF Edit, Change
    <2>2. y = [def |-> d, ref |-> doc.ref, etag |-> doc.etag, rev |-> doc.rev, load |-> doc.load]
      BY <1>1 DEF Snapshot
    <2> HIDE DEF y
    <2>3. z = [def |-> d, ref |-> doc.ref + 1, etag |-> doc.etag, rev |-> doc.rev, load |-> doc.load]
      BY <2>2
    <2> QED BY <2>1, <2>3
  <1>3. doc' \in Snapshot /\ doc.ref \in Nat /\ doc'.ref = doc.ref + 1
    BY <1>1, <1>2 DEF Snapshot
  <1>4. UNCHANGED <<ours, page, hook, historyVars>> /\ Ready
    BY DEF Edit
  <1>5. SetDesk(Effect([Desk EXCEPT !.status = "dirty"], doc', Seen))
    BY DEF Edit, Change
  <1>6. [Desk EXCEPT !.status = "dirty"] =
          [pending |-> pending, flush |-> flush, timer |-> timer, calls |-> calls, status |-> "dirty"]
    BY DeskWithin, DeskUpdate
  <1> DEFINE Q == [g \in Hooks |-> pending[g] \cup {s \in {doc'} : g = hook}]
             k == [Desk EXCEPT !.status = "dirty"]
  <1>7. Within(Desk', Q, calls, "dirty") /\ status' = "dirty"
    <2>1. \A g \in Hooks : pending[g] \subseteq Q[g]
      OBVIOUS
    <2>2. Ready => doc' \in Q[hook]
      BY <1>1
    <2>3. calls \in SUBSET Request /\ "dirty" \in Statuses
      BY DeskWithin DEF Desks, Statuses
    <2> HIDE DEF Q, k
    <2>4. k = [pending |-> pending, flush |-> flush, timer |-> timer, calls |-> calls, status |-> "dirty"]
          /\ SetDesk(Effect(k, doc', Seen))
      BY <1>5, <1>6 DEF k
    <2> QED BY <1>3, <2>1, <2>2, <2>3, <2>4, DialogWithin
  <1>8. Later /\ doc.ref # doc'.ref
    BY <1>3, <1>4 DEF Later, historyVars, Loads, TypeOK
  <1>9. Knows(doc)'
    BY <1>1, <1>2, <1>4 DEF Knows, Waits, Taken, historyVars
  <1>10. Waits(hook, doc)'
    BY <1>1, <1>2, <1>3, <1>4, <1>9 DEF Waits, Taken, Copy, Timely, Snapshot, historyVars, Ready, Hooks
  <1>11. \A g \in Hooks : \A s \in Q[g] : s \in pending[g] \/ Waits(g, s)'
    BY <1>4, <1>10
  <1> HIDE DEF Q
  <1>12. Desk' \in Desks /\ Serial(Desk)' /\ SnapInv'
    <2>1. hook' \in Loads /\ \A l \in Hooks : known[l] \subseteq known'[l]
      BY <1>4 DEF TypeOK, historyVars
    <2> QED BY <1>3, <1>7, <1>8, <1>9, <1>11, <2>1, LaterFits
  <1> QED BY <1>2, <1>3, <1>5, <1>7, <1>12

\* The end of a dialog that changes the document of its flow.
LEMMA DialogChangesFits ==
  ASSUME TypeOK, Serial(Desk), PageInv, SnapInv, NEW r \in calls, NEW d \in Snapshot, ours,
         DialogEnds(r, "saved", d), crossed' = crossed \cup Crossing(r),
         d.ref = doc.ref \/ d.ref = doc.ref + 1, d.ref = doc.ref => d.def = doc.def,
         d.load = doc.load, d.etag \in known[r.snap.load],
         doc.ref # d.ref \/ Fine'
  PROVE  /\ Desk' \in Desks /\ Serial(Desk)' /\ SnapInv' /\ status' = "saved" /\ doc' = d
  <1> DEFINE cs == calls \ {r}
             k == [Desk EXCEPT !.calls = @ \ {r}, !.status = IF ours THEN "saved" ELSE @]
             Q == [g \in Hooks |-> pending[g] \cup {s \in {d} : Ready /\ g = hook}]
  <1>1. SetDesk(Effect(k, d, Seen)) /\ doc' = d /\ UNCHANGED <<ours, page, hook, known, blind>>
    BY DEF DialogEnds, Change
  <1>2. k = [pending |-> pending, flush |-> flush, timer |-> timer, calls |-> cs, status |-> "saved"]
    <2>1. k = [[Desk EXCEPT !.calls = cs] EXCEPT !.status = "saved"]
      BY DeskWithin
    <2> QED BY <2>1, CallsAndStatus
  <1>3. cs \in SUBSET Request /\ cs \subseteq calls /\ "saved" \in Statuses
    BY DeskWithin DEF Desks, Statuses
  <1>4. \A h \in Hooks : Puts(cs, h) \subseteq Puts(calls, h)
    BY DEF Puts
  <1>5. (\A g \in Hooks : pending[g] \subseteq Q[g]) /\ (Ready => hook \in Hooks /\ d \in Q[hook])
    BY DeskWithin DEF Ready
  <1> HIDE DEF k, cs
  <1>6. Within(Desk', Q, cs, "saved") /\ status' = "saved"
    <2> HIDE DEF Q
    <2> QED BY <1>1, <1>2, <1>3, <1>4, <1>5, DialogWithin
  <1>7. doc.ref \in Nat /\ doc' \in Snapshot /\ hook' \in Loads
    BY <1>1 DEF TypeOK, Snapshot
  <1>8. Later
    BY <1>1, <1>7 DEF Later, TypeOK, Loads
  <1>9. doc'.load \in Hooks => Knows(doc)'
    <2>1. doc'.load = r.snap.load \/ doc'.load \in crossed'
      BY <1>1 DEF Crossing
    <2> QED BY <1>1, <2>1 DEF Knows
  <1>10. ASSUME NEW g \in Hooks, NEW s \in Q[g]
         PROVE  s \in pending[g] \/ Waits(g, s)'
    <2>1. CASE Ready /\ g = hook /\ s = d
      <3>1. s = doc' /\ doc'.load = hook' /\ hook' \in Hooks
        BY <1>1, <2>1 DEF PageInv, Ready
      <3>2. doc'.rev \in Nat /\ doc'.ref \in Nat /\ hook' \in Nat
        BY <1>7, <3>1 DEF Snapshot, Hooks
      <3>3. page' = "ready"
        BY <1>1, <2>1 DEF Ready
      <3>4. Waits(hook, doc)'
        BY <1>9, <3>1, <3>2, <3>3 DEF Waits, Taken, Copy, Timely
      <3> QED BY <1>1, <2>1, <3>1, <3>4
    <2>2. CASE ~(Ready /\ g = hook /\ s = d)
      BY <1>10, <2>2
    <2> QED BY <2>1, <2>2
  <1> HIDE DEF Q
  <1>11. \A l \in Hooks : known[l] \subseteq known'[l]
    BY <1>1
  <1> QED BY <1>1, <1>3, <1>6, <1>7, <1>8, <1>9, <1>10, <1>11, LaterFits

\* Published
LEMMA PublishedFits ==
  ASSUME TypeOK, Serial(Desk), PageInv, SnapInv, Published
  PROVE  /\ Desk' \in Desks /\ Serial(Desk)' /\ SnapInv' /\ doc' \in Snapshot
         /\ (IF ours THEN status' = "saved" /\ Fine' ELSE status' = status /\ doc' = doc)
         /\ doc'.load = doc.load /\ crossed' \in SUBSET Loads /\ overlapped' \in SUBSET Nat
         /\ crossed \subseteq crossed'
  <1>1. PICK r \in Awaits(Dialog, "publish") :
          /\ Answered(r) /\ DialogEnds(r, "saved", [doc EXCEPT !.rev = r.snap.rev, !.etag = r.snap.etag])
          /\ crossed' = crossed \cup Crossing(r)
          /\ overlapped' = overlapped \cup {n \in {doc.ref} : ours /\ n # r.snap.ref}
    BY DEF Published
  <1>2. r \in calls /\ r \in Request /\ r.kind = "publish" /\ r.result = "ok" /\ Sent(r)
    BY <1>1, DeskWithin DEF Awaits, Answered, Desks, SnapInv
  <1>3. r.snap \in Snapshot /\ r.snap.etag = r.snap.def /\ r.snap.def \in known[r.snap.load] /\ Copy(r.snap)
    BY <1>2 DEF Request, Sent, ETag
  <1>4. doc \in Snapshot /\ r.snap.rev \in Nat /\ r.snap.etag \in Definitions /\ doc.ref \in Nat /\ doc.load \in Loads
    BY <1>3 DEF Snapshot, TypeOK
  <1> DEFINE d == [doc EXCEPT !.rev = r.snap.rev, !.etag = r.snap.etag]
  <1>5. d = [def |-> doc.def, ref |-> doc.ref, etag |-> r.snap.etag, rev |-> r.snap.rev, load |-> doc.load]
    <2>1. d = [[doc EXCEPT !.rev = r.snap.rev] EXCEPT !.etag = r.snap.etag]
      OBVIOUS
    <2> QED BY <1>4, <2>1, SnapUpdate
  <1>6. d \in Snapshot /\ d.ref = doc.ref /\ d.def = doc.def /\ d.load = doc.load /\ d.etag = r.snap.etag
    BY <1>4, <1>5 DEF Snapshot
  <1>7. DialogEnds(r, "saved", d)
    BY <1>1
  <1> HIDE DEF d
  <1>8. crossed' \in SUBSET Loads /\ overlapped' \in SUBSET Nat /\ crossed \subseteq crossed'
    BY <1>1, <1>4 DEF Crossing, TypeOK
  <1>9. CASE ours
    <2>1. doc' = d
      BY <1>7, <1>9 DEF DialogEnds, Change
    <2>2. Fine'
      <3>1. CASE r.snap.ref = doc.ref
        BY <1>3, <1>6, <2>1, <3>1 DEF Fine, Copy, ETag
      <3>2. CASE r.snap.ref # doc.ref
        BY <1>1, <1>6, <1>9, <2>1, <3>2 DEF Fine
      <3> QED BY <3>1, <3>2
    <2>3. Desk' \in Desks /\ Serial(Desk)' /\ SnapInv' /\ status' = "saved" /\ doc' = d
      BY <1>1, <1>2, <1>3, <1>6, <1>7, <1>9, <2>2, DialogChangesFits
    <2> QED BY <1>6, <1>8, <1>9, <2>2, <2>3
  <1>10. CASE ~ours
    <2>1. DialogEnds(r, "saved", doc) /\ crossed' = crossed /\ overlapped' = overlapped
      BY <1>1, <1>10 DEF DialogEnds, Crossing
    <2>2. "saved" \in Statuses
      BY DEF Statuses
    <2> QED BY <1>2, <1>4, <1>8, <1>10, <2>1, <2>2, DialogFits
  <1> QED BY <1>9, <1>10

\* Restored
LEMMA RestoredFits ==
  ASSUME TypeOK, Serial(Desk), PageInv, SnapInv, Restored
  PROVE  /\ Desk' \in Desks /\ Serial(Desk)' /\ SnapInv' /\ doc' \in Snapshot
         /\ (IF ours THEN status' = "saved" /\ Fine' ELSE status' = status /\ doc' = doc)
         /\ doc'.load = doc.load /\ crossed' \in SUBSET Loads /\ overlapped' \in SUBSET Nat
         /\ crossed \subseteq crossed'
  <1>1. PICK r \in Awaits(Dialog, "restore") :
          /\ Answered(r)
          /\ DialogEnds(r, "saved", [doc EXCEPT !.def = r.snap.def, !.ref = @ + 1,
                                        !.rev = r.snap.rev + 1, !.etag = ETag(r.snap.def)])
          /\ crossed' = crossed \cup Crossing(r) /\ overlapped' = overlapped
    BY DEF Restored
  <1>2. r \in calls /\ r \in Request /\ r.kind = "restore" /\ r.result = "ok" /\ Sent(r)
    BY <1>1, DeskWithin DEF Awaits, Answered, Desks, SnapInv
  <1>3. r.snap \in Snapshot /\ r.snap.def \in known[r.snap.load]
    BY <1>2 DEF Request, Sent
  <1>4. doc \in Snapshot /\ r.snap.rev \in Nat /\ r.snap.def \in Definitions /\ doc.ref \in Nat /\ doc.load \in Loads
    BY <1>3 DEF Snapshot, TypeOK
  <1> DEFINE d == [doc EXCEPT !.def = r.snap.def, !.ref = @ + 1,
                              !.rev = r.snap.rev + 1, !.etag = ETag(r.snap.def)]
  <1>5. d \in Snapshot /\ d.ref = doc.ref + 1 /\ d.def = r.snap.def /\ d.load = doc.load /\ d.etag = r.snap.def
    <2> DEFINE y == [doc EXCEPT !.def = r.snap.def]
               z == [y EXCEPT !.ref = doc.ref + 1]
               rev == r.snap.rev + 1
               etag == r.snap.def
    <2>1. d = [[z EXCEPT !.rev = rev] EXCEPT !.etag = etag]
      BY <1>4 DEF ETag, Snapshot
    <2>2. y \in Snapshot /\ y.def = r.snap.def /\ y.load = doc.load
      BY <1>4 DEF Snapshot
    <2> HIDE DEF y
    <2>3. z \in Snapshot /\ z.def = y.def /\ z.load = y.load /\ z.ref = doc.ref + 1
      BY <1>4, <2>2 DEF Snapshot
    <2>4. rev \in Nat /\ etag \in Definitions
      BY <1>4
    <2> HIDE DEF z, rev, d
    <2>5. d = [def |-> z.def, ref |-> z.ref, etag |-> etag, rev |-> rev, load |-> z.load]
      BY <2>1, <2>3, <2>4, SnapUpdate
    <2>6. d \in Snapshot
      BY <2>3, <2>4, <2>5 DEF Snapshot
    <2> QED BY <2>2, <2>3, <2>5, <2>6
  <1>6. DialogEnds(r, "saved", d)
    BY <1>1
  <1> HIDE DEF d
  <1>7. crossed' \in SUBSET Loads /\ overlapped' \in SUBSET Nat /\ crossed \subseteq crossed'
    BY <1>1, <1>4 DEF Crossing, TypeOK
  <1>8. CASE ours
    <2>1. doc' = d
      BY <1>6, <1>8 DEF DialogEnds, Change
    <2>2. Fine' /\ doc.ref # d.ref
      BY <1>4, <1>5, <2>1 DEF Fine, ETag
    <2>3. Desk' \in Desks /\ Serial(Desk)' /\ SnapInv' /\ status' = "saved" /\ doc' = d
      BY <1>1, <1>2, <1>3, <1>4, <1>5, <1>6, <1>8, <2>2, DialogChangesFits
    <2> QED BY <1>5, <1>7, <1>8, <2>2, <2>3
  <1>9. CASE ~ours
    <2>1. DialogEnds(r, "saved", doc) /\ crossed' = crossed
      BY <1>1, <1>9 DEF DialogEnds, Crossing
    <2>2. "saved" \in Statuses
      BY DEF Statuses
    <2> QED BY <1>1, <1>2, <1>4, <1>7, <1>9, <2>1, <2>2, DialogFits
  <1> QED BY <1>8, <1>9

\* LoadDocument
LEMMA LoadDocumentFits ==
  ASSUME TypeOK, Serial(Desk), PageInv, SnapInv, LoadDocument
  PROVE  /\ Desk' \in Desks /\ Serial(Desk)' /\ SnapInv' /\ doc' \in Snapshot
         /\ known' \in [Hooks -> SUBSET Definitions] /\ Fine' /\ hook \in Hooks
  <1>1. PICK r \in Awaits(hook, "load") :
          /\ page = "loading" /\ calls' = calls \ {r}
          /\ doc' = [def |-> r.snap.def, ref |-> doc.ref + 1, etag |-> ETag(r.snap.def), rev |-> 1, load |-> hook]
          /\ status' = "saved" /\ page' = "ready"
          /\ known' = [known EXCEPT ![hook] = {r.snap.def}]
    BY DEF LoadDocument
  <1>2. r \in Request /\ r.snap \in Snapshot /\ r.snap.def \in Definitions /\ hook \in Hooks
    BY <1>1, DeskWithin DEF Awaits, Desks, Request, Snapshot, PageInv
  <1>3. doc' \in Snapshot /\ doc.ref \in Nat /\ doc'.ref = doc.ref + 1 /\ doc'.load = hook
        /\ doc'.etag = r.snap.def /\ doc'.def = r.snap.def
    BY <1>1, <1>2, HooksAreLoads DEF Snapshot, TypeOK, ETag
  <1>4. known' \in [Hooks -> SUBSET Definitions] /\ r.snap.def \in known'[hook]
        /\ \A l \in Hooks : l # hook => known'[l] = known[l]
    BY <1>1, <1>2 DEF TypeOK
  <1>5. UNCHANGED <<hook, hookVars, crossed>>
    BY DEF LoadDocument
  <1>6. Later /\ doc.ref # doc'.ref
    BY <1>1, <1>3, <1>4, <1>5 DEF Later, TypeOK, Loads
  <1>7. Knows(doc)'
    BY <1>2, <1>3, <1>4 DEF Knows
  <1>8. Within(Desk', pending, calls, "saved")
    <2>1. Desk' = [pending |-> pending, flush |-> flush, timer |-> timer, calls |-> calls', status |-> "saved"]
      BY <1>1, <1>5 DEF Desk, hookVars
    <2>2. Desk' \in Desks
      BY <1>1, <2>1, DeskWithin DEF Desks, Statuses
    <2>3. Desk'.pending = pending /\ Desk'.calls = calls' /\ Desk'.status = "saved"
      BY <2>1
    <2>4. Serial(Desk')
      BY <1>1, <2>3, DeskWithin DEF Serial, Within, Puts
    <2> QED BY <1>1, <2>2, <2>3, <2>4 DEF Within
  <1>9. Desk' \in Desks /\ Serial(Desk)' /\ SnapInv'
    <2>1. hook' \in Loads
      BY <1>5 DEF TypeOK
    <2>2. \A l \in Hooks : (page = "loading" => l # hook) => known[l] \subseteq known'[l]
      BY <1>1, <1>4
    <2> QED BY <1>3, <1>6, <1>7, <1>8, <2>1, <2>2, LaterFits
  <1>10. Fine'
    BY <1>3 DEF Fine, ETag
  <1> QED BY <1>2, <1>3, <1>4, <1>9, <1>10

\* Open
LEMMA OpenFits ==
  ASSUME TypeOK, Serial(Desk), PageInv, SnapInv, Open
  PROVE  Desk' \in Desks /\ Serial(Desk)' /\ SnapInv' /\ hook' \in Hooks /\ doc.load <= hook
  <1>1. page = "closed" /\ page' = "loading" /\ hook' = hook + 1 /\ hook < MaxMounts
        /\ calls' = calls \cup {Send(hook + 1, "load", doc)} /\ UNCHANGED <<storeVars, hookVars, historyVars>>
    BY DEF Open
  <1>2. hook \in Nat /\ hook' \in Hooks /\ hook' \in Loads /\ doc.load \in Nat
    BY <1>1, AutosaveAssumption DEF TypeOK, Loads, Hooks, Snapshot
  <1> DEFINE q == Send(hook + 1, "load", doc)
  <1>3. q \in Request /\ q.kind = "load"
    <2>1. hook + 1 \in Loads /\ doc \in Snapshot
      BY <1>1, <1>2 DEF TypeOK
    <2> QED BY <2>1, SendIsRequest DEF Send
  <1> HIDE DEF q
  <1>4. calls' = calls \cup {q}
    BY <1>1 DEF q
  <1>5. Within(Desk', Waiters, calls', status)
    <2>1. calls' \in SUBSET Request
      BY <1>3, <1>4, DeskWithin DEF Desks
    <2>2. \A h \in Hooks : Puts(calls', h) = Puts(calls, h)
      BY <1>3, <1>4 DEF Puts
    <2>3. \A h \in Hooks : \A p, r \in Puts(calls, h) : p.awaited /\ r.awaited => p = r
      BY DeskWithin DEF Serial
    <2>4. \A h \in Hooks : \A p, r \in Puts(calls', h) : p.awaited /\ r.awaited => p = r
      BY <2>2, <2>3
    <2> QED BY <1>1, <2>1, <2>4, CallsWithin DEF storeVars
  <1>6. Later /\ doc' = doc /\ ours' = ours /\ doc \in Snapshot
    BY <1>1, <1>2 DEF Later, storeVars, historyVars, TypeOK, Snapshot
  <1>7. \A s \in Snapshot : Taken(s) => Taken(s)' /\ (Copy(s) => Copy(s)')
    BY <1>2, <1>6, TakenStays
  <1>8. \A s \in Snapshot : Timely(s) => Timely(s)'
    BY <1>1, <1>6 DEF Timely, Fine, historyVars
  <1>9. ASSUME NEW g \in Hooks, NEW s \in Waiters[g]
        PROVE  Waits(g, s)'
    <2>1. s \in pending[g]
      BY <1>1, <1>9 DEF Waiters, Ready
    <2>2. s \in Snapshot /\ Waits(g, s)
      BY <2>1 DEF TypeOK, Desks, Desk, SnapInv
    <2> QED BY <1>7, <1>8, <2>2 DEF Waits
  <1>10. ASSUME NEW r \in calls', r.kind # "load"
         PROVE  Sent(r)'
    <2>1. r \in calls
      BY <1>3, <1>4, <1>10
    <2>2. r.snap \in Snapshot /\ Sent(r)
      BY <1>10, <2>1, DeskWithin DEF Desks, Request, SnapInv
    <2>3. known' = known
      BY <1>1 DEF historyVars
    <2> QED BY <1>7, <1>8, <2>2, <2>3 DEF Sent
  <1>11. doc'.load \in Hooks => Knows(doc)'
    BY <1>1, <1>6 DEF SnapInv, Knows, historyVars
  <1>12. Desk' \in Desks /\ Serial(Desk)' /\ SnapInv'
    BY <1>5, <1>9, <1>10, <1>11, Fit
  <1> QED BY <1>2, <1>12 DEF PageInv

\* The steps of SaveCompletes, each with a name.
Chained(h, r) ==
  [Desk EXCEPT !.status = CompleteAutosave(r.snap, r.snap.rev + 1, ETag(r.snap.def)).status,
               !.pending[h] = {[s EXCEPT !.rev = r.snap.rev + 1, !.etag = ETag(r.snap.def)] : s \in @}]
NextDoc(r)  == CompleteAutosave(r.snap, r.snap.rev + 1, ETag(r.snap.def)).doc
Shown(h, r) == Effect(Chained(h, r), NextDoc(r), Seen)
Cut(h, r)   == [Shown(h, r) EXCEPT !.calls = @ \ {r}]
Freed(h, r) == Finally(Cut(h, r), h, Mounted(h))
After(h, r) == Effect(Freed(h, r), NextDoc(r), [doc |-> NextDoc(r), status |-> Shown(h, r).status])
NewStatus(r) == IF ~ours THEN status ELSE IF doc.ref = r.snap.ref THEN "saved" ELSE "dirty"

\* The snapshot that waits behind a save takes over its revision and its ETag.
LEMMA ChainedIs ==
  ASSUME TypeOK, Serial(Desk), NEW h \in Hooks, NEW r \in calls
  PROVE  LET k == Chained(h, r)
         IN  /\ k \in Desks /\ Serial(k) /\ NewStatus(r) \in Statuses
             /\ k.status = NewStatus(r) /\ k.calls = calls /\ k.timer = timer /\ k.flush = flush
             /\ \A g \in Hooks : g # h => k.pending[g] = pending[g]
             /\ pending[h] = {} => k.pending[h] = {}
             /\ \A s \in pending[h] : k.pending[h] =
                  {[def |-> s.def, ref |-> s.ref, etag |-> ETag(r.snap.def), rev |-> r.snap.rev + 1, load |-> s.load]}
  <1> DEFINE t == IF ~ours THEN status ELSE IF doc.ref = r.snap.ref THEN "saved" ELSE "dirty"
             rev == r.snap.rev + 1
             etag == ETag(r.snap.def)
             P == {[s EXCEPT !.rev = r.snap.rev + 1, !.etag = ETag(r.snap.def)] : s \in pending[h]}
             x == [pending EXCEPT ![h] = P]
             k1 == [Desk EXCEPT !.status = t]
             k2 == [k1 EXCEPT !.pending = x]
  <1>1. Desk \in Desks /\ Desk = [pending |-> pending, flush |-> flush, timer |-> timer, calls |-> calls, status |-> status]
    BY DEF TypeOK, Desk
  <1>2. pending \in [Hooks -> SUBSET Snapshot] /\ flush \in [Hooks -> BOOLEAN] /\ timer \in [Hooks -> BOOLEAN]
        /\ calls \in SUBSET Request /\ status \in Statuses /\ t \in Statuses
        /\ \A g \in Hooks : \A a, b \in pending[g] : a = b
    BY <1>1 DEF Desks, Statuses, Serial
  <1>3. CompleteAutosave(r.snap, rev, etag).status = t
    BY DEF CompleteAutosave
  <1>4. Chained(h, r) = k2
    BY <1>1, <1>3 DEF Chained
  <1> HIDE DEF t
  <1>5. rev \in Nat /\ etag \in Definitions
    BY <1>2 DEF Request, Snapshot, ETag
  <1>6. \A s \in Snapshot : [s EXCEPT !.rev = r.snap.rev + 1, !.etag = ETag(r.snap.def)] =
          [def |-> s.def, ref |-> s.ref, etag |-> etag, rev |-> rev, load |-> s.load]
    <2> SUFFICES ASSUME NEW s \in Snapshot
                 PROVE  [s EXCEPT !.rev = r.snap.rev + 1, !.etag = ETag(r.snap.def)] =
                          [def |-> s.def, ref |-> s.ref, etag |-> etag, rev |-> rev, load |-> s.load]
      OBVIOUS
    <2>1. [s EXCEPT !.rev = r.snap.rev + 1, !.etag = ETag(r.snap.def)] =
            [[s EXCEPT !.rev = rev] EXCEPT !.etag = etag]
      OBVIOUS
    <2> HIDE DEF rev, etag
    <2> QED BY <1>5, <2>1, SnapUpdate
  <1> HIDE DEF rev, etag
  <1>7. (pending[h] = {} => P = {}) /\ \A s \in pending[h] : P =
          {[def |-> s.def, ref |-> s.ref, etag |-> etag, rev |-> rev, load |-> s.load]}
    <2>1. pending[h] = {} => P = {}
      OBVIOUS
    <2>2. ASSUME NEW s \in pending[h]
          PROVE  P = {[def |-> s.def, ref |-> s.ref, etag |-> etag, rev |-> rev, load |-> s.load]}
      <3>1. pending[h] = {s} /\ s \in Snapshot
        BY <1>2
      <3>2. P = {[s EXCEPT !.rev = r.snap.rev + 1, !.etag = ETag(r.snap.def)]}
        BY <3>1
      <3> QED BY <1>6, <3>1, <3>2
    <2> QED BY <2>1, <2>2
  <1>8. P \in SUBSET Snapshot /\ \A a, b \in P : a = b
    <2>1. CASE pending[h] = {}
      BY <1>7, <2>1
    <2>2. ASSUME NEW s \in pending[h]
          PROVE  P \in SUBSET Snapshot /\ \A a, b \in P : a = b
      <3>1. [def |-> s.def, ref |-> s.ref, etag |-> etag, rev |-> rev, load |-> s.load] \in Snapshot
        BY <1>2, <1>5 DEF Snapshot
      <3> QED BY <1>7, <3>1
    <2> QED BY <2>1, <2>2
  <1> HIDE DEF P
  <1>9. x \in [Hooks -> SUBSET Snapshot] /\ x[h] = P /\ \A g \in Hooks : g # h => x[g] = pending[g]
    BY <1>2, <1>8
  <1> HIDE DEF x
  <1>10. k1 = [pending |-> pending, flush |-> flush, timer |-> timer, calls |-> calls, status |-> t]
    BY <1>1, FieldUpdate
  <1> HIDE DEF k1
  <1>11. k2 = [pending |-> x, flush |-> flush, timer |-> timer, calls |-> calls, status |-> t]
    BY <1>10, FieldUpdate
  <1> HIDE DEF k2
  <1>12. k2 \in Desks
    BY <1>2, <1>9, <1>11 DEF Desks
  <1>13. Serial(k2)
    <2>1. Desk.calls = calls /\ k2.calls = calls /\ k2.pending = x
      BY <1>1, <1>11
    <2> QED BY <1>2, <1>8, <1>9, <2>1 DEF Serial
  <1>14. k2.status = t /\ k2.calls = calls /\ k2.timer = timer /\ k2.flush = flush /\ k2.pending = x
    BY <1>11
  <1> QED BY <1>2, <1>4, <1>7, <1>9, <1>12, <1>13, <1>14 DEF t, rev, etag, NewStatus

\* The document that takes the answer.
LEMMA NextDocIs ==
  ASSUME TypeOK, NEW r \in calls
  PROVE  /\ NextDoc(r) = IF ours /\ r.snap.rev + 1 >= doc.rev
                          THEN [def |-> doc.def, ref |-> doc.ref, etag |-> ETag(r.snap.def),
                                rev |-> r.snap.rev + 1, load |-> doc.load]
                          ELSE doc
         /\ NextDoc(r) \in Snapshot
         /\ NextDoc(r).def = doc.def /\ NextDoc(r).ref = doc.ref /\ NextDoc(r).load = doc.load
  <1> DEFINE rev == r.snap.rev + 1
             etag == ETag(r.snap.def)
  <1>1. rev \in Nat /\ etag \in Definitions /\ doc \in Snapshot
    BY DEF TypeOK, Desks, Desk, Request, Snapshot, ETag
  <1>2. [doc EXCEPT !.rev = rev, !.etag = etag] = [[doc EXCEPT !.rev = rev] EXCEPT !.etag = etag]
    OBVIOUS
  <1>3. NextDoc(r) = IF ours /\ rev >= doc.rev THEN [doc EXCEPT !.rev = rev, !.etag = etag] ELSE doc
    BY DEF NextDoc, CompleteAutosave
  <1> HIDE DEF rev, etag
  <1>4. [[doc EXCEPT !.rev = rev] EXCEPT !.etag = etag] =
          [def |-> doc.def, ref |-> doc.ref, etag |-> etag, rev |-> rev, load |-> doc.load]
    BY <1>1, SnapUpdate
  <1>5. [def |-> doc.def, ref |-> doc.ref, etag |-> etag, rev |-> rev, load |-> doc.load] \in Snapshot
    BY <1>1 DEF Snapshot
  <1>6. NextDoc(r) = IF ours /\ rev >= doc.rev
                     THEN [def |-> doc.def, ref |-> doc.ref, etag |-> etag, rev |-> rev, load |-> doc.load]
                     ELSE doc
    BY <1>2, <1>3, <1>4
  <1>7. CASE ours /\ rev >= doc.rev
    BY <1>5, <1>6, <1>7 DEF rev, etag
  <1>8. CASE ~(ours /\ rev >= doc.rev)
    BY <1>1, <1>6, <1>8 DEF rev, etag
  <1> QED BY <1>7, <1>8

\* The steps of SaveCompletes one by one.
LEMMA SaveCompletesIs ==
  ASSUME TypeOK, Serial(Desk), PageInv, SnapInv, NEW h \in Hooks, SaveCompletes(h)
  PROVE  \E r \in calls :
           /\ r \in Request /\ r.snap \in Snapshot /\ r.from = h /\ r.kind = "put" /\ r.awaited
           /\ r.result = "ok" /\ Sent(r)
           /\ doc' = NextDoc(r) /\ SetDesk(After(h, r))
           /\ crossed' = crossed \cup Crossing(r)
           /\ overlapped' = overlapped \cup {s.ref : s \in Overtaken(r)}
           /\ UNCHANGED <<draftVars, ours, page, hook, boundVars, known, blind>>
  <1>1. PICK r \in Awaits(h, "put") :
           /\ Answered(r) /\ doc' = NextDoc(r) /\ SetDesk(After(h, r))
           /\ crossed' = crossed \cup Crossing(r)
           /\ overlapped' = overlapped \cup {s.ref : s \in Overtaken(r)}
           /\ UNCHANGED <<draftVars, ours, page, hook, boundVars, known, blind>>
    BY DEF SaveCompletes, After, Freed, Cut, Shown, Chained, NextDoc
  <1>2. r \in calls /\ r.from = h /\ r.kind = "put" /\ r.awaited /\ r.result = "ok"
    BY <1>1 DEF Awaits, Answered
  <1>3. r \in Request /\ r.snap \in Snapshot /\ Sent(r)
    BY <1>2, DeskWithin DEF Desks, Request, SnapInv
  <1> QED BY <1>1, <1>2, <1>3

\* The desk when the request is off it.
LEMMA CutIs ==
  ASSUME TypeOK, Serial(Desk), PageInv, SnapInv, NEW h \in Hooks, NEW r \in calls,
         r.from = h, r.kind = "put", r.awaited
  PROVE  /\ Shown(h, r) \in Desks /\ Shown(h, r).status = NewStatus(r) /\ Shown(h, r).calls = calls
         /\ Cut(h, r) \in Desks /\ Cut(h, r).status = NewStatus(r) /\ Cut(h, r).calls = calls \ {r}
         /\ Cut(h, r).pending = Shown(h, r).pending /\ Cut(h, r).timer = Shown(h, r).timer
         /\ ~InFlight(calls \ {r}, h)
  <1> DEFINE k == Chained(h, r)
  <1>1. k \in Desks /\ k.calls = calls /\ k.status = NewStatus(r)
    BY ChainedIs
  <1>2. page = "ready" => hook \in Hooks
    BY DeskWithin
  <1>3. PICK m : m = Shown(h, r)
    OBVIOUS
  <1>4. m \in Desks /\ m.calls = calls /\ m.status = NewStatus(r)
    <2>1. NextDoc(r) \in Snapshot
      BY NextDocIs
    <2>2. m = Effect(k, NextDoc(r), Seen)
      BY <1>3 DEF Shown
    <2> HIDE DEF k
    <2> QED BY <1>1, <1>2, <2>1, <2>2, EffectQueues
  <1>5. Cut(h, r) = [m EXCEPT !.calls = m.calls \ {r}]
    BY <1>3 DEF Cut
  <1>6. @ = [pending |-> m.pending, flush |-> m.flush, timer |-> m.timer, calls |-> m.calls \ {r}, status |-> m.status]
    BY <1>4, DeskUpdate
  <1>7. Cut(h, r) \in Desks
    BY <1>4, <1>5, <1>6 DEF Desks
  <1>8. ~InFlight(calls \ {r}, h)
    <2>1. \A p, q \in Puts(calls, h) : p.awaited /\ q.awaited => p = q
      BY DeskWithin DEF Serial
    <2> QED BY <2>1 DEF InFlight, Puts
  <1> QED BY <1>3, <1>4, <1>5, <1>6, <1>7, <1>8

\* What may wait after an answer: what waited at other hooks, what waits behind the save with the
\* revision of the answer, and the document.
Requeued(h, r) ==
  [g \in Hooks |-> (IF g = h THEN Chained(h, r).pending[h] ELSE pending[g])
                   \cup {s \in {NextDoc(r)} : Ready /\ g = hook}]

\* The desk of SaveCompletes stays within these bounds.
LEMMA SaveCompletesWithin ==
  ASSUME TypeOK, Serial(Desk), PageInv, SnapInv, NEW h \in Hooks, NEW r \in calls,
         r.from = h, r.kind = "put", r.awaited
  PROVE  /\ Within(Cut(h, r), Requeued(h, r), calls \ {r}, NewStatus(r))
         /\ Within(Freed(h, r), Requeued(h, r), calls \ {r}, NewStatus(r))
         /\ Within(After(h, r), Requeued(h, r), calls \ {r}, NewStatus(r))
  <1> DEFINE k == Chained(h, r)
             Q == Requeued(h, r)
             t == NewStatus(r)
             cs == calls \ {r}
             d == NextDoc(r)
  <1>1. k \in Desks /\ Serial(k) /\ k.calls = calls /\ k.status = t
        /\ \A g \in Hooks : g # h => k.pending[g] = pending[g]
    BY ChainedIs
  <1>2. (\A g \in Hooks : k.pending[g] \subseteq Q[g]) /\ (Ready => hook \in Hooks /\ d \in Q[hook])
    <2>1. Ready => hook \in Hooks
      BY DeskWithin DEF Ready
    <2> HIDE DEF k
    <2> QED BY <1>1, <2>1 DEF Requeued, k
  <1>3. d \in Snapshot
    BY NextDocIs
  <1>4. page = "ready" => hook \in Hooks /\ d \in Q[hook]
    BY <1>2 DEF Ready
  <1> HIDE DEF Q, t, d
  <1>5. Within(k, Q, calls, t)
    <2> HIDE DEF k
    <2> QED BY <1>1, <1>2 DEF Within
  <1>6. Within(Shown(h, r), Q, calls, t)
    <2>1. Shown(h, r) = Effect(k, d, Seen)
      BY DEF Shown, d
    <2> HIDE DEF k
    <2> QED BY <1>3, <1>4, <1>5, <2>1, EffectWithin
  <1>7. Within(Cut(h, r), Q, cs, t)
    <2>1. Cut(h, r) \in Desks /\ Cut(h, r).pending = Shown(h, r).pending /\ Cut(h, r).calls = cs
          /\ Cut(h, r).status = t /\ Shown(h, r).calls = calls
      BY CutIs DEF t
    <2>2. Within(Cut(h, r), Q, calls, Cut(h, r).status)
      BY <1>6, <2>1, LessWithin DEF Within
    <2> QED BY <2>1, <2>2 DEF Within
  <1> HIDE DEF cs
  <1>8. Within(Freed(h, r), Q, cs, t)
    <2>1. Mounted(h) \in BOOLEAN
      BY DEF Mounted
    <2> QED BY <1>7, <2>1, FinallyWithin DEF Freed
  <1>9. Within(After(h, r), Q, cs, t)
    BY <1>3, <1>4, <1>8, EffectWithin DEF After, d
  <1> QED BY <1>7, <1>8, <1>9 DEF Q, t, cs

\* SaveCompletes
LEMMA SaveCompletesFits ==
  ASSUME TypeOK, Serial(Desk), PageInv, SnapInv, NEW h \in Hooks, SaveCompletes(h)
  PROVE  /\ Desk' \in Desks /\ Serial(Desk)' /\ SnapInv' /\ doc' \in Snapshot /\ doc'.load = doc.load
         /\ ours /\ status' = "saved" => Fine'
         /\ crossed' \in SUBSET Loads /\ overlapped' \in SUBSET Nat /\ crossed \subseteq crossed'
  <1>1. PICK r \in calls :
           /\ r \in Request /\ r.snap \in Snapshot /\ r.from = h /\ r.kind = "put" /\ r.awaited
           /\ r.result = "ok" /\ Sent(r)
           /\ doc' = NextDoc(r) /\ SetDesk(After(h, r))
           /\ crossed' = crossed \cup Crossing(r)
           /\ overlapped' = overlapped \cup {s.ref : s \in Overtaken(r)}
           /\ UNCHANGED <<draftVars, ours, page, hook, boundVars, known, blind>>
    BY SaveCompletesIs
  <1>2. /\ doc' = IF ours /\ r.snap.rev + 1 >= doc.rev
                   THEN [def |-> doc.def, ref |-> doc.ref, etag |-> ETag(r.snap.def),
                         rev |-> r.snap.rev + 1, load |-> doc.load]
                   ELSE doc
        /\ doc' \in Snapshot /\ doc'.def = doc.def /\ doc'.ref = doc.ref /\ doc'.load = doc.load
    BY <1>1, NextDocIs
  <1>3. /\ r.snap.load = h /\ r.snap.def \in known[h] /\ Taken(r.snap) /\ Copy(r.snap) /\ Timely(r.snap)
        /\ r.snap.rev \in Nat /\ r.snap.ref \in Nat /\ r.snap.def \in Definitions
        /\ doc.rev \in Nat /\ doc.ref \in Nat /\ doc.load \in Loads /\ doc \in Snapshot
    BY <1>1 DEF Sent, Snapshot, TypeOK
  <1>4. crossed' \in SUBSET Loads /\ overlapped' \in SUBSET Nat /\ crossed \subseteq crossed'
        /\ overlapped \subseteq overlapped'
    <2>1. \A s \in Overtaken(r) : s.ref \in Nat
      BY <1>1 DEF Overtaken, TypeOK, Desks, Desk, Snapshot
    <2> QED BY <1>1, <1>3, <2>1 DEF Crossing, TypeOK
  <1>5. Later /\ hook' \in Loads
    BY <1>1, <1>2, <1>3, <1>4 DEF Later, TypeOK, Loads
  <1>6. \A s \in Snapshot : Taken(s) => Taken(s)' /\ (Copy(s) => Copy(s)')
    BY <1>2, <1>5, TakenStays
  <1>7. ours /\ doc.load # h => Fine'
    BY <1>1, <1>2, <1>3 DEF Crossing, Fine
  <1>8. doc'.load \in Hooks => Knows(doc)'
    <2>1. CASE doc' = doc
      BY <1>1, <1>4, <2>1 DEF SnapInv, Knows
    <2>2. CASE ours /\ doc'.etag = ETag(r.snap.def)
      BY <1>1, <1>2, <1>3, <2>2 DEF Knows, Crossing, ETag
    <2> QED BY <1>2, <2>1, <2>2
  <1>9. \A s \in Snapshot : Copy(s) /\ s.load # h => Timely(s)'
    BY <1>1, <1>2, <1>7 DEF Copy, Timely
  <1>10. ASSUME NEW g \in Hooks, NEW s \in Requeued(h, r)[g]
         PROVE  Waits(g, s)'
    <2>1. CASE g # h /\ s \in pending[g]
      <3>1. s \in Snapshot /\ Waits(g, s)
        BY <2>1 DEF TypeOK, Desks, Desk, SnapInv
      <3> QED BY <1>6, <1>9, <2>1, <3>1 DEF Waits
    <2>2. CASE g = h /\ s \in Chained(h, r).pending[h]
      <3>1. PICK x \in pending[h] :
              s = [def |-> x.def, ref |-> x.ref, etag |-> ETag(r.snap.def), rev |-> r.snap.rev + 1, load |-> x.load]
        BY <2>2, ChainedIs
      <3>2. x \in Snapshot /\ Waits(h, x)
        BY DEF TypeOK, Desks, Desk, SnapInv
      <3>3. s \in Snapshot /\ s.def = x.def /\ s.ref = x.ref /\ s.load = h /\ x.load = h
            /\ s.etag = r.snap.def /\ s.rev = r.snap.rev + 1
        BY <1>3, <3>1, <3>2 DEF Snapshot, Waits, ETag
      <3>4. Taken(s) /\ Copy(s)
        BY <1>3, <3>2, <3>3 DEF Waits, Taken, Knows, Copy
      <3>5. Timely(s)'
        <4>1. SUFFICES ASSUME ours', s.ref = doc'.ref
                       PROVE  s.rev + 1 >= doc'.rev \/ Fine'
          BY DEF Timely
        <4>2. CASE r.snap.rev + 1 >= doc.rev
          BY <1>1, <1>2, <1>3, <3>3, <4>1, <4>2
        <4>3. CASE ~(r.snap.rev + 1 >= doc.rev)
          <5>1. x \in Overtaken(r)
            BY <1>1, <1>3, <4>1, <4>3 DEF Overtaken
          <5>2. doc'.ref \in overlapped'
            BY <1>1, <1>2, <3>3, <4>1, <5>1
          <5> QED BY <5>2 DEF Fine
        <4> QED BY <4>2, <4>3
      <3> QED BY <1>6, <2>2, <3>3, <3>4, <3>5 DEF Waits
    <2>3. CASE Ready /\ g = hook /\ s = doc'
      <3>1. doc'.load = hook' /\ hook' \in Hooks /\ page' = "ready"
        BY <1>1, <1>2, <2>3 DEF PageInv, Ready
      <3>2. doc'.rev \in Nat /\ doc'.ref \in Nat /\ hook' \in Nat
        BY <1>2, <3>1 DEF Snapshot, Hooks
      <3>3. Waits(hook, doc)'
        BY <1>8, <3>1, <3>2 DEF Waits, Taken, Copy, Timely
      <3> QED BY <1>1, <2>3, <3>3
    <2> QED BY <1>1, <1>10, <2>1, <2>2, <2>3 DEF Requeued
  <1>11. ASSUME NEW q \in calls \ {r}, q.kind # "load"
         PROVE  Sent(q)'
    <2>1. q.snap \in Snapshot /\ Sent(q) /\ q \in calls
      BY <1>11 DEF TypeOK, Desks, Desk, Request, SnapInv
    <2>2. q.from \in Hooks /\ q.awaited => Timely(q.snap)'
      <3>1. SUFFICES ASSUME q.from \in Hooks, q.awaited
                     PROVE  Timely(q.snap)'
        OBVIOUS
      <3>2. q.kind = "put" /\ q.snap.load = q.from /\ Copy(q.snap)
        BY <2>1, <3>1 DEF Sent
      <3>3. q.from # h
        <4>1. q \in Puts(calls, q.from) /\ r \in Puts(calls, h)
          BY <1>1, <2>1, <3>2 DEF Puts
        <4>2. \A a, b \in Puts(calls, h) : a.awaited /\ b.awaited => a = b
          BY DeskWithin DEF Serial
        <4> QED BY <1>1, <1>11, <3>1, <4>1, <4>2
      <3> QED BY <1>9, <2>1, <3>2, <3>3
    <2> QED BY <1>1, <1>6, <2>1, <2>2 DEF Sent
  <1>12. Within(After(h, r), Requeued(h, r), calls \ {r}, NewStatus(r))
    BY <1>1, SaveCompletesWithin
  <1>13. Desk' = After(h, r)
    BY <1>1, <1>12, SetDeskIs DEF Within
  <1>14. Desk' \in Desks /\ Serial(Desk)' /\ SnapInv'
         /\ (status' = NewStatus(r) \/ (ours /\ status' = "saving"))
    BY <1>8, <1>10, <1>11, <1>12, <1>13, Fit
  <1>15. ASSUME ours, status' = "saved"
         PROVE  Fine'
    <2>1. doc.ref = r.snap.ref
      BY <1>14, <1>15 DEF NewStatus
    <2>2. doc.def = r.snap.def
      BY <1>3, <2>1 DEF Copy
    <2>3. CASE r.snap.rev + 1 >= doc.rev
      BY <1>2, <1>15, <2>2, <2>3 DEF Fine
    <2>4. CASE ~(r.snap.rev + 1 >= doc.rev)
      <3>1. doc' = doc
        BY <1>2, <2>4
      <3>2. Fine
        BY <1>3, <1>15, <2>1, <2>4 DEF Timely
      <3> QED BY <1>4, <3>1, <3>2 DEF Fine
    <2> QED BY <2>3, <2>4
  <1> QED BY <1>2, <1>4, <1>14, <1>15

-------------------------------------------------------------------------------
\* A step that leaves the draft, the document and the history.
LEMMA PlainStep ==
  ASSUME DataInv, UNCHANGED <<draftVars, doc, hook, historyVars>>, ours' = ours,
         edits' \in Nat, incidents' \in Nat, Desk' \in Desks, Serial(Desk)', SnapInv',
         page' = page \/ page' = "closed" \/ (page = "loading" /\ page' = "failed"), status' = "saved" => status = "saved" \/ ~ours
  PROVE  DataInv'
  <1>1. TypeOK'
    BY DEF DataInv, TypeOK, draftVars, historyVars
  <1>2. PageInv'
    BY DEF DataInv, PageInv, Ready
  <1>3. SavedInv'
    BY DEF DataInv, SavedInv, Saved, Ready, Fine, historyVars, PageInv
  <1>4. OnlyCrossedOverwrite'
    BY DEF DataInv, OnlyCrossedOverwrite, historyVars
  <1> QED BY <1>1, <1>2, <1>3, <1>4 DEF DataInv

\* Every step keeps the invariant of the data.
LEMMA DataInvStep == DataInv /\ [Next]_vars => DataInv'
  <1> SUFFICES ASSUME DataInv, [Next]_vars
               PROVE  DataInv'
    OBVIOUS
  <1>0. TypeOK /\ Serial(Desk) /\ PageInv /\ SnapInv /\ SavedInv /\ OnlyCrossedOverwrite
        /\ edits \in Nat /\ incidents \in Nat /\ calls \in SUBSET Request
    BY DeskWithin DEF DataInv, TypeOK, Desks
  <1>1. CASE Open
    <2>1. Desk' \in Desks /\ Serial(Desk)' /\ SnapInv' /\ hook' \in Hooks /\ doc.load <= hook
      BY <1>0, <1>1, OpenFits
    <2>2. page' = "loading" /\ hook' = hook + 1 /\ UNCHANGED <<draftVars, doc, ours, boundVars, historyVars>>
      BY <1>1 DEF Open, storeVars
    <2>3. hook \in Nat /\ doc.load \in Nat
      BY <1>0, AutosaveAssumption DEF TypeOK, Loads, Snapshot
    <2>4. TypeOK'
      BY <1>0, <2>1, <2>2, HooksAreLoads DEF TypeOK, draftVars, boundVars, historyVars
    <2>5. PageInv'
      BY <2>1, <2>2, <2>3 DEF PageInv, Ready
    <2>6. SavedInv' /\ OnlyCrossedOverwrite'
      BY <1>0, <2>2 DEF SavedInv, Saved, Ready, OnlyCrossedOverwrite, historyVars
    <2> QED BY <2>1, <2>4, <2>5, <2>6 DEF DataInv
  <1>2. CASE LoadDocument
    <2>1. Desk' \in Desks /\ Serial(Desk)' /\ SnapInv' /\ doc' \in Snapshot
          /\ known' \in [Hooks -> SUBSET Definitions] /\ Fine' /\ hook \in Hooks
      BY <1>0, <1>2, LoadDocumentFits
    <2>2. ours' = TRUE /\ page' = "ready" /\ doc'.load = hook
          /\ UNCHANGED <<draftVars, hook, boundVars, blind, crossed, overlapped>>
      BY <1>2 DEF LoadDocument
    <2>3. TypeOK'
      BY <1>0, <2>1, <2>2 DEF TypeOK, draftVars, boundVars
    <2>4. PageInv'
      BY <2>1, <2>2 DEF PageInv, Ready, Hooks
    <2>5. SavedInv' /\ OnlyCrossedOverwrite'
      BY <1>0, <2>1, <2>2 DEF SavedInv, OnlyCrossedOverwrite
    <2> QED BY <2>1, <2>3, <2>4, <2>5 DEF DataInv
  <1>3. CASE LoadFails
    <2>1. UNCHANGED <<draftVars, storeVars, hook, hookVars, boundVars, historyVars>> /\ calls' \subseteq calls
          /\ page = "loading" /\ page' = "failed"
      BY <1>3 DEF LoadFails
    <2>2. Desk' \in Desks /\ Serial(Desk)' /\ SnapInv'
      BY <1>0, <2>1, FewerCallsFit DEF storeVars, historyVars
    <2> QED BY <1>0, <2>1, <2>2, PlainStep DEF storeVars, boundVars
  <1>4. CASE FlushBeforePageExit
    <2>1. Desk' \in Desks /\ Serial(Desk)' /\ SnapInv' /\ (status' = status \/ (ours /\ status' = "saving"))
      BY <1>0, <1>4, FlushFits
    <2>2. UNCHANGED <<draftVars, doc, ours, page, hook, boundVars, historyVars>>
      BY <1>4 DEF FlushBeforePageExit, Change
    <2> QED BY <1>0, <2>1, <2>2, PlainStep DEF boundVars
  <1>5. CASE Leave
    <2>1. Desk' \in Desks /\ Serial(Desk)' /\ SnapInv' /\ (status' = status \/ (ours /\ status' = "saving"))
      BY <1>0, <1>5, LeaveFits
    <2>2. UNCHANGED <<draftVars, doc, ours, hook, boundVars, historyVars>> /\ page' = "closed"
      BY <1>5 DEF Leave
    <2> QED BY <1>0, <2>1, <2>2, PlainStep DEF boundVars
  <1>6. CASE AnotherFlow
    <2>1. page = "closed" /\ ours' = FALSE
          /\ UNCHANGED <<draftVars, calls, doc, status, page, hook, hookVars, boundVars, historyVars>>
      BY <1>6 DEF AnotherFlow
    <2>2. Desk' \in Desks /\ Serial(Desk)' /\ SnapInv'
      BY <1>0, <2>1, FewerCallsFit DEF historyVars
    <2>3. TypeOK'
      BY <1>0, <2>1, <2>2 DEF TypeOK, draftVars, boundVars, historyVars
    <2>4. PageInv' /\ SavedInv' /\ OnlyCrossedOverwrite'
      BY <1>0, <2>1 DEF PageInv, SavedInv, Saved, Ready, OnlyCrossedOverwrite, historyVars
    <2> QED BY <2>2, <2>3, <2>4 DEF DataInv
  <1>7. ASSUME NEW d \in Definitions, Edit(d)
        PROVE  DataInv'
    <2>1. Desk' \in Desks /\ Serial(Desk)' /\ SnapInv' /\ doc' \in Snapshot /\ status' = "dirty"
          /\ doc'.load = doc.load
      BY <1>0, <1>7, EditFits
    <2>2. UNCHANGED <<draftVars, ours, page, hook, incidents, historyVars>> /\ edits' = edits + 1
      BY <1>7 DEF Edit
    <2>3. TypeOK'
      BY <1>0, <2>1, <2>2 DEF TypeOK, draftVars, historyVars
    <2>4. PageInv' /\ SavedInv' /\ OnlyCrossedOverwrite'
      BY <1>0, <2>1, <2>2 DEF PageInv, SavedInv, Saved, Ready, OnlyCrossedOverwrite, historyVars
    <2> QED BY <2>1, <2>3, <2>4 DEF DataInv
  <1>8. ASSUME NEW v \in Definitions, RestoreClick(v)
        PROVE  DataInv'
    <2>1. Desk' \in Desks /\ Serial(Desk)' /\ SnapInv'
      BY <1>0, <1>8, RestoreClickFits
    <2>2. UNCHANGED <<draftVars, storeVars, page, hook, hookVars, edits, historyVars>> /\ incidents' = incidents + 1
      BY <1>8 DEF RestoreClick
    <2> QED BY <1>0, <2>1, <2>2, PlainStep DEF storeVars
  <1>9. ASSUME NEW d \in Definitions, SomebodyElse(d)
        PROVE  DataInv'
    <2>1. UNCHANGED <<calls, storeVars, page, hook, hookVars, edits, historyVars>> /\ incidents' = incidents + 1
          /\ draft' = d /\ versions' = versions
      BY <1>9 DEF SomebodyElse, ReplacedElsewhere, ReplaceFlowDraft, UpdateFlow
    <2>2. Desk' \in Desks /\ Serial(Desk)' /\ SnapInv'
      BY <1>0, <2>1, FewerCallsFit DEF storeVars, historyVars
    <2>3. TypeOK'
      BY <1>0, <1>9, <2>1, <2>2 DEF TypeOK, storeVars, historyVars
    <2>4. PageInv' /\ SavedInv' /\ OnlyCrossedOverwrite'
      BY <1>0, <2>1 DEF PageInv, SavedInv, Saved, Ready, Fine, OnlyCrossedOverwrite, storeVars, historyVars
    <2> QED BY <2>2, <2>3, <2>4 DEF DataInv
  <1>10. ASSUME NEW h \in Hooks, TimerFires(h)
         PROVE  DataInv'
    <2>1. Desk' \in Desks /\ Serial(Desk)' /\ SnapInv' /\ (status' = status \/ (ours /\ status' = "saving"))
      BY <1>0, <1>10, TimerFiresFits
    <2>2. UNCHANGED <<draftVars, doc, ours, page, hook, boundVars, historyVars>>
      BY <1>10 DEF TimerFires, Change
    <2> QED BY <1>0, <2>1, <2>2, PlainStep DEF boundVars
  <1>11. ASSUME NEW h \in Hooks, SaveCompletes(h)
         PROVE  DataInv'
    <2>1. /\ Desk' \in Desks /\ Serial(Desk)' /\ SnapInv' /\ doc' \in Snapshot /\ doc'.load = doc.load
          /\ ours /\ status' = "saved" => Fine'
          /\ crossed' \in SUBSET Loads /\ overlapped' \in SUBSET Nat /\ crossed \subseteq crossed'
      BY <1>0, <1>11, SaveCompletesFits
    <2>2. UNCHANGED <<draftVars, ours, page, hook, boundVars, known, blind>>
      BY <1>11 DEF SaveCompletes
    <2>3. TypeOK'
      BY <1>0, <2>1, <2>2 DEF TypeOK, draftVars, boundVars
    <2>4. PageInv' /\ SavedInv' /\ OnlyCrossedOverwrite'
      BY <1>0, <2>1, <2>2 DEF PageInv, SavedInv, Saved, Ready, OnlyCrossedOverwrite
    <2> QED BY <2>1, <2>3, <2>4 DEF DataInv
  <1>12. ASSUME NEW h \in Hooks, SaveFails(h)
         PROVE  DataInv'
    <2>1. Desk' \in Desks /\ Serial(Desk)' /\ SnapInv' /\ (ours => status' \in {"conflict", "error", "saving"})
      BY <1>0, <1>12, SaveFailsFits
    <2>2. UNCHANGED <<draftVars, doc, ours, page, hook, boundVars, historyVars>>
      BY <1>12 DEF SaveFails, Change
    <2> QED BY <1>0, <2>1, <2>2, PlainStep DEF boundVars
  <1>13. CASE PublishClick
    <2>1. Desk' \in Desks /\ Serial(Desk)' /\ SnapInv' /\ status' = "saving"
      BY <1>0, <1>13, PublishClickFits
    <2>2. UNCHANGED <<draftVars, doc, ours, page, hook, edits, historyVars>> /\ incidents' = incidents + 1
      BY <1>13 DEF PublishClick, Change
    <2> QED BY <1>0, <2>1, <2>2, PlainStep
  <1>14. CASE PublishSaved
    <2>1. Desk' \in Desks /\ Serial(Desk)' /\ SnapInv'
      BY <1>0, <1>14, PublishSavedFits
    <2>2. UNCHANGED <<draftVars, storeVars, page, hook, hookVars, boundVars, historyVars>>
      BY <1>14 DEF PublishSaved
    <2> QED BY <1>0, <2>1, <2>2, PlainStep DEF storeVars, boundVars
  <1>15. ASSUME Published \/ Restored
         PROVE  DataInv'
    <2>1. /\ Desk' \in Desks /\ Serial(Desk)' /\ SnapInv' /\ doc' \in Snapshot
          /\ (IF ours THEN status' = "saved" /\ Fine' ELSE status' = status /\ doc' = doc)
          /\ doc'.load = doc.load /\ crossed' \in SUBSET Loads /\ overlapped' \in SUBSET Nat
          /\ crossed \subseteq crossed'
      BY <1>0, <1>15, PublishedFits, RestoredFits
    <2>2. UNCHANGED <<draftVars, ours, page, hook, boundVars, known, blind>>
      BY <1>15 DEF Published, Restored, DialogEnds
    <2>3. TypeOK'
      BY <1>0, <2>1, <2>2 DEF TypeOK, draftVars, boundVars
    <2>4. PageInv' /\ SavedInv' /\ OnlyCrossedOverwrite'
      BY <1>0, <2>1, <2>2 DEF PageInv, SavedInv, Saved, Ready, OnlyCrossedOverwrite
    <2> QED BY <2>1, <2>3, <2>4 DEF DataInv
  <1>16. ASSUME PublishFails \/ RestoreFails
         PROVE  DataInv'
    <2>1. PICK r \in calls : \E new \in Statuses :
            DialogEnds(r, new, doc) /\ (new = "saved" => status = "saved") /\ crossed' = crossed /\ overlapped' = overlapped
      <3>1. CASE PublishFails
        <4>1. PICK r \in Awaits(Dialog, "put") \cup Awaits(Dialog, "publish") :
                DialogEnds(r, IF r.kind = "publish" /\ r.result = "refused" THEN "conflict" ELSE "error", doc)
                /\ crossed' = crossed /\ overlapped' = overlapped
          BY <3>1 DEF PublishFails
        <4>2. r \in calls
          BY DEF Awaits
        <4>3. {"conflict", "error"} \subseteq Statuses
          BY DEF Statuses
        <4> QED BY <4>1, <4>2, <4>3
      <3>2. CASE RestoreFails
        <4>1. PICK r \in Awaits(Dialog, "restore") :
                DialogEnds(r, IF r.result = "refused" THEN "conflict" ELSE status, doc)
                /\ crossed' = crossed /\ overlapped' = overlapped
          BY <3>2 DEF RestoreFails
        <4>2. r \in calls
          BY DEF Awaits
        <4>3. "conflict" \in Statuses /\ status \in Statuses
          BY <1>0, DeskWithin DEF Statuses, Desks
        <4> QED BY <4>1, <4>2, <4>3
      <3> QED BY <1>16, <3>1, <3>2
    <2>2. PICK new \in Statuses :
            DialogEnds(r, new, doc) /\ (new = "saved" => status = "saved") /\ crossed' = crossed /\ overlapped' = overlapped
      BY <2>1
    <2>3. Desk' \in Desks /\ Serial(Desk)' /\ SnapInv' /\ doc' = doc /\ status' = (IF ours THEN new ELSE status)
      BY <1>0, <2>2, DialogFits
    <2>4. UNCHANGED <<draftVars, ours, page, hook, boundVars, historyVars>>
      BY <2>2 DEF DialogEnds, historyVars
    <2> QED BY <1>0, <2>2, <2>3, <2>4, PlainStep DEF boundVars
  <1>17. CASE Serve
    <2>1. PICK r \in calls : r.result = "sent" /\ (Accept(r) \/ Refuse(r) \/ GetFlowDraft(r))
      BY <1>17 DEF Serve
    <2>2. UNCHANGED <<storeVars, page, hook, hookVars, boundVars, crossed, overlapped>>
      BY <1>17 DEF Serve
    <2>3. /\ Desk' \in Desks /\ Serial(Desk)' /\ SnapInv' /\ OnlyCrossedOverwrite'
          /\ draft' \in Definitions /\ versions' \in SUBSET Definitions
          /\ known' \in [Hooks -> SUBSET Definitions] /\ blind' \in SUBSET Loads
      <3>1. CASE Accept(r)
        BY <1>0, <2>1, <2>2, <3>1, AcceptFits DEF storeVars
      <3>2. CASE Refuse(r) \/ GetFlowDraft(r)
        <4>1. Desk' \in Desks /\ Serial(Desk)' /\ SnapInv' /\ OnlyCrossedOverwrite'
              /\ UNCHANGED <<draftVars, known, blind>>
          BY <1>0, <2>1, <2>2, <3>2, RefuseFits DEF storeVars
        <4> QED BY <1>0, <4>1 DEF TypeOK, draftVars
      <3> QED BY <2>1, <3>1, <3>2
    <2>4. TypeOK'
      BY <1>0, <2>2, <2>3 DEF TypeOK, storeVars, boundVars
    <2>5. PageInv' /\ SavedInv'
      BY <1>0, <2>2 DEF PageInv, SavedInv, Saved, Ready, Fine, storeVars
    <2> QED BY <2>3, <2>4, <2>5 DEF DataInv
  <1>18. CASE Break
    <2>1. Desk' \in Desks /\ Serial(Desk)' /\ SnapInv'
      BY <1>0, <1>18, BreakFits
    <2>2. UNCHANGED <<draftVars, storeVars, page, hook, hookVars, edits, historyVars>> /\ incidents' = incidents + 1
      BY <1>18 DEF Break
    <2> QED BY <1>0, <2>1, <2>2, PlainStep DEF storeVars
  <1>19. CASE UNCHANGED vars
    <2>1. UNCHANGED <<draftVars, calls, storeVars, page, hook, hookVars, boundVars, historyVars>>
      BY <1>19 DEF vars
    <2>2. Desk' \in Desks /\ Serial(Desk)' /\ SnapInv'
      BY <1>0, <2>1, FewerCallsFit DEF storeVars, historyVars
    <2> QED BY <1>0, <2>1, <2>2, PlainStep DEF storeVars, boundVars
  <1> QED BY <1>1, <1>2, <1>3, <1>4, <1>5, <1>6, <1>7, <1>8, <1>9, <1>10, <1>11, <1>12, <1>13, <1>14,
             <1>15, <1>16, <1>17, <1>18, <1>19 DEF Next, Dialogs, Answer

-------------------------------------------------------------------------------
\* A dirty document waits on the desk, and something is bound to send it.
Kept(k, d) ==
  k.status = "dirty" =>
    /\ \E s \in k.pending[hook] : s.ref = d.ref /\ s.def = d.def
    /\ k.timer[hook] \/ InFlight(k.calls, hook)

\* WillBeSaved says that the document of a page that is ready is kept.
LEMMA WillBeSavedIsKept ==
  ASSUME TypeOK
  PROVE  WillBeSaved <=> (Ready => Kept(Desk, doc))
  BY DEF WillBeSaved, Queued, Kept, Desk

\* An effect that has something to do leaves the document kept; one that has not must find it so.
LEMMA EffectKept ==
  ASSUME NEW k \in Desks, NEW d \in Snapshot, NEW seen, page = "ready", hook \in Hooks,
         Quiet(k, d, seen) => Kept(k, d)
  PROVE  Kept(Effect(k, d, seen), d)
  <1>1. PICK m : m = Effect(k, d, seen)
    OBVIOUS
  <1>2. m.calls = k.calls /\ m.status = k.status
    BY <1>1, EffectQueues
  <1>3. Quiet(k, d, seen) => m = k
    BY <1>1, EffectQueues
  <1>4. ~Quiet(k, d, seen) /\ k.status = "dirty" =>
          m.pending[hook] = {d} /\ (m.timer[hook] \/ InFlight(k.calls, hook))
    BY <1>1, EffectQueues
  <1>5. CASE Quiet(k, d, seen)
    BY <1>1, <1>3, <1>5
  <1>6. CASE ~Quiet(k, d, seen)
    BY <1>1, <1>2, <1>4, <1>6 DEF Kept
  <1> QED BY <1>5, <1>6

\* A step that ends with the effect keeps the document.
LEMMA ChangeKeeps ==
  ASSUME NEW k \in Desks, NEW d \in Snapshot, NEW seen, SetDesk(Effect(k, d, seen)), doc' = d,
         UNCHANGED <<page, hook>>, page = "ready" => hook \in Hooks,
         Ready /\ Quiet(k, d, seen) => Kept(k, d)
  PROVE  WillBeSaved'
  <1>1. SUFFICES ASSUME Ready
                 PROVE  Kept(Desk', doc')
    <2>1. Ready' => Kept(Desk', doc') 
      BY <1>1 DEF Ready
    <2>2. Desk'.status = status' /\ Desk'.pending = pending' /\ Desk'.timer = timer' /\ Desk'.calls = calls'
      BY DEF Desk
    <2> QED BY <2>1, <2>2 DEF WillBeSaved, Queued, Kept
  <1>2. page = "ready" /\ hook \in Hooks
    BY <1>1 DEF Ready
  <1>3. Kept(Effect(k, d, seen), d)
    BY <1>1, <1>2, EffectKept
  <1>4. Desk' = Effect(k, d, seen)
    <2>1. PICK m : m = Effect(k, d, seen)
      OBVIOUS
    <2>2. m \in Desks
      BY <1>2, <2>1, EffectQueues
    <2> QED BY <2>1, <2>2, SetDeskIs
  <1> QED BY <1>3, <1>4

\* Sending keeps the document: what is sent is not dirty any more, and a save that cannot be sent
\* is behind another one.
LEMMA SaveNextKeeps ==
  ASSUME NEW k \in Desks, Serial(k), NEW h \in Hooks, NEW d, hook \in Hooks, ours,
         k.status = "dirty" => \E s \in k.pending[hook] : s.ref = d.ref /\ s.def = d.def,
         h # hook /\ k.status = "dirty" => k.timer[hook] \/ InFlight(k.calls, hook)
  PROVE  Kept(SaveNext(k, h), d)
  <1>1. CASE SaveNext(k, h) = k /\ (InFlight(k.calls, h) \/ k.pending[h] = {})
    BY <1>1 DEF Kept
  <1>2. CASE ~InFlight(k.calls, h) /\ \E s \in Snapshot : k.pending[h] = {s} /\ SaveNext(k, h) = Sending(k, h, s)
    <2>1. SaveNext(k, h).status = "saving"
      BY <1>2 DEF Sending
    <2> QED BY <2>1 DEF Kept
  <1> QED BY <1>1, <1>2, SaveNextSends

\* Requests that come and go, but for the saves that the hook awaits, change nothing.
LEMMA CallsKeep ==
  ASSUME TypeOK, WillBeSaved, UNCHANGED <<doc, status, page, hook, hookVars>>,
         Ready /\ InFlight(calls, hook) => InFlight(calls', hook)
  PROVE  WillBeSaved'
  BY DEF WillBeSaved, Queued, Ready, hookVars

\* TimerFires: what waits is sent, or waits for the save in flight.
LEMMA TimerFiresKeeps ==
  ASSUME DataInv, WillBeSaved, NEW h \in Hooks, TimerFires(h)
  PROVE  WillBeSaved'
  <1> DEFINE c == ClearTimer(Desk, h)
             k == SaveNext(c, h)
  <1>1. TypeOK /\ Serial(Desk) /\ PageInv /\ SnapInv
    BY DEF DataInv
  <1>2. SetDesk(Effect(k, doc, Seen)) /\ doc' = doc /\ UNCHANGED <<page, hook>>
    BY DEF TimerFires, Change
  <1>3. Within(c, Waiters, calls, status) /\ Within(k, Waiters, calls, status) /\ doc \in Snapshot
    BY <1>1, DeskWithin, ClearTimerWithin, SaveNextWithin DEF TypeOK
  <1>4. c = [pending |-> pending, flush |-> flush, timer |-> [timer EXCEPT ![h] = FALSE],
             calls |-> calls, status |-> status]
    <2>1. Within(Desk, Waiters, calls, status) /\ Desk.pending = pending /\ Desk.calls = calls
          /\ Desk.status = status /\ Desk.timer = timer /\ Desk.flush = flush
      BY <1>1, DeskWithin
    <2>2. c = [pending |-> Desk.pending, flush |-> Desk.flush,
               timer |-> [Desk.timer EXCEPT ![h] = FALSE], calls |-> Desk.calls, status |-> Desk.status]
      <3>1. c = [Desk EXCEPT !.timer = [Desk.timer EXCEPT ![h] = FALSE]]
        BY DEF ClearTimer
      <3> HIDE DEF c
      <3> QED BY <1>1, <3>1, DeskWithin, DeskUpdate
    <2> HIDE DEF c
    <2> QED BY <2>1, <2>2
  <1> HIDE DEF c
  <1>5. ASSUME Ready
        PROVE  Kept(k, doc)
    <2>1. page = "ready" /\ hook \in Hooks /\ ours
      BY <1>1, <1>5, DeskWithin DEF Ready
    <2>2. c.status = "dirty" => Queued(doc) /\ (timer[hook] \/ InFlight(calls, hook))
      BY <1>4, <1>5 DEF WillBeSaved
    <2>3. timer \in [Hooks -> BOOLEAN]
      BY <1>1, DeskWithin DEF Desks
    <2>4. h # hook => c.timer[hook] = timer[hook]
      BY <1>4, <2>1, <2>3
    <2>5. c.pending = pending /\ c.calls = calls
      BY <1>4
    <2>6. c.status = "dirty" => \E s \in c.pending[hook] : s.ref = doc.ref /\ s.def = doc.def
      BY <2>2, <2>5 DEF Queued
    <2>7. h # hook /\ c.status = "dirty" => c.timer[hook] \/ InFlight(c.calls, hook)
      BY <2>2, <2>4, <2>5
    <2>8. c \in Desks /\ Serial(c)
      BY <1>3 DEF Within
    <2> QED BY <2>1, <2>6, <2>7, <2>8, SaveNextKeeps
  <1>6. k \in Desks /\ (page = "ready" => hook \in Hooks)
    BY <1>1, <1>3, DeskWithin DEF Within
  <1> HIDE DEF k
  <1> QED BY <1>2, <1>3, <1>5, <1>6, ChangeKeeps

\* FlushBeforePageExit: the same.
LEMMA FlushKeeps ==
  ASSUME DataInv, WillBeSaved, FlushBeforePageExit
  PROVE  WillBeSaved'
  <1> DEFINE e == IF status = "dirty" THEN [Desk EXCEPT !.pending[hook] = {doc}] ELSE Desk
             k == FlushPending(e, hook)
  <1>1. TypeOK /\ Serial(Desk) /\ PageInv /\ SnapInv /\ Ready
    BY DEF DataInv, FlushBeforePageExit
  <1>2. SetDesk(Effect(k, doc, Seen)) /\ doc' = doc /\ UNCHANGED <<page, hook>>
    BY DEF FlushBeforePageExit, Change
  <1>3. Within(e, Waiters, calls, status) /\ (status = "dirty" => e.pending[hook] = {doc}) /\ e.status = status
    BY <1>1, FlushedWithin
  <1>4. page = "ready" /\ hook \in Hooks /\ ours /\ doc \in Snapshot
    BY <1>1, DeskWithin DEF Ready
  <1> HIDE DEF e
  <1>5. Within(k, Waiters, calls, status)
    BY <1>3, <1>4, FlushPendingWithin
  <1>6. PICK f \in [Hooks -> BOOLEAN] :
          k = SaveNext([pending |-> e.pending, flush |-> f, timer |-> [e.timer EXCEPT ![hook] = FALSE],
                        calls |-> e.calls, status |-> e.status], hook)
    BY <1>3, <1>4, FlushPendingWithin
  <1> DEFINE c == [pending |-> e.pending, flush |-> f, timer |-> [e.timer EXCEPT ![hook] = FALSE],
                   calls |-> e.calls, status |-> e.status]
  <1>7. c \in Desks /\ Serial(c)
    BY <1>3 DEF Within, Desks, Serial
  <1>8. c.status = "dirty" => \E s \in c.pending[hook] : s.ref = doc.ref /\ s.def = doc.def
    BY <1>3
  <1>9. k = SaveNext(c, hook)
    BY <1>6
  <1> HIDE DEF c, k
  <1>10. Kept(k, doc)
    BY <1>4, <1>7, <1>8, <1>9, SaveNextKeeps
  <1> QED BY <1>2, <1>4, <1>5, <1>10, ChangeKeeps DEF Within

\* Edit: the new document waits.
LEMMA EditKeeps ==
  ASSUME DataInv, NEW d \in Definitions, Edit(d)
  PROVE  WillBeSaved'
  <1> DEFINE k == [Desk EXCEPT !.status = "dirty"]
  <1>1. TypeOK /\ Serial(Desk) /\ PageInv /\ SnapInv
    BY DEF DataInv
  <1>2. doc' \in Snapshot /\ doc'.ref = doc.ref + 1 /\ SetDesk(Effect(k, doc', Seen))
    BY <1>1, EditFits
  <1>3. UNCHANGED <<page, hook>> /\ page = "ready" /\ hook \in Hooks
    BY <1>1, DeskWithin DEF Edit, Ready
  <1>4. k \in Desks
    <2>1. k = [pending |-> pending, flush |-> flush, timer |-> timer, calls |-> calls, status |-> "dirty"]
      BY <1>1, DeskWithin, DeskUpdate
    <2> QED BY <1>1, <2>1, DeskWithin DEF Desks, Statuses
  <1>5. ~Quiet(k, doc', Seen)
    <2>1. doc.ref \in Nat
      BY <1>1 DEF TypeOK, Snapshot
    <2>2. doc' # doc
      BY <1>2, <2>1
    <2> QED BY <1>3, <2>2 DEF Quiet, Seen
  <1> HIDE DEF k
  <1> QED BY <1>2, <1>3, <1>4, <1>5, ChangeKeeps

\* A step after which the document is not dirty has nothing to keep.
LEMMA NotDirtyKeeps ==
  ASSUME ~Ready' \/ status' # "dirty"
  PROVE  WillBeSaved'
  BY DEF WillBeSaved

\* RestoreFails: the dialog leaves the document, and its status unless it is a conflict.
LEMMA RestoreFailsKeeps ==
  ASSUME DataInv, WillBeSaved, RestoreFails
  PROVE  WillBeSaved'
  <1>1. PICK r \in Awaits(Dialog, "restore") :
          Failed(r) /\ DialogEnds(r, IF r.result = "refused" THEN "conflict" ELSE status, doc)
    BY DEF RestoreFails
  <1>2. TypeOK /\ Serial(Desk) /\ PageInv /\ SnapInv
    BY DEF DataInv
  <1> DEFINE w == IF ours THEN (IF r.result = "refused" THEN "conflict" ELSE status) ELSE status
             cs == calls \ {r}
             k == [Desk EXCEPT !.calls = @ \ {r}, !.status =
                     IF ours THEN (IF r.result = "refused" THEN "conflict" ELSE status) ELSE @]
  <1>3. SetDesk(Effect(k, doc, Seen)) /\ doc' = doc /\ UNCHANGED <<page, hook>>
    BY <1>1 DEF DialogEnds, Change
  <1>4. k = [pending |-> pending, flush |-> flush, timer |-> timer, calls |-> cs, status |-> w]
    <2>1. k = [[Desk EXCEPT !.calls = cs] EXCEPT !.status = w]
      BY <1>2, DeskWithin
    <2> QED BY <2>1, CallsAndStatus
  <1>5. k \in Desks
    <2>1. cs \in SUBSET Request /\ w \in Statuses
      BY <1>2, DeskWithin DEF Desks, Statuses
    <2> HIDE DEF cs, w
    <2> QED BY <1>2, <1>4, <2>1, DeskWithin DEF Desks
  <1>6. w = status \/ w = "conflict"
    OBVIOUS
  <1>7. InFlight(calls, hook) /\ page = "ready" => InFlight(cs, hook)
    BY <1>1, <1>2, DeskWithin, HooksAreLoads DEF InFlight, Awaits, Dialog
  <1>8. doc \in Snapshot /\ (page = "ready" => hook \in Hooks)
    BY <1>2, DeskWithin DEF TypeOK
  <1> HIDE DEF k, cs, w
  <1>9. k.pending = pending /\ k.timer = timer /\ k.calls = cs /\ k.status = w
    BY <1>4
  <1>10. Ready => Kept(k, doc)
    BY <1>6, <1>7, <1>9 DEF WillBeSaved, Queued, Kept, Ready
  <1> QED BY <1>3, <1>5, <1>8, <1>10, ChangeKeeps

\* SaveCompletes: what waits behind the save is the document, and goes next.
LEMMA SaveCompletesKeeps ==
  ASSUME DataInv, WillBeSaved, NEW h \in Hooks, SaveCompletes(h)
  PROVE  WillBeSaved'
  <1>1. TypeOK /\ Serial(Desk) /\ PageInv /\ SnapInv
    BY DEF DataInv
  <1>2. PICK r \in calls :
           /\ r.from = h /\ r.kind = "put" /\ r.awaited
           /\ doc' = NextDoc(r) /\ SetDesk(After(h, r))
           /\ UNCHANGED <<page, hook>>
    BY <1>1, SaveCompletesIs
  <1>3. SUFFICES ASSUME Ready
                 PROVE  WillBeSaved'
    BY <1>2, <1>3 DEF WillBeSaved, Ready
  <1>4. page = "ready" /\ hook \in Hooks /\ ours
    BY <1>1, <1>3, DeskWithin DEF Ready
  <1> DEFINE d == NextDoc(r)
             c == Chained(h, r)
             m == Shown(h, r)
             x == Cut(h, r)
             f == Freed(h, r)
  <1>5. d \in Snapshot /\ d.def = doc.def /\ d.ref = doc.ref
    BY <1>1, NextDocIs
  <1>6. c \in Desks /\ c.status = NewStatus(r) /\ c.calls = calls /\ c.timer = timer
        /\ (\A g \in Hooks : g # h => c.pending[g] = pending[g])
        /\ \A s \in pending[h] : c.pending[h] =
             {[def |-> s.def, ref |-> s.ref, etag |-> ETag(r.snap.def), rev |-> r.snap.rev + 1, load |-> s.load]}
    BY <1>1, ChainedIs
  <1> HIDE DEF c, d, m, x, f
  <1>7. Quiet(c, d, Seen) => Kept(c, d)
    <2>1. SUFFICES ASSUME c.status = "dirty", status = "dirty"
                   PROVE  Kept(c, d)
      BY <1>4 DEF Quiet, Seen, Kept
    <2>2. PICK s \in pending[hook] : s.ref = doc.ref /\ s.def = doc.def
      BY <1>3, <2>1 DEF WillBeSaved, Queued
    <2>3. \E t \in c.pending[hook] : t.ref = d.ref /\ t.def = d.def
      <3>1. CASE hook = h
        <4> DEFINE t == [def |-> s.def, ref |-> s.ref, etag |-> ETag(r.snap.def), rev |-> r.snap.rev + 1, load |-> s.load]
        <4>1. t \in c.pending[hook]
          BY <1>6, <2>2, <3>1
        <4>2. t.ref = d.ref /\ t.def = d.def
          BY <1>5, <2>2
        <4> QED BY <4>1, <4>2
      <3>2. CASE hook # h
        BY <1>4, <1>5, <1>6, <2>2, <3>2
      <3> QED BY <3>1, <3>2
    <2>4. c.timer[hook] \/ InFlight(c.calls, hook)
      BY <1>3, <1>6, <2>1 DEF WillBeSaved
    <2> QED BY <2>3, <2>4 DEF Kept
  <1>8. Kept(m, d)
    <2>1. m = Effect(c, d, Seen)
      BY DEF Shown, c, d, m
    <2> QED BY <1>4, <1>5, <1>6, <1>7, <2>1, EffectKept
  <1>9. /\ m.status = NewStatus(r) /\ m.calls = calls
        /\ x \in Desks /\ x.status = NewStatus(r) /\ x.calls = calls \ {r}
        /\ x.pending = m.pending /\ x.timer = m.timer
        /\ ~InFlight(calls \ {r}, h)
    BY <1>1, <1>2, CutIs DEF m, x
  <1>10. Within(x, Requeued(h, r), calls \ {r}, NewStatus(r)) /\ Within(f, Requeued(h, r), calls \ {r}, NewStatus(r))
    BY <1>1, <1>2, SaveCompletesWithin DEF x, f
  <1>11. Kept(f, d)
    <2>1. Mounted(h) \in BOOLEAN /\ f = Finally(x, h, Mounted(h))
      BY DEF Mounted, Freed, x, f
    <2>2. /\ x.pending[h] = {} => f = x
          /\ \A s : x.pending[h] = {s} =>
               s \in Snapshot /\ f = Schedule(x, h, s, x.flush[h] \/ ~Mounted(h))
      <3>1. x.pending[h] = {} => Finally(x, h, Mounted(h)) = x
        BY DEF Finally
      <3>2. ASSUME NEW s, x.pending[h] = {s}
            PROVE  s \in Snapshot /\ Finally(x, h, Mounted(h)) = Schedule(x, h, s, x.flush[h] \/ ~Mounted(h))
        BY <1>9, <3>2, FinallyIs
      <3> QED BY <2>1, <3>1, <3>2
    <2>3. h # hook /\ x.status = "dirty" => x.timer[hook] \/ InFlight(x.calls, hook)
      <3>1. InFlight(calls, hook) /\ h # hook => InFlight(calls \ {r}, hook)
        BY <1>2 DEF InFlight
      <3> QED BY <1>8, <1>9, <3>1 DEF Kept
    <2>4. x.status = "dirty" => \E s \in x.pending[hook] : s.ref = d.ref /\ s.def = d.def
      BY <1>8, <1>9 DEF Kept
    <2>5. CASE x.pending[h] = {}
      BY <2>2, <2>3, <2>4, <2>5 DEF Kept
    <2>6. ASSUME NEW s, x.pending[h] = {s}
          PROVE  Kept(f, d)
      <3> DEFINE now == x.flush[h] \/ ~Mounted(h)
      <3>1. now \in BOOLEAN /\ s \in Snapshot /\ f = Schedule(x, h, s, now)
        BY <1>9, <2>1, <2>2, <2>6 DEF Desks
      <3>2. ~InFlight(x.calls, h)
        BY <1>9
      <3> HIDE DEF now
      <3>3. CASE now
        <4> DEFINE w == Waiting(x, h, s, now, FALSE)
        <4>1. f = SaveNext(w, h)
          BY <1>9, <3>1, <3>2, <3>3, ScheduleWaits
        <4>2. w.pending = [x.pending EXCEPT ![h] = {s}] /\ w.timer = [x.timer EXCEPT ![h] = FALSE]
              /\ w.calls = x.calls /\ w.status = x.status
          BY DEF Waiting
        <4>3. w.pending = x.pending
          BY <1>9, <2>6, <4>2 DEF Desks
        <4>4. h # hook => w.timer[hook] = x.timer[hook]
          BY <1>4, <1>9, <4>2 DEF Desks
        <4>5. w \in Desks
          BY <1>9, <3>1 DEF Desks, Waiting
        <4>6. Serial(w)
          BY <1>10, <4>2, <4>3, ZenonT(30) DEF Within, Serial
        <4> HIDE DEF w
        <4>7. w.status = "dirty" => \E t \in w.pending[hook] : t.ref = d.ref /\ t.def = d.def
          BY <2>4, <4>2, <4>3
        <4>8. h # hook /\ w.status = "dirty" => w.timer[hook] \/ InFlight(w.calls, hook)
          BY <2>3, <4>2, <4>4
        <4> QED BY <1>4, <4>1, <4>5, <4>6, <4>7, <4>8, SaveNextKeeps
      <3>4. CASE ~now
        <4>1. f = Waiting(x, h, s, now, TRUE)
          BY <1>9, <3>1, <3>2, <3>4, ScheduleWaits
        <4>2. f.pending = [x.pending EXCEPT ![h] = {s}] /\ f.timer = [x.timer EXCEPT ![h] = TRUE]
              /\ f.calls = x.calls /\ f.status = x.status
          BY <4>1 DEF Waiting
        <4>3. f.pending = x.pending /\ (h = hook => f.timer[hook]) /\ (h # hook => f.timer[hook] = x.timer[hook])
          BY <1>4, <1>9, <2>6, <4>2, ZenonT(30) DEF Desks
        <4> QED BY <2>3, <2>4, <4>2, <4>3 DEF Kept
      <3> QED BY <3>3, <3>4
    <2>7. x.pending[h] # {} => \E s : x.pending[h] = {s}
      <3>1. \A s, t \in x.pending[h] : s = t
        BY <1>10 DEF Within, Serial
      <3> SUFFICES ASSUME NEW s \in x.pending[h]
                   PROVE  x.pending[h] = {s}
        OBVIOUS
      <3> QED BY <3>1
    <2> QED BY <2>5, <2>6, <2>7
  <1>12. f \in Desks
    BY <1>10 DEF Within
  <1>13. SetDesk(Effect(f, d, [doc |-> d, status |-> m.status])) /\ doc' = d
    BY <1>2 DEF After, d, m, f
  <1> QED BY <1>2, <1>4, <1>5, <1>11, <1>12, <1>13, ChangeKeeps

\* Every step keeps the dirty document.
LEMMA WillBeSavedStep == DataInv /\ WillBeSaved /\ [Next]_vars => WillBeSaved'
  <1> SUFFICES ASSUME DataInv, WillBeSaved, [Next]_vars
               PROVE  WillBeSaved'
    OBVIOUS
  <1>0. TypeOK /\ Serial(Desk) /\ PageInv /\ SnapInv /\ calls \in SUBSET Request
        /\ (page = "ready" => hook \in Hooks /\ ours)
    BY DeskWithin DEF DataInv, Desks
  <1>1. CASE Open \/ LoadFails \/ Leave \/ AnotherFlow
    <2>1. ~Ready'
      BY <1>1 DEF Open, LoadFails, Leave, AnotherFlow, Ready
    <2> QED BY <2>1, NotDirtyKeeps
  <1>2. CASE LoadDocument
    <2>1. status' = "saved"
      BY <1>2 DEF LoadDocument
    <2> QED BY <2>1, NotDirtyKeeps
  <1>3. CASE \E d \in Definitions : Edit(d)
    BY <1>3, EditKeeps
  <1>4. CASE FlushBeforePageExit \/ \E h \in Hooks : TimerFires(h)
    BY <1>4, FlushKeeps, TimerFiresKeeps
  <1>5. CASE \E h \in Hooks : SaveCompletes(h)
    BY <1>5, SaveCompletesKeeps
  <1>6. CASE \E h \in Hooks : SaveFails(h)
    <2>1. PICK h \in Hooks : SaveFails(h)
      BY <1>6
    <2>2. ours => status' # "dirty"
      BY <1>0, <2>1, SaveFailsFits
    <2>3. page' = page
      BY <2>1 DEF SaveFails
    <2> QED BY <1>0, <2>2, <2>3, NotDirtyKeeps DEF Ready
  <1>7. CASE PublishClick
    BY <1>0, <1>7, PublishClickFits, NotDirtyKeeps
  <1>8. CASE Published \/ Restored
    <2>1. ours => status' = "saved"
      BY <1>0, <1>8, PublishedFits, RestoredFits
    <2>2. page' = page
      BY <1>8 DEF Published, Restored, DialogEnds
    <2> QED BY <1>0, <2>1, <2>2, NotDirtyKeeps DEF Ready
  <1>9. CASE PublishFails
    <2>1. PICK r \in Awaits(Dialog, "put") \cup Awaits(Dialog, "publish") :
            DialogEnds(r, IF r.kind = "publish" /\ r.result = "refused" THEN "conflict" ELSE "error", doc)
            /\ crossed' = crossed /\ overlapped' = overlapped
      BY <1>9 DEF PublishFails
    <2>2. r \in calls
      BY DEF Awaits
    <2>3. PICK new \in {"conflict", "error"} : DialogEnds(r, new, doc)
      BY <2>1
    <2>4. new \in Statuses
      BY DEF Statuses
    <2>5. status' = (IF ours THEN new ELSE status)
      BY <1>0, <2>1, <2>2, <2>3, <2>4, DialogFits
    <2>6. page' = page
      BY <2>3 DEF DialogEnds
    <2> QED BY <1>0, <2>5, <2>6, NotDirtyKeeps DEF Ready
  <1>10. CASE RestoreFails
    BY <1>10, RestoreFailsKeeps
  <1>11. CASE Serve \/ Break
    <2>1. UNCHANGED <<doc, status, page, hook, hookVars>>
      BY <1>11 DEF Serve, Break, storeVars
    <2>2. PICK r \in calls : \E t : calls \ {r} \subseteq calls'
            /\ (r.kind = "load" \/ (r.awaited => [r EXCEPT !.result = t] \in calls'))
      <3>1. CASE Break
        BY <3>1 DEF Break
      <3>2. CASE Serve
        <4>1. PICK r \in calls : Accept(r) \/ Refuse(r) \/ GetFlowDraft(r)
          BY <3>2 DEF Serve
        <4>2. CASE GetFlowDraft(r)
          BY <4>2 DEF GetFlowDraft
        <4>3. CASE Accept(r) \/ Refuse(r)
          <5>1. Reply(r, "ok") \/ Reply(r, "refused")
            BY <4>3 DEF Accept, Refuse
          <5> QED BY <5>1 DEF Reply
        <4> QED BY <4>1, <4>2, <4>3
      <3> QED BY <1>11, <3>1, <3>2
    <2>3. PICK t : calls \ {r} \subseteq calls' /\ (r.kind = "load" \/ (r.awaited => [r EXCEPT !.result = t] \in calls'))
      BY <2>2
    <2> DEFINE a == [r EXCEPT !.result = t]
    <2>4. a.from = r.from /\ a.kind = r.kind /\ a.awaited = r.awaited
      BY <1>0 DEF Request
    <2> HIDE DEF a
    <2>5. InFlight(calls, hook) => InFlight(calls', hook)
      BY <2>3, <2>4 DEF InFlight, a
    <2> QED BY <1>0, <2>1, <2>5, CallsKeep
  <1>12. CASE PublishSaved \/ \E d \in Definitions : RestoreClick(d) \/ SomebodyElse(d)
    <2>1. UNCHANGED <<doc, status, page, hook, hookVars>>
      BY <1>12 DEF PublishSaved, RestoreClick, SomebodyElse, storeVars
    <2>2. \A r \in calls : r \in calls' \/ r.from = 0
      BY <1>12 DEF PublishSaved, RestoreClick, SomebodyElse, Awaits, Dialog
    <2>3. Ready /\ InFlight(calls, hook) => InFlight(calls', hook)
      BY <1>0, <2>2, HooksAreLoads DEF InFlight, Ready
    <2> QED BY <1>0, <2>1, <2>3, CallsKeep
  <1>13. CASE UNCHANGED vars
    BY <1>13 DEF vars, storeVars, hookVars, WillBeSaved, Queued, Ready
  <1> QED BY <1>1, <1>2, <1>3, <1>4, <1>5, <1>6, <1>7, <1>8, <1>9, <1>10, <1>11, <1>12, <1>13
          DEF Next, Dialogs, Answer

-------------------------------------------------------------------------------
\* The chain of the first visit, on a desk of a page that has been loaded.
Linked(k, d) ==
  /\ k.status \in {"saved", "dirty", "saving"}
  /\ \A r \in k.calls :
       /\ r.from = 1 /\ r.kind = "put" /\ r.awaited /\ r.result \in {"sent", "ok"}
       /\ draft = IF r.result = "sent" THEN r.snap.etag ELSE r.snap.def
  /\ k.calls = {} => \A s \in k.pending[1] : s.etag = draft
  /\ ours => /\ k.calls = {} => d.etag = draft
             /\ \A s \in k.pending[1] : s.def = d.def /\ s.rev = d.rev
             /\ \A r \in k.calls : r.snap.rev = d.rev
             /\ k.pending[1] = {} => IF k.calls = {} THEN draft = d.def
                                     ELSE \A r \in k.calls : r.snap.def = d.def
Timed(k) == k.calls = {} => k.pending[1] = {} \/ k.timer[1]

\* Once the page has been loaded, the chain is that of the desk.
LEMMA ChainIsLinked ==
  ASSUME page # "loading"
  PROVE  Chain <=> page # "failed" /\ (Ready => ours) /\ Linked(Desk, doc) /\ Timed(Desk)
  <1>1. (\A r \in calls : r.from = 1 /\ r.kind = "put") => Puts(calls, 1) = calls
    BY DEF Puts
  <1>2. Desk.status = status /\ Desk.pending = pending /\ Desk.timer = timer /\ Desk.calls = calls
    BY DEF Desk
  <1>3. ASSUME Chain
        PROVE  page # "failed" /\ (Ready => ours) /\ Linked(Desk, doc) /\ Timed(Desk)
    <2>1. \A r \in calls : r.from = 1 /\ r.kind = "put"
      BY <1>3 DEF Chain
    <2> QED BY <1>1, <1>2, <1>3, <2>1 DEF Chain, Linked, Timed
  <1>4. ASSUME page # "failed", Ready => ours, Linked(Desk, doc), Timed(Desk)
        PROVE  Chain
    <2>1. \A r \in calls : r.from = 1 /\ r.kind = "put" /\ r.awaited
      BY <1>2, <1>4 DEF Linked
    <2>2. \A r \in calls : r.kind # "load"
      BY <2>1
    <2> QED BY <1>1, <1>2, <1>4, <2>1, <2>2 DEF Chain, Linked, Timed
  <1> QED BY <1>3, <1>4

\* The same of the next state.
LEMMA ChainIsLinkedNext ==
  (page # "loading" => (Chain <=> page # "failed" /\ (Ready => ours) /\ Linked(Desk, doc) /\ Timed(Desk)))'
  <1>1. page # "loading" => (Chain <=> page # "failed" /\ (Ready => ours) /\ Linked(Desk, doc) /\ Timed(Desk))
    BY ChainIsLinked
  <1> QED BY <1>1, PTL

\* A step that leaves a linked desk and the draft keeps the chain.
LEMMA LinkedStays ==
  ASSUME NEW k \in Desks, NEW d, SetDesk(k), doc' = d, draft' = draft, ours' = ours, Linked(k, d), Timed(k),
         page' \notin {"loading", "failed"}, page' = "ready" => ours
  PROVE  Chain'
  <1>1. Desk' = k
    BY SetDeskIs
  <1>2. Linked(Desk', doc') /\ Timed(Desk')
    BY <1>1
  <1>3. Linked(Desk, doc)' /\ Timed(Desk)'
    BY <1>2 DEF Linked, Timed
  <1> QED BY <1>3, ChainIsLinkedNext DEF Ready

\* SaveNext sends the next link.
LEMMA SaveNextLinks ==
  ASSUME NEW k \in Desks, Serial(k), 1 \in Hooks, NEW d, Linked(k, d)
  PROVE  /\ Linked(SaveNext(k, 1), d) /\ Timed(SaveNext(k, 1))
         /\ SaveNext(k, 1) = k \/ SaveNext(k, 1).pending[1] = {}
  <1>1. CASE SaveNext(k, 1) = k /\ (InFlight(k.calls, 1) \/ k.pending[1] = {})
    BY <1>1 DEF Timed, InFlight
  <1>2. CASE ~InFlight(k.calls, 1) /\ \E s \in Snapshot : k.pending[1] = {s} /\ SaveNext(k, 1) = Sending(k, 1, s)
    <2>1. PICK s \in Snapshot : k.pending[1] = {s} /\ SaveNext(k, 1) = Sending(k, 1, s)
      BY <1>2
    <2> DEFINE m == SaveNext(k, 1)
               q == Send(1, "put", s)
    <2>2. k.calls = {}
      BY <1>2 DEF Linked, InFlight
    <2>3. m.pending[1] = {} /\ m.calls = {q} /\ m.status = (IF ours THEN "saving" ELSE k.status)
      <3>1. m.pending = [k.pending EXCEPT ![1] = {}] /\ m.calls = k.calls \cup {q}
            /\ m.status = (IF ours THEN "saving" ELSE k.status)
        BY <2>1 DEF Sending
      <3> QED BY <2>2, <3>1 DEF Desks
    <2>4. q.from = 1 /\ q.kind = "put" /\ q.awaited /\ q.result = "sent" /\ q.snap = s
      BY DEF Send
    <2>5. s.etag = draft /\ (ours => s.def = d.def /\ s.rev = d.rev)
      BY <2>1, <2>2 DEF Linked
    <2> HIDE DEF m, q
    <2>6. m.status \in {"saved", "dirty", "saving"}
      BY <2>3 DEF Linked
    <2>7. Linked(m, d) /\ Timed(m)
      BY <2>3, <2>4, <2>5, <2>6 DEF Linked, Timed
    <2> QED BY <2>3, <2>7 DEF m
  <1> QED BY <1>1, <1>2, SaveNextSends

\* A snapshot of the document that waits is the next link.
LEMMA WaitingLinks ==
  ASSUME NEW k \in Desks, 1 \in Hooks, NEW d, NEW s, NEW immediate, NEW timed, Linked(k, d),
         k.calls = {} => s.etag = draft, ours => s.def = d.def /\ s.rev = d.rev
  PROVE  Linked(Waiting(k, 1, s, immediate, timed), d)
  <1> DEFINE m == Waiting(k, 1, s, immediate, timed)
  <1>1. m.pending[1] = {s} /\ m.calls = k.calls /\ m.status = k.status
    BY DEF Waiting, Desks
  <1> HIDE DEF m
  <1>2. Linked(m, d)
    BY <1>1 DEF Linked
  <1> QED BY <1>2 DEF m

\* The effect keeps a desk linked, and what waits stays timed unless the document has just become clean.
LEMMA EffectLinks ==
  ASSUME NEW k \in Desks, NEW d \in Snapshot, NEW seen, hook = 1, 1 \in Hooks, page = "ready" => ours,
         Linked(k, d), Timed(k),
         k.status = "dirty" \/ k.status = seen.status \/ k.pending[1] = {} \/ k.calls # {}
  PROVE  Linked(Effect(k, d, seen), d) /\ Timed(Effect(k, d, seen)) /\ Effect(k, d, seen) \in Desks
  <1>1. PICK m : m = Effect(k, d, seen)
    OBVIOUS
  <1>2. m \in Desks /\ m.calls = k.calls /\ m.status = k.status
    BY <1>1, EffectQueues
  <1>3. CASE Quiet(k, d, seen)
    BY <1>1, <1>2, <1>3, EffectQueues
  <1>4. CASE ~Quiet(k, d, seen) /\ k.status = "dirty"
    <2>1. m.pending[1] = {d} /\ (m.timer[1] \/ InFlight(k.calls, 1))
      BY <1>1, <1>4, EffectQueues
    <2>2. ours
      BY <1>4 DEF Quiet
    <2>3. Linked(m, d) /\ Timed(m)
      BY <1>2, <2>1, <2>2 DEF Linked, Timed, InFlight
    <2> QED BY <1>1, <1>2, <2>3
  <1>5. CASE ~Quiet(k, d, seen) /\ k.status # "dirty"
    <2>1. m.pending = k.pending /\ (seen.status # "dirty" => m.timer = k.timer)
      BY <1>1, <1>5, EffectQueues
    <2>2. Linked(m, d)
      BY <1>2, <2>1 DEF Linked
    <2>3. Timed(m)
      BY <1>2, <1>5, <2>1 DEF Timed
    <2> QED BY <1>1, <1>2, <2>2, <2>3
  <1> QED BY <1>3, <1>4, <1>5

\* What the chain is proved from: the first visit, before any incident.
First ==
  /\ TypeOK /\ Serial(Desk) /\ PageInv /\ SnapInv
  /\ hook = 1 /\ Chain

\* The first visit has a hook, and nothing waits at any other.
LEMMA FirstIs ==
  ASSUME First
  PROVE  /\ 1 \in Hooks /\ (page = "ready" => ours) /\ doc \in Snapshot /\ page # "failed"
         /\ \A h \in Hooks : h # 1 => pending[h] = {}
         /\ page # "loading" => Linked(Desk, doc) /\ Timed(Desk)
         /\ \A r \in calls : r.from = 1 /\ r.awaited /\ r.result \in {"sent", "ok"}
  <1>1. 1 \in Hooks
    BY AutosaveAssumption DEF First, TypeOK, Hooks, Loads
  <1>2. page = "ready" => ours
    BY DEF First, Chain, Ready
  <1>3. ASSUME NEW h \in Hooks, h # 1
        PROVE  pending[h] = {}
    <2>1. \A s \in pending[h] : s.load = h /\ s.load <= 1
      BY DEF First, SnapInv, Waits, Taken
    <2>2. ~(h <= 1)
      BY <1>3, AutosaveAssumption DEF Hooks
    <2> QED BY <2>1, <2>2
  <1>4. page # "loading" => Linked(Desk, doc) /\ Timed(Desk)
    BY ChainIsLinked DEF First
  <1> QED BY <1>1, <1>2, <1>3, <1>4 DEF First, TypeOK, Chain

\* TimerFires
LEMMA TimerFiresChain ==
  ASSUME First, NEW h \in Hooks, TimerFires(h), page # "loading"
  PROVE  Chain'
  <1> DEFINE c == ClearTimer(Desk, h)
             k == SaveNext(c, h)
  <1>1. TypeOK /\ Serial(Desk) /\ PageInv /\ SnapInv /\ hook = 1
    BY DEF First
  <1>2. SetDesk(Effect(k, doc, Seen)) /\ doc' = doc /\ UNCHANGED <<draft, ours, page>>
    BY DEF TimerFires, Change, draftVars
  <1>3. c = [pending |-> pending, flush |-> flush, timer |-> [timer EXCEPT ![h] = FALSE],
             calls |-> calls, status |-> status]
    <2>1. Desk.pending = pending /\ Desk.calls = calls /\ Desk.status = status /\ Desk.timer = timer
          /\ Desk.flush = flush /\ Desk \in Desks
      BY <1>1, DeskWithin
    <2>2. c = [Desk EXCEPT !.timer = [Desk.timer EXCEPT ![h] = FALSE]]
      BY DEF ClearTimer
    <2> HIDE DEF c
    <2> QED BY <2>1, <2>2, DeskUpdate
  <1>4. Within(c, Waiters, calls, status) /\ Within(k, Waiters, calls, status)
    BY <1>1, DeskWithin, ClearTimerWithin, SaveNextWithin
  <1>5. Linked(Desk, doc) /\ Timed(Desk) /\ Desk.pending = pending /\ Desk.calls = calls /\ Desk.status = status
        /\ Desk.timer = timer /\ 1 \in Hooks
    BY <1>1, DeskWithin, FirstIs
  <1> HIDE DEF c
  <1>6. c.pending = pending /\ c.calls = calls /\ c.status = status /\ c.timer = [timer EXCEPT ![h] = FALSE]
        /\ c \in Desks /\ Serial(c)
    BY <1>3, <1>4 DEF Within
  <1>7. Linked(c, doc)
    BY <1>5, <1>6 DEF Linked
  <1>8. Linked(k, doc) /\ Timed(k) /\ (k.status = status \/ k.pending[1] = {})
    <2>1. CASE h = 1
      <3>1. /\ Linked(SaveNext(c, 1), doc) /\ Timed(SaveNext(c, 1))
            /\ SaveNext(c, 1) = c \/ SaveNext(c, 1).pending[1] = {}
        BY <1>5, <1>6, <1>7, SaveNextLinks
      <3> QED BY <1>6, <2>1, <3>1
    <2>2. CASE h # 1
      <3>1. k = c
        BY <1>6, <2>2, FirstIs DEF SaveNext
      <3>2. c.timer[1] = timer[1]
        BY <1>1, <1>5, <1>6, <2>2, DeskWithin DEF Desks
      <3>3. Timed(c)
        BY <1>5, <1>6, <3>2 DEF Timed
      <3> QED BY <1>6, <1>7, <3>1, <3>3
    <2> QED BY <2>1, <2>2
  <1>9. k \in Desks
    BY <1>4 DEF Within
  <1> HIDE DEF k
  <1>10. Linked(Effect(k, doc, Seen), doc) /\ Timed(Effect(k, doc, Seen)) /\ Effect(k, doc, Seen) \in Desks
    BY <1>1, <1>8, <1>9, FirstIs, EffectLinks DEF Seen
  <1> QED BY <1>2, <1>10, FirstIs, LinkedStays

\* FlushPending sends the next link.
LEMMA FlushPendingLinks ==
  ASSUME NEW k, NEW Q, NEW C, NEW st, Within(k, Q, C, st), 1 \in Hooks, NEW d, Linked(k, d)
  PROVE  /\ Linked(FlushPending(k, 1), d) /\ Timed(FlushPending(k, 1)) /\ FlushPending(k, 1) \in Desks
         /\ FlushPending(k, 1).status = k.status \/ FlushPending(k, 1).pending[1] = {}
  <1>1. PICK f \in [Hooks -> BOOLEAN] :
          FlushPending(k, 1) = SaveNext([pending |-> k.pending, flush |-> f,
            timer |-> [k.timer EXCEPT ![1] = FALSE], calls |-> k.calls, status |-> k.status], 1)
    BY FlushPendingWithin
  <1> DEFINE c == [pending |-> k.pending, flush |-> f, timer |-> [k.timer EXCEPT ![1] = FALSE],
                   calls |-> k.calls, status |-> k.status]
  <1>2. c \in Desks /\ Serial(c)
    BY DEF Within, Desks, Serial
  <1>3. Linked(c, d)
    BY DEF Linked
  <1>4. FlushPending(k, 1) = SaveNext(c, 1) /\ c.status = k.status
    BY <1>1
  <1>5. FlushPending(k, 1) \in Desks
    BY FlushPendingWithin DEF Within
  <1> HIDE DEF c
  <1>6. /\ Linked(SaveNext(c, 1), d) /\ Timed(SaveNext(c, 1))
        /\ SaveNext(c, 1) = c \/ SaveNext(c, 1).pending[1] = {}
    BY <1>2, <1>3, SaveNextLinks
  <1> QED BY <1>4, <1>5, <1>6

\* FlushBeforePageExit
LEMMA FlushChain ==
  ASSUME First, FlushBeforePageExit
  PROVE  Chain'
  <1> DEFINE e == IF status = "dirty" THEN [Desk EXCEPT !.pending[hook] = {doc}] ELSE Desk
             k == FlushPending(e, hook)
  <1>1. TypeOK /\ Serial(Desk) /\ PageInv /\ SnapInv /\ hook = 1 /\ Ready /\ page = "ready"
    BY DEF First, FlushBeforePageExit, Ready
  <1>2. SetDesk(Effect(k, doc, Seen)) /\ doc' = doc /\ UNCHANGED <<draft, ours, page>>
    BY DEF FlushBeforePageExit, Change, draftVars
  <1>3. /\ Within(e, Waiters, calls, status) /\ e.status = status /\ e.calls = calls
        /\ IF status = "dirty" THEN e.pending[hook] = {doc} ELSE e = Desk
    BY <1>1, FlushedWithin
  <1>4. Linked(Desk, doc) /\ Timed(Desk) /\ ours /\ 1 \in Hooks /\ Desk.calls = calls /\ Desk.status = status
        /\ doc \in Snapshot
    BY <1>1, FirstIs, DeskWithin
  <1> HIDE DEF e
  <1>5. Linked(e, doc)
    <2>1. CASE status = "dirty"
      BY <1>1, <1>3, <1>4, <2>1 DEF Linked
    <2>2. CASE status # "dirty"
      BY <1>3, <1>4, <2>2
    <2> QED BY <2>1, <2>2
  <1>6. Linked(k, doc) /\ Timed(k) /\ k \in Desks /\ (k.status = status \/ k.pending[1] = {})
    BY <1>1, <1>3, <1>4, <1>5, FlushPendingLinks
  <1> HIDE DEF k
  <1>7. Linked(Effect(k, doc, Seen), doc) /\ Timed(Effect(k, doc, Seen)) /\ Effect(k, doc, Seen) \in Desks
    BY <1>1, <1>4, <1>6, EffectLinks DEF Seen
  <1> QED BY <1>1, <1>2, <1>4, <1>7, LinkedStays

\* Leave
LEMMA LeaveChain ==
  ASSUME First, Leave
  PROVE  Chain'
  <1>1. TypeOK /\ Serial(Desk) /\ PageInv /\ SnapInv /\ hook = 1
    BY DEF First
  <1>2. page' = "closed" /\ doc' = doc /\ UNCHANGED <<draft, ours>>
    BY DEF Leave, draftVars
  <1>3. CASE Ready
    <2> DEFINE k == IF status = "dirty" THEN Schedule(Desk, hook, doc, TRUE) ELSE Desk
               m == FlushPending(k, hook)
    <2>1. SetDesk(m)
      BY <1>3 DEF Leave
    <2>2. Linked(Desk, doc) /\ 1 \in Hooks /\ Desk.calls = calls /\ Desk \in Desks /\ doc \in Snapshot
          /\ doc \in Waiters[hook] /\ ours /\ Within(Desk, Waiters, calls, status)
      BY <1>1, <1>3, FirstIs, DeskWithin DEF Ready
    <2>3. Within(Schedule(Desk, hook, doc, TRUE), Waiters, calls, status)
      BY <1>1, <2>2, ScheduleWithin
    <2>4. Linked(Schedule(Desk, hook, doc, TRUE), doc)
      <3> DEFINE w == Waiting(Desk, 1, doc, TRUE, FALSE)
      <3>1. Linked(w, doc)
        <4>1. Desk.calls = {} => doc.etag = draft
          BY <2>2 DEF Linked
        <4> QED BY <2>2, <4>1, WaitingLinks
      <3>2. w \in Desks /\ Serial(w)
        <4>1. Within(w, Waiters, calls, status)
          BY <1>1, <2>2, WaitingWithin
        <4> QED BY <4>1 DEF Within
      <3>3. Linked(SaveNext(w, 1), doc)
        <4> HIDE DEF w
        <4> QED BY <2>2, <3>1, <3>2, SaveNextLinks
      <3>4. InFlight(Desk.calls, 1) => Schedule(Desk, 1, doc, TRUE) = w
        BY <2>2, ScheduleWaits
      <3>5. ~InFlight(Desk.calls, 1) => Schedule(Desk, 1, doc, TRUE) = SaveNext(w, 1)
        BY <2>2, ScheduleWaits
      <3> HIDE DEF w
      <3> QED BY <1>1, <3>1, <3>3, <3>4, <3>5
    <2>5. Within(k, Waiters, calls, status) /\ Linked(k, doc)
      BY <2>2, <2>3, <2>4
    <2> HIDE DEF k
    <2>6. Linked(m, doc) /\ Timed(m) /\ m \in Desks
      BY <1>1, <2>2, <2>5, FlushPendingLinks
    <2> HIDE DEF m
    <2> QED BY <1>2, <2>1, <2>6, LinkedStays
  <1>4. CASE ~Ready
    <2>1. page = "loading"
      BY <1>4, FirstIs DEF Leave, Ready
    <2>2. calls' = {} /\ UNCHANGED <<hookVars, status>>
      BY <1>1, <1>4, <2>1 DEF Leave, Awaits, First, Chain
    <2>3. pending[1] = {} /\ ~ours /\ status \in {"saved", "dirty", "saving"}
      BY <2>1 DEF First, Chain
    <2>4. Puts(calls', 1) = {}
      BY <2>2 DEF Puts
    <2> QED BY <1>2, <2>2, <2>3, <2>4 DEF Chain, hookVars, Ready
  <1> QED BY <1>3, <1>4

\* Edit
LEMMA EditChain ==
  ASSUME First, NEW d \in Definitions, Edit(d)
  PROVE  Chain'
  <1> DEFINE k == [Desk EXCEPT !.status = "dirty"]
  <1>1. TypeOK /\ Serial(Desk) /\ PageInv /\ SnapInv /\ hook = 1 /\ page = "ready"
    BY DEF First, Edit, Ready
  <1>2. doc' \in Snapshot /\ doc' = [def |-> d, ref |-> doc.ref + 1, etag |-> doc.etag, rev |-> doc.rev, load |-> doc.load]
        /\ SetDesk(Effect(k, doc', Seen)) /\ UNCHANGED <<draft, ours, page>>
    BY <1>1, EditFits DEF Edit, draftVars
  <1>3. doc'.ref = doc.ref + 1 /\ doc'.etag = doc.etag /\ doc'.rev = doc.rev /\ doc.ref \in Nat
    BY <1>1, <1>2 DEF TypeOK, Snapshot
  <1>4. Linked(Desk, doc) /\ ours /\ 1 \in Hooks /\ Desk.calls = calls
    BY <1>1, FirstIs, DeskWithin
  <1>5. k = [pending |-> pending, flush |-> flush, timer |-> timer, calls |-> calls, status |-> "dirty"]
    BY <1>1, DeskWithin, DeskUpdate
  <1>6. k \in Desks /\ k.status = "dirty" /\ k.calls = calls
    BY <1>1, <1>5, DeskWithin DEF Desks, Statuses
  <1>7. ~Quiet(k, doc', Seen)
    <2>1. doc' # doc
      BY <1>3
    <2> QED BY <1>1, <2>1 DEF Quiet, Seen
  <1> HIDE DEF k
  <1>8. PICK m : m = Effect(k, doc', Seen)
    OBVIOUS
  <1>9. m \in Desks /\ m.calls = calls /\ m.status = "dirty" /\ m.pending[1] = {doc'}
        /\ (m.timer[1] \/ InFlight(calls, 1))
    BY <1>1, <1>2, <1>4, <1>6, <1>7, <1>8, EffectQueues
  <1>10. Linked(m, doc')
    <2> HIDE <1>2
    <2> QED BY <1>3, <1>4, <1>9 DEF Linked
  <1>11. Timed(m)
    BY <1>9 DEF Timed, InFlight
  <1> HIDE <1>2
  <1> QED BY <1>1, <1>2, <1>4, <1>8, <1>9, <1>10, <1>11, LinkedStays

\* AnotherFlow
LEMMA AnotherFlowChain ==
  ASSUME First, AnotherFlow
  PROVE  Chain'
  BY DEF First, AnotherFlow, Chain, hookVars, draftVars, Ready

\* Nothing of the first visit waits while its page is loading.
LEMMA LoadingChain ==
  ASSUME First, page = "loading", NEW h \in Hooks, TimerFires(h)
  PROVE  Chain'
  <1> DEFINE c == ClearTimer(Desk, h)
  <1>1. TypeOK /\ Serial(Desk) /\ PageInv /\ SnapInv /\ hook = 1
    BY DEF First
  <1>2. pending[h] = {}
    BY FirstIs DEF First, Chain
  <1>3. c = [pending |-> pending, flush |-> flush, timer |-> [timer EXCEPT ![h] = FALSE],
             calls |-> calls, status |-> status]
    <2>1. Desk.pending = pending /\ Desk.calls = calls /\ Desk.status = status /\ Desk.timer = timer
          /\ Desk.flush = flush /\ Desk \in Desks
      BY <1>1, DeskWithin
    <2>2. c = [Desk EXCEPT !.timer = [Desk.timer EXCEPT ![h] = FALSE]]
      BY DEF ClearTimer
    <2> HIDE DEF c
    <2> QED BY <2>1, <2>2, DeskUpdate
  <1> HIDE DEF c
  <1>4. SaveNext(c, h) = c
    BY <1>2, <1>3 DEF SaveNext
  <1>5. SetDesk(c)
    <2>1. SetDesk(Effect(c, doc, Seen))
      BY <1>4 DEF TimerFires, Change, c
    <2> QED BY <2>1 DEF Effect
  <1>6. UNCHANGED <<pending, calls, status, doc, ours, page, draft>>
    BY <1>3, <1>5 DEF SetDesk, TimerFires, Change, draftVars
  <1>7. \A r \in calls : r.kind = "load"
    BY DEF First, Chain
  <1>8. Puts(calls, 1) = {} /\ pending[1] = {}
    BY <1>7 DEF Puts, First, Chain
  <1> QED BY <1>6, <1>8 DEF First, Chain, Puts, Ready

\* Open, from a tab in which nothing has happened yet.
LEMMA OpenChain ==
  ASSUME hook = 0, Before1, Open
  PROVE  Chain'
  <1>1. page' = "loading" /\ calls' = {Send(1, "load", doc)} /\ UNCHANGED <<draftVars, storeVars, hookVars>>
    BY DEF Open, Before1
  <1>2. ~ours /\ status = "saved"
    BY DEF Before1
  <1>3. Send(1, "load", doc).from = 1 /\ Send(1, "load", doc).kind = "load"
        /\ Send(1, "load", doc).awaited /\ Send(1, "load", doc).result = "sent"
    BY DEF Send
  <1>4. 1 \in Hooks => pending[1] = {}
    BY DEF Before1
  <1>5. 1 \in Hooks
    BY AutosaveAssumption DEF Open, Hooks
  <1>6. Puts(calls', 1) = {}
    BY <1>1, <1>3 DEF Puts
  <1> QED BY <1>1, <1>2, <1>3, <1>4, <1>5, <1>6 DEF Chain, storeVars, hookVars, Ready

\* LoadDocument
LEMMA LoadDocumentChain ==
  ASSUME First, LoadDocument
  PROVE  Chain'
  <1>1. PICK r \in Awaits(hook, "load") :
          /\ page = "loading" /\ Answered(r) /\ calls' = calls \ {r} /\ ours' = TRUE /\ page' = "ready"
          /\ doc' = [def |-> r.snap.def, ref |-> doc.ref + 1, etag |-> ETag(r.snap.def), rev |-> 1, load |-> hook]
          /\ status' = "saved" /\ UNCHANGED <<draftVars, hook, hookVars>>
    BY DEF LoadDocument
  <1>2. r \in calls /\ r.result = "ok" /\ r.kind = "load"
    BY <1>1 DEF Awaits, Answered
  <1>3. calls' = {} /\ r.snap.def = draft /\ pending[1] = {}
    BY <1>1, <1>2 DEF First, Chain
  <1>4. Puts(calls', 1) = {}
    BY <1>3 DEF Puts
  <1>5. doc'.etag = draft /\ doc'.def = draft
    BY <1>1, <1>3 DEF ETag
  <1>6. draft' = draft /\ pending' = pending
    BY <1>1 DEF draftVars, hookVars
  <1> HIDE <1>1
  <1>7. page' = "ready" /\ ours' /\ status' = "saved"
    BY <1>1
  <1> QED BY <1>3, <1>4, <1>5, <1>6, <1>7 DEF Chain

\* Serve
LEMMA ServeChain ==
  ASSUME First, Serve
  PROVE  Chain'
  <1>1. PICK r \in calls : r.result = "sent" /\ (Accept(r) \/ Refuse(r) \/ GetFlowDraft(r))
    BY DEF Serve
  <1>2. UNCHANGED <<doc, status, ours, page, hook, hookVars>>
    BY DEF Serve, storeVars
  <1>3. r \in Request /\ r.from = 1 /\ r.awaited /\ r.snap \in Snapshot
    BY FirstIs, DeskWithin DEF First, Desks, Request
  <1>4. CASE page = "loading"
    <2>1. r.kind = "load" /\ calls = {r} /\ pending[1] = {} /\ ~ours
      BY <1>4 DEF First, Chain
    <2>2. GetFlowDraft(r)
      BY <1>1, <2>1 DEF Accept, Refuse
    <2> DEFINE a == [r EXCEPT !.result = "ok", !.snap.def = draft]
    <2>3. calls' = {a} /\ draft' = draft
      BY <2>1, <2>2 DEF GetFlowDraft, draftVars
    <2>4. a.from = 1 /\ a.kind = "load" /\ a.awaited /\ a.result = "ok" /\ a.snap.def = draft
      BY <1>3, <2>1 DEF Request, Snapshot
    <2> HIDE DEF a
    <2>5. Puts(calls', 1) = {}
      BY <2>3, <2>4 DEF Puts
    <2>6. status \in {"saved", "dirty", "saving"}
      BY DEF First, Chain
    <2> QED BY <1>2, <1>4, <2>1, <2>3, <2>4, <2>5, <2>6 DEF Chain, hookVars, Ready
  <1>5. CASE page # "loading"
    <2>1. Linked(Desk, doc) /\ Timed(Desk) /\ Desk.calls = calls /\ Desk.pending = pending
          /\ Desk.timer = timer /\ Desk.status = status /\ page # "failed" /\ (page = "ready" => ours) /\ Serial(Desk)
      BY <1>5, FirstIs, DeskWithin DEF First
    <2>2. r.kind = "put" /\ draft = r.snap.etag
      BY <1>1, <2>1 DEF Linked
    <2>3. calls = {r}
      <3>1. \A q \in calls : q \in Puts(calls, 1) /\ q.awaited
        BY <2>1 DEF Linked, Puts
      <3>2. \A q, p \in Puts(calls, 1) : q.awaited /\ p.awaited => q = p
        BY <2>1, FirstIs DEF Serial
      <3> QED BY <3>1, <3>2
    <2>4. Accept(r) /\ draft' = r.snap.def
      BY <1>1, <2>2 DEF Refuse, PreconditionFailed, Current, ETag, GetFlowDraft, Accept, ReplaceFlowDraft, UpdateFlow
    <2> DEFINE a == [r EXCEPT !.result = "ok"]
    <2>5. calls' = {a}
      BY <1>3, <2>3, <2>4 DEF Accept, Reply
    <2>6. a.from = 1 /\ a.kind = "put" /\ a.awaited /\ a.result = "ok" /\ a.snap = r.snap
      BY <1>3, <2>2 DEF Request
    <2> HIDE DEF a
    <2>7. Linked(Desk, doc)' /\ Timed(Desk)'
      <3>1. Desk'.calls = {a} /\ Desk'.pending = pending /\ Desk'.status = status
        BY <1>2, <2>5 DEF Desk, hookVars
      <3>2. Timed(Desk)'
        BY <3>1 DEF Timed
      <3>3. ours => /\ \A s \in pending[1] : s.def = doc.def /\ s.rev = doc.rev
                    /\ r.snap.rev = doc.rev /\ (pending[1] = {} => r.snap.def = doc.def)
        BY <2>1, <2>3 DEF Linked
      <3>4. status \in {"saved", "dirty", "saving"}
        BY <2>1 DEF Linked
      <3>5. Linked(Desk, doc)'
        BY <1>2, <2>4, <2>6, <3>1, <3>3, <3>4 DEF Linked
      <3> QED BY <3>2, <3>5
    <2> QED BY <1>2, <1>5, <2>1, <2>7, ChainIsLinkedNext DEF Ready
  <1> QED BY <1>4, <1>5

\* SaveCompletes: what waited behind the save is the next link.
LEMMA SaveCompletesChain ==
  ASSUME First, NEW h \in Hooks, SaveCompletes(h)
  PROVE  Chain'
  <1>1. TypeOK /\ Serial(Desk) /\ PageInv /\ SnapInv /\ hook = 1
    BY DEF First
  <1>2. PICK r \in calls :
           /\ r.snap \in Snapshot /\ r.from = h /\ r.kind = "put" /\ r.awaited /\ r.result = "ok"
           /\ doc' = NextDoc(r) /\ SetDesk(After(h, r))
           /\ UNCHANGED <<draftVars, ours, page>>
    BY <1>1, SaveCompletesIs
  <1>3. h = 1 /\ page # "loading" /\ page # "failed" /\ (page = "ready" => ours) /\ 1 \in Hooks
    BY <1>2, FirstIs DEF First, Chain
  <1>4. Linked(Desk, doc) /\ Desk.calls = calls /\ Desk.pending = pending /\ Desk.status = status
    BY <1>1, <1>3, FirstIs, DeskWithin
  <1>5. calls = {r}
    <2>1. \A q \in calls : q \in Puts(calls, 1) /\ q.awaited
      BY <1>4 DEF Linked, Puts
    <2>2. \A q, p \in Puts(calls, 1) : q.awaited /\ p.awaited => q = p
      BY <1>1, <1>3, <1>4 DEF Serial
    <2> QED BY <2>1, <2>2
  <1>6. draft = r.snap.def /\ (ours => r.snap.rev = doc.rev)
        /\ (ours => /\ \A s \in pending[1] : s.def = doc.def
                    /\ pending[1] = {} => r.snap.def = doc.def)
    BY <1>2, <1>4 DEF Linked
  <1> DEFINE d == NextDoc(r)
             c == Chained(1, r)
             x == Cut(1, r)
             f == Freed(1, r)
             m == Shown(1, r)
  <1>7. /\ d \in Snapshot /\ d.def = doc.def
        /\ ours => d.etag = draft /\ d.rev = r.snap.rev + 1
    <2>1. doc.rev \in Nat /\ r.snap.rev \in Nat
      BY <1>1, <1>2 DEF TypeOK, Snapshot
    <2>2. NextDoc(r) \in Snapshot /\ NextDoc(r).def = doc.def
      BY <1>1, NextDocIs
    <2>3. ours => NextDoc(r) = [def |-> doc.def, ref |-> doc.ref, etag |-> ETag(r.snap.def),
                                rev |-> r.snap.rev + 1, load |-> doc.load]
      BY <1>1, <1>6, <2>1, NextDocIs
    <2>4. ours => NextDoc(r).etag = ETag(r.snap.def) /\ NextDoc(r).rev = r.snap.rev + 1
      BY <2>3
    <2> QED BY <1>6, <2>2, <2>4 DEF ETag
  <1>8. /\ c \in Desks /\ c.status = NewStatus(r)
        /\ pending[1] = {} => c.pending[1] = {}
        /\ \A s \in pending[1] : c.pending[1] =
             {[def |-> s.def, ref |-> s.ref, etag |-> ETag(r.snap.def), rev |-> r.snap.rev + 1, load |-> s.load]}
    BY <1>1, <1>3, ChainedIs
  <1> HIDE DEF c, d, m, x, f
  <1>9. /\ \A s \in c.pending[1] : s.etag = draft /\ (ours => s.def = d.def /\ s.rev = d.rev)
        /\ c.pending[1] = {} => (ours => draft = d.def)
    <2>1. CASE pending[1] = {}
      BY <1>6, <1>7, <1>8, <2>1
    <2>2. ASSUME NEW s \in pending[1]
          PROVE  /\ \A t \in c.pending[1] : t.etag = draft /\ (ours => t.def = d.def /\ t.rev = d.rev)
                 /\ c.pending[1] # {}
      <3> DEFINE a == [def |-> s.def, ref |-> s.ref, etag |-> ETag(r.snap.def), rev |-> r.snap.rev + 1, load |-> s.load]
      <3>1. c.pending[1] = {a}
        BY <1>8
      <3>2. a.etag = r.snap.def /\ a.def = s.def /\ a.rev = r.snap.rev + 1
        BY DEF ETag
      <3> HIDE DEF a
      <3> QED BY <1>6, <1>7, <3>1, <3>2
    <2> QED BY <2>1, <2>2
  <1>10. /\ m.status = NewStatus(r) /\ x \in Desks /\ x.status = NewStatus(r) /\ x.calls = {}
         /\ x.pending = m.pending /\ Within(x, Requeued(1, r), {}, NewStatus(r))
         /\ Within(f, Requeued(1, r), {}, NewStatus(r))
    <2>1. calls \ {r} = {}
      BY <1>5
    <2> QED BY <1>1, <1>2, <1>3, <2>1, CutIs, SaveCompletesWithin DEF m, x, f
  <1>11. m.pending[1] = c.pending[1] \/ (m.pending[1] = {d} /\ page = "ready")
    <2>1. m = Effect(c, d, Seen)
      BY DEF Shown, c, d, m
    <2>2. Quiet(c, d, Seen) => m = c
      BY <1>1, <1>3, <1>7, <1>8, <2>1, EffectQueues
    <2>3. ~Quiet(c, d, Seen) /\ c.status = "dirty" => m.pending[1] = {d}
      BY <1>1, <1>3, <1>7, <1>8, <2>1, EffectQueues
    <2>4. ~Quiet(c, d, Seen) /\ c.status # "dirty" => m.pending = c.pending
      BY <1>1, <1>3, <1>7, <1>8, <2>1, EffectQueues
    <2> QED BY <2>2, <2>3, <2>4 DEF Quiet
  <1>12. Linked(x, d)
    <2>1. x.status \in {"saved", "dirty", "saving"}
      BY <1>4, <1>10 DEF Linked, NewStatus
    <2>2. /\ \A s \in x.pending[1] : s.etag = draft /\ (ours => s.def = d.def /\ s.rev = d.rev)
          /\ x.pending[1] = {} => (ours => draft = d.def)
      BY <1>3, <1>7, <1>9, <1>10, <1>11
    <2> QED BY <1>7, <1>10, <2>1, <2>2 DEF Linked
  <1>13. Linked(f, d) /\ Timed(f) /\ (f.status = m.status \/ f.pending[1] = {})
    <2>1. CASE x.pending[1] = {}
      <3>1. f = x
        BY <1>3, <2>1 DEF f, x, Freed, Finally
      <3> QED BY <1>10, <1>12, <2>1, <3>1 DEF Timed
    <2>2. ASSUME NEW s, x.pending[1] = {s}
          PROVE  Linked(f, d) /\ Timed(f) /\ (f.status = m.status \/ f.pending[1] = {})
      <3>1. PICK now \in BOOLEAN : f = Schedule(x, 1, s, now) /\ s \in Snapshot
        <4>1. Mounted(1) \in BOOLEAN /\ f = Finally(x, 1, Mounted(1))
          BY DEF Mounted, f, x, Freed
        <4>2. s \in Snapshot /\ Finally(x, 1, Mounted(1)) = Schedule(x, 1, s, x.flush[1] \/ ~Mounted(1))
          BY <1>3, <1>10, <2>2, FinallyIs
        <4>3. (x.flush[1] \/ ~Mounted(1)) \in BOOLEAN
          OBVIOUS
        <4> QED BY <4>1, <4>2, <4>3
      <3>2. ~InFlight(x.calls, 1)
        BY <1>10 DEF InFlight
      <3>3. s.etag = draft /\ (ours => s.def = d.def /\ s.rev = d.rev)
        BY <1>10, <1>12, <2>2 DEF Linked
      <3>4. CASE now
        <4> DEFINE w == Waiting(x, 1, s, now, FALSE)
        <4>1. f = SaveNext(w, 1)
          BY <1>3, <1>10, <3>1, <3>2, <3>4, ScheduleWaits
        <4>2. Linked(w, d)
          BY <1>3, <1>10, <1>12, <3>3, WaitingLinks
        <4>3. w \in Desks /\ w.status = x.status /\ w.pending = [x.pending EXCEPT ![1] = {s}]
          BY <1>3, <1>10, <3>1 DEF Waiting, Desks
        <4>4. w.pending = x.pending /\ w.calls = x.calls
          BY <1>10, <2>2, <4>3 DEF Desks, Waiting
        <4>5. Serial(w)
          BY <1>10, <4>4 DEF Within, Serial
        <4> HIDE DEF w
        <4>6. Linked(f, d) /\ Timed(f) /\ (f = w \/ f.pending[1] = {})
          BY <1>3, <4>1, <4>2, <4>3, <4>5, SaveNextLinks
        <4> QED BY <1>10, <4>3, <4>6
      <3>5. CASE ~now
        <4>1. f = Waiting(x, 1, s, now, TRUE)
          BY <1>3, <1>10, <3>1, <3>2, <3>5, ScheduleWaits
        <4>2. Linked(f, d)
          BY <1>3, <1>10, <1>12, <3>3, <4>1, WaitingLinks
        <4>3. f.timer[1] /\ f.status = x.status
          BY <1>3, <1>10, <4>1 DEF Waiting, Desks
        <4> QED BY <1>10, <4>2, <4>3 DEF Timed
      <3> QED BY <3>4, <3>5
    <2>3. x.pending[1] # {} => \E s : x.pending[1] = {s}
      <3>1. \A s, t \in x.pending[1] : s = t
        BY <1>3, <1>10 DEF Within, Serial
      <3> SUFFICES ASSUME NEW s \in x.pending[1]
                   PROVE  x.pending[1] = {s}
        OBVIOUS
      <3> QED BY <3>1
    <2> QED BY <2>1, <2>2, <2>3
  <1> DEFINE g == Effect(f, d, [doc |-> d, status |-> m.status])
  <1>14. Linked(g, d) /\ Timed(g) /\ g \in Desks
    <2>1. f \in Desks
      BY <1>10 DEF Within
    <2> DEFINE seen == [doc |-> d, status |-> m.status]
    <2>2. seen.status = m.status
      OBVIOUS
    <2> HIDE DEF seen
    <2>3. Linked(Effect(f, d, seen), d) /\ Timed(Effect(f, d, seen)) /\ Effect(f, d, seen) \in Desks
      BY <1>1, <1>3, <1>7, <1>13, <2>1, <2>2, EffectLinks
    <2> QED BY <2>3 DEF seen
  <1>15. SetDesk(g) /\ doc' = d
    BY <1>2, <1>3 DEF After, d, m, f
  <1> HIDE DEF g
  <1>16. UNCHANGED <<draft, ours, page>>
    BY <1>2 DEF draftVars
  <1> QED BY <1>3, <1>14, <1>15, <1>16, LinkedStays

\* Every step of the first visit keeps the chain.
LEMMA ChainStep ==
  ASSUME DataInv, Alone, Before1, [Next]_vars, hook' = 1, incidents' = 0
  PROVE  Chain'
  <1>1. TypeOK /\ Serial(Desk) /\ PageInv /\ SnapInv /\ hook \in Nat /\ incidents \in Nat
    BY AutosaveAssumption DEF DataInv, TypeOK, Loads
  <1>2. CASE Open
    <2>1. hook = 0
      BY <1>1, <1>2 DEF Open
    <2> QED BY <1>2, <2>1, OpenChain DEF DataInv
  <1>3. CASE ~Open
    <2>1. hook = 1
      BY <1>3 DEF Next, LoadDocument, LoadFails, FlushBeforePageExit, Leave, AnotherFlow, Edit, RestoreClick,
            SomebodyElse, TimerFires, Answer, SaveCompletes, SaveFails, PublishClick, Dialogs, PublishSaved,
            Published, PublishFails, Restored, RestoreFails, DialogEnds, Serve, Break, vars
    <2>2. incidents = 0
      <3>1. incidents' = incidents \/ incidents' = incidents + 1
        BY <1>3 DEF Next, LoadDocument, LoadFails, FlushBeforePageExit, Leave, AnotherFlow, Edit, RestoreClick,
              SomebodyElse, TimerFires, Answer, SaveCompletes, SaveFails, PublishClick, Dialogs, PublishSaved,
              Published, PublishFails, Restored, RestoreFails, DialogEnds, Serve, Break, vars, boundVars
      <3> QED BY <1>1, <3>1
    <2>3. First
      BY <1>1, <2>1, <2>2 DEF First, Alone
    <2>4. \A r \in calls : r.from = 1 /\ r.awaited /\ r.result \in {"sent", "ok"}
      BY <2>3, FirstIs
    <2>5. ~LoadFails /\ \A h \in Hooks : ~SaveFails(h)
      BY <2>4 DEF LoadFails, SaveFails, Awaits, Failed
    <2>6. ~Dialogs
      <3>1. \A kind : Awaits(Dialog, kind) = {}
        BY <2>4 DEF Awaits, Dialog
      <3> QED BY <3>1 DEF Dialogs, PublishSaved, Published, PublishFails, Restored, RestoreFails
    <2>7. ~PublishClick /\ ~Break /\ \A d \in Definitions : ~RestoreClick(d) /\ ~SomebodyElse(d)
      BY <2>2 DEF PublishClick, Break, RestoreClick, SomebodyElse
    <2>8. CASE UNCHANGED vars
      BY <2>3, <2>8 DEF First, Chain, vars, draftVars, storeVars, hookVars, Puts, Ready
    <2>9. CASE \E h \in Hooks : TimerFires(h)
      BY <2>3, <2>9, TimerFiresChain, LoadingChain
    <2>10. CASE \E h \in Hooks : SaveCompletes(h)
      BY <2>3, <2>10, SaveCompletesChain
    <2>11. CASE \E d \in Definitions : Edit(d)
      BY <2>3, <2>11, EditChain
    <2>12. CASE LoadDocument \/ FlushBeforePageExit \/ Leave \/ AnotherFlow \/ Serve
      BY <2>3, <2>12, LoadDocumentChain, FlushChain, LeaveChain, AnotherFlowChain, ServeChain
    <2> QED BY <1>3, <2>5, <2>6, <2>7, <2>8, <2>9, <2>10, <2>11, <2>12 DEF Next, Answer
  <1> QED BY <1>2, <1>3

\* Before the page is opened, only others do anything.
LEMMA Before1Step ==
  ASSUME DataInv, Before1, [Next]_vars, hook' = 0
  PROVE  Before1'
  <1>1. hook \in Nat
    BY AutosaveAssumption DEF DataInv, TypeOK, Loads
  <1>2. ~Open
    BY <1>1 DEF Open
  <1>3. hook = 0
    BY <1>2 DEF Next, LoadDocument, LoadFails, FlushBeforePageExit, Leave, AnotherFlow, Edit, RestoreClick,
          SomebodyElse, TimerFires, Answer, SaveCompletes, SaveFails, PublishClick, Dialogs, PublishSaved,
          Published, PublishFails, Restored, RestoreFails, DialogEnds, Serve, Break, vars
  <1>4. calls = {} /\ page = "closed" /\ ~ours /\ \A h \in Hooks : ~timer[h]
    BY <1>3 DEF Before1
  <1>5. (\E d \in Definitions : SomebodyElse(d)) \/ UNCHANGED vars
    BY <1>2, <1>4 DEF Next, LoadDocument, LoadFails, FlushBeforePageExit, Leave, AnotherFlow, Edit, RestoreClick,
          TimerFires, Answer, SaveCompletes, SaveFails, PublishClick, Dialogs, PublishSaved,
          Published, PublishFails, Restored, RestoreFails, Serve, Break, Awaits, Ready
  <1>6. UNCHANGED <<calls, doc, status, ours, page, hook, pending, timer>>
    BY <1>5 DEF SomebodyElse, vars, storeVars, hookVars
  <1> QED BY <1>3, <1>6 DEF Before1

\* The invariant holds when the tab is opened.
LEMMA InitInv == Init => IInv
  <1> SUFFICES ASSUME Init
               PROVE  IInv
    OBVIOUS
  <1>1. draft = FirstDraft /\ draft \in Definitions /\ MaxMounts \in Nat
    BY AutosaveAssumption DEF Init
  <1>2. calls = {} /\ hook = 0 /\ page = "closed" /\ status = "saved" /\ ours = FALSE
        /\ pending = [h \in Hooks |-> {}] /\ flush = [h \in Hooks |-> FALSE] /\ timer = [h \in Hooks |-> FALSE]
    BY DEF Init
  <1>3. doc = [def |-> draft, ref |-> 0, etag |-> draft, rev |-> 0, load |-> 0]
    BY DEF Init
  <1>4. doc \in Snapshot /\ doc.load = 0 /\ 0 \in Loads /\ 0 \notin Hooks
    BY <1>1, <1>3, HooksAreLoads DEF Snapshot
  <1>5. Desk \in Desks
    BY <1>2 DEF Desk, Desks, Statuses
  <1>6. TypeOK
    BY <1>1, <1>2, <1>4, <1>5 DEF Init, TypeOK
  <1>7. Serial(Desk)
    BY <1>2 DEF Serial, Desk, Puts
  <1>8. PageInv /\ SnapInv /\ SavedInv /\ OnlyCrossedOverwrite
    BY <1>2, <1>4 DEF Init, PageInv, SnapInv, SavedInv, Saved, OnlyCrossedOverwrite, Ready
  <1>9. WillBeSaved /\ Alone /\ Before1
    BY <1>2 DEF WillBeSaved, Ready, Alone, Before1
  <1> QED BY <1>6, <1>7, <1>8, <1>9 DEF IInv, DataInv

\* Every step keeps the invariant.
LEMMA Step == IInv /\ [Next]_vars => IInv'
  <1> SUFFICES ASSUME IInv, [Next]_vars
               PROVE  IInv'
    OBVIOUS
  <1>1. DataInv'
    BY DataInvStep DEF IInv
  <1>2. WillBeSaved'
    BY WillBeSavedStep DEF IInv
  <1>3. Alone'
    BY ChainStep DEF IInv, Alone
  <1>4. Before1'
    <2>1. hook' = 0 => Before1'
      BY Before1Step DEF IInv
    <2> QED BY <2>1 DEF Before1
  <1> QED BY <1>1, <1>2, <1>3, <1>4 DEF IInv

\* In every state of the tab, its drafts, requests and queues fit together.
THEOREM Invariant == Spec => []IInv
  BY InitInv, Step, PTL DEF Spec

\* flow-store.ts:485-487 and the compare-and-swap of the API: what the editor shows as saved is
\* stored, and its writes replace only what it has seen, in every order of requests, answers and
\* visits but for the three races. For any definitions, and any number of visits, edits and incidents.
THEOREM RacesOnly == Spec => []OnlyRacesHurt
  <1>1. IInv => OnlyRacesHurt
    BY DEF IInv, DataInv, SavedInv, Fine, OnlyRacesHurt, SavedIsStoredUnlessRaced
  <1> QED BY <1>1, Invariant, PTL

\* useAutosave.ts: an edit is never left without something that will send it, and nothing is lost
\* when the page is left.
THEOREM NoEditStranded == Spec => []EditsAreKept
  <1>1. IInv => NothingLost
    <2> SUFFICES ASSUME IInv, hook = 1, incidents = 0, Rest
                 PROVE  draft = doc.def
      BY DEF NothingLost
    <2>1. Chain /\ calls = {} /\ ours /\ page # "loading" /\ \A h \in Hooks : ~timer[h]
      BY DEF IInv, Alone, Rest
    <2>2. Linked(Desk, doc) /\ Timed(Desk) /\ Desk.calls = {} /\ Desk.pending = pending /\ Desk.timer = timer
      BY <2>1, ChainIsLinked DEF Desk
    <2>3. 1 \in Hooks
      BY AutosaveAssumption DEF IInv, DataInv, TypeOK, Hooks, Loads
    <2>4. pending[1] = {}
      BY <2>1, <2>2, <2>3 DEF Timed
    <2> QED BY <2>1, <2>2, <2>4 DEF Linked
  <1>2. IInv => EditsAreKept
    BY <1>1 DEF IInv, EditsAreKept
  <1> QED BY <1>2, Invariant, PTL

\* useAutosave.ts:72-74: an editor alone with its flow never meets a conflict of its own making.
THEOREM NoConflictOfItsOwn == Spec => []NoFalseConflict
  <1>1. IInv => NoFalseConflict
    BY DEF IInv, Alone, Chain, NoFalseConflict
  <1> QED BY <1>1, Invariant, PTL
===============================================================================
