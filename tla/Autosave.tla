------------------------------- MODULE Autosave -------------------------------
(* A browser tab that edits a flow: useAutosave.ts, the parts of flow-store.ts, *)
(* flow-service.ts and the dialogs that save, against the draft of the API.     *)
(* The page of the flow can be left and opened again; each time is a new        *)
(* instance of the hook, while the store, and the requests of earlier           *)
(* instances, live on.                                                          *)
EXTENDS FlowDraft, Naturals, FiniteSets

CONSTANTS
  FirstDraft,                         \* the draft when the tab is opened
  MaxMounts, MaxEdits, MaxIncidents   \* bounds

ASSUME AutosaveAssumption ==
  FirstDraft \in Definitions /\ {MaxMounts, MaxEdits, MaxIncidents} \subseteq Nat

VARIABLES
  calls,                       \* requests under way
  doc, status, ours,           \* the store: the document, saveStatus, and whether the document is this flow's
  page, hook,                  \* what the tab shows, and the instance of the hook that is mounted or was last
  pending, flush, timer,       \* per instance: the snapshot to save, whether at once, the debounce
  edits, incidents,            \* how often the bounded actions happened: edits; dialogs, errors, writes of others
  known,       \* history: the definitions that each visit has read or written,
  blind,       \* the visits whose writes replaced a draft they did not know,
  crossed,     \* the visits whose document took over an answer to another visit,
  overlapped   \* and the documents declared saved by the publication of another, or queued
               \* behind a save whose answer came after those of later ones

draftVars   == <<draft, versions>>
storeVars   == <<doc, status, ours>>
hookVars    == <<pending, flush, timer>>
boundVars   == <<edits, incidents>>
historyVars == <<known, blind, crossed, overlapped>>
vars == <<draftVars, calls, storeVars, page, hook, hookVars, boundVars, historyVars>>

Hooks  == 1..MaxMounts
Dialog == 0

\* A snapshot is a document at a point in time: [def, ref, etag, rev, load]. Definitions are objects
\* that the store compares by identity: ref. load is the load that the document descends from, which
\* only the history looks at. A request is [from, kind, snap, result, awaited].

\* mutant: a save does not wait for the one before it
NeverInFlight(cs, h) == FALSE

Send(c, kind, s) == [from |-> c, kind |-> kind, snap |-> s, result |-> "sent", awaited |-> TRUE]
Awaits(c, kind)  == {r \in calls : r.from = c /\ r.kind = kind /\ r.awaited}
InFlight(cs, h)  == \E r \in cs : r.from = h /\ r.kind = "put" /\ r.awaited
Answered(r)      == r.awaited /\ r.result = "ok"
Failed(r)        == r.awaited /\ r.result \in {"refused", "broken"}

(* --- the hook ------------------------------------------------------------- *)

\* What a step of a hook works on: queues and debounces, requests and the status shown.
Desk == [pending |-> pending, flush |-> flush, timer |-> timer, calls |-> calls, status |-> status]
SetDesk(k) ==
  /\ pending' = k.pending /\ flush' = k.flush /\ timer' = k.timer
  /\ calls' = k.calls /\ status' = k.status

ClearTimer(k, h) == [k EXCEPT !.timer[h] = FALSE]

SaveNext(k, h) ==
  IF InFlight(k.calls, h) \/ k.pending[h] = {} THEN k
  ELSE [k EXCEPT !.pending[h] = {}, !.flush[h] = FALSE,
                 !.calls = @ \cup {Send(h, "put", s) : s \in k.pending[h]},
                 !.status = IF ours THEN "saving" ELSE @]

Schedule(k, h, s, immediate) ==
  LET queued == [ClearTimer(k, h) EXCEPT !.pending[h] = {s}, !.flush[h] = @ \/ immediate]
  IN  CASE InFlight(k.calls, h) -> queued
        [] ~InFlight(k.calls, h) /\ immediate -> SaveNext(queued, h)
        [] OTHER -> [queued EXCEPT !.timer[h] = TRUE]

FlushPending(k, h) ==
  SaveNext([ClearTimer(k, h) EXCEPT !.flush[h] = @ \/ k.pending[h] # {}], h)

\* The end of a request: what was queued meanwhile goes next, at once if it is urgent or nobody
\* is there to wait for the debounce.
Finally(k, h, mounted) ==
  IF k.pending[h] = {} THEN k
  ELSE LET s == CHOOSE x \in k.pending[h] : TRUE
       IN  Schedule(k, h, s, k.flush[h] \/ ~mounted)

Mounted(h) == h = hook /\ page \in {"loading", "ready", "failed"}

\* mutant: the document is missing from the dependencies of the effect
EffectOfStatus(k, d, seen) ==
  IF page # "ready" \/ k.status = seen.status THEN k
  ELSE LET clean == IF seen.status = "dirty" THEN ClearTimer(k, hook) ELSE k
       IN  IF k.status = "dirty" THEN Schedule(clean, hook, d, FALSE) ELSE clean

\* The effect of the mounted hook, after a step that left document d where there was seen.doc:
\* the cleanup of the last time, then the effect. React runs it in the task that changed the
\* store, which is read with useSyncExternalStore, so no timer or answer comes in between.
Effect(k, d, seen) ==
  IF page # "ready" \/ (d = seen.doc /\ k.status = seen.status) THEN k
  ELSE LET clean == IF seen.status = "dirty" THEN ClearTimer(k, hook) ELSE k
       IN  IF k.status = "dirty" THEN Schedule(clean, hook, d, FALSE) ELSE clean

Seen == [doc |-> doc, status |-> status]
Change(k, d) == doc' = d /\ SetDesk(Effect(k, d, Seen))

(* --- the store ------------------------------------------------------------ *)

\* The page holds the flow and its user may edit it.
Ready == page = "ready"

\* mutant: the answer is taken for the document of the moment
CompleteAnyway(saved, rev, etag) ==
  [doc    |-> IF ours /\ rev >= doc.rev THEN [doc EXCEPT !.rev = rev, !.etag = etag] ELSE doc,
   status |-> IF ours THEN "saved" ELSE status]

\* A document of another load, or of another time of the same one, receives the answer.
CompleteAutosave(saved, rev, etag) ==
  [doc    |-> IF ours /\ rev >= doc.rev THEN [doc EXCEPT !.rev = rev, !.etag = etag] ELSE doc,
   status |-> IF ~ours THEN status ELSE IF doc.ref = saved.ref THEN "saved" ELSE "dirty"]

\* The loads whose document takes over the answer to a request of another load.
Crossing(r) == {l \in {doc.load} : ours /\ l # r.snap.load}

\* What waits behind a save takes its revision over, and the document one that is not older.
Overtaken(r) == {s \in pending[r.from] : ours /\ r.snap.rev + 1 < doc.rev}

Init ==
  /\ draft = FirstDraft /\ versions \in SUBSET Definitions
  /\ calls = {} /\ doc = [def |-> draft, ref |-> 0, etag |-> draft, rev |-> 0, load |-> 0]
  /\ status = "saved" /\ ours = FALSE /\ page = "closed" /\ hook = 0
  /\ pending = [h \in Hooks |-> {}] /\ flush = [h \in Hooks |-> FALSE] /\ timer = [h \in Hooks |-> FALSE]
  /\ edits = 0 /\ incidents = 0
  /\ known = [h \in Hooks |-> {}] /\ blind = {} /\ crossed = {} /\ overlapped = {}

\* EditorClient mounts and asks for the draft; nothing is saved until it has come.
Open ==
  /\ page = "closed" /\ hook < MaxMounts
  /\ page' = "loading" /\ hook' = hook + 1
  /\ calls' = calls \cup {Send(hook + 1, "load", doc)}
  /\ UNCHANGED <<draftVars, storeVars, hookVars, boundVars, historyVars>>

LoadDocument == \E r \in Awaits(hook, "load") :
  /\ page = "loading" /\ Answered(r)
  /\ calls' = calls \ {r}
  /\ doc' = [def |-> r.snap.def, ref |-> doc.ref + 1, etag |-> ETag(r.snap.def), rev |-> 1, load |-> hook]
  /\ status' = "saved" /\ ours' = TRUE /\ page' = "ready"
  /\ known' = [known EXCEPT ![hook] = {r.snap.def}]
  /\ UNCHANGED <<draftVars, hook, hookVars, boundVars, blind, crossed, overlapped>>

LoadFails == \E r \in Awaits(hook, "load") :
  /\ page = "loading" /\ Failed(r)
  /\ calls' = calls \ {r} /\ page' = "failed"
  /\ UNCHANGED <<draftVars, storeVars, hook, hookVars, boundVars, historyVars>>

\* Any command of the editor, undo and redo included: a new definition, which need not differ.
Edit(d) ==
  /\ Ready /\ edits < MaxEdits
  /\ Change([Desk EXCEPT !.status = "dirty"], [doc EXCEPT !.def = d, !.ref = @ + 1])
  /\ edits' = edits + 1
  /\ UNCHANGED <<draftVars, ours, page, hook, incidents, historyVars>>

TimerFires(h) ==
  /\ timer[h]
  /\ Change(SaveNext(ClearTimer(Desk, h), h), doc)
  /\ UNCHANGED <<draftVars, ours, page, hook, boundVars, historyVars>>

\* pagehide or beforeunload, after which the page may well stay.
FlushBeforePageExit ==
  /\ Ready
  /\ LET k == IF status = "dirty" THEN [Desk EXCEPT !.pending[hook] = {doc}] ELSE Desk
     IN  /\ k.pending[hook] # {}
         /\ Change(FlushPending(k, hook), doc)
  /\ UNCHANGED <<draftVars, ours, page, hook, boundVars, historyVars>>

\* The hook is unmounted.
Leave ==
  /\ page \in {"loading", "ready", "failed"}
  /\ page' = "closed"
  /\ IF Ready
       THEN LET k == IF status = "dirty" THEN Schedule(Desk, hook, doc, TRUE) ELSE Desk
            IN  SetDesk(FlushPending(k, hook))
       ELSE calls' = calls \ Awaits(hook, "load") /\ UNCHANGED <<hookVars, status>>
  /\ UNCHANGED <<draftVars, doc, ours, hook, boundVars, historyVars>>

\* The page of another flow takes the place of this one, and its document that in the store.
AnotherFlow ==
  /\ page = "closed" /\ ours
  /\ ours' = FALSE
  /\ UNCHANGED <<draftVars, calls, doc, status, page, hook, hookVars, boundVars, historyVars>>

SaveCompletes(h) == \E r \in Awaits(h, "put") :
  /\ Answered(r)
  /\ LET rev   == r.snap.rev + 1
         etag  == ETag(r.snap.def)
         next  == CompleteAutosave(r.snap, rev, etag)
         chained == [Desk EXCEPT !.status = next.status,
                                 !.pending[h] = {[s EXCEPT !.rev = rev, !.etag = etag] : s \in @}]
         shown == Effect(chained, next.doc, Seen)
         freed == Finally([shown EXCEPT !.calls = @ \ {r}], h, Mounted(h))
     IN  /\ doc' = next.doc
         /\ SetDesk(Effect(freed, next.doc, [doc |-> next.doc, status |-> shown.status]))
  /\ crossed' = crossed \cup Crossing(r)
  /\ overlapped' = overlapped \cup {s.ref : s \in Overtaken(r)}
  /\ UNCHANGED <<draftVars, ours, page, hook, boundVars, known, blind>>

\* mutant: an error is not shown
SaveFailsSilently(h) == \E r \in Awaits(h, "put") :
  /\ Failed(r)
  /\ Change([Desk EXCEPT !.calls = @ \ {r}, !.pending[h] = {}, !.flush[h] = FALSE], doc)
  /\ UNCHANGED <<draftVars, ours, page, hook, boundVars, historyVars>>

\* catch and finally. Nothing is retried, and what was queued for the flow is dropped.
SaveFails(h) == \E r \in Awaits(h, "put") :
  /\ Failed(r)
  /\ Change([Desk EXCEPT !.calls = @ \ {r}, !.pending[h] = {}, !.flush[h] = FALSE,
                         !.status = IF ~ours THEN @ ELSE IF r.result = "refused" THEN "conflict" ELSE "error"],
            doc)
  /\ UNCHANGED <<draftVars, ours, page, hook, boundVars, historyVars>>

(* --- the dialogs that save: one at a time --------------------------------- *)

Idle == \A r \in calls : r.awaited => r.from # Dialog

\* persistAndPublish, from PublishDialog or ShareDialog: a save of its own, then the publication.
PublishClick ==
  /\ Ready /\ incidents < MaxIncidents /\ Idle
  /\ Change([Desk EXCEPT !.calls = @ \cup {Send(Dialog, "put", doc)}, !.status = "saving"], doc)
  /\ incidents' = incidents + 1
  /\ UNCHANGED <<draftVars, ours, page, hook, edits, historyVars>>

PublishSaved == \E r \in Awaits(Dialog, "put") :
  /\ Answered(r)
  /\ calls' = (calls \ {r})
       \cup {Send(Dialog, "publish", [r.snap EXCEPT !.rev = @ + 1, !.etag = ETag(r.snap.def)])}
  /\ UNCHANGED <<draftVars, storeVars, page, hook, hookVars, boundVars, historyVars>>

\* The end of a dialog, which looks at the store of the moment, whichever document that holds.
DialogEnds(r, newStatus, d) ==
  /\ Change([Desk EXCEPT !.calls = @ \ {r}, !.status = IF ours THEN newStatus ELSE @],
            IF ours THEN d ELSE doc)
  /\ UNCHANGED <<draftVars, ours, page, hook, boundVars, known, blind>>

\* markSaved and markPublished: the document of the moment is declared saved.
Published == \E r \in Awaits(Dialog, "publish") :
  /\ Answered(r)
  /\ DialogEnds(r, "saved", [doc EXCEPT !.rev = r.snap.rev, !.etag = r.snap.etag])
  /\ crossed' = crossed \cup Crossing(r)
  /\ overlapped' = overlapped \cup {n \in {doc.ref} : ours /\ n # r.snap.ref}

\* The dialog tells a conflict by the words of the message, which only publishFlow uses.
PublishFails == \E r \in Awaits(Dialog, "put") \cup Awaits(Dialog, "publish") :
  /\ Failed(r)
  /\ DialogEnds(r, IF r.kind = "publish" /\ r.result = "refused" THEN "conflict" ELSE "error", doc)
  /\ UNCHANGED <<crossed, overlapped>>

RestoreClick(v) ==
  /\ Ready /\ incidents < MaxIncidents /\ Idle
  /\ status = "saved" /\ v \in versions
  /\ calls' = calls \cup {Send(Dialog, "restore", [doc EXCEPT !.def = v])}
  /\ incidents' = incidents + 1
  /\ UNCHANGED <<draftVars, storeVars, page, hook, hookVars, edits, historyVars>>

\* applyRestoredVersion
Restored == \E r \in Awaits(Dialog, "restore") :
  /\ Answered(r)
  /\ DialogEnds(r, "saved", [doc EXCEPT !.def = r.snap.def, !.ref = @ + 1,
                                        !.rev = r.snap.rev + 1, !.etag = ETag(r.snap.def)])
  /\ crossed' = crossed \cup Crossing(r)
  /\ UNCHANGED overlapped

RestoreFails == \E r \in Awaits(Dialog, "restore") :
  /\ Failed(r)
  /\ DialogEnds(r, IF r.result = "refused" THEN "conflict" ELSE status, doc)
  /\ UNCHANGED <<crossed, overlapped>>

(* --- the API and the network ---------------------------------------------- *)

\* A request that nobody awaits any more is served all the same.
Reply(r, result) ==
  calls' = (calls \ {r}) \cup {a \in {[r EXCEPT !.result = result]} : r.awaited}

Accept(r) ==
  /\ \/ r.kind = "put" /\ ReplaceFlowDraft(r.snap.def, r.snap.etag)
     \/ r.kind = "restore" /\ RestoreFlowDraft(r.snap.def, r.snap.etag)
     \/ r.kind = "publish" /\ PublishVersion(r.snap.etag)
  /\ Reply(r, "ok")
  /\ known' = [known EXCEPT ![r.snap.load] = @ \cup {r.snap.def}]
  /\ blind' = blind \cup {l \in {r.snap.load} : draft \notin known[l]}

Refuse(r) ==
  /\ r.kind # "load"
  /\ PreconditionFailed(r.snap.etag)
  /\ Reply(r, "refused")
  /\ UNCHANGED <<known, blind>>

GetFlowDraft(r) ==
  /\ r.kind = "load"
  /\ calls' = (calls \ {r}) \cup {[r EXCEPT !.result = "ok", !.snap.def = draft]}
  /\ UNCHANGED <<draftVars, known, blind>>

Serve == \E r \in calls :
  /\ r.result = "sent"
  /\ Accept(r) \/ Refuse(r) \/ GetFlowDraft(r)
  /\ UNCHANGED <<storeVars, page, hook, hookVars, boundVars, crossed, overlapped>>

\* The tab sees an error: the request was not sent, is served later, or its answer is lost.
Break == \E r \in calls :
  /\ r.awaited /\ r.result # "broken" /\ incidents < MaxIncidents
  /\ \E left \in SUBSET {[r EXCEPT !.awaited = FALSE]} :
       /\ left # {} => r.result = "sent" /\ r.kind # "load"
       /\ calls' = (calls \ {r}) \cup {[r EXCEPT !.result = "broken"]} \cup left
  /\ incidents' = incidents + 1
  /\ UNCHANGED <<draftVars, storeVars, page, hook, hookVars, edits, historyVars>>

SomebodyElse(d) ==
  /\ incidents < MaxIncidents
  /\ ReplacedElsewhere(d)
  /\ incidents' = incidents + 1
  /\ UNCHANGED <<calls, storeVars, page, hook, hookVars, edits, historyVars>>

Answer(h) == SaveCompletes(h) \/ SaveFails(h)
Dialogs == PublishSaved \/ Published \/ PublishFails \/ Restored \/ RestoreFails

Next ==
  \/ Open \/ LoadDocument \/ LoadFails \/ FlushBeforePageExit
  \/ Leave \/ AnotherFlow
  \/ \E d \in Definitions : Edit(d) \/ RestoreClick(d) \/ SomebodyElse(d)
  \/ \E h \in Hooks : TimerFires(h) \/ Answer(h)
  \/ PublishClick \/ Dialogs
  \/ Serve \/ Break

\* Timers fire, and a request is answered or fails.
Fairness ==
  /\ WF_vars(Dialogs) /\ WF_vars(Serve) /\ WF_vars(LoadDocument)
  /\ \A h \in Hooks : WF_vars(TimerFires(h)) /\ WF_vars(Answer(h))

Spec == Init /\ [][Next]_vars /\ Fairness

-------------------------------------------------------------------------------
\* An edit that is not on its way is queued, in its last form, and something is bound to send it:
\* the debounce, or the end of the request that keeps it waiting. The timer of useAutosave.ts is
\* cleared in five places, and each has to leave it so.
Queued(d) == \E s \in pending[hook] : s.ref = d.ref /\ s.def = d.def
WillBeSaved ==
  Ready /\ status = "dirty" => Queued(doc) /\ (timer[hook] \/ InFlight(calls, hook))

\* Saves are serialised and chained: an editor alone with its flow, in one visit to the page and
\* without a failure, never meets a conflict of its own making (useAutosave.ts:72-74).
NoFalseConflict == hook = 1 /\ incidents = 0 => status \notin {"conflict", "error"}

\* Once nothing is under way, the draft of the API is the document of the tab, also when the
\* page was left with a debounce or a request pending (useAutosave.ts:135-137).
Rest == ours /\ page \in {"ready", "closed"} /\ calls = {} /\ \A h \in Hooks : ~timer[h]
NothingLost == hook = 1 /\ incidents = 0 /\ Rest => draft = doc.def

\* No edit is stranded, neither while the page is open nor when it is left.
EditsAreKept == WillBeSaved /\ NothingLost

\* An editor that shows "saved" holds a definition that the API accepted, with its ETag
\* (flow-store.ts:485-487), unless the document was edited while a dialog published it, which
\* markSaved and markPublished then declare saved; was queued behind a save whose answer three
\* dialogs overtook, which gives it a revision that passes for an old one; or took over the answer
\* to a request of an earlier visit, whose revision it cannot compare with its own.
Saved == Ready /\ status = "saved"
SavedIsStoredUnlessRaced ==
  Saved => doc.etag = ETag(doc.def) \/ doc.ref \in overlapped \/ doc.load \in crossed

\* A write replaces a draft that the visit it comes from has neither read nor written only if it
\* took the answer to a request of an earlier visit: completeAutosave compares the flow and not
\* the visit, and gives a document that was loaded before the write an ETag from after it.
OnlyCrossedOverwrite == blind \subseteq crossed

\* What the editor shows as saved is stored and its writes replace only what it has seen, in
\* every order of requests, answers and visits but for the three races.
OnlyRacesHurt == SavedIsStoredUnlessRaced /\ OnlyCrossedOverwrite

\* An edit does not stay unsaved in silence: the editor ends up saved, or shows what went wrong.
EditsSettle ==
  (Ready /\ status \in {"dirty", "saving"}) ~> ~(Ready /\ status \in {"dirty", "saving"})
===============================================================================
