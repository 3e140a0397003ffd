------------------------------ MODULE AutosaveInv ------------------------------
(* The inductive invariant of Autosave, a conjunction of named parts.        *)
EXTENDS Autosave

Loads    == 0..MaxMounts
Statuses == {"saved", "dirty", "saving", "conflict", "error"}
Snapshot == [def : Definitions, ref : Nat, etag : Definitions, rev : Nat, load : Loads]
Request  == [from : Loads, kind : {"load", "put", "publish", "restore"}, snap : Snapshot,
             result : {"sent", "ok", "refused", "broken"}, awaited : BOOLEAN]

Puts(cs, h) == {r \in cs : r.from = h /\ r.kind = "put"}

\* A desk: at most one snapshot waits at each hook, and each hook awaits one save at most.
Desks == [pending : [Hooks -> SUBSET Snapshot], flush : [Hooks -> BOOLEAN],
          timer : [Hooks -> BOOLEAN], calls : SUBSET Request, status : Statuses]
Serial(k) ==
  /\ \A h \in Hooks : \A s, t \in k.pending[h] : s = t
  /\ \A h \in Hooks : \A q, r \in Puts(k.calls, h) : q.awaited /\ r.awaited => q = r

TypeOK ==
  /\ draft \in Definitions /\ versions \in SUBSET Definitions
  /\ Desk \in Desks /\ doc \in Snapshot /\ ours \in BOOLEAN
  /\ page \in {"closed", "loading", "ready", "failed"} /\ hook \in Loads
  /\ edits \in Nat /\ incidents \in Nat
  /\ known \in [Hooks -> SUBSET Definitions]
  /\ blind \in SUBSET Loads /\ crossed \in SUBSET Loads /\ overlapped \in SUBSET Nat

\* What the tab shows, and the visit that its document comes from.
PageInv ==
  /\ page # "closed" => hook \in Hooks
  /\ Ready => ours /\ doc.load = hook
  /\ doc.load <= hook /\ (page = "loading" => doc.load # hook)

\* What a document that is not its own is told by.
Fine == doc.etag = ETag(doc.def) \/ doc.ref \in overlapped \/ doc.load \in crossed
Knows(s) == s.load \in Hooks /\ (s.etag \in known[s.load] \/ s.load \in crossed)

\* A snapshot of the store: of a visit that has loaded, not newer than the document, and if of
\* the same time with its definition.
Taken(s) ==
  /\ Knows(s) /\ s.load <= hook /\ (page = "loading" => s.load # hook)
  /\ s.ref <= doc.ref
Copy(s)  == s.ref = doc.ref => s.def = doc.def /\ s.load = doc.load
Timely(s) == ours /\ s.ref = doc.ref => s.rev + 1 >= doc.rev \/ Fine

Waits(h, s) == s.load = h /\ Taken(s) /\ Copy(s) /\ Timely(s)
Sent(r) ==
  /\ Taken(r.snap) /\ (r.kind \in {"put", "publish"} => Copy(r.snap))
  /\ r.result = "ok" => r.awaited /\ r.snap.def \in known[r.snap.load]
  /\ r.from \in Hooks => r.kind = "put" /\ r.snap.load = r.from
  /\ r.from \in Hooks /\ r.awaited => Timely(r.snap)
  /\ r.kind = "publish" => r.snap.etag = ETag(r.snap.def)

\* What waits at a hook, and what it has sent, are snapshots of its visit.
SnapInv ==
  /\ doc.load \in Hooks => Knows(doc)
  /\ \A h \in Hooks : \A s \in pending[h] : Waits(h, s)
  /\ \A r \in calls : r.kind # "load" => Sent(r)

\* The first visit, without an incident: one chain of saves, each based on the one before.
Chain ==
  /\ \A r \in calls : r.from = 1 /\ r.awaited /\ r.result \in {"sent", "ok"}
  /\ \A r \in calls : IF page = "loading" THEN r.kind = "load" ELSE r.kind = "put"
  /\ \A r \in calls : r.kind = "load" /\ r.result = "ok" => r.snap.def = draft
  /\ page # "failed" /\ (Ready => ours) /\ status \in {"saved", "dirty", "saving"}
  /\ page = "loading" => pending[1] = {} /\ ~ours /\ \A q, r \in calls : q = r
  /\ \A r \in Puts(calls, 1) : draft = IF r.result = "sent" THEN r.snap.etag ELSE r.snap.def
  /\ Puts(calls, 1) = {} => \A s \in pending[1] : s.etag = draft /\ timer[1]
  /\ ours => /\ Puts(calls, 1) = {} => doc.etag = draft
             /\ \A s \in pending[1] : s.def = doc.def /\ s.rev = doc.rev
             /\ \A r \in Puts(calls, 1) : r.snap.rev = doc.rev
             /\ pending[1] = {} => IF Puts(calls, 1) = {} THEN draft = doc.def
                                   ELSE \A r \in Puts(calls, 1) : r.snap.def = doc.def
Alone == hook = 1 /\ incidents = 0 => Chain
\* Before the first visit there is nothing under way.
Before1 == hook = 0 => /\ calls = {} /\ ~ours /\ status = "saved" /\ page = "closed"
                       /\ \A h \in Hooks : pending[h] = {} /\ ~timer[h]

SavedInv == Saved => Fine

\* What is inductive by itself, and what needs it.
DataInv == TypeOK /\ Serial(Desk) /\ PageInv /\ SnapInv /\ SavedInv /\ OnlyCrossedOverwrite
IInv    == DataInv /\ WillBeSaved /\ Alone /\ Before1
===============================================================================
