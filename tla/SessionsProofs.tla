----------------------------- MODULE SessionsProofs -----------------------------
(***************************************************************************)
(* Proofs about the session of a user, for any tabs, requests and bounds:  *)
(* a family has one good refresh token unless one was used twice at a      *)
(* time, and no page is sent away without a reason.                        *)
(*                                                                         *)
(* Between the revocation of the old token and the save of the new one a   *)
(* family has no good token at all: what is unique is the right to issue   *)
(* the next one, which is a good token or a renewal that has read one      *)
(* (OneRight).                                                             *)
(***************************************************************************)
EXTENDS Sessions, TLAPS

Token == {"none", "good", "revoked", "expired"}
Pair  == [family : Nat, access : Token, refresh : Token]

Phases(kind) ==
  CASE kind = "renew"  -> {"asked", "found", "reused", "issue", "half", "saved", "good", "cleared", "missing"}
    [] kind = "login"  -> {"issue", "half", "good", "missing"}
    [] kind = "logout" -> {"asked", "half out", "cleared"}

IsTask(t, last) ==
  /\ t = [kind |-> t.kind, tab |-> t.tab, id |-> t.id, pair |-> t.pair, new |-> t.new,
          phase |-> t.phase, orphan |-> t.orphan]
  /\ t.kind \in {"renew", "login", "logout"} /\ t.phase \in Phases(t.kind) /\ t.tab \in Tabs
  /\ t.pair \in 0..last /\ t.new \in 0..last /\ t.orphan \in BOOLEAN

IsCall(c, last) ==
  /\ c = [phase |-> c.phase, again |-> c.again, pair |-> c.pair, waits |-> c.waits]
  /\ c.phase \in {"idle", "sent", "ok", "denied", "waits", "refused"} /\ c.again \in BOOLEAN /\ c.pair \in 0..last
  /\ c.phase # "waits" => c.waits = {}

TypeOK ==
  /\ pairs \in [1..MaxPairs -> Pair]
  /\ jar \in [access : 0..issued, refresh : 0..issued]
  /\ DOMAIN calls = Tabs /\ \A tab \in Tabs : DOMAIN calls[tab] = Calls
  /\ \A tab \in Tabs, call \in Calls : IsCall(calls[tab][call], issued)
  /\ \A t \in tasks : IsTask(t, issued)
  /\ page \in [Tabs -> {"app", "acceso"}]
  /\ issued \in 1..MaxPairs
  /\ why \subseteq {"fault", "logout", "expired", "crossed"}
  /\ clicks \in 0..MaxClicks /\ trouble \in 0..MaxTrouble

Renew(t)   == t.kind = "renew"
Issuing(t) == t.kind # "logout" /\ t.new # 0
Claims(t)  == Renew(t) /\ t.phase \in {"found", "issue", "half"}
FamilyOf(t) == pairs[t.pair].family

\* Pairs and families are numbered as they are issued.
NotIssued == \A p \in 1..MaxPairs : pairs[p].family <= issued /\ (p > issued => pairs[p].refresh = "none")

\* A pair that is being issued belongs to one task and was given to nobody: no cookie holds it and
\* nobody refreshes with it.
Undelivered ==
  \A t \in tasks : Issuing(t) =>
    /\ t.new > 1 /\ jar.refresh # t.new
    /\ \A u \in tasks : /\ Renew(u) => u.pair # t.new
                        /\ Issuing(u) /\ u.new = t.new => u = t

\* A pair that is half issued has no refresh token yet, and is of the family of the old one or of
\* one of its own.
HalfIssued ==
  \A t \in tasks : t.phase = "half" =>
    /\ t.new # 0 /\ pairs[t.new].refresh = "none"
    /\ Renew(t) => pairs[t.new].family = FamilyOf(t)
    /\ t.kind = "login" => \A p \in 1..MaxPairs : pairs[p].family = pairs[t.new].family => p = t.new

\* A page has one renewal it waits for, and a claim is on a token that was good once.
OneRenewal ==
  /\ \A t, u \in tasks : Renew(t) /\ Renew(u) /\ t.tab = u.tab /\ ~t.orphan /\ ~u.orphan => t = u
  /\ \A t \in tasks : Claims(t) => t.pair # 0 /\ pairs[t.pair].refresh # "none"

\* No token is used twice at a time, and a family has one right to issue the next: a good token or
\* the renewal that has read it.
OneRight ==
  "crossed" \notin why =>
    /\ \A t, u \in tasks : Renew(t) /\ Renew(u) /\ t.pair = u.pair /\ t.pair # 0 => t = u
    /\ \A t, u \in tasks : Claims(t) /\ Claims(u) /\ FamilyOf(t) = FamilyOf(u) => t = u
    /\ \A t \in tasks, p \in 1..MaxPairs :
         Claims(t) /\ pairs[p].refresh = "good" /\ pairs[p].family = FamilyOf(t) => t.phase = "found" /\ p = t.pair
    /\ OneLiveRefresh

\* A task that nothing went wrong for: a renewal that will be good, or a login.
GoodTask(t) ==
  /\ t.kind # "logout"
  /\ Renew(t) => t.pair # 0 /\ t.phase \in {"asked", "found", "issue", "half", "saved", "good"}
  /\ Renew(t) /\ t.phase \in {"asked", "found"} => pairs[t.pair].refresh = "good"
  /\ t.phase \in {"half", "saved"} => t.new # 0 /\ pairs[t.new].access = "good"
  /\ t.phase \in {"saved", "good"} => t.new # 0 /\ pairs[t.new].refresh = "good"
  /\ Renew(t) /\ t.orphan => t.pair # jar.refresh

\* The token that the next renewal will take is good, or a renewal is replacing it.
GoodCookies ==
  /\ jar.refresh # 0
  /\ \/ pairs[jar.refresh].refresh = "good"
     \/ \E t \in tasks : Renew(t) /\ t.pair = jar.refresh

\* Requests are sent again, and refused for good, with a new token only; a page is sent away when
\* its session check is.
GoodPages ==
  /\ \A tab \in Tabs, call \in Calls :
       calls[tab][call].again \/ calls[tab][call].phase = "refused" => calls[tab][call].pair > 1
  /\ \A tab \in Tabs : page[tab] = "acceso" => calls[tab][Me].phase = "refused"

\* While nothing has happened that ends a session, every renewal will be good.
GoodRenewals == why = {} => GoodCookies /\ GoodPages /\ \A t \in tasks : GoodTask(t)

IInv == TypeOK /\ NotIssued /\ Undelivered /\ HalfIssued /\ OneRenewal /\ OneRight /\ GoodRenewals

-------------------------------------------------------------------------------
(* Tasks.                                                                  *)

\* A step of a task that goes on at another line, as u.
Moves(t, u) ==
  /\ u.kind = t.kind /\ u.tab = t.tab /\ u.pair = t.pair /\ u.orphan = t.orphan
  /\ tasks' = With(t, u)

\* A task that goes on at another line is a task.
LEMMA PhaseOfTask ==
  ASSUME NEW t, NEW last, IsTask(t, last), NEW phase \in Phases(t.kind), NEW u, u = [t EXCEPT !.phase = phase]
  PROVE  /\ IsTask(u, last) /\ u.phase = phase /\ u.new = t.new
         /\ u.kind = t.kind /\ u.tab = t.tab /\ u.pair = t.pair /\ u.orphan = t.orphan
<1>1. u = [kind |-> t.kind, tab |-> t.tab, id |-> t.id, pair |-> t.pair, new |-> t.new,
           phase |-> phase, orphan |-> t.orphan]
  BY DEF IsTask
<1> QED
  BY <1>1 DEF IsTask

\* A task whose page was left is a task.
LEMMA OrphanOfTask ==
  ASSUME NEW t, NEW last, IsTask(t, last), NEW u, u = [t EXCEPT !.orphan = TRUE]
  PROVE  /\ IsTask(u, last) /\ u.orphan /\ u.phase = t.phase /\ u.new = t.new
         /\ u.kind = t.kind /\ u.tab = t.tab /\ u.pair = t.pair
<1>1. u = [kind |-> t.kind, tab |-> t.tab, id |-> t.id, pair |-> t.pair, new |-> t.new,
           phase |-> t.phase, orphan |-> TRUE]
  BY DEF IsTask
<1> QED
  BY <1>1 DEF IsTask

\* A call that is answered or waits is a call.
LEMMA PhaseOfCall ==
  ASSUME NEW c, NEW last, IsCall(c, last), NEW phase \in {"idle", "sent", "ok", "denied", "refused"},
         c.phase # "waits", NEW d, d = [c EXCEPT !.phase = phase]
  PROVE  IsCall(d, last) /\ d.phase = phase /\ d.again = c.again /\ d.pair = c.pair
<1>1. d = [phase |-> phase, again |-> c.again, pair |-> c.pair, waits |-> c.waits]
  BY DEF IsCall
<1> QED
  BY <1>1 DEF IsCall

\* Every task is one, and has a phase of its kind.
LEMMA TaskType ==
  ASSUME TypeOK, NEW t \in tasks
  PROVE  /\ IsTask(t, issued) /\ issued \in Nat /\ t.phase \in Phases(t.kind)
         /\ t.kind \in {"renew", "login", "logout"}
BY DEF TypeOK, IsTask


\* A task that goes on at another line of its program moves there.
LEMMA Onward ==
  ASSUME TypeOK, NEW t \in tasks, NEW phase \in Phases(t.kind), To(t, phase)
  PROVE  \E u : Moves(t, u) /\ IsTask(u, issued) /\ u.new = t.new /\ u.phase = phase
<1> DEFINE u == [t EXCEPT !.phase = phase]
<1>1. tasks' = With(t, u)
  BY DEF To
<1>2. u = [t EXCEPT !.phase = phase]
  OBVIOUS
<1> HIDE DEF u
<1>3. /\ IsTask(u, issued) /\ u.phase = phase /\ u.new = t.new
      /\ u.kind = t.kind /\ u.tab = t.tab /\ u.pair = t.pair /\ u.orphan = t.orphan
  BY <1>2, PhaseOfTask, TaskType
<1> QED
  BY <1>1, <1>3 DEF Moves

\* Refresh reads the session: a good token is found, and only a renewal without a token misses it.
LEMMA ReadMoves ==
  ASSUME TypeOK, NEW t \in tasks, Read(t)
  PROVE  \E u : /\ Moves(t, u) /\ IsTask(u, issued) /\ u.new = t.new
                /\ UNCHANGED <<pairs, jar, calls, page, issued, why>>
                /\ Renew(t) /\ t.phase = "asked" /\ u.phase \in {"found", "reused", "cleared", "missing"}
                /\ u.phase = "found" => t.pair # 0 /\ pairs[t.pair].refresh = "good"
                /\ t.pair # 0 /\ pairs[t.pair].refresh = "good" => u.phase = "found"
<1> DEFINE phase == IF t.pair = 0 THEN "missing"
                      ELSE CASE pairs[t.pair].refresh = "good"    -> "found"
                             [] pairs[t.pair].refresh = "revoked" -> "reused"
                             [] OTHER                             -> "cleared"
<1>1. phase \in Phases(t.kind)
  BY TaskType DEF Read, Phases
<1>2. /\ UNCHANGED <<pairs, jar, calls, page, issued, why>> /\ To(t, phase)
      /\ Renew(t) /\ t.phase = "asked" /\ phase \in {"found", "reused", "cleared", "missing"}
      /\ phase = "found" => t.pair # 0 /\ pairs[t.pair].refresh = "good"
      /\ t.pair # 0 /\ pairs[t.pair].refresh = "good" => phase = "found"
  BY TaskType DEF Read, Keep, Fault, Phases, Renew
<1> HIDE DEF phase
<1> QED
  BY <1>1, <1>2, Onward

\* A token used before revokes its family.
LEMMA RevokeFamilyMoves ==
  ASSUME TypeOK, NEW t \in tasks, RevokeFamily(t)
  PROVE  \E u : /\ Moves(t, u) /\ IsTask(u, issued) /\ u.new = t.new
                /\ UNCHANGED <<jar, calls, page, issued, why>>
                /\ Renew(t) /\ t.phase = "reused" /\ u.phase = "cleared"
<1> DEFINE phase == "cleared"
<1>1. phase \in Phases(t.kind)
  BY TaskType DEF RevokeFamily, Phases
<1>2. /\ UNCHANGED <<jar, calls, page, issued, why>> /\ To(t, phase)
      /\ Renew(t) /\ t.phase = "reused" /\ phase = "cleared"
  BY TaskType DEF RevokeFamily, Keep, Fault, Phases, Renew
<1> HIDE DEF phase
<1> QED
  BY <1>1, <1>2, Onward

\* The token that was found is revoked.
LEMMA RevokeOldMoves ==
  ASSUME TypeOK, NEW t \in tasks, RevokeOld(t)
  PROVE  \E u : /\ Moves(t, u) /\ IsTask(u, issued) /\ u.new = t.new
                /\ UNCHANGED <<jar, calls, page, issued, why>>
                /\ Renew(t) /\ t.phase = "found" /\ u.phase = "issue"
<1> DEFINE phase == "issue"
<1>1. phase \in Phases(t.kind)
  BY TaskType DEF RevokeOld, Phases
<1>2. /\ UNCHANGED <<jar, calls, page, issued, why>> /\ To(t, phase)
      /\ Renew(t) /\ t.phase = "found" /\ phase = "issue"
  BY TaskType DEF RevokeOld, Keep, Fault, Phases, Renew
<1> HIDE DEF phase
<1> QED
  BY <1>1, <1>2, Onward

\* The refresh token is saved.
LEMMA SaveRefreshMoves ==
  ASSUME TypeOK, NEW t \in tasks, SaveRefresh(t)
  PROVE  \E u : /\ Moves(t, u) /\ IsTask(u, issued) /\ u.new = t.new
                /\ UNCHANGED <<jar, calls, page, issued, why>>
                /\ t.kind # "logout" /\ t.phase = "half" /\ u.phase = (IF Renew(t) THEN "saved" ELSE "good")
<1> DEFINE phase == IF t.kind = "renew" THEN "saved" ELSE "good"
<1>1. phase \in Phases(t.kind)
  BY TaskType DEF SaveRefresh, Phases
<1>2. /\ UNCHANGED <<jar, calls, page, issued, why>> /\ To(t, phase)
      /\ t.kind # "logout" /\ t.phase = "half" /\ phase = (IF Renew(t) THEN "saved" ELSE "good")
  BY TaskType DEF SaveRefresh, Keep, Fault, Phases, Renew
<1> HIDE DEF phase
<1> QED
  BY <1>1, <1>2, Onward

\* The new access token is looked at.
LEMMA CheckMoves ==
  ASSUME TypeOK, NEW t \in tasks, Check(t)
  PROVE  \E u : /\ Moves(t, u) /\ IsTask(u, issued) /\ u.new = t.new
                /\ UNCHANGED <<pairs, jar, calls, page, issued, why>>
                /\ Renew(t) /\ t.phase = "saved" /\ u.phase \in {"good", "cleared"}
                /\ pairs[t.new].access = "good" => u.phase = "good"
<1> DEFINE phase == IF pairs[t.new].access = "good" THEN "good" ELSE "cleared"
<1>1. phase \in Phases(t.kind)
  BY TaskType DEF Check, Phases
<1>2. /\ UNCHANGED <<pairs, jar, calls, page, issued, why>> /\ To(t, phase)
      /\ Renew(t) /\ t.phase = "saved" /\ phase \in {"good", "cleared"}
      /\ pairs[t.new].access = "good" => phase = "good"
  BY TaskType DEF Check, Keep, Fault, Phases, Renew
<1> HIDE DEF phase
<1> QED
  BY <1>1, <1>2, Onward

\* A logout goes on.
LEMMA RevokeSessionMoves ==
  ASSUME TypeOK, NEW t \in tasks, RevokeSession(t)
  PROVE  \E u : /\ Moves(t, u) /\ IsTask(u, issued) /\ u.new = t.new
                /\ UNCHANGED <<jar, calls, page, issued, why>>
                /\ t.kind = "logout" /\ u.phase \in {"half out", "cleared"}
<1> DEFINE phase == IF t.phase = "asked" THEN "half out" ELSE "cleared"
<1>1. phase \in Phases(t.kind)
  BY TaskType DEF RevokeSession, Phases
<1>2. /\ UNCHANGED <<jar, calls, page, issued, why>> /\ To(t, phase)
      /\ t.kind = "logout" /\ phase \in {"half out", "cleared"}
  BY TaskType DEF RevokeSession, Keep, Fault, Phases, Renew
<1> HIDE DEF phase
<1> QED
  BY <1>1, <1>2, Onward

\* A call of the store fails: the task gives up.
LEMMA StoreFailsMoves ==
  ASSUME TypeOK, NEW t \in tasks, StoreFails(t)
  PROVE  \E u : /\ Moves(t, u) /\ IsTask(u, issued) /\ u.new = t.new
                /\ UNCHANGED <<pairs, jar, calls, page, issued>>
                /\ why' = why \cup {"fault"} /\ u.phase \in {"cleared", "missing", "half out"}
<1> DEFINE phase == CASE t.kind = "renew" -> "cleared"
                       [] t.kind = "login" -> "missing"
                       [] OTHER            -> IF t.phase = "asked" THEN "half out" ELSE "cleared"
<1>1. phase \in Phases(t.kind)
  BY TaskType DEF StoreFails, Phases
<1>2. /\ UNCHANGED <<pairs, jar, calls, page, issued>> /\ To(t, phase)
      /\ why' = why \cup {"fault"} /\ phase \in {"cleared", "missing", "half out"}
  BY TaskType DEF StoreFails, Keep, Fault, Phases, Renew
<1> HIDE DEF phase
<1>3. \E u : Moves(t, u) /\ IsTask(u, issued) /\ u.new = t.new /\ u.phase = phase
  BY <1>1, <1>2, Onward
<1> QED
  BY <1>2, <1>3

\* The access token of a new pair is saved.
LEMMA SaveAccessMoves ==
  ASSUME TypeOK, NEW t \in tasks, SaveAccess(t)
  PROVE  \E u : /\ Moves(t, u) /\ IsTask(u, issued') /\ u.new = issued + 1 /\ issued' = issued + 1
                /\ UNCHANGED <<jar, calls, page, why>> /\ issued' \in 1..MaxPairs
                /\ t.kind # "logout" /\ t.phase = "issue" /\ u.phase = "half"
<1>0. /\ IsTask(t, issued) /\ issued \in Nat /\ t.phase \in Phases(t.kind)
      /\ t.kind \in {"renew", "login", "logout"}
  BY TaskType
<1> DEFINE u == [t EXCEPT !.phase = "half", !.new = issued + 1]
<1>1. tasks' = With(t, u) /\ issued' = issued + 1 /\ issued < MaxPairs /\ t.phase = "issue" /\ UNCHANGED <<jar, calls, page, why>>
  BY DEF SaveAccess, Keep
<1>2. t.kind # "logout" /\ t.kind \in {"renew", "login"} /\ issued' \in 1..MaxPairs /\ issued \in Nat
  <2>1. issued \in 1..MaxPairs /\ MaxPairs \in Nat
    BY SessionsAssumption DEF TypeOK
  <2> QED
    BY <1>0, <1>1, <2>1 DEF Phases
<1>3. u = [t EXCEPT !.phase = "half", !.new = issued + 1]
  OBVIOUS
<1> HIDE DEF u
<1>4. u = [kind |-> t.kind, tab |-> t.tab, id |-> t.id, pair |-> t.pair, new |-> issued + 1,
           phase |-> "half", orphan |-> t.orphan]
  <2>1. t = [kind |-> t.kind, tab |-> t.tab, id |-> t.id, pair |-> t.pair, new |-> t.new,
             phase |-> t.phase, orphan |-> t.orphan]
    BY <1>0 DEF IsTask
  <2> QED
    BY <1>3, <2>1
<1>5. /\ u.phase = "half" /\ u.new = issued + 1
      /\ u.kind = t.kind /\ u.tab = t.tab /\ u.pair = t.pair /\ u.orphan = t.orphan
  BY <1>4
<1>6. IsTask(u, issued')
  <2>1. t.tab \in Tabs /\ t.pair \in 0..issued' /\ t.orphan \in BOOLEAN
    BY <1>1, <1>2, <1>0 DEF IsTask
  <2> QED
    BY <1>1, <1>2, <1>4, <1>5, <2>1 DEF IsTask, Phases
<1> QED
  BY <1>1, <1>2, <1>5, <1>6 DEF Moves

-------------------------------------------------------------------------------
(* What a step does to the tokens and to the tasks.                        *)

\* No token becomes good, and no pair that is being issued is touched.
Weakened ==
  /\ pairs' \in [1..MaxPairs -> Pair]
  /\ \A p \in 1..MaxPairs :
       /\ pairs'[p].family = pairs[p].family
       /\ pairs'[p].refresh = "good" => pairs[p].refresh = "good"
       /\ pairs'[p].refresh = "none" => pairs[p].refresh = "none"
       /\ \/ pairs[p].refresh = "none" => pairs'[p].refresh = "none"
          \/ p <= issued /\ \A t \in tasks : t.new # p

\* A task v of the next state was u, and claims nothing that u did not, but what it reads good.
Descends(v, u) ==
  /\ IsTask(v, issued) /\ v.kind = u.kind /\ v.tab = u.tab /\ v.pair = u.pair /\ v.new = u.new
  /\ u.orphan => v.orphan
  /\ v.phase = "half" => u.phase = "half"
  /\ Claims(v) => \/ Claims(u) /\ (v.phase = u.phase \/ pairs'[u.pair].refresh # "good")
                  \/ v.phase = "found" /\ u.pair # 0 /\ pairs[u.pair].refresh = "good"

\* Every task of the next state was a task of left, and different ones were different.
Inherits(left) ==
  \A v, w \in tasks' : \E u, x \in left : Descends(v, u) /\ Descends(w, x) /\ (u = x => v = w)

\* Tasks go on or end, and the cookies stay, are cleared, or become those of a task that ends.
Passes ==
  \E left \in SUBSET tasks :
    /\ Inherits(left)
    /\ jar'.refresh \in {jar.refresh, 0} \/ \E t \in tasks \ left : Issuing(t) /\ jar'.refresh = t.new

\* A step that issues nothing.
Settles == Weakened /\ Passes /\ issued' = issued /\ why \subseteq why'

\* A step that starts the task n.
Arrives(n) ==
  /\ tasks' = tasks \cup {n} /\ UNCHANGED <<pairs, jar, issued>> /\ why \subseteq why'
  /\ IsTask(n, issued) /\ ~Claims(n) /\ ~Issuing(n) /\ n.phase # "half"
  /\ Renew(n) => /\ n.pair = jar.refresh /\ ~n.orphan /\ n.phase = "asked"
                 /\ \A u \in tasks : Renew(u) /\ u.tab = n.tab => u.orphan
                 /\ Crossed(tasks') => "crossed" \in why'

\* Steps that revoke, or leave every token as it is, weaken.
LEMMA StepsWeaken ==
  ASSUME TypeOK
  PROVE  /\ UNCHANGED pairs => Weakened
         /\ \A t \in tasks : RevokeFamily(t) \/ RevokeOld(t) \/ RevokeSession(t) => Weakened
         /\ \A p \in 1..issued, token \in {"access", "refresh"} : Expire(p, token) => Weakened
<1> USE DEF Token, Pair
<1>0. pairs \in [1..MaxPairs -> Pair]
  BY DEF TypeOK
<1>1. UNCHANGED pairs => Weakened
  BY <1>0 DEF Weakened
<1>2. ASSUME NEW t \in tasks, RevokeFamily(t) PROVE Weakened
  <2>1. pairs' = [p \in 1..MaxPairs |->
                    IF pairs[p].family = pairs[t.pair].family
                    THEN [pairs[p] EXCEPT !.access = Revoked(@), !.refresh = Revoked(@)] ELSE pairs[p]]
    BY <1>0, <1>2 DEF RevokeFamily
  <2>2. ASSUME NEW p \in 1..MaxPairs
        PROVE  /\ pairs'[p] \in Pair /\ pairs'[p].family = pairs[p].family
               /\ pairs'[p].refresh \in {pairs[p].refresh, Revoked(pairs[p].refresh)}
    <3>1. pairs[p] \in Pair
      BY <1>0
    <3> QED
      BY <2>1, <3>1 DEF Revoked
  <2>3. pairs' \in [1..MaxPairs -> Pair]
    BY <2>1, <2>2
  <2> QED
    BY <2>2, <2>3 DEF Weakened, Revoked
<1>3. ASSUME NEW t \in tasks, RevokeOld(t) PROVE Weakened
  BY <1>0, <1>3 DEF RevokeOld, Weakened, Revoked
<1>4. ASSUME NEW t \in tasks, RevokeSession(t) PROVE Weakened
  <2>1. CASE t.phase = "asked" /\ t.new # 0
    BY <1>0, <1>4, <2>1, ZenonT(30) DEF RevokeSession, Weakened, Revoked
  <2>2. CASE t.phase = "half out" /\ t.pair # 0
    BY <1>0, <1>4, <2>2, ZenonT(30) DEF RevokeSession, Weakened, Revoked
  <2>3. CASE ~(t.phase = "asked" /\ t.new # 0) /\ ~(t.phase = "half out" /\ t.pair # 0)
    BY <1>0, <1>1, <1>4, <2>3 DEF RevokeSession
  <2> QED
    BY <2>1, <2>2, <2>3
<1>5. ASSUME NEW p \in 1..issued, NEW token \in {"access", "refresh"}, Expire(p, token) PROVE Weakened
  <2>1. /\ pairs' = [pairs EXCEPT ![p].access = "expired", ![p].refresh = IF token = "refresh" THEN "expired" ELSE @]
        /\ \A t \in tasks : t.new # p
        /\ p \in 1..MaxPairs /\ p <= issued
    BY <1>5, SessionsAssumption DEF Expire, TypeOK
  <2>2. pairs[p] \in Pair
    BY <1>0, <2>1
  <2> QED
    BY <1>0, <2>1, <2>2 DEF Weakened
<1> QED
  BY <1>1, <1>2, <1>3, <1>4, <1>5

\* A task that goes on and claims nothing leaves every other what it was.
LEMMA MovesInherit ==
  ASSUME TypeOK, NEW t \in tasks, NEW u, Moves(t, u), Descends(u, t)
  PROVE  Inherits(tasks)
<1>1. \A v \in tasks : Descends(v, v)
  BY DEF TypeOK, Descends
<1>2. ASSUME NEW v \in tasks', NEW w \in tasks'
      PROVE  \E a, b \in tasks : Descends(v, a) /\ Descends(w, b) /\ (a = b => v = w)
  <2>1. (v = u \/ v \in tasks \ {t}) /\ (w = u \/ w \in tasks \ {t})
    BY DEF Moves, With
  <2>2. CASE v = u /\ w = u
    BY <2>2
  <2>3. CASE v = u /\ w \in tasks \ {t}
    BY <1>1, <2>3
  <2>4. CASE v \in tasks \ {t} /\ w = u
    BY <1>1, <2>4
  <2>5. CASE v \in tasks \ {t} /\ w \in tasks \ {t}
    BY <1>1, <2>5
  <2> QED
    BY <2>1, <2>2, <2>3, <2>4, <2>5
<1> QED
  BY <1>2 DEF Inherits

\* The tasks after a step that ends all but those of left and makes orphans of those of lost.
Heirs(left, lost) == \A v \in tasks' : \E u \in left : v = IF u \in lost THEN [u EXCEPT !.orphan = TRUE] ELSE u

\* A task that loses its page stays what it is.
LEMMA HeirsInherit ==
  ASSUME TypeOK, NEW left \in SUBSET tasks, NEW lost, Heirs(left, lost)
  PROVE  Inherits(left)
<1>1. ASSUME NEW v, NEW u \in left, v = IF u \in lost THEN [u EXCEPT !.orphan = TRUE] ELSE u
      PROVE  Descends(v, u)
  <2>0. IsTask(u, issued)
    BY DEF TypeOK
  <2>1. CASE u \in lost
    <3>1. /\ IsTask(v, issued) /\ v.orphan /\ v.phase = u.phase /\ v.new = u.new
          /\ v.kind = u.kind /\ v.tab = u.tab /\ v.pair = u.pair
      BY <1>1, <2>0, <2>1, OrphanOfTask
    <3> QED
      BY <3>1 DEF Descends, Claims, Renew
  <2>2. CASE u \notin lost
    BY <1>1, <2>0, <2>2 DEF Descends
  <2> QED
    BY <2>1, <2>2
<1>2. ASSUME NEW v \in tasks', NEW w \in tasks'
      PROVE  \E u, x \in left : Descends(v, u) /\ Descends(w, x) /\ (u = x => v = w)
  <2>1. PICK u \in left : v = IF u \in lost THEN [u EXCEPT !.orphan = TRUE] ELSE u
    BY DEF Heirs
  <2>2. PICK x \in left : w = IF x \in lost THEN [x EXCEPT !.orphan = TRUE] ELSE x
    BY DEF Heirs
  <2>3. Descends(v, u) /\ Descends(w, x)
    BY <1>1, <2>1, <2>2
  <2>4. u = x => v = w
    BY <2>1, <2>2
  <2> QED
    BY <2>3, <2>4
<1> QED
  BY <1>2 DEF Inherits

\* Tasks that stay, or of which some end, are their own heirs.
LEMMA StayInherit ==
  ASSUME TypeOK, NEW left \in SUBSET tasks, tasks' = left
  PROVE  Inherits(left)
<1>1. Heirs(left, {})
  BY DEF Heirs
<1> QED
  BY <1>1, HeirsInherit

\* Leaving a page makes orphans of its tasks.
LEMMA LeaveInherit ==
  ASSUME TypeOK, NEW tab, NEW to, NEW left \in SUBSET tasks, Leave(tab, to, left)
  PROVE  Inherits(left)
<1>1. Heirs(left, {u \in left : u.tab = tab})
  BY DEF Leave, Heirs
<1> QED
  BY <1>1, HeirsInherit

\* A renewal that is not good ends, and its page may be left.
LEMMA GiveUpInherit ==
  ASSUME TypeOK, NEW t, NEW left \in SUBSET tasks, GiveUp(t, left)
  PROVE  Inherits(left)
<1>1. CASE Leave(t.tab, "acceso", left)
  BY <1>1, LeaveInherit
<1>2. CASE tasks' = left
  BY <1>2, StayInherit
<1> QED
  BY <1>1, <1>2 DEF GiveUp

\* A connection that breaks makes an orphan of its task, and of the others if the page is left.
LEMMA LostInherit ==
  ASSUME TypeOK, NEW t \in tasks, NEW orphan, orphan = [t EXCEPT !.orphan = TRUE],
         tasks' = With(t, orphan) \/ GiveUp(t, With(t, orphan))
  PROVE  Inherits(tasks)
<1>0. orphan.tab = t.tab /\ [orphan EXCEPT !.orphan = TRUE] = orphan
  <2>1. t = [kind |-> t.kind, tab |-> t.tab, id |-> t.id, pair |-> t.pair, new |-> t.new,
             phase |-> t.phase, orphan |-> t.orphan]
    BY TaskType DEF IsTask
  <2>2. orphan = [kind |-> t.kind, tab |-> t.tab, id |-> t.id, pair |-> t.pair, new |-> t.new,
                  phase |-> t.phase, orphan |-> TRUE]
    BY <2>1
  <2> QED
    BY <2>2
<1>1. CASE tasks' = With(t, orphan)
  <2>1. Heirs(tasks, {t})
    BY <1>1 DEF Heirs, With
  <2> QED
    BY <2>1, HeirsInherit
<1>2. CASE Leave(t.tab, "acceso", With(t, orphan))
  <2> DEFINE lost == {u \in tasks : u.tab = t.tab}
  <2>1. tasks' = {IF u.tab = t.tab THEN [u EXCEPT !.orphan = TRUE] ELSE u : u \in With(t, orphan)}
    BY <1>2 DEF Leave
  <2>2. ASSUME NEW v \in tasks' PROVE \E u \in tasks : v = IF u \in lost THEN [u EXCEPT !.orphan = TRUE] ELSE u
    <3>1. PICK w \in With(t, orphan) : v = IF w.tab = t.tab THEN [w EXCEPT !.orphan = TRUE] ELSE w
      BY <2>1
    <3>2. CASE w = orphan
      <4>1. v = [t EXCEPT !.orphan = TRUE] /\ t \in lost
        BY <1>0, <3>1, <3>2
      <4> QED
        BY <4>1
    <3>3. CASE w \in tasks
      BY <3>1, <3>3
    <3> QED
      BY <3>2, <3>3 DEF With
  <2>3. Heirs(tasks, lost)
    BY <2>2 DEF Heirs
  <2> QED
    BY <2>3, HeirsInherit
<1> QED
  BY <1>1, <1>2 DEF GiveUp

\* What a page hears or loses settles.
LEMMA PageSettles ==
  ASSUME TypeOK, NEW t \in tasks, Heard(t) \/ RenewalLost(t) \/ EntryLost(t)
  PROVE  Settles
<1>0. UNCHANGED <<pairs, issued>> /\ why \subseteq why' /\ Weakened
  <2>1. UNCHANGED <<pairs, issued>> /\ why \subseteq why'
    BY DEF Heard, RenewalAnswered, LoginAnswered, LogoutAnswered, Unheard, RenewalLost, EntryLost, Keep, Fault
  <2> QED
    BY <2>1, StepsWeaken
<1>1. SUFFICES \E left \in SUBSET tasks :
                 /\ Inherits(left)
                 /\ jar'.refresh \in {jar.refresh, 0} \/ \E u \in tasks \ left : Issuing(u) /\ jar'.refresh = u.new
  BY <1>0 DEF Settles, Passes
<1>2. CASE RenewalAnswered(t)
  <2>1. Inherits(tasks \ {t})
    BY <1>2, StayInherit, GiveUpInherit DEF RenewalAnswered
  <2>2. jar'.refresh \in {jar.refresh, 0, t.new}
    BY <1>2 DEF RenewalAnswered, NoCookies, Answer
  <2>3. t.kind # "logout"
    BY <1>2 DEF RenewalAnswered
  <2> QED
    BY <2>1, <2>2, <2>3 DEF Issuing
<1>3. CASE LoginAnswered(t)
  <2>1. Inherits(tasks \ {t})
    BY <1>3, StayInherit, LeaveInherit DEF LoginAnswered
  <2>2. jar'.refresh \in {jar.refresh, 0, t.new}
    BY <1>3 DEF LoginAnswered
  <2>3. t.kind # "logout"
    BY <1>3 DEF LoginAnswered
  <2> QED
    BY <2>1, <2>2, <2>3 DEF Issuing
<1>4. CASE LogoutAnswered(t) \/ Unheard(t)
  <2>1. tasks' = tasks \ {t} /\ jar'.refresh \in {jar.refresh, 0}
    BY <1>4 DEF LogoutAnswered, Unheard, NoCookies
  <2> QED
    BY <2>1, StayInherit
<1>5. CASE RenewalLost(t) \/ EntryLost(t)
  <2>1. jar' = jar /\ (tasks' = With(t, [t EXCEPT !.orphan = TRUE]) \/ GiveUp(t, With(t, [t EXCEPT !.orphan = TRUE])))
    BY <1>5 DEF RenewalLost, EntryLost
  <2> QED
    BY <2>1, LostInherit
<1> QED
  BY <1>2, <1>3, <1>4, <1>5 DEF Heard

\* So does a task that reads, revokes, fails, or looks at its new token.
LEMMA ServerSettles ==
  ASSUME TypeOK, OneRenewal, NEW t \in tasks,
         Read(t) \/ RevokeFamily(t) \/ RevokeOld(t) \/ Check(t) \/ RevokeSession(t) \/ StoreFails(t)
  PROVE  Settles
<1>1. ASSUME NEW u, Moves(t, u), IsTask(u, issued), u.new = t.new, Weakened, UNCHANGED <<jar, issued>>, why \subseteq why',
             u.phase # "half",
             Claims(u) => \/ Claims(t) /\ pairs'[t.pair].refresh # "good"
                          \/ u.phase = "found" /\ t.pair # 0 /\ pairs[t.pair].refresh = "good"
      PROVE  Settles
  <2>1. Descends(u, t)
    BY <1>1 DEF Descends, Moves
  <2>2. Inherits(tasks)
    BY <1>1, <2>1, MovesInherit
  <2> QED
    BY <1>1, <2>2 DEF Settles, Passes
<1>2. CASE RevokeOld(t)
  <2>1. PICK u : /\ Moves(t, u) /\ IsTask(u, issued) /\ u.new = t.new
                 /\ UNCHANGED <<jar, calls, page, issued, why>>
                 /\ Renew(t) /\ t.phase = "found" /\ u.phase = "issue"
    BY <1>2, RevokeOldMoves
  <2>2. Weakened
    BY <1>2, StepsWeaken
  <2>3. pairs'[t.pair].refresh # "good"
    <3>1. pairs' = [pairs EXCEPT ![t.pair].refresh = Revoked(@)]
      BY <1>2 DEF RevokeOld
    <3>2. t.pair \in 1..MaxPairs
      <4>1. t.pair # 0 /\ t.pair \in 0..issued /\ issued \in 1..MaxPairs
        BY <2>1, TaskType DEF OneRenewal, Claims, IsTask, TypeOK
      <4> QED
        BY <4>1, SessionsAssumption
    <3>3. pairs \in [1..MaxPairs -> Pair]
      BY DEF TypeOK
    <3> QED
      BY <3>1, <3>2, <3>3 DEF Revoked, Pair
  <2> QED
    BY <1>1, <2>1, <2>2, <2>3 DEF Claims, Renew
<1>3. CASE RevokeFamily(t)
  <2>1. Weakened
    BY <1>3, StepsWeaken
  <2> QED
    BY <1>1, <1>3, <2>1, RevokeFamilyMoves DEF Claims
<1>4. CASE RevokeSession(t)
  <2>1. Weakened
    BY <1>4, StepsWeaken
  <2> QED
    BY <1>1, <1>4, <2>1, RevokeSessionMoves DEF Claims
<1>5. CASE Check(t)
  <2>1. PICK u : /\ Moves(t, u) /\ IsTask(u, issued) /\ u.new = t.new
                 /\ UNCHANGED <<pairs, jar, issued, why>> /\ u.phase \in {"good", "cleared"}
    BY <1>5, CheckMoves
  <2> QED
    BY <1>1, <2>1, StepsWeaken DEF Claims
<1>6. CASE StoreFails(t)
  <2>1. PICK u : /\ Moves(t, u) /\ IsTask(u, issued) /\ u.new = t.new
                 /\ UNCHANGED <<pairs, jar, issued>> /\ why' = why \cup {"fault"}
                 /\ u.phase \in {"cleared", "missing", "half out"}
    BY <1>6, StoreFailsMoves
  <2> QED
    BY <1>1, <2>1, StepsWeaken DEF Claims
<1>7. CASE Read(t)
  <2>1. PICK u : /\ Moves(t, u) /\ IsTask(u, issued) /\ u.new = t.new
                 /\ UNCHANGED <<pairs, jar, calls, page, issued, why>>
                 /\ u.phase \in {"found", "reused", "cleared", "missing"}
                 /\ u.phase = "found" => t.pair # 0 /\ pairs[t.pair].refresh = "good"
    BY <1>7, ReadMoves
  <2> QED
    BY <1>1, <2>1, StepsWeaken DEF Claims
<1> QED
  BY <1>2, <1>3, <1>4, <1>5, <1>6, <1>7

\* So does a step that touches no task.
LEMMA StillSettles ==
  ASSUME TypeOK, UNCHANGED <<tasks, issued>>, why \subseteq why', jar'.refresh \in {jar.refresh, 0}, Weakened
  PROVE  Settles
BY StayInherit DEF Settles, Passes

\* The answer to a request may start a renewal.
LEMMA AnsweredStarts ==
  ASSUME TypeOK, NEW tab \in Tabs, NEW call \in Calls, Answered(tab, call), tasks' # tasks
  PROVE  \E n : Arrives(n) /\ n.kind = "renew"
<1>0. UNCHANGED <<pairs, jar, issued>> /\ why \subseteq why'
  BY DEF Answered
<1> DEFINE n == Renewal(tab)
<1>1. /\ tasks' = tasks \cup Shared(tab)
      /\ why' = IF Crossed(tasks \cup Shared(tab)) THEN why \cup {"crossed"} ELSE why
  BY DEF Answered
<1>2. Renewing(tab) = {} /\ tasks' = tasks \cup {n}
  BY <1>1 DEF Shared, Renewing
<1>3. n.kind = "renew" /\ n.tab = tab /\ n.pair = jar.refresh /\ n.new = 0 /\ n.phase = "asked" /\ n.orphan = FALSE
  BY DEF Renewal
<1>4. IsTask(n, issued)
  <2>1. n = [kind |-> n.kind, tab |-> n.tab, id |-> n.id, pair |-> n.pair, new |-> n.new,
             phase |-> n.phase, orphan |-> n.orphan]
    BY DEF Renewal
  <2>2. jar.refresh \in 0..issued /\ 0 \in 0..issued
    BY SessionsAssumption DEF TypeOK
  <2> HIDE DEF n
  <2> QED
    BY <1>3, <2>1, <2>2 DEF IsTask, Phases
<1> HIDE DEF n
<1>5. ~Claims(n) /\ ~Issuing(n) /\ n.phase # "half"
  BY <1>3 DEF Claims, Issuing
<1>6. \A u \in tasks : Renew(u) /\ u.tab = n.tab => u.orphan
  BY <1>2, <1>3 DEF Renewing, Renew
<1>7. Crossed(tasks') => "crossed" \in why'
  BY <1>1
<1>8. Arrives(n)
  BY <1>0, <1>2, <1>3, <1>4, <1>5, <1>6, <1>7 DEF Arrives
<1> QED
  BY <1>3, <1>8

\* The answer to a request settles, or starts a renewal.
LEMMA AnsweredStep ==
  ASSUME TypeOK, NEW tab \in Tabs, NEW call \in Calls, Answered(tab, call)
  PROVE  Settles \/ \E n : Arrives(n)
<1>1. CASE tasks' = tasks
  <2>1. UNCHANGED <<pairs, jar, issued>> /\ why \subseteq why'
    BY DEF Answered
  <2> QED
    BY <1>1, <2>1, StepsWeaken, StillSettles
<1> QED
  BY <1>1, AnsweredStarts

\* A login or a logout starts.
LEMMA EnterArrives ==
  ASSUME TypeOK, NEW tab \in Tabs, NEW kind \in {"login", "logout"}, Enter(tab, kind)
  PROVE  \E n : Arrives(n) /\ n.kind = kind /\ (kind = "login" => n.phase = "issue")
<1> DEFINE n == [kind |-> kind, tab |-> tab, id |-> 0, orphan |-> FALSE,
                 pair |-> IF kind = "login" THEN 0 ELSE jar.refresh,
                 new |-> IF kind = "login" THEN 0 ELSE jar.access,
                 phase |-> IF kind = "login" THEN "issue" ELSE "asked"]
<1>1. tasks' = tasks \cup {n} /\ UNCHANGED <<pairs, jar, issued>> /\ why \subseteq why'
  BY DEF Enter
<1>2. /\ n = [kind |-> n.kind, tab |-> n.tab, id |-> n.id, pair |-> n.pair, new |-> n.new,
              phase |-> n.phase, orphan |-> n.orphan]
      /\ n.kind = kind /\ n.tab = tab /\ n.orphan = FALSE
      /\ n.pair = (IF kind = "login" THEN 0 ELSE jar.refresh)
      /\ n.new = (IF kind = "login" THEN 0 ELSE jar.access)
      /\ n.phase = (IF kind = "login" THEN "issue" ELSE "asked")
  OBVIOUS
<1> HIDE DEF n
<1>3. jar.refresh \in 0..issued /\ jar.access \in 0..issued /\ 0 \in 0..issued
  BY SessionsAssumption DEF TypeOK
<1>4. IsTask(n, issued)
  BY <1>2, <1>3 DEF IsTask, Phases
<1>5. ~Claims(n) /\ ~Issuing(n) /\ n.phase # "half" /\ ~Renew(n)
  BY <1>2 DEF Claims, Issuing, Renew
<1>6. Arrives(n)
  BY <1>1, <1>4, <1>5 DEF Arrives
<1> QED
  BY <1>2, <1>6

\* Whatever happens settles, starts a task, or saves a token.
LEMMA StepKinds ==
  ASSUME TypeOK, OneRenewal, [Next]_vars
  PROVE  \/ Settles
         \/ \E n : Arrives(n)
         \/ \E t \in tasks : SaveAccess(t) \/ SaveRefresh(t)
<1>1. CASE UNCHANGED vars
  BY <1>1, StepsWeaken, StillSettles DEF vars
<1>2. ASSUME NEW tab \in Tabs, NEW call \in Calls, Ask(tab, call) \/ Serve(tab, call) \/ ServeFails(tab, call)
      PROVE  Settles
  <2>1. UNCHANGED <<pairs, tasks, issued, jar>> /\ why \subseteq why'
    BY <1>2 DEF Ask, Serve, ServeFails, Fault, Keep
  <2> QED
    BY <2>1, StepsWeaken, StillSettles
<1>3. ASSUME NEW p \in 1..issued, NEW token \in {"access", "refresh"}, Expire(p, token)
      PROVE  Settles
  <2>1. UNCHANGED <<tasks, issued>> /\ why \subseteq why' /\ jar'.refresh \in {jar.refresh, 0}
    BY <1>3 DEF Expire
  <2>2. Weakened
    BY <1>3, StepsWeaken
  <2> QED
    BY <2>1, <2>2, StillSettles
<1> QED
  BY <1>1, <1>2, <1>3, AnsweredStep, EnterArrives, ServerSettles, PageSettles DEF Next, Server

-------------------------------------------------------------------------------
(* Tokens.                                                                 *)

\* The tokens and the tasks, with the bounds that the type gives them.
LEMMA Ranges ==
  ASSUME TypeOK
  PROVE  /\ MaxPairs \in Nat \ {0} /\ issued \in 1..MaxPairs /\ issued \in Nat
         /\ pairs \in [1..MaxPairs -> Pair] /\ jar.refresh \in 0..issued /\ jar.access \in 0..issued
         /\ \A t \in tasks : t.pair \in 0..issued /\ t.new \in 0..issued /\ IsTask(t, issued)
BY SessionsAssumption DEF TypeOK, IsTask

\* SaveAccess adds a pair, of the family of its task or of a new one, and touches no other.
LEMMA SaveAccessPairs ==
  ASSUME TypeOK, NotIssued, OneRenewal, NEW t \in tasks, SaveAccess(t)
  PROVE  /\ issued' = issued + 1 /\ issued' \in 1..MaxPairs /\ pairs' \in [1..MaxPairs -> Pair]
         /\ pairs'[issued'] = [family |-> Family(t), access |-> "good", refresh |-> "none"]
         /\ Family(t) \in 0..issued'
         /\ Renew(t) => t.pair \in 1..issued /\ Family(t) = pairs[t.pair].family
         /\ ~Renew(t) => Family(t) = issued'
         /\ \A p \in 1..MaxPairs : p # issued' => pairs'[p] = pairs[p]
         /\ \A p \in 1..issued : p \in 1..MaxPairs /\ p # issued'
<1>1. /\ issued' = issued + 1 /\ issued < MaxPairs /\ t.phase = "issue"
      /\ pairs' = [pairs EXCEPT ![issued + 1] = [family |-> Family(t), access |-> "good", refresh |-> "none"]]
  BY DEF SaveAccess
<1>2. issued' \in 1..MaxPairs /\ \A p \in 1..issued : p \in 1..MaxPairs /\ p # issued'
  BY <1>1, Ranges
<1>3. Renew(t) => t.pair \in 1..issued /\ Family(t) = pairs[t.pair].family
  BY <1>1, Ranges DEF OneRenewal, Claims, Renew, Family
<1>4. ~Renew(t) => Family(t) = issued'
  BY <1>1 DEF Renew, Family
<1>5. Family(t) \in Nat /\ Family(t) \in 0..issued'
  <2>1. CASE Renew(t)
    <3>1. pairs[t.pair] \in Pair /\ pairs[t.pair].family <= issued
      BY <1>2, <1>3, <2>1, Ranges DEF NotIssued
    <3> QED
      BY <1>1, <1>3, <2>1, <3>1, Ranges DEF Pair
  <2> QED
    BY <1>1, <1>4, <2>1, Ranges
<1>6. [family |-> Family(t), access |-> "good", refresh |-> "none"] \in Pair
  BY <1>5 DEF Pair, Token
<1> QED
  BY <1>1, <1>2, <1>3, <1>4, <1>5, <1>6, Ranges

\* SaveRefresh makes good the refresh token of the pair that is half issued.
LEMMA SaveRefreshPairs ==
  ASSUME TypeOK, HalfIssued, NEW t \in tasks, SaveRefresh(t)
  PROVE  /\ t.new \in 1..MaxPairs /\ t.new \in 1..issued /\ pairs' \in [1..MaxPairs -> Pair] /\ t.phase = "half"
         /\ pairs'[t.new].refresh = "good" /\ pairs'[t.new].access = pairs[t.new].access
         /\ \A p \in 1..MaxPairs : pairs'[p].family = pairs[p].family /\ (p # t.new => pairs'[p] = pairs[p])
<1>1. t.phase = "half" /\ pairs' = [pairs EXCEPT ![t.new].refresh = "good"]
  BY DEF SaveRefresh
<1>2. t.new \in 1..MaxPairs /\ t.new \in 1..issued
  BY <1>1, Ranges DEF HalfIssued
<1>3. pairs[t.new] \in Pair
  BY <1>2, Ranges
<1> QED
  BY <1>1, <1>2, <1>3, Ranges DEF Pair, Token

\* A task whose refresh token is saved passes on.
LEMMA SaveRefreshPasses ==
  ASSUME TypeOK, NEW t \in tasks, SaveRefresh(t)
  PROVE  Passes /\ UNCHANGED <<issued, jar, why>>
<1>1. PICK u : /\ Moves(t, u) /\ IsTask(u, issued) /\ u.new = t.new
               /\ UNCHANGED <<jar, calls, page, issued, why>>
               /\ t.kind # "logout" /\ t.phase = "half" /\ u.phase = (IF Renew(t) THEN "saved" ELSE "good")
  BY SaveRefreshMoves
<1>2. Descends(u, t)
  BY <1>1 DEF Descends, Moves, Claims
<1>3. Inherits(tasks)
  BY <1>1, <1>2, MovesInherit
<1> QED
  BY <1>1, <1>3 DEF Passes

\* Pairs stay numbered in the order they are issued.
LEMMA NotIssuedStep ==
  ASSUME TypeOK, NotIssued, HalfIssued, OneRenewal, [Next]_vars
  PROVE  NotIssued'
<1>1. CASE Settles
  BY <1>1, Ranges DEF Settles, Weakened, NotIssued
<1>2. CASE \E n : Arrives(n)
  BY <1>2 DEF Arrives, NotIssued
<1>3. ASSUME NEW t \in tasks, SaveAccess(t) PROVE NotIssued'
  <2>1. ASSUME NEW p \in 1..MaxPairs
        PROVE  pairs'[p].family <= issued' /\ (p > issued' => pairs'[p].refresh = "none")
    <3>1. CASE p = issued'
      <4>1. pairs'[p] = [family |-> Family(t), access |-> "good", refresh |-> "none"] /\ Family(t) \in 0..issued'
        BY <1>3, <3>1, SaveAccessPairs
      <4>2. issued' = issued + 1 /\ issued \in Nat
        BY <1>3, Ranges DEF SaveAccess
      <4> QED
        BY <3>1, <4>1, <4>2
    <3>2. CASE p # issued'
      <4>1. pairs'[p] = pairs[p] /\ issued' = issued + 1
        BY <1>3, <3>2, SaveAccessPairs
      <4>2. pairs[p].family \in Nat
        BY Ranges DEF Pair
      <4> QED
        BY <4>1, <4>2, Ranges DEF NotIssued
    <3> QED
      BY <3>1, <3>2
  <2> QED
    BY <2>1 DEF NotIssued
<1>4. ASSUME NEW t \in tasks, SaveRefresh(t) PROVE NotIssued'
  <2>1. UNCHANGED issued
    BY <1>4, SaveRefreshPasses
  <2> QED
    BY <1>4, <2>1, SaveRefreshPairs, Ranges DEF NotIssued
<1> QED
  BY <1>1, <1>2, <1>3, <1>4, StepKinds

\* A pair that is being issued stays with its task, whatever goes on or ends.
LEMMA UndeliveredPasses ==
  ASSUME TypeOK, Undelivered, Passes
  PROVE  Undelivered'
<1>1. PICK left \in SUBSET tasks :
        /\ Inherits(left)
        /\ jar'.refresh \in {jar.refresh, 0} \/ \E t \in tasks \ left : Issuing(t) /\ jar'.refresh = t.new
  BY DEF Passes
<1>2. ASSUME NEW v \in tasks', Issuing(v), NEW w \in tasks'
      PROVE  /\ v.new > 1 /\ jar'.refresh # v.new
             /\ Renew(w) => w.pair # v.new
             /\ Issuing(w) /\ w.new = v.new => w = v
  <2>1. PICK u \in left, x \in left : Descends(v, u) /\ Descends(w, x) /\ (u = x => v = w)
    BY <1>1 DEF Inherits
  <2>2. u \in tasks /\ x \in tasks /\ Issuing(u) /\ v.new = u.new /\ w.new = x.new /\ w.pair = x.pair
        /\ (Renew(w) => Renew(x)) /\ (Issuing(w) => Issuing(x))
    BY <1>2, <2>1 DEF Descends, Issuing, Renew
  <2>3. u.new > 1 /\ jar.refresh # u.new /\ (Renew(x) => x.pair # u.new) /\ (Issuing(x) /\ x.new = u.new => x = u)
        /\ \A t \in tasks : Issuing(t) /\ t.new = u.new => t = u
    BY <2>2 DEF Undelivered
  <2>4. jar'.refresh # v.new
    BY <1>1, <2>1, <2>2, <2>3
  <2> QED
    BY <2>1, <2>2, <2>3, <2>4
<1> QED
  BY <1>2 DEF Undelivered, Issuing, Renew

\* A pair that is being issued belongs to one task and was given to nobody.
LEMMA UndeliveredStep ==
  ASSUME TypeOK, NotIssued, Undelivered, OneRenewal, [Next]_vars
  PROVE  Undelivered'
<1>1. CASE Settles
  BY <1>1, UndeliveredPasses DEF Settles
<1>2. ASSUME NEW n, Arrives(n) PROVE Undelivered'
  BY <1>2 DEF Arrives, Undelivered, Issuing, Renew
<1>3. ASSUME NEW t \in tasks, SaveAccess(t) PROVE Undelivered'
  <2>1. PICK u : /\ Moves(t, u) /\ u.new = issued + 1 /\ jar' = jar
    BY <1>3, SaveAccessMoves
  <2>2. ASSUME NEW v \in tasks', Issuing(v), NEW w \in tasks'
        PROVE  /\ v.new > 1 /\ jar.refresh # v.new
               /\ Renew(w) => w.pair # v.new
               /\ Issuing(w) /\ w.new = v.new => w = v
    <3>1. (v = u \/ v \in tasks) /\ (w = u \/ w \in tasks)
      BY <2>1 DEF Moves, With
    <3>2. w.pair \in 0..issued
      BY <2>1, <3>1, Ranges DEF Moves
    <3>3. CASE v = u
      BY <2>1, <3>1, <3>2, <3>3, Ranges
    <3>4. CASE v \in tasks
      <4>1. v.new \in 0..issued
        BY <3>4, Ranges
      <4>2. Renew(w) => w.pair # v.new
        BY <2>1, <2>2, <3>1, <3>4 DEF Undelivered, Moves, Renew
      <4> QED
        BY <2>1, <2>2, <3>1, <3>4, <4>1, <4>2, Ranges DEF Undelivered
    <3> QED
      BY <3>1, <3>3, <3>4
  <2> QED
    BY <2>1, <2>2 DEF Undelivered, Issuing, Renew
<1>4. ASSUME NEW t \in tasks, SaveRefresh(t) PROVE Undelivered'
  BY <1>4, SaveRefreshPasses, UndeliveredPasses
<1> QED
  BY <1>1, <1>2, <1>3, <1>4, StepKinds

\* A pair that is half issued has no refresh token, and is of the family it renews or of its own.
LEMMA HalfIssuedStep ==
  ASSUME TypeOK, NotIssued, Undelivered, HalfIssued, OneRenewal, [Next]_vars
  PROVE  HalfIssued'
<1> DEFINE Half(v) == /\ v.new # 0 /\ pairs'[v.new].refresh = "none"
                      /\ Renew(v) => pairs'[v.new].family = pairs'[v.pair].family
                      /\ v.kind = "login" =>
                           \A p \in 1..MaxPairs : pairs'[p].family = pairs'[v.new].family => p = v.new
<1>0. SUFFICES ASSUME NEW v \in tasks', v.phase = "half" PROVE Half(v)
  BY DEF HalfIssued, Renew, FamilyOf
<1>1. ASSUME NEW u \in tasks, u.phase = "half"
      PROVE  /\ u.new \in 1..MaxPairs /\ u.new <= issued /\ pairs[u.new].refresh = "none"
             /\ Renew(u) => u.pair \in 1..MaxPairs /\ u.pair <= issued /\ pairs[u.new].family = pairs[u.pair].family
             /\ u.kind = "login" => \A p \in 1..MaxPairs : pairs[p].family = pairs[u.new].family => p = u.new
             /\ Issuing(u)
  <2>1. u.new \in 0..issued /\ u.pair \in 0..issued /\ IsTask(u, issued) /\ issued \in 1..MaxPairs /\ MaxPairs \in Nat
    BY Ranges
  <2>2. u.kind # "logout"
    BY <1>1, <2>1 DEF IsTask, Phases
  <2> QED
    BY <1>1, <2>1, <2>2 DEF HalfIssued, OneRenewal, Claims, FamilyOf, Renew, Issuing
<1>2. CASE Settles
  <2>1. PICK left \in SUBSET tasks : Inherits(left)
    BY <1>2 DEF Settles, Passes
  <2>2. PICK u \in left : Descends(v, u)
    BY <2>1 DEF Inherits
  <2>3. u \in tasks /\ u.phase = "half" /\ v.new = u.new /\ v.pair = u.pair /\ v.kind = u.kind
    BY <1>0, <2>2 DEF Descends
  <2> QED
    BY <1>1, <1>2, <2>3 DEF Settles, Weakened, Renew
<1>3. ASSUME NEW n, Arrives(n) PROVE Half(v)
  <2>1. v \in tasks /\ UNCHANGED pairs
    BY <1>0, <1>3 DEF Arrives
  <2> QED
    BY <1>0, <1>1, <2>1
<1>4. ASSUME NEW t \in tasks, SaveAccess(t) PROVE Half(v)
  <2>1. PICK u : Moves(t, u) /\ u.new = issued' /\ t.kind # "logout"
    BY <1>4, SaveAccessMoves
  <2>2. /\ issued' = issued + 1 /\ issued' \in 1..MaxPairs /\ issued \in Nat
        /\ pairs'[issued'].family = Family(t) /\ pairs'[issued'].refresh = "none"
        /\ Renew(t) => t.pair \in 1..issued /\ Family(t) = pairs[t.pair].family
        /\ ~Renew(t) => Family(t) = issued'
        /\ \A p \in 1..MaxPairs : p # issued' => pairs'[p] = pairs[p]
        /\ \A p \in 1..issued : p \in 1..MaxPairs /\ p # issued'
    <3>1. pairs'[issued'] = [family |-> Family(t), access |-> "good", refresh |-> "none"]
      BY <1>4, SaveAccessPairs
    <3>2. issued \in Nat
      BY Ranges
    <3> QED
      BY <1>4, <3>1, <3>2, SaveAccessPairs
  <2>3. \A p \in 1..MaxPairs : pairs[p].family \in Nat /\ pairs[p].family # issued'
    BY <2>2, Ranges DEF NotIssued, Pair
  <2>4. CASE v = u
    <3>1. v.new # 0 /\ pairs'[v.new].refresh = "none"
      BY <2>1, <2>2, <2>4
    <3>2. Renew(v) => pairs'[v.new].family = pairs'[v.pair].family
      BY <2>1, <2>2, <2>4 DEF Moves, Renew
    <3>3. v.kind = "login" => \A p \in 1..MaxPairs : pairs'[p].family = pairs'[v.new].family => p = v.new
      BY <2>1, <2>2, <2>3, <2>4 DEF Moves, Renew
    <3> QED
      BY <3>1, <3>2, <3>3
  <2>5. CASE v \in tasks
    <3>1. /\ v.new \in 1..MaxPairs /\ v.new <= issued /\ pairs[v.new].refresh = "none"
          /\ Renew(v) => v.pair \in 1..MaxPairs /\ v.pair <= issued /\ pairs[v.new].family = pairs[v.pair].family
          /\ v.kind = "login" => \A p \in 1..MaxPairs : pairs[p].family = pairs[v.new].family => p = v.new
          /\ Issuing(v)
      BY <1>0, <1>1, <2>5
    <3>2. pairs'[v.new] = pairs[v.new] /\ (Renew(v) => pairs'[v.pair] = pairs[v.pair])
      BY <2>2, <3>1
    <3>3. Family(t) # pairs[v.new].family \/ v.kind # "login"
      BY <2>2, <2>3, <2>5, <3>1 DEF Undelivered
    <3> QED
      BY <2>2, <3>1, <3>2, <3>3
  <2> QED
    BY <1>0, <2>1, <2>4, <2>5 DEF Moves, With
<1>5. ASSUME NEW t \in tasks, SaveRefresh(t) PROVE Half(v)
  <2>1. PICK u : Moves(t, u) /\ u.phase # "half" /\ t.phase = "half"
    BY <1>5, SaveRefreshMoves
  <2>2. v \in tasks /\ v # t
    BY <1>0, <2>1 DEF Moves, With
  <2>3. v.new # t.new
    BY <1>0, <1>1, <2>1, <2>2 DEF Undelivered
  <2> QED
    BY <1>0, <1>1, <1>5, <2>2, <2>3, SaveRefreshPairs
<1> QED
  BY <1>2, <1>3, <1>4, <1>5, StepKinds

\* A page still waits for one renewal, whatever goes on or ends.
LEMMA OneRenewalPasses ==
  ASSUME TypeOK, OneRenewal, Passes, NEW v \in tasks', NEW w \in tasks', Renew(v), Renew(w), v.tab = w.tab,
         ~v.orphan, ~w.orphan
  PROVE  v = w
<1>1. PICK left \in SUBSET tasks : Inherits(left)
  BY DEF Passes
<1>2. PICK u \in left, x \in left : Descends(v, u) /\ Descends(w, x) /\ (u = x => v = w)
  BY <1>1 DEF Inherits
<1>3. u \in tasks /\ x \in tasks /\ Renew(u) /\ Renew(x) /\ u.tab = x.tab /\ ~u.orphan /\ ~x.orphan
  BY <1>2 DEF Descends, Renew
<1> QED
  BY <1>2, <1>3 DEF OneRenewal

\* A page waits for one renewal, and a claim is on a token that was good once.
LEMMA OneRenewalStep ==
  ASSUME TypeOK, NotIssued, Undelivered, HalfIssued, OneRenewal, [Next]_vars
  PROVE  OneRenewal'
<1>0. \A u \in tasks : Claims(u) => u.pair \in 1..MaxPairs /\ u.pair \in 1..issued /\ pairs[u.pair].refresh # "none"
  BY Ranges DEF OneRenewal
<1>1. SUFFICES /\ \A v, w \in tasks' : Renew(v) /\ Renew(w) /\ v.tab = w.tab /\ ~v.orphan /\ ~w.orphan => v = w
               /\ \A v \in tasks' : Claims(v) => v.pair # 0 /\ pairs'[v.pair].refresh # "none"
  BY DEF OneRenewal, Renew, Claims
<1>2. CASE Settles
  <2>1. ASSUME NEW v \in tasks', Claims(v) PROVE v.pair # 0 /\ pairs'[v.pair].refresh # "none"
    <3>1. PICK left \in SUBSET tasks : Inherits(left)
      BY <1>2 DEF Settles, Passes
    <3>2. PICK u \in left : Descends(v, u)
      BY <3>1 DEF Inherits
    <3>3. u \in tasks /\ v.pair = u.pair /\ (Claims(u) \/ (u.pair # 0 /\ pairs[u.pair].refresh = "good"))
      BY <2>1, <3>2 DEF Descends
    <3>4. v.pair \in 1..MaxPairs /\ pairs[v.pair].refresh # "none"
      BY <1>0, <3>3, Ranges
    <3> QED
      BY <1>2, <3>4 DEF Settles, Weakened
  <2> QED
    BY <1>2, <2>1, OneRenewalPasses DEF Settles
<1>3. ASSUME NEW n, Arrives(n)
      PROVE  /\ \A v, w \in tasks' : Renew(v) /\ Renew(w) /\ v.tab = w.tab /\ ~v.orphan /\ ~w.orphan => v = w
             /\ \A v \in tasks' : Claims(v) => v.pair # 0 /\ pairs'[v.pair].refresh # "none"
  BY <1>3 DEF Arrives, OneRenewal
<1>4. ASSUME NEW t \in tasks, SaveAccess(t)
      PROVE  /\ \A v, w \in tasks' : Renew(v) /\ Renew(w) /\ v.tab = w.tab /\ ~v.orphan /\ ~w.orphan => v = w
             /\ \A v \in tasks' : Claims(v) => v.pair # 0 /\ pairs'[v.pair].refresh # "none"
  <2>1. PICK u : Moves(t, u) /\ t.kind # "logout" /\ t.phase = "issue" /\ u.phase = "half"
    BY <1>4, SaveAccessMoves
  <2>2. \A p \in 1..issued : p \in 1..MaxPairs /\ pairs'[p] = pairs[p]
    BY <1>4, SaveAccessPairs
  <2>3. ASSUME NEW v \in tasks', Claims(v) PROVE v.pair # 0 /\ pairs'[v.pair].refresh # "none"
    <3>1. \E x \in tasks : Claims(x) /\ x.pair = v.pair
      BY <2>1, <2>3 DEF Moves, With, Claims, Renew
    <3> QED
      BY <1>0, <2>2, <3>1
  <2>4. ASSUME NEW v \in tasks', NEW w \in tasks', Renew(v), Renew(w), v.tab = w.tab, ~v.orphan, ~w.orphan PROVE v = w
    <3>1. (v = u \/ v \in tasks \ {t}) /\ (w = u \/ w \in tasks \ {t})
      BY <2>1 DEF Moves, With
    <3> QED
      BY <2>1, <2>4, <3>1 DEF OneRenewal, Moves, Renew
  <2> QED
    BY <2>3, <2>4
<1>5. ASSUME NEW t \in tasks, SaveRefresh(t)
      PROVE  /\ \A v, w \in tasks' : Renew(v) /\ Renew(w) /\ v.tab = w.tab /\ ~v.orphan /\ ~w.orphan => v = w
             /\ \A v \in tasks' : Claims(v) => v.pair # 0 /\ pairs'[v.pair].refresh # "none"
  <2>1. PICK u : Moves(t, u) /\ t.phase = "half" /\ u.phase \in {"saved", "good"}
    BY <1>5, SaveRefreshMoves
  <2>2. ASSUME NEW v \in tasks', Claims(v) PROVE v.pair # 0 /\ pairs'[v.pair].refresh # "none"
    <3>1. v \in tasks
      BY <2>1, <2>2 DEF Moves, With, Claims
    <3> QED
      BY <1>0, <1>5, <2>2, <3>1, SaveRefreshPairs
  <2> QED
    BY <1>5, <2>2, SaveRefreshPasses, OneRenewalPasses
<1> QED
  BY <1>2, <1>3, <1>4, <1>5, StepKinds

-------------------------------------------------------------------------------
(* One right to issue.                                                     *)

\* The four parts of OneRight, of a state in which no token was used twice at a time.
LEMMA RightParts ==
  ASSUME TypeOK, OneRenewal, OneRight, "crossed" \notin why
  PROVE  /\ \A t, u \in tasks : Renew(t) /\ Renew(u) /\ t.pair = u.pair /\ t.pair # 0 => t = u
         /\ \A t, u \in tasks : Claims(t) /\ Claims(u) /\ pairs[t.pair].family = pairs[u.pair].family => t = u
         /\ \A t \in tasks, p \in 1..MaxPairs :
              Claims(t) /\ pairs[p].refresh = "good" /\ pairs[p].family = pairs[t.pair].family =>
                t.phase = "found" /\ p = t.pair
         /\ \A p, q \in 1..MaxPairs :
              pairs[p].refresh = "good" /\ pairs[q].refresh = "good" /\ pairs[p].family = pairs[q].family => p = q
         /\ \A t \in tasks : Claims(t) => t.pair \in 1..MaxPairs /\ t.pair \in 1..issued
<1>1. \A t \in tasks : Claims(t) => t.pair \in 1..MaxPairs /\ t.pair \in 1..issued
  BY Ranges DEF OneRenewal
<1> QED
  BY <1>1 DEF OneRight, OneLiveRefresh, FamilyOf

\* A token has one renewal, whatever goes on or ends.
LEMMA OneUserPasses ==
  ASSUME TypeOK, OneRenewal, OneRight, "crossed" \notin why, Passes,
         NEW v \in tasks', NEW w \in tasks', Renew(v), Renew(w), v.pair = w.pair, v.pair # 0
  PROVE  v = w
<1>1. PICK left \in SUBSET tasks : Inherits(left)
  BY DEF Passes
<1>2. PICK u \in left, x \in left : Descends(v, u) /\ Descends(w, x) /\ (u = x => v = w)
  BY <1>1 DEF Inherits
<1>3. u \in tasks /\ x \in tasks /\ Renew(u) /\ Renew(x) /\ u.pair = x.pair /\ u.pair # 0
  BY <1>2 DEF Descends, Renew
<1> QED
  BY <1>2, <1>3, RightParts

\* A step that issues nothing leaves one right.
LEMMA OneRightSettles ==
  ASSUME TypeOK, OneRenewal, OneRight, Settles
  PROVE  OneRight'
<1>0. SUFFICES ASSUME "crossed" \notin why' PROVE OneRight'
  BY DEF OneRight
<1>1. "crossed" \notin why
  BY <1>0 DEF Settles
<1>2. PICK left \in SUBSET tasks : Inherits(left)
  BY DEF Settles, Passes
<1> DEFINE Has(u, v) == \/ Claims(u) /\ (v.phase = u.phase \/ pairs'[u.pair].refresh # "good")
                        \/ v.phase = "found" /\ u.pair # 0 /\ pairs[u.pair].refresh = "good"
<1>3. ASSUME NEW v \in tasks', NEW w \in tasks', Claims(v), Claims(w)
      PROVE  \E u, x \in tasks : /\ v.pair = u.pair /\ w.pair = x.pair /\ (u = x => v = w)
                                 /\ Renew(u) /\ Renew(x) /\ Has(u, v) /\ Has(x, w)
                                 /\ u.pair \in 1..MaxPairs /\ x.pair \in 1..MaxPairs
  <2>1. PICK u \in left, x \in left : Descends(v, u) /\ Descends(w, x) /\ (u = x => v = w)
    BY <1>2 DEF Inherits
  <2>2. /\ u \in tasks /\ x \in tasks /\ v.pair = u.pair /\ w.pair = x.pair /\ Has(u, v) /\ Has(x, w)
        /\ Renew(u) /\ Renew(x)
    BY <1>3, <2>1 DEF Descends, Claims, Renew
  <2>3. u.pair \in 1..MaxPairs /\ x.pair \in 1..MaxPairs
    BY <2>2, Ranges DEF OneRenewal
  <2> QED
    BY <2>1, <2>2, <2>3
<1>4. /\ \A p \in 1..MaxPairs : /\ pairs'[p].family = pairs[p].family
                                /\ pairs'[p].refresh = "good" => pairs[p].refresh = "good"
      /\ Passes
  BY DEF Settles, Weakened
<1>5. ASSUME NEW v \in tasks', NEW w \in tasks', Renew(v), Renew(w), v.pair = w.pair, v.pair # 0
      PROVE  v = w
  BY <1>1, <1>4, <1>5, OneUserPasses
<1>6. ASSUME NEW v \in tasks', NEW w \in tasks', Claims(v), Claims(w), pairs'[v.pair].family = pairs'[w.pair].family
      PROVE  v = w
  <2>1. PICK u \in tasks, x \in tasks : /\ v.pair = u.pair /\ w.pair = x.pair /\ (u = x => v = w)
                                        /\ Renew(u) /\ Renew(x) /\ Has(u, v) /\ Has(x, w)
                                        /\ u.pair \in 1..MaxPairs /\ x.pair \in 1..MaxPairs
    BY <1>3, <1>6
  <2>2. pairs[u.pair].family = pairs[x.pair].family
    BY <1>4, <1>6, <2>1
  <2>3. u.pair = x.pair \/ u = x
    BY <1>1, <2>1, <2>2, RightParts
  <2> QED
    BY <1>1, <2>1, <2>3, RightParts
<1>7. ASSUME NEW v \in tasks', NEW p \in 1..MaxPairs, Claims(v), pairs'[p].refresh = "good",
             pairs'[p].family = pairs'[v.pair].family
      PROVE  v.phase = "found" /\ p = v.pair
  <2>1. PICK u \in tasks : v.pair = u.pair /\ Has(u, v) /\ u.pair \in 1..MaxPairs
    BY <1>3, <1>7
  <2>2. pairs[p].refresh = "good" /\ pairs[p].family = pairs[u.pair].family
    BY <1>4, <1>7, <2>1
  <2>3. CASE Claims(u) /\ (v.phase = u.phase \/ pairs'[u.pair].refresh # "good")
    BY <1>1, <1>7, <2>1, <2>2, <2>3, RightParts
  <2>4. CASE v.phase = "found" /\ u.pair # 0 /\ pairs[u.pair].refresh = "good"
    BY <1>1, <2>1, <2>2, <2>4, RightParts
  <2> QED
    BY <2>1, <2>3, <2>4
<1>8. ASSUME NEW p \in 1..MaxPairs, NEW q \in 1..MaxPairs, pairs'[p].refresh = "good", pairs'[q].refresh = "good",
             pairs'[p].family = pairs'[q].family
      PROVE  p = q
  BY <1>1, <1>4, <1>8, RightParts
<1> QED
  BY <1>5, <1>6, <1>7, <1>8 DEF OneRight, OneLiveRefresh, Renew, Claims, FamilyOf

\* A renewal that starts has no right yet.
LEMMA OneRightArrives ==
  ASSUME TypeOK, OneRenewal, OneRight, NEW n, Arrives(n)
  PROVE  OneRight'
<1>0. SUFFICES ASSUME "crossed" \notin why' PROVE OneRight'
  BY DEF OneRight
<1>1. /\ "crossed" \notin why /\ tasks' = tasks \cup {n} /\ UNCHANGED pairs /\ ~Claims(n)
      /\ Renew(n) => ~n.orphan /\ ~Crossed(tasks') /\ \A u \in tasks : Renew(u) /\ u.tab = n.tab => u.orphan
  BY <1>0 DEF Arrives
<1>2. ASSUME NEW v \in tasks', NEW w \in tasks', Renew(v), Renew(w), v.pair = w.pair, v.pair # 0
      PROVE  v = w
  <2>1. CASE v \in tasks /\ w \in tasks
    BY <1>1, <1>2, <2>1, RightParts
  <2>2. ASSUME NEW x \in tasks, Renew(x), Renew(n), x.pair = n.pair, n.pair # 0 PROVE FALSE
    BY <1>1, <2>2 DEF Crossed, Renew
  <2> QED
    BY <1>1, <1>2, <2>1, <2>2
<1>3. ASSUME NEW v \in tasks', Claims(v) PROVE v \in tasks
  BY <1>1, <1>3
<1> QED
  BY <1>1, <1>2, <1>3, RightParts DEF OneRight, OneLiveRefresh, Renew, Claims, FamilyOf

\* The access token of a pair whose refresh token is not saved gives no right.
LEMMA OneRightSaveAccess ==
  ASSUME TypeOK, NotIssued, OneRenewal, OneRight, NEW t \in tasks, SaveAccess(t)
  PROVE  OneRight'
<1>0. SUFFICES ASSUME "crossed" \notin why' PROVE OneRight'
  BY DEF OneRight
<1>1. PICK u : Moves(t, u) /\ t.phase = "issue" /\ u.phase = "half" /\ why' = why /\ t.kind # "logout"
  BY SaveAccessMoves
<1>2. /\ \A p \in 1..MaxPairs : p # issued' => pairs'[p] = pairs[p]
      /\ \A p \in 1..issued : p \in 1..MaxPairs /\ p # issued'
      /\ pairs'[issued'].refresh = "none"
  <2>1. pairs'[issued'] = [family |-> Family(t), access |-> "good", refresh |-> "none"]
    BY SaveAccessPairs
  <2> QED
    BY <2>1, SaveAccessPairs
<1>3. ASSUME NEW v \in tasks'
      PROVE  \E x \in tasks : /\ v.kind = x.kind /\ v.pair = x.pair /\ (Claims(v) <=> Claims(x))
                              /\ v = IF x = t THEN u ELSE x
  BY <1>1 DEF Moves, With, Claims, Renew
<1>4. \A x \in tasks : Claims(x) => pairs'[x.pair] = pairs[x.pair] /\ x.pair \in 1..MaxPairs /\ x.pair # issued'
  BY <1>0, <1>1, <1>2, RightParts
<1>5. \A p \in 1..MaxPairs : pairs'[p].refresh = "good" => pairs'[p] = pairs[p]
  BY <1>2
<1>6. ASSUME NEW v \in tasks', NEW w \in tasks', Renew(v), Renew(w), v.pair = w.pair, v.pair # 0
      PROVE  v = w
  <2>1. PICK x \in tasks, y \in tasks : /\ v.kind = x.kind /\ v.pair = x.pair /\ v = (IF x = t THEN u ELSE x)
                                        /\ w.kind = y.kind /\ w.pair = y.pair /\ w = (IF y = t THEN u ELSE y)
    BY <1>3
  <2>2. x = y
    BY <1>0, <1>1, <1>6, <2>1, RightParts, ZenonT(30) DEF Renew
  <2> QED
    BY <2>1, <2>2
<1>7. ASSUME NEW v \in tasks', NEW w \in tasks', Claims(v), Claims(w), pairs'[v.pair].family = pairs'[w.pair].family
      PROVE  v = w
  <2>1. PICK x \in tasks, y \in tasks : /\ Claims(x) /\ v.pair = x.pair /\ v = (IF x = t THEN u ELSE x)
                                        /\ Claims(y) /\ w.pair = y.pair /\ w = (IF y = t THEN u ELSE y)
    BY <1>3, <1>7
  <2>2. pairs[x.pair].family = pairs[y.pair].family
    BY <1>4, <1>7, <2>1
  <2>3. x = y
    BY <1>0, <1>1, <2>1, <2>2, RightParts
  <2> QED
    BY <2>1, <2>3
<1>8. ASSUME NEW v \in tasks', NEW p \in 1..MaxPairs, Claims(v), pairs'[p].refresh = "good",
             pairs'[p].family = pairs'[v.pair].family
      PROVE  v.phase = "found" /\ p = v.pair
  <2>1. PICK x \in tasks : Claims(x) /\ v.pair = x.pair /\ v = (IF x = t THEN u ELSE x)
    BY <1>3, <1>8
  <2>2. x.phase = "found" /\ p = x.pair
    BY <1>0, <1>1, <1>4, <1>5, <1>8, <2>1, RightParts
  <2> QED
    BY <1>1, <2>1, <2>2
<1>9. ASSUME NEW p \in 1..MaxPairs, NEW q \in 1..MaxPairs, pairs'[p].refresh = "good", pairs'[q].refresh = "good",
             pairs'[p].family = pairs'[q].family
      PROVE  p = q
  BY <1>0, <1>1, <1>5, <1>9, RightParts
<1> QED
  BY <1>6, <1>7, <1>8, <1>9 DEF OneRight, OneLiveRefresh, Renew, Claims, FamilyOf

\* The refresh token that is saved takes over the right of its renewal, or is the first of its family.
LEMMA OneRightSaveRefresh ==
  ASSUME TypeOK, NotIssued, Undelivered, HalfIssued, OneRenewal, OneRight, NEW t \in tasks, SaveRefresh(t)
  PROVE  OneRight'
<1>0. SUFFICES ASSUME "crossed" \notin why' PROVE OneRight'
  BY DEF OneRight
<1>1. PICK u : /\ Moves(t, u) /\ t.phase = "half" /\ u.phase \in {"saved", "good"} /\ t.kind # "logout"
               /\ why' = why
  BY SaveRefreshMoves
<1>2. /\ t.new \in 1..MaxPairs
      /\ \A p \in 1..MaxPairs : pairs'[p].family = pairs[p].family /\ (p # t.new => pairs'[p] = pairs[p])
  BY SaveRefreshPairs
<1>3. /\ Renew(t) => Claims(t) /\ pairs[t.new].family = pairs[t.pair].family
      /\ ~Renew(t) => \A p \in 1..MaxPairs : pairs[p].family = pairs[t.new].family => p = t.new
      /\ \A x \in tasks : Renew(x) => x.pair # t.new
  <2>1. t.kind \in {"renew", "login"} /\ t.new # 0
    BY <1>1, <1>2, TaskType
  <2> QED
    BY <1>1, <2>1 DEF HalfIssued, Undelivered, Claims, Renew, FamilyOf, Issuing
<1>4. ASSUME NEW v \in tasks', Claims(v)
      PROVE  v \in tasks /\ v # t /\ v.pair \in 1..MaxPairs /\ pairs[v.pair].family # pairs[t.new].family
  <2>1. v \in tasks /\ v # t
    BY <1>1, <1>4 DEF Moves, With, Claims
  <2>2. v.pair \in 1..MaxPairs /\ v.pair # t.new
    BY <1>0, <1>1, <1>3, <1>4, <2>1, RightParts DEF Claims
  <2>3. CASE Renew(t)
    BY <1>0, <1>1, <1>3, <1>4, <2>1, <2>2, <2>3, RightParts
  <2>4. CASE ~Renew(t)
    BY <1>3, <2>1, <2>2, <2>4
  <2> QED
    BY <2>1, <2>2, <2>3, <2>4
<1>5. ASSUME NEW p \in 1..MaxPairs, pairs[p].refresh = "good", p # t.new
      PROVE  pairs[p].family # pairs[t.new].family
  BY <1>0, <1>1, <1>2, <1>3, <1>5, RightParts
<1>6. ASSUME NEW v \in tasks', NEW w \in tasks', Renew(v), Renew(w), v.pair = w.pair, v.pair # 0
      PROVE  v = w
  BY <1>0, <1>1, <1>6, SaveRefreshPasses, OneUserPasses
<1>7. ASSUME NEW v \in tasks', NEW p \in 1..MaxPairs, Claims(v), pairs'[p].refresh = "good",
             pairs'[p].family = pairs'[v.pair].family
      PROVE  v.phase = "found" /\ p = v.pair
  <2>1. p # t.new /\ pairs[p].refresh = "good" /\ pairs[p].family = pairs[v.pair].family
    BY <1>2, <1>4, <1>7
  <2> QED
    BY <1>0, <1>1, <1>4, <1>7, <2>1, RightParts
<1>8. ASSUME NEW v \in tasks', NEW w \in tasks', Claims(v), Claims(w), pairs'[v.pair].family = pairs'[w.pair].family
      PROVE  v = w
  <2>1. pairs[v.pair].family = pairs[w.pair].family
    BY <1>2, <1>4, <1>8
  <2> QED
    BY <1>0, <1>1, <1>4, <1>8, <2>1, RightParts
<1>9. ASSUME NEW p \in 1..MaxPairs, NEW q \in 1..MaxPairs, pairs'[p].refresh = "good", pairs'[q].refresh = "good",
             pairs'[p].family = pairs'[q].family
      PROVE  p = q
  <2>1. pairs[p].family = pairs[q].family /\ (p # t.new => pairs[p].refresh = "good")
        /\ (q # t.new => pairs[q].refresh = "good")
    BY <1>2, <1>9
  <2> QED
    BY <1>0, <1>1, <1>5, <2>1, RightParts
<1> QED
  BY <1>6, <1>7, <1>8, <1>9 DEF OneRight, OneLiveRefresh, Renew, Claims, FamilyOf

\* A family has one right to issue its next token.
LEMMA OneRightStep ==
  ASSUME TypeOK, NotIssued, Undelivered, HalfIssued, OneRenewal, OneRight, [Next]_vars
  PROVE  OneRight'
BY StepKinds, OneRightSettles, OneRightArrives, OneRightSaveAccess, OneRightSaveRefresh

-------------------------------------------------------------------------------
(* Requests.                                                               *)

\* The requests of every page, each with what it is.
Shape(cs) == DOMAIN cs = Tabs /\ \A tab \in Tabs : DOMAIN cs[tab] = Calls

\* A step that makes c of one request.
Sets(tab, call, c) ==
  /\ Shape(calls')
  /\ \A a \in Tabs, b \in Calls : calls'[a][b] = IF a = tab /\ b = call THEN c ELSE calls[a][b]

\* A request that is set is the only one that changes.
LEMMA SetCall ==
  ASSUME TypeOK, NEW tab \in Tabs, NEW call \in Calls, NEW c, calls' = [calls EXCEPT ![tab][call] = c]
  PROVE  Sets(tab, call, c)
BY DEF TypeOK, Sets, Shape

\* Every request is one.
LEMMA CallType ==
  ASSUME TypeOK, NEW tab \in Tabs, NEW call \in Calls
  PROVE  IsCall(calls[tab][call], issued)
BY DEF TypeOK

\* A request that stays refused, field by field.
LEMMA RefusedFields ==
  ASSUME NEW c, NEW last, IsCall(c, last), NEW phase, NEW again, NEW d, d = [c EXCEPT !.phase = phase, !.again = again]
  PROVE  d = [phase |-> phase, again |-> again, pair |-> c.pair, waits |-> c.waits]
BY DEF IsCall

\* A request that waits, or waits no more, field by field.
LEMMA WaitsFields ==
  ASSUME NEW c, NEW last, IsCall(c, last), NEW phase, NEW waits, NEW d, d = [c EXCEPT !.phase = phase, !.waits = waits]
  PROVE  d = [phase |-> phase, again |-> c.again, pair |-> c.pair, waits |-> waits]
BY DEF IsCall

\* apiFetch sends a request with the cookies there are.
LEMMA AskCall ==
  ASSUME TypeOK, NEW tab \in Tabs, NEW call \in Calls, Ask(tab, call)
  PROVE  Sets(tab, call, [phase |-> "sent", again |-> FALSE, pair |-> jar.access, waits |-> {}])
BY SetCall DEF Ask, Send

\* The server answers a request, which stays what it is.
LEMMA ServeCall ==
  ASSUME TypeOK, NEW tab \in Tabs, NEW call \in Calls, Serve(tab, call) \/ ServeFails(tab, call)
  PROVE  \E c : /\ Sets(tab, call, c) /\ IsCall(c, issued) /\ c.phase \in {"ok", "denied"}
                /\ c.again = calls[tab][call].again /\ c.pair = calls[tab][call].pair
<1> DEFINE phase == IF ~ServeFails(tab, call) /\ calls[tab][call].pair # 0
                       /\ pairs[calls[tab][call].pair].access = "good" THEN "ok" ELSE "denied"
           c == [calls[tab][call] EXCEPT !.phase = phase]
<1>1. calls' = [calls EXCEPT ![tab][call].phase = phase] /\ calls[tab][call].phase = "sent"
  BY DEF Serve, ServeFails
<1>2. phase \in {"ok", "denied"}
  OBVIOUS
<1> HIDE DEF phase
<1>3. calls' = [calls EXCEPT ![tab][call] = c]
  BY <1>1
<1>4. c = [calls[tab][call] EXCEPT !.phase = phase]
  OBVIOUS
<1> HIDE DEF c
<1>5. IsCall(c, issued) /\ c.phase = phase /\ c.again = calls[tab][call].again /\ c.pair = calls[tab][call].pair
  <2>1. IsCall(calls[tab][call], issued) /\ calls[tab][call].phase # "waits"
    BY <1>1, CallType
  <2> QED
    BY <1>2, <1>4, <2>1, PhaseOfCall
<1> QED
  BY <1>2, <1>3, <1>5, SetCall

\* The page takes an answer: the request is done, is refused for good, or waits for a renewal.
LEMMA AnsweredCall ==
  ASSUME TypeOK, NEW tab \in Tabs, NEW call \in Calls, Answered(tab, call)
  PROVE  \E c : /\ Sets(tab, call, c) /\ IsCall(c, issued)
                /\ \/ c.phase = "idle" /\ ~c.again /\ calls[tab][call].phase = "ok" /\ page' = page
                   \/ /\ c.phase = "refused" /\ ~c.again /\ c.pair = calls[tab][call].pair
                      /\ calls[tab][call].phase = "denied" /\ calls[tab][call].again
                      /\ page' = IF call = Me THEN [page EXCEPT ![tab] = "acceso"] ELSE page
                   \/ c.phase = "waits" /\ ~c.again /\ calls[tab][call].phase = "denied" /\ page' = page
<1> DEFINE o == calls[tab][call]
<1>1. IsCall(o, issued) /\ 0 \in 0..issued
  BY CallType, Ranges
<1>2. CASE o.phase = "ok" /\ calls' = [calls EXCEPT ![tab][call] = Idle] /\ page' = page
  <2>1. IsCall(Idle, issued) /\ Idle.phase = "idle" /\ ~Idle.again
    BY <1>1 DEF Idle, IsCall
  <2> QED
    BY <1>2, <2>1, SetCall
<1>3. CASE /\ o.phase = "denied" /\ o.again
           /\ calls' = [calls EXCEPT ![tab][call] = [@ EXCEPT !.phase = "refused", !.again = FALSE]]
           /\ page' = IF call = Me THEN [page EXCEPT ![tab] = "acceso"] ELSE page
  <2> DEFINE c == [o EXCEPT !.phase = "refused", !.again = FALSE]
  <2>1. calls' = [calls EXCEPT ![tab][call] = c]
    BY <1>3
  <2>2. c = [phase |-> "refused", again |-> FALSE, pair |-> o.pair, waits |-> o.waits]
    <3>1. c = [o EXCEPT !.phase = "refused", !.again = FALSE]
      OBVIOUS
    <3> HIDE DEF c, o
    <3> QED
      BY <1>1, <3>1, RefusedFields
  <2> HIDE DEF c
  <2>3. IsCall(c, issued) /\ c.phase = "refused" /\ ~c.again /\ c.pair = o.pair
    BY <1>1, <1>3, <2>2 DEF IsCall
  <2> QED
    BY <1>3, <2>1, <2>3, SetCall
<1>4. CASE /\ o.phase = "denied" /\ ~o.again /\ page' = page
           /\ \E ids : calls' = [calls EXCEPT ![tab][call].phase = "waits", ![tab][call].waits = ids]
  <2>1. PICK ids : calls' = [calls EXCEPT ![tab][call].phase = "waits", ![tab][call].waits = ids]
    BY <1>4
  <2> DEFINE c == [o EXCEPT !.phase = "waits", !.waits = ids]
  <2>2. calls' = [calls EXCEPT ![tab][call] = c]
    BY <2>1 DEF TypeOK
  <2>3. c = [phase |-> "waits", again |-> o.again, pair |-> o.pair, waits |-> ids]
    <3>1. c = [o EXCEPT !.phase = "waits", !.waits = ids]
      OBVIOUS
    <3> HIDE DEF c, o
    <3> QED
      BY <1>1, <3>1, WaitsFields
  <2> HIDE DEF c
  <2>4. IsCall(c, issued) /\ c.phase = "waits" /\ ~c.again
    BY <1>1, <1>4, <2>3 DEF IsCall
  <2> QED
    BY <1>4, <2>2, <2>4, SetCall
<1> QED
  BY <1>2, <1>3, <1>4 DEF Answered

\* A renewal that is good sends again the requests that wait for it, with the new cookies.
LEMMA ResendCalls ==
  ASSUME TypeOK, NEW t \in tasks, Resend(t)
  PROVE  /\ Shape(calls')
         /\ \A a \in Tabs, b \in Calls :
              \/ calls'[a][b] = calls[a][b]
              \/ /\ calls'[a][b] = [phase |-> "sent", again |-> TRUE, pair |-> jar'.access, waits |-> {}]
                 /\ calls[a][b].phase = "waits"
<1>1. calls' = [calls EXCEPT ![t.tab] = [call \in Calls |-> IF call \in Waiting(t) THEN Send(TRUE) ELSE @[call]]]
      /\ t.tab \in Tabs
  BY TaskType DEF Resend, IsTask
<1>2. \A b \in Waiting(t) : calls[t.tab][b].phase = "waits"
  BY <1>1, CallType DEF Waiting, IsCall
<1> QED
  BY <1>1, <1>2 DEF TypeOK, Shape, Send

\* A page that is left has no request.
LEMMA LeaveCalls ==
  ASSUME TypeOK, NEW tab \in Tabs, NEW to, NEW others, Leave(tab, to, others)
  PROVE  /\ Shape(calls') /\ page' = [page EXCEPT ![tab] = to]
         /\ \A a \in Tabs, b \in Calls : calls'[a][b] = IF a = tab THEN Idle ELSE calls[a][b]
BY DEF Leave, TypeOK, Shape

\* A renewal that is given up leaves requests as they are, refuses them, or leaves the page.
LEMMA GiveUpCalls ==
  ASSUME TypeOK, NEW t \in tasks, NEW others, GiveUp(t, others)
  PROVE  /\ Shape(calls') /\ page' \in {page, [page EXCEPT ![t.tab] = "acceso"]}
         /\ \A a \in Tabs, b \in Calls :
              \/ calls'[a][b] \in {calls[a][b], Idle}
              \/ calls'[a][b] = [phase |-> "refused", again |-> calls[a][b].again, pair |-> calls[a][b].pair, waits |-> {}]
<1>0. t.tab \in Tabs
  BY TaskType DEF IsTask
<1>1. CASE Leave(t.tab, "acceso", others)
  BY <1>0, <1>1, LeaveCalls
<1>2. CASE /\ calls' = [calls EXCEPT ![t.tab] = [call \in Calls |->
                          IF call \in Waiting(t) THEN [@[call] EXCEPT !.phase = "refused", !.waits = {}] ELSE @[call]]]
           /\ page' = page
  <2>1. ASSUME NEW b \in Calls
        PROVE  [calls[t.tab][b] EXCEPT !.phase = "refused", !.waits = {}]
                 = [phase |-> "refused", again |-> calls[t.tab][b].again, pair |-> calls[t.tab][b].pair, waits |-> {}]
    <3> DEFINE c == calls[t.tab][b]
               d == [c EXCEPT !.phase = "refused", !.waits = {}]
    <3>1. IsCall(c, issued)
      BY <1>0, CallType
    <3>2. d = [c EXCEPT !.phase = "refused", !.waits = {}]
      OBVIOUS
    <3> HIDE DEF c, d
    <3>3. d = [phase |-> "refused", again |-> c.again, pair |-> c.pair, waits |-> {}]
      BY <3>1, <3>2, WaitsFields
    <3> QED
      BY <3>3 DEF c, d
  <2> QED
    BY <1>0, <1>2, <2>1 DEF TypeOK, Shape
<1> QED
  BY <1>1, <1>2 DEF GiveUp

-------------------------------------------------------------------------------
(* Types.                                                                  *)

\* Tokens and tasks keep their types.
LEMMA TokensTyped ==
  ASSUME TypeOK, NotIssued, HalfIssued, OneRenewal, [Next]_vars
  PROVE  /\ pairs' \in [1..MaxPairs -> Pair] /\ issued' \in 1..MaxPairs /\ issued' \in {issued, issued + 1}
         /\ \A t \in tasks' : IsTask(t, issued')
<1>1. CASE Settles
  <2>1. ASSUME NEW v \in tasks' PROVE IsTask(v, issued)
    <3>1. PICK left \in SUBSET tasks : Inherits(left)
      BY <1>1 DEF Settles, Passes
    <3> QED
      BY <3>1 DEF Inherits, Descends
  <2> QED
    BY <1>1, <2>1, Ranges DEF Settles, Weakened
<1>2. ASSUME NEW n, Arrives(n)
      PROVE  UNCHANGED <<pairs, issued>> /\ \A t \in tasks' : IsTask(t, issued')
  BY <1>2, Ranges DEF Arrives
<1>3. ASSUME NEW t \in tasks, SaveAccess(t)
      PROVE  /\ pairs' \in [1..MaxPairs -> Pair] /\ issued' \in 1..MaxPairs /\ issued' \in {issued, issued + 1}
             /\ \A v \in tasks' : IsTask(v, issued')
  <2>1. PICK u : Moves(t, u) /\ IsTask(u, issued')
    BY <1>3, SaveAccessMoves
  <2>2. issued' = issued + 1 /\ issued \in Nat
    BY <1>3, Ranges DEF SaveAccess
  <2>3. ASSUME NEW v \in tasks' PROVE IsTask(v, issued')
    <3>1. CASE v \in tasks
      <4>1. IsTask(v, issued)
        BY <3>1, Ranges
      <4> QED
        BY <2>2, <4>1 DEF IsTask
    <3> QED
      BY <2>1, <3>1 DEF Moves, With
  <2> QED
    BY <1>3, <2>2, <2>3, SaveAccessPairs
<1>4. ASSUME NEW t \in tasks, SaveRefresh(t)
      PROVE  /\ pairs' \in [1..MaxPairs -> Pair] /\ issued' = issued
             /\ \A v \in tasks' : IsTask(v, issued')
  <2>1. PICK u : Moves(t, u) /\ IsTask(u, issued) /\ issued' = issued
    BY <1>4, SaveRefreshMoves
  <2>2. \A v \in tasks' : IsTask(v, issued)
    BY <2>1, Ranges DEF Moves, With
  <2> QED
    BY <1>4, <2>1, <2>2, SaveRefreshPairs
<1> QED
  BY <1>1, <1>2, <1>3, <1>4, StepKinds, Ranges

\* The cookies, the requests and the pages keep their types.
PagesTyped ==
  /\ jar' \in [access : 0..issued, refresh : 0..issued]
  /\ Shape(calls') /\ \A a \in Tabs, b \in Calls : IsCall(calls'[a][b], issued)
  /\ page' \in [Tabs -> {"app", "acceso"}]

\* They do when one request changes.
LEMMA OneCallTyped ==
  ASSUME TypeOK, NEW tab \in Tabs, NEW call \in Calls, NEW c, Sets(tab, call, c), IsCall(c, issued), UNCHANGED jar,
         page' \in {page, [page EXCEPT ![tab] = "acceso"]}
  PROVE  PagesTyped
BY DEF TypeOK, Sets, PagesTyped

\* They do when nothing of a page changes.
LEMMA StillTyped ==
  ASSUME TypeOK, UNCHANGED <<jar, calls>>, page' = page \/ \E tab \in Tabs : page' = [page EXCEPT ![tab] = "acceso"]
  PROVE  PagesTyped
BY DEF TypeOK, PagesTyped, Shape

\* They do when a page hears, or does not hear, the answer to a task.
LEMMA PageStepTyped ==
  ASSUME TypeOK, NEW t \in tasks, Heard(t) \/ RenewalLost(t) \/ EntryLost(t)
  PROVE  PagesTyped
<1>0. /\ t.tab \in Tabs /\ t.new \in 0..issued /\ 0 \in 0..issued
      /\ page \in [Tabs -> {"app", "acceso"}] /\ jar \in [access : 0..issued, refresh : 0..issued]
      /\ Shape(calls) /\ \A a \in Tabs, b \in Calls : IsCall(calls[a][b], issued)
      /\ IsCall(Idle, issued)
  <2>1. 0 \in 0..issued
    BY Ranges
  <2> QED
    BY <2>1, Ranges, TaskType DEF IsTask, TypeOK, Shape, IsCall, Idle
<1>1. ASSUME NEW others, GiveUp(t, others), jar' \in [access : 0..issued, refresh : 0..issued]
      PROVE  PagesTyped
  <2>1. ASSUME NEW a \in Tabs, NEW b \in Calls PROVE IsCall(calls'[a][b], issued)
    <3>1. IsCall(calls[a][b], issued)
      BY <1>0
    <3>2. \/ calls'[a][b] \in {calls[a][b], Idle}
          \/ calls'[a][b] = [phase |-> "refused", again |-> calls[a][b].again, pair |-> calls[a][b].pair, waits |-> {}]
      BY <1>1, GiveUpCalls
    <3> QED
      BY <1>0, <3>1, <3>2 DEF IsCall
  <2>2. Shape(calls') /\ page' \in {page, [page EXCEPT ![t.tab] = "acceso"]}
    BY <1>1, GiveUpCalls
  <2> QED
    BY <1>0, <1>1, <2>1, <2>2 DEF PagesTyped
<1>2. CASE RenewalAnswered(t)
  <2>1. jar' \in {jar, NoCookies, [access |-> t.new, refresh |-> t.new]}
    BY <1>2 DEF RenewalAnswered, Answer
  <2>2. jar' \in [access : 0..issued, refresh : 0..issued]
    BY <1>0, <2>1 DEF NoCookies
  <2>3. CASE Resend(t) /\ page' = page
    <3>1. ASSUME NEW a \in Tabs, NEW b \in Calls PROVE IsCall(calls'[a][b], issued)
      <4>1. \/ calls'[a][b] = calls[a][b]
            \/ calls'[a][b] = [phase |-> "sent", again |-> TRUE, pair |-> jar'.access, waits |-> {}]
        BY <2>3, ResendCalls
      <4>2. jar'.access \in 0..issued /\ IsCall(calls[a][b], issued)
        BY <1>0, <2>2
      <4>3. IsCall([phase |-> "sent", again |-> TRUE, pair |-> jar'.access, waits |-> {}], issued)
        BY <4>2 DEF IsCall
      <4> QED
        BY <4>1, <4>2, <4>3
    <3> QED
      BY <1>0, <2>2, <2>3, <3>1, ResendCalls DEF PagesTyped
  <2> QED
    BY <1>1, <1>2, <2>2, <2>3 DEF RenewalAnswered
<1>3. CASE LoginAnswered(t)
  <2>1. CASE jar' = [access |-> t.new, refresh |-> t.new] /\ Leave(t.tab, "app", tasks \ {t})
    <3>1. /\ Shape(calls') /\ page' = [page EXCEPT ![t.tab] = "app"]
          /\ \A a \in Tabs, b \in Calls : calls'[a][b] = IF a = t.tab THEN Idle ELSE calls[a][b]
      BY <1>0, <2>1, LeaveCalls
    <3> QED
      BY <1>0, <2>1, <3>1 DEF PagesTyped
  <2> QED
    BY <1>3, <2>1, StillTyped DEF LoginAnswered
<1>4. CASE LogoutAnswered(t)
  <2>1. jar' = NoCookies /\ calls' = calls /\ page' = [page EXCEPT ![t.tab] = "acceso"]
    BY <1>4 DEF LogoutAnswered
  <2> QED
    BY <1>0, <2>1 DEF PagesTyped, NoCookies
<1>5. CASE Unheard(t) \/ EntryLost(t)
  BY <1>0, <1>5, StillTyped DEF Unheard, EntryLost
<1>6. CASE RenewalLost(t)
  BY <1>0, <1>1, <1>6 DEF RenewalLost
<1> QED
  BY <1>2, <1>3, <1>4, <1>5, <1>6 DEF Heard

\* The cookies, the requests and the pages keep their types.
LEMMA PagesStep ==
  ASSUME TypeOK, [Next]_vars
  PROVE  PagesTyped
<1>1. CASE UNCHANGED vars
  BY <1>1, StillTyped DEF vars
<1>2. ASSUME NEW tab \in Tabs, NEW call \in Calls, Ask(tab, call) PROVE PagesTyped
  <2>1. IsCall([phase |-> "sent", again |-> FALSE, pair |-> jar.access, waits |-> {}], issued)
    BY Ranges DEF IsCall
  <2>2. UNCHANGED <<jar, page>>
    BY <1>2 DEF Ask
  <2> QED
    BY <1>2, <2>1, <2>2, AskCall, OneCallTyped
<1>3. ASSUME NEW tab \in Tabs, NEW call \in Calls, Serve(tab, call) \/ ServeFails(tab, call) PROVE PagesTyped
  <2>1. UNCHANGED <<jar, page>>
    BY <1>3 DEF Serve, ServeFails
  <2> QED
    BY <1>3, <2>1, ServeCall, OneCallTyped
<1>4. ASSUME NEW tab \in Tabs, NEW call \in Calls, Answered(tab, call) PROVE PagesTyped
  <2>1. PICK c : Sets(tab, call, c) /\ IsCall(c, issued) /\ page' \in {page, [page EXCEPT ![tab] = "acceso"]}
    BY <1>4, AnsweredCall
  <2>2. UNCHANGED jar
    BY <1>4 DEF Answered
  <2> QED
    BY <2>1, <2>2, OneCallTyped
<1>5. ASSUME NEW t \in tasks, Server(t) \/ StoreFails(t) PROVE PagesTyped
  <2>1. UNCHANGED <<jar, calls, page>>
    BY <1>5 DEF Server, Read, RevokeFamily, RevokeOld, SaveAccess, SaveRefresh, Check, RevokeSession, StoreFails
  <2> QED
    BY <2>1, StillTyped
<1>6. ASSUME NEW tab \in Tabs, NEW kind \in {"login", "logout"}, Enter(tab, kind) PROVE PagesTyped
  BY <1>6, StillTyped DEF Enter
<1>7. ASSUME NEW p \in 1..issued, NEW token \in {"access", "refresh"}, Expire(p, token) PROVE PagesTyped
  <2>1. jar' \in [access : 0..issued, refresh : 0..issued]
    BY <1>7, Ranges DEF Expire
  <2>2. UNCHANGED <<calls, page>>
    BY <1>7 DEF Expire
  <2> QED
    BY <2>1, <2>2 DEF TypeOK, PagesTyped, Shape
<1> QED
  BY <1>1, <1>2, <1>3, <1>4, <1>5, <1>6, <1>7, PageStepTyped DEF Next

\* The history and the bounds keep their types.
LEMMA HistoryStep ==
  ASSUME TypeOK, [Next]_vars
  PROVE  /\ why' \subseteq {"fault", "logout", "expired", "crossed"}
         /\ clicks' \in 0..MaxClicks /\ trouble' \in 0..MaxTrouble
<1>0. /\ why \subseteq {"fault", "logout", "expired", "crossed"}
      /\ clicks \in 0..MaxClicks /\ trouble \in 0..MaxTrouble /\ MaxClicks \in Nat /\ MaxTrouble \in Nat
  BY SessionsAssumption DEF TypeOK
<1> SUFFICES /\ why' \subseteq why \cup {"fault", "logout", "expired", "crossed"}
             /\ clicks' = clicks \/ (clicks < MaxClicks /\ clicks' = clicks + 1)
             /\ trouble' = trouble \/ (trouble < MaxTrouble /\ trouble' = trouble + 1)
  BY <1>0
<1>1. CASE UNCHANGED vars
  BY <1>1 DEF vars
<1>2. ASSUME NEW tab \in Tabs, NEW call \in Calls, Ask(tab, call)
      PROVE  UNCHANGED <<why, trouble>> /\ clicks < MaxClicks /\ clicks' = clicks + 1
  BY <1>2 DEF Ask, Click
<1>3. ASSUME NEW tab \in Tabs, NEW call \in Calls, Serve(tab, call)
      PROVE  UNCHANGED <<why, trouble, clicks>>
  BY <1>3 DEF Serve, Keep
<1>4. ASSUME NEW tab \in Tabs, NEW call \in Calls, Answered(tab, call)
      PROVE  UNCHANGED <<trouble, clicks>> /\ why' \subseteq why \cup {"crossed"}
  BY <1>4 DEF Answered
<1>5. ASSUME NEW t \in tasks, Server(t)
      PROVE  UNCHANGED <<why, trouble, clicks>>
  BY <1>5 DEF Server, Read, RevokeFamily, RevokeOld, SaveAccess, SaveRefresh, Check, RevokeSession, Keep
<1>6. ASSUME NEW t \in tasks, StoreFails(t) \/ RenewalLost(t) \/ EntryLost(t)
      PROVE  clicks' = clicks /\ trouble < MaxTrouble /\ trouble' = trouble + 1 /\ why' = why \cup {"fault"}
  BY <1>6 DEF StoreFails, RenewalLost, EntryLost, Fault
<1>7. ASSUME NEW t \in tasks, Heard(t)
      PROVE  UNCHANGED <<why, trouble, clicks>>
  BY <1>7 DEF Heard, RenewalAnswered, LoginAnswered, LogoutAnswered, Unheard, Keep
<1>8. ASSUME NEW tab \in Tabs, NEW kind \in {"login", "logout"}, Enter(tab, kind)
      PROVE  trouble' = trouble /\ clicks < MaxClicks /\ clicks' = clicks + 1 /\ why' \subseteq why \cup {"logout"}
  BY <1>8 DEF Enter, Click
<1>9. ASSUME NEW p \in 1..issued, NEW token \in {"access", "refresh"}, Expire(p, token)
      PROVE  clicks' = clicks /\ trouble < MaxTrouble /\ trouble' = trouble + 1 /\ why' \subseteq why \cup {"expired"}
  BY <1>9 DEF Expire
<1>10. CASE \E tab \in Tabs, call \in Calls :
               Ask(tab, call) \/ Serve(tab, call) \/ ServeFails(tab, call) \/ Answered(tab, call)
  <2>1. ASSUME NEW tab \in Tabs, NEW call \in Calls, ServeFails(tab, call)
        PROVE  clicks' = clicks /\ trouble < MaxTrouble /\ trouble' = trouble + 1 /\ why' = why \cup {"fault"}
    BY <2>1 DEF ServeFails, Fault
  <2> QED
    BY <1>2, <1>3, <1>4, <1>10, <2>1
<1>11. CASE \E t \in tasks : Server(t) \/ StoreFails(t) \/ Heard(t) \/ RenewalLost(t) \/ EntryLost(t)
  BY <1>5, <1>6, <1>7, <1>11
<1> QED
  BY <1>1, <1>8, <1>9, <1>10, <1>11 DEF Next

\* Every variable keeps its type.
LEMMA TypeStep ==
  ASSUME TypeOK, NotIssued, HalfIssued, OneRenewal, [Next]_vars
  PROVE  TypeOK'
<1>1. /\ pairs' \in [1..MaxPairs -> Pair] /\ issued' \in 1..MaxPairs /\ issued' \in {issued, issued + 1}
      /\ \A t \in tasks' : IsTask(t, issued')
  BY TokensTyped
<1>2. PagesTyped
  BY PagesStep
<1>3. 0..issued \subseteq 0..issued'
  BY <1>1, Ranges
<1>4. jar' \in [access : 0..issued', refresh : 0..issued']
  BY <1>2, <1>3 DEF PagesTyped
<1>5. \A a \in Tabs, b \in Calls : IsCall(calls'[a][b], issued')
  BY <1>2, <1>3 DEF PagesTyped, IsCall
<1> QED
  BY <1>1, <1>2, <1>4, <1>5, HistoryStep DEF PagesTyped, Shape, TypeOK, IsTask, IsCall

-------------------------------------------------------------------------------
(* Good renewals.                                                          *)

\* While nothing has happened that ends a session, no token was used twice at a time and what
\* GoodRenewals says holds.
LEMMA Quiet ==
  ASSUME GoodRenewals, why = {}
  PROVE  "crossed" \notin why /\ GoodCookies /\ GoodPages /\ \A t \in tasks : GoodTask(t)
BY DEF GoodRenewals

\* A renewal is replaced by where it goes on.
LEMMA MovesCookies ==
  ASSUME GoodCookies, NEW t \in tasks, NEW u, Moves(t, u), jar' = jar,
         \/ pairs'[jar.refresh].refresh = pairs[jar.refresh].refresh
         \/ pairs'[jar.refresh].refresh = "good"
         \/ Renew(t) /\ t.pair = jar.refresh
  PROVE  GoodCookies'
<1>1. u \in tasks' /\ \A x \in tasks : x # t => x \in tasks'
  BY DEF Moves, With
<1>2. Renew(t) /\ t.pair = jar.refresh => \E x \in tasks' : Renew(x) /\ x.pair = jar'.refresh
  BY <1>1 DEF Moves, Renew
<1>3. (\E x \in tasks : Renew(x) /\ x.pair = jar.refresh) => \E x \in tasks' : Renew(x) /\ x.pair = jar'.refresh
  BY <1>1, <1>2
<1> QED
  BY <1>2, <1>3 DEF GoodCookies, Renew

\* While nothing goes wrong, what the server does leads every renewal on.
LEMMA GoodServer ==
  ASSUME TypeOK, NotIssued, Undelivered, HalfIssued, OneRenewal, OneRight, GoodRenewals, why = {},
         NEW t \in tasks, Server(t)
  PROVE  GoodCookies' /\ \A v \in tasks' : GoodTask(v)'
<1>0. /\ GoodTask(t) /\ GoodCookies /\ \A x \in tasks : GoodTask(x)
      /\ \A x, y \in tasks : Renew(x) /\ Renew(y) /\ x.pair = y.pair /\ x.pair # 0 => x = y
      /\ \A x \in tasks : x.pair \in 0..issued /\ x.new \in 0..issued
      /\ issued \in 1..MaxPairs /\ MaxPairs \in Nat /\ jar.refresh \in 0..issued
      /\ pairs \in [1..MaxPairs -> Pair]
  BY Quiet, RightParts, Ranges
<1>1. ASSUME NEW u, Moves(t, u), GoodTask(u)', \A x \in tasks \ {t} : GoodTask(x)'
      PROVE  \A v \in tasks' : GoodTask(v)'
  BY <1>1 DEF Moves, With
<1>2. CASE Read(t)
  <2>1. PICK u : /\ Moves(t, u) /\ IsTask(u, issued) /\ u.new = t.new
                 /\ UNCHANGED <<pairs, jar, calls, page, issued, why>>
                 /\ Renew(t) /\ t.phase = "asked"
                 /\ t.pair # 0 /\ pairs[t.pair].refresh = "good" => u.phase = "found"
    BY <1>2, ReadMoves
  <2>2. GoodTask(u)' /\ \A x \in tasks : GoodTask(x)'
    BY <1>0, <2>1 DEF GoodTask, Moves, Renew
  <2>3. GoodCookies'
    BY <1>0, <2>1, MovesCookies
  <2> QED
    BY <1>1, <2>1, <2>2, <2>3
<1>3. CASE RevokeOld(t)
  <2>1. PICK u : /\ Moves(t, u) /\ IsTask(u, issued) /\ u.new = t.new
                 /\ UNCHANGED <<jar, calls, page, issued, why>>
                 /\ Renew(t) /\ t.phase = "found" /\ u.phase = "issue"
    BY <1>3, RevokeOldMoves
  <2>2. \A p \in 1..MaxPairs : pairs'[p].access = pairs[p].access /\ (p # t.pair => pairs'[p] = pairs[p])
    <3>1. pairs' = [pairs EXCEPT ![t.pair].refresh = Revoked(@)]
      BY <1>3 DEF RevokeOld
    <3> QED
      BY <1>0, <3>1 DEF Pair
  <2>3. ASSUME NEW x \in tasks \ {t} PROVE GoodTask(x)'
    <3>1. GoodTask(x) /\ x \in tasks
      BY <1>0
    <3>2. Renew(x) => x.pair \in 1..MaxPairs /\ x.pair # t.pair
      BY <1>0, <2>1, <3>1 DEF GoodTask
    <3>3. x.new # 0 => x.new \in 1..MaxPairs /\ x.new # t.pair
      BY <1>0, <2>1, <3>1 DEF GoodTask, Undelivered, Issuing
    <3> QED
      BY <2>1, <2>2, <3>1, <3>2, <3>3 DEF GoodTask, Renew
  <2>4. GoodTask(u)'
    BY <1>0, <2>1 DEF GoodTask, Moves, Renew
  <2>5. GoodCookies'
    <3>1. jar.refresh \in 1..MaxPairs
      BY <1>0 DEF GoodCookies
    <3> QED
      BY <1>0, <2>1, <2>2, <3>1, MovesCookies
  <2> QED
    BY <1>1, <2>1, <2>3, <2>4, <2>5
<1>4. CASE SaveAccess(t)
  <2>1. PICK u : /\ Moves(t, u) /\ u.new = issued' /\ UNCHANGED <<jar, calls, page, why>>
                 /\ t.phase = "issue" /\ u.phase = "half"
    BY <1>4, SaveAccessMoves
  <2>2. /\ issued' \in 1..MaxPairs /\ pairs'[issued'].access = "good"
        /\ \A p \in 1..issued : pairs'[p] = pairs[p]
    <3>1. pairs'[issued'] = [family |-> Family(t), access |-> "good", refresh |-> "none"]
      BY <1>4, SaveAccessPairs
    <3> QED
      BY <1>4, <3>1, SaveAccessPairs
  <2>3. ASSUME NEW x \in tasks PROVE GoodTask(x)'
    <3>1. GoodTask(x) /\ (x.pair # 0 => x.pair \in 1..issued) /\ (x.new # 0 => x.new \in 1..issued)
      BY <1>0
    <3> QED
      BY <2>1, <2>2, <3>1 DEF GoodTask, Renew
  <2>4. GoodTask(u)'
    <3>1. u.new # 0
      BY <2>1, <2>2
    <3> QED
      BY <1>0, <2>1, <2>2, <3>1 DEF GoodTask, Moves, Renew
  <2>5. GoodCookies'
    <3>1. jar.refresh \in 1..issued
      BY <1>0 DEF GoodCookies
    <3> QED
      BY <1>0, <2>1, <2>2, <3>1, MovesCookies
  <2> QED
    BY <1>1, <2>1, <2>3, <2>4, <2>5
<1>5. CASE SaveRefresh(t)
  <2>1. PICK u : /\ Moves(t, u) /\ u.new = t.new /\ UNCHANGED <<jar, calls, page, issued, why>>
                 /\ t.phase = "half" /\ u.phase \in {"saved", "good"} /\ (Renew(t) => u.phase = "saved")
    BY <1>5, SaveRefreshMoves
  <2>2. \A p \in 1..MaxPairs : /\ pairs'[p].access = pairs[p].access
                               /\ pairs'[p].refresh \in {pairs[p].refresh, "good"}
    BY <1>5, SaveRefreshPairs
  <2>3. ASSUME NEW x \in tasks PROVE GoodTask(x)'
    <3>1. GoodTask(x) /\ (x.pair # 0 => x.pair \in 1..MaxPairs) /\ (x.new # 0 => x.new \in 1..MaxPairs)
      BY <1>0
    <3> QED
      BY <2>1, <2>2, <3>1 DEF GoodTask, Renew
  <2>4. GoodTask(u)'
    <3>1. t.new \in 1..MaxPairs /\ t.new # 0 /\ pairs'[t.new].refresh = "good"
      BY <1>5, SaveRefreshPairs
    <3> QED
      BY <1>0, <2>1, <2>2, <3>1 DEF GoodTask, Moves, Renew
  <2>5. GoodCookies'
    <3>1. jar.refresh \in 1..MaxPairs
      BY <1>0 DEF GoodCookies
    <3> QED
      BY <1>0, <2>1, <2>2, <3>1, MovesCookies
  <2> QED
    BY <1>1, <2>1, <2>3, <2>4, <2>5
<1>6. CASE Check(t)
  <2>1. PICK u : /\ Moves(t, u) /\ u.new = t.new /\ UNCHANGED <<pairs, jar, calls, page, issued, why>>
                 /\ Renew(t) /\ t.phase = "saved" /\ (pairs[t.new].access = "good" => u.phase = "good")
    BY <1>6, CheckMoves
  <2>2. GoodTask(u)' /\ \A x \in tasks : GoodTask(x)'
    BY <1>0, <2>1 DEF GoodTask, Moves, Renew
  <2>3. GoodCookies'
    BY <1>0, <2>1, MovesCookies
  <2> QED
    BY <1>1, <2>1, <2>2, <2>3
<1>7. ~RevokeFamily(t) /\ ~RevokeSession(t)
  BY <1>0, TaskType DEF RevokeFamily, RevokeSession, GoodTask, Renew, Phases
<1> QED
  BY <1>2, <1>3, <1>4, <1>5, <1>6, <1>7 DEF Server

\* While nothing goes wrong, a page hears of good renewals and of logins only.
LEMMA GoodHeard ==
  ASSUME TypeOK, Undelivered, GoodRenewals, why = {}, NEW t \in tasks, Heard(t)
  PROVE  GoodCookies' /\ GoodPages' /\ \A v \in tasks' : GoodTask(v)'
<1>0. /\ GoodTask(t) /\ GoodCookies /\ GoodPages /\ \A x \in tasks : GoodTask(x)
      /\ t.tab \in Tabs /\ Me \in Calls /\ UNCHANGED pairs
  BY Quiet, TaskType, SessionsAssumption
     DEF IsTask, Heard, RenewalAnswered, LoginAnswered, LogoutAnswered, Unheard
<1>1. ASSUME t.phase = "good", t.kind # "logout", jar' = [access |-> t.new, refresh |-> t.new]
      PROVE  /\ GoodCookies' /\ t.new > 1 /\ jar'.access = t.new
             /\ \A x \in tasks : Renew(x) => x.pair # jar'.refresh
  <2>1. t.new # 0 /\ pairs[t.new].refresh = "good"
    BY <1>0, <1>1 DEF GoodTask
  <2>2. t.new > 1 /\ \A x \in tasks : Renew(x) => x.pair # t.new
    BY <1>1, <2>1 DEF Undelivered, Issuing
  <2> QED
    BY <1>0, <1>1, <2>1, <2>2 DEF GoodCookies
<1>2. CASE RenewalAnswered(t)
  <2>1. t.kind = "renew" /\ t.phase = "good"
    BY <1>0, <1>2 DEF RenewalAnswered, Answer, GoodTask, Renew
  <2>2. jar' = [access |-> t.new, refresh |-> t.new] /\ Resend(t) /\ tasks' = tasks \ {t} /\ page' = page
    BY <1>2, <2>1 DEF RenewalAnswered
  <2>3. ASSUME NEW v \in tasks' PROVE GoodTask(v)'
    BY <1>0, <1>1, <2>1, <2>2 DEF GoodTask, Renew
  <2>4. \A a \in Tabs, b \in Calls :
          \/ calls'[a][b] = calls[a][b]
          \/ calls'[a][b].phase = "sent" /\ calls'[a][b].pair > 1 /\ calls[a][b].phase = "waits"
    BY <1>1, <2>1, <2>2, ResendCalls
  <2>5. GoodPages'
    BY <1>0, <2>2, <2>4 DEF GoodPages
  <2> QED
    BY <1>1, <2>1, <2>2, <2>3, <2>5
<1>3. CASE LoginAnswered(t) /\ t.phase = "good"
  <2>1. jar' = [access |-> t.new, refresh |-> t.new] /\ Leave(t.tab, "app", tasks \ {t}) /\ t.kind = "login"
    BY <1>3 DEF LoginAnswered
  <2>2. ASSUME NEW v \in tasks' PROVE GoodTask(v)'
    <3>1. PICK x \in tasks : v = IF x.tab = t.tab THEN [x EXCEPT !.orphan = TRUE] ELSE x
      BY <2>1 DEF Leave
    <3>2. IsTask(x, issued) /\ GoodTask(x)
      BY <1>0, TaskType
    <3>3. v.kind = x.kind /\ v.phase = x.phase /\ v.pair = x.pair /\ v.new = x.new
      BY <3>1, <3>2, OrphanOfTask
    <3> QED
      BY <1>0, <1>1, <1>3, <2>1, <3>2, <3>3 DEF GoodTask, Renew
  <2>3. /\ page' = [page EXCEPT ![t.tab] = "app"]
        /\ \A a \in Tabs, b \in Calls : calls'[a][b] = IF a = t.tab THEN Idle ELSE calls[a][b]
    BY <1>0, <2>1, LeaveCalls
  <2>4. GoodPages'
    BY <1>0, <2>3 DEF GoodPages, TypeOK, Idle
  <2> QED
    BY <1>1, <1>3, <2>1, <2>2, <2>4
<1>4. ASSUME tasks' = tasks \ {t}, UNCHANGED <<jar, calls, page>>, Renew(t) => t.orphan
      PROVE  GoodCookies' /\ GoodPages' /\ \A v \in tasks' : GoodTask(v)'
  <2>1. \A v \in tasks' : GoodTask(v)'
    BY <1>0, <1>4 DEF GoodTask, Renew
  <2>2. GoodCookies'
    BY <1>0, <1>4 DEF GoodCookies, GoodTask, Renew
  <2>3. GoodPages'
    BY <1>0, <1>4 DEF GoodPages
  <2> QED
    BY <2>1, <2>2, <2>3
<1>5. CASE LoginAnswered(t) /\ t.phase # "good"
  BY <1>4, <1>5 DEF LoginAnswered, Renew
<1>6. CASE Unheard(t)
  BY <1>4, <1>6 DEF Unheard
<1>7. ~LogoutAnswered(t)
  BY <1>0 DEF LogoutAnswered, GoodTask
<1> QED
  BY <1>2, <1>3, <1>5, <1>6, <1>7 DEF Heard

\* While nothing goes wrong, a renewal that starts has a good token.
LEMMA GoodArrives ==
  ASSUME TypeOK, GoodRenewals, why' = {}, NEW n, Arrives(n), n.kind # "logout", ~Renew(n) => n.phase = "issue"
  PROVE  GoodCookies' /\ \A v \in tasks' : GoodTask(v)'
<1>1. /\ why = {} /\ tasks' = tasks \cup {n} /\ UNCHANGED <<pairs, jar>>
      /\ Renew(n) => /\ n.pair = jar.refresh /\ ~n.orphan /\ n.phase = "asked" /\ ~Crossed(tasks')
                     /\ \A u \in tasks : Renew(u) /\ u.tab = n.tab => u.orphan
  BY DEF Arrives
<1>2. GoodCookies /\ \A x \in tasks : GoodTask(x)
  BY <1>1, Quiet
<1>3. GoodCookies'
  BY <1>1, <1>2 DEF GoodCookies
<1>4. \A x \in tasks : GoodTask(x)'
  BY <1>1, <1>2 DEF GoodTask
<1>5. CASE Renew(n)
  <2>1. ASSUME NEW x \in tasks, Renew(x), x.pair = jar.refresh PROVE FALSE
    <3>1. x.pair # 0 /\ n.pair = x.pair
      BY <1>1, <1>2, <1>5, <2>1 DEF GoodCookies
    <3> QED
      BY <1>1, <1>5, <2>1, <3>1 DEF Crossed, Renew
  <2>2. pairs[jar.refresh].refresh = "good" /\ jar.refresh # 0
    BY <1>2, <2>1 DEF GoodCookies
  <2>3. GoodTask(n)'
    BY <1>1, <1>5, <2>2 DEF GoodTask, Renew
  <2> QED
    BY <1>1, <1>3, <1>4, <2>3
<1>6. CASE ~Renew(n)
  <2>1. GoodTask(n)'
    BY <1>6 DEF GoodTask, Renew
  <2> QED
    BY <1>1, <1>3, <1>4, <2>1
<1> QED
  BY <1>5, <1>6

\* A request that is sent or answered, while nothing goes wrong, is refused for good with a new token
\* only.
LEMMA GoodRequests ==
  ASSUME TypeOK, GoodRenewals, why = {}, NEW tab \in Tabs, NEW call \in Calls,
         Ask(tab, call) \/ Serve(tab, call) \/ Answered(tab, call)
  PROVE  GoodPages'
<1>0. GoodPages /\ page \in [Tabs -> {"app", "acceso"}] /\ Me \in Calls
  BY Quiet, SessionsAssumption DEF TypeOK
<1>1. CASE Ask(tab, call)
  <2>1. page' = page /\ page[tab] = "app"
    BY <1>1 DEF Ask
  <2> QED
    BY <1>0, <1>1, <2>1, AskCall DEF Sets, GoodPages
<1>2. CASE Serve(tab, call)
  <2>1. page' = page /\ calls[tab][call].phase = "sent"
    BY <1>2 DEF Serve
  <2>2. PICK c : /\ Sets(tab, call, c) /\ c.phase \in {"ok", "denied"}
                 /\ c.again = calls[tab][call].again /\ c.pair = calls[tab][call].pair
    BY <1>2, ServeCall
  <2> QED
    BY <1>0, <2>1, <2>2 DEF Sets, GoodPages
<1>3. CASE Answered(tab, call)
  <2>1. PICK c : /\ Sets(tab, call, c)
                 /\ \/ c.phase = "idle" /\ ~c.again /\ calls[tab][call].phase = "ok" /\ page' = page
                    \/ /\ c.phase = "refused" /\ ~c.again /\ c.pair = calls[tab][call].pair
                       /\ calls[tab][call].phase = "denied" /\ calls[tab][call].again
                       /\ page' = IF call = Me THEN [page EXCEPT ![tab] = "acceso"] ELSE page
                    \/ c.phase = "waits" /\ ~c.again /\ calls[tab][call].phase = "denied" /\ page' = page
    BY <1>3, AnsweredCall
  <2>2. \A a \in Tabs, b \in Calls :
          calls'[a][b].again \/ calls'[a][b].phase = "refused" => calls'[a][b].pair > 1
    BY <1>0, <2>1 DEF Sets, GoodPages
  <2>3. ASSUME NEW a \in Tabs, page'[a] = "acceso" PROVE calls'[a][Me].phase = "refused"
    BY <1>0, <2>1, <2>3 DEF Sets, GoodPages
  <2> QED
    BY <2>2, <2>3 DEF GoodPages
<1> QED
  BY <1>1, <1>2, <1>3

\* Without a reason no renewal fails and nobody is sent away.
LEMMA GoodStep ==
  ASSUME IInv, [Next]_vars
  PROVE  GoodRenewals'
<1> USE DEF IInv
<1>0. SUFFICES ASSUME why' = {} PROVE GoodCookies' /\ GoodPages' /\ \A v \in tasks' : GoodTask(v)'
  BY DEF GoodRenewals
<1>1. ASSUME why = {}, UNCHANGED tasks, jar'.refresh = jar.refresh,
             \A p \in 1..MaxPairs : /\ pairs'[p].refresh = pairs[p].refresh
                                    /\ pairs'[p].access = pairs[p].access \/ \A t \in tasks : t.new # p
      PROVE  GoodCookies' /\ \A v \in tasks' : GoodTask(v)'
  <2>1. GoodCookies /\ \A x \in tasks : GoodTask(x)
    BY <1>1, Quiet
  <2>2. jar.refresh \in 1..MaxPairs
    BY <2>1, Ranges DEF GoodCookies
  <2>3. ASSUME NEW x \in tasks PROVE GoodTask(x)'
    <3>1. GoodTask(x) /\ (x.pair # 0 => x.pair \in 1..MaxPairs) /\ (x.new # 0 => x.new \in 1..MaxPairs)
      BY <2>1, Ranges
    <3> QED
      BY <1>1, <3>1 DEF GoodTask, Renew
  <2> QED
    BY <1>1, <2>1, <2>2, <2>3 DEF GoodCookies, Renew
<1>2. CASE UNCHANGED vars
  <2>1. why = {} /\ UNCHANGED <<pairs, tasks, jar, calls, page>>
    BY <1>0, <1>2 DEF vars
  <2>2. GoodPages'
    BY <2>1, Quiet DEF GoodPages
  <2> QED
    BY <1>1, <2>1, <2>2
<1>3. ASSUME NEW tab \in Tabs, NEW call \in Calls, Ask(tab, call) \/ Serve(tab, call)
      PROVE  GoodCookies' /\ GoodPages' /\ \A v \in tasks' : GoodTask(v)'
  <2>1. why = {} /\ UNCHANGED <<pairs, tasks, jar>>
    BY <1>0, <1>3 DEF Ask, Serve, Keep
  <2> QED
    BY <1>1, <1>3, <2>1, GoodRequests
<1>4. ASSUME NEW tab \in Tabs, NEW call \in Calls, Answered(tab, call)
      PROVE  GoodCookies' /\ GoodPages' /\ \A v \in tasks' : GoodTask(v)'
  <2>1. why = {} /\ UNCHANGED <<pairs, jar>>
    BY <1>0, <1>4 DEF Answered
  <2>2. GoodPages'
    BY <1>4, <2>1, GoodRequests
  <2>3. CASE tasks' = tasks
    BY <1>1, <2>1, <2>2, <2>3
  <2>4. CASE tasks' # tasks
    <3>1. PICK n : Arrives(n) /\ n.kind = "renew"
      BY <1>4, <2>4, AnsweredStarts
    <3> QED
      BY <1>0, <2>2, <3>1, GoodArrives DEF Renew
  <2> QED
    BY <2>3, <2>4
<1>5. ASSUME NEW t \in tasks, Server(t)
      PROVE  GoodCookies' /\ GoodPages' /\ \A v \in tasks' : GoodTask(v)'
  <2>1. why = {} /\ UNCHANGED <<calls, page>>
    BY <1>0, <1>5 DEF Server, Read, RevokeFamily, RevokeOld, SaveAccess, SaveRefresh, Check, RevokeSession, Keep
  <2>2. GoodPages'
    BY <2>1, Quiet DEF GoodPages
  <2> QED
    BY <1>5, <2>1, <2>2, GoodServer
<1>6. ASSUME NEW t \in tasks, Heard(t)
      PROVE  GoodCookies' /\ GoodPages' /\ \A v \in tasks' : GoodTask(v)'
  <2>1. why = {}
    BY <1>0, <1>6 DEF Heard, RenewalAnswered, LoginAnswered, LogoutAnswered, Unheard, Keep
  <2> QED
    BY <1>6, <2>1, GoodHeard
<1>7. /\ \A t \in tasks : ~StoreFails(t) /\ ~RenewalLost(t) /\ ~EntryLost(t)
      /\ \A tab \in Tabs, call \in Calls : ~ServeFails(tab, call)
  BY <1>0 DEF StoreFails, RenewalLost, EntryLost, ServeFails, Fault
<1>8. ASSUME NEW tab \in Tabs, NEW kind \in {"login", "logout"}, Enter(tab, kind)
      PROVE  GoodCookies' /\ GoodPages' /\ \A v \in tasks' : GoodTask(v)'
  <2>1. kind = "login" /\ why = {} /\ UNCHANGED <<calls, page>>
    BY <1>0, <1>8 DEF Enter
  <2>2. PICK n : Arrives(n) /\ n.kind = "login" /\ n.phase = "issue"
    BY <1>8, <2>1, EnterArrives
  <2>3. GoodPages'
    BY <2>1, Quiet DEF GoodPages
  <2> QED
    BY <1>0, <2>2, <2>3, GoodArrives
<1>9. ASSUME NEW p \in 1..issued, NEW token \in {"access", "refresh"}, Expire(p, token)
      PROVE  GoodCookies' /\ GoodPages' /\ \A v \in tasks' : GoodTask(v)'
  <2>1. token = "access" /\ why = {} /\ UNCHANGED <<tasks, calls, page>>
    BY <1>0, <1>9 DEF Expire
  <2>2. /\ jar'.refresh = jar.refresh /\ \A t \in tasks : t.new # p
        /\ pairs' = [pairs EXCEPT ![p].access = "expired", ![p].refresh = @]
    BY <1>9, <2>1 DEF Expire
  <2>3. \A q \in 1..MaxPairs : /\ pairs'[q].refresh = pairs[q].refresh
                               /\ pairs'[q].access = pairs[q].access \/ \A t \in tasks : t.new # q
    BY <2>2, Ranges DEF Pair
  <2>4. GoodPages'
    BY <2>1, Quiet DEF GoodPages
  <2> QED
    BY <1>1, <2>1, <2>2, <2>3, <2>4
<1> QED
  BY <1>2, <1>3, <1>4, <1>5, <1>6, <1>7, <1>8, <1>9 DEF Next

-------------------------------------------------------------------------------
\* Init establishes the invariant.
LEMMA InitInvariant ==
  ASSUME Init
  PROVE  IInv
<1>1. /\ MaxPairs \in Nat \ {0} /\ 1 \in 1..MaxPairs /\ MaxClicks \in Nat /\ MaxTrouble \in Nat /\ Me \in Calls
      /\ tasks = {} /\ why = {} /\ issued = 1 /\ jar = [access |-> 1, refresh |-> 1]
      /\ pairs = [p \in 1..MaxPairs |-> IF p = 1 THEN [family |-> 1, access |-> "good", refresh |-> "good"] ELSE NoPair]
  BY SessionsAssumption DEF Init
<1>2. /\ pairs[1].refresh = "good" /\ pairs[1].family = 1
      /\ \A p \in 1..MaxPairs : p # 1 => pairs[p].refresh = "none" /\ pairs[p].family = 0
  BY <1>1 DEF NoPair
<1>3. pairs \in [1..MaxPairs -> Pair]
  BY <1>1 DEF Pair, Token, NoPair
<1>4. /\ DOMAIN calls = Tabs /\ \A tab \in Tabs : DOMAIN calls[tab] = Calls
      /\ \A tab \in Tabs, call \in Calls : calls[tab][call] = Idle
      /\ page \in [Tabs -> {"app", "acceso"}] /\ \A tab \in Tabs : page[tab] = "app"
      /\ clicks = 0 /\ trouble = 0
  BY DEF Init
<1>5. IsCall(Idle, 1) /\ Idle.phase = "idle" /\ ~Idle.again
  BY DEF IsCall, Idle
<1>6. TypeOK
  BY <1>1, <1>3, <1>4, <1>5 DEF TypeOK
<1>7. NotIssued
  BY <1>1, <1>2 DEF NotIssued
<1>8. OneRight
  BY <1>1, <1>2 DEF OneRight, OneLiveRefresh
<1>9. GoodRenewals
  BY <1>1, <1>2, <1>4, <1>5 DEF GoodRenewals, GoodCookies, GoodPages
<1> QED
  BY <1>1, <1>6, <1>7, <1>8, <1>9 DEF IInv, Undelivered, HalfIssued, OneRenewal

\* Every reachable state satisfies the invariant.
THEOREM Invariant == Spec => []IInv
<1>1. Init => IInv
  BY InitInvariant
<1>2. IInv /\ [Next]_vars => IInv'
  BY TypeStep, NotIssuedStep, UndeliveredStep, HalfIssuedStep, OneRenewalStep, OneRightStep, GoodStep DEF IInv
<1> QED
  BY <1>1, <1>2, PTL DEF Spec

\* Refresh rotates (auth/service.go:172-207): however requests, losses, logouts and failures fall, at
\* most one refresh token of a family is good, unless one token was used twice at a time.
THEOREM OneRightPerFamily == Spec => []OneLiveRefresh
<1>1. IInv => OneLiveRefresh
  BY DEF IInv, OneRight, OneLiveRefresh
<1> QED
  BY <1>1, Invariant, PTL

\* The renewal does not expel the user it is there to save (lib/api-client.ts:55): a page is sent to
\* /acceso, and a request is refused for good with its first token, only if an answer or a call of the
\* store was lost, somebody logged out, the refresh token ran out, or two tabs used one refresh token.
THEOREM NobodyExpelled == Spec => []ExpelledForAReason
<1>1. IInv => ExpelledForAReason
  BY DEF IInv, GoodRenewals, GoodPages, ExpelledForAReason
<1> QED
  BY <1>1, Invariant, PTL

===============================================================================
