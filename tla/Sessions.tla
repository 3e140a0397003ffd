-------------------------------- MODULE Sessions --------------------------------
(***************************************************************************)
(* The session of a user: Login, Refresh and Logout of auth/service.go     *)
(* with their handlers, and the pages that keep it alive: apiFetch and     *)
(* renovarSesion of api-client.ts, account-service.ts and the pages that   *)
(* call them.                                                              *)
(*                                                                         *)
(* A pair is an access and a refresh token issued together; pairs are      *)
(* numbered in the order they are issued, and 0 is no pair.  All the tabs  *)
(* of the browser share one jar of cookies, and each has a renewal of its  *)
(* own.  The store is called once per step of the server.                  *)
(***************************************************************************)
EXTENDS Naturals, FiniteSets

CONSTANTS
  Tabs,          \* pages of the web application
  Calls,         \* requests a page may have under way
  Me,            \* the request that checks the session when a page opens
  MaxPairs,      \* bound: pairs issued, the first included
  MaxClicks,     \* bound: requests, logins and logouts
  MaxTrouble     \* bound: tokens whose time runs out, answers lost, calls of the store that fail

ASSUME SessionsAssumption ==
  /\ Me \in Calls /\ MaxPairs \in Nat \ {0} /\ {MaxClicks, MaxTrouble} \subseteq Nat

VARIABLES
  pairs,     \* the sessions stored, by pair
  jar,       \* the cookies: the pair of flowverse_access and of flowverse_refresh
  calls,     \* the requests of each tab
  tasks,     \* the renewals, logins and logouts under way
  page,      \* where each tab is
  issued,    \* pairs issued so far
  why,       \* history: what has happened that may end a session
  clicks, trouble

vars == <<pairs, jar, calls, tasks, page, issued, why, clicks, trouble>>

NoPair  == [family |-> 0, access |-> "none", refresh |-> "none"]
NoCookies == [access |-> 0, refresh |-> 0]
Idle    == [phase |-> "idle", again |-> FALSE, pair |-> 0, waits |-> {}]

Revoked(state) == IF state = "good" THEN "revoked" ELSE state

Click == clicks < MaxClicks /\ clicks' = clicks + 1
Fault == trouble < MaxTrouble /\ trouble' = trouble + 1 /\ why' = why \cup {"fault"}
Keep  == UNCHANGED <<why, clicks, trouble>>

With(t, u) == (tasks \ {t}) \cup {u}
To(t, phase) == tasks' = With(t, [t EXCEPT !.phase = phase])

-------------------------------------------------------------------------------
(* The page.                                                               *)

Send(again) == [phase |-> "sent", again |-> again, pair |-> jar'.access, waits |-> {}]

\* apiFetch: the request takes the cookies there are.
Ask(tab, call) ==
  /\ page[tab] = "app" /\ calls[tab][call].phase \in {"idle", "refused"} /\ Click
  /\ jar' = jar
  /\ calls' = [calls EXCEPT ![tab][call] = Send(FALSE)]
  /\ UNCHANGED <<pairs, tasks, page, issued, why, trouble>>

Renewing(tab) == {t \in tasks : t.kind = "renew" /\ t.tab = tab /\ ~t.orphan}

Fresh(tab) == {n \in 1..(Cardinality(Calls) + MaxTrouble) : \A t \in tasks : t.tab = tab => t.id # n}
Renewal(tab) ==
  [kind |-> "renew", tab |-> tab, id |-> CHOOSE n \in Fresh(tab) : TRUE,
   pair |-> jar.refresh, new |-> 0, phase |-> "asked", orphan |-> FALSE]

RenewEach(tab) == {Renewal(tab)}      \* mutant: every refused request starts a renewal

\* renovarSesion: the renewal under way, if there is one.
Shared(tab) == IF Renewing(tab) # {} THEN Renewing(tab) ELSE {Renewal(tab)}

\* One refresh token is used twice at a time: by two tabs, or again by a page that has lost
\* the answer to a renewal.
Crossed(ts) ==
  \E t, u \in ts : /\ t.kind = "renew" /\ u.kind = "renew" /\ t.pair = u.pair /\ t.pair # 0
                  /\ (t.tab # u.tab \/ (t.orphan /\ ~u.orphan))

\* The answer to a request.  A session check that stays refused sends its page to /acceso.
Answered(tab, call) ==
  LET c == calls[tab][call]
  IN  /\ UNCHANGED <<pairs, jar, issued, clicks, trouble>>
      /\ \/ /\ c.phase = "ok"
            /\ calls' = [calls EXCEPT ![tab][call] = Idle]
            /\ UNCHANGED <<tasks, page, why>>
         \/ /\ c.phase = "denied" /\ c.again
            /\ calls' = [calls EXCEPT ![tab][call] = [@ EXCEPT !.phase = "refused", !.again = FALSE]]
            /\ page' = IF call = Me THEN [page EXCEPT ![tab] = "acceso"] ELSE page
            /\ UNCHANGED <<tasks, why>>
         \/ /\ c.phase = "denied" /\ ~c.again
            /\ LET renewal == Shared(tab)
               IN  /\ tasks' = tasks \cup renewal
                   /\ calls' = [calls EXCEPT ![tab][call].phase = "waits",
                                             ![tab][call].waits = {t.id : t \in renewal}]
                   /\ why' = IF Crossed(tasks \cup renewal) THEN why \cup {"crossed"} ELSE why
            /\ page' = page

Waiting(t) == {call \in Calls : t.id \in calls[t.tab][call].waits}

\* The renewal is good: whoever waited for it sends its request again.
Resend(t) ==
  calls' = [calls EXCEPT ![t.tab] = [call \in Calls |-> IF call \in Waiting(t) THEN Send(TRUE) ELSE @[call]]]

\* location.assign leaves the page: its requests are gone, and the answers to its tasks.
Leave(tab, to, others) ==
  /\ page'  = [page EXCEPT ![tab] = to]
  /\ calls' = [calls EXCEPT ![tab] = [call \in Calls |-> Idle]]
  /\ tasks' = {IF u.tab = tab THEN [u EXCEPT !.orphan = TRUE] ELSE u : u \in others}

\* The renewal is not good, or is lost: whoever waited for it goes to /acceso, unless the page
\* is there.
GiveUp(t, others) ==
  IF Waiting(t) # {} /\ page[t.tab] # "acceso"
  THEN Leave(t.tab, "acceso", others)
  ELSE /\ calls' = [calls EXCEPT ![t.tab] = [call \in Calls |->
                      IF call \in Waiting(t) THEN [@[call] EXCEPT !.phase = "refused", !.waits = {}] ELSE @[call]]]
       /\ tasks' = others /\ page' = page

-------------------------------------------------------------------------------
(* The server.                                                             *)

\* requireAuth: validateSession of the access token.
Serve(tab, call) ==
  /\ calls[tab][call].phase = "sent"
  /\ LET p == calls[tab][call].pair
     IN  calls' = [calls EXCEPT ![tab][call].phase =
                     IF p # 0 /\ pairs[p].access = "good" THEN "ok" ELSE "denied"]
  /\ UNCHANGED <<pairs, jar, tasks, page, issued>> /\ Keep

\* A session that the store fails to give is taken for none: 401, as for a bad token.
ServeFails(tab, call) ==
  /\ calls[tab][call].phase = "sent" /\ calls[tab][call].pair # 0 /\ Fault
  /\ calls' = [calls EXCEPT ![tab][call].phase = "denied"]
  /\ UNCHANGED <<pairs, jar, tasks, page, issued, clicks>>

\* Refresh reads the session of the refresh token.  Without a cookie there is nothing to read,
\* and nothing to clear.
Read(t) ==
  /\ t.kind = "renew" /\ t.phase = "asked"
  /\ To(t, IF t.pair = 0 THEN "missing"
           ELSE CASE pairs[t.pair].refresh = "good"    -> "found"
                  [] pairs[t.pair].refresh = "revoked" -> "reused"
                  [] OTHER                             -> "cleared")
  /\ UNCHANGED <<pairs, jar, calls, page, issued>> /\ Keep

\* A token used before ends its family.
RevokeFamily(t) ==
  /\ t.phase = "reused"
  /\ pairs' = [p \in DOMAIN pairs |->
                 IF pairs[p].family = pairs[t.pair].family
                 THEN [pairs[p] EXCEPT !.access = Revoked(@), !.refresh = Revoked(@)] ELSE pairs[p]]
  /\ To(t, "cleared")
  /\ UNCHANGED <<jar, calls, page, issued>> /\ Keep

KeepOld(t) ==      \* mutant: the token is not marked as used
  /\ t.kind = "renew" /\ t.phase = "found"
  /\ To(t, "issue")
  /\ UNCHANGED <<pairs, jar, calls, page, issued>> /\ Keep

\* RevokeSession of the refresh token, whatever it has become since it was read.
RevokeOld(t) ==
  /\ t.kind = "renew" /\ t.phase = "found"
  /\ pairs' = [pairs EXCEPT ![t.pair].refresh = Revoked(@)]
  /\ To(t, "issue")
  /\ UNCHANGED <<jar, calls, page, issued>> /\ Keep

Family(t) == IF t.kind = "renew" THEN pairs[t.pair].family ELSE issued + 1

\* issuePair saves the access token, then the refresh token.
SaveAccess(t) ==
  /\ t.phase = "issue" /\ issued < MaxPairs
  /\ issued' = issued + 1
  /\ pairs' = [pairs EXCEPT ![issued + 1] = [family |-> Family(t), access |-> "good", refresh |-> "none"]]
  /\ tasks' = With(t, [t EXCEPT !.phase = "half", !.new = issued + 1])
  /\ UNCHANGED <<jar, calls, page>> /\ Keep

SaveRefresh(t) ==
  /\ t.phase = "half"
  /\ pairs' = [pairs EXCEPT ![t.new].refresh = "good"]
  /\ To(t, IF t.kind = "renew" THEN "saved" ELSE "good")
  /\ UNCHANGED <<jar, calls, page, issued>> /\ Keep

\* The refresh handler authenticates the new access token before it answers.
Check(t) ==
  /\ t.phase = "saved"
  /\ To(t, IF pairs[t.new].access = "good" THEN "good" ELSE "cleared")
  /\ UNCHANGED <<pairs, jar, calls, page, issued>> /\ Keep

\* Logout revokes the access token, then the refresh token, and clears the cookies.
RevokeSession(t) ==
  /\ t.kind = "logout" /\ t.phase \in {"asked", "half out"}
  /\ pairs' = CASE t.phase = "asked" /\ t.new # 0     -> [pairs EXCEPT ![t.new].access = Revoked(@)]
                [] t.phase = "half out" /\ t.pair # 0 -> [pairs EXCEPT ![t.pair].refresh = Revoked(@)]
                [] OTHER                              -> pairs
  /\ To(t, IF t.phase = "asked" THEN "half out" ELSE "cleared")
  /\ UNCHANGED <<jar, calls, page, issued>> /\ Keep

\* A call of the store fails: Refresh answers as to a bad token, which clears the cookies, and
\* Login as to a bad password; what a family or a logout revokes is not looked at.
StoreFails(t) ==
  /\ t.phase \in {"asked", "half out", "found", "reused", "issue", "half", "saved"} /\ Fault
  /\ t.kind = "renew" => t.pair # 0
  /\ To(t, CASE t.kind = "renew" -> "cleared"
             [] t.kind = "login" -> "missing"
             [] OTHER            -> IF t.phase = "asked" THEN "half out" ELSE "cleared")
  /\ UNCHANGED <<pairs, jar, calls, page, issued, clicks>>

-------------------------------------------------------------------------------
(* Answers to renewals, logins and logouts.                                *)

Answer(t) == t.phase \in {"good", "cleared", "missing"} /\ ~t.orphan

RenewalAnswered(t) ==
  /\ t.kind = "renew" /\ Answer(t)
  /\ jar' = CASE t.phase = "good"    -> [access |-> t.new, refresh |-> t.new]
              [] t.phase = "cleared" -> NoCookies
              [] OTHER               -> jar
  /\ IF t.phase = "good"
     THEN Resend(t) /\ tasks' = tasks \ {t} /\ page' = page
     ELSE GiveUp(t, tasks \ {t})
  /\ UNCHANGED <<pairs, issued>> /\ Keep

\* The connection breaks: the server may go on with what nobody hears of.
RenewalLost(t) ==
  /\ t.kind = "renew" /\ ~t.orphan /\ Fault
  /\ GiveUp(t, With(t, [t EXCEPT !.orphan = TRUE]))
  /\ UNCHANGED <<pairs, jar, issued, clicks>>

\* authenticate stores the cookies and AccessPage opens the application again; or it shows
\* the error.
LoginAnswered(t) ==
  /\ t.kind = "login" /\ Answer(t)
  /\ IF t.phase = "good"
     THEN jar' = [access |-> t.new, refresh |-> t.new] /\ Leave(t.tab, "app", tasks \ {t})
     ELSE tasks' = tasks \ {t} /\ UNCHANGED <<jar, calls, page>>
  /\ UNCHANGED <<pairs, issued>> /\ Keep

\* router.replace("/acceso"): the page stays loaded, its requests go on.
LogoutAnswered(t) ==
  /\ t.kind = "logout" /\ Answer(t)
  /\ jar' = NoCookies /\ tasks' = tasks \ {t} /\ page' = [page EXCEPT ![t.tab] = "acceso"]
  /\ UNCHANGED <<pairs, calls, issued>> /\ Keep

\* The finally of the button: the page leaves although the logout was not answered.
EntryLost(t) ==
  /\ t.kind # "renew" /\ ~t.orphan /\ Fault
  /\ tasks' = With(t, [t EXCEPT !.orphan = TRUE])
  /\ page' = IF t.kind = "logout" THEN [page EXCEPT ![t.tab] = "acceso"] ELSE page
  /\ UNCHANGED <<pairs, jar, calls, issued, clicks>>

\* Nobody waits for the answer to a task of a page that was left.
Unheard(t) ==
  /\ t.orphan /\ t.phase \in {"good", "cleared", "missing"}
  /\ tasks' = tasks \ {t}
  /\ UNCHANGED <<pairs, jar, calls, page, issued>> /\ Keep

\* The buttons of AccessPage and of the pages of the application.
Enter(tab, kind) ==
  /\ page[tab] = (IF kind = "login" THEN "acceso" ELSE "app") /\ Click
  /\ \A t \in tasks : t.tab = tab => t.kind = "renew"
  /\ tasks' = tasks \cup {[kind |-> kind, tab |-> tab, id |-> 0, orphan |-> FALSE,
                           pair |-> IF kind = "login" THEN 0 ELSE jar.refresh,
                           new |-> IF kind = "login" THEN 0 ELSE jar.access,
                           phase |-> IF kind = "login" THEN "issue" ELSE "asked"]}
  /\ why' = IF kind = "logout" THEN why \cup {"logout"} ELSE why
  /\ UNCHANGED <<pairs, jar, calls, page, issued, trouble>>

-------------------------------------------------------------------------------
(* Time.  A token that has been received runs out, and its cookie with it. *)

Expire(p, token) ==
  /\ trouble < MaxTrouble /\ trouble' = trouble + 1
  /\ pairs[p].access = "good" \/ token = "refresh"
  /\ pairs[p].refresh # "expired" /\ \A t \in tasks : t.new # p
  /\ pairs' = [pairs EXCEPT ![p].access = "expired",
                            ![p].refresh = IF token = "refresh" THEN "expired" ELSE @]
  /\ jar' = [access  |-> IF jar.access = p THEN 0 ELSE jar.access,
             refresh |-> IF jar.refresh = p /\ token = "refresh" THEN 0 ELSE jar.refresh]
  /\ why' = IF token = "refresh" THEN why \cup {"expired"} ELSE why
  /\ UNCHANGED <<calls, tasks, page, issued, clicks>>

-------------------------------------------------------------------------------
Init ==
  /\ pairs = [p \in 1..MaxPairs |-> IF p = 1 THEN [family |-> 1, access |-> "good", refresh |-> "good"] ELSE NoPair]
  /\ jar = [access |-> 1, refresh |-> 1] /\ issued = 1
  /\ calls = [tab \in Tabs |-> [call \in Calls |-> Idle]]
  /\ page = [tab \in Tabs |-> "app"]
  /\ tasks = {} /\ why = {} /\ clicks = 0 /\ trouble = 0

Server(t) == Read(t) \/ RevokeFamily(t) \/ RevokeOld(t) \/ SaveAccess(t) \/ SaveRefresh(t)
               \/ Check(t) \/ RevokeSession(t)
Heard(t)  == RenewalAnswered(t) \/ LoginAnswered(t) \/ LogoutAnswered(t) \/ Unheard(t)

Next ==
  \/ \E tab \in Tabs, call \in Calls : Ask(tab, call) \/ Serve(tab, call) \/ ServeFails(tab, call) \/ Answered(tab, call)
  \/ \E t \in tasks : Server(t) \/ StoreFails(t) \/ Heard(t) \/ RenewalLost(t) \/ EntryLost(t)
  \/ \E tab \in Tabs, kind \in {"login", "logout"} : Enter(tab, kind)
  \/ \E p \in 1..issued, token \in {"access", "refresh"} : Expire(p, token)

Spec == Init /\ [][Next]_vars

-------------------------------------------------------------------------------
(* Properties.                                                             *)

\* The renewal must not expel the very user it is there to save (lib/api-client.ts:55): a page
\* is sent to /acceso only if an answer or a call of the store was lost, somebody logged out,
\* the refresh token ran out, or two tabs used one refresh token; and but for those a request
\* is refused only if it carried a new access token, which has run out since.
ExpelledForAReason ==
  why = {} =>
    \A tab \in Tabs :
      /\ page[tab] = "acceso" => calls[tab][Me].phase = "refused"
      /\ \A call \in Calls : calls[tab][call].phase = "refused" => calls[tab][call].pair > 1

\* Refresh rotates: however requests, losses, logouts and failures fall, at most one refresh
\* token of a family is good, unless one token was used twice at a time.
OneLiveRefresh ==
  "crossed" \notin why =>
    \A p, q \in 1..MaxPairs :
      pairs[p].refresh = "good" /\ pairs[q].refresh = "good" /\ pairs[p].family = pairs[q].family => p = q
===============================================================================
