------------------------------ MODULE Session ------------------------------
(***************************************************************************)
(* One tab of the web console: the token and the user in its store, the    *)
(* queries it sends with the token, the refresh that a 401 starts and      *)
(* every other 401 waits for, logging in and out, and a reload.  Another   *)
(* tab of the same browser shares the cookie and the local storage.        *)
(*                                                                         *)
(* Answers may come in any order.  "late" marks what was asked for in a    *)
(* session that has ended since: nothing in the code does, and overtaken   *)
(* remembers that such an answer was taken for one of the new session.     *)
(* A token is the number of its issue, 0 if there is none; all live        *)
(* equally long, so they expire in the order they were issued.             *)
(***************************************************************************)
EXTENDS Naturals, Sequences

CONSTANTS Users, None,
          MaxFlight,     \* bound: queries in flight
          MaxTokens      \* bound: tokens ever issued

ASSUME NoneAssumption == None \notin Users
ASSUME BoundsAssumption == MaxFlight \in Nat /\ MaxTokens \in Nat

VARIABLES
  cookie,            \* whose refresh cookie the browser holds
  stored,            \* the pair in local storage
  token, user,       \* the store of this tab
  cache,             \* whose data the query cache holds, apart from the user
  owner, expired,    \* of each token its user; the last one that expired
  req,               \* the queries in flight
  refreshing,        \* the refresh in flight
  login, logout,     \* the mutations in flight
  overtaken,         \* an answer of an earlier session was taken
  bounced            \* a refresh has failed and neither a reload nor a logout followed

browser   == <<cookie, stored>>
store     == <<token, user>>
issued    == <<owner, expired>>
mutations == <<login, logout>>
notes     == <<overtaken, bounced>>
vars == <<browser, store, cache, issued, req, refreshing, mutations, notes>>

Requests == 1..MaxFlight
Somebody == Users \cup {None}
Tokens   == 0..MaxTokens
Request  == [kind : {"me", "list"}, tok : Tokens, at : {"sent", "waiting"},
             again : BOOLEAN, late : BOOLEAN, orphan : BOOLEAN]
Idle     == [kind |-> "idle"]
Refresh  == [cookie : Somebody, late : BOOLEAN]

TypeOK ==
  /\ cookie \in Somebody /\ user \in Somebody /\ cache \in Somebody
  /\ stored \in [token : Tokens, user : Somebody]
  /\ owner \in Seq(Users) /\ Len(owner) \in Tokens
  /\ token \in 0..Len(owner) /\ expired \in 0..Len(owner)
  /\ req \in [Requests -> Request \cup {Idle}]
  /\ refreshing \in Refresh \cup {None}
  /\ login \in Somebody /\ logout \in BOOLEAN
  /\ overtaken \in BOOLEAN /\ bounced \in BOOLEAN
  \* What waits for a refresh will not wait for a second one.
  /\ \A q \in Requests : req[q] # Idle /\ req[q].at = "waiting" => req[q].again

Init ==
  /\ cookie = None /\ stored = [token |-> 0, user |-> None]
  /\ token = 0 /\ user = None /\ cache = None
  /\ owner = <<>> /\ expired = 0
  /\ req = [q \in Requests |-> Idle]
  /\ refreshing = None /\ login = None /\ logout = FALSE
  /\ overtaken = FALSE /\ bounced = FALSE

\* What a change of session makes of the requests in flight; clearing the query
\* cache orphans them as well: their answers still run their query functions.
Late(r)   == IF r = Idle THEN r ELSE [r EXCEPT !.late = TRUE]
Orphan(r) == IF r = Idle THEN r ELSE [r EXCEPT !.late = TRUE, !.orphan = TRUE]

Store(t, u) == token' = t /\ user' = u /\ stored' = [token |-> t, user |-> u]
Issue(u)    == Len(owner) < MaxTokens /\ owner' = Append(owner, u)
NewToken    == Len(owner) + 1

----------------------------------------------------------------------------
\* Queries: api, useMe and the lists of the pages.

\* ProtectedRoute and LoginPage: without a token the login page is shown, and only then.
Protected == token # 0

\* The login page asks for nothing, and useMe is disabled there.
\* One query of a key is in flight, unless the cache no longer knows the other.
Send(q, k) ==
  /\ Protected /\ req[q] = Idle /\ \A p \in 1..(q - 1) : req[p] # Idle   \* the least free number
  /\ \A p \in Requests : req[p] # Idle /\ req[p].kind = k => req[p].orphan
  /\ req' = [req EXCEPT ![q] = [kind |-> k, tok |-> token, at |-> "sent",
                                again |-> FALSE, late |-> FALSE, orphan |-> FALSE]]
  /\ UNCHANGED <<browser, store, cache, issued, refreshing, mutations, notes>>

Sent(q) == req[q] # Idle /\ req[q].at = "sent"
End(q)  == req' = [req EXCEPT ![q] = Idle]

AnswerMe(q) ==
  /\ Sent(q) /\ req[q].kind = "me" /\ req[q].tok > expired
  /\ Store(token, owner[req[q].tok])
  /\ End(q)
  /\ overtaken' = (overtaken \/ req[q].late)
  /\ UNCHANGED <<cookie, cache, issued, refreshing, mutations, bounced>>

AnswerList(q) ==
  /\ Sent(q) /\ req[q].kind = "list" /\ req[q].tok > expired
  /\ cache' = IF req[q].orphan THEN cache ELSE owner[req[q].tok]
  /\ overtaken' = (overtaken \/ (req[q].late /\ ~req[q].orphan))
  /\ End(q)
  /\ UNCHANGED <<browser, store, issued, refreshing, mutations, bounced>>

\* Mutant: _retry is not set.
AwaitMutant(r) == [r EXCEPT !.at = "waiting"]
Await(r) == [r EXCEPT !.at = "waiting", !.again = TRUE]

\* The first 401 of a request starts a refresh, or joins the one in flight.
Unauthorized(q) ==
  /\ Sent(q) /\ req[q].tok <= expired /\ ~req[q].again
  /\ req' = [req EXCEPT ![q] = Await(req[q])]
  /\ refreshing' = IF refreshing = None THEN [cookie |-> cookie, late |-> FALSE] ELSE refreshing
  /\ UNCHANGED <<browser, store, cache, issued, mutations, notes>>

\* Its second 401, another status, or no answer.
Reject(q) ==
  /\ Sent(q) /\ End(q)
  /\ UNCHANGED <<browser, store, cache, issued, refreshing, mutations, notes>>

\* Mutant: only one of those who wait goes on.
ResumeMutant(r, t) ==
  [q \in Requests |-> IF r[q] # Idle /\ r[q].at = "waiting" /\ r[q].kind = "me"
                      THEN [r[q] EXCEPT !.at = "sent", !.tok = t] ELSE r[q]]

\* Every request that waited is sent again with the token, under the late marks it had.
Resume(r, t) ==
  [q \in Requests |-> IF r[q] # Idle /\ r[q].at = "waiting"
                      THEN [r[q] EXCEPT !.at = "sent", !.tok = t] ELSE r[q]]

\* The answer carries a token of the cookie's user, and the cookie again, whatever
\* has happened meanwhile.  The user in the store stays who it was.
RefreshOk ==
  /\ refreshing # None /\ refreshing.cookie # None /\ Issue(refreshing.cookie)
  /\ Store(NewToken, user)
  /\ cookie' = refreshing.cookie
  /\ req' = Resume(req, NewToken)
  /\ overtaken' = (overtaken \/ refreshing.late \/ refreshing.cookie # user)
  /\ refreshing' = None
  /\ UNCHANGED <<cache, expired, mutations, bounced>>

\* No cookie, a disabled user, or no answer: the session ends.  The cache is kept
\* unless the page is loaded anew, which it is when the router has not yet moved on.
RefreshFails ==
  /\ refreshing # None
  /\ Store(0, None)
  /\ refreshing' = None
  /\ overtaken' = (overtaken \/ refreshing.late)
  /\ \/ /\ req' = [q \in Requests |-> IF req[q] # Idle /\ req[q].at = "waiting" THEN Idle
                                      ELSE Late(req[q])]
        /\ bounced' = TRUE
        /\ UNCHANGED <<cache, mutations>>
     \/ /\ req' = [q \in Requests |-> Idle]
        /\ cache' = None /\ login' = None /\ logout' = FALSE /\ bounced' = FALSE
  /\ UNCHANGED <<cookie, issued>>

----------------------------------------------------------------------------
\* Logging in and out.

StartLogin(u) ==
  /\ ~Protected /\ login = None
  /\ login' = u
  /\ UNCHANGED <<browser, store, cache, issued, req, refreshing, logout, notes>>

\* Mutant: the token is set and the user is not.
SignedInMutant(t, u) == Store(t, user)
SignedIn(t, u) == Store(t, u)

LoginOk ==
  /\ login # None /\ Issue(login)
  /\ SignedIn(NewToken, login)
  /\ cookie' = login
  /\ req' = [q \in Requests |-> Late(req[q])]
  /\ refreshing' = IF refreshing = None THEN None ELSE [refreshing EXCEPT !.late = TRUE]
  /\ login' = None
  /\ UNCHANGED <<cache, expired, logout, notes>>

LoginFails ==
  /\ login # None
  /\ login' = None
  /\ UNCHANGED <<browser, store, cache, issued, req, refreshing, logout, notes>>

StartLogout ==
  /\ Protected /\ ~logout
  /\ logout' = TRUE
  /\ UNCHANGED <<browser, store, cache, issued, req, refreshing, login, notes>>

\* Mutant: the query cache is not cleared.
ForgetMutant == cache' = cache /\ req' = [q \in Requests |-> Late(req[q])]
Forget       == cache' = None  /\ req' = [q \in Requests |-> Orphan(req[q])]

ClearCookie == cookie' \in {None, cookie}

\* Answered or not; only an answer takes the cookie away.
LogoutSettles ==
  /\ logout
  /\ Store(0, None) /\ Forget
  /\ ClearCookie
  /\ refreshing' = IF refreshing = None THEN None ELSE [refreshing EXCEPT !.late = TRUE]
  /\ logout' = FALSE /\ bounced' = FALSE
  /\ UNCHANGED <<issued, login, overtaken>>

----------------------------------------------------------------------------
\* What happens to a tab.

Expire ==
  /\ expired < Len(owner) /\ expired' = expired + 1
  /\ UNCHANGED <<browser, store, cache, owner, req, refreshing, mutations, notes>>

\* Another tab logs in as u, or out.
OtherTab(u) ==
  /\ IF u = None THEN owner' = owner /\ stored' = [token |-> 0, user |-> None]
                 ELSE Issue(u) /\ stored' = [token |-> NewToken, user |-> u]
  /\ cookie' = u
  /\ UNCHANGED <<store, cache, expired, req, refreshing, mutations, notes>>

\* The store comes back from local storage, nothing else does.
Reload ==
  /\ token' = stored.token /\ user' = stored.user
  /\ cache' = None /\ req' = [q \in Requests |-> Idle]
  /\ refreshing' = None /\ login' = None /\ logout' = FALSE /\ bounced' = FALSE
  /\ UNCHANGED <<browser, issued, overtaken>>

Answer(q) == AnswerMe(q) \/ AnswerList(q) \/ Unauthorized(q) \/ Reject(q)
Refreshed == RefreshOk \/ RefreshFails

Next == \/ \E q \in Requests : Answer(q) \/ \E k \in {"me", "list"} : Send(q, k)
        \/ Refreshed \/ LoginOk \/ LoginFails \/ StartLogout \/ LogoutSettles
        \/ Expire \/ Reload
        \/ \E u \in Users : StartLogin(u)
        \/ \E u \in Somebody : OtherTab(u)

Spec == Init /\ [][Next]_vars

\* Every request over the network ends, with an answer or without.
FairSpec == Spec /\ WF_vars(Refreshed) /\ \A q \in Requests : WF_vars(Answer(q))

----------------------------------------------------------------------------
(* Properties. *)

\* The permissions by which the console shows pages and buttons are those of the
\* token it sends, as long as no answer of an earlier session came late and no other
\* tab changed the cookie: a refresh, a 401 and a reload keep the two together.
UserIsToken ==
  ~overtaken => user = (IF token = 0 THEN None ELSE owner[token])

\* Under the same condition nobody sees lists that were fetched for another, also
\* after a logout with queries in flight.  Only the end of a session by a refresh
\* that fails leaves them for the next one who logs in.
ListsAreOwn ==
  ~overtaken /\ ~bounced => cache \in {None, user}

\* Every query ends: those that wait for a refresh are all woken by it, and none
\* is repeated for ever.
RequestsSettle == \A q \in Requests : req[q] # Idle ~> req[q] = Idle
=============================================================================
