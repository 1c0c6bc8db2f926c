--------------------------- MODULE ConsoleProofs ---------------------------
(***************************************************************************)
(* Proofs about what the web console shows: for whom (Session) and of a    *)
(* job it follows (ProgressStream).                                        *)
(*                                                                         *)
(* Session, for any users and any number of tokens and of queries in       *)
(* flight.  The point of the invariant is that a request which is not late *)
(* was sent with a token of the user that is shown now: its answer,        *)
(* however long it takes, brings nothing of another.                       *)
(*                                                                         *)
(* ProgressStream, for any number of deliveries and fetches.  What makes its *)
(* invariant inductive: nothing on its way to the page, and nothing the    *)
(* handler has read, is newer than the row, and the end of a stream is its *)
(* last frame.                                                             *)
(***************************************************************************)
EXTENDS Session, ProgressStream, SequenceTheorems, TLAPS

(* Session. *)

\* The user that belongs to a token.
Of(t) == IF t = 0 THEN None ELSE owner[t]

\* Tokens in hand were issued; what clearing the cache orphaned is late.
TokensFit == /\ stored.token <= Len(owner)
             /\ \A q \in Requests : req[q] # Idle => /\ req[q].tok \in 1..Len(owner)
                                                     /\ req[q].orphan => req[q].late

\* As long as nothing was overtaken: store and storage fit, and what is in flight is
\* of the session that is shown.
InStep ==
  ~overtaken => /\ user = Of(token) /\ stored.user = Of(stored.token)
                /\ login # None => token = 0
                /\ ~bounced => cache \in {None, user}
                /\ \A q \in Requests : req[q] # Idle /\ ~req[q].late => token # 0 /\ Of(req[q].tok) = user

SessionInvariant == TypeOK /\ TokensFit /\ InStep

----------------------------------------------------------------------------
\* The invariant holds when the system starts.
THEOREM InvariantInit == Init => SessionInvariant
<1> SUFFICES ASSUME Init PROVE SessionInvariant
  OBVIOUS
<1>1. owner = <<>> /\ owner \in Seq(Users) /\ Len(owner) = 0
  BY DEF Init
<1>2. TypeOK
  <2>1. Len(owner) \in Tokens /\ 0 \in Tokens /\ token \in 0..Len(owner) /\ expired \in 0..Len(owner)
    BY <1>1, BoundsAssumption DEF Init, Tokens
  <2>2. \A q \in Requests : req[q] = Idle
    BY DEF Init
  <2>3. req \in [Requests -> Request \cup {Idle}]
    BY DEF Init
  <2> QED
    BY <1>1, <2>1, <2>2, <2>3 DEF Init, TypeOK, Somebody
<1>3. TokensFit /\ InStep
  BY <1>1 DEF Init, TokensFit, InStep, Of
<1> QED
  BY <1>2, <1>3 DEF SessionInvariant

\* A request in flight is a record of the type.
LEMMA InFlight ==
  ASSUME TypeOK, NEW q \in Requests, req[q] # Idle
  PROVE  req[q] \in Request
BY DEF TypeOK

LEMMA RequestIsNotIdle ==
  ASSUME NEW r \in Request
  PROVE  r # Idle
BY DEF Request, Idle

\* A token is issued: the others stay whose they were.
LEMMA IssueFacts ==
  ASSUME TypeOK, NEW u \in Users, Issue(u)
  PROVE  /\ owner' \in Seq(Users) /\ Len(owner') = Len(owner) + 1 /\ Len(owner') \in Tokens
         /\ NewToken \in 1..Len(owner') /\ NewToken \in Tokens
         /\ owner'[NewToken] = u
         /\ \A t \in 1..Len(owner) : owner'[t] = owner[t]
<1>1. owner \in Seq(Users) /\ Len(owner) \in Nat /\ owner' = Append(owner, u) /\ Len(owner) < MaxTokens
  BY DEF TypeOK, Issue
<1>2. owner' \in Seq(Users) /\ Len(owner') = Len(owner) + 1
  BY <1>1
<1>3. owner'[Len(owner) + 1] = u /\ \A t \in 1..Len(owner) : owner'[t] = owner[t]
  BY <1>1
<1> QED
  BY <1>1, <1>2, <1>3, BoundsAssumption DEF NewToken, Tokens

LEMMA TokenFacts ==
  ASSUME SessionInvariant
  PROVE  /\ owner \in Seq(Users) /\ Len(owner) \in Nat /\ token \in 0..Len(owner)
         /\ stored.token \in 0..Len(owner) /\ expired \in 0..Len(owner)
         /\ \A t \in 1..Len(owner) : owner[t] \in Users
         /\ \A t \in 0..Len(owner) : Of(t) \in Somebody
  BY DEF SessionInvariant, TypeOK, TokensFit, Tokens, Of, Somebody

LEMMA SendStep ==
  ASSUME SessionInvariant, NEW q \in Requests, NEW k \in {"me", "list"}, Send(q, k)
  PROVE  SessionInvariant'
<1> DEFINE r == [kind |-> k, tok |-> token, at |-> "sent", again |-> FALSE, late |-> FALSE, orphan |-> FALSE]
<1>1. r \in Request /\ r # Idle /\ token \in 1..Len(owner)
  <2>1. token \in 1..Len(owner) /\ token \in Tokens
    BY TokenFacts, BoundsAssumption DEF Send, Protected, Tokens, SessionInvariant, TypeOK
  <2>2. r \in Request
    BY <2>1 DEF Request
  <2> QED
    BY <2>1, <2>2, RequestIsNotIdle
<1>2. \A p \in Requests : req'[p] = IF p = q THEN r ELSE req[p]
  BY DEF Send, SessionInvariant, TypeOK
<1>3. req' \in [Requests -> Request \cup {Idle}]
  BY <1>1, <1>2 DEF Send, SessionInvariant, TypeOK
<1>4. UNCHANGED <<cookie, stored, token, user, cache, owner, expired, refreshing, login, logout, overtaken, bounced>>
  BY DEF Send, browser, store, issued, mutations, notes
<1>5. TypeOK'
  BY <1>2, <1>3, <1>4 DEF SessionInvariant, TypeOK
<1>6. TokensFit'
  BY <1>1, <1>2, <1>4 DEF SessionInvariant, TokensFit
<1>7. InStep'
  BY <1>1, <1>2, <1>4 DEF SessionInvariant, InStep, Of
<1> QED
  BY <1>5, <1>6, <1>7 DEF SessionInvariant

LEMMA AnswerMeStep ==
  ASSUME SessionInvariant, NEW q \in Requests, AnswerMe(q)
  PROVE  SessionInvariant'
<1>1. /\ req[q] # Idle /\ req[q] \in Request /\ req[q].tok \in 1..Len(owner) /\ owner[req[q].tok] \in Users
      /\ Of(req[q].tok) = owner[req[q].tok]
  BY InFlight, TokenFacts DEF AnswerMe, Sent, SessionInvariant, TokensFit, Of
<1>2. /\ token' = token /\ user' = owner[req[q].tok] /\ stored' = [token |-> token, user |-> user']
      /\ UNCHANGED <<cookie, cache, owner, expired, refreshing, login, logout, bounced>>
      /\ overtaken' = (overtaken \/ req[q].late)
      /\ req' = [req EXCEPT ![q] = Idle]
  BY DEF AnswerMe, End, Store, issued, mutations
<1>3. \A p \in Requests : req'[p] = IF p = q THEN Idle ELSE req[p]
  BY <1>2 DEF SessionInvariant, TypeOK
<1>4. /\ req' \in [Requests -> Request \cup {Idle}] /\ user' \in Somebody /\ token \in Tokens
      /\ overtaken' \in BOOLEAN
  BY <1>1, <1>2, TokenFacts, BoundsAssumption DEF SessionInvariant, TypeOK, Somebody, Tokens, Request
<1>5. TypeOK'
  BY <1>2, <1>3, <1>4 DEF SessionInvariant, TypeOK
<1>6. TokensFit'
  BY <1>2, <1>3, TokenFacts DEF SessionInvariant, TokensFit
<1>7. InStep'
  <2> SUFFICES ASSUME ~overtaken' PROVE InStep'
    BY DEF InStep
  <2>1. ~overtaken /\ ~req[q].late
    BY <1>2
  <2>2. token # 0 /\ Of(req[q].tok) = user /\ user' = user /\ stored.user = Of(stored.token) /\ user = Of(token)
    BY <1>1, <1>2, <2>1 DEF SessionInvariant, InStep
  <2> QED
    BY <1>2, <1>3, <2>1, <2>2 DEF SessionInvariant, InStep, Of
<1> QED
  BY <1>5, <1>6, <1>7 DEF SessionInvariant

LEMMA AnswerListStep ==
  ASSUME SessionInvariant, NEW q \in Requests, AnswerList(q)
  PROVE  SessionInvariant'
<1>1. /\ req[q] # Idle /\ req[q] \in Request /\ req[q].tok \in 1..Len(owner) /\ owner[req[q].tok] \in Users
      /\ Of(req[q].tok) = owner[req[q].tok]
      /\ req[q].orphan => req[q].late
  BY InFlight, TokenFacts DEF AnswerList, Sent, SessionInvariant, TokensFit, Of
<1>2. /\ UNCHANGED <<cookie, stored, token, user, owner, expired, refreshing, login, logout, bounced>>
      /\ overtaken' = (overtaken \/ (req[q].late /\ ~req[q].orphan))
      /\ cache' = IF req[q].orphan THEN cache ELSE owner[req[q].tok]
      /\ req' = [req EXCEPT ![q] = Idle]
  BY DEF AnswerList, End, browser, store, issued, mutations
<1>3. \A p \in Requests : req'[p] = IF p = q THEN Idle ELSE req[p]
  BY <1>2 DEF SessionInvariant, TypeOK
<1>4. req' \in [Requests -> Request \cup {Idle}] /\ cache' \in Somebody
  BY <1>1, <1>2 DEF SessionInvariant, TypeOK, Somebody
<1>5. overtaken' \in BOOLEAN
  BY <1>1, <1>2 DEF SessionInvariant, TypeOK, Request
<1>6. TypeOK'
  BY <1>2, <1>3, <1>4, <1>5 DEF SessionInvariant, TypeOK
<1>7. TokensFit'
  BY <1>2, <1>3 DEF SessionInvariant, TokensFit
<1>8. InStep'
  <2> SUFFICES ASSUME ~overtaken' PROVE InStep'
    BY DEF InStep
  <2>1. ~overtaken /\ (~req[q].late \/ req[q].orphan)
    BY <1>2
  <2>2. cache' = cache \/ cache' = user
    BY <1>1, <1>2, <2>1 DEF SessionInvariant, InStep
  <2> QED
    BY <1>2, <1>3, <2>1, <2>2 DEF SessionInvariant, InStep, Of
<1> QED
  BY <1>6, <1>7, <1>8 DEF SessionInvariant

LEMMA RejectStep ==
  ASSUME SessionInvariant, NEW q \in Requests, Reject(q)
  PROVE  SessionInvariant'
<1>1. /\ UNCHANGED <<cookie, stored, token, user, cache, owner, expired, refreshing, login, logout, overtaken, bounced>>
      /\ req' = [req EXCEPT ![q] = Idle]
  BY DEF Reject, End, browser, store, issued, mutations, notes
<1>2. \A p \in Requests : req'[p] = IF p = q THEN Idle ELSE req[p]
  BY <1>1 DEF SessionInvariant, TypeOK
<1>3. req' \in [Requests -> Request \cup {Idle}]
  BY <1>1 DEF SessionInvariant, TypeOK
<1> QED
  BY <1>1, <1>2, <1>3 DEF SessionInvariant, TypeOK, TokensFit, InStep, Of

LEMMA UnauthorizedStep ==
  ASSUME SessionInvariant, NEW q \in Requests, Unauthorized(q)
  PROVE  SessionInvariant'
<1>1. req[q] # Idle /\ req[q] \in Request
  BY InFlight DEF Unauthorized, Sent, SessionInvariant
<1>2. PICK r \in Request : /\ r = Await(req[q]) /\ r # Idle /\ r.again /\ r.tok = req[q].tok
                           /\ r.late = req[q].late /\ r.orphan = req[q].orphan
  <2> DEFINE w == Await(req[q])
  <2>1. w \in Request /\ w.again /\ w.tok = req[q].tok /\ w.late = req[q].late /\ w.orphan = req[q].orphan
    BY <1>1 DEF Await, Request
  <2> HIDE DEF w
  <2>2. \E r \in Request : r = w /\ r # Idle /\ r.again /\ r.tok = req[q].tok
                           /\ r.late = req[q].late /\ r.orphan = req[q].orphan
    BY <2>1, RequestIsNotIdle
  <2> QED
    BY <2>2 DEF w
<1>3. /\ UNCHANGED <<cookie, stored, token, user, cache, owner, expired, login, logout, overtaken, bounced>>
      /\ req' = [req EXCEPT ![q] = r]
  BY <1>2 DEF Unauthorized, browser, store, issued, mutations, notes
<1>4. \A p \in Requests : req'[p] = IF p = q THEN r ELSE req[p]
  BY <1>3 DEF SessionInvariant, TypeOK
<1>5. req' \in [Requests -> Request \cup {Idle}] /\ refreshing' \in Refresh \cup {None}
  BY <1>3 DEF SessionInvariant, TypeOK, Unauthorized, Refresh
<1>6. TypeOK'
  BY <1>2, <1>3, <1>4, <1>5 DEF SessionInvariant, TypeOK
<1>7. TokensFit'
  BY <1>1, <1>2, <1>3, <1>4 DEF SessionInvariant, TokensFit
<1>8. InStep'
  BY <1>1, <1>2, <1>3, <1>4 DEF SessionInvariant, InStep, Of
<1> QED
  BY <1>6, <1>7, <1>8 DEF SessionInvariant

LEMMA ExpireStep ==
  ASSUME SessionInvariant, Expire
  PROVE  SessionInvariant'
<1>1. /\ UNCHANGED <<cookie, stored, token, user, cache, owner, req, refreshing, login, logout, overtaken, bounced>>
      /\ expired' = expired + 1 /\ expired < Len(owner)
  BY DEF Expire, browser, store, mutations, notes
<1>2. expired' \in 0..Len(owner)
  BY <1>1, TokenFacts
<1> QED
  BY <1>1, <1>2 DEF SessionInvariant, TypeOK, TokensFit, InStep, Of

LEMMA StartLoginStep ==
  ASSUME SessionInvariant, NEW u \in Users, StartLogin(u)
  PROVE  SessionInvariant'
<1>1. /\ UNCHANGED <<cookie, stored, token, user, cache, owner, expired, req, refreshing, logout, overtaken, bounced>>
      /\ login' = u /\ token = 0
  BY DEF StartLogin, Protected, browser, store, issued, notes
<1> QED
  BY <1>1 DEF SessionInvariant, TypeOK, TokensFit, InStep, Of, Somebody

LEMMA LoginFailsStep ==
  ASSUME SessionInvariant, LoginFails
  PROVE  SessionInvariant'
<1>1. /\ UNCHANGED <<cookie, stored, token, user, cache, owner, expired, req, refreshing, logout, overtaken, bounced>>
      /\ login' = None
  BY DEF LoginFails, browser, store, issued, notes
<1> QED
  BY <1>1 DEF SessionInvariant, TypeOK, TokensFit, InStep, Of, Somebody

LEMMA StartLogoutStep ==
  ASSUME SessionInvariant, StartLogout
  PROVE  SessionInvariant'
<1>1. /\ UNCHANGED <<cookie, stored, token, user, cache, owner, expired, req, refreshing, login, overtaken, bounced>>
      /\ logout' = TRUE
  BY DEF StartLogout, browser, store, issued, notes
<1> QED
  BY <1>1 DEF SessionInvariant, TypeOK, TokensFit, InStep, Of

LEMMA ReloadStep ==
  ASSUME SessionInvariant, Reload
  PROVE  SessionInvariant'
<1>1. /\ UNCHANGED <<cookie, stored, owner, expired, overtaken>>
      /\ token' = stored.token /\ user' = stored.user /\ cache' = None
      /\ refreshing' = None /\ login' = None /\ logout' = FALSE /\ bounced' = FALSE
      /\ req' = [q \in Requests |-> Idle]
  BY DEF Reload, browser, issued
<1>2. \A p \in Requests : req'[p] = Idle
  BY <1>1
<1>3. req' \in [Requests -> Request \cup {Idle}]
  BY <1>1
<1>4. stored.user \in Somebody /\ stored.token \in 0..Len(owner)
  BY TokenFacts DEF SessionInvariant, TypeOK
<1>5. TypeOK'
  BY <1>1, <1>2, <1>3, <1>4 DEF SessionInvariant, TypeOK, Somebody
<1>6. TokensFit' /\ InStep'
  BY <1>1, <1>2 DEF SessionInvariant, TokensFit, InStep, Of
<1> QED
  BY <1>5, <1>6 DEF SessionInvariant

\* Another tab changes the storage and the cookie, never this tab's store.
LEMMA OtherTabStep ==
  ASSUME SessionInvariant, NEW u \in Somebody, OtherTab(u)
  PROVE  SessionInvariant'
<1>1. /\ UNCHANGED <<token, user, cache, expired, req, refreshing, login, logout, overtaken, bounced>>
      /\ cookie' = u
  BY DEF OtherTab, store, mutations, notes
<1>2. CASE u = None
  <2>1. owner' = owner /\ stored' = [token |-> 0, user |-> None]
    BY <1>2 DEF OtherTab
  <2>2. stored' \in [token : Tokens, user : Somebody]
    BY <2>1, BoundsAssumption DEF Tokens, Somebody
  <2>3. TypeOK'
    BY <1>1, <2>1, <2>2 DEF SessionInvariant, TypeOK
  <2>4. TokensFit' /\ InStep'
    BY <1>1, <2>1, TokenFacts DEF SessionInvariant, TokensFit, InStep, Of
  <2> QED
    BY <2>3, <2>4 DEF SessionInvariant
<1>3. CASE u # None
  <2>1. u \in Users /\ Issue(u) /\ stored' = [token |-> NewToken, user |-> u]
    BY <1>3 DEF OtherTab, Somebody
  <2>2. /\ owner' \in Seq(Users) /\ Len(owner') = Len(owner) + 1 /\ Len(owner') \in Tokens
        /\ NewToken \in 1..Len(owner') /\ NewToken \in Tokens
        /\ owner'[NewToken] = u
        /\ \A t \in 1..Len(owner) : owner'[t] = owner[t]
    BY <2>1, IssueFacts DEF SessionInvariant
  <2>3. stored'.token = NewToken /\ stored'.user = u /\ stored' \in [token : Tokens, user : Somebody]
    BY <2>1, <2>2
  <2>4. TypeOK'
    <3>1. token' \in 0..Len(owner') /\ expired' \in 0..Len(owner')
      BY <1>1, <2>2, TokenFacts
    <3> QED
      BY <1>1, <2>2, <2>3, <3>1 DEF SessionInvariant, TypeOK
  <2>5. TokensFit'
    BY <1>1, <2>2, <2>3, TokenFacts DEF SessionInvariant, TokensFit
  <2>6. InStep'
    BY <1>1, <2>2, <2>3, TokenFacts DEF SessionInvariant, TokensFit, InStep, Of
  <2> QED
    BY <2>4, <2>5, <2>6 DEF SessionInvariant
<1> QED
  BY <1>2, <1>3

\* What a change of session does to a request in flight.
LEMMA LateFacts ==
  ASSUME NEW r \in Request \cup {Idle}
  PROVE  /\ Late(r) \in Request \cup {Idle} /\ Orphan(r) \in Request \cup {Idle}
         /\ r = Idle => Late(r) = Idle /\ Orphan(r) = Idle
         /\ r # Idle => /\ Late(r).late /\ Late(r).tok = r.tok /\ Late(r).at = r.at /\ Late(r).again = r.again
                        /\ Orphan(r).late /\ Orphan(r).tok = r.tok /\ Orphan(r).at = r.at
                        /\ Orphan(r).again = r.again
<1>1. CASE r = Idle
  BY <1>1 DEF Late, Orphan
<1>2. CASE r # Idle
  <2>1. r \in Request
    BY <1>2
  <2> QED
    BY <1>2, <2>1 DEF Late, Orphan, Request
<1> QED
  BY <1>1, <1>2

LEMMA LoginOkStep ==
  ASSUME SessionInvariant, LoginOk
  PROVE  SessionInvariant'
<1>1. login \in Users /\ Issue(login)
  BY DEF LoginOk, SessionInvariant, TypeOK, Somebody
<1>2. /\ owner' \in Seq(Users) /\ Len(owner') = Len(owner) + 1 /\ Len(owner') \in Tokens
      /\ NewToken \in 1..Len(owner') /\ NewToken \in Tokens
      /\ owner'[NewToken] = login
      /\ \A t \in 1..Len(owner) : owner'[t] = owner[t]
  BY <1>1, IssueFacts DEF SessionInvariant
<1>3. /\ token' = NewToken /\ user' = login /\ stored' = [token |-> NewToken, user |-> login]
      /\ cookie' = login /\ login' = None
      /\ UNCHANGED <<cache, expired, logout, overtaken, bounced>>
      /\ req' = [q \in Requests |-> Late(req[q])]
      /\ refreshing' = IF refreshing = None THEN None ELSE [refreshing EXCEPT !.late = TRUE]
  BY DEF LoginOk, SignedIn, Store, notes
<1>4. stored'.token = NewToken /\ stored'.user = login /\ stored' \in [token : Tokens, user : Somebody]
  BY <1>1, <1>2, <1>3 DEF Somebody
<1>5. \A p \in Requests : req'[p] = Late(req[p])
  BY <1>3
<1>6. \A p \in Requests : /\ req'[p] \in Request \cup {Idle}
                          /\ req[p] = Idle => req'[p] = Idle
                          /\ req[p] # Idle => /\ req'[p].late /\ req'[p].tok = req[p].tok
                                             /\ req'[p].at = req[p].at /\ req'[p].again = req[p].again
  BY <1>5, LateFacts DEF SessionInvariant, TypeOK
<1>7. req' \in [Requests -> Request \cup {Idle}]
  BY <1>3, <1>5, <1>6
<1>8. refreshing' \in Refresh \cup {None}
  BY <1>3 DEF SessionInvariant, TypeOK, Refresh
<1>9. TypeOK'
  <2>1. token' \in 0..Len(owner') /\ expired' \in 0..Len(owner')
    BY <1>2, <1>3, TokenFacts
  <2> QED
    BY <1>1, <1>2, <1>3, <1>4, <1>6, <1>7, <1>8, <2>1 DEF SessionInvariant, TypeOK, Somebody
<1>10. TokensFit'
  BY <1>2, <1>4, <1>6, TokenFacts DEF SessionInvariant, TokensFit
<1>11. InStep'
  <2> SUFFICES ASSUME ~overtaken' PROVE InStep'
    BY DEF InStep
  <2>1. token = 0 /\ user = None /\ (~bounced => cache = None)
    BY <1>1, <1>3, NoneAssumption DEF SessionInvariant, InStep, Of
  <2> QED
    BY <1>2, <1>3, <1>4, <1>6, <2>1 DEF InStep, Of
<1> QED
  BY <1>9, <1>10, <1>11 DEF SessionInvariant

LEMMA LogoutStep ==
  ASSUME SessionInvariant, LogoutSettles
  PROVE  SessionInvariant'
<1>1. /\ token' = 0 /\ user' = None /\ stored' = [token |-> 0, user |-> None]
      /\ cookie' \in {None, cookie} /\ cache' = None
      /\ UNCHANGED <<owner, expired, login, overtaken>>
      /\ logout' = FALSE /\ bounced' = FALSE
      /\ req' = [q \in Requests |-> Orphan(req[q])]
      /\ refreshing' = IF refreshing = None THEN None ELSE [refreshing EXCEPT !.late = TRUE]
  BY DEF LogoutSettles, Store, Forget, ClearCookie, issued
<1>2. stored'.token = 0 /\ stored'.user = None /\ stored' \in [token : Tokens, user : Somebody]
  BY <1>1, BoundsAssumption DEF Tokens, Somebody
<1>3. \A p \in Requests : req'[p] = Orphan(req[p])
  BY <1>1
<1>4. \A p \in Requests : /\ req'[p] \in Request \cup {Idle}
                          /\ req[p] = Idle => req'[p] = Idle
                          /\ req[p] # Idle => /\ req'[p].late /\ req'[p].tok = req[p].tok
                                             /\ req'[p].at = req[p].at /\ req'[p].again = req[p].again
  BY <1>3, LateFacts DEF SessionInvariant, TypeOK
<1>5. req' \in [Requests -> Request \cup {Idle}]
  BY <1>1, <1>3, <1>4
<1>6. refreshing' \in Refresh \cup {None}
  BY <1>1 DEF SessionInvariant, TypeOK, Refresh
<1>7. token' \in 0..Len(owner') /\ cookie' \in Somebody
  BY <1>1, TokenFacts DEF SessionInvariant, TypeOK, Somebody
<1>8. TypeOK'
  BY <1>1, <1>2, <1>4, <1>5, <1>6, <1>7 DEF SessionInvariant, TypeOK, Somebody
<1>9. TokensFit'
  BY <1>1, <1>2, <1>4, TokenFacts DEF SessionInvariant, TokensFit
<1>10. InStep'
  BY <1>1, <1>2, <1>4 DEF SessionInvariant, InStep, Of
<1> QED
  BY <1>8, <1>9, <1>10 DEF SessionInvariant

LEMMA RefreshOkStep ==
  ASSUME SessionInvariant, RefreshOk
  PROVE  SessionInvariant'
<1> DEFINE u == refreshing.cookie
<1>1. u \in Users /\ Issue(u)
  BY DEF RefreshOk, SessionInvariant, TypeOK, Refresh, Somebody
<1>2. /\ owner' \in Seq(Users) /\ Len(owner') = Len(owner) + 1 /\ Len(owner') \in Tokens
      /\ NewToken \in 1..Len(owner') /\ NewToken \in Tokens
      /\ owner'[NewToken] = u
      /\ \A t \in 1..Len(owner) : owner'[t] = owner[t]
  BY <1>1, IssueFacts DEF SessionInvariant
<1>3. /\ token' = NewToken /\ user' = user /\ stored' = [token |-> NewToken, user |-> user]
      /\ cookie' = u /\ refreshing' = None
      /\ UNCHANGED <<cache, expired, login, logout, bounced>>
      /\ req' = Resume(req, NewToken)
      /\ overtaken' = (overtaken \/ refreshing.late \/ u # user)
  BY DEF RefreshOk, Store, mutations
<1>4. stored'.token = NewToken /\ stored'.user = user /\ stored' \in [token : Tokens, user : Somebody]
  BY <1>2, <1>3 DEF SessionInvariant, TypeOK
<1>5. \A p \in Requests : req'[p] = IF req[p] # Idle /\ req[p].at = "waiting"
                                    THEN [req[p] EXCEPT !.at = "sent", !.tok = NewToken] ELSE req[p]
  BY <1>3 DEF Resume
<1>6. ASSUME NEW p \in Requests
      PROVE  /\ req'[p] \in Request \cup {Idle}
             /\ req[p] = Idle => req'[p] = Idle
             /\ req[p] # Idle => /\ req'[p] # Idle /\ req'[p].tok \in {req[p].tok, NewToken}
                                /\ req'[p].late = req[p].late /\ req'[p].orphan = req[p].orphan
                                /\ req'[p].at = "sent"
  <2>1. CASE req[p] = Idle
    BY <1>5, <2>1
  <2>2. CASE req[p] # Idle /\ req[p].at = "waiting"
    <3>1. req[p] \in Request
      BY <2>2, InFlight DEF SessionInvariant
    <3>2. req'[p] = [req[p] EXCEPT !.at = "sent", !.tok = NewToken]
      BY <1>5, <2>2
    <3>3. req'[p] \in Request /\ req'[p].tok = NewToken /\ req'[p].late = req[p].late
          /\ req'[p].orphan = req[p].orphan /\ req'[p].at = "sent"
      BY <1>2, <3>1, <3>2 DEF Request
    <3> QED
      BY <2>2, <3>3, RequestIsNotIdle
  <2>3. CASE req[p] # Idle /\ req[p].at # "waiting"
    <3>1. req[p] \in Request /\ req'[p] = req[p]
      BY <1>5, <2>3, InFlight DEF SessionInvariant
    <3> QED
      BY <2>3, <3>1 DEF Request
  <2> QED
    BY <2>1, <2>2, <2>3
<1>7. req' \in [Requests -> Request \cup {Idle}]
  BY <1>3, <1>6 DEF Resume
<1>8. overtaken' \in BOOLEAN
  BY <1>3 DEF SessionInvariant, TypeOK, RefreshOk, Refresh
<1>9. TypeOK'
  <2>1. token' \in 0..Len(owner') /\ expired' \in 0..Len(owner')
    BY <1>2, <1>3, TokenFacts
  <2> QED
    BY <1>1, <1>2, <1>3, <1>4, <1>6, <1>7, <1>8, <2>1 DEF SessionInvariant, TypeOK, Somebody
<1>10. TokensFit'
  <2>1. stored'.token <= Len(owner')
    BY <1>2, <1>4, TokenFacts
  <2>2. ASSUME NEW q \in Requests, req'[q] # Idle
        PROVE  /\ req'[q].tok \in 1..Len(owner')
               /\ req'[q].orphan => req'[q].late
    <3>1. /\ req[q] # Idle /\ req'[q].tok \in {req[q].tok, NewToken}
          /\ req'[q].late = req[q].late /\ req'[q].orphan = req[q].orphan
      BY <1>6, <2>2
    <3>2. req[q].tok \in 1..Len(owner) /\ (req[q].orphan => req[q].late)
      BY <3>1 DEF SessionInvariant, TokensFit
    <3> QED
      BY <1>2, <3>1, <3>2, TokenFacts
  <2> QED
    BY <2>1, <2>2 DEF TokensFit
<1>11. InStep'
  <2> SUFFICES ASSUME ~overtaken' PROVE InStep'
    BY DEF InStep
  <2>1. ~overtaken /\ user = u /\ user # None
    BY <1>1, <1>3, NoneAssumption
  <2>2. token # 0 /\ login = None
    BY <2>1 DEF SessionInvariant, InStep, Of
  <2>3. NewToken # 0 /\ owner'[NewToken] = user
    BY <1>2, <2>1
  <2>4. \A p \in Requests : req'[p] # Idle /\ ~req'[p].late =>
           req'[p].tok # 0 /\ owner'[req'[p].tok] = user
    <3> TAKE p \in Requests
    <3>1. CASE req[p] = Idle
      BY <1>6, <3>1
    <3>2. CASE req[p] # Idle /\ req'[p].late
      BY <3>2
    <3>3. CASE req[p] # Idle /\ ~req'[p].late
      <4>1. req[p].tok \in 1..Len(owner) /\ Of(req[p].tok) = user
        BY <1>6, <2>1, <3>3 DEF SessionInvariant, TokensFit, InStep
      <4>2. owner'[req[p].tok] = user /\ req[p].tok # 0
        BY <1>2, <4>1, TokenFacts DEF Of
      <4> QED
        BY <1>6, <2>3, <3>3, <4>2
    <3> QED
      BY <3>1, <3>2, <3>3
  <2> QED
    BY <1>3, <1>4, <2>1, <2>2, <2>3, <2>4 DEF SessionInvariant, InStep, Of
<1> QED
  BY <1>9, <1>10, <1>11 DEF SessionInvariant

LEMMA RefreshFailsStep ==
  ASSUME SessionInvariant, RefreshFails
  PROVE  SessionInvariant'
<1>1. /\ token' = 0 /\ user' = None /\ stored' = [token |-> 0, user |-> None]
      /\ UNCHANGED <<cookie, owner, expired>> /\ refreshing' = None
      /\ overtaken' = (overtaken \/ refreshing.late)
  BY DEF RefreshFails, Store, issued
<1>2. stored'.token = 0 /\ stored'.user = None /\ stored' \in [token : Tokens, user : Somebody]
  BY <1>1, BoundsAssumption DEF Tokens, Somebody
<1>3. token' \in 0..Len(owner') /\ overtaken' \in BOOLEAN
  BY <1>1, TokenFacts DEF SessionInvariant, TypeOK, RefreshFails, Refresh
<1>4. CASE /\ req' = [q \in Requests |-> IF req[q] # Idle /\ req[q].at = "waiting" THEN Idle
                                         ELSE Late(req[q])]
           /\ bounced' = TRUE /\ UNCHANGED <<cache, mutations>>
  <2>1. \A p \in Requests : req'[p] = Idle \/ req'[p] = Late(req[p])
    BY <1>4
  <2>2. \A p \in Requests : /\ req'[p] \in Request \cup {Idle}
                            /\ req'[p] # Idle => /\ req[p] # Idle /\ req'[p].late /\ req'[p].tok = req[p].tok
                                                /\ req'[p].at = req[p].at /\ req'[p].again = req[p].again
    BY <2>1, LateFacts DEF SessionInvariant, TypeOK
  <2>3. req' \in [Requests -> Request \cup {Idle}]
    BY <1>4, <2>2
  <2>4. UNCHANGED <<cache, login, logout>>
    BY <1>4 DEF mutations
  <2>5. TypeOK'
    BY <1>1, <1>2, <1>3, <1>4, <2>2, <2>3, <2>4 DEF SessionInvariant, TypeOK, Somebody
  <2>6. TokensFit'
    BY <1>1, <1>2, <2>2, TokenFacts DEF SessionInvariant, TokensFit
  <2>7. InStep'
    BY <1>1, <1>2, <1>4, <2>2 DEF SessionInvariant, InStep, Of
  <2> QED
    BY <2>5, <2>6, <2>7 DEF SessionInvariant
<1>5. CASE /\ req' = [q \in Requests |-> Idle]
           /\ cache' = None /\ login' = None /\ logout' = FALSE /\ bounced' = FALSE
  <2>1. \A p \in Requests : req'[p] = Idle
    BY <1>5
  <2>2. req' \in [Requests -> Request \cup {Idle}]
    BY <1>5
  <2>3. TypeOK'
    BY <1>1, <1>2, <1>3, <1>5, <2>1, <2>2 DEF SessionInvariant, TypeOK, Somebody
  <2>4. TokensFit' /\ InStep'
    BY <1>1, <1>2, <1>5, <2>1, TokenFacts DEF SessionInvariant, TokensFit, InStep, Of
  <2> QED
    BY <2>3, <2>4 DEF SessionInvariant
<1> QED
  BY <1>4, <1>5 DEF RefreshFails

----------------------------------------------------------------------------
\* Every action keeps the invariant.
THEOREM InvariantStep == SessionInvariant /\ [Next]_vars => SessionInvariant'
<1> SUFFICES ASSUME SessionInvariant, [Next]_vars PROVE SessionInvariant'
  OBVIOUS
<1>1. CASE \E q \in Requests : Answer(q)
  BY <1>1, AnswerMeStep, AnswerListStep, UnauthorizedStep, RejectStep DEF Answer
<1>2. CASE \E q \in Requests : \E k \in {"me", "list"} : Send(q, k)
  BY <1>2, SendStep
<1>3. CASE Refreshed
  BY <1>3, RefreshOkStep, RefreshFailsStep DEF Refreshed
<1>4. CASE LoginOk \/ LoginFails \/ StartLogout \/ LogoutSettles
  BY <1>4, LoginOkStep, LoginFailsStep, StartLogoutStep, LogoutStep
<1>5. CASE Expire \/ Reload
  BY <1>5, ExpireStep, ReloadStep
<1>6. CASE (\E u \in Users : StartLogin(u)) \/ (\E u \in Somebody : OtherTab(u))
  BY <1>6, StartLoginStep, OtherTabStep
<1>7. CASE UNCHANGED vars
  <2>1. UNCHANGED <<cookie, stored, token, user, cache, owner, expired, req, refreshing, login, logout, overtaken, bounced>>
    BY <1>7 DEF vars, browser, store, issued, mutations, notes
  <2> QED
    BY <2>1 DEF SessionInvariant, TypeOK, TokensFit, InStep, Of
<1> QED
  BY <1>1, <1>2, <1>3, <1>4, <1>5, <1>6, <1>7 DEF Next

\* The invariant holds of every state the tab can reach.
THEOREM AlwaysInvariant == Spec => []SessionInvariant
BY InvariantInit, InvariantStep, PTL DEF Spec

\* The store, the queries and the mutations are what they are declared to be, and no
\* query waits for a second refresh.
THEOREM TypeCorrect == Spec => []TypeOK
<1>1. SessionInvariant => TypeOK
  BY DEF SessionInvariant
<1> QED
  BY <1>1, AlwaysInvariant, PTL

\* The user shown is the user of the token sent, unless something was overtaken, for
\* any number of users, queries and tokens.
THEOREM UserIsOfToken == Spec => []UserIsToken
<1>1. SessionInvariant => UserIsToken
  BY DEF SessionInvariant, InStep, UserIsToken, Of
<1> QED
  BY <1>1, AlwaysInvariant, PTL

\* Under the same condition the lists in the cache are those of the user shown, as
\* long as no refresh has failed.
THEOREM ListsBelong == Spec => []ListsAreOwn
<1>1. SessionInvariant => ListsAreOwn
  BY DEF SessionInvariant, InStep, ListsAreOwn
<1> QED
  BY <1>1, AlwaysInvariant, PTL

----------------------------------------------------------------------------
(* ProgressStream. *)

StreamInvariant ==
  /\ StreamTypeOK
  /\ server # "ended" => \A i \in DOMAIN wire : wire[i] # Hangup
  /\ \A i \in DOMAIN wire : wire[i].nr <= row.nr
  /\ server = "send" => snapshot # NoNews
  /\ snapshot # NoNews => snapshot.nr <= row.nr
  /\ LastFetchIsFresh

Frame == News \cup {Hangup}

\* The end of a stream is no news.
LEMMA HangupIsNoNews == Hangup \notin News /\ Hangup.nr = 0 /\ \A n \in News : n.nr \in Nat
BY DEF Hangup, News, Status

\* The wire after a frame is sent to it, the last one perhaps.
LEMMA FrameSent ==
  ASSUME StreamInvariant, server # "ended", NEW e \in Frame, e.nr <= row.nr,
         wire' = Append(wire, e)
  PROVE  /\ wire' \in Seq(Frame)
         /\ \A i \in DOMAIN wire' : wire'[i].nr <= row.nr
         /\ \A i \in DOMAIN wire' : wire'[i] = Hangup => i = Len(wire')
         /\ e # Hangup => \A i \in DOMAIN wire' : wire'[i] # Hangup
<1>1. wire \in Seq(Frame)
  BY DEF StreamInvariant, StreamTypeOK, Frame
<1>2. /\ wire' \in Seq(Frame) /\ Len(wire') = Len(wire) + 1 /\ Len(wire) \in Nat
      /\ DOMAIN wire = 1..Len(wire) /\ DOMAIN wire' = 1..Len(wire')
      /\ \A i \in 1..Len(wire) : wire'[i] = wire[i]
      /\ wire'[Len(wire) + 1] = e
  BY <1>1, AppendProperties
<1> QED
  BY <1>2 DEF StreamInvariant

\* The same for a terminal frame, which is followed by the end.
LEMMA LastFrameSent ==
  ASSUME StreamInvariant, server # "ended", NEW e \in News, e.nr <= row.nr,
         wire' = wire \o <<e, Hangup>>
  PROVE  /\ wire' \in Seq(Frame)
         /\ \A i \in DOMAIN wire' : wire'[i].nr <= row.nr
         /\ \A i \in DOMAIN wire' : wire'[i] = Hangup => i = Len(wire')
<1>1. wire \in Seq(Frame) /\ <<e, Hangup>> \in Seq(Frame) /\ Len(<<e, Hangup>>) = 2
  BY DEF StreamInvariant, StreamTypeOK, Frame
<1>2. /\ wire' \in Seq(Frame) /\ Len(wire') = Len(wire) + 2 /\ Len(wire) \in Nat
      /\ DOMAIN wire = 1..Len(wire) /\ DOMAIN wire' = 1..Len(wire')
      /\ \A i \in 1..Len(wire) : wire'[i] = wire[i]
      /\ wire'[Len(wire) + 1] = e /\ wire'[Len(wire) + 2] = Hangup
  BY <1>1, ConcatProperties
<1>3. \A i \in 1..Len(wire') : i \in 1..Len(wire) \/ i = Len(wire) + 1 \/ i = Len(wire) + 2
  BY <1>2
<1>4. row.nr \in Nat /\ e # Hangup /\ Hangup.nr = 0
  BY HangupIsNoNews DEF StreamInvariant, StreamTypeOK, News
<1> QED
  BY <1>2, <1>3, <1>4 DEF StreamInvariant

\* Of a stream that breaks some frames arrive, and its end.
LEMMA StreamBroken ==
  ASSUME StreamInvariant, Disconnect
  PROVE  /\ wire' \in Seq(Frame)
         /\ \A i \in DOMAIN wire' : wire'[i].nr <= row.nr
         /\ \A i \in DOMAIN wire' : wire'[i] = Hangup => i = Len(wire')
<1>1. PICK k \in 0..Len(wire) :
        /\ \A i \in 1..k : wire[i] # Hangup
        /\ wire' = Append(SubSeq(wire, 1, k), Hangup)
  BY DEF Disconnect
<1> DEFINE s == SubSeq(wire, 1, k)
<1>2. wire \in Seq(Frame) /\ Len(wire) \in Nat /\ DOMAIN wire = 1..Len(wire)
  BY DEF StreamInvariant, StreamTypeOK, Frame
<1>3. s \in Seq(Frame) /\ Len(s) = k /\ \A i \in 1..k : s[i] = wire[i]
  <2>1. \A i \in 1..k : wire[i] \in Frame
    BY <1>2, ElementOfSeq
  <2> QED
    BY <1>2, <2>1, SubSeqProperties
<1> HIDE DEF s
<1>4. /\ wire' \in Seq(Frame) /\ Len(wire') = k + 1 /\ DOMAIN wire' = 1..(k + 1)
      /\ \A i \in 1..k : wire'[i] = s[i]
      /\ wire'[k + 1] = Hangup
  BY <1>1, <1>3, AppendProperties DEF s, Frame
<1>5. row.nr \in Nat /\ Hangup.nr = 0
  BY HangupIsNoNews DEF StreamInvariant, StreamTypeOK, News
<1> QED
  BY <1>1, <1>2, <1>3, <1>4, <1>5 DEF StreamInvariant

\* The frames that are left when the first one has arrived.
LEMMA FrameArrived ==
  ASSUME StreamInvariant, wire # <<>>, wire' = Tail(wire)
  PROVE  /\ wire' \in Seq(Frame)
         /\ \A i \in DOMAIN wire' : wire'[i].nr <= row.nr
         /\ \A i \in DOMAIN wire' : wire'[i] = Hangup => i = Len(wire')
         /\ (\A i \in DOMAIN wire : wire[i] # Hangup) =>
              \A i \in DOMAIN wire' : wire'[i] # Hangup
<1>1. wire \in Seq(Frame)
  BY DEF StreamInvariant, StreamTypeOK, Frame
<1>2. /\ wire' \in Seq(Frame) /\ Len(wire') = Len(wire) - 1 /\ Len(wire) \in Nat
      /\ DOMAIN wire = 1..Len(wire) /\ DOMAIN wire' = 1..Len(wire')
      /\ \A i \in 1..Len(wire') : wire'[i] = wire[i + 1] /\ i + 1 \in 1..Len(wire)
  BY <1>1, HeadTailProperties
<1> QED
  BY <1>2 DEF StreamInvariant, StreamTypeOK

\* The first frame is a piece of news no newer than the row.
LEMMA FrameIsNews ==
  ASSUME StreamInvariant, wire # <<>>, Head(wire) # Hangup
  PROVE  Head(wire) \in News /\ Head(wire).nr <= row.nr
<1>1. wire \in Seq(Frame)
  BY DEF StreamInvariant, StreamTypeOK, Frame
<1>2. Head(wire) \in Frame /\ 1 \in DOMAIN wire /\ Head(wire) = wire[1]
  BY <1>1, HeadTailProperties, EmptySeq
<1> QED
  BY <1>2 DEF StreamInvariant, Frame

\* The fetches and their answers.
FetchesOK ==
  /\ fetch \in [Fetches -> Fetch]
  /\ \A f \in Fetches : /\ fetch[f].since <= row.nr
                        /\ fetch[f].state = "answered" <=> fetch[f].answer # NoNews
                        /\ fetch[f].state = "answered" => fetch[f].answer.nr >= fetch[f].since

\* A fetch of what is known to be there leaves them in order.
LEMMA AskKeepsFetches ==
  ASSUME StreamInvariant, NEW nr \in Nat, nr <= row.nr, Ask(nr), row' = row
  PROVE  FetchesOK'
<1>1. PICK f \in Fetches : fetch' = [fetch EXCEPT ![f] = Asked(nr)]
  BY DEF Ask
<1>2. /\ Asked(nr) \in Fetch /\ Asked(nr).since = nr
      /\ Asked(nr).state = "asked" /\ Asked(nr).answer = NoNews
  BY DEF Asked, Fetch
<1>3. /\ fetch' \in [Fetches -> Fetch] /\ fetch'[f] = Asked(nr)
      /\ \A g \in Fetches \ {f} : fetch'[g] = fetch[g]
  BY <1>1, <1>2 DEF StreamInvariant, StreamTypeOK
<1> QED
  BY <1>2, <1>3 DEF FetchesOK, StreamInvariant, StreamTypeOK, LastFetchIsFresh

\* Every step keeps the stream's invariant, whatever breaks, fails or overtakes.
LEMMA StreamStep ==
  ASSUME StreamInvariant, [StreamNext]_streamVars
  PROVE  StreamInvariant'
<1> USE HangupIsNoNews, NoNewsAssumption
<1> USE DEF workerVars, queueVars, serverVars, pageVars
<1>1. /\ row \in News /\ row.nr \in Nat /\ wire \in Seq(Frame) /\ FetchesOK
      /\ row # Hangup
  BY DEF StreamInvariant, StreamTypeOK, Frame, News, FetchesOK, LastFetchIsFresh
<1>2. ASSUME NEW s \in Status, Write(s), worker' = "busy", worker # "over" PROVE StreamInvariant'
  <2>1. row' \in News /\ row'.nr = row.nr + 1 /\ row'.nr \in Nat /\ silent' = TRUE
    BY <1>1, <1>2 DEF Write, News
  <2>2. UNCHANGED <<server, snapshot, wire, source, view, polling, fetch>>
    BY <1>2 DEF Write
  <2>3. \A f \in Fetches : fetch[f].since \in Nat /\ fetch[f].since <= row'.nr
    BY <1>1, <2>1 DEF FetchesOK, Fetch
  <2>3a. left' = left /\ left \in 0..Deliveries /\ left > 0
    BY <1>2 DEF Write, StreamInvariant, StreamTypeOK
  <2>4. StreamTypeOK'
    BY <1>2, <2>1, <2>2, <2>3, <2>3a DEF StreamInvariant, StreamTypeOK
  <2>5. \A n \in Frame : n.nr <= row.nr => n.nr <= row'.nr
    BY <1>1, <2>1 DEF Frame
  <2>6. \A i \in DOMAIN wire : wire[i] \in Frame
    BY <1>1, ElementOfSeq
  <2>7. \A i \in DOMAIN wire : wire[i].nr <= row'.nr
    BY <2>5, <2>6 DEF StreamInvariant
  <2>8. snapshot # NoNews => snapshot.nr <= row'.nr
    BY <2>5 DEF StreamInvariant, StreamTypeOK, Frame
  <2>9. LastFetchIsFresh'
    BY <2>2 DEF StreamInvariant, LastFetchIsFresh
  <2> QED
    BY <2>2, <2>4, <2>7, <2>8, <2>9 DEF StreamInvariant
<1>3. CASE Start \/ MarkDone \/ MarkFailed
  BY <1>2, <1>3 DEF Start, MarkDone, MarkFailed, Status
<1>3a. CASE Skip \/ Fail \/ Complete
  <2>1. /\ worker' \in {"waiting", "busy", "over"} /\ left' \in 0..Deliveries
        /\ worker' # "over" => left' > 0
    BY <1>3a, DeliveriesAssumption DEF Skip, Fail, Complete, Lose, StreamInvariant, StreamTypeOK
  <2>2. UNCHANGED <<row, silent, serverVars, wire, pageVars>>
    BY <1>3a DEF Skip, Fail, Complete, Lose
  <2> QED
    BY <2>1, <2>2 DEF StreamInvariant, StreamTypeOK, LastFetchIsFresh
<1>4. CASE Publish
  <2>1. CASE server = "listen" /\ row.status \in Terminal
    <3>1. wire' = wire \o <<row, Hangup>> /\ server' = "ended" /\ UNCHANGED <<row, queueVars, snapshot, pageVars>>
          /\ silent' = FALSE
      BY <1>4, <2>1 DEF Publish
    <3>2. /\ wire' \in Seq(Frame)
          /\ \A i \in DOMAIN wire' : wire'[i].nr <= row.nr
          /\ \A i \in DOMAIN wire' : wire'[i] = Hangup => i = Len(wire')
      <4>1. server # "ended" /\ row.nr <= row.nr
        BY <1>1, <2>1
      <4> QED
        BY <1>1, <3>1, <4>1, LastFrameSent
    <3> QED
      BY <1>1, <3>1, <3>2 DEF StreamInvariant, StreamTypeOK, LastFetchIsFresh, Frame
  <2>2. CASE server = "listen" /\ row.status \notin Terminal
    <3>1. wire' = Append(wire, row) /\ UNCHANGED <<server, row, queueVars, snapshot, pageVars>>
          /\ silent' = FALSE
      BY <1>4, <2>2 DEF Publish
    <3>2. /\ wire' \in Seq(Frame)
          /\ \A i \in DOMAIN wire' : wire'[i].nr <= row.nr
          /\ \A i \in DOMAIN wire' : wire'[i] # Hangup
      BY <1>1, <2>2, <3>1, FrameSent DEF Frame
    <3> QED
      BY <1>1, <3>1, <3>2 DEF StreamInvariant, StreamTypeOK, LastFetchIsFresh, Frame
  <2>3. CASE server # "listen"
    BY <1>4, <2>3 DEF Publish, StreamInvariant, StreamTypeOK, LastFetchIsFresh
  <2> QED
    BY <2>1, <2>2, <2>3
<1>5. CASE ReadRow
  BY <1>1, <1>5 DEF ReadRow, StreamInvariant, StreamTypeOK, LastFetchIsFresh
<1>6. CASE Refuse
  <2>1. /\ wire' \in Seq(Frame)
        /\ \A i \in DOMAIN wire' : wire'[i].nr <= row.nr
        /\ \A i \in DOMAIN wire' : wire'[i] = Hangup => i = Len(wire')
    BY <1>1, <1>6, FrameSent DEF Refuse, Frame
  <2> QED
    BY <1>6, <2>1 DEF Refuse, StreamInvariant, StreamTypeOK, LastFetchIsFresh, Frame
<1>7. CASE SendSnapshot
  <2>1. snapshot \in News /\ snapshot.nr <= row.nr /\ snapshot # Hangup /\ server = "send"
    BY <1>7 DEF SendSnapshot, StreamInvariant, StreamTypeOK
  <2>2. CASE snapshot.status \in Terminal
    <3>1. wire' = wire \o <<snapshot, Hangup>> /\ server' = "ended"
          /\ UNCHANGED <<workerVars, snapshot, pageVars>>
      BY <1>7, <2>2 DEF SendSnapshot
    <3> QED
      BY <2>1, <3>1, LastFrameSent DEF StreamInvariant, StreamTypeOK, LastFetchIsFresh, Frame
  <2>3. CASE snapshot.status \notin Terminal
    <3>1. wire' = Append(wire, snapshot) /\ server' = "subscribe"
          /\ UNCHANGED <<workerVars, snapshot, pageVars>>
      BY <1>7, <2>3 DEF SendSnapshot
    <3> QED
      BY <2>1, <3>1, FrameSent DEF StreamInvariant, StreamTypeOK, LastFetchIsFresh, Frame
  <2> QED
    BY <2>2, <2>3
<1>8. CASE Subscribe
  BY <1>8 DEF Subscribe, StreamInvariant, StreamTypeOK, LastFetchIsFresh
<1>9. CASE Disconnect
  <2>1. server' = "ended" /\ UNCHANGED <<workerVars, snapshot, pageVars>>
    BY <1>9 DEF Disconnect
  <2> QED
    BY <1>9, <2>1, StreamBroken DEF StreamInvariant, StreamTypeOK, LastFetchIsFresh, Frame
<1>10. ASSUME UNCHANGED <<workerVars, snapshot>>, FetchesOK',
              (wire' = <<>> /\ server' = "ended") \/ UNCHANGED <<wire, server>>,
              source' \in {"open", "closed"}, view' \in News \cup {NoNews}, polling' \in BOOLEAN
       PROVE  StreamInvariant'
  <2>1. /\ wire' \in Seq(Frame)
        /\ \A i \in DOMAIN wire' : wire'[i].nr <= row.nr
        /\ \A i \in DOMAIN wire' : wire'[i] = Hangup => i = Len(wire')
        /\ server' # "ended" => \A i \in DOMAIN wire' : wire'[i] # Hangup
    <3>1. CASE wire' = <<>> /\ server' = "ended"
      BY <3>1, EmptySeq
    <3>2. CASE UNCHANGED <<wire, server>>
      BY <1>1, <1>10, <3>2 DEF StreamInvariant, StreamTypeOK
    <3> QED
      BY <1>10, <3>1, <3>2
  <2> QED
    BY <1>10, <2>1 DEF StreamInvariant, StreamTypeOK, LastFetchIsFresh, FetchesOK, Frame
<1>11. CASE Receive
  <2>1. Head(wire) \in News /\ Head(wire).nr <= row.nr /\ Head(wire).nr \in Nat
    BY <1>11, FrameIsNews DEF Receive
  <2>2. CASE Head(wire).status \in Terminal
    <3>1. Close /\ Ask(Head(wire).nr) /\ view' = Head(wire) /\ UNCHANGED <<workerVars, polling>>
      BY <1>11, <2>2 DEF Receive
    <3>2. FetchesOK'
      BY <2>1, <3>1, AskKeepsFetches
    <3> QED
      BY <1>10, <2>1, <3>1, <3>2 DEF Close, StreamInvariant, StreamTypeOK
  <2>3. CASE Head(wire).status \notin Terminal
    <3>1. /\ wire # <<>> /\ wire' = Tail(wire) /\ view' = Head(wire)
          /\ UNCHANGED <<serverVars, source, fetch, workerVars, polling>>
      BY <1>11, <2>3 DEF Receive
    <3> QED
      BY <2>1, <3>1, FrameArrived DEF StreamInvariant, StreamTypeOK, LastFetchIsFresh, Frame
  <2> QED
    BY <2>2, <2>3
<1>12. CASE StreamError
  <2>1. FetchesOK'
    BY <1>1, <1>12, AskKeepsFetches DEF StreamError
  <2> QED
    BY <1>10, <1>12, <2>1 DEF StreamError, Close, StreamInvariant, StreamTypeOK
<1>13. CASE Poll
  <2>1. FetchesOK'
    BY <1>1, <1>13, AskKeepsFetches DEF Poll
  <2> QED
    BY <1>10, <1>13, <2>1 DEF Poll, StreamInvariant, StreamTypeOK
<1>14. ASSUME NEW f \in Fetches, Reply(f) PROVE StreamInvariant'
  <2>1. FetchesOK'
    BY <1>1, <1>14 DEF Reply, FetchesOK, Fetch
  <2> QED
    BY <1>10, <1>14, <2>1 DEF Reply, StreamInvariant, StreamTypeOK
<1>15. ASSUME NEW f \in Fetches, Show(f) \/ FetchFails(f) PROVE StreamInvariant'
  <2>0. /\ fetch' = [fetch EXCEPT ![f] = Free] /\ row' = row
        /\ Free \in Fetch /\ Free.since = 0 /\ Free.state = "free" /\ Free.answer = NoNews
    BY <1>15 DEF Show, FetchFails, Free, Fetch
  <2>1. FetchesOK'
    BY <1>1, <2>0 DEF FetchesOK
  <2>2. view' \in News \cup {NoNews} /\ polling' \in BOOLEAN
    BY <1>1, <1>15 DEF Show, FetchFails, FetchesOK, Fetch, StreamInvariant, StreamTypeOK
  <2> QED
    BY <1>10, <1>15, <2>1, <2>2 DEF Show, FetchFails, StreamInvariant, StreamTypeOK
<1>16. CASE UNCHANGED streamVars
  BY <1>16 DEF streamVars, StreamInvariant, StreamTypeOK, LastFetchIsFresh
<1> QED
  BY <1>3, <1>3a, <1>4, <1>5, <1>6, <1>7, <1>8, <1>9, <1>11, <1>12, <1>13, <1>14, <1>15, <1>16
  DEF StreamNext, Work, Serve, Listen

\* Nothing on its way to the page is newer than the row, and a stream ends once.
LEMMA StreamAlwaysConsistent == StreamSpec => []StreamInvariant
<1>1. StreamInit => StreamInvariant
  <2> SUFFICES ASSUME StreamInit PROVE StreamInvariant
    OBVIOUS
  <2>1. row \in News /\ row.nr = 0 /\ Free \in Fetch /\ Free.state = "free"
        /\ Free.answer = NoNews /\ Free.since = 0
    BY DEF StreamInit, News, Status, Free, Fetch
  <2>2. Asked(0) \in Fetch /\ Asked(0).state = "asked" /\ Asked(0).answer = NoNews
        /\ Asked(0).since = 0
    BY DEF Asked, Fetch
  <2>3. FetchesOK
    BY <2>1, <2>2 DEF StreamInit, FetchesOK, Fetch
  <2>4. wire \in Seq(Frame) /\ DOMAIN wire = {}
    BY EmptySeq DEF StreamInit
  <2>5. StreamTypeOK
    <3>1. /\ silent \in BOOLEAN /\ server = "start" /\ snapshot = NoNews
          /\ source = "open" /\ view = NoNews /\ polling \in BOOLEAN
      BY DEF StreamInit
    <3>2. worker = "waiting" /\ left \in 0..Deliveries /\ left > 0
      <4>1. left = Deliveries /\ worker = "waiting"
        BY DEF StreamInit
      <4> QED
        BY <4>1, DeliveriesAssumption
    <3> QED
      BY <2>1, <2>3, <2>4, <3>1, <3>2 DEF StreamTypeOK, FetchesOK, Frame
  <2>6. LastFetchIsFresh /\ snapshot = NoNews /\ server = "start"
    BY <2>3 DEF StreamInit, LastFetchIsFresh, FetchesOK
  <2> QED
    BY <2>4, <2>5, <2>6 DEF StreamInvariant
<1> QED
  BY <1>1, StreamStep, PTL DEF StreamSpec

\* Frames, the handler, the page and its fetches keep their types; a frame that
\* ends a stream is its last one.
THEOREM StreamTypeCorrect == StreamSpec => []StreamTypeOK
<1>1. StreamInvariant => StreamTypeOK
  BY DEF StreamInvariant
<1> QED
  BY <1>1, StreamAlwaysConsistent, PTL

\* The fetch that follows a terminal frame never brings a row older than the frame.
THEOREM LastFetchAlwaysFresh == StreamSpec => []LastFetchIsFresh
<1>1. StreamInvariant => LastFetchIsFresh
  BY DEF StreamInvariant
<1> QED
  BY <1>1, StreamAlwaysConsistent, PTL
=============================================================================
