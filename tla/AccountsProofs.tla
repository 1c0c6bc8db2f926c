--------------------------- MODULE AccountsProofs ---------------------------
(***************************************************************************)
(* Proofs about Accounts, for any number of users, tenants, emails and     *)
(* requests side by side.  A request that was authenticated acts later:    *)
(* the invariant says what it still knows by then.  Of its target that is  *)
(* the tenant, which no row ever changes; of everything else only what     *)
(* holds while nobody else is served (OneAtATime).                         *)
(***************************************************************************)
EXTENDS Accounts, TLAPS

Was(u) == status[u] # "none"

\* A user who was there ever belongs to a tenant that was founded.
RowsFit == \A u \in Ids : Was(u) => tenant[u] \in founded

\* Where a request may be, and whom it is about: no deletion of oneself, no write
\* to a user of another tenant.
RequestFits(r) ==
  /\ r.op \in Manage => r.at \in {"find", "write"} /\ r.by \in Ids /\ Was(r.by)
  /\ r.op \in {"patch", "delete", "assign"} => r.who \in Ids /\ Was(r.who)
  /\ r.op = "patch" => r.arg \in {"active", "disabled"}
  /\ r.op = "delete" => r.who # r.by
  /\ r.op \in {"patch", "delete", "assign"} /\ r.at = "write" => tenant[r.who] = tenant[r.by]
  /\ r.op \in {"login", "refresh"} => r.at = "sign"
  /\ r.op = "create" => r.at = "write"
  /\ r.op = "register" => r.at \in {"write", "sign"}
  /\ r.at = "sign" => r.who \in Ids /\ Was(r.who)

RequestsFit == \A s \in Slots : Busy(s) => RequestFits(req[s])

\* While nobody else is served, the user of the request still manages users.
OneAtATime ==
  orderly => \A s \in Slots : Busy(s) =>
               /\ \A z \in Slots : Busy(z) => s = z
               /\ req[s].op \in Manage => req[s].by \in managers

AccountsInvariant == TypeOK /\ RowsFit /\ RequestsFit /\ OneAtATime /\ SomebodyManages

----------------------------------------------------------------------------
\* The invariant holds when the system starts.
THEOREM InvariantInit == Init => AccountsInvariant
<1> SUFFICES ASSUME Init PROVE AccountsInvariant
  OBVIOUS
<1>1. 1 \in Ids /\ 1 \in Tenants /\ Mail \in Emails /\ MaxId \in Nat /\ MaxTenant \in Nat
  BY BoundsAssumption, MailAssumption DEF Ids, Tenants
<1>2. \A s \in Slots : ~Busy(s)
  BY DEF Init, Busy
<1>3. TypeOK
  BY <1>1, <1>2 DEF Init, TypeOK, Status, NoOne, Ids, Tenants, Idle
<1>4. RowsFit /\ SomebodyManages
  BY <1>1 DEF Init, RowsFit, Was, SomebodyManages
<1>5. RequestsFit /\ OneAtATime
  BY <1>2 DEF RequestsFit, OneAtATime
<1> QED
  BY <1>3, <1>4, <1>5 DEF AccountsInvariant

\* A request in flight is a record of the type.
LEMMA BusyIsRequest ==
  ASSUME TypeOK, NEW s \in Slots, Busy(s)
  PROVE  req[s] \in Request
BY DEF TypeOK, Busy

LEMMA RequestIsNotIdle ==
  ASSUME NEW r \in Request
  PROVE  r # Idle
BY DEF Request, Idle, Manage, SignIn

\* Rows stay, and tenants of rows: what a request knows of them it knows for ever.
LEMMA StillFits ==
  ASSUME NEW r \in Request, RequestFits(r),
         \A u \in Ids : Was(u) => Was(u)' /\ tenant'[u] = tenant[u]
  PROVE  RequestFits(r)'
BY DEF RequestFits, Manage

\* One request changes, the rows do not.
LEMMA RequestStep ==
  ASSUME AccountsInvariant, NEW s \in Slots, NEW r \in Request \cup {Idle},
         r # Idle => RequestFits(r) /\ (r.op \in Manage => r.by \in managers \/ ~orderly'),
         req' = [req EXCEPT ![s] = r], UNCHANGED rows, access' \in SUBSET Ids,
         orderly' \in BOOLEAN, orderly' => orderly /\ \A z \in Slots : Busy(z) => z = s
  PROVE  AccountsInvariant'
<1>1. /\ \A z \in Slots : req'[z] = IF z = s THEN r ELSE req[z]
      /\ req' \in [Slots -> Request \cup {Idle}]
  BY DEF AccountsInvariant, TypeOK
<1>2. UNCHANGED <<status, tenant, email, managers, founded>>
  BY DEF rows
<1>3. TypeOK'
  BY <1>1, <1>2 DEF AccountsInvariant, TypeOK
<1>4. RowsFit'
  BY <1>2 DEF AccountsInvariant, RowsFit, Was
<1>5. SomebodyManages'
  BY <1>2 DEF AccountsInvariant, SomebodyManages
<1>6. RequestsFit'
  <2> SUFFICES ASSUME NEW z \in Slots, req'[z] # Idle PROVE RequestFits(req[z])'
    BY DEF RequestsFit, Busy
  <2>1. \A u \in Ids : Was(u) => Was(u)' /\ tenant'[u] = tenant[u]
    BY <1>2 DEF Was
  <2>2. CASE z = s
    <3>1. req'[z] = r /\ r \in Request /\ RequestFits(r)
      BY <1>1, <2>2
    <3>2. RequestFits(r)'
      BY <2>1, <3>1, StillFits
    <3> QED
      BY <3>1, <3>2 DEF RequestFits, Was
  <2>3. CASE z # s
    <3>1. req'[z] = req[z] /\ Busy(z) /\ RequestFits(req[z])
      BY <1>1, <2>3 DEF AccountsInvariant, RequestsFit, Busy
    <3> QED
      BY <1>2, <3>1 DEF RequestFits, Was
  <2> QED
    BY <2>2, <2>3
<1>7. OneAtATime'
  BY <1>1, <1>2 DEF AccountsInvariant, OneAtATime, Busy
<1> QED
  BY <1>3, <1>4, <1>5, <1>6, <1>7 DEF AccountsInvariant

LEMMA BeginStep ==
  ASSUME AccountsInvariant, NEW s \in Slots,
         NEW op, NEW at, NEW by, NEW who, NEW e, NEW arg,
         Begin(s, op, at, by, who, e, arg),
         [op |-> op, at |-> at, by |-> by, who |-> who, email |-> e, arg |-> arg] \in Request,
         RequestFits([op |-> op, at |-> at, by |-> by, who |-> who, email |-> e, arg |-> arg]),
         op \in Manage => by \in managers
  PROVE  AccountsInvariant'
<1> DEFINE r == [op |-> op, at |-> at, by |-> by, who |-> who, email |-> e, arg |-> arg]
<1>1. r \in Request /\ RequestFits(r) /\ r.op = op /\ r.by = by
  OBVIOUS
<1>2. req' = [req EXCEPT ![s] = r] /\ UNCHANGED rows /\ access' = access
  BY DEF Begin
<1>3. orderly' = (orderly /\ \A z \in Slots : ~Busy(z))
  BY DEF Begin
<1>4. orderly' \in BOOLEAN /\ (orderly' => orderly /\ \A z \in Slots : ~Busy(z))
  BY <1>3, Zenon DEF AccountsInvariant, TypeOK
<1>5. access' \in SUBSET Ids
  BY <1>2 DEF AccountsInvariant, TypeOK
<1> HIDE DEF r
<1> QED
  BY <1>1, <1>2, <1>4, <1>5, RequestStep

\* A request goes on, or ends, and nothing else happens.
LEMMA GotoStep ==
  ASSUME AccountsInvariant, NEW s \in Slots, Busy(s), NEW l, Goto(s, l) \/ End(s),
         Goto(s, l) => l \in {"find", "write", "sign"} /\ RequestFits([req[s] EXCEPT !.at = l]),
         UNCHANGED <<rows, orderly>>, access' \in SUBSET Ids
  PROVE  AccountsInvariant'
<1>1. req[s] \in Request
  BY BusyIsRequest DEF AccountsInvariant
<1>2. orderly' \in BOOLEAN /\ (orderly' => orderly /\ \A z \in Slots : Busy(z) => z = s)
  BY DEF AccountsInvariant, TypeOK, OneAtATime
<1>3. CASE End(s)
  BY <1>2, <1>3, RequestStep DEF End
<1>4. CASE Goto(s, l)
  <2> DEFINE r == [req[s] EXCEPT !.at = l]
  <2>1. r \in Request /\ RequestFits(r) /\ r.op = req[s].op /\ r.by = req[s].by
    BY <1>1, <1>4 DEF Request
  <2>2. req' = [req EXCEPT ![s] = r]
    BY <1>4 DEF Goto
  <2>3. r.op \in Manage => r.by \in managers \/ ~orderly'
    BY <2>1 DEF AccountsInvariant, OneAtATime
  <2> HIDE DEF r
  <2> QED
    BY <1>2, <2>1, <2>2, <2>3, RequestStep
<1> QED
  BY <1>3, <1>4

\* A step that changes rows ends its request, or leaves one that is not about users.
LEMMA RequestsAfter ==
  ASSUME AccountsInvariant, NEW s \in Slots, Busy(s), NEW r \in Request \cup {Idle},
         req' = [req EXCEPT ![s] = r], orderly' = orderly,
         r # Idle => RequestFits(r)' /\ r.op \notin Manage,
         \A u \in Ids : Was(u) => Was(u)' /\ tenant'[u] = tenant[u]
  PROVE  /\ req' \in [Slots -> Request \cup {Idle}]
         /\ RequestsFit' /\ OneAtATime'
<1>1. /\ \A z \in Slots : req'[z] = IF z = s THEN r ELSE req[z]
      /\ req' \in [Slots -> Request \cup {Idle}]
  BY DEF AccountsInvariant, TypeOK
<1>2. RequestsFit'
  <2> SUFFICES ASSUME NEW z \in Slots, req'[z] # Idle PROVE RequestFits(req[z])'
    BY DEF RequestsFit, Busy
  <2>1. CASE z = s
    BY <1>1, <2>1 DEF RequestFits, Was
  <2>2. CASE z # s
    <3>1. req'[z] = req[z] /\ Busy(z) /\ RequestFits(req[z]) /\ req[z] \in Request
      BY <1>1, <2>2, BusyIsRequest DEF AccountsInvariant, RequestsFit, Busy
    <3>2. PICK x \in Request : x = req[z] /\ x = req'[z]
      BY <3>1
    <3>3. RequestFits(x)
      BY <3>1, <3>2
    <3>4. RequestFits(x)'
      BY <3>3, StillFits
    <3> QED
      BY <3>2, <3>4 DEF RequestFits, Was
  <2> QED
    BY <2>1, <2>2
<1>3. OneAtATime'
  BY <1>1 DEF AccountsInvariant, OneAtATime, Busy
<1> QED
  BY <1>1, <1>2, <1>3

\* What a write at the end of a request is allowed to assume.
LEMMA AtWrite ==
  ASSUME AccountsInvariant, NEW s \in Slots, Busy(s)
  PROVE  /\ req[s] \in Request /\ RequestFits(req[s])
         /\ orderly /\ req[s].op \in Manage => req[s].by \in managers
BY BusyIsRequest DEF AccountsInvariant, RequestsFit, OneAtATime

\* A new user: in a tenant that was founded, or is now.
LEMMA BornStep ==
  ASSUME AccountsInvariant, NEW u \in Ids, IsNext(u), NEW t \in Tenants, NEW e \in Emails \cup {NoOne},
         NEW m \in BOOLEAN, Born(u, t, e, m), ~Taken(e, t),
         founded' \in SUBSET Tenants, founded \in SUBSET (founded'), t \in founded',
         orderly' = orderly, access' \in SUBSET Ids,
         req' \in [Slots -> Request \cup {Idle}],
         \A x \in founded' : x \in founded \/ (x = t /\ m)
  PROVE  /\ TypeOK' /\ RowsFit' /\ SomebodyManages'
         /\ \A v \in Ids : Was(v) => Was(v)' /\ tenant'[v] = tenant[v]
<1>1. /\ status \in [Ids -> Status] /\ tenant \in [Ids -> Tenants \cup {NoOne}]
      /\ email \in [Ids -> Emails \cup {NoOne}] /\ managers \in SUBSET Ids
      /\ status[u] = "none"
  BY DEF AccountsInvariant, TypeOK, IsNext
<1>2. \A v \in Ids : /\ status'[v] = IF v = u THEN "active" ELSE status[v]
                     /\ tenant'[v] = IF v = u THEN t ELSE tenant[v]
                     /\ email'[v]  = IF v = u THEN e ELSE email[v]
  BY <1>1 DEF Born
<1>3. managers \in SUBSET (managers') /\ managers' \in SUBSET (managers \cup {u}) /\ (m => u \in managers')
  BY DEF Born
<1>4. \A v \in Ids : Was(v) => Was(v)' /\ tenant'[v] = tenant[v]
  BY <1>1, <1>2 DEF Was
<1>5. TypeOK'
  <2>1. /\ status' \in [Ids -> Status] /\ tenant' \in [Ids -> Tenants \cup {NoOne}]
        /\ email' \in [Ids -> Emails \cup {NoOne}] /\ managers' \in SUBSET Ids
    BY <1>1, <1>3 DEF Born, Status
  <2>2. \A v, w \in Ids : v # w /\ status'[v] \in {"active", "disabled"} /\ status'[w] \in {"active", "disabled"} =>
          tenant'[v] # tenant'[w] \/ email'[v] # email'[w]
    BY <1>1, <1>2 DEF AccountsInvariant, TypeOK, Taken, Live
  <2>3. \A v \in managers' : status'[v] \in {"active", "disabled"}
    BY <1>1, <1>2, <1>3 DEF AccountsInvariant, TypeOK
  <2>4. orderly' \in BOOLEAN
    BY DEF AccountsInvariant, TypeOK
  <2> QED
    BY <2>1, <2>2, <2>3, <2>4 DEF TypeOK
<1>6. RowsFit'
  BY <1>2 DEF AccountsInvariant, RowsFit, Was
<1>7. SomebodyManages'
  <2>1. \A v \in managers : v # u /\ tenant'[v] = tenant[v]
    BY <1>1, <1>2 DEF AccountsInvariant, TypeOK
  <2> QED
    BY <1>1, <1>2, <1>3, <2>1 DEF AccountsInvariant, SomebodyManages
<1> QED
  BY <1>4, <1>5, <1>6, <1>7

----------------------------------------------------------------------------
LEMMA CreateStep ==
  ASSUME AccountsInvariant, NEW s \in Slots, Create(s)
  PROVE  AccountsInvariant'
<1>1. /\ req[s] \in Request /\ RequestFits(req[s]) /\ Busy(s)
      /\ req[s].op = "create" /\ req[s].by \in Ids /\ Was(req[s].by)
  BY AtWrite DEF Create, RequestFits, Manage
<1> DEFINE t == tenant[req[s].by]
           e == req[s].email
<1>2. t \in founded /\ t \in Tenants /\ e \in Emails \cup {NoOne}
  BY <1>1 DEF AccountsInvariant, TypeOK, RowsFit, Request
<1>3. PICK u \in Ids : IsNext(u) /\ Born(u, t, e, req[s].arg = "manager")
  BY DEF Create
<1>4. /\ ~Taken(e, t) /\ req' = [req EXCEPT ![s] = Idle] /\ founded' = founded /\ access' = access
      /\ orderly' = orderly
  BY DEF Create, End
<1>5. req' \in [Slots -> Request \cup {Idle}] /\ founded \in SUBSET Tenants /\ access \in SUBSET Ids
  BY <1>4 DEF AccountsInvariant, TypeOK
<1>6. (req[s].arg = "manager") \in BOOLEAN
  OBVIOUS
<1> HIDE DEF t, e
<1>7. /\ TypeOK' /\ RowsFit' /\ SomebodyManages'
      /\ \A v \in Ids : Was(v) => Was(v)' /\ tenant'[v] = tenant[v]
  BY <1>2, <1>3, <1>4, <1>5, <1>6, BornStep
<1>8. RequestsFit' /\ OneAtATime'
  BY <1>1, <1>4, <1>7, RequestsAfter
<1> QED
  BY <1>7, <1>8 DEF AccountsInvariant

\* The status of a row that is there is set, or the row goes; nobody who manages users
\* is lost but the one deleted, and whoever deletes stays.
LEMMA RowStep ==
  ASSUME AccountsInvariant, NEW s \in Slots, Busy(s), NEW u \in Ids, Live(u),
         NEW x \in {"active", "disabled", "gone"}, status' = [status EXCEPT ![u] = x],
         UNCHANGED <<tenant, email, founded, access, orderly>>, End(s),
         managers' \in SUBSET (managers \cup {u}), x = "gone" => u \notin managers',
         \A v \in Ids : v # u /\ v \in managers => v \in managers',
         x # "gone" /\ u \in managers => u \in managers',
         x = "gone" /\ orderly => \E v \in managers : v # u /\ tenant[v] = tenant[u]
  PROVE  AccountsInvariant'
<1>1. /\ status \in [Ids -> Status] /\ managers \in SUBSET Ids /\ orderly \in BOOLEAN
      /\ u \in Ids /\ status[u] \in {"active", "disabled"}
  BY DEF AccountsInvariant, TypeOK, Live
<1>2. \A v \in Ids : status'[v] = IF v = u THEN x ELSE status[v]
  BY <1>1
<1>3. \A v \in Ids : (Was(v) <=> Was(v)') /\ tenant'[v] = tenant[v]
  BY <1>1, <1>2 DEF Was
<1>4. req' = [req EXCEPT ![s] = Idle] /\ orderly' = orderly
  BY DEF End
<1>5. req' \in [Slots -> Request \cup {Idle}] /\ RequestsFit' /\ OneAtATime'
  BY <1>3, <1>4, RequestsAfter
<1>6. TypeOK'
  <2>1. status' \in [Ids -> Status] /\ managers' \in SUBSET Ids
    BY <1>1 DEF Status
  <2>2. \A v \in managers' : status'[v] \in {"active", "disabled"}
    BY <1>1, <1>2 DEF AccountsInvariant, TypeOK
  <2>3. \A v \in Ids : status'[v] \in {"active", "disabled"} => status[v] \in {"active", "disabled"}
    BY <1>1, <1>2
  <2> QED
    BY <1>5, <2>1, <2>2, <2>3 DEF AccountsInvariant, TypeOK
<1>7. RowsFit'
  BY <1>3 DEF AccountsInvariant, RowsFit
<1>8. SomebodyManages'
  BY <1>1 DEF AccountsInvariant, SomebodyManages
<1> QED
  BY <1>5, <1>6, <1>7, <1>8 DEF AccountsInvariant

LEMMA WhoIsThere ==
  ASSUME AccountsInvariant, NEW s \in Slots, Busy(s), req[s].op \in {"patch", "delete", "assign"}
  PROVE  req[s].who \in Ids /\ (req[s].op = "patch" => req[s].arg \in {"active", "disabled"})
BY AtWrite DEF RequestFits

LEMMA PatchStep ==
  ASSUME AccountsInvariant, NEW s \in Slots, Patch(s)
  PROVE  AccountsInvariant'
<1>1. Busy(s) /\ req[s].who \in Ids /\ req[s].arg \in {"active", "disabled"}
  BY WhoIsThere DEF Patch
<1> DEFINE u == req[s].who
           x == req[s].arg
<1>2. /\ Live(u) /\ status' = [status EXCEPT ![u] = x] /\ End(s) /\ managers' = managers
      /\ UNCHANGED <<tenant, email, founded, access, orderly>>
  BY DEF Patch
<1> HIDE DEF u, x
<1>3. u \in Ids /\ x \in {"active", "disabled"}
  BY <1>1 DEF u, x
<1> QED
  BY <1>1, <1>2, <1>3, RowStep

LEMMA DeleteStep ==
  ASSUME AccountsInvariant, NEW s \in Slots, Delete(s)
  PROVE  AccountsInvariant'
<1>1. /\ Busy(s) /\ req[s].who \in Ids /\ req[s].who # req[s].by
      /\ tenant[req[s].who] = tenant[req[s].by]
      /\ orderly => req[s].by \in managers
  BY AtWrite, WhoIsThere DEF Delete, RequestFits, Manage
<1> DEFINE u == req[s].who
<1>2. /\ Live(u) /\ status' = [status EXCEPT ![u] = "gone"] /\ End(s) /\ managers' = managers \ {u}
      /\ UNCHANGED <<tenant, email, founded, access, orderly>>
  BY DEF Delete
<1> HIDE DEF u
<1>3. u \in Ids /\ (orderly => \E v \in managers : v # u /\ tenant[v] = tenant[u])
  BY <1>1 DEF u
<1> QED
  BY <1>1, <1>2, <1>3, RowStep

LEMMA AssignStep ==
  ASSUME AccountsInvariant, NEW s \in Slots, Assign(s)
  PROVE  AccountsInvariant'
<1>1. Busy(s) /\ req[s].who \in Ids
  BY WhoIsThere DEF Assign
<1> DEFINE u == req[s].who
<1>2. /\ Live(u) /\ End(s) /\ managers' \in {managers, managers \cup {u}}
      /\ UNCHANGED <<status, tenant, email, founded, access, orderly>>
  BY DEF Assign
<1>3. status[u] \in {"active", "disabled"} /\ status' = [status EXCEPT ![u] = status[u]]
  BY <1>1, <1>2 DEF AccountsInvariant, TypeOK, Live
<1> HIDE DEF u
<1>4. u \in Ids
  BY <1>1 DEF u
<1> QED
  BY <1>1, <1>2, <1>3, <1>4, RowStep

LEMMA RegisterStep ==
  ASSUME AccountsInvariant, NEW s \in Slots, Register(s)
  PROVE  AccountsInvariant'
<1>1. req[s] \in Request /\ RequestFits(req[s]) /\ Busy(s) /\ req[s].op = "register"
  BY AtWrite DEF Register
<1>2. PICK u \in Ids, t \in Tenants \ founded :
         /\ IsNext(u) /\ Born(u, t, req[s].email, TRUE) /\ founded' = founded \cup {t}
         /\ req' = [req EXCEPT ![s].at = "sign", ![s].who = u]
  BY DEF Register
<1> DEFINE e == req[s].email
<1>3. PICK r \in Request : /\ r = [req[s] EXCEPT !.at = "sign", !.who = u]
                           /\ r.op = "register" /\ r.at = "sign" /\ r.who = u
  <2> DEFINE q == [req[s] EXCEPT !.at = "sign", !.who = u]
  <2>1. q \in Request /\ q.op = "register" /\ q.at = "sign" /\ q.who = u
    BY <1>1 DEF Request
  <2> HIDE DEF q
  <2>2. \E r \in Request : r = q /\ r.op = "register" /\ r.at = "sign" /\ r.who = u
    BY <2>1
  <2> QED
    BY <2>2 DEF q
<1>4. req' = [req EXCEPT ![s] = r] /\ e \in Emails \cup {NoOne}
  BY <1>1, <1>2, <1>3 DEF Request
<1>5. access' = access /\ orderly' = orderly
  BY DEF Register
<1>6. req' \in [Slots -> Request \cup {Idle}] /\ founded' \in SUBSET Tenants /\ access \in SUBSET Ids
  BY <1>2, <1>3, <1>4 DEF AccountsInvariant, TypeOK
<1>7. ~Taken(e, t)
  BY DEF AccountsInvariant, RowsFit, Was, Taken, Live
<1>8. Born(u, t, e, TRUE)
  BY <1>2
<1> HIDE DEF e
<1>9. /\ TypeOK' /\ RowsFit' /\ SomebodyManages'
      /\ \A v \in Ids : Was(v) => Was(v)' /\ tenant'[v] = tenant[v]
  BY <1>2, <1>4, <1>5, <1>6, <1>7, <1>8, BornStep
<1>10. Was(u)'
  BY <1>2 DEF AccountsInvariant, TypeOK, Born, Was
<1>11. RequestFits(r)' /\ r.op \notin Manage
  BY <1>3, <1>10 DEF RequestFits, Manage, Was
<1>12. RequestsFit' /\ OneAtATime'
  BY <1>1, <1>3, <1>4, <1>5, <1>9, <1>11, RequestsAfter
<1> QED
  BY <1>9, <1>12 DEF AccountsInvariant

----------------------------------------------------------------------------
\* A request looks at the database for the first time.
LEMMA LookStep ==
  ASSUME AccountsInvariant, NEW s \in Slots, Look(s)
  PROVE  AccountsInvariant'
<1>0. access \in SUBSET Ids /\ managers \in SUBSET Ids /\ \A v \in managers : Was(v)
  BY DEF AccountsInvariant, TypeOK, Was
<1>1. CASE Authenticate(s)
  <2>1. PICK by \in Ids : /\ by \in managers
           /\ \/ \E e \in Emails, a \in Roles : Begin(s, "create", "write", by, NoOne, e, a)
              \/ \E u \in Known, a \in {"active", "disabled"} : Begin(s, "patch", "find", by, u, NoOne, a)
              \/ \E u \in Known : by # u /\ Begin(s, "delete", "find", by, u, NoOne, "other")
              \/ \E u \in Known, a \in Roles : Begin(s, "assign", "find", by, u, NoOne, a)
    BY <1>1 DEF Authenticate, Allowed, NotSelf
  <2>2. Was(by) /\ \A u \in Known : u \in Ids /\ Was(u)
    BY <1>0, <2>1 DEF Known, Was
  <2>3. CASE \E e \in Emails, a \in Roles : Begin(s, "create", "write", by, NoOne, e, a)
    <3>1. PICK e \in Emails, a \in Roles : Begin(s, "create", "write", by, NoOne, e, a)
      BY <2>3
    <3>2. /\ [op |-> "create", at |-> "write", by |-> by, who |-> NoOne, email |-> e, arg |-> a] \in Request
          /\ RequestFits([op |-> "create", at |-> "write", by |-> by, who |-> NoOne, email |-> e, arg |-> a])
      BY <2>1, <2>2 DEF Request, RequestFits, Manage, Roles
    <3> QED
      BY <2>1, <3>1, <3>2, BeginStep
  <2>4. CASE \E u \in Known, a \in {"active", "disabled"} : Begin(s, "patch", "find", by, u, NoOne, a)
    <3>1. PICK u \in Known, a \in {"active", "disabled"} : Begin(s, "patch", "find", by, u, NoOne, a)
      BY <2>4
    <3>2. /\ [op |-> "patch", at |-> "find", by |-> by, who |-> u, email |-> NoOne, arg |-> a] \in Request
          /\ RequestFits([op |-> "patch", at |-> "find", by |-> by, who |-> u, email |-> NoOne, arg |-> a])
      BY <2>1, <2>2 DEF Request, RequestFits, Manage, Roles
    <3> QED
      BY <2>1, <3>1, <3>2, BeginStep
  <2>5. CASE \E u \in Known : by # u /\ Begin(s, "delete", "find", by, u, NoOne, "other")
    <3>1. PICK u \in Known : by # u /\ Begin(s, "delete", "find", by, u, NoOne, "other")
      BY <2>5
    <3>2. /\ [op |-> "delete", at |-> "find", by |-> by, who |-> u, email |-> NoOne, arg |-> "other"] \in Request
          /\ RequestFits([op |-> "delete", at |-> "find", by |-> by, who |-> u, email |-> NoOne, arg |-> "other"])
      BY <2>1, <2>2, <3>1 DEF Request, RequestFits, Manage, Roles
    <3> QED
      BY <2>1, <3>1, <3>2, BeginStep
  <2>6. CASE \E u \in Known, a \in Roles : Begin(s, "assign", "find", by, u, NoOne, a)
    <3>1. PICK u \in Known, a \in Roles : Begin(s, "assign", "find", by, u, NoOne, a)
      BY <2>6
    <3>2. /\ [op |-> "assign", at |-> "find", by |-> by, who |-> u, email |-> NoOne, arg |-> a] \in Request
          /\ RequestFits([op |-> "assign", at |-> "find", by |-> by, who |-> u, email |-> NoOne, arg |-> a])
      BY <2>1, <2>2 DEF Request, RequestFits, Manage, Roles
    <3> QED
      BY <2>1, <3>1, <3>2, BeginStep
  <2> QED
    BY <2>1, <2>3, <2>4, <2>5, <2>6
<1>2. CASE FindLogin(s) \/ FindRefresh(s)
  <2>1. PICK u \in Ids, op \in {"login", "refresh"} : Was(u) /\ Begin(s, op, "sign", NoOne, u, NoOne, "other")
    BY <1>2 DEF FindLogin, FindRefresh, Known, Was, Admitted
  <2>2. /\ [op |-> op, at |-> "sign", by |-> NoOne, who |-> u, email |-> NoOne, arg |-> "other"] \in Request
        /\ RequestFits([op |-> op, at |-> "sign", by |-> NoOne, who |-> u, email |-> NoOne, arg |-> "other"])
        /\ op \notin Manage
    BY <2>1 DEF Request, RequestFits, Manage, SignIn, Roles
  <2> QED
    BY <2>1, <2>2, BeginStep
<1>3. CASE FindEmail(s)
  <2>1. PICK e \in Emails : Begin(s, "register", "write", NoOne, NoOne, e, "other")
    BY <1>3 DEF FindEmail
  <2>2. /\ [op |-> "register", at |-> "write", by |-> NoOne, who |-> NoOne, email |-> e, arg |-> "other"] \in Request
        /\ RequestFits([op |-> "register", at |-> "write", by |-> NoOne, who |-> NoOne, email |-> e, arg |-> "other"])
        /\ "register" \notin Manage
    BY DEF Request, RequestFits, Manage, SignIn, Roles
  <2> QED
    BY <2>1, <2>2, BeginStep
<1> QED
  BY <1>1, <1>2, <1>3 DEF Look

\* It finds its target, signs a token, or ends with an error.
LEMMA RestStep ==
  ASSUME AccountsInvariant, NEW s \in Slots, FindTarget(s) \/ Sign(s) \/ Refuse(s)
  PROVE  AccountsInvariant'
<1>0. /\ Busy(s) /\ access \in SUBSET Ids
      /\ req[s] \in Request /\ RequestFits(req[s])
  BY AtWrite DEF FindTarget, Sign, Refuse, AccountsInvariant, TypeOK
<1>1. CASE FindTarget(s)
  <2>1. /\ End(s) \/ (Goto(s, "write") /\ tenant[req[s].who] = tenant[req[s].by])
        /\ UNCHANGED <<rows, orderly>> /\ access' \in SUBSET Ids
    BY <1>0, <1>1 DEF FindTarget, Visible
  <2>2. CASE End(s)
    BY <1>0, <2>1, <2>2, RequestIsNotIdle, RequestStep DEF End, AccountsInvariant, TypeOK, OneAtATime
  <2>3. CASE ~End(s)
    <3>1. tenant[req[s].who] = tenant[req[s].by] /\ Goto(s, "write")
      BY <2>1, <2>3
    <3>2. req[s].at = "find"
      BY <1>1 DEF FindTarget
    <3>3. RequestFits([req[s] EXCEPT !.at = "write"])
      BY <1>0, <3>1, <3>2 DEF Request, RequestFits, Manage, SignIn
    <3> QED
      BY <1>0, <2>1, <3>1, <3>3, GotoStep
  <2> QED
    BY <2>2, <2>3
<1>2. CASE Sign(s) \/ Refuse(s)
  <2>1. End(s) /\ UNCHANGED <<rows, orderly>>
    BY <1>2 DEF Sign, Refuse
  <2>2. access' \in SUBSET Ids
    BY <1>0, <1>2 DEF Sign, Refuse, RequestFits
  <2>3. orderly' \in BOOLEAN /\ (orderly' => orderly /\ \A z \in Slots : Busy(z) => z = s)
    BY <1>0, <2>1 DEF AccountsInvariant, TypeOK, OneAtATime
  <2> QED
    BY <2>1, <2>2, <2>3, RequestStep DEF End
<1> QED
  BY <1>1, <1>2

LEMMA ExpireStep ==
  ASSUME AccountsInvariant, NEW u \in Ids, ExpireAccess(u)
  PROVE  AccountsInvariant'
<1>1. /\ UNCHANGED <<status, tenant, email, managers, founded, req, orderly>>
      /\ access' \in SUBSET access
  BY DEF ExpireAccess, rows
<1> QED
  BY <1>1 DEF AccountsInvariant, TypeOK, RowsFit, Was, RequestsFit, RequestFits, OneAtATime,
              SomebodyManages, Busy

\* Every action keeps the invariant.
THEOREM InvariantStep == AccountsInvariant /\ [Next]_vars => AccountsInvariant'
<1> SUFFICES ASSUME AccountsInvariant, [Next]_vars PROVE AccountsInvariant'
  OBVIOUS
<1>1. ASSUME NEW s \in Slots, Look(s) \/ Serve(s) PROVE AccountsInvariant'
  BY <1>1, LookStep, RestStep, CreateStep, PatchStep, DeleteStep, AssignStep, RegisterStep
     DEF Serve, Write
<1>2. ASSUME NEW u \in Ids, ExpireAccess(u) PROVE AccountsInvariant'
  BY <1>2, ExpireStep
<1>3. CASE UNCHANGED vars
  BY <1>3 DEF vars, rows, AccountsInvariant, TypeOK, RowsFit, Was, RequestsFit, RequestFits,
              OneAtATime, SomebodyManages, Busy
<1> QED
  BY <1>1, <1>2, <1>3 DEF Next

\* The invariant holds of every reachable state.
THEOREM AlwaysInvariant == Spec => []AccountsInvariant
BY InvariantInit, InvariantStep, PTL DEF Spec

\* Type correctness, the unique index and the cascade among it.
THEOREM TypeCorrect == Spec => []TypeOK
<1>1. AccountsInvariant => TypeOK
  BY DEF AccountsInvariant
<1> QED
  BY <1>1, AlwaysInvariant, PTL

\* Served one at a time, requests leave every tenant somebody who manages its users.
THEOREM AlwaysManaged == Spec => []SomebodyManages
<1>1. AccountsInvariant => SomebodyManages
  BY DEF AccountsInvariant
<1> QED
  BY <1>1, AlwaysInvariant, PTL

\* A request about a user of another tenant does not get as far as its write.
THEOREM TenantsStayApart == Spec => TenantsApart
<1>1. AccountsInvariant /\ [Next]_vars =>
        [\A u \in Ids :
           /\ status[u] # "none"
           /\ <<status[u], email[u], u \in managers>>' # <<status[u], email[u], u \in managers>>
           => \E s \in Slots : Busy(s) /\ req'[s] = Idle /\ req[s].by # NoOne
                               /\ tenant[req[s].by] = tenant[u]]_vars
  <2> SUFFICES ASSUME AccountsInvariant, [Next]_vars, ~UNCHANGED vars,
                      NEW u \in Ids, status[u] # "none",
                      <<status[u], email[u], u \in managers>>' # <<status[u], email[u], u \in managers>>
               PROVE  \E s \in Slots : Busy(s) /\ req'[s] = Idle /\ req[s].by # NoOne
                                       /\ tenant[req[s].by] = tenant[u]
    OBVIOUS
  <2>1. /\ status'[u] # status[u] \/ email'[u] # email[u] \/ (u \in managers') # (u \in managers)
        /\ status \in [Ids -> Status] /\ email \in [Ids -> Emails \cup {NoOne}]
        /\ req \in [Slots -> Request \cup {Idle}]
    BY DEF AccountsInvariant, TypeOK
  <2>2. ASSUME NEW s \in Slots, Look(s) \/ FindTarget(s) \/ Refuse(s) \/ Sign(s) PROVE FALSE
    BY <2>1, <2>2 DEF Look, Authenticate, FindLogin, FindRefresh, FindEmail, Begin, FindTarget, Refuse, Sign, rows
  <2>3. ASSUME NEW s \in Slots, Create(s) \/ Register(s) PROVE FALSE
    <3>1. PICK v \in Ids : IsNext(v) /\ \E t, e, m : Born(v, t, e, m)
      BY <2>3 DEF Create, Register
    <3>2. v # u
      BY <3>1 DEF IsNext
    <3> QED
      BY <2>1, <3>1, <3>2 DEF Born
  <2>4. ASSUME NEW s \in Slots, Patch(s) \/ Delete(s) \/ Assign(s)
        PROVE  Busy(s) /\ req'[s] = Idle /\ req[s].by # NoOne /\ tenant[req[s].by] = tenant[u]
    <3>1. Busy(s) /\ RequestFits(req[s]) /\ req[s].op \in {"patch", "delete", "assign"} /\ req[s].at = "write"
      BY <2>4, AtWrite DEF Patch, Delete, Assign
    <3>2. req'[s] = Idle
      BY <2>1, <2>4 DEF Patch, Delete, Assign, End
    <3>3. u = req[s].who
      BY <2>1, <2>4 DEF Patch, Delete, Assign
    <3> QED
      BY <3>1, <3>2, <3>3 DEF RequestFits, Manage, Ids, NoOne
  <2>5. ASSUME NEW v \in Ids, ExpireAccess(v) PROVE FALSE
    BY <2>1, <2>5 DEF ExpireAccess, rows
  <2> QED
    BY <2>2, <2>3, <2>4, <2>5 DEF Next, Serve, Write
<1> QED
  BY <1>1, AlwaysInvariant, PTL DEF Spec, TenantsApart
=============================================================================
