------------------------------ MODULE Accounts ------------------------------
(***************************************************************************)
(* Tenants, users, roles and tokens: the requests of users.routes.ts and   *)
(* auth.routes.ts, served side by side, await by await.  A request begins  *)
(* with its first look at the database: the permissions of the user of its *)
(* token, or the row of the one who signs in.  Between that, the look-up   *)
(* of its target and its write, other requests may do what they like.      *)
(*                                                                         *)
(* Of the roles only one thing is kept: whether they bundle user:manage    *)
(* (Owner, Admin) or not (Operator, Viewer).  Roles are never taken away.  *)
(* Of a user's tokens only whether a valid access token is about; anybody  *)
(* may have kept a refresh token from a login.  Users and tenants are      *)
(* numbered as they come; "gone" rows are deleted ones.                    *)
(***************************************************************************)
EXTENDS Integers, FiniteSets

CONSTANTS MaxBusy,          \* bound: requests in flight
          MaxId, MaxTenant, \* bounds: users and tenants that ever exist
          Emails, Mail      \* Mail: that of the first registration

ASSUME BoundsAssumption == MaxBusy \in Nat /\ MaxId \in Nat \ {0} /\ MaxTenant \in Nat \ {0}
ASSUME MailAssumption == Mail \in Emails /\ 0 \notin Emails

VARIABLES
  status, tenant, email,   \* the rows of users
  managers,                \* who is assigned a role with user:manage
  founded,                 \* the tenants that exist
  access,                  \* who has a valid access token
  req,                     \* the requests
  orderly                  \* no two requests were ever served side by side

rows == <<status, tenant, email, managers, founded>>
vars == <<rows, access, req, orderly>>

Slots   == 1..MaxBusy
Ids     == 1..MaxId
Tenants == 1..MaxTenant
NoOne   == 0   \* no user, no tenant, no email

Status == {"none", "active", "disabled", "gone"}
Manage == {"create", "patch", "delete", "assign"}
SignIn == {"login", "refresh", "register"}
Roles  == {"manager", "other"}   \* Owner and Admin bundle user:manage, Operator and Viewer do not
Request == [op : Manage \cup SignIn, at : {"find", "write", "sign"},
            by : Ids \cup {NoOne}, who : Ids \cup {NoOne}, email : Emails \cup {NoOne},
            arg : {"active", "disabled"} \cup Roles]
Idle == [op |-> "idle"]

TypeOK ==
  /\ status   \in [Ids -> Status]
  /\ tenant   \in [Ids -> Tenants \cup {NoOne}]
  /\ email    \in [Ids -> Emails \cup {NoOne}]
  /\ managers \subseteq Ids /\ founded \subseteq Tenants
  /\ access   \subseteq Ids
  /\ req      \in [Slots -> Request \cup {Idle}]
  /\ orderly  \in BOOLEAN
  \* The unique index, and what the cascade of a deletion leaves.
  /\ \A u, v \in Ids : u # v /\ status[u] \in {"active", "disabled"} /\ status[v] \in {"active", "disabled"} =>
       tenant[u] # tenant[v] \/ email[u] # email[v]
  /\ \A u \in managers : status[u] \in {"active", "disabled"}

Live(u) == status[u] \in {"active", "disabled"}
Busy(s) == req[s] # Idle

\* After a registration.
Init ==
  /\ status = [u \in Ids |-> IF u = 1 THEN "active" ELSE "none"]
  /\ tenant = [u \in Ids |-> IF u = 1 THEN 1 ELSE NoOne]
  /\ email  = [u \in Ids |-> IF u = 1 THEN Mail ELSE NoOne]
  /\ managers = {1} /\ founded = {1}
  /\ access = {1}
  /\ req = [s \in Slots |-> Idle]
  /\ orderly = TRUE

Goto(s, l) == req' = [req EXCEPT ![s].at = l]
End(s)     == req' = [req EXCEPT ![s] = Idle]

\* by: the user of the bearer token; who: the row the request is about; e: an email;
\* arg: the status a patch sets, whether a role manages.
Begin(s, op, at, by, who, e, arg) ==
  /\ ~Busy(s) /\ \A z \in 1..(s - 1) : Busy(z)   \* the least free number
  /\ req' = [req EXCEPT ![s] = [op |-> op, at |-> at, by |-> by, who |-> who, email |-> e, arg |-> arg]]
  /\ orderly' = (orderly /\ \A z \in Slots : ~Busy(z))
  /\ UNCHANGED <<rows, access>>

\* The ids a client can name.
Known == {u \in Ids : status[u] # "none"}

\* A call rejects, or what was presented is wrong: an error is the answer.
Refuse(s) == Busy(s) /\ End(s) /\ UNCHANGED <<rows, access, orderly>>

----------------------------------------------------------------------------
\* Requests of users.routes.ts: authenticate, requirePermission, find, write.

\* authenticate and requirePermission: a token that is valid, of a user who manages now.
Allowed(by) == by \in access /\ by \in managers

\* Mutant: a user may delete the own account.
NotSelfMutant(by, u) == TRUE
NotSelf(by, u) == by # u

Authenticate(s) ==
  \E by \in Ids :
    /\ Allowed(by)
    /\ \/ \E e \in Emails, a \in Roles : Begin(s, "create", "write", by, NoOne, e, a)
       \/ \E u \in Known, a \in {"active", "disabled"} : Begin(s, "patch", "find", by, u, NoOne, a)
       \/ \E u \in Known : NotSelf(by, u) /\ Begin(s, "delete", "find", by, u, NoOne, "other")
       \/ \E u \in Known, a \in Roles : Begin(s, "assign", "find", by, u, NoOne, a)

\* Mutant: the look-up does not name the tenant.
VisibleMutant(r) == Live(r.who)
Visible(r) == Live(r.who) /\ tenant[r.who] = tenant[r.by]

FindTarget(s) ==
  /\ Busy(s) /\ req[s].at = "find"
  /\ IF Visible(req[s]) THEN Goto(s, "write") ELSE End(s)
  /\ UNCHANGED <<rows, access, orderly>>

IsNext(u) == status[u] = "none" /\ \A z \in Ids : status[z] = "none" => u <= z

\* A user is inserted, with a role perhaps, unless the tenant has the email.
Born(u, t, e, manages) ==
  /\ status' = [status EXCEPT ![u] = "active"]
  /\ tenant' = [tenant EXCEPT ![u] = t]
  /\ email'  = [email EXCEPT ![u] = e]
  /\ managers' = IF manages THEN managers \cup {u} ELSE managers

\* Mutant: a unique index on the email is missing.
TakenMutant(e, t) == FALSE
Taken(e, t) == \E u \in Ids : Live(u) /\ email[u] = e /\ tenant[u] = t

Create(s) ==
  /\ Busy(s) /\ req[s].op = "create" /\ req[s].at = "write"
  /\ ~Taken(req[s].email, tenant[req[s].by])
  /\ \E u \in Ids : IsNext(u) /\ Born(u, tenant[req[s].by], req[s].email, req[s].arg = "manager")
  /\ End(s)
  /\ UNCHANGED <<founded, access, orderly>>

\* Updates, deletions and upserts of a row that is gone reject.
Patch(s) ==
  /\ Busy(s) /\ req[s].op = "patch" /\ req[s].at = "write" /\ Live(req[s].who)
  /\ status' = [status EXCEPT ![req[s].who] = req[s].arg]
  /\ End(s)
  /\ UNCHANGED <<tenant, email, managers, founded, access, orderly>>

Delete(s) ==
  /\ Busy(s) /\ req[s].op = "delete" /\ req[s].at = "write" /\ Live(req[s].who)
  /\ status' = [status EXCEPT ![req[s].who] = "gone"]
  /\ managers' = managers \ {req[s].who}
  /\ End(s)
  /\ UNCHANGED <<tenant, email, founded, access, orderly>>

Assign(s) ==
  /\ Busy(s) /\ req[s].op = "assign" /\ req[s].at = "write" /\ Live(req[s].who)
  /\ managers' = IF req[s].arg = "manager" THEN managers \cup {req[s].who} ELSE managers
  /\ End(s)
  /\ UNCHANGED <<status, tenant, email, founded, access, orderly>>

----------------------------------------------------------------------------
\* Requests of auth.routes.ts.

\* Mutant: only the login looks at the status.
AdmittedMutant(u, op) == op = "refresh" \/ status[u] = "active"
Admitted(u, op) == status[u] = "active"

\* findFirst by email, in whatever tenant, so of whatever user; the right password.
FindLogin(s) == \E u \in Ids : /\ Admitted(u, "login")
                               /\ Begin(s, "login", "sign", NoOne, u, NoOne, "other")

FindRefresh(s) == \E u \in Known : /\ Admitted(u, "refresh")
                                  /\ Begin(s, "refresh", "sign", NoOne, u, NoOne, "other")

\* registerTenant: the email is looked for in all tenants, ...
Registered(e) == \E u \in Ids : Live(u) /\ email[u] = e

FindEmail(s) == \E e \in Emails : /\ ~Registered(e)
                                 /\ Begin(s, "register", "write", NoOne, NoOne, e, "other")

\* ... the tenant, its roles and its owner are one transaction.
Register(s) ==
  /\ Busy(s) /\ req[s].op = "register" /\ req[s].at = "write"
  /\ \E u \in Ids, t \in Tenants \ founded :
       /\ IsNext(u) /\ \A z \in Tenants \ founded : t <= z
       /\ Born(u, t, req[s].email, TRUE)
       /\ founded' = founded \cup {t}
       /\ req' = [req EXCEPT ![s].at = "sign", ![s].who = u]
  /\ UNCHANGED <<access, orderly>>

\* A login updates lastLoginAt first, which rejects if the row is gone.
Sign(s) ==
  /\ Busy(s) /\ req[s].at = "sign"
  /\ req[s].op = "login" => Live(req[s].who)
  /\ access' = access \cup {req[s].who}
  /\ End(s)
  /\ UNCHANGED <<rows, orderly>>

\* Tokens expire; a logout only takes the cookie away.
ExpireAccess(u) == u \in access /\ access' = access \ {u} /\ UNCHANGED <<rows, req, orderly>>

----------------------------------------------------------------------------
Write(s) == Create(s) \/ Patch(s) \/ Delete(s) \/ Assign(s) \/ Register(s) \/ Sign(s)
Look(s)  == Authenticate(s) \/ FindLogin(s) \/ FindRefresh(s) \/ FindEmail(s)
Serve(s) == FindTarget(s) \/ Write(s) \/ Refuse(s)

Next == \/ \E s \in Slots : Look(s) \/ Serve(s)
        \/ \E u \in Ids : ExpireAccess(u)

Spec == Init /\ [][Next]_vars

\* Every request is answered, no access token is valid for ever.
FairSpec == /\ Spec
            /\ \A s \in Slots : WF_vars(Serve(s))
            /\ \A u \in Ids : WF_vars(ExpireAccess(u))

----------------------------------------------------------------------------
(* Properties. *)

\* As long as requests are served one at a time, every tenant has a user with a role
\* that manages users, a disabled one included: nobody deletes the last one.  (Two who
\* delete each other side by side both succeed.)
SomebodyManages ==
  orderly => \A t \in founded : \E u \in managers : tenant[u] = t

\* A request changes rows of the tenant of its token only, whatever happened since
\* it was authenticated.
TenantsApart ==
  [][\A u \in Ids :
       /\ status[u] # "none"
       /\ <<status[u], email[u], u \in managers>>' # <<status[u], email[u], u \in managers>>
       => \E s \in Slots : Busy(s) /\ req'[s] = Idle /\ req[s].by # NoOne
                           /\ tenant[req[s].by] = tenant[u]]_vars

\* A user who stays disabled, or is deleted, has no access token in the end: what
\* was issued expires, and neither login nor refresh issues another.
LockedOut ==
  \A u \in Ids : <>[](status[u] \in {"disabled", "gone"}) => <>[](u \notin access)
=============================================================================
