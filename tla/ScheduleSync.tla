---------------------------- MODULE ScheduleSync ----------------------------
(***************************************************************************)
(* Schedules live twice: as rows in Postgres, which is what people edit,   *)
(* and as repeatable jobs in Redis, which is what fires.  This module is   *)
(* everything that keeps the two in step: the create, patch and delete     *)
(* routes of schedules, the deletion of a server, which cascades to the    *)
(* rows of its schedules, and the scheduler's synchronisation at boot.     *)
(*                                                                         *)
(* A handler is a sequence of awaits; each of them is a step here, and     *)
(* requests and boots interleave between them.  The routes take any text   *)
(* for a pattern; BullMQ rejects the add of one that is not in Valid, when *)
(* the row is already written.                                             *)
(*   Faults    "call": a call to Redis rejects; "crash": a process dies    *)
(*             between two awaits; "cascade": servers are deleted.         *)
(***************************************************************************)
EXTENDS Naturals

CONSTANTS Schedules, Crons, Requests,
          Valid,      \* the patterns the cron parser understands
          NoRow,      \* a schedule that has no row
          NoRequest,  \* a free request
          Faults

ASSUME ValidAssumption == Valid \subseteq Crons

Row    == [cron : Crons, enabled : BOOLEAN]
Repeat == [id : Schedules, cron : Crons]

\* PATCH and DELETE read a row, POST and PATCH write one.
Request ==
  [step : {"update", "unregisterLast", "erase"}, id : Schedules, old : Row, new : {NoRow}]
    \cup [step : {"unregister"}, id : Schedules, old : Row, new : Row]
    \cup [step : {"clear", "add"}, id : Schedules, old : Row \cup {NoRow}, new : Row]

ASSUME NothingAssumption == NoRow \notin Row /\ NoRequest \notin Request

VARIABLES
  row,      \* Postgres: the schedule's row
  born,     \* ids that were ever used: a uuid is never used again
  repeats,  \* Redis: the repeatable jobs, identified by schedule and pattern
  req,      \* a request: its next step, its schedule, the row it read and wrote
  boot,     \* the scheduler: "down", "sync" or "up"
  todo,     \* the schedules the scheduler has still to register at boot
  cleared,  \* of these, the one it has removed and not yet added
  fresh,    \* history: nothing but the scheduler has moved since it read todo
  disturbed \* history: schedules that two processes worked on at a time, or a fault hit

apiVars   == <<row, born>>
schedVars == <<boot, todo, cleared>>
vars == <<apiVars, repeats, req, schedVars, fresh, disturbed>>

TypeOK ==
  /\ row     \in [Schedules -> Row \cup {NoRow}]
  /\ born    \subseteq Schedules
  /\ repeats \subseteq Repeat
  /\ req     \in [Requests -> Request \cup {NoRequest}]
  /\ boot    \in {"down", "sync", "up"}
  /\ todo    \subseteq Repeat
  /\ cleared \subseteq todo
  /\ boot # "sync" => todo = {}
  /\ fresh   \in BOOLEAN
  /\ disturbed \subseteq Schedules

Init ==
  /\ row     = [s \in Schedules |-> NoRow]
  /\ born    = {}
  /\ repeats = {}
  /\ req     = [r \in Requests |-> NoRequest]
  /\ boot    = "down"
  /\ todo    = {}
  /\ cleared = {}
  /\ fresh   = FALSE
  /\ disturbed = {}

Idle == \A r \in Requests : req[r] = NoRequest

\* The requests about a schedule, and whether the scheduler has it on its list.
On(x) == {r \in Requests : req[r] # NoRequest /\ req[r].id = x}
Listed(x) == \E p \in todo : p.id = x
Disturb(S) == disturbed' = disturbed \cup S

\* Where a request is, and its move to the next step or to its end.
At(r, l) == req[r] # NoRequest /\ req[r].step = l
Begin(r, q) ==
  /\ req[r] = NoRequest
  /\ req' = [req EXCEPT ![r] = q]
  /\ fresh' = FALSE
Go(r, q) == req' = [req EXCEPT ![r] = q] /\ fresh' = FALSE
End(r) == Go(r, NoRequest)

\* removeRepeatable: to safeRemove an absent entry and an error are the same.
SafeRemove(id, cron) ==
  \/ /\ repeats' = repeats \ {[id |-> id, cron |-> cron]}
     /\ UNCHANGED disturbed
  \/ /\ "call" \in Faults
     /\ Disturb({id})
     /\ UNCHANGED repeats

----------------------------------------------------------------------------
\* POST /schedules: the row, then its registration if it is enabled.
Create(r, s, written) ==
  LET q == [step |-> "clear", id |-> s, old |-> NoRow, new |-> written]
  IN  /\ s \notin born
      /\ Begin(r, IF written.enabled THEN q ELSE NoRequest)
      /\ UNCHANGED disturbed
      /\ born' = born \cup {s}
      /\ row' = [row EXCEPT ![s] = written]
      /\ UNCHANGED <<repeats, schedVars>>

\* PATCH and DELETE read the row first and answer 404 if there is none.  From
\* here on they run into whatever else is at work on the schedule.
Read(r, s, next) ==
  /\ row[s] # NoRow
  /\ Begin(r, [step |-> next, id |-> s, old |-> row[s], new |-> NoRow])
  /\ Disturb(IF On(s) # {} \/ Listed(s) THEN {s} ELSE {})
  /\ UNCHANGED <<apiVars, repeats, schedVars>>

PatchRead(r, s)  == Read(r, s, "update")
DeleteRead(r, s) == Read(r, s, "unregisterLast")

\* PATCH writes the fields of its input, the others stay as they are.  A row deleted
\* meanwhile ends the request.
PatchUpdate(r, written) ==
  LET s == req[r].id
  IN  /\ At(r, "update")
      /\ IF row[s] = NoRow
           THEN End(r) /\ UNCHANGED row
           ELSE /\ row' = [row EXCEPT ![s] = written]
                /\ Go(r, [req[r] EXCEPT !.step = "unregister", !.new = written])
      /\ UNCHANGED <<born, repeats, schedVars, disturbed>>

\* The form of the console sends all of its fields, whatever was set in them and
\* whatever the row is by now.
Save(r) == \E written \in Row : PatchUpdate(r, written)

\* Pausing and enabling sends the negation of what the list shows, and nothing else.
Toggle(r) ==
  /\ At(r, "update")
  /\ \E written \in Row :
       /\ row[req[r].id] # NoRow => written.cron = row[req[r].id].cron
       /\ PatchUpdate(r, written)

\* Mutant: the pattern removed is the one about to be added.
UnregisterNewMutant(r) ==
  /\ At(r, "unregister")
  /\ SafeRemove(req[r].id, req[r].new.cron)
  /\ IF req[r].new.enabled THEN Go(r, [req[r] EXCEPT !.step = "clear"]) ELSE End(r)
  /\ UNCHANGED <<apiVars, schedVars>>

\* removeSchedule(existing): the pattern the row had when it was read.
Unregister(r) ==
  /\ At(r, "unregister")
  /\ SafeRemove(req[r].id, req[r].old.cron)
  /\ IF req[r].new.enabled THEN Go(r, [req[r] EXCEPT !.step = "clear"]) ELSE End(r)
  /\ UNCHANGED <<apiVars, schedVars>>

\* registerSchedule: safeRemove the pattern, then add it.
Clear(r) ==
  /\ At(r, "clear")
  /\ SafeRemove(req[r].id, req[r].new.cron)
  /\ Go(r, [req[r] EXCEPT !.step = "add"])
  /\ UNCHANGED <<apiVars, schedVars>>

\* The add of an invalid pattern throws: the row stays, the client gets a 500.
Add(r) ==
  /\ At(r, "add")
  /\ \/ /\ req[r].new.cron \in Valid
        /\ repeats' = repeats \cup {[id |-> req[r].id, cron |-> req[r].new.cron]}
        /\ UNCHANGED disturbed
     \/ /\ req[r].new.cron \notin Valid
        /\ UNCHANGED <<repeats, disturbed>>
     \/ /\ "call" \in Faults
        /\ Disturb({req[r].id})
        /\ UNCHANGED repeats
  /\ End(r)
  /\ UNCHANGED <<apiVars, schedVars>>

UnregisterLast(r) ==
  /\ At(r, "unregisterLast")
  /\ SafeRemove(req[r].id, req[r].old.cron)
  /\ Go(r, [req[r] EXCEPT !.step = "erase"])
  /\ UNCHANGED <<apiVars, schedVars>>

Erase(r) ==
  /\ At(r, "erase")
  /\ row' = [row EXCEPT ![req[r].id] = NoRow]
  /\ End(r)
  /\ UNCHANGED <<born, repeats, schedVars, disturbed>>

\* DELETE /servers/:id cascades to the rows of its schedules, not to Redis.
DeleteServer(S) ==
  /\ "cascade" \in Faults
  /\ row' = [s \in Schedules |-> IF s \in S THEN NoRow ELSE row[s]]
  /\ fresh' = FALSE /\ Disturb(S)
  /\ UNCHANGED <<born, repeats, req, schedVars>>

\* The API process dies; its requests stop where they are.
ApiCrash ==
  /\ "crash" \in Faults /\ ~Idle
  /\ req' = [r \in Requests |-> NoRequest]
  /\ fresh' = FALSE /\ Disturb({s \in Schedules : On(s) # {}})
  /\ UNCHANGED <<apiVars, repeats, schedVars>>

----------------------------------------------------------------------------
\* The scheduler.  syncSchedules reads the enabled rows once and registers them
\* one by one; an add that rejects ends the process.

BootRead ==
  /\ boot = "down"
  /\ boot' = "sync"
  /\ todo' = {[id |-> s, cron |-> row[s].cron] :
                s \in {x \in Schedules : row[x] # NoRow /\ row[x].enabled}}
  /\ fresh' = Idle
  /\ Disturb({s \in Schedules : On(s) # {}})
  /\ UNCHANGED <<apiVars, repeats, req, cleared>>

BootClear(p) ==
  /\ boot = "sync" /\ cleared = {}
  /\ SafeRemove(p.id, p.cron)
  /\ cleared' = {p}
  /\ UNCHANGED <<apiVars, req, boot, todo, fresh>>

\* Mutants: the scheduler forgets where it is in its list; it goes on after an add
\* that rejected.
BootAddMutant(p) ==
  /\ boot = "sync" /\ cleared = {p} /\ p.cron \in Valid
  /\ repeats' = repeats \cup {p}
  /\ todo' = todo \ {p}
  /\ UNCHANGED <<apiVars, req, boot, cleared, fresh, disturbed>>

BootAddGoesOnMutant(p) ==
  /\ boot = "sync" /\ cleared = {p}
  /\ repeats' = IF p.cron \in Valid THEN repeats \cup {p} ELSE repeats
  /\ todo' = todo \ {p}
  /\ cleared' = {}
  /\ UNCHANGED <<apiVars, req, boot, fresh, disturbed>>

BootAdd(p) ==
  /\ boot = "sync" /\ cleared = {p} /\ p.cron \in Valid
  /\ repeats' = repeats \cup {p}
  /\ todo' = todo \ {p}
  /\ cleared' = {}
  /\ UNCHANGED <<apiVars, req, boot, fresh, disturbed>>

BootDone ==
  /\ boot = "sync" /\ todo = {}
  /\ boot' = "up"
  /\ UNCHANGED <<apiVars, repeats, req, todo, cleared, fresh, disturbed>>

\* It is stopped when it is up, a fault stops it in the middle of its boot, or the
\* add of an invalid pattern does, at every boot until somebody edits that row.
SchedulerStops ==
  /\ \/ boot = "up"
     \/ boot = "sync" /\ "crash" \in Faults
     \/ cleared # {} /\ "call" \in Faults
     \/ \E p \in cleared : p.cron \notin Valid
  /\ boot' = "down" /\ todo' = {} /\ cleared' = {} /\ fresh' = FALSE
  /\ Disturb({p.id : p \in {x \in cleared : x.cron \in Valid}})
  /\ UNCHANGED <<apiVars, repeats, req>>

----------------------------------------------------------------------------
Accept(r, s) == \/ \E written \in Row : Create(r, s, written)
                \/ PatchRead(r, s)
                \/ DeleteRead(r, s)

Serve(r) == \/ Save(r) \/ Toggle(r)
            \/ Unregister(r) \/ Clear(r) \/ Add(r)
            \/ UnregisterLast(r) \/ Erase(r)

Boot == BootRead \/ BootDone \/ \E p \in todo : BootClear(p) \/ BootAdd(p)

Next == \/ \E r \in Requests, s \in Schedules : Accept(r, s)
        \/ \E r \in Requests : Serve(r)
        \/ \E S \in (SUBSET Schedules) \ {{}} : DeleteServer(S)
        \/ Boot \/ ApiCrash \/ SchedulerStops

Spec == Init /\ [][Next]_vars

----------------------------------------------------------------------------
(* Properties. *)

\* What should be registered, if the rows are right.
Wanted == {[id |-> s, cron |-> row[s].cron] :
             s \in {x \in Schedules : row[x] # NoRow /\ row[x].enabled}}

Settled(x) == On(x) = {} /\ \A p \in cleared : p.id # x

\* A schedule that no two processes ever worked on at a time, and that no fault
\* hit, is registered as its row says whenever nobody is at work on it: exactly
\* its pattern if it is enabled and the pattern is valid, nothing otherwise.
\* Faults, races and invalid patterns of the other schedules do not reach it, nor
\* do boots that are broken off.
RegisteredAtRest ==
  \A s \in Schedules \ disturbed : Settled(s) =>
    {p \in repeats : p.id = s} = {p \in Wanted : p.id = s /\ p.cron \in Valid}

\* Such a schedule never has two repeatables, not even for a moment: PATCH removes
\* the old pattern before it registers the new one.
OnePatternEach == \A p, q \in repeats : p.id = q.id /\ p.id \notin disturbed => p = q

\* A boot repairs what crashes and lost calls left unregistered: when it is over
\* and nobody has interfered, every enabled schedule will fire as its row says.
BootRegistersAll == boot = "up" /\ fresh => Wanted \subseteq repeats
=============================================================================
