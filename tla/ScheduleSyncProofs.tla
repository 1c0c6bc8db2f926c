------------------------- MODULE ScheduleSyncProofs -------------------------
(***************************************************************************)
(* Proofs about ScheduleSync, for any schedules, patterns and requests and *)
(* every choice of Faults: what a boot repairs, and that a schedule which  *)
(* nothing disturbed is registered as its row says, whatever happens to    *)
(* the others.                                                             *)
(***************************************************************************)
EXTENDS ScheduleSync, TLAPS

\* A pattern is wanted iff its schedule has an enabled row with that pattern.
LEMMA WantedIs ==
  ASSUME TypeOK, NEW p \in Repeat
  PROVE  p \in Wanted <=> /\ row[p.id] # NoRow /\ row[p.id].enabled
                          /\ p.cron = row[p.id].cron
<1>1. p = [id |-> p.id, cron |-> p.cron] /\ p.id \in Schedules
  BY DEF Repeat
<1> QED
  BY <1>1 DEF Wanted, Repeat

LEMMA WantedAreRepeats == TypeOK => Wanted \subseteq Repeat
BY DEF Wanted, TypeOK, Repeat, Row

----------------------------------------------------------------------------
\* Type correctness.  Every action that serves a request keeps the scheduler's
\* variables, so that its types are those of rows, requests and repeatables.
LEMMA TypeInit == Init => TypeOK
BY DEF Init, TypeOK

LEMMA RemoveType ==
  ASSUME TypeOK, NEW id \in Schedules, NEW cron, SafeRemove(id, cron)
  PROVE  repeats' \subseteq Repeat /\ disturbed' \subseteq Schedules
BY DEF TypeOK, SafeRemove, Disturb

LEMMA GoType ==
  ASSUME TypeOK, NEW r \in Requests, NEW q \in Request \cup {NoRequest}, Go(r, q)
  PROVE  req' \in [Requests -> Request \cup {NoRequest}] /\ fresh' = FALSE
BY DEF TypeOK, Go

LEMMA BeginType ==
  ASSUME TypeOK, NEW r \in Requests, NEW q \in Request \cup {NoRequest}, Begin(r, q)
  PROVE  req' \in [Requests -> Request \cup {NoRequest}] /\ fresh' = FALSE
BY DEF TypeOK, Begin

LEMMA AcceptType ==
  ASSUME TypeOK, NEW r \in Requests, NEW s \in Schedules, Accept(r, s)
  PROVE  TypeOK'
<1>1. ASSUME NEW written \in Row, Create(r, s, written) PROVE TypeOK'
  <2> DEFINE q == [step |-> "clear", id |-> s, old |-> NoRow, new |-> written]
  <2>1. written \in Row /\ q \in Request
    BY DEF Row, Request
  <2> HIDE DEF q
  <2>2. /\ Begin(r, IF written.enabled THEN q ELSE NoRequest) /\ row' = [row EXCEPT ![s] = written]
        /\ born' = born \cup {s} /\ UNCHANGED <<repeats, schedVars, disturbed>>
    BY <1>1 DEF Create, q
  <2>3. (IF written.enabled THEN q ELSE NoRequest) \in Request \cup {NoRequest}
    BY <2>1
  <2>4. req' \in [Requests -> Request \cup {NoRequest}] /\ fresh' = FALSE
    BY <2>2, <2>3, BeginType
  <2> QED
    BY <2>1, <2>2, <2>4 DEF TypeOK, schedVars
<1>2. ASSUME NEW next \in {"update", "unregisterLast"}, Read(r, s, next) PROVE TypeOK'
  <2> DEFINE q == [step |-> next, id |-> s, old |-> row[s], new |-> NoRow]
  <2>1. q \in Request
    BY <1>2 DEF Read, Request, TypeOK
  <2>2. /\ Begin(r, q) /\ UNCHANGED <<apiVars, repeats, schedVars>>
        /\ disturbed' \subseteq Schedules
    BY <1>2 DEF Read, Disturb, TypeOK
  <2> HIDE DEF q
  <2>3. req' \in [Requests -> Request \cup {NoRequest}] /\ fresh' = FALSE
    BY <2>1, <2>2, BeginType
  <2> QED
    BY <2>2, <2>3 DEF TypeOK, apiVars, schedVars
<1> QED
  BY <1>1, <1>2 DEF Accept, PatchRead, DeleteRead

LEMMA ServeType ==
  ASSUME TypeOK, NEW r \in Requests, Serve(r)
  PROVE  TypeOK' /\ fresh' = FALSE /\ UNCHANGED schedVars
<1>1. ASSUME NEW l, At(r, l) PROVE req[r] \in Request /\ req[r].step = l
  BY <1>1 DEF At, TypeOK
<1>2. ASSUME NEW written \in Row, PatchUpdate(r, written)
      PROVE  TypeOK' /\ fresh' = FALSE /\ UNCHANGED schedVars
  <2> DEFINE s == req[r].id
             q == [req[r] EXCEPT !.step = "unregister", !.new = written]
  <2>1. req[r] \in Request /\ req[r].step = "update"
    BY <1>1, <1>2 DEF PatchUpdate
  <2>2. written \in Row /\ s \in Schedules
    BY <2>1 DEF Request
  <2>3. q \in Request
    BY <2>1, <2>2 DEF Request
  <2> HIDE DEF s, q
  <2>4. /\ \/ Go(r, NoRequest) /\ UNCHANGED row
           \/ Go(r, q) /\ row' = [row EXCEPT ![s] = written]
        /\ UNCHANGED <<born, repeats, schedVars, disturbed>>
    BY <1>2 DEF PatchUpdate, End, s, q
  <2>5. /\ req' \in [Requests -> Request \cup {NoRequest}] /\ fresh' = FALSE
    BY <2>3, <2>4, GoType
  <2> QED
    BY <2>2, <2>4, <2>5 DEF TypeOK, schedVars
<1>3. ASSUME Unregister(r) \/ Clear(r) \/ UnregisterLast(r)
      PROVE  TypeOK' /\ fresh' = FALSE /\ UNCHANGED schedVars
  <2>1. req[r] \in Request /\ req[r].step \in {"unregister", "clear", "unregisterLast"}
    BY <1>1, <1>3 DEF Unregister, Clear, UnregisterLast
  <2>2. /\ req[r].step = "unregister" => [req[r] EXCEPT !.step = "clear"] \in Request
        /\ req[r].step = "clear" => [req[r] EXCEPT !.step = "add"] \in Request
        /\ req[r].step = "unregisterLast" => [req[r] EXCEPT !.step = "erase"] \in Request
    BY <2>1 DEF Request
  <2>3. PICK q \in Request \cup {NoRequest} : Go(r, q)
    BY <1>1, <1>3, <2>2 DEF Unregister, Clear, UnregisterLast, End
  <2>4. PICK id \in Schedules, cron \in Crons : SafeRemove(id, cron)
    <3>1. req[r].id \in Schedules
      BY <2>1 DEF Request
    <3>2. CASE Unregister(r)
      <4>1. req[r].old.cron \in Crons
        BY <1>1, <3>2 DEF Unregister, Request, Row
      <4> QED
        BY <3>1, <3>2, <4>1 DEF Unregister
    <3>3. CASE Clear(r)
      <4>1. req[r].new.cron \in Crons
        BY <1>1, <3>3 DEF Clear, Request, Row
      <4> QED
        BY <3>1, <3>3, <4>1 DEF Clear
    <3>4. CASE UnregisterLast(r)
      <4>1. req[r].old.cron \in Crons
        BY <1>1, <3>4 DEF UnregisterLast, Request, Row
      <4> QED
        BY <3>1, <3>4, <4>1 DEF UnregisterLast
    <3> QED
      BY <1>3, <3>2, <3>3, <3>4
  <2>5. UNCHANGED <<apiVars, schedVars>>
    BY <1>3 DEF Unregister, Clear, UnregisterLast
  <2>6. repeats' \subseteq Repeat /\ disturbed' \subseteq Schedules
    BY <2>4, RemoveType
  <2>7. req' \in [Requests -> Request \cup {NoRequest}] /\ fresh' = FALSE
    BY <2>3, GoType
  <2> QED
    BY <2>5, <2>6, <2>7 DEF TypeOK, apiVars, schedVars
<1>4. ASSUME Add(r) PROVE TypeOK' /\ fresh' = FALSE /\ UNCHANGED schedVars
  <2>1. req[r] \in Request /\ req[r].step = "add"
    BY <1>1, <1>4 DEF Add
  <2>2. [id |-> req[r].id, cron |-> req[r].new.cron] \in Repeat
    BY <2>1 DEF Request, Row, Repeat
  <2>3. Go(r, NoRequest) /\ UNCHANGED <<apiVars, schedVars>>
    BY <1>4 DEF Add, End
  <2>4. repeats' \subseteq Repeat /\ disturbed' \subseteq Schedules
    BY <1>4, <2>1, <2>2 DEF Add, Disturb, Request, TypeOK
  <2> QED
    BY <2>3, <2>4, GoType DEF TypeOK, apiVars, schedVars
<1>5. ASSUME Erase(r) PROVE TypeOK' /\ fresh' = FALSE /\ UNCHANGED schedVars
  <2>1. Go(r, NoRequest) /\ UNCHANGED <<born, repeats, schedVars, disturbed>>
    BY <1>5 DEF Erase, End
  <2>2. row' \in [Schedules -> Row \cup {NoRow}]
    BY <1>5 DEF Erase, TypeOK
  <2> QED
    BY <2>1, <2>2, GoType DEF TypeOK, schedVars
<1> QED
  BY <1>2, <1>3, <1>4, <1>5 DEF Serve, Save, Toggle

\* What every step of a request keeps: its schedule, and what was born or disturbed.
LEMMA ServeKeeps ==
  ASSUME TypeOK, NEW r \in Requests, Serve(r)
  PROVE  /\ req[r] \in Request /\ born' = born /\ disturbed \subseteq disturbed'
         /\ \A v \in Requests : v # r => req'[v] = req[v]
         /\ req'[r] = NoRequest \/ req'[r].id = req[r].id
         /\ \A x \in Schedules : row'[x] # NoRow => row[x] # NoRow
<1> DEFINE Goal == /\ born' = born /\ disturbed \subseteq disturbed'
                   /\ \E q : Go(r, q) /\ (q = NoRequest \/ q.id = req[r].id)
                   /\ \A x \in Schedules : row'[x] # NoRow => row[x] # NoRow
<1>1. req[r] \in Request
  BY DEF Serve, Save, Toggle, PatchUpdate, Unregister, Clear, Add, UnregisterLast, Erase, At, TypeOK
<1>2. ASSUME NEW l PROVE [req[r] EXCEPT !.step = l].id = req[r].id
  BY <1>1 DEF Request
<1>3. ASSUME NEW written \in Row, PatchUpdate(r, written) PROVE Goal
  <2>1. [req[r] EXCEPT !.step = "unregister", !.new = written].id = req[r].id
    BY <1>1 DEF Request
  <2>2. \A x \in Schedules : row'[x] # NoRow => row[x] # NoRow
    BY <1>3 DEF PatchUpdate, TypeOK
  <2>3. born' = born /\ disturbed' = disturbed
    BY <1>3 DEF PatchUpdate
  <2>4. Go(r, NoRequest) \/ Go(r, [req[r] EXCEPT !.step = "unregister", !.new = written])
    BY <1>3 DEF PatchUpdate, End
  <2> QED
    BY <2>1, <2>2, <2>3, <2>4
<1>4. ASSUME Unregister(r) PROVE Goal
  BY <1>2, <1>4 DEF Unregister, SafeRemove, Disturb, End, apiVars
<1>5. ASSUME Clear(r) PROVE Goal
  BY <1>2, <1>5 DEF Clear, SafeRemove, Disturb, apiVars
<1>6. ASSUME UnregisterLast(r) PROVE Goal
  BY <1>2, <1>6 DEF UnregisterLast, SafeRemove, Disturb, apiVars
<1>7. ASSUME Add(r) PROVE Goal
  BY <1>7 DEF Add, Disturb, End, apiVars
<1>8. ASSUME Erase(r) PROVE Goal
  BY <1>8 DEF Erase, Disturb, End, TypeOK
<1>9. Goal
  BY <1>3, <1>4, <1>5, <1>6, <1>7, <1>8 DEF Serve, Save, Toggle
<1> QED
  BY <1>1, <1>9 DEF Go, TypeOK

LEMMA BootType ==
  ASSUME TypeOK, Boot
  PROVE  TypeOK'
<1>1. ASSUME BootRead PROVE TypeOK'
  <2>1. todo' = Wanted
    BY <1>1 DEF BootRead, Wanted
  <2>2. cleared = {}
    BY <1>1 DEF BootRead, TypeOK
  <2> QED
    BY <1>1, <2>1, <2>2, WantedAreRepeats DEF BootRead, Disturb, TypeOK, Idle, apiVars
<1>2. ASSUME NEW p \in todo, BootClear(p) PROVE TypeOK'
  <2>1. repeats' \subseteq Repeat /\ disturbed' \subseteq Schedules
    BY <1>2, RemoveType DEF BootClear, TypeOK, Repeat
  <2> QED
    BY <1>2, <2>1 DEF BootClear, TypeOK, apiVars
<1>3. ASSUME NEW p \in todo, BootAdd(p) PROVE TypeOK'
  BY <1>3 DEF BootAdd, TypeOK, apiVars
<1>4. ASSUME BootDone PROVE TypeOK'
  BY <1>4 DEF BootDone, TypeOK, apiVars
<1> QED
  BY <1>1, <1>2, <1>3, <1>4 DEF Boot

LEMMA TypeStep == TypeOK /\ [Next]_vars => TypeOK'
<1> SUFFICES ASSUME TypeOK, [Next]_vars PROVE TypeOK'
  OBVIOUS
<1>1. ASSUME NEW S \in (SUBSET Schedules) \ {{}}, DeleteServer(S) PROVE TypeOK'
  BY <1>1 DEF DeleteServer, Disturb, TypeOK, schedVars
<1>2. ASSUME ApiCrash PROVE TypeOK'
  BY <1>2 DEF ApiCrash, Disturb, TypeOK, apiVars, schedVars
<1>3. ASSUME SchedulerStops PROVE TypeOK'
  <2>1. disturbed' \subseteq Schedules
    BY <1>3 DEF SchedulerStops, Disturb, TypeOK, Repeat
  <2> QED
    BY <1>3, <2>1 DEF SchedulerStops, TypeOK, apiVars
<1>4. CASE UNCHANGED vars
  BY <1>4 DEF vars, TypeOK, apiVars, schedVars
<1> QED
  BY <1>1, <1>2, <1>3, <1>4, AcceptType, ServeType, BootType DEF Next

\* Every variable keeps its type: no request acts on a row it has not read, the
\* scheduler adds only what is on its list.
THEOREM TypeCorrect == Spec => []TypeOK
BY TypeInit, TypeStep, PTL DEF Spec

----------------------------------------------------------------------------
\* What a boot has done so far, if nobody interferes: what is wanted is registered
\* or on the list.
BootProgress ==
  /\ fresh => Idle
  /\ fresh /\ boot # "down" => Wanted \subseteq repeats \cup todo

BootInvariant == TypeOK /\ BootProgress

LEMMA BootInvariantStep == BootInvariant /\ [Next]_vars => BootInvariant'
<1> SUFFICES ASSUME BootInvariant, [Next]_vars PROVE BootProgress'
  BY TypeStep DEF BootInvariant
<1> USE DEF BootInvariant, BootProgress
<1>1. ASSUME NEW r \in Requests, NEW s \in Schedules, Accept(r, s) PROVE BootProgress'
  BY <1>1 DEF Accept, Create, PatchRead, DeleteRead, Read, Begin, schedVars
<1>2. ASSUME NEW r \in Requests, Serve(r) PROVE BootProgress'
  BY <1>2, ServeType DEF schedVars
<1>3. ASSUME BootRead PROVE BootProgress'
  <2>1. todo' = Wanted' /\ Idle' = Idle /\ fresh' = Idle /\ boot' = "sync"
    BY <1>3 DEF BootRead, Wanted, Idle, apiVars
  <2> QED
    BY <2>1
<1>4. ASSUME NEW p \in todo, BootClear(p) PROVE BootProgress'
  <2>1. [id |-> p.id, cron |-> p.cron] = p
    BY DEF TypeOK, Repeat
  <2>2. repeats \subseteq repeats' \cup {p}
    BY <1>4, <2>1 DEF BootClear, SafeRemove
  <2>3. Wanted' = Wanted /\ Idle' = Idle /\ UNCHANGED <<boot, todo, fresh>>
    BY <1>4 DEF BootClear, Wanted, Idle, apiVars
  <2> QED
    BY <2>2, <2>3
<1>5. ASSUME NEW p \in todo, BootAdd(p) PROVE BootProgress'
  <2>1. Wanted' = Wanted /\ Idle' = Idle /\ UNCHANGED <<boot, fresh>> /\ boot = "sync"
        /\ repeats' = repeats \cup {p} /\ todo' = todo \ {p}
    BY <1>5 DEF BootAdd, Wanted, Idle, apiVars
  <2> QED
    BY <2>1
<1>6. ASSUME BootDone \/ SchedulerStops PROVE BootProgress'
  <2>1. Wanted' = Wanted /\ Idle' = Idle /\ repeats' = repeats /\ todo' = {}
        /\ \/ fresh' = FALSE
           \/ fresh' = fresh /\ boot = "sync" /\ todo = {}
    BY <1>6 DEF BootDone, SchedulerStops, Wanted, Idle, apiVars, TypeOK
  <2> QED
    BY <2>1
<1>7. ASSUME ApiCrash \/ \E S \in (SUBSET Schedules) \ {{}} : DeleteServer(S) PROVE BootProgress'
  BY <1>7 DEF ApiCrash, DeleteServer, schedVars
<1>8. CASE UNCHANGED vars
  BY <1>8 DEF vars, apiVars, schedVars, Wanted, Idle
<1> QED
  BY <1>1, <1>2, <1>3, <1>4, <1>5, <1>6, <1>7, <1>8 DEF Next, Boot

\* After a boot nobody has interfered with, every enabled schedule is registered,
\* whatever crashes, lost calls and races came before it.
THEOREM BootRepairs == Spec => []BootRegistersAll
<1>1. Init => BootInvariant
  BY TypeInit DEF Init, BootInvariant, BootProgress
<1>2. BootInvariant => BootRegistersAll
  BY DEF BootInvariant, BootProgress, BootRegistersAll, TypeOK
<1> QED
  BY <1>1, <1>2, BootInvariantStep, PTL DEF Spec

----------------------------------------------------------------------------
\* For a schedule that nothing disturbed, where the one request about it or the
\* boot is tells how its repeatables differ from what its row asks for.

AsWanted(x) == \A p \in Repeat : p.id = x =>
                 (p \in repeats <=> p \in Wanted /\ p.cron \in Valid)
NoneOf(x) == \A p \in repeats : p.id # x

InStep(q) ==
  /\ q.step \in {"update", "unregisterLast"} => row[q.id] = q.old /\ AsWanted(q.id)
  /\ q.step = "unregister" => /\ row[q.id] = q.new
                              /\ \A p \in repeats : p.id = q.id => p.cron = q.old.cron
  /\ q.step \in {"clear", "add"} => row[q.id] = q.new /\ q.new.enabled /\ NoneOf(q.id)
  /\ q.step = "erase" => NoneOf(q.id)

InOrder(x) ==
  /\ \A r, v \in On(x) : r = v
  /\ Listed(x) => On(x) = {}
  /\ \A p \in todo : p.id = x => p \in Wanted
  /\ \A p \in cleared : p.id = x => NoneOf(x)
  /\ \A r \in On(x) : InStep(req[r])
  /\ Settled(x) => AsWanted(x)

OrderInvariant ==
  /\ TypeOK
  /\ \A s \in Schedules : row[s] # NoRow => s \in born
  /\ \A r \in Requests : req[r] # NoRequest => req[r].id \in born
  /\ \A s \in Schedules \ disturbed : InOrder(s)

\* WantedIs for the next state.
LEMMA WantedIsNext ==
  ASSUME TypeOK', NEW p \in Repeat
  PROVE  p \in Wanted' <=> /\ row'[p.id] # NoRow /\ row'[p.id].enabled
                           /\ p.cron = row'[p.id].cron
<1>1. p = [id |-> p.id, cron |-> p.cron] /\ p.id \in Schedules
  BY DEF Repeat
<1> QED
  BY <1>1 DEF Wanted, Repeat

\* A step that touches nothing about a schedule leaves it in order.
LEMMA Untouched ==
  ASSUME TypeOK, TypeOK', NEW x \in Schedules, InOrder(x), row'[x] = row[x],
         On(x)' = On(x), \A r \in On(x) : req'[r] = req[r],
         \A p \in Repeat : p.id = x => /\ p \in repeats' <=> p \in repeats
                                       /\ p \in todo' <=> p \in todo
                                       /\ p \in cleared' <=> p \in cleared
  PROVE  InOrder(x)'
<1>1. \A p \in Repeat : p.id = x => (p \in Wanted' <=> p \in Wanted)
  BY WantedIs, WantedIsNext
<1>2. /\ repeats \subseteq Repeat /\ repeats' \subseteq Repeat
      /\ todo \subseteq Repeat /\ todo' \subseteq Repeat
      /\ cleared \subseteq Repeat /\ cleared' \subseteq Repeat
  BY DEF TypeOK
<1>3. AsWanted(x)' <=> AsWanted(x)
  BY <1>1 DEF AsWanted
<1>4. NoneOf(x)' <=> NoneOf(x)
  BY <1>2 DEF NoneOf
<1>5. (Listed(x)' <=> Listed(x)) /\ (Settled(x)' <=> Settled(x))
  BY <1>2 DEF Listed, Settled
<1>6. ASSUME NEW r \in On(x) PROVE InStep(req[r])'
  <2>1. PICK q : q = req[r] /\ q = req'[r] /\ q.id = x /\ InStep(q)
    BY <1>6 DEF InOrder, On
  <2>2. \A c : (\A p \in repeats : p.id = x => p.cron = c)
                 => \A p \in repeats' : p.id = x => p.cron = c
    BY <1>2
  <2>3. InStep(q)'
    BY <1>3, <1>4, <2>1, <2>2 DEF InStep
  <2> QED
    BY <2>1, <2>3 DEF InStep, AsWanted, NoneOf
<1> QED
  BY <1>1, <1>2, <1>3, <1>4, <1>5, <1>6 DEF InOrder

\* The only request about a schedule moves on, or ends.
LEMMA RequestMoves ==
  ASSUME TypeOK, TypeOK', NEW r \in Requests, NEW x \in Schedules,
         NEW q \in Request \cup {NoRequest}, On(x) \subseteq {r}, ~Listed(x),
         req' = [req EXCEPT ![r] = q], UNCHANGED schedVars,
         q # NoRequest => q.id = x /\ InStep(q)',
         q = NoRequest => AsWanted(x)'
  PROVE  InOrder(x)'
<1>1. req'[r] = q /\ \A v \in Requests : v # r => req'[v] = req[v]
  BY DEF TypeOK
<1>2. On(x)' = IF q = NoRequest THEN {} ELSE {r}
  BY <1>1 DEF On
<1>3. ~Listed(x)' /\ \A p \in cleared' : p.id # x
  BY DEF Listed, TypeOK, schedVars
<1>4. ASSUME q # NoRequest PROVE InStep(req[r])'
  BY <1>1, <1>4 DEF InStep, AsWanted, NoneOf
<1> QED
  BY <1>1, <1>2, <1>3, <1>4 DEF InOrder, Settled, Listed

\* The schedules a request is not about see nothing of it.
LEMMA OthersUntouched ==
  ASSUME TypeOK, TypeOK', NEW r \in Requests, NEW s, NEW x \in Schedules \ {s}, InOrder(x),
         req[r] = NoRequest \/ req[r].id = s, req'[r] = NoRequest \/ req'[r].id = s,
         \A v \in Requests : v # r => req'[v] = req[v],
         row'[x] = row[x], UNCHANGED schedVars,
         \A p \in Repeat : p.id = x => (p \in repeats' <=> p \in repeats)
  PROVE  InOrder(x)'
<1>1. On(x)' = On(x) /\ \A v \in On(x) : req'[v] = req[v]
  BY DEF On
<1> QED
  BY <1>1, Untouched DEF schedVars

\* What removeRepeatable leaves when it is not lost.
LEMMA Removed ==
  ASSUME TypeOK, NEW id \in Schedules, NEW cron \in Crons, SafeRemove(id, cron)
  PROVE  /\ \A p \in Repeat : p.id # id => (p \in repeats' <=> p \in repeats)
         /\ id \notin disturbed' =>
              \A p \in Repeat : p \in repeats' <=> p \in repeats /\ ~(p.id = id /\ p.cron = cron)
<1>1. \A p \in Repeat : p = [id |-> id, cron |-> cron] <=> p.id = id /\ p.cron = cron
  BY DEF Repeat
<1> QED
  BY <1>1 DEF SafeRemove, Disturb

\* Rows and requests are of schedules that were born.
LEMMA BornStep ==
  ASSUME OrderInvariant, TypeOK', [Next]_vars
  PROVE  /\ \A s \in Schedules : row'[s] # NoRow => s \in born'
         /\ \A r \in Requests : req'[r] # NoRequest => req'[r].id \in born'
         /\ disturbed \subseteq disturbed'
<1> DEFINE Goal == /\ \A x \in Schedules : row'[x] # NoRow => x \in born'
                   /\ \A v \in Requests : req'[v] # NoRequest => req'[v].id \in born'
                   /\ disturbed \subseteq disturbed'
<1> USE DEF OrderInvariant, TypeOK
<1>1. ASSUME NEW r \in Requests, NEW s \in Schedules, Accept(r, s)
      PROVE  Goal
  <2>1. CASE \E written \in Row : Create(r, s, written)
    BY <2>1 DEF Create, Begin
  <2>2. CASE PatchRead(r, s) \/ DeleteRead(r, s)
    BY <2>2 DEF PatchRead, DeleteRead, Read, Begin, Disturb, apiVars
  <2> QED
    BY <1>1, <2>1, <2>2 DEF Accept
<1>2. ASSUME NEW r \in Requests, Serve(r) PROVE Goal
  <2>1. /\ req[r] \in Request /\ born' = born /\ disturbed \subseteq disturbed'
        /\ \A v \in Requests : v # r => req'[v] = req[v]
        /\ req'[r] = NoRequest \/ req'[r].id = req[r].id
        /\ \A x \in Schedules : row'[x] # NoRow => row[x] # NoRow
    BY <1>2, ServeKeeps
  <2>2. req[r].id \in born
    BY <2>1, NothingAssumption
  <2>3. \A v \in Requests : req'[v] # NoRequest => req'[v].id \in born'
    BY <2>1, <2>2
  <2> QED
    BY <2>1, <2>3
<1>3. ASSUME Boot \/ ApiCrash \/ SchedulerStops \/ UNCHANGED vars PROVE Goal
  <2>1. CASE Boot
    <3>1. row' = row /\ born' = born /\ req' = req
      BY <2>1 DEF Boot, BootRead, BootClear, BootAdd, BootDone, apiVars
    <3>2. disturbed \subseteq disturbed'
      BY <2>1 DEF Boot, BootRead, BootClear, BootAdd, BootDone, SafeRemove, Disturb
    <3> QED
      BY <3>1, <3>2
  <2>2. CASE ApiCrash
    BY <2>2 DEF ApiCrash, Disturb, apiVars
  <2>3. CASE SchedulerStops
    BY <2>3 DEF SchedulerStops, Disturb, apiVars
  <2>4. CASE UNCHANGED vars
    BY <2>4 DEF vars, apiVars
  <2> QED
    BY <1>3, <2>1, <2>2, <2>3, <2>4
<1>4. ASSUME NEW S \in (SUBSET Schedules) \ {{}}, DeleteServer(S) PROVE Goal
  BY <1>4 DEF DeleteServer, Disturb
<1> QED
  BY <1>1, <1>2, <1>3, <1>4 DEF Next

\* A request that begins finds its schedule as wanted, or disturbs it.
LEMMA AcceptOrder ==
  ASSUME OrderInvariant, TypeOK', NEW r \in Requests, NEW s \in Schedules, Accept(r, s),
         NEW x \in Schedules \ disturbed'
  PROVE  InOrder(x)'
<1> USE DEF OrderInvariant
<1>1. /\ req[r] = NoRequest /\ UNCHANGED schedVars /\ repeats' = repeats
      /\ disturbed \subseteq disturbed'
  BY DEF Accept, Create, PatchRead, DeleteRead, Read, Begin, Disturb
<1>2. InOrder(x) /\ r \notin On(s)
  BY <1>1 DEF On
<1>3. ASSUME NEW written \in Row, Create(r, s, written) PROVE InOrder(x)'
  <2> DEFINE q == [step |-> "clear", id |-> s, old |-> NoRow, new |-> written]
  <2>1. /\ s \notin born /\ row' = [row EXCEPT ![s] = written]
        /\ req' = [req EXCEPT ![r] = IF written.enabled THEN q ELSE NoRequest]
    BY <1>3 DEF Create, Begin
  <2>2. row[s] = NoRow /\ row'[s] = written /\ \A y \in Schedules : y # s => row'[y] = row[y]
    BY <2>1 DEF TypeOK
  <2>3. q.step = "clear" /\ q.id = s /\ q.new = written /\ q \in Request
    BY DEF Request
  <2> HIDE DEF q
  <2>4. CASE x # s
    <3>1. /\ req'[r] = NoRequest \/ req'[r].id = s
          /\ \A v \in Requests : v # r => req'[v] = req[v]
      BY <2>1, <2>3 DEF TypeOK
    <3> QED
      BY <1>1, <1>2, <2>2, <2>4, <3>1, OthersUntouched
  <2>5. CASE x = s
    <3>1. On(s) = {}
      BY <2>1 DEF On
    <3>2. \A p \in Repeat : p.id = s => p \notin Wanted
      BY <2>2, WantedIs
    <3>3. ~Listed(s)
      BY <1>2, <2>5, <3>2 DEF InOrder, Listed, TypeOK
    <3>4. NoneOf(s)
      <4>1. Settled(s)
        BY <3>1, <3>3 DEF Settled, Listed, TypeOK
      <4> QED
        BY <1>2, <2>5, <3>2, <4>1 DEF InOrder, AsWanted, NoneOf, TypeOK
    <3>5. NoneOf(s)'
      BY <1>1, <3>4 DEF NoneOf
    <3>6. CASE written.enabled
      <4>1. InStep(q)'
        BY <2>2, <2>3, <3>5, <3>6 DEF InStep
      <4>2. req' = [req EXCEPT ![r] = q]
        BY <2>1, <3>6
      <4> QED
        BY <1>1, <2>3, <2>5, <3>1, <3>3, <4>1, <4>2, RequestMoves, NothingAssumption
    <3>7. CASE ~written.enabled
      <4>1. \A p \in Repeat : p.id = s => p \notin Wanted'
        BY <2>2, <3>7, WantedIsNext
      <4>2. AsWanted(s)'
        BY <3>5, <4>1 DEF AsWanted, NoneOf
      <4>3. req' = [req EXCEPT ![r] = NoRequest]
        BY <2>1, <3>7
      <4> QED
        BY <1>1, <2>5, <3>1, <3>3, <4>2, <4>3, RequestMoves
    <3> QED
      BY <3>6, <3>7
  <2> QED
    BY <2>4, <2>5
<1>4. ASSUME NEW next \in {"update", "unregisterLast"}, Read(r, s, next) PROVE InOrder(x)'
  <2>0. PICK q : q = [step |-> next, id |-> s, old |-> row[s], new |-> NoRow]
    OBVIOUS
  <2>1. /\ q \in Request /\ q.id = s /\ q.old = row[s] /\ q.step = next
        /\ row' = row /\ req' = [req EXCEPT ![r] = q]
    BY <1>4, <2>0 DEF Read, Begin, Request, TypeOK, apiVars
  <2>2. CASE x # s
    <3>1. req'[r].id = s /\ \A v \in Requests : v # r => req'[v] = req[v]
      BY <2>1 DEF TypeOK
    <3> QED
      BY <1>1, <1>2, <2>1, <2>2, <3>1, OthersUntouched
  <2>3. CASE x = s
    <3>1. On(s) = {} /\ ~Listed(s)
      BY <1>4, <2>3 DEF Read, Disturb
    <3>2. AsWanted(s)
      <4>1. Settled(s)
        BY <3>1 DEF Settled, Listed, TypeOK
      <4> QED
        BY <1>2, <2>3, <4>1 DEF InOrder
    <3>3. Wanted' = Wanted
      BY <2>1 DEF Wanted
    <3>4. InStep(q)'
      BY <1>1, <2>1, <3>2, <3>3 DEF InStep, AsWanted
    <3> QED
      BY <1>1, <2>1, <2>3, <3>1, <3>4, RequestMoves, NothingAssumption
  <2> QED
    BY <2>2, <2>3
<1> QED
  BY <1>3, <1>4 DEF Accept, PatchRead, DeleteRead

\* One step of the only request about its schedule.
LEMMA ServeOrder ==
  ASSUME OrderInvariant, TypeOK', NEW r \in Requests, Serve(r),
         NEW x \in Schedules \ disturbed'
  PROVE  InOrder(x)'
<1> USE DEF OrderInvariant
<1>0. PICK q : q = req[r]
  OBVIOUS
<1>00. PICK s : s = q.id
  OBVIOUS
<1>1. /\ q # NoRequest /\ q \in Request /\ disturbed \subseteq disturbed'
      /\ \A v \in Requests : v # r => req'[v] = req[v]
      /\ req'[r] = NoRequest \/ req'[r].id = s
  BY <1>0, <1>00, ServeKeeps, NothingAssumption
<1>2. /\ UNCHANGED schedVars /\ s \in Schedules /\ InOrder(x)
      /\ repeats \subseteq Repeat /\ repeats' \subseteq Repeat
  BY <1>00, <1>1, ServeType DEF Request, TypeOK
\* Other schedules' rows and repeatables stay as they are.
<1>3. ASSUME x # s, \A y \in Schedules : y # s => row'[y] = row[y],
             \A p \in Repeat : p.id # s => (p \in repeats' <=> p \in repeats)
      PROVE  InOrder(x)'
  BY <1>0, <1>00, <1>1, <1>2, <1>3, OthersUntouched
\* If it is about x, it is the only one, and the boot leaves x alone.
<1>4. ASSUME x = s
      PROVE  On(s) = {r} /\ ~Listed(s) /\ InStep(q)
  BY <1>0, <1>00, <1>1, <1>2, <1>4 DEF InOrder, On
<1>5. UNCHANGED row => Wanted' = Wanted
  BY DEF Wanted
<1>6. ASSUME NEW written \in Row, PatchUpdate(r, written) PROVE InOrder(x)'
  <2> DEFINE n == [q EXCEPT !.step = "unregister", !.new = written]
  <2>1. /\ q.step = "update" /\ q.old \in Row
        /\ \A y \in Schedules : y # s => row'[y] = row[y]
        /\ repeats' = repeats
    BY <1>0, <1>00, <1>1, <1>2, <1>6 DEF PatchUpdate, At, Request, TypeOK
  <2>2. CASE x = s
    <3>1. row[s] = q.old /\ row[s] # NoRow /\ AsWanted(s)
      BY <1>00, <1>4, <2>1, <2>2, NothingAssumption DEF InStep
    <3>2. row'[s] = written /\ req' = [req EXCEPT ![r] = n]
      BY <1>0, <1>00, <1>2, <1>6, <3>1 DEF PatchUpdate, Go, TypeOK
    <3>3. n \in Request /\ n.step = "unregister" /\ n.id = s /\ n.old = q.old /\ n.new = written
      BY <1>00, <1>1, <2>1 DEF Request
    <3> HIDE DEF n
    <3>4. \A p \in repeats' : p.id = s => p.cron = q.old.cron
      BY <1>2, <2>1, <3>1, WantedIs DEF AsWanted
    <3>5. InStep(n)'
      BY <3>2, <3>3, <3>4 DEF InStep
    <3> QED
      BY <1>2, <1>4, <2>2, <3>2, <3>3, <3>5, RequestMoves, NothingAssumption
  <2> QED
    BY <1>3, <2>1, <2>2
<1>7. ASSUME Unregister(r) PROVE InOrder(x)'
  <2>1. /\ q.step = "unregister" /\ q.new \in Row /\ q.old.cron \in Crons
        /\ SafeRemove(s, q.old.cron) /\ row' = row
    BY <1>0, <1>00, <1>1, <1>7 DEF Unregister, At, Request, Row, apiVars
  <2>2. CASE x = s
    <3>1. row[s] = q.new /\ \A p \in repeats : p.id = s => p.cron = q.old.cron
      BY <1>00, <1>4, <2>1, <2>2 DEF InStep
    <3>2. NoneOf(s)'
      BY <1>2, <2>1, <2>2, <3>1, Removed DEF NoneOf
    <3>3. CASE q.new.enabled
      <4>1. PICK n : n = [q EXCEPT !.step = "clear"]
        OBVIOUS
      <4>2. n \in Request /\ n.step = "clear" /\ n.id = s /\ n.new = q.new
        BY <1>00, <1>1, <2>1, <4>1 DEF Request
      <4>3. req' = [req EXCEPT ![r] = n]
        BY <1>0, <1>7, <3>3, <4>1 DEF Unregister, Go
      <4>4. InStep(n)'
        BY <2>1, <3>1, <3>2, <3>3, <4>2 DEF InStep
      <4> QED
        BY <1>2, <1>4, <2>2, <4>2, <4>3, <4>4, RequestMoves, NothingAssumption
    <3>4. CASE ~q.new.enabled
      <4>1. req' = [req EXCEPT ![r] = NoRequest]
        BY <1>0, <1>7, <3>4 DEF Unregister, End, Go
      <4>2. AsWanted(s)'
        BY <1>5, <2>1, <3>1, <3>2, <3>4, WantedIs DEF AsWanted, NoneOf
      <4> QED
        BY <1>2, <1>4, <2>2, <4>1, <4>2, RequestMoves
    <3> QED
      BY <3>3, <3>4
  <2>3. CASE x # s
    BY <1>2, <1>3, <2>1, <2>3, Removed
  <2> QED
    BY <2>2, <2>3
<1>8. ASSUME Clear(r) PROVE InOrder(x)'
  <2>1. /\ q.step = "clear" /\ q.new.cron \in Crons
        /\ SafeRemove(s, q.new.cron) /\ row' = row
    BY <1>0, <1>00, <1>1, <1>8 DEF Clear, At, Request, Row, apiVars
  <2>2. CASE x = s
    <3>1. row[s] = q.new /\ q.new.enabled /\ NoneOf(s)
      BY <1>00, <1>4, <2>1, <2>2 DEF InStep
    <3>2. NoneOf(s)'
      BY <1>2, <2>1, <2>2, <3>1, Removed DEF NoneOf
    <3>3. PICK n : n = [q EXCEPT !.step = "add"]
      OBVIOUS
    <3>4. n \in Request /\ n.step = "add" /\ n.id = s /\ n.new = q.new
      BY <1>00, <1>1, <2>1, <3>3 DEF Request
    <3>5. req' = [req EXCEPT ![r] = n]
      BY <1>0, <1>8, <3>3 DEF Clear, Go
    <3>6. InStep(n)'
      BY <2>1, <3>1, <3>2, <3>4 DEF InStep
    <3> QED
      BY <1>2, <1>4, <2>2, <3>4, <3>5, <3>6, RequestMoves, NothingAssumption
  <2>3. CASE x # s
    BY <1>2, <1>3, <2>1, <2>3, Removed
  <2> QED
    BY <2>2, <2>3
<1>9. ASSUME Add(r) PROVE InOrder(x)'
  <2>1. /\ q.step = "add" /\ q.new \in Row /\ row' = row
        /\ req' = [req EXCEPT ![r] = NoRequest]
        /\ \/ q.new.cron \in Valid /\ repeats' = repeats \cup {[id |-> s, cron |-> q.new.cron]}
           \/ q.new.cron \notin Valid /\ repeats' = repeats
           \/ s \in disturbed' /\ repeats' = repeats
    BY <1>0, <1>00, <1>1, <1>9 DEF Add, At, End, Go, Disturb, Request, apiVars
  <2>2. \A p \in Repeat : p = [id |-> s, cron |-> q.new.cron] <=> p.id = s /\ p.cron = q.new.cron
    BY DEF Repeat
  <2>3. CASE x = s
    <3>1. row[s] = q.new /\ q.new.enabled /\ NoneOf(s)
      BY <1>00, <1>4, <2>1, <2>3 DEF InStep
    <3>2. \A p \in Repeat : p.id = s => (p \in Wanted <=> p.cron = q.new.cron)
      BY <2>1, <3>1, WantedIs, NothingAssumption
    <3>3. AsWanted(s)'
      BY <1>5, <2>1, <2>2, <2>3, <3>1, <3>2 DEF AsWanted, NoneOf
    <3> QED
      BY <1>2, <1>4, <2>1, <2>3, <3>3, RequestMoves
  <2> QED
    BY <1>3, <2>1, <2>2, <2>3
<1>10. ASSUME UnregisterLast(r) PROVE InOrder(x)'
  <2>1. /\ q.step = "unregisterLast" /\ q.old \in Row /\ q.old.cron \in Crons
        /\ SafeRemove(s, q.old.cron) /\ row' = row
    BY <1>0, <1>00, <1>1, <1>10 DEF UnregisterLast, At, Request, Row, apiVars
  <2>2. CASE x = s
    <3>1. row[s] = q.old /\ AsWanted(s)
      BY <1>00, <1>4, <2>1, <2>2 DEF InStep
    <3>2. \A p \in repeats : p.id = s => p.cron = q.old.cron
      BY <1>2, <3>1, WantedIs DEF AsWanted
    <3>3. NoneOf(s)'
      BY <1>2, <2>1, <2>2, <3>2, Removed DEF NoneOf
    <3>4. PICK n : n = [q EXCEPT !.step = "erase"]
      OBVIOUS
    <3>5. n \in Request /\ n.step = "erase" /\ n.id = s
      BY <1>00, <1>1, <2>1, <3>4 DEF Request
    <3>6. req' = [req EXCEPT ![r] = n]
      BY <1>0, <1>10, <3>4 DEF UnregisterLast, Go
    <3>7. InStep(n)'
      BY <3>3, <3>5 DEF InStep
    <3> QED
      BY <1>2, <1>4, <2>2, <3>5, <3>6, <3>7, RequestMoves, NothingAssumption
  <2>3. CASE x # s
    BY <1>2, <1>3, <2>1, <2>3, Removed
  <2> QED
    BY <2>2, <2>3
<1>11. ASSUME Erase(r) PROVE InOrder(x)'
  <2>1. /\ q.step = "erase" /\ row' = [row EXCEPT ![s] = NoRow] /\ repeats' = repeats
        /\ req' = [req EXCEPT ![r] = NoRequest]
    BY <1>0, <1>00, <1>11 DEF Erase, At, End, Go
  <2>2. row'[s] = NoRow /\ \A y \in Schedules : y # s => row'[y] = row[y]
    BY <1>2, <2>1 DEF TypeOK
  <2>3. CASE x = s
    <3>1. NoneOf(s)
      BY <1>00, <1>4, <2>1, <2>3 DEF InStep
    <3>2. AsWanted(s)'
      BY <2>1, <2>2, <3>1, WantedIsNext DEF AsWanted, NoneOf
    <3> QED
      BY <1>2, <1>4, <2>1, <2>3, <3>2, RequestMoves
  <2> QED
    BY <1>3, <2>1, <2>2, <2>3
<1> QED
  BY <1>6, <1>7, <1>8, <1>9, <1>10, <1>11 DEF Serve, Save, Toggle

\* A boot removes and adds what is wanted, one by one.
LEMMA BootOrder ==
  ASSUME OrderInvariant, TypeOK', Boot, NEW x \in Schedules \ disturbed'
  PROVE  InOrder(x)'
<1> USE DEF OrderInvariant
<1>1. /\ Wanted' = Wanted /\ req' = req /\ row' = row /\ On(x)' = On(x)
      /\ disturbed \subseteq disturbed'
  BY DEF Boot, BootRead, BootClear, BootAdd, BootDone, SafeRemove, Disturb, Wanted, On, apiVars
<1>2. InOrder(x) /\ todo \subseteq Repeat /\ repeats \subseteq Repeat
  BY <1>1 DEF TypeOK
<1>3. ASSUME BootRead PROVE InOrder(x)'
  <2>1. On(x) = {} /\ todo' = Wanted /\ cleared = {} /\ cleared' = {} /\ repeats' = repeats
    BY <1>3 DEF BootRead, Disturb, Wanted, TypeOK
  <2>2. AsWanted(x)'
    BY <1>1, <1>2, <2>1 DEF InOrder, Settled, AsWanted
  <2> QED
    BY <1>1, <2>1, <2>2 DEF InOrder
<1>4. ASSUME NEW p \in todo, p.id # x, BootClear(p) \/ BootAdd(p) PROVE InOrder(x)'
  <2>1. p \in Repeat /\ p.id \in Schedules /\ p.cron \in Crons
    BY <1>2 DEF Repeat
  <2>2. /\ \A y \in Repeat : y.id = x => (y \in repeats' <=> y \in repeats)
        /\ \A y \in Repeat : y.id = x => (y \in todo' <=> y \in todo)
        /\ \A y \in Repeat : y.id = x => (y \in cleared' <=> y \in cleared)
    BY <1>4, <2>1, Removed DEF BootClear, BootAdd
  <2> QED
    BY <1>1, <1>2, <2>2, Untouched
<1>5. ASSUME NEW p \in todo, p.id = x, BootClear(p) PROVE InOrder(x)'
  <2>1. /\ p \in Repeat /\ p \in Wanted /\ p.cron \in Crons /\ SafeRemove(x, p.cron)
        /\ cleared = {} /\ cleared' = {p} /\ todo' = todo
    BY <1>2, <1>5 DEF BootClear, InOrder, Repeat
  <2>2. On(x) = {} /\ AsWanted(x)
    BY <1>2, <1>5, <2>1 DEF InOrder, Listed, Settled
  <2>3. \A y \in repeats : y.id = x => y.cron = p.cron
    BY <1>2, <1>5, <2>1, <2>2, WantedIs DEF AsWanted
  <2>4. NoneOf(x)'
    BY <2>1, <2>3, Removed DEF NoneOf, TypeOK
  <2> QED
    BY <1>1, <1>2, <1>5, <2>1, <2>2, <2>4 DEF InOrder, Settled
<1>6. ASSUME NEW p \in todo, p.id = x, BootAdd(p) PROVE InOrder(x)'
  <2>1. /\ p \in Repeat /\ p \in Wanted /\ p.cron \in Valid /\ repeats' = repeats \cup {p}
        /\ cleared = {p} /\ cleared' = {} /\ todo' = todo \ {p}
    BY <1>2, <1>6 DEF BootAdd, InOrder
  <2>2. On(x) = {} /\ NoneOf(x)
    BY <1>2, <1>6, <2>1 DEF InOrder, Listed
  <2>3. \A y \in Repeat : y.id = x /\ y \in Wanted => y = p
    BY <1>6, <2>1, WantedIs DEF Repeat
  <2>4. AsWanted(x)'
    BY <1>1, <2>1, <2>2, <2>3 DEF AsWanted, NoneOf
  <2> QED
    BY <1>1, <1>2, <2>1, <2>2, <2>4 DEF InOrder
<1>7. ASSUME BootDone PROVE InOrder(x)'
  BY <1>1, <1>2, <1>7, Untouched DEF BootDone
<1> QED
  BY <1>3, <1>4, <1>5, <1>6, <1>7 DEF Boot

LEMMA OrderInvariantStep == OrderInvariant /\ [Next]_vars => OrderInvariant'
<1> SUFFICES ASSUME OrderInvariant, [Next]_vars PROVE OrderInvariant'
  OBVIOUS
<1>1. TypeOK /\ TypeOK'
  BY TypeStep DEF OrderInvariant
<1>2. ASSUME NEW x \in Schedules \ disturbed' PROVE InOrder(x)'
  <2>1. InOrder(x)
    BY <1>1, BornStep DEF OrderInvariant
  <2>2. ASSUME SchedulerStops PROVE InOrder(x)'
    <3>1. /\ UNCHANGED <<row, repeats, req>> /\ todo' = {} /\ cleared' = {}
          /\ \A p \in cleared : p.id = x => p.cron \notin Valid
      BY <2>2 DEF SchedulerStops, Disturb, apiVars
    <3>2. Wanted' = Wanted /\ On(x)' = On(x) /\ (AsWanted(x)' <=> AsWanted(x))
      BY <3>1 DEF Wanted, On, AsWanted
    <3>3. ASSUME NEW r \in On(x) PROVE InStep(req[r])'
      BY <2>1, <3>1, <3>2, <3>3 DEF InOrder, InStep, AsWanted, NoneOf
    \* The one that was cleared has an invalid pattern, so that nothing is missing.
    <3>4. ASSUME On(x) = {} PROVE AsWanted(x)
      <4>1. CASE \E p \in cleared : p.id = x
        <5>1. PICK p \in cleared : p.id = x
          BY <4>1
        <5>2. p \in Repeat /\ p \in Wanted /\ p.cron \notin Valid /\ NoneOf(x)
          BY <1>1, <2>1, <3>1, <5>1 DEF InOrder, TypeOK
        <5>3. \A y \in Repeat : y.id = x /\ y \in Wanted => y.cron = p.cron
          BY <1>1, <5>1, <5>2, WantedIs
        <5> QED
          BY <5>2, <5>3 DEF AsWanted, NoneOf
      <4>2. CASE \A p \in cleared : p.id # x
        BY <2>1, <3>4, <4>2 DEF InOrder, Settled
      <4> QED
        BY <4>1, <4>2
    <3> QED
      BY <2>1, <3>1, <3>2, <3>3, <3>4 DEF InOrder, Settled, Listed
  <2>3. CASE UNCHANGED vars
    BY <1>1, <2>1, <2>3, Untouched DEF vars, apiVars, schedVars, On
  <2>4. ASSUME ApiCrash PROVE InOrder(x)'
    <3>1. On(x) = {} /\ On(x)' = {}
      BY <2>4 DEF ApiCrash, Disturb, On
    <3> QED
      BY <1>1, <2>1, <2>4, <3>1, Untouched DEF ApiCrash, apiVars, schedVars
  <2>5. ASSUME NEW S \in (SUBSET Schedules) \ {{}}, DeleteServer(S) PROVE InOrder(x)'
    <3>1. row'[x] = row[x] /\ On(x)' = On(x)
      BY <2>5 DEF DeleteServer, Disturb, On
    <3> QED
      BY <1>1, <2>1, <2>5, <3>1, Untouched DEF DeleteServer, schedVars
  <2> QED
    BY <1>1, <2>2, <2>3, <2>4, <2>5, AcceptOrder, ServeOrder, BootOrder DEF Next
<1> QED
  BY <1>1, <1>2, BornStep DEF OrderInvariant

LEMMA OrderInvariantInit == Init => OrderInvariant
<1> SUFFICES ASSUME Init PROVE OrderInvariant
  OBVIOUS
<1>1. Wanted = {}
  BY DEF Init, Wanted
<1> QED
  BY <1>1, TypeInit DEF Init, OrderInvariant, InOrder, On, Listed, AsWanted

\* Whatever faults, races and invalid patterns there are, and however many boots
\* they break off, a schedule of its own that none of them hit is registered as
\* its row says.
THEOREM InStepAtRest == Spec => []RegisteredAtRest
<1>1. OrderInvariant => RegisteredAtRest
  <2> SUFFICES ASSUME OrderInvariant, NEW s \in Schedules \ disturbed, Settled(s)
               PROVE  {p \in repeats : p.id = s} = {p \in Wanted : p.id = s /\ p.cron \in Valid}
    BY DEF RegisteredAtRest
  <2>1. AsWanted(s) /\ repeats \subseteq Repeat /\ Wanted \subseteq Repeat
    BY WantedAreRepeats DEF OrderInvariant, InOrder, TypeOK
  <2> QED
    BY <2>1 DEF AsWanted
<1> QED
  BY <1>1, OrderInvariantInit, OrderInvariantStep, PTL DEF Spec

\* And it never has two repeatables, at no moment of a request or a boot.
THEOREM OnePattern == Spec => []OnePatternEach
<1>1. OrderInvariant => OnePatternEach
  <2> SUFFICES ASSUME OrderInvariant, NEW p \in repeats, NEW x \in repeats,
                      p.id = x.id, p.id \notin disturbed
               PROVE  p.cron = x.cron
    BY DEF OnePatternEach, OrderInvariant, TypeOK, Repeat
  <2>1. TypeOK /\ InOrder(p.id) /\ p \in Repeat /\ x \in Repeat
    BY DEF OrderInvariant, TypeOK, Repeat
  <2>2. CASE AsWanted(p.id)
    BY <2>1, <2>2, WantedIs DEF AsWanted
  <2>3. CASE ~AsWanted(p.id)
    <3>1. \A c \in cleared : c.id # p.id
      BY <2>1 DEF InOrder, NoneOf
    <3>2. PICK r \in On(p.id) : req[r] \in Request /\ InStep(req[r]) /\ req[r].id = p.id
      BY <2>1, <2>3, <3>1 DEF InOrder, Settled, On, TypeOK
    <3> QED
      BY <2>1, <2>3, <3>2 DEF InStep, Request, NoneOf
  <2> QED
    BY <2>2, <2>3
<1> QED
  BY <1>1, OrderInvariantInit, OrderInvariantStep, PTL DEF Spec
=============================================================================
