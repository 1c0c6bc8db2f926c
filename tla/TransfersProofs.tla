-------------------------- MODULE TransfersProofs ---------------------------
(***************************************************************************)
(* Proofs about Transfers, for any jobs of any kinds, any attempts and     *)
(* stalls, scripts and files of any length.  The invariant has two parts.  *)
(* JobsFit says of each job what its place in the processor tells about    *)
(* the queue's tally and about what the delivery has left in the world;    *)
(* TargetFits says of each client that executes a script what its position *)
(* in the script tells about the tables.                                   *)
(***************************************************************************)
EXTENDS Transfers, TLAPS

\* Each run is charged to an attempt, to a stall or to the delivery under way.
Queued(j) ==
  /\ pc[j] # "idle" => up /\ queue[j] = "active"
  /\ queue[j] \in {"waiting", "active"} => attempts[j] < Attempts /\ stalls[j] <= MaxStalled
  /\ queue[j] = "waiting" => runs[j] = attempts[j] + stalls[j]
  /\ queue[j] = "active"  => runs[j] = attempts[j] + stalls[j] + 1
  /\ queue[j] = "completed" => runs[j] # 0

Placed(j) ==
  /\ pc[j] = "report" => kind[j] = "clone"
  /\ pc[j] = "restore" => Loads(j)
  /\ pc[j] = "insert" => kind[j] = "import"
  /\ pc[j] \in {"produce", "await", "record"} => Exports(j)
  /\ pc[j] \notin {"insert", "produce"} => at[j] = 0

Ended(j) == pc[j] = "finish" \/ queue[j] = "completed"

\* The batches before at[j] have been inserted once more than those behind it, and
\* those behind it not yet by this delivery.
Copied(j) ==
  /\ \A i, k \in Tables : i <= k => copies[j][k] <= copies[j][i]
  /\ \A i \in Tables : copies[j][i] <= runs[j]
  /\ pc[j] \in {"start", "insert"} =>
       \A i \in Tables : at[j] < i => copies[j][i] < runs[j]
  /\ pc[j] = "insert" => \A i \in Tables : i <= at[j] =>
       copies[j][i] >= 1 /\ \A k \in Tables : at[j] < k => copies[j][k] < copies[j][i]
  /\ kind[j] = "import" /\ Ended(j) => \A i \in Tables : copies[j][i] >= 1

\* No upload is under way of the delivery that was recorded, nor of one that is about to be.
Stored(j) ==
  /\ record[j] <= runs[j]
  /\ pc[j] \notin {"idle", "finish", "fail"} => record[j] < runs[j]
  /\ \A r \in 1..Deliveries : <<j, r>> \in puts => r # record[j]
  /\ pc[j] = "record" => /\ Self(j) \notin puts /\ object[j].by # 0
                         /\ object[j].by = runs[j] => object[j].whole
  /\ record[j] # 0 => object[j].by # 0 /\ (object[j].by = record[j] => object[j].whole)
  /\ Exports(j) /\ Ended(j) => record[j] # 0

\* The client of the delivery that succeeded is at its end, and gone.
Loaded(j) == Loads(j) /\ Ended(j) => call[Self(j)] = "none" /\ Ends(Self(j))

JobFits(j) == Queued(j) /\ Placed(j) /\ Copied(j) /\ Stored(j) /\ Loaded(j)

JobsFit == TypeOK /\ \A j \in Jobs : JobFits(j)

\* On Postgres nobody drops a table, and nobody fills one that another created: what a
\* client has created and filled stays as it left it.
PostgresFits ==
  /\ \A i \in Tables : rows[i] \subseteq {owner[i]}
  /\ \A w \in Writer :
       /\ (todo[w].op = "create" /\ todo[w].table <= Size) \/ todo[w].op = "fill"
       /\ \A i \in Tables : /\ todo[w].op = "fill" \/ i < todo[w].table => owner[i] = w
                            /\ todo[w].op = "fill" /\ i < todo[w].table => rows[i] = {w}

\* On MySQL what a client left stays as long as no other executes a statement.
MysqlFits ==
  \A w \in Writer : tail = w =>
    \A i \in Tables :
      /\ i < todo[w].table => owner[i] = w /\ rows[i] = {w}
      /\ i = todo[w].table /\ todo[w].op = "create" => owner[i] = NoOne /\ rows[i] = {}
      /\ i = todo[w].table /\ todo[w].op = "fill"   => owner[i] = w /\ rows[i] = {}

TargetFits == IF engine = "postgres" THEN PostgresFits ELSE MysqlFits

TransfersInvariant == JobsFit /\ TargetFits

\* A call that ended stays so.
CallsKept(d) == \A r \in 1..Deliveries : call[<<d, r>>] = "none" =>
                  call'[<<d, r>>] = "none" /\ todo'[<<d, r>>] = todo[<<d, r>>]

TargetTyped ==
  /\ exists \in BOOLEAN
  /\ owner \in [Tables -> Writer \cup {NoOne, Other}]
  /\ rows \in [Tables -> SUBSET (Writer \cup {Other})]
  /\ call \in [Writer -> {"none", "ensure", "create", "load", "cut"}]
  /\ todo \in [Writer -> Statement]
  /\ tail \in Writer \cup {NoOne}

----------------------------------------------------------------------------
LEMMA Numbers ==
  /\ Attempts \in Nat /\ Attempts >= 1 /\ MaxStalled \in Nat /\ Size \in Nat /\ Size >= 1
  /\ Deliveries \in Nat /\ Deliveries = Attempts + MaxStalled
BY AttemptsAssumption, MaxStalledAssumption, SizeAssumption DEF Deliveries

LEMMA Owners == NoOne \notin Writer /\ NoOne # Other
<1>1. Writer \subseteq Jobs \X Nat
  BY Numbers DEF Writer
<1> QED
  BY <1>1, OwnersAssumption

LEMMA FirstFacts ==
  /\ First \in Statement /\ First.table = 1
  /\ engine = "postgres" => First.op = "create"
  /\ engine # "postgres" => First.op = "drop"
BY Numbers DEF First, Statement

\* The invariant holds when the system starts.
THEOREM InvariantInit == Init => TransfersInvariant
<1> SUFFICES ASSUME Init PROVE TransfersInvariant
  OBVIOUS
<1>1. /\ owner \in [Tables -> {NoOne, Other}]
      /\ rows = [i \in Tables |-> IF owner[i] = Other THEN {Other} ELSE {}]
      /\ todo = [w \in Writer |-> First] /\ tail = NoOne
  BY DEF Init
<1>2. \A j \in Jobs : /\ runs[j] = 0 /\ attempts[j] = 0 /\ stalls[j] = 0 /\ at[j] = 0 /\ record[j] = 0
                      /\ pc[j] = "idle" /\ queue[j] = "waiting" /\ \A i \in Tables : copies[j][i] = 0
  BY DEF Init
<1>3. TypeOK
  <2>1. rows \in [Tables -> SUBSET (Writer \cup {Other})]
    BY <1>1
  <2>2. owner \in [Tables -> Writer \cup {NoOne, Other}] /\ todo \in [Writer -> Statement]
    BY <1>1, FirstFacts
  <2>3. call \in [Writer -> {"none", "ensure", "create", "load", "cut"}]
    BY DEF Init
  <2> QED
    BY <1>1, <2>1, <2>2, <2>3, Numbers DEF Init, TypeOK, Place
<1>4. ASSUME NEW j \in Jobs PROVE JobFits(j)
  <2>1. Queued(j) /\ Placed(j) /\ Copied(j) /\ Loaded(j)
    BY <1>2, Numbers DEF Queued, Placed, Copied, Loaded, Ended
  <2>2. Stored(j)
    BY <1>2, Numbers DEF Init, Stored, Ended
  <2> QED
    BY <2>1, <2>2 DEF JobFits
<1>5. TargetFits
  <2>1. ASSUME engine = "postgres" PROVE PostgresFits
    <3>1. \A w \in Writer : todo[w].op = "create" /\ todo[w].table = 1
      BY <1>1, <2>1, FirstFacts
    <3>2. \A i \in Tables : i \in Nat /\ i >= 1 /\ rows[i] \subseteq {owner[i]}
      BY <1>1, Numbers DEF Tables
    <3> QED
      BY <3>1, <3>2, Numbers DEF PostgresFits
  <2>2. MysqlFits
    BY <1>1, Owners DEF MysqlFits
  <2> QED
    BY <2>1, <2>2 DEF TargetFits
<1> QED
  BY <1>3, <1>4, <1>5 DEF JobsFit, TransfersInvariant

\* What TypeOK says of one job, in numbers.
LEMMA JobFacts ==
  ASSUME TypeOK, NEW j \in Jobs
  PROVE  /\ runs[j] \in Nat /\ runs[j] <= Deliveries /\ attempts[j] \in Nat /\ stalls[j] \in Nat
         /\ at[j] \in 0..Size /\ at[j] \in Nat /\ record[j] \in Nat /\ record[j] <= Deliveries
         /\ object[j].by \in Nat /\ object[j].whole \in BOOLEAN
         /\ \A i \in Tables : i \in Nat /\ i >= 1 /\ i <= Size /\ copies[j][i] \in Nat
         /\ pc[j] \in Place /\ kind[j] \in Kind
<1>1. \A i \in Tables : i \in Nat /\ i >= 1 /\ i <= Size /\ copies[j][i] \in Nat
  BY Numbers DEF TypeOK, Tables
<1> QED
  BY <1>1, Numbers DEF TypeOK

\* A job that was delivered is one that may write.
LEMMA SelfWrites ==
  ASSUME TypeOK, NEW j \in Jobs, Queued(j), pc[j] # "idle" \/ queue[j] = "completed"
  PROVE  runs[j] \in 1..Deliveries /\ Self(j) \in Writer
<1>1. runs[j] \in 1..Deliveries
  BY JobFacts, Numbers DEF Queued
<1> QED
  BY <1>1 DEF Self, Writer

LEMMA TargetUnmoved ==
  ASSUME TypeOK, UNCHANGED target
  PROVE  TargetTyped' /\ \A d \in Jobs : CallsKept(d)
BY DEF TypeOK, target, TargetTyped, CallsKept

\* A job whose own state does not change goes on fitting.
LEMMA Unmoved ==
  ASSUME TypeOK, NEW d \in Jobs, JobFits(d), kind' = kind, engine' = engine, torn' = torn, up => up',
         queue'[d] = queue[d], runs'[d] = runs[d], attempts'[d] = attempts[d], stalls'[d] = stalls[d],
         pc'[d] = pc[d], at'[d] = at[d], copies'[d] = copies[d], object'[d] = object[d], record'[d] = record[d],
         \A r \in 1..Deliveries : <<d, r>> \in puts' => <<d, r>> \in puts,
         CallsKept(d)
  PROVE  JobFits(d)'
<1>1. Queued(d)' /\ Placed(d)' /\ Copied(d)'
  BY DEF JobFits, Queued, Placed, Copied, Ended, Loads, Exports
<1>2. Stored(d)'
  <2>1. Self(d)' = Self(d)
    BY DEF Self
  <2>2. pc[d] = "record" => Self(d) \notin puts'
    <3> SUFFICES ASSUME pc[d] = "record" PROVE Self(d) \notin puts'
      OBVIOUS
    <3>1. runs[d] \in 1..Deliveries
      BY JobFacts, Numbers DEF JobFits, Queued, Stored
    <3> QED
      BY <3>1 DEF JobFits, Stored, Self
  <2> QED
    BY <2>1, <2>2 DEF JobFits, Stored, Ended, Exports
<1>3. Loaded(d)'
  <2> SUFFICES ASSUME Loads(d), Ended(d) PROVE call'[Self(d)] = "none" /\ Ends(Self(d))'
    BY DEF Loaded, Loads, Ended, Self
  <2>1. runs[d] \in 1..Deliveries
    BY SelfWrites DEF JobFits, Ended
  <2>2. call'[Self(d)] = "none" /\ todo'[Self(d)] = todo[Self(d)] /\ Ends(Self(d))
    BY <2>1 DEF JobFits, Loaded, CallsKept, Self
  <2> QED
    BY <2>2 DEF Ends, Torn, Self
<1> QED
  BY <1>1, <1>2, <1>3 DEF JobFits

----------------------------------------------------------------------------
\* A delivery moves on, or gives up, without touching what it will be judged by.

\* An attempt that gives up owes nothing any more.
LEMMA GiveUpFits ==
  ASSUME JobsFit, NEW j \in Jobs, pc[j] # "idle", GiveUp(j),
         TargetTyped', orphans' \subseteq Jobs, puts' \subseteq puts,
         \A d \in Jobs : CallsKept(d), UNCHANGED <<copies, object, record>>
  PROVE  JobsFit'
<1>1. /\ UNCHANGED <<kind, engine, create, torn, queue, runs, attempts, stalls, up>>
      /\ pc' = [pc EXCEPT ![j] = "fail"] /\ at' = [at EXCEPT ![j] = 0]
  BY DEF GiveUp, Goto, params, tally
<1>2. TypeOK'
  BY <1>1, Numbers DEF JobsFit, TypeOK, Place, TargetTyped
<1>3. /\ pc'[j] = "fail" /\ at'[j] = 0
      /\ \A d \in Jobs : d # j => pc'[d] = pc[d] /\ at'[d] = at[d]
  BY <1>1 DEF JobsFit, TypeOK
<1>4. ASSUME NEW d \in Jobs, d # j PROVE JobFits(d)'
  BY <1>1, <1>3, <1>4, Unmoved DEF JobsFit
<1>5. JobFits(j)'
  <2>1. Queued(j) /\ Placed(j) /\ Copied(j) /\ Stored(j) /\ queue[j] = "active"
    BY DEF JobsFit, JobFits, Queued
  <2>2. Queued(j)' /\ Placed(j)'
    BY <1>1, <1>3, <2>1 DEF Queued, Placed
  <2>3. Copied(j)'
    BY <1>1, <1>3, <2>1 DEF Copied, Ended
  <2>4. Stored(j)'
    BY <1>1, <1>3, <2>1 DEF Stored, Ended
  <2>5. Loaded(j)'
    BY <1>1, <1>3, <2>1 DEF Loaded, Ended
  <2> QED
    BY <2>2, <2>3, <2>4, <2>5 DEF JobFits
<1> QED
  BY <1>2, <1>4, <1>5 DEF JobsFit

\* The steps up to the point at which data moves.
LEMMA EarlyFits ==
  ASSUME JobsFit, NEW j \in Jobs,
         NEW from \in {"start", "report"}, NEW to \in {"report", "restore", "insert", "produce"},
         Step(j, from, to),
         to = "insert" => from = "start" /\ kind[j] = "import",
         to = "report" => kind[j] = "clone",
         to = "restore" => Loads(j),
         to = "produce" => Exports(j),
         puts' = puts \/ puts' = puts \cup {Self(j)},
         TargetTyped', \A d \in Jobs : d # j => CallsKept(d),
         UNCHANGED <<copies, object, record, orphans, at>>
  PROVE  JobsFit'
<1>1. /\ UNCHANGED <<kind, engine, create, torn, queue, runs, attempts, stalls, up>>
      /\ pc[j] = from /\ pc' = [pc EXCEPT ![j] = to]
  BY DEF Step, Goto, params, tally
<1>2. JobFits(j) /\ queue[j] = "active" /\ at[j] = 0
  BY <1>1 DEF JobsFit, JobFits, Queued, Placed
<1>3. runs[j] \in 1..Deliveries /\ record[j] < runs[j] /\ record[j] \in Nat
  BY <1>1, <1>2, JobFacts, Numbers DEF JobsFit, JobFits, Queued, Stored
<1>4. Self(j) \in Writer
  BY <1>3 DEF Self, Writer
<1>5. TypeOK'
  BY <1>1, <1>4, Numbers DEF JobsFit, TypeOK, Place, TargetTyped
<1>6. pc'[j] = to /\ \A d \in Jobs : d # j => pc'[d] = pc[d]
  BY <1>1 DEF JobsFit, TypeOK
<1>7. ASSUME NEW d \in Jobs, d # j PROVE JobFits(d)'
  <2>1. \A r \in 1..Deliveries : <<d, r>> \in puts' => <<d, r>> \in puts
    BY <1>7 DEF Self
  <2> QED
    BY <1>1, <1>6, <1>7, <2>1, Unmoved DEF JobsFit
<1>8. JobFits(j)'
  <2>1. Queued(j)'
    BY <1>1, <1>2, <1>6 DEF JobFits, Queued
  <2>2. Placed(j)'
    BY <1>1, <1>2, <1>6 DEF Placed, Loads, Exports
  <2>3. Copied(j)'
    <3>1. to = "insert" => \A i \in Tables : at[j] < i => copies[j][i] < runs[j]
      BY <1>1, <1>2 DEF JobFits, Copied
    <3>2. \A i \in Tables : ~(i <= at[j])
      BY <1>2, JobFacts DEF JobsFit
    <3> QED
      BY <1>1, <1>2, <1>6, <3>1, <3>2 DEF JobFits, Copied, Ended
  <2>4. Stored(j)'
    <3>1. \A r \in 1..Deliveries : <<j, r>> \in puts' => r # record[j]
      BY <1>2, <1>3 DEF JobFits, Stored, Self
    <3> QED
      BY <1>1, <1>2, <1>3, <1>6, <3>1 DEF JobFits, Stored, Ended
  <2>5. Loaded(j)'
    BY <1>1, <1>2, <1>6 DEF Loaded, Ended
  <2> QED
    BY <2>1, <2>2, <2>3, <2>4, <2>5 DEF JobFits
<1> QED
  BY <1>5, <1>7, <1>8 DEF JobsFit

\* When the process dies nothing is under way but the clients; an object may be torn
\* that no row is of.
LEMMA DieFits ==
  ASSUME JobsFit, Die
  PROVE  JobsFit'
<1>1. /\ UNCHANGED <<kind, engine, create, torn, owner, rows, todo, tail, copies, record,
                     queue, runs, attempts, stalls>>
      /\ up' = FALSE /\ puts' = {} /\ orphans' = {}
      /\ pc' = [d \in Jobs |-> "idle"] /\ at' = [d \in Jobs |-> 0]
      /\ call' = [w \in Writer |-> IF call[w] \in {"load", "cut"} THEN "cut" ELSE "none"]
  BY DEF Die, params, tally
<1>2. /\ pc' \in [Jobs -> Place] /\ at' \in [Jobs -> 0..Size] /\ up' \in BOOLEAN
      /\ puts' \subseteq Writer /\ orphans' \subseteq Jobs
      /\ call' \in [Writer -> {"none", "ensure", "create", "load", "cut"}] /\ exists' \in BOOLEAN
  <2>1. "idle" \in Place /\ 0 \in 0..Size
    BY Numbers DEF Place
  <2>2. pc' \in [Jobs -> Place] /\ at' \in [Jobs -> 0..Size]
    BY <1>1, <2>1
  <2>3. exists' = exists \/ exists' = TRUE
    BY DEF Die
  <2>4. exists' \in BOOLEAN
    BY <2>3 DEF JobsFit, TypeOK
  <2>5. call' \in [Writer -> {"none", "ensure", "create", "load", "cut"}]
    BY <1>1
  <2> QED
    BY <1>1, <2>2, <2>4, <2>5
<1>3. ASSUME NEW d \in Jobs
      PROVE  /\ pc'[d] = "idle" /\ at'[d] = 0 /\ JobFits(d)
             /\ Queued(d)' /\ Placed(d)' /\ Copied(d)' /\ Loaded(d)'
  <2>1. JobFits(d) /\ pc'[d] = "idle" /\ at'[d] = 0 /\ Self(d)' = Self(d)
    BY <1>1 DEF JobsFit, Self
  <2>2. Queued(d)' /\ Placed(d)' /\ Copied(d)'
    BY <1>1, <2>1 DEF JobFits, Queued, Placed, Copied, Ended
  <2>3. Loaded(d)'
    <3> SUFFICES ASSUME Loads(d), queue[d] = "completed" PROVE call'[Self(d)] = "none" /\ Ends(Self(d))'
      BY <1>1, <2>1 DEF Loaded, Loads, Ended, Self
    <3>1. Self(d) \in Writer /\ call[Self(d)] = "none" /\ Ends(Self(d))
      BY <2>1, SelfWrites DEF JobsFit, JobFits, Loaded, Ended
    <3> QED
      BY <1>1, <2>1, <3>1 DEF Ends, Torn
  <2> QED
    BY <2>1, <2>2, <2>3
<1>4. CASE UNCHANGED object
  <2>1. TypeOK'
    BY <1>1, <1>4, <1>2 DEF JobsFit, TypeOK
  <2>2. ASSUME NEW d \in Jobs PROVE JobFits(d)'
    <3>1. Stored(d)'
      BY <1>1, <1>3, <1>4 DEF JobFits, Stored, Ended, Exports
    <3> QED
      BY <1>3, <3>1 DEF JobFits
  <2> QED
    BY <2>1, <2>2 DEF JobsFit
<1>5. CASE \E p \in puts : object' = [object EXCEPT ![p[1]] = [by |-> p[2], whole |-> FALSE]]
  <2>1. PICK j \in Jobs, r \in 1..Deliveries : /\ <<j, r>> \in puts
                                              /\ object' = [object EXCEPT ![j] = [by |-> r, whole |-> FALSE]]
    <3>1. PICK p \in puts : object' = [object EXCEPT ![p[1]] = [by |-> p[2], whole |-> FALSE]]
      BY <1>5
    <3>2. p \in Jobs \X (1..Deliveries)
      BY DEF JobsFit, TypeOK, Writer
    <3>3. p[1] \in Jobs /\ p[2] \in 1..Deliveries /\ p = <<p[1], p[2]>>
      BY <3>2
    <3> QED
      BY <3>1, <3>3
  <2>2. r \in 0..Deliveries /\ r # 0
    BY Numbers
  <2>3. TypeOK'
    <3>1. object' \in [Jobs -> [by : 0..Deliveries, whole : BOOLEAN]]
      BY <2>1, <2>2 DEF JobsFit, TypeOK
    <3> QED
      BY <1>1, <1>2, <3>1 DEF JobsFit, TypeOK
  <2>4. ASSUME NEW d \in Jobs PROVE JobFits(d)'
    <3>1. object'[d] = IF d = j THEN [by |-> r, whole |-> FALSE] ELSE object[d]
      BY <2>1 DEF JobsFit, TypeOK
    <3>2. Stored(d)'
      BY <1>1, <1>3, <2>1, <2>2, <3>1 DEF JobFits, Stored, Ended, Exports
    <3> QED
      BY <1>3, <3>2 DEF JobFits
  <2> QED
    BY <2>3, <2>4 DEF JobsFit
<1> QED
  BY <1>4, <1>5 DEF Die

\* The other job's and the queue's steps.

LEMMA TakeStep ==
  ASSUME JobsFit, NEW j \in Jobs, Take(j)
  PROVE  JobsFit'
<1>1. /\ UNCHANGED <<kind, engine, create, torn, exists, owner, rows, call, todo, tail, copies, object, record,
                     puts, orphans,
                     attempts, stalls, at, up>>
      /\ up /\ queue[j] = "waiting"
      /\ queue' = [queue EXCEPT ![j] = "active"] /\ runs' = [runs EXCEPT ![j] = @ + 1]
      /\ pc' = [pc EXCEPT ![j] = "start"]
  BY DEF Take, Goto, params, target, export
<1>2. JobFits(j) /\ pc[j] = "idle" /\ at[j] = 0
  BY <1>1 DEF JobsFit, JobFits, Queued, Placed
<1>3. runs[j] \in Nat /\ runs[j] + 1 <= Deliveries /\ runs[j] = attempts[j] + stalls[j]
      /\ record[j] \in Nat /\ attempts[j] \in Nat /\ stalls[j] \in Nat
  BY <1>1, <1>2, JobFacts, Numbers DEF JobsFit, JobFits, Queued
<1>4. /\ queue'[j] = "active" /\ runs'[j] = runs[j] + 1 /\ pc'[j] = "start"
      /\ \A d \in Jobs : d # j => queue'[d] = queue[d] /\ runs'[d] = runs[d] /\ pc'[d] = pc[d]
  BY <1>1 DEF JobsFit, TypeOK
<1>5. TypeOK'
  BY <1>1, <1>3, Numbers DEF JobsFit, TypeOK, Place
<1>6. ASSUME NEW d \in Jobs, d # j PROVE JobFits(d)'
  <2>1. CallsKept(d)
    BY <1>1 DEF CallsKept
  <2> QED
    BY <1>1, <1>4, <1>6, <2>1, Unmoved DEF JobsFit
<1>7. JobFits(j)'
  <2>1. Queued(j)' /\ Placed(j)' /\ Loaded(j)'
    BY <1>1, <1>2, <1>3, <1>4 DEF JobFits, Queued, Placed, Loaded, Ended
  <2>2. Copied(j)'
    <3>1. \A i \in Tables : copies[j][i] \in Nat /\ copies[j][i] <= runs[j]
      BY <1>2, JobFacts DEF JobsFit, JobFits, Copied
    <3>2. \A i \in Tables : copies[j][i] < runs[j] + 1
      BY <1>3, <3>1
    <3> QED
      BY <1>1, <1>2, <1>3, <1>4, <3>1, <3>2 DEF JobFits, Copied, Ended
  <2>3. Stored(j)'
    BY <1>1, <1>2, <1>3, <1>4 DEF JobFits, Stored, Ended
  <2> QED
    BY <2>1, <2>2, <2>3 DEF JobFits
<1> QED
  BY <1>5, <1>6, <1>7 DEF JobsFit

\* The queue charges the end of a delivery; the job goes back or is settled.
LEMMA ChargeFits ==
  ASSUME JobsFit, NEW j \in Jobs, queue[j] = "active",
         NEW q \in {"waiting", "failed"}, queue' = [queue EXCEPT ![j] = q],
         attempts' \in [Jobs -> 0..Attempts], stalls' \in [Jobs -> 0..(MaxStalled + 1)],
         \A d \in Jobs : d # j => attempts'[d] = attempts[d] /\ stalls'[d] = stalls[d],
         attempts'[j] + stalls'[j] = attempts[j] + stalls[j] + 1,
         q = "waiting" => attempts'[j] < Attempts /\ stalls'[j] <= MaxStalled,
         pc' = [pc EXCEPT ![j] = "idle"], at[j] = 0, up' = up,
         UNCHANGED <<params, target, copies, export, orphans, runs, at>>
  PROVE  JobsFit'
<1>1. UNCHANGED <<kind, engine, create, torn, exists, owner, rows, call, todo, tail, copies, object, record,
                     puts, orphans,
                  runs, at, up>>
  BY DEF params, target, export
<1>2. /\ queue'[j] = q /\ pc'[j] = "idle"
      /\ \A d \in Jobs : d # j => queue'[d] = queue[d] /\ pc'[d] = pc[d]
  BY DEF JobsFit, TypeOK
<1>3. TypeOK'
  BY <1>1 DEF JobsFit, TypeOK, Place
<1>4. ASSUME NEW d \in Jobs, d # j PROVE JobFits(d)'
  <2>1. CallsKept(d)
    BY <1>1 DEF CallsKept
  <2> QED
    BY <1>1, <1>2, <1>4, <2>1, Unmoved DEF JobsFit
<1>5. JobFits(j)'
  <2>1. JobFits(j)
    BY DEF JobsFit
  <2>2. Queued(j)' /\ Placed(j)' /\ Loaded(j)'
    BY <1>1, <1>2, <2>1 DEF JobFits, Queued, Placed, Loaded, Ended
  <2>3. Copied(j)' /\ Stored(j)'
    BY <1>1, <1>2, <2>1 DEF JobFits, Copied, Stored, Ended
  <2> QED
    BY <2>2, <2>3 DEF JobFits
<1> QED
  BY <1>3, <1>4, <1>5 DEF JobsFit

LEMMA FailStep ==
  ASSUME JobsFit, NEW j \in Jobs, Fail(j)
  PROVE  JobsFit'
<1>1. JobFits(j) /\ queue[j] = "active" /\ at[j] = 0 /\ attempts[j] < Attempts /\ stalls[j] <= MaxStalled
  BY DEF Fail, JobsFit, JobFits, Queued, Placed
<1>2. attempts[j] \in Nat /\ stalls[j] \in Nat
  BY JobFacts DEF JobsFit
<1>3. /\ attempts' = [attempts EXCEPT ![j] = @ + 1] /\ stalls' = stalls
      /\ queue' = [queue EXCEPT ![j] = IF attempts[j] < Attempts - 1 THEN "waiting" ELSE "failed"]
      /\ pc' = [pc EXCEPT ![j] = "idle"]
      /\ UNCHANGED <<params, target, copies, export, orphans, runs, at>> /\ up' = up
  BY DEF Fail, Rest, Goto
<1>4. /\ attempts' \in [Jobs -> 0..Attempts] /\ attempts'[j] = attempts[j] + 1
      /\ \A d \in Jobs : d # j => attempts'[d] = attempts[d]
  BY <1>1, <1>2, <1>3, Numbers DEF JobsFit, TypeOK
<1> DEFINE q == IF attempts[j] < Attempts - 1 THEN "waiting" ELSE "failed"
<1>5. q \in {"waiting", "failed"} /\ (q = "waiting" => attempts[j] + 1 < Attempts)
  BY <1>2, Numbers
<1>6. stalls' \in [Jobs -> 0..(MaxStalled + 1)]
  BY <1>3 DEF JobsFit, TypeOK
<1>7. queue' = [queue EXCEPT ![j] = q]
  BY <1>3
<1> HIDE DEF q
<1>8. /\ \A d \in Jobs : d # j => attempts'[d] = attempts[d] /\ stalls'[d] = stalls[d]
      /\ attempts'[j] + stalls'[j] = attempts[j] + stalls[j] + 1
      /\ q = "waiting" => attempts'[j] < Attempts /\ stalls'[j] <= MaxStalled
  BY <1>1, <1>2, <1>3, <1>4, <1>5
<1>9. attempts' \in [Jobs -> 0..Attempts] /\ q \in {"waiting", "failed"} /\ pc' = [pc EXCEPT ![j] = "idle"]
      /\ up' = up
      /\ UNCHANGED <<params, target, copies, export, orphans, runs, at>>
  BY <1>3, <1>4, <1>5
<1> QED
  BY <1>1, <1>6, <1>7, <1>8, <1>9, ChargeFits

LEMMA CheckStalledStep ==
  ASSUME JobsFit, NEW j \in Jobs, CheckStalled(j)
  PROVE  JobsFit'
<1>1. JobFits(j) /\ queue[j] = "active" /\ at[j] = 0 /\ attempts[j] < Attempts /\ stalls[j] <= MaxStalled
  BY DEF CheckStalled, JobsFit, JobFits, Queued, Placed
<1>2. attempts[j] \in Nat /\ stalls[j] \in Nat
  BY JobFacts DEF JobsFit
<1>3. /\ stalls' = [stalls EXCEPT ![j] = @ + 1] /\ attempts' = attempts
      /\ queue' = [queue EXCEPT ![j] = IF stalls[j] < MaxStalled THEN "waiting" ELSE "failed"]
      /\ UNCHANGED <<params, target, copies, export, orphans, runs, at>> /\ up' = up
      /\ pc' = pc /\ pc[j] = "idle"
  BY DEF CheckStalled, Rest
<1>4. pc' = [pc EXCEPT ![j] = "idle"]
  BY <1>3 DEF JobsFit, TypeOK
<1>5. /\ stalls' \in [Jobs -> 0..(MaxStalled + 1)] /\ stalls'[j] = stalls[j] + 1
      /\ \A d \in Jobs : d # j => stalls'[d] = stalls[d]
  BY <1>1, <1>2, <1>3, Numbers DEF JobsFit, TypeOK
<1> DEFINE q == IF stalls[j] < MaxStalled THEN "waiting" ELSE "failed"
<1>6. q \in {"waiting", "failed"} /\ (q = "waiting" => stalls[j] + 1 <= MaxStalled)
  BY <1>2, Numbers
<1>7. attempts' \in [Jobs -> 0..Attempts]
  BY <1>3 DEF JobsFit, TypeOK
<1>8. queue' = [queue EXCEPT ![j] = q]
  BY <1>3
<1> HIDE DEF q
<1>9. /\ \A d \in Jobs : d # j => attempts'[d] = attempts[d] /\ stalls'[d] = stalls[d]
      /\ attempts'[j] + stalls'[j] = attempts[j] + stalls[j] + 1
      /\ q = "waiting" => attempts'[j] < Attempts /\ stalls'[j] <= MaxStalled
  BY <1>1, <1>2, <1>3, <1>5, <1>6
<1>10. q \in {"waiting", "failed"} /\ stalls' \in [Jobs -> 0..(MaxStalled + 1)] /\ up' = up
       /\ UNCHANGED <<params, target, copies, export, orphans, runs, at>>
  BY <1>3, <1>5, <1>6
<1> QED
  BY <1>1, <1>4, <1>7, <1>8, <1>9, <1>10, ChargeFits

LEMMA RestartStep ==
  ASSUME JobsFit, Restart
  PROVE  JobsFit'
<1>1. /\ UNCHANGED <<kind, engine, create, torn, exists, owner, rows, call, todo, tail, copies, object, record,
                     puts, orphans,
                     queue, runs, attempts, stalls, pc, at>>
      /\ up' = TRUE
  BY DEF Restart, params, target, export, tally
<1>2. TypeOK'
  BY <1>1 DEF JobsFit, TypeOK
<1>3. ASSUME NEW d \in Jobs PROVE JobFits(d)'
  <2>1. CallsKept(d)
    BY <1>1 DEF CallsKept
  <2> QED
    BY <1>1, <2>1, Unmoved DEF JobsFit
<1> QED
  BY <1>2, <1>3 DEF JobsFit

\* A delivery that has done all it must is completed, or fails after all.
LEMMA FinishStep ==
  ASSUME JobsFit, NEW j \in Jobs, Finish(j)
  PROVE  JobsFit'
<1>1. /\ UNCHANGED <<kind, engine, create, torn, exists, owner, rows, call, todo, tail, copies, object, record,
                     puts, orphans,
                     runs, attempts, stalls, at, up>>
      /\ pc[j] = "finish"
      /\ \/ queue' = [queue EXCEPT ![j] = "completed"] /\ pc' = [pc EXCEPT ![j] = "idle"]
         \/ queue' = queue /\ pc' = [pc EXCEPT ![j] = "fail"]
  BY DEF Finish, Goto, params, target, export
<1>2. /\ \/ queue'[j] = "completed" /\ pc'[j] = "idle"
         \/ queue'[j] = queue[j] /\ pc'[j] = "fail"
      /\ \A d \in Jobs : d # j => queue'[d] = queue[d] /\ pc'[d] = pc[d]
  <2>1. CASE queue' = [queue EXCEPT ![j] = "completed"] /\ pc' = [pc EXCEPT ![j] = "idle"]
    BY <2>1 DEF JobsFit, TypeOK
  <2>2. CASE queue' = queue /\ pc' = [pc EXCEPT ![j] = "fail"]
    BY <2>2 DEF JobsFit, TypeOK
  <2> QED
    BY <1>1, <2>1, <2>2
<1>3. TypeOK'
  BY <1>1 DEF JobsFit, TypeOK, Place
<1>4. ASSUME NEW d \in Jobs, d # j PROVE JobFits(d)'
  <2>1. CallsKept(d)
    BY <1>1 DEF CallsKept
  <2> QED
    BY <1>1, <1>2, <1>4, <2>1, Unmoved DEF JobsFit
<1>5. JobFits(j)'
  <2>1. JobFits(j) /\ queue[j] = "active" /\ at[j] = 0
    BY <1>1 DEF JobsFit, JobFits, Queued, Placed
  <2>2. Queued(j)' /\ Placed(j)'
    <3>1. runs[j] # 0
      BY <2>1, JobFacts DEF JobsFit, JobFits, Queued
    <3> QED
      BY <1>1, <1>2, <2>1, <3>1 DEF JobFits, Queued, Placed
  <2>3. Copied(j)'
    BY <1>1, <1>2, <2>1 DEF JobFits, Copied, Ended
  <2>4. Stored(j)'
    BY <1>1, <1>2, <2>1 DEF JobFits, Stored, Ended, Exports
  <2>5. Loaded(j)'
    BY <1>1, <1>2, <2>1 DEF JobFits, Loaded, Ended, Loads, Ends, Torn, Self
  <2> QED
    BY <2>2, <2>3, <2>4, <2>5 DEF JobFits
<1> QED
  BY <1>3, <1>4, <1>5 DEF JobsFit

----------------------------------------------------------------------------
\* Restore and clone.

\* What touches calls only, and none that ended, leaves the jobs as they are.
LEMMA CallStep ==
  ASSUME JobsFit, NEW w \in Writer, call[w] # "none", TargetTyped',
         \A v \in Writer : v # w => call'[v] = call[v] /\ todo'[v] = todo[v],
         UNCHANGED <<params, tally, pc, at, up>>, Quiet
  PROVE  JobsFit'
<1>1. UNCHANGED <<kind, engine, create, torn, copies, object, record, puts, orphans,
                  queue, runs, attempts, stalls, pc, at, up>>
  BY DEF Quiet, params, tally, export
<1>2. TypeOK'
  BY <1>1 DEF JobsFit, TypeOK, TargetTyped
<1>3. ASSUME NEW d \in Jobs PROVE JobFits(d)'
  <2>1. CallsKept(d)
    BY DEF CallsKept, Writer
  <2> QED
    BY <1>1, <2>1, Unmoved DEF JobsFit
<1> QED
  BY <1>2, <1>3 DEF JobsFit

\* The statement that follows another.
LEMMA AfterFacts ==
  ASSUME TypeOK, NEW s \in Statement, s.table <= Size
  PROVE  /\ After(s) \in Statement
         /\ s.op = "drop" => After(s) = [op |-> "create", table |-> s.table]
         /\ s.op = "create" /\ engine = "mysql" => After(s) = [op |-> "fill", table |-> s.table]
         /\ s.op = "create" /\ engine = "postgres" =>
              After(s) = IF s.table < Size THEN [op |-> "create", table |-> s.table + 1]
                                           ELSE [op |-> "fill", table |-> 1]
         /\ s.op = "fill" => After(s) = [op |-> IF engine = "mysql" THEN "drop" ELSE "fill",
                                         table |-> s.table + 1]
<1>1. s.op \in {"drop", "create", "fill"} /\ s.table \in Nat /\ s.table >= 1
      /\ s = [op |-> s.op, table |-> s.table]
  BY Numbers DEF Statement
<1>2. CASE s.op = "drop"
  <2>1. After(s) = [op |-> "create", table |-> s.table]
    BY <1>1, <1>2 DEF After
  <2> QED
    BY <1>1, <1>2, <2>1, Numbers DEF Statement
<1>3. CASE s.op = "create" /\ engine = "mysql"
  <2>1. After(s) = [op |-> "fill", table |-> s.table]
    BY <1>1, <1>3 DEF After
  <2> QED
    BY <1>1, <1>3, <2>1, Numbers DEF Statement
<1>4. CASE s.op = "create" /\ engine = "postgres"
  <2>1. After(s) = IF s.table < Size THEN [op |-> "create", table |-> s.table + 1]
                                     ELSE [op |-> "fill", table |-> 1]
    BY <1>1, <1>4 DEF After
  <2>2. After(s) \in Statement
    BY <1>1, <2>1, Numbers DEF Statement
  <2> QED
    BY <1>4, <2>1, <2>2
<1>5. CASE s.op = "fill"
  <2>1. After(s) = [op |-> IF engine = "mysql" THEN "drop" ELSE "fill", table |-> s.table + 1]
    BY <1>1, <1>5 DEF After
  <2>2. After(s) \in Statement
    BY <1>1, <2>1, Numbers DEF Statement
  <2> QED
    BY <1>5, <2>1, <2>2
<1> QED
  BY <1>1, <1>2, <1>3, <1>4, <1>5 DEF TypeOK, Engine

\* What a statement does, table by table.
LEMMA ExecuteFacts ==
  ASSUME TypeOK, NEW w \in Writer, Execute(w)
  PROVE  /\ todo[w].table \in Tables /\ todo[w] \in Statement /\ todo[w].table <= Size
         /\ \A v \in Writer : todo'[v] = IF v = w THEN After(todo[w]) ELSE todo[v]
         /\ todo[w].op = "drop" => \A i \in Tables :
              /\ owner'[i] = IF i = todo[w].table THEN NoOne ELSE owner[i]
              /\ rows'[i] = IF i = todo[w].table THEN {} ELSE rows[i]
         /\ todo[w].op = "create" =>
              /\ owner[todo[w].table] = NoOne /\ rows' = rows
              /\ \A i \in Tables : owner'[i] = IF i = todo[w].table THEN w ELSE owner[i]
         /\ todo[w].op = "fill" =>
              /\ owner[todo[w].table] # NoOne /\ owner' = owner
              /\ \A i \in Tables : rows'[i] = IF i = todo[w].table THEN rows[i] \cup {w} ELSE rows[i]
         /\ tail' = IF engine = "mysql" /\ (todo[w] = First \/ tail = w) THEN w ELSE NoOne
         /\ TargetTyped'
<1>1. /\ ~Ends(w) /\ Effect(w, todo[w]) /\ UNCHANGED <<exists, call>>
      /\ todo' = [todo EXCEPT ![w] = After(todo[w])]
      /\ tail' = IF engine = "mysql" /\ (todo[w] = First \/ tail = w) THEN w ELSE NoOne
  BY DEF Execute, Advance
<1>2. todo[w] \in Statement /\ todo[w].op \in {"drop", "create", "fill"} /\ todo[w].table \in 1..(Size + 1)
  BY DEF TypeOK, Statement
<1>3. todo[w].table \in Tables /\ todo[w].table <= Size
  BY <1>1, <1>2, Numbers DEF Ends, Tables
<1>4. \A v \in Writer : todo'[v] = IF v = w THEN After(todo[w]) ELSE todo[v]
  BY <1>1 DEF TypeOK
<1>5. todo' \in [Writer -> Statement] /\ tail' \in Writer \cup {NoOne}
  BY <1>1, <1>2, <1>3, AfterFacts DEF TypeOK
<1>6. CASE todo[w].op = "drop"
  <2>1. /\ owner' = [owner EXCEPT ![todo[w].table] = NoOne]
        /\ rows' = [rows EXCEPT ![todo[w].table] = {}]
    BY <1>1, <1>6 DEF Effect
  <2> QED
    BY <1>1, <1>2, <1>3, <1>4, <1>5, <1>6, <2>1 DEF TypeOK, TargetTyped
<1>7. CASE todo[w].op = "create"
  <2>1. /\ owner[todo[w].table] = NoOne /\ rows' = rows
        /\ owner' = [owner EXCEPT ![todo[w].table] = w]
    BY <1>1, <1>7 DEF Effect
  <2> QED
    BY <1>1, <1>2, <1>3, <1>4, <1>5, <1>7, <2>1 DEF TypeOK, TargetTyped
<1>8. CASE todo[w].op = "fill"
  <2>1. /\ owner[todo[w].table] # NoOne /\ owner' = owner
        /\ rows' = [rows EXCEPT ![todo[w].table] = @ \cup {w}]
    BY <1>1, <1>8 DEF Effect
  <2> QED
    BY <1>1, <1>2, <1>3, <1>4, <1>5, <1>8, <2>1 DEF TypeOK, TargetTyped
<1> QED
  BY <1>2, <1>6, <1>7, <1>8

\* A call that ends, well or not.
LEMMA ForgetFacts ==
  ASSUME TypeOK, NEW w \in Writer, Forget(w), call' = [call EXCEPT ![w] = "none"],
         exists' \in BOOLEAN, UNCHANGED <<owner, rows>>
  PROVE  /\ TargetTyped'
         /\ \A v \in Writer : v # w => call'[v] = call[v] /\ todo'[v] = todo[v]
BY FirstFacts DEF TypeOK, Forget, TargetTyped

\* The delivery that awaits the call finishes, with the client at its end.
LEMMA CallEndsStep ==
  ASSUME JobsFit, NEW w \in Writer, CallEnds(w)
  PROVE  JobsFit'
<1>1. /\ call[w] = "load" /\ Ends(w) /\ call' = [call EXCEPT ![w] = "none"]
      /\ UNCHANGED <<params, exists, owner, rows, tally, at, up>> /\ Quiet
  BY DEF CallEnds
<1>2. CASE ~Awaited(w)
  <2>1. Forget(w) /\ pc' = pc
    BY <1>2 DEF CallEnds
  <2>2. exists' \in BOOLEAN
    BY <1>1 DEF JobsFit, TypeOK
  <2> QED
    BY <1>1, <2>1, <2>2, ForgetFacts, CallStep DEF JobsFit
<1>3. CASE Awaited(w)
  <2>1. PICK j \in Jobs : j = w[1] /\ pc[j] = "restore" /\ Self(j) = w
    BY <1>3 DEF Awaited, Writer
  <2>2. /\ UNCHANGED <<kind, engine, create, torn, exists, owner, rows, todo, tail, copies, object, record,
                       puts, orphans, queue, runs, attempts, stalls, at, up>>
        /\ pc' = [pc EXCEPT ![j] = "finish"]
    BY <1>1, <1>3, <2>1 DEF CallEnds, Goto, Quiet, params, tally, export
  <2>3. /\ pc'[j] = "finish" /\ \A d \in Jobs : d # j => pc'[d] = pc[d]
        /\ call'[w] = "none" /\ \A v \in Writer : v # w => call'[v] = call[v]
    BY <1>1, <2>2 DEF JobsFit, TypeOK
  <2>4. TypeOK'
    BY <1>1, <2>2 DEF JobsFit, TypeOK, Place
  <2>5. ASSUME NEW d \in Jobs, d # j PROVE JobFits(d)'
    <3>1. CallsKept(d)
      BY <2>1, <2>2, <2>3 DEF CallsKept, Writer
    <3> QED
      BY <2>2, <2>3, <2>5, <3>1, Unmoved DEF JobsFit
  <2>6. JobFits(j)'
    <3>1. JobFits(j) /\ queue[j] = "active" /\ at[j] = 0 /\ Loads(j)
      BY <2>1 DEF JobsFit, JobFits, Queued, Placed
    <3>2. Queued(j)' /\ Placed(j)'
      BY <2>1, <2>2, <2>3, <3>1 DEF JobFits, Queued, Placed
    <3>3. Copied(j)' /\ Stored(j)'
      BY <2>1, <2>2, <2>3, <3>1 DEF JobFits, Copied, Stored, Ended, Loads, Exports
    <3>4. Loaded(j)'
      BY <1>1, <2>1, <2>2, <2>3 DEF Loaded, Self, Ends, Torn
    <3> QED
      BY <3>2, <3>3, <3>4 DEF JobFits
  <2> QED
    BY <2>4, <2>5, <2>6 DEF JobsFit
<1> QED
  BY <1>2, <1>3

LEMMA CallRejectsStep ==
  ASSUME JobsFit, NEW w \in Writer, CallRejects(w)
  PROVE  JobsFit'
<1>1. /\ call[w] # "none" /\ call' = [call EXCEPT ![w] = "none"] /\ Forget(w)
      /\ UNCHANGED <<owner, rows>> /\ Quiet
  BY DEF CallRejects
<1>2. exists' \in BOOLEAN
  BY DEF CallRejects, JobsFit, TypeOK
<1>3. /\ TargetTyped'
      /\ \A v \in Writer : v # w => call'[v] = call[v] /\ todo'[v] = todo[v]
  BY <1>1, <1>2, ForgetFacts DEF JobsFit
<1>4. CASE ~Awaited(w)
  <2>1. UNCHANGED <<params, tally, pc, at, up>>
    BY <1>4 DEF CallRejects
  <2> QED
    BY <1>1, <1>3, <2>1, CallStep
<1>5. CASE Awaited(w)
  <2>1. w[1] \in Jobs /\ pc[w[1]] # "idle" /\ GiveUp(w[1])
    BY <1>5 DEF Awaited, CallRejects, Writer
  <2>2. \A d \in Jobs : CallsKept(d)
    BY <1>1, <1>3 DEF CallsKept, Writer
  <2>3. orphans' \subseteq Jobs /\ puts' \subseteq puts /\ UNCHANGED <<copies, object, record>>
    BY <1>1 DEF Quiet, export, JobsFit, TypeOK
  <2> QED
    BY <1>3, <2>1, <2>2, <2>3, GiveUpFits
<1> QED
  BY <1>4, <1>5

LEMMA RestoreStep ==
  ASSUME JobsFit, NEW w \in Writer, Restore(w)
  PROVE  JobsFit'
<1>1. CASE EnsureDatabase(w)
  <2>1. PICK to \in {"load", "create"} : Calling(w, "ensure", to)
    BY <1>1 DEF EnsureDatabase
  <2>2. UNCHANGED <<exists, owner, rows, todo, tail>>
    BY <1>1 DEF EnsureDatabase
  <2>3. TargetTyped' /\ \A v \in Writer : v # w => call'[v] = call[v] /\ todo'[v] = todo[v]
    BY <2>1, <2>2 DEF Calling, JobsFit, TypeOK, TargetTyped
  <2> QED
    BY <2>1, <2>3, CallStep DEF Calling
<1>2. CASE CreateDatabase(w)
  <2>1. TargetTyped' /\ \A v \in Writer : v # w => call'[v] = call[v] /\ todo'[v] = todo[v]
    BY <1>2 DEF CreateDatabase, Calling, JobsFit, TypeOK, TargetTyped
  <2> QED
    BY <1>2, <2>1, CallStep DEF CreateDatabase, Calling
<1>3. CASE Execute(w)
  <2>1. call[w] # "none" /\ call' = call /\ UNCHANGED <<params, tally, pc, at, up>> /\ Quiet
    BY <1>3 DEF Execute, Advance
  <2>2. TargetTyped' /\ \A v \in Writer : v # w => todo'[v] = todo[v]
    BY <1>3, ExecuteFacts DEF JobsFit
  <2> QED
    BY <2>1, <2>2, CallStep
<1>4. CASE CallEnds(w) \/ CallRejects(w)
  BY <1>4, CallEndsStep, CallRejectsStep
<1>5. CASE PipeBreaks(w)
  BY <1>5, DieFits DEF PipeBreaks
<1> QED
  BY <1>1, <1>2, <1>3, <1>4, <1>5 DEF Restore

----------------------------------------------------------------------------
\* Import.

LEMMA InsertedFacts ==
  ASSUME JobsFit, NEW j \in Jobs, pc[j] = "insert", at[j] < Size, Inserted(j)
  PROVE  /\ copies' \in [Jobs -> [Tables -> 0..Deliveries]]
         /\ \A d \in Jobs : d # j => copies'[d] = copies[d]
         /\ \A i \in Tables : copies'[j][i] = IF i = at[j] + 1 THEN copies[j][i] + 1 ELSE copies[j][i]
         /\ \A i, k \in Tables : i <= k => copies'[j][k] <= copies'[j][i]
         /\ \A i \in Tables : copies'[j][i] <= runs[j]
<1> DEFINE i0 == at[j] + 1
<1>1. i0 \in Tables /\ at[j] \in Nat /\ runs[j] \in Nat /\ runs[j] <= Deliveries
  BY JobFacts, Numbers DEF JobsFit, Tables
<1>2. \A i \in Tables : i \in Nat /\ copies[j][i] \in Nat
  BY JobFacts DEF JobsFit
<1>3. Copied(j)
  BY DEF JobsFit, JobFits
<1>4. copies' = [copies EXCEPT ![j] = [copies[j] EXCEPT ![i0] = copies[j][i0] + 1]]
  BY DEF Inserted
<1>5. /\ \A d \in Jobs : d # j => copies'[d] = copies[d]
      /\ \A i \in Tables : copies'[j][i] = IF i = i0 THEN copies[j][i] + 1 ELSE copies[j][i]
  BY <1>1, <1>4 DEF JobsFit, TypeOK
<1>6. copies[j][i0] < runs[j]
  BY <1>1, <1>3 DEF Copied
<1>7. \A i \in Tables : copies'[j][i] <= runs[j]
  BY <1>1, <1>2, <1>3, <1>5, <1>6 DEF Copied
<1>8. copies' \in [Jobs -> [Tables -> 0..Deliveries]]
  <2>1. copies[j][i0] + 1 \in 0..Deliveries
    BY <1>1, <1>2, <1>6, Numbers
  <2> QED
    BY <1>1, <1>4, <2>1 DEF JobsFit, TypeOK
<1>9. ASSUME NEW i \in Tables, NEW k \in Tables, i <= k PROVE copies'[j][k] <= copies'[j][i]
  <2>1. copies[j][k] <= copies[j][i]
    BY <1>3, <1>9 DEF Copied
  <2>2. i <= at[j] => \A m \in Tables : at[j] < m => copies[j][m] < copies[j][i]
    BY <1>3 DEF Copied
  <2>3. k = i0 /\ i # k => i <= at[j] /\ at[j] < k
    BY <1>1, <1>2, <1>9
  <2> QED
    BY <1>1, <1>2, <1>5, <2>1, <2>2, <2>3
<1> QED
  BY <1>5, <1>7, <1>8, <1>9

LEMMA InsertStep ==
  ASSUME JobsFit, NEW j \in Jobs, Insert(j)
  PROVE  JobsFit'
<1>1. /\ UNCHANGED <<kind, engine, create, torn, exists, owner, rows, call, todo, tail, object, record, puts, orphans,
                     queue, runs, attempts, stalls, pc, up>>
      /\ pc[j] = "insert" /\ at[j] < Size /\ Inserted(j) /\ at' = [at EXCEPT ![j] = @ + 1]
  BY DEF Insert, params, target, export, tally
<1>2. /\ copies' \in [Jobs -> [Tables -> 0..Deliveries]]
      /\ \A d \in Jobs : d # j => copies'[d] = copies[d]
      /\ \A i \in Tables : copies'[j][i] = IF i = at[j] + 1 THEN copies[j][i] + 1 ELSE copies[j][i]
      /\ \A i, k \in Tables : i <= k => copies'[j][k] <= copies'[j][i]
      /\ \A i \in Tables : copies'[j][i] <= runs[j]
  BY <1>1, InsertedFacts
<1>3. JobFits(j) /\ queue[j] = "active" /\ at[j] \in Nat /\ at[j] + 1 \in Tables /\ at[j] + 1 \in 0..Size
  BY <1>1, JobFacts, Numbers DEF JobsFit, JobFits, Queued, Tables
<1>4. at'[j] = at[j] + 1 /\ \A d \in Jobs : d # j => at'[d] = at[d]
  BY <1>1 DEF JobsFit, TypeOK
<1>5. TypeOK'
  BY <1>1, <1>2, <1>3 DEF JobsFit, TypeOK
<1>6. ASSUME NEW d \in Jobs, d # j PROVE JobFits(d)'
  <2>1. CallsKept(d)
    BY <1>1 DEF CallsKept
  <2> QED
    BY <1>1, <1>2, <1>4, <1>6, <2>1, Unmoved DEF JobsFit
<1>7. JobFits(j)'
  <2>1. Queued(j)' /\ Placed(j)' /\ Loaded(j)'
    BY <1>1, <1>3 DEF JobFits, Queued, Placed, Loaded, Ended, Loads, Exports
  <2>2. Stored(j)'
    BY <1>1, <1>3 DEF JobFits, Stored, Ended, Exports, Self
  <2>3. Copied(j)'
    <3>1. \A i \in Tables : i \in Nat /\ copies[j][i] \in Nat
      BY JobFacts DEF JobsFit
    <3>2. \A i \in Tables : at'[j] < i => copies'[j][i] < runs[j]
      BY <1>1, <1>2, <1>3, <1>4, <3>1 DEF JobFits, Copied
    <3>3. ASSUME NEW i \in Tables, i <= at'[j]
          PROVE  copies'[j][i] >= 1 /\ \A k \in Tables : at'[j] < k => copies'[j][k] < copies'[j][i]
      <4>1. CASE i = at[j] + 1
        <5>1. \A k \in Tables : at'[j] < k => copies[j][k] <= copies[j][i]
          BY <1>3, <1>4, <3>1, <4>1 DEF JobFits, Copied
        <5> QED
          BY <1>2, <1>3, <1>4, <3>1, <4>1, <5>1
      <4>2. CASE i # at[j] + 1
        <5>1. i <= at[j]
          BY <1>3, <1>4, <3>1, <3>3, <4>2
        <5>2. copies[j][i] >= 1 /\ \A k \in Tables : at[j] < k => copies[j][k] < copies[j][i]
          BY <1>1, <1>3, <5>1 DEF JobFits, Copied
        <5> QED
          BY <1>2, <1>3, <1>4, <3>1, <4>2, <5>2
      <4> QED
        BY <4>1, <4>2
    <3> QED
      BY <1>1, <1>2, <1>3, <3>2, <3>3 DEF Copied, Ended
  <2> QED
    BY <2>1, <2>2, <2>3 DEF JobFits
<1> QED
  BY <1>5, <1>6, <1>7 DEF JobsFit

LEMMA InsertUnansweredStep ==
  ASSUME JobsFit, NEW j \in Jobs, InsertUnanswered(j)
  PROVE  JobsFit'
<1>1. /\ UNCHANGED <<kind, engine, create, torn, exists, owner, rows, call, todo, tail, object, record, puts, orphans,
                     queue, runs, attempts, stalls, up>>
      /\ pc[j] = "insert" /\ at[j] < Size /\ Inserted(j)
      /\ pc' = [pc EXCEPT ![j] = "fail"] /\ at' = [at EXCEPT ![j] = 0]
  BY DEF InsertUnanswered, GiveUp, Goto, params, target, export, tally
<1>2. /\ copies' \in [Jobs -> [Tables -> 0..Deliveries]]
      /\ \A d \in Jobs : d # j => copies'[d] = copies[d]
      /\ \A i, k \in Tables : i <= k => copies'[j][k] <= copies'[j][i]
      /\ \A i \in Tables : copies'[j][i] <= runs[j]
  BY <1>1, InsertedFacts
<1>3. /\ pc'[j] = "fail" /\ at'[j] = 0
      /\ \A d \in Jobs : d # j => pc'[d] = pc[d] /\ at'[d] = at[d]
  BY <1>1 DEF JobsFit, TypeOK
<1>4. TypeOK'
  <2>1. pc' \in [Jobs -> Place] /\ at' \in [Jobs -> 0..Size]
    BY <1>1, Numbers DEF JobsFit, TypeOK, Place
  <2> QED
    BY <1>1, <1>2, <2>1 DEF JobsFit, TypeOK
<1>5. ASSUME NEW d \in Jobs, d # j PROVE JobFits(d)'
  <2>1. CallsKept(d)
    BY <1>1 DEF CallsKept
  <2> QED
    BY <1>1, <1>2, <1>3, <1>5, <2>1, Unmoved DEF JobsFit
<1>6. JobFits(j)'
  <2>1. JobFits(j) /\ queue[j] = "active"
    BY <1>1 DEF JobsFit, JobFits, Queued
  <2>2. Queued(j)' /\ Placed(j)' /\ Loaded(j)'
    BY <1>1, <1>3, <2>1 DEF JobFits, Queued, Placed, Loaded, Ended
  <2>3. Copied(j)' /\ Stored(j)'
    BY <1>1, <1>2, <1>3, <2>1 DEF JobFits, Copied, Stored, Ended
  <2> QED
    BY <2>2, <2>3 DEF JobFits
<1> QED
  BY <1>4, <1>5, <1>6 DEF JobsFit

LEMMA InsertsEndStep ==
  ASSUME JobsFit, NEW j \in Jobs, InsertsEnd(j)
  PROVE  JobsFit'
<1>1. /\ UNCHANGED <<kind, engine, create, torn, exists, owner, rows, call, todo, tail, copies, object, record,
                     puts, orphans,
                     queue, runs, attempts, stalls, up>>
      /\ pc[j] = "insert" /\ at[j] = Size
      /\ pc' = [pc EXCEPT ![j] = "finish"] /\ at' = [at EXCEPT ![j] = 0]
  BY DEF InsertsEnd, Step, Goto, params, target, export, tally
<1>2. JobFits(j) /\ queue[j] = "active" /\ kind[j] = "import"
  BY <1>1 DEF JobsFit, JobFits, Queued, Placed
<1>3. /\ pc'[j] = "finish" /\ at'[j] = 0
      /\ \A d \in Jobs : d # j => pc'[d] = pc[d] /\ at'[d] = at[d]
  BY <1>1 DEF JobsFit, TypeOK
<1>4. TypeOK'
  BY <1>1, Numbers DEF JobsFit, TypeOK, Place
<1>5. ASSUME NEW d \in Jobs, d # j PROVE JobFits(d)'
  <2>1. CallsKept(d)
    BY <1>1 DEF CallsKept
  <2> QED
    BY <1>1, <1>3, <1>5, <2>1, Unmoved DEF JobsFit
<1>6. JobFits(j)'
  <2>1. Queued(j)' /\ Placed(j)' /\ Loaded(j)'
    BY <1>1, <1>2, <1>3 DEF JobFits, Queued, Placed, Loaded, Ended, Loads
  <2>2. Copied(j)'
    <3>1. \A i \in Tables : i <= at[j]
      BY <1>1, JobFacts DEF JobsFit
    <3>2. \A i \in Tables : copies[j][i] >= 1
      BY <1>1, <1>2, <3>1 DEF JobFits, Copied
    <3> QED
      BY <1>1, <1>2, <1>3, <3>2 DEF JobFits, Copied, Ended
  <2>3. Stored(j)'
    BY <1>1, <1>2, <1>3 DEF JobFits, Stored, Ended, Exports
  <2> QED
    BY <2>1, <2>2, <2>3 DEF JobFits
<1> QED
  BY <1>4, <1>5, <1>6 DEF JobsFit

----------------------------------------------------------------------------
\* Export.

LEMMA ProduceStep ==
  ASSUME JobsFit, NEW j \in Jobs, Produce(j)
  PROVE  JobsFit'
<1>1. /\ UNCHANGED <<kind, engine, create, torn, exists, owner, rows, call, todo, tail, copies, object, record,
                     puts, orphans,
                     queue, runs, attempts, stalls, pc, up>>
      /\ pc[j] = "produce" /\ at[j] < Size /\ at' = [at EXCEPT ![j] = @ + 1]
  BY DEF Produce, params, target, export, tally
<1>2. JobFits(j) /\ queue[j] = "active" /\ at[j] + 1 \in 0..Size
  BY <1>1, JobFacts, Numbers DEF JobsFit, JobFits, Queued
<1>3. \A d \in Jobs : d # j => at'[d] = at[d]
  BY <1>1 DEF JobsFit, TypeOK
<1>4. TypeOK'
  BY <1>1, <1>2 DEF JobsFit, TypeOK
<1>5. ASSUME NEW d \in Jobs, d # j PROVE JobFits(d)'
  <2>1. CallsKept(d)
    BY <1>1 DEF CallsKept
  <2> QED
    BY <1>1, <1>3, <1>5, <2>1, Unmoved DEF JobsFit
<1>6. JobFits(j)'
  <2>1. Queued(j)' /\ Placed(j)' /\ Loaded(j)'
    BY <1>1, <1>2 DEF JobFits, Queued, Placed, Loaded, Ended, Exports
  <2>2. Copied(j)' /\ Stored(j)'
    BY <1>1, <1>2 DEF JobFits, Copied, Stored, Ended, Exports
  <2> QED
    BY <2>1, <2>2 DEF JobFits
<1> QED
  BY <1>4, <1>5, <1>6 DEF JobsFit

LEMMA ProduceEndsStep ==
  ASSUME JobsFit, NEW j \in Jobs, ProduceEnds(j)
  PROVE  JobsFit'
<1>1. /\ UNCHANGED <<kind, engine, create, torn, exists, owner, rows, call, todo, tail, copies, object, record,
                     puts, orphans,
                     queue, runs, attempts, stalls, up>>
      /\ pc[j] = "produce" /\ pc' = [pc EXCEPT ![j] = "await"] /\ at' = [at EXCEPT ![j] = 0]
  BY DEF ProduceEnds, Step, Goto, params, target, export, tally
<1>2. JobFits(j) /\ queue[j] = "active" /\ Exports(j)
  BY <1>1 DEF JobsFit, JobFits, Queued, Placed
<1>3. /\ pc'[j] = "await" /\ at'[j] = 0
      /\ \A d \in Jobs : d # j => pc'[d] = pc[d] /\ at'[d] = at[d]
  BY <1>1 DEF JobsFit, TypeOK
<1>4. TypeOK'
  BY <1>1, Numbers DEF JobsFit, TypeOK, Place
<1>5. ASSUME NEW d \in Jobs, d # j PROVE JobFits(d)'
  <2>1. CallsKept(d)
    BY <1>1 DEF CallsKept
  <2> QED
    BY <1>1, <1>3, <1>5, <2>1, Unmoved DEF JobsFit
<1>6. JobFits(j)'
  <2>1. Queued(j)' /\ Placed(j)' /\ Loaded(j)'
    BY <1>1, <1>2, <1>3 DEF JobFits, Queued, Placed, Loaded, Ended, Exports
  <2>2. Copied(j)' /\ Stored(j)'
    BY <1>1, <1>2, <1>3 DEF JobFits, Copied, Stored, Ended, Exports
  <2> QED
    BY <2>1, <2>2 DEF JobFits
<1> QED
  BY <1>4, <1>5, <1>6 DEF JobsFit

\* The object is whole, and its upload no longer there to tear it.
LEMMA PutStoredStep ==
  ASSUME JobsFit, NEW j \in Jobs, PutStored(j)
  PROVE  JobsFit'
<1>1. /\ UNCHANGED <<kind, engine, create, torn, exists, owner, rows, call, todo, tail, copies, record, orphans,
                     queue, runs, attempts, stalls, at, up>>
      /\ pc[j] = "await" /\ pc' = [pc EXCEPT ![j] = "record"]
      /\ puts' = puts \ {Self(j)} /\ object' = [object EXCEPT ![j] = [by |-> runs[j], whole |-> TRUE]]
  BY DEF PutStored, Step, Goto, params, target, tally
<1>2. JobFits(j) /\ queue[j] = "active" /\ Exports(j) /\ at[j] = 0 /\ record[j] < runs[j]
  BY <1>1 DEF JobsFit, JobFits, Queued, Placed, Stored
<1>3. runs[j] \in 0..Deliveries /\ runs[j] # 0 /\ record[j] \in Nat
  BY <1>2, JobFacts, Numbers DEF JobsFit
<1>4. /\ pc'[j] = "record" /\ object'[j] = [by |-> runs[j], whole |-> TRUE]
      /\ \A d \in Jobs : d # j => pc'[d] = pc[d] /\ object'[d] = object[d]
  BY <1>1 DEF JobsFit, TypeOK
<1>5. TypeOK'
  <2>1. pc' \in [Jobs -> Place] /\ puts' \subseteq Writer
    BY <1>1 DEF JobsFit, TypeOK, Place
  <2>2. object' \in [Jobs -> [by : 0..Deliveries, whole : BOOLEAN]]
    BY <1>1, <1>3 DEF JobsFit, TypeOK
  <2> QED
    BY <1>1, <2>1, <2>2 DEF JobsFit, TypeOK
<1>6. ASSUME NEW d \in Jobs, d # j PROVE JobFits(d)'
  <2>1. CallsKept(d)
    BY <1>1 DEF CallsKept
  <2> QED
    BY <1>1, <1>4, <1>6, <2>1, Unmoved DEF JobsFit
<1>7. JobFits(j)'
  <2>1. Queued(j)' /\ Placed(j)' /\ Loaded(j)'
    BY <1>1, <1>2, <1>4 DEF JobFits, Queued, Placed, Loaded, Ended, Exports
  <2>2. Copied(j)'
    BY <1>1, <1>2, <1>4 DEF JobFits, Copied, Ended
  <2>3. Stored(j)'
    <3>1. Self(j)' = Self(j) /\ Self(j) \notin puts'
      BY <1>1 DEF Self
    <3>2. record[j] # runs[j]
      BY <1>2, <1>3
    <3> QED
      BY <1>1, <1>2, <1>3, <1>4, <3>1, <3>2 DEF JobFits, Stored, Ended
  <2> QED
    BY <2>1, <2>2, <2>3 DEF JobFits
<1> QED
  BY <1>5, <1>6, <1>7 DEF JobsFit

\* An upload that ends late is not of the delivery that was recorded.
LEMMA LatePutStep ==
  ASSUME JobsFit, NEW p \in puts, LatePut(p)
  PROVE  JobsFit'
<1>1. p \in Jobs \X (1..Deliveries)
  BY DEF JobsFit, TypeOK, Writer
<1>2. p[1] \in Jobs /\ p[2] \in 1..Deliveries /\ p = <<p[1], p[2]>>
  BY <1>1
<1>3. PICK j \in Jobs, r \in 1..Deliveries : p = <<j, r>> /\ p[1] = j /\ p[2] = r
  BY <1>2
<1>4. /\ UNCHANGED <<kind, engine, create, torn, exists, owner, rows, call, todo, tail, copies, record, orphans,
                     queue, runs, attempts, stalls, pc, at, up>>
      /\ puts' = puts \ {<<j, r>>} /\ <<j, r>> \in puts
      /\ object' = [object EXCEPT ![j] = [by |-> r, whole |-> FALSE]]
  BY <1>3 DEF LatePut, params, target, tally
<1>5. /\ object'[j] = [by |-> r, whole |-> FALSE] /\ r # 0 /\ r \in 0..Deliveries
      /\ \A d \in Jobs : d # j => object'[d] = object[d]
  BY <1>4, Numbers DEF JobsFit, TypeOK
<1>6. TypeOK'
  <2>1. puts' \subseteq Writer /\ object' \in [Jobs -> [by : 0..Deliveries, whole : BOOLEAN]]
    BY <1>4, <1>5 DEF JobsFit, TypeOK
  <2> QED
    BY <1>4, <2>1 DEF JobsFit, TypeOK
<1>7. ASSUME NEW d \in Jobs, d # j PROVE JobFits(d)'
  <2>1. CallsKept(d)
    BY <1>4 DEF CallsKept
  <2> QED
    BY <1>4, <1>5, <1>7, <2>1, Unmoved DEF JobsFit
<1>8. JobFits(j)'
  <2>1. JobFits(j) /\ Self(j)' = Self(j)
    BY <1>4 DEF JobsFit, Self
  <2>2. Queued(j)' /\ Placed(j)'
    BY <1>4, <2>1 DEF JobFits, Queued, Placed, Loads, Exports
  <2>3. Copied(j)' /\ Loaded(j)'
    BY <1>4, <2>1 DEF JobFits, Copied, Loaded, Ended, Loads, Ends, Torn
  <2>4. Stored(j)'
    <3>1. pc[j] = "record" => r # runs[j]
      BY <1>4, <2>1 DEF JobFits, Stored, Self
    <3>2. r # record[j]
      BY <1>4, <2>1 DEF JobFits, Stored
    <3> QED
      BY <1>4, <1>5, <2>1, <3>1, <3>2 DEF JobFits, Stored, Ended, Exports
  <2> QED
    BY <2>2, <2>3, <2>4 DEF JobFits
<1> QED
  BY <1>6, <1>7, <1>8 DEF JobsFit

LEMMA RecordStep ==
  ASSUME JobsFit, NEW j \in Jobs, Record(j)
  PROVE  JobsFit'
<1>1. PICK to \in {"finish", "fail"} :
        /\ UNCHANGED <<kind, engine, create, torn, exists, owner, rows, call, todo, tail, copies, object, puts, orphans,
                       queue, runs, attempts, stalls, up>>
        /\ pc[j] = "record" /\ pc' = [pc EXCEPT ![j] = to]
        /\ at' = at \/ at' = [at EXCEPT ![j] = 0]
        /\ record' = record \/ record' = [record EXCEPT ![j] = runs[j]]
        /\ to = "finish" => record' = [record EXCEPT ![j] = runs[j]]
  <2>1. CASE /\ record[j] = 0 /\ record' = [record EXCEPT ![j] = runs[j]]
             /\ Step(j, "record", "finish") /\ UNCHANGED at
    BY <2>1 DEF Record, Step, Goto, params, target, tally
  <2>2. CASE /\ record' \in {record, [record EXCEPT ![j] = IF @ = 0 THEN runs[j] ELSE @]}
             /\ GiveUp(j)
    <3>1. record' = record \/ record' = [record EXCEPT ![j] = runs[j]]
      BY <2>2 DEF JobsFit, TypeOK
    <3> QED
      BY <2>2, <3>1 DEF Record, GiveUp, Goto, params, target, tally
  <2> QED
    BY <2>1, <2>2 DEF Record
<1>2. JobFits(j) /\ queue[j] = "active" /\ Exports(j) /\ at[j] = 0 /\ record[j] < runs[j]
  BY <1>1 DEF JobsFit, JobFits, Queued, Placed, Stored
<1>3. runs[j] \in 0..Deliveries /\ runs[j] # 0 /\ record[j] \in Nat /\ runs[j] \in 1..Deliveries
  BY <1>2, JobFacts, Numbers DEF JobsFit
<1>4. /\ pc'[j] = to /\ at'[j] = 0
      /\ record'[j] \in {record[j], runs[j]} /\ (to = "finish" => record'[j] = runs[j])
      /\ \A d \in Jobs : d # j => pc'[d] = pc[d] /\ at'[d] = at[d] /\ record'[d] = record[d]
  BY <1>1, <1>2 DEF JobsFit, TypeOK
<1>5. TypeOK'
  <2>1. pc' \in [Jobs -> Place]
    BY <1>1 DEF JobsFit, TypeOK, Place
  <2>2. at' \in [Jobs -> 0..Size]
    BY <1>1, Numbers DEF JobsFit, TypeOK
  <2>3. record' \in [Jobs -> 0..Deliveries]
    BY <1>1, <1>3 DEF JobsFit, TypeOK
  <2> QED
    BY <1>1, <2>1, <2>2, <2>3 DEF JobsFit, TypeOK
<1>6. ASSUME NEW d \in Jobs, d # j PROVE JobFits(d)'
  <2>1. CallsKept(d)
    BY <1>1 DEF CallsKept
  <2> QED
    BY <1>1, <1>4, <1>6, <2>1, Unmoved DEF JobsFit
<1>7. JobFits(j)'
  <2>1. Queued(j)' /\ Placed(j)' /\ Loaded(j)'
    BY <1>1, <1>2, <1>4 DEF JobFits, Queued, Placed, Loaded, Ended, Exports, Loads
  <2>2. Copied(j)'
    BY <1>1, <1>2, <1>4 DEF JobFits, Copied, Ended, Exports
  <2>3. Stored(j)'
    <3>1. object[j].by # 0 /\ (object[j].by = runs[j] => object[j].whole) /\ Self(j) \notin puts
      BY <1>1, <1>2 DEF JobFits, Stored
    <3>2. \A r \in 1..Deliveries : <<j, r>> \in puts => r # record'[j]
      BY <1>2, <1>4, <3>1 DEF JobFits, Stored, Self
    <3>3. record'[j] <= runs[j]
      BY <1>2, <1>3, <1>4
    <3> QED
      BY <1>1, <1>2, <1>3, <1>4, <3>1, <3>2, <3>3 DEF JobFits, Stored, Ended
  <2> QED
    BY <2>1, <2>2, <2>3 DEF JobFits
<1> QED
  BY <1>5, <1>6, <1>7 DEF JobsFit

----------------------------------------------------------------------------
\* The steps that the general lemmas cover.

LEMMA GiveUpsStep ==
  ASSUME JobsFit, NEW j \in Jobs,
         Throw(j) \/ DumpRejects(j) \/ ProduceFails(j) \/ PutRejects(j)
  PROVE  JobsFit'
<1>1. GiveUp(j) /\ pc[j] # "idle" /\ UNCHANGED target /\ UNCHANGED <<copies, object, record, orphans>>
  BY DEF Throw, DumpRejects, ProduceFails, PutRejects, export
<1>2. puts' \subseteq puts /\ orphans' \subseteq Jobs
  BY <1>1 DEF Throw, DumpRejects, ProduceFails, PutRejects, export, JobsFit, TypeOK
<1> QED
  BY <1>1, <1>2, TargetUnmoved, GiveUpFits DEF JobsFit

\* The call of a delivery replaces none of another job's.
LEMMA BeginRestoreStep ==
  ASSUME JobsFit, NEW j \in Jobs, NEW from \in {"start", "report"}, BeginRestore(j, from),
         Loads(j), Quiet
  PROVE  JobsFit'
<1>1. /\ Step(j, from, "restore") /\ call' = [call EXCEPT ![Self(j)] = "ensure"]
      /\ UNCHANGED <<exists, owner, rows, todo, tail, at>>
  BY DEF BeginRestore
<1>2. TargetTyped'
  BY <1>1 DEF JobsFit, TypeOK, TargetTyped
<1>3. ASSUME NEW d \in Jobs, d # j PROVE CallsKept(d)
  BY <1>1, <1>3 DEF CallsKept, Self, JobsFit, TypeOK, Writer
<1> QED
  BY <1>1, <1>2, <1>3, EarlyFits DEF Quiet, export

LEMMA EarlyStep ==
  ASSUME JobsFit, NEW j \in Jobs, Fetch(j) \/ SpawnDump(j) \/ StartPut(j)
  PROVE  JobsFit'
<1>1. CASE kind[j] = "restore" /\ BeginRestore(j, "start") /\ Quiet
  BY <1>1, BeginRestoreStep DEF Loads
<1>2. CASE kind[j] = "import" /\ Step(j, "start", "insert") /\ UNCHANGED <<target, at>> /\ Quiet
  <2>1. TargetTyped' /\ \A d \in Jobs : CallsKept(d)
    BY <1>2, TargetUnmoved DEF JobsFit
  <2> QED
    BY <1>2, <2>1, EarlyFits DEF Quiet, export
<1>3. CASE SpawnDump(j)
  <2>1. TargetTyped' /\ \A d \in Jobs : CallsKept(d)
    BY <1>3, TargetUnmoved DEF SpawnDump, JobsFit
  <2> QED
    BY <1>3, <2>1, EarlyFits DEF SpawnDump, export
<1>4. CASE StartPut(j)
  <2>1. TargetTyped' /\ \A d \in Jobs : CallsKept(d)
    BY <1>4, TargetUnmoved DEF StartPut, JobsFit
  <2> QED
    BY <1>4, <2>1, EarlyFits DEF StartPut
<1> QED
  BY <1>1, <1>2, <1>3, <1>4 DEF Fetch, Quiet

LEMMA ReportDumpStep ==
  ASSUME JobsFit, NEW j \in Jobs, ReportDump(j)
  PROVE  JobsFit'
<1>1. pc[j] = "report" /\ Loads(j) /\ UNCHANGED <<copies, export>>
  BY DEF ReportDump, JobsFit, JobFits, Placed, Loads
<1>2. CASE BeginRestore(j, "report") /\ UNCHANGED orphans
  BY <1>1, <1>2, BeginRestoreStep DEF Quiet
<1>3. CASE GiveUp(j) /\ orphans' = orphans \cup {j} /\ UNCHANGED target
  <2>1. orphans' \subseteq Jobs /\ UNCHANGED <<copies, object, record>> /\ puts' \subseteq puts
    BY <1>1, <1>3 DEF export, JobsFit, TypeOK
  <2>2. TargetTyped' /\ \A d \in Jobs : CallsKept(d)
    BY <1>3, TargetUnmoved DEF JobsFit
  <2> QED
    BY <1>1, <1>3, <2>1, <2>2, GiveUpFits
<1> QED
  BY <1>2, <1>3 DEF ReportDump

----------------------------------------------------------------------------
\* Every action keeps what is known of the jobs.
LEMMA JobsStep == JobsFit /\ [Next]_vars => JobsFit'
<1> SUFFICES ASSUME JobsFit, [Next]_vars PROVE JobsFit'
  OBVIOUS
<1>1. ASSUME NEW j \in Jobs, Deliver(j) PROVE JobsFit'
  <2>1. CASE Take(j) \/ Fail(j) \/ Finish(j)
    BY <2>1, TakeStep, FailStep, FinishStep
  <2>2. CASE Fetch(j) \/ SpawnDump(j) \/ StartPut(j) \/ ReportDump(j)
    BY <2>2, EarlyStep, ReportDumpStep
  <2>3. CASE Throw(j) \/ DumpRejects(j) \/ ProduceFails(j) \/ PutRejects(j)
    BY <2>3, GiveUpsStep
  <2>4. CASE Insert(j) \/ InsertUnanswered(j) \/ InsertsEnd(j)
    BY <2>4, InsertStep, InsertUnansweredStep, InsertsEndStep
  <2>5. CASE Produce(j) \/ ProduceEnds(j) \/ PutStored(j) \/ Record(j)
    BY <2>5, ProduceStep, ProduceEndsStep, PutStoredStep, RecordStep
  <2> QED
    BY <1>1, <2>1, <2>2, <2>3, <2>4, <2>5 DEF Deliver
<1>2. ASSUME NEW j \in Jobs, CheckStalled(j) PROVE JobsFit'
  BY <1>2, CheckStalledStep
<1>3. ASSUME NEW p \in puts, PutRejectsUnheard(p) \/ LatePut(p) PROVE JobsFit'
  BY <1>3, DieFits, LatePutStep DEF PutRejectsUnheard
<1>4. CASE DumpRejectsUnheard \/ Crash
  BY <1>4, DieFits DEF DumpRejectsUnheard, Crash
<1>5. ASSUME NEW w \in Writer, Restore(w) PROVE JobsFit'
  BY <1>5, RestoreStep
<1>6. CASE Restart
  BY <1>6, RestartStep
<1>7. CASE UNCHANGED vars
  <2>1. UNCHANGED <<kind, engine, create, torn, exists, owner, rows, call, todo, tail, copies, object, record,
                    puts, orphans, queue, runs, attempts, stalls, pc, at, up>>
    BY <1>7 DEF vars, params, target, export, tally
  <2>2. TypeOK'
    BY <2>1 DEF JobsFit, TypeOK
  <2>3. ASSUME NEW d \in Jobs PROVE JobFits(d)'
    <3>1. CallsKept(d)
      BY <2>1 DEF CallsKept
    <3> QED
      BY <2>1, <3>1, Unmoved DEF JobsFit
  <2> QED
    BY <2>2, <2>3 DEF JobsFit
<1> QED
  BY <1>1, <1>2, <1>3, <1>4, <1>5, <1>6, <1>7 DEF Next

----------------------------------------------------------------------------
\* What is known of the clients.

LEMMA TargetKept ==
  ASSUME TargetFits, UNCHANGED <<engine, owner, rows, todo, tail>>
  PROVE  TargetFits'
BY DEF TargetFits, PostgresFits, MysqlFits

\* A statement on Postgres takes no table from a client, and fills no other's.
LEMMA PostgresExecute ==
  ASSUME TypeOK, PostgresFits, engine = "postgres", NEW w \in Writer, Execute(w)
  PROVE  PostgresFits'
<1> DEFINE t == todo[w].table
<1>1. /\ t \in Tables /\ todo[w] \in Statement /\ t <= Size
      /\ \A v \in Writer : todo'[v] = IF v = w THEN After(todo[w]) ELSE todo[v]
  BY ExecuteFacts
<1>2. t \in Nat /\ Size \in Nat /\ \A i \in Tables : i \in Nat /\ i >= 1 /\ i <= Size
  BY <1>1, Numbers DEF Tables
<1>3. \A i \in Tables : rows[i] \subseteq {owner[i]}
  BY DEF PostgresFits
<1>4. CASE todo[w].op = "create"
  <2>1. /\ owner[t] = NoOne /\ rows' = rows
        /\ \A i \in Tables : owner'[i] = IF i = t THEN w ELSE owner[i]
    BY <1>4, ExecuteFacts
  <2>2. rows[t] = {}
    BY <1>1, <1>3, <2>1, Owners DEF TypeOK
  <2>3. \A i \in Tables : i < t => owner[i] = w
    BY DEF PostgresFits
  <2>4. todo'[w] = IF t < Size THEN [op |-> "create", table |-> t + 1] ELSE [op |-> "fill", table |-> 1]
    BY <1>1, <1>4, AfterFacts
  <2>5. \A i \in Tables : rows'[i] \subseteq {owner'[i]}
    BY <1>3, <2>1, <2>2
  <2>6. ASSUME NEW v \in Writer, v # w
        PROVE  /\ (todo'[v].op = "create" /\ todo'[v].table <= Size) \/ todo'[v].op = "fill"
               /\ \A i \in Tables : /\ todo'[v].op = "fill" \/ i < todo'[v].table => owner'[i] = v
                                    /\ todo'[v].op = "fill" /\ i < todo'[v].table => rows'[i] = {v}
    <3>1. todo'[v] = todo[v]
      BY <1>1, <2>6
    <3>2. \A i \in Tables : owner[i] = v => owner'[i] = v
      BY <2>1, Owners
    <3> QED
      BY <2>1, <3>1, <3>2 DEF PostgresFits
  <2>7. CASE t < Size
    <3>1. todo'[w].op = "create" /\ todo'[w].table = t + 1
      BY <2>4, <2>7
    <3>2. \A i \in Tables : i < t + 1 => owner'[i] = w
      BY <1>1, <1>2, <2>1, <2>3
    <3> QED
      BY <1>1, <1>2, <2>5, <2>6, <2>7, <3>1, <3>2, Numbers DEF PostgresFits
  <2>8. CASE ~(t < Size)
    <3>1. todo'[w].op = "fill" /\ todo'[w].table = 1
      BY <2>4, <2>8
    <3>2. ASSUME NEW i \in Tables PROVE owner'[i] = w /\ ~(i < 1)
      <4>1. i = t \/ i < t
        BY <1>1, <1>2, <2>8
      <4> QED
        BY <1>2, <2>1, <2>3, <4>1
    <3> QED
      BY <2>5, <2>6, <3>1, <3>2 DEF PostgresFits
  <2> QED
    BY <2>7, <2>8
<1>5. CASE todo[w].op = "fill"
  <2>1. /\ owner' = owner
        /\ \A i \in Tables : rows'[i] = IF i = t THEN rows[i] \cup {w} ELSE rows[i]
    BY <1>5, ExecuteFacts
  <2>2. \A i \in Tables : owner[i] = w /\ (i < t => rows[i] = {w})
    BY <1>5 DEF PostgresFits
  <2>3. todo'[w].op = "fill" /\ todo'[w].table = t + 1
    BY <1>1, <1>5, AfterFacts
  <2>4. rows'[t] = {w}
    <3>1. rows[t] \subseteq {w} /\ rows'[t] = rows[t] \cup {w}
      BY <1>1, <1>3, <2>1, <2>2
    <3> QED
      BY <3>1
  <2>5. \A i \in Tables : rows'[i] \subseteq {owner'[i]}
    BY <1>1, <1>3, <2>1, <2>2, <2>4
  <2>6. ASSUME NEW v \in Writer, v # w
        PROVE  /\ (todo'[v].op = "create" /\ todo'[v].table <= Size) \/ todo'[v].op = "fill"
               /\ \A i \in Tables : /\ todo'[v].op = "fill" \/ i < todo'[v].table => owner'[i] = v
                                    /\ todo'[v].op = "fill" /\ i < todo'[v].table => rows'[i] = {v}
    <3>1. todo'[v] = todo[v]
      BY <1>1, <2>6
    <3>2. \A i \in Tables : owner[i] # v
      BY <2>2, <2>6
    <3> QED
      BY <2>1, <3>1, <3>2 DEF PostgresFits
  <2>7. ASSUME NEW i \in Tables, i < t + 1 PROVE rows'[i] = {w}
    <3>1. i = t \/ i < t
      BY <1>1, <1>2, <2>7
    <3> QED
      BY <1>2, <2>1, <2>2, <2>4, <3>1
  <2> QED
    BY <2>1, <2>2, <2>3, <2>5, <2>6, <2>7 DEF PostgresFits
<1> QED
  BY <1>4, <1>5 DEF PostgresFits

\* On MySQL a client starts over with its first statement, and is only right about
\* the tables until another executes one.
LEMMA MysqlExecute ==
  ASSUME TypeOK, MysqlFits, engine = "mysql", NEW w \in Writer, Execute(w)
  PROVE  MysqlFits'
<1> DEFINE t == todo[w].table
<1>1. /\ t \in Tables /\ todo[w] \in Statement /\ t <= Size /\ todo[w].op \in {"drop", "create", "fill"}
      /\ \A v \in Writer : todo'[v] = IF v = w THEN After(todo[w]) ELSE todo[v]
      /\ tail' = IF todo[w] = First \/ tail = w THEN w ELSE NoOne
  BY ExecuteFacts DEF Statement
<1>2. \A i \in Tables : i \in Nat /\ i >= 1 /\ i <= Size
  BY Numbers DEF Tables
<1> SUFFICES ASSUME todo[w] = First \/ tail = w, NEW i \in Tables
             PROVE  /\ i < todo'[w].table => owner'[i] = w /\ rows'[i] = {w}
                    /\ i = todo'[w].table /\ todo'[w].op = "create" => owner'[i] = NoOne /\ rows'[i] = {}
                    /\ i = todo'[w].table /\ todo'[w].op = "fill"   => owner'[i] = w /\ rows'[i] = {}
  BY <1>1, Owners DEF MysqlFits
<1>3. /\ i < t => owner[i] = w /\ rows[i] = {w}
      /\ i = t /\ todo[w].op = "create" => owner[i] = NoOne /\ rows[i] = {}
      /\ i = t /\ todo[w].op = "fill"   => owner[i] = w /\ rows[i] = {}
  <2>1. CASE todo[w] = First
    <3>1. todo[w].op = "drop" /\ t = 1
      BY <2>1, FirstFacts
    <3> QED
      BY <1>2, <3>1
  <2>2. CASE tail = w
    BY <2>2 DEF MysqlFits
  <2> QED
    BY <2>1, <2>2
<1>4. CASE todo[w].op = "drop"
  <2>1. /\ owner'[i] = IF i = t THEN NoOne ELSE owner[i]
        /\ rows'[i] = IF i = t THEN {} ELSE rows[i]
    BY <1>4, ExecuteFacts
  <2>2. todo'[w].op = "create" /\ todo'[w].table = t
    BY <1>1, <1>4, AfterFacts
  <2> QED
    BY <1>1, <1>2, <1>3, <2>1, <2>2
<1>5. CASE todo[w].op = "create"
  <2>1. rows' = rows /\ owner'[i] = IF i = t THEN w ELSE owner[i]
    BY <1>5, ExecuteFacts
  <2>2. todo'[w].op = "fill" /\ todo'[w].table = t
    BY <1>1, <1>5, AfterFacts
  <2> QED
    BY <1>1, <1>2, <1>3, <1>5, <2>1, <2>2
<1>6. CASE todo[w].op = "fill"
  <2>1. owner' = owner /\ rows'[i] = IF i = t THEN rows[i] \cup {w} ELSE rows[i]
    BY <1>6, ExecuteFacts
  <2>2. todo'[w].op = "drop" /\ todo'[w].table = t + 1
    BY <1>1, <1>6, AfterFacts
  <2>3. i = t => rows'[i] = {w}
    BY <1>3, <1>6, <2>1
  <2> QED
    BY <1>1, <1>2, <1>3, <1>6, <2>1, <2>2, <2>3
<1> QED
  BY <1>1, <1>4, <1>5, <1>6

\* A client that is forgotten claims nothing.
LEMMA ForgetKeeps ==
  ASSUME TypeOK, TargetFits, NEW w \in Writer, Forget(w), UNCHANGED <<engine, owner, rows>>
  PROVE  TargetFits'
<1>1. \A v \in Writer : todo'[v] = IF v = w THEN First ELSE todo[v]
  BY DEF Forget, TypeOK
<1>2. \A v \in Writer : tail' = v => v # w /\ tail = v
  BY Owners DEF Forget
<1>3. ASSUME engine = "postgres" PROVE PostgresFits'
  <2>1. First.op = "create" /\ First.table = 1 /\ \A i \in Tables : ~(i < 1)
    BY <1>3, FirstFacts, Numbers DEF Tables
  <2> QED
    BY <1>1, <1>3, <2>1, Numbers DEF TargetFits, PostgresFits
<1>4. ASSUME engine # "postgres" PROVE MysqlFits'
  BY <1>1, <1>2, <1>4 DEF TargetFits, MysqlFits
<1> QED
  BY <1>3, <1>4 DEF TargetFits

LEMMA RestoreKeeps ==
  ASSUME TypeOK, TargetFits, NEW w \in Writer, Restore(w)
  PROVE  TargetFits'
<1>1. CASE EnsureDatabase(w) \/ CreateDatabase(w) \/ PipeBreaks(w)
  BY <1>1, TargetKept DEF EnsureDatabase, CreateDatabase, PipeBreaks, Calling, Die, params
<1>2. CASE Execute(w)
  <2>1. engine' = engine /\ engine \in Engine
    BY <1>2 DEF Execute, Advance, params, TypeOK
  <2> QED
    BY <1>2, <2>1, PostgresExecute, MysqlExecute DEF TargetFits, Engine
<1>3. CASE CallEnds(w)
  <2>1. UNCHANGED <<engine, owner, rows>> /\ (Forget(w) \/ UNCHANGED <<todo, tail>>)
    BY <1>3 DEF CallEnds, params
  <2> QED
    BY <2>1, ForgetKeeps, TargetKept
<1>4. CASE CallRejects(w)
  <2>1. UNCHANGED <<engine, owner, rows>> /\ Forget(w)
    BY <1>4 DEF CallRejects, GiveUp, params
  <2> QED
    BY <2>1, ForgetKeeps
<1> QED
  BY <1>1, <1>2, <1>3, <1>4 DEF Restore

LEMMA TargetStep == TypeOK /\ TargetFits /\ [Next]_vars => TargetFits'
<1> SUFFICES ASSUME TypeOK, TargetFits, [Next]_vars PROVE TargetFits'
  OBVIOUS
<1>1. ASSUME NEW j \in Jobs, Deliver(j) PROVE UNCHANGED <<engine, owner, rows, todo, tail>>
  <2>1. CASE Take(j) \/ Throw(j) \/ Fail(j) \/ Finish(j)
    BY <2>1 DEF Take, Throw, Fail, Finish, GiveUp, params, target
  <2>2. CASE Fetch(j) \/ SpawnDump(j) \/ ReportDump(j) \/ DumpRejects(j)
    BY <2>2 DEF Fetch, SpawnDump, ReportDump, DumpRejects, BeginRestore, Step, GiveUp, params, target
  <2>3. CASE Insert(j) \/ InsertUnanswered(j) \/ InsertsEnd(j)
    BY <2>3 DEF Insert, InsertUnanswered, InsertsEnd, Step, GiveUp, params, target
  <2>4. CASE StartPut(j) \/ Produce(j) \/ ProduceEnds(j) \/ ProduceFails(j)
    BY <2>4 DEF StartPut, Produce, ProduceEnds, ProduceFails, Step, GiveUp, params, target
  <2>5. CASE PutStored(j) \/ PutRejects(j) \/ Record(j)
    BY <2>5 DEF PutStored, PutRejects, Record, Step, GiveUp, params, target
  <2> QED
    BY <1>1, <2>1, <2>2, <2>3, <2>4, <2>5 DEF Deliver
<1>2. ASSUME NEW j \in Jobs, CheckStalled(j) PROVE UNCHANGED <<engine, owner, rows, todo, tail>>
  BY <1>2 DEF CheckStalled, params, target
<1>3. ASSUME NEW p \in puts, PutRejectsUnheard(p) \/ LatePut(p)
      PROVE  UNCHANGED <<engine, owner, rows, todo, tail>>
  BY <1>3 DEF PutRejectsUnheard, LatePut, Die, params, target
<1>4. CASE DumpRejectsUnheard \/ Crash \/ Restart \/ UNCHANGED vars
  <2>1. UNCHANGED <<engine, owner, rows, todo, tail>>
    BY <1>4 DEF DumpRejectsUnheard, Crash, Restart, Die, params, target, vars
  <2> QED
    BY <2>1, TargetKept
<1>5. ASSUME NEW w \in Writer, Restore(w) PROVE TargetFits'
  BY <1>5, RestoreKeeps
<1> QED
  BY <1>1, <1>2, <1>3, <1>4, <1>5, TargetKept DEF Next

----------------------------------------------------------------------------
\* Every action keeps the invariant.
THEOREM InvariantStep == TransfersInvariant /\ [Next]_vars => TransfersInvariant'
BY JobsStep, TargetStep DEF TransfersInvariant, JobsFit

\* The invariant holds of every reachable state.
THEOREM AlwaysInvariant == Spec => []TransfersInvariant
BY InvariantInit, InvariantStep, PTL DEF Spec

\* Type correctness; the bounds of runs, attempts and stalls are part of it.
THEOREM TypeCorrect == Spec => []TypeOK
<1>1. TransfersInvariant => TypeOK
  BY DEF TransfersInvariant, JobsFit
<1> QED
  BY <1>1, AlwaysInvariant, PTL

\* A completed restore or clone left the whole script in the target: on Postgres
\* whatever restores, re-runs and left over clients came beside or after it, on MySQL
\* as long as none of them executed a statement since its own first one.
THEOREM CompletedMeansWhole == Spec => []CompletedIsWhole
<1>1. TransfersInvariant => CompletedIsWhole
  <2> SUFFICES ASSUME TransfersInvariant, NEW j \in Jobs, Loads(j), queue[j] = "completed",
                      engine = "postgres" \/ tail = Self(j), NEW i \in Tables
               PROVE  owner[i] = Self(j) /\ ((Torn(j) => i < Size) => rows[i] = {Self(j)})
    BY DEF CompletedIsWhole
  <2>1. Self(j) \in Writer /\ Ends(Self(j)) /\ Self(j)[1] = j
    BY SelfWrites DEF TransfersInvariant, JobsFit, JobFits, Loaded, Ended, Self
  <2>2. i \in Nat /\ i >= 1 /\ i <= Size /\ todo[Self(j)].table \in Nat
    BY <2>1, Numbers DEF TransfersInvariant, JobsFit, TypeOK, Tables, Statement
  <2>3. \/ i < todo[Self(j)].table
        \/ Torn(j) /\ todo[Self(j)].op = "fill" /\ todo[Self(j)].table = Size
    BY <2>1, <2>2, Numbers DEF Ends
  <2>4. todo[Self(j)].table > Size \/ todo[Self(j)].op = "fill"
    BY <2>1 DEF Ends
  <2>5. CASE engine = "postgres"
    <3>1. PostgresFits
      BY <2>5 DEF TransfersInvariant, TargetFits
    <3>2. todo[Self(j)].op = "fill"
      BY <2>1, <2>2, <2>4, <3>1, Numbers DEF PostgresFits
    <3>3. owner[i] = Self(j) /\ (i < todo[Self(j)].table => rows[i] = {Self(j)})
      BY <2>1, <3>1, <3>2 DEF PostgresFits
    <3> QED
      BY <2>2, <2>3, <3>3, Numbers
  <2>6. CASE engine # "postgres"
    <3>1. /\ i < todo[Self(j)].table => owner[i] = Self(j) /\ rows[i] = {Self(j)}
          /\ i = todo[Self(j)].table /\ todo[Self(j)].op = "fill" => owner[i] = Self(j)
      BY <2>1, <2>6 DEF TransfersInvariant, TargetFits, MysqlFits
    <3> QED
      BY <2>2, <2>3, <3>1, Numbers
  <2> QED
    BY <2>5, <2>6
<1> QED
  BY <1>1, AlwaysInvariant, PTL

\* Batches are inserted in order, none more often than the job was delivered, and
\* a completed import has every one of them.
THEOREM ImportsInOrder == Spec => []ImportedInOrder
<1>1. TransfersInvariant => ImportedInOrder
  <2> SUFFICES ASSUME TransfersInvariant, NEW j \in Jobs, NEW i \in Tables
               PROVE  /\ copies[j][i] <= runs[j]
                      /\ i < Size => copies[j][i + 1] <= copies[j][i]
                      /\ kind[j] = "import" /\ queue[j] = "completed" =>
                           copies[j][i] >= 1 /\ (runs[j] = 1 => copies[j][i] = 1)
    BY DEF ImportedInOrder
  <2>1. Copied(j) /\ i \in Nat /\ i >= 1 /\ copies[j][i] \in Nat /\ runs[j] \in Nat
    BY JobFacts DEF TransfersInvariant, JobsFit, JobFits
  <2>2. i < Size => i + 1 \in Tables /\ i <= i + 1
    BY <2>1, Numbers DEF Tables
  <2> QED
    BY <2>1, <2>2 DEF Copied, Ended
<1> QED
  BY <1>1, AlwaysInvariant, PTL

\* A completed export has its row and an object, whole if it is the recorded one.
THEOREM ExportsAreRecorded == Spec => []ExportIsRecorded
<1>1. TransfersInvariant => ExportIsRecorded
  BY DEF TransfersInvariant, JobsFit, JobFits, Stored, Ended, ExportIsRecorded
<1> QED
  BY <1>1, AlwaysInvariant, PTL

=============================================================================
