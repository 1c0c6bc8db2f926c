----------------------------- MODULE Transfers ------------------------------
(***************************************************************************)
(* The four processors that move data out of or into a database (restore,  *)
(* clone, import, export) as they run side by side in one worker process,  *)
(* with the parts of the two adapters they call.  Events, notifications    *)
(* and audit entries are JobLifecycle's; here a delivery is "idle" or at   *)
(* some step of its try block, and what it leaves in the world matters.    *)
(*                                                                         *)
(* All restores and clones aim at one database of one server.  A script    *)
(* (the text of a dump) has Size tables and, for each, a statement that    *)
(* creates it and one that fills it, on MySQL also one that drops it       *)
(* first; the client that executes them commits each by itself, and may go *)
(* on when the processor that called for it, or the whole worker, is gone. *)
(* A file to import is Size batches of rows.                               *)
(*                                                                         *)
(* Any call may reject, before or after it took effect.  A promise that    *)
(* rejects while nobody awaits it, and a pipe into a client that is gone,  *)
(* end the whole process: worker.ts handles neither.                       *)
(***************************************************************************)
EXTENDS Integers, FiniteSets

CONSTANTS Jobs,
          Attempts, MaxStalled,  \* as in JobLifecycle
          Size,                  \* tables of a script, batches of a file
          NoOne, Other           \* owners of a table: nobody, an earlier user

ASSUME AttemptsAssumption == Attempts \in Nat \ {0}
ASSUME MaxStalledAssumption == MaxStalled \in Nat
ASSUME SizeAssumption == Size \in Nat \ {0}
ASSUME OwnersAssumption == NoOne \notin Jobs \X Nat /\ NoOne # Other

VARIABLES
  kind, engine, create, torn,  \* what the jobs are about, and is the artifact torn
  exists, owner, rows,   \* the target: is the database there, who created each
                         \* table (NoOne: there is none) and whose rows it has
  call, todo,        \* the restore each delivery called for, its client's next statement
  tail,              \* history: on MySQL, the client that executed all of the
                     \* statements since its own first one
  copies,            \* how often each batch of an import's file was inserted
  object, record,    \* an export's object, and the delivery its Backup row is of
  puts, orphans,     \* uploads under way; jobs with a dump nobody reads
  queue, runs, attempts, stalls,   \* the queue, as in JobLifecycle
  pc, at,            \* the deliveries: step; batches inserted, parts dumped
  up                 \* is the worker process alive

params == <<kind, engine, create, torn>>
target == <<exists, owner, rows, call, todo, tail>>
export == <<object, record, puts>>
tally  == <<queue, runs, attempts, stalls>>
vars == <<params, target, copies, export, orphans, tally, pc, at, up>>

Kind   == {"restore", "clone", "import", "exportSql", "exportRows"}
Engine == {"postgres", "mysql"}
Tables == 1..Size
Place  == {"idle", "start", "report", "restore",
           "insert", "produce", "await", "record", "finish", "fail"}
\* An end of every delivery is charged, so no job is delivered more often.
Deliveries == Attempts + MaxStalled
Writer == Jobs \X (1..Deliveries)
Statement == [op : {"drop", "create", "fill"}, table : 1..(Size + 1)]

TypeOK ==
  /\ kind     \in [Jobs -> Kind]
  /\ engine   \in Engine
  /\ create   \in [Jobs -> BOOLEAN]
  /\ torn     \in BOOLEAN
  /\ exists   \in BOOLEAN
  /\ owner    \in [Tables -> Writer \cup {NoOne, Other}]
  /\ rows     \in [Tables -> SUBSET (Writer \cup {Other})]
  /\ call     \in [Writer -> {"none", "ensure", "create", "load", "cut"}]
  /\ todo     \in [Writer -> Statement]
  /\ tail     \in Writer \cup {NoOne}
  /\ copies   \in [Jobs -> [Tables -> 0..Deliveries]]
  /\ object   \in [Jobs -> [by : 0..Deliveries, whole : BOOLEAN]]
  /\ record   \in [Jobs -> 0..Deliveries]
  /\ puts     \subseteq Writer
  /\ orphans  \subseteq Jobs
  /\ queue    \in [Jobs -> {"waiting", "active", "completed", "failed"}]
  /\ runs     \in [Jobs -> 0..Deliveries]
  /\ attempts \in [Jobs -> 0..Attempts]
  /\ stalls   \in [Jobs -> 0..(MaxStalled + 1)]
  /\ pc       \in [Jobs -> Place]
  /\ at       \in [Jobs -> 0..Size]
  /\ up       \in BOOLEAN

\* pg_dump creates all tables and then fills them; mysqldump drops, creates and
\* fills one after the other.
First == [op |-> IF engine = "postgres" THEN "create" ELSE "drop", table |-> 1]
After(s) ==
  CASE s.op = "drop"   -> [s EXCEPT !.op = "create"]
    [] s.op = "create" -> IF engine = "mysql" THEN [s EXCEPT !.op = "fill"]
                          ELSE IF s.table < Size THEN [s EXCEPT !.table = @ + 1]
                          ELSE [op |-> "fill", table |-> 1]
    [] s.op = "fill"   -> [op |-> IF engine = "mysql" THEN "drop" ELSE "fill",
                           table |-> s.table + 1]

Init ==
  /\ kind \in [Jobs -> Kind] /\ engine \in Engine /\ create \in [Jobs -> BOOLEAN]
  /\ \A j \in Jobs : kind[j] # "restore" => create[j]
  /\ torn \in BOOLEAN
  /\ torn => \E j \in Jobs : kind[j] = "restore"
  /\ exists \in BOOLEAN
  /\ owner \in {[i \in Tables |-> NoOne], [i \in Tables |-> IF i = Size THEN Other ELSE NoOne]}
  /\ ~exists => \A i \in Tables : owner[i] = NoOne
  /\ rows = [i \in Tables |-> IF owner[i] = Other THEN {Other} ELSE {}]
  /\ call = [w \in Writer |-> "none"] /\ todo = [w \in Writer |-> First] /\ tail = NoOne
  /\ copies = [j \in Jobs |-> [i \in Tables |-> 0]]
  /\ object = [j \in Jobs |-> [by |-> 0, whole |-> FALSE]]
  /\ record = [j \in Jobs |-> 0]
  /\ puts = {} /\ orphans = {}
  /\ queue = [j \in Jobs |-> "waiting"]
  /\ runs = [j \in Jobs |-> 0] /\ attempts = runs /\ stalls = runs
  /\ pc = [j \in Jobs |-> "idle"] /\ at = runs
  /\ up = TRUE

Goto(j, l) == pc' = [pc EXCEPT ![j] = l]
Step(j, from, to) == /\ pc[j] = from /\ Goto(j, to)
                     /\ UNCHANGED <<params, tally, up>>
Self(j) == <<j, runs[j]>>

\* An attempt gives up: the catch block, the throw, the finally.
GiveUp(j) == /\ Goto(j, "fail") /\ at' = [at EXCEPT ![j] = 0]
             /\ UNCHANGED <<params, tally, up>>

----------------------------------------------------------------------------
\* The queue and the process.

Take(j) ==
  /\ up /\ queue[j] = "waiting"
  /\ queue' = [queue EXCEPT ![j] = "active"]
  /\ runs' = [runs EXCEPT ![j] = @ + 1]
  /\ Goto(j, "start")
  /\ UNCHANGED <<params, target, copies, export, orphans, attempts, stalls, at, up>>

\* The process dies with its deliveries, its uploads and the dumps it reads; an
\* upload may leave a torn object.  Clients outlive it, for what they have read of
\* their input, and so does a CREATE DATABASE under way.
Die ==
  /\ up' = FALSE
  /\ pc' = [j \in Jobs |-> "idle"] /\ at' = [j \in Jobs |-> 0]
  /\ puts' = {} /\ orphans' = {}
  /\ call' = [w \in Writer |-> IF call[w] \in {"load", "cut"} THEN "cut" ELSE "none"]
  /\ exists' \in {exists} \cup {TRUE : w \in {x \in Writer : call[x] = "create"}}
  /\ UNCHANGED <<owner, rows, todo, tail>>
  /\ \/ UNCHANGED object
     \/ \E p \in puts : object' = [object EXCEPT ![p[1]] = [by |-> p[2], whole |-> FALSE]]
  /\ UNCHANGED <<params, copies, record, tally>>

Crash == up /\ (\E j \in Jobs : pc[j] # "idle") /\ Die

Restart == /\ ~up /\ up' = TRUE
           /\ UNCHANGED <<params, target, copies, export, orphans, tally, pc, at>>

Rest(j, charged, limit) == [queue EXCEPT ![j] = IF charged[j] < limit THEN "waiting" ELSE "failed"]

\* A delivery whose process died.
CheckStalled(j) ==
  /\ up /\ queue[j] = "active" /\ pc[j] = "idle"
  /\ stalls' = [stalls EXCEPT ![j] = @ + 1]
  /\ queue' = Rest(j, stalls, MaxStalled)
  /\ UNCHANGED <<params, target, copies, export, orphans, runs, attempts, pc, at, up>>

\* Mutant: one attempt more than there are.
FailMutant(j) ==
  /\ pc[j] = "fail"
  /\ attempts' = [attempts EXCEPT ![j] = @ + 1]
  /\ queue' = Rest(j, attempts, Attempts)
  /\ Goto(j, "idle")
  /\ UNCHANGED <<params, target, copies, export, orphans, runs, stalls, at, up>>

Fail(j) ==
  /\ pc[j] = "fail"
  /\ attempts' = [attempts EXCEPT ![j] = @ + 1]
  /\ queue' = Rest(j, attempts, Attempts - 1)
  /\ Goto(j, "idle")
  /\ UNCHANGED <<params, target, copies, export, orphans, runs, stalls, at, up>>

\* markDone, audit, notify; the notification may reject.
Finish(j) ==
  /\ pc[j] = "finish"
  /\ \/ queue' = [queue EXCEPT ![j] = "completed"] /\ Goto(j, "idle")
     \/ UNCHANGED queue /\ Goto(j, "fail")
  /\ UNCHANGED <<params, target, copies, export, orphans, runs, attempts, stalls, at, up>>

\* Any await before the data moves may reject: opening the adapters, reading the row
\* of the backup, getting its artifact, which a sweep may have deleted since.
Throw(j) ==
  /\ pc[j] \in {"start", "insert"}
  /\ GiveUp(j)
  /\ UNCHANGED <<target, copies, export, orphans>>

----------------------------------------------------------------------------
\* Restore and clone: find or make the script, and call for its restore.

BeginRestore(j, from) ==
  /\ Step(j, from, "restore")
  /\ call' = [call EXCEPT ![Self(j)] = "ensure"]
  /\ UNCHANGED <<exists, owner, rows, todo, tail, at>>

Fetch(j) ==
  /\ \/ kind[j] = "restore" /\ BeginRestore(j, "start")
     \/ kind[j] = "import" /\ Step(j, "start", "insert") /\ UNCHANGED <<target, at>>
  /\ UNCHANGED <<copies, export, orphans>>

SpawnDump(j) == /\ kind[j] = "clone" /\ Step(j, "start", "report")
                /\ UNCHANGED <<target, copies, export, orphans, at>>

\* updateProgress(50), while nobody awaits the dump yet: when it rejects, the dump
\* stays without a reader.
ReportDump(j) ==
  /\ pc[j] = "report"
  /\ \/ BeginRestore(j, "report") /\ UNCHANGED orphans
     \/ GiveUp(j) /\ orphans' = orphans \cup {j} /\ UNCHANGED target
  /\ UNCHANGED <<copies, export>>

\* A dump exits with an error that nobody awaits.
DumpRejectsUnheard == /\ orphans # {} \/ \E j \in Jobs : pc[j] = "report"
                      /\ Die

\* The dump of a clone exits with an error: Promise.all rejects, while the restore
\* goes on with what the dump wrote.
DumpRejects(j) ==
  /\ kind[j] = "clone" /\ pc[j] = "restore"
  /\ GiveUp(j)
  /\ UNCHANGED <<target, copies, export, orphans>>

----------------------------------------------------------------------------
\* restore() of the adapters, called for by the delivery w, awaited by it or not:
\* ensure the database, spawn the client, feed it the script.

Awaited(w) == pc[w[1]] = "restore" /\ Self(w[1]) = w
Quiet == UNCHANGED <<copies, export, orphans>>
Calling(w, from, to) == /\ call[w] = from /\ call' = [call EXCEPT ![w] = to]
                        /\ UNCHANGED <<params, tally, pc, at, up>> /\ Quiet

\* A call or client that did not get to its end; nothing of its position matters.
Forget(w) == /\ todo' = [todo EXCEPT ![w] = First]
             /\ tail' = IF tail = w THEN NoOne ELSE tail

\* Postgres asks first; MySQL's pool is bound to the database it should create,
\* so its CREATE DATABASE IF NOT EXISTS never reaches the server without it.
EnsureDatabase(w) ==
  /\ \/ (create[w[1]] => exists) /\ Calling(w, "ensure", "load")
     \/ create[w[1]] /\ ~exists /\ engine = "postgres" /\ Calling(w, "ensure", "create")
  /\ UNCHANGED <<exists, owner, rows, todo, tail>>

CreateDatabase(w) ==
  /\ ~exists /\ exists' = TRUE
  /\ Calling(w, "create", "load")
  /\ UNCHANGED <<owner, rows, todo, tail>>

\* A torn artifact lacks its last statement; nobody compares its checksum.
Torn(j) == kind[j] = "restore" /\ torn
Ends(w) == \/ todo[w].table > Size
           \/ Torn(w[1]) /\ todo[w] = [op |-> "fill", table |-> Size]

\* What a statement of w does, if it succeeds: a table is created only if it is not
\* there, and filled only if it is.
Effect(w, s) ==
  CASE s.op = "drop"   -> /\ owner' = [owner EXCEPT ![s.table] = NoOne]
                          /\ rows' = [rows EXCEPT ![s.table] = {}]
    [] s.op = "create" -> /\ owner[s.table] = NoOne
                          /\ owner' = [owner EXCEPT ![s.table] = w] /\ UNCHANGED rows
    [] s.op = "fill"   -> /\ owner[s.table] # NoOne
                          /\ rows' = [rows EXCEPT ![s.table] = @ \cup {w}] /\ UNCHANGED owner

Advance(w) ==
  /\ call[w] \in {"load", "cut"} /\ exists /\ ~Ends(w)
  /\ todo' = [todo EXCEPT ![w] = After(@)]
  /\ tail' = IF engine = "mysql" /\ (todo[w] = First \/ tail = w) THEN w ELSE NoOne
  /\ UNCHANGED <<params, exists, call, tally, pc, at, up>> /\ Quiet

\* Mutant: psql without ON_ERROR_STOP goes on after an error.
ExecuteMutant(w) ==
  /\ Advance(w)
  /\ IF todo[w].op = "create" /\ owner[todo[w].table] # NoOne
       THEN UNCHANGED <<owner, rows>>
       ELSE Effect(w, todo[w])

\* The client executes a statement; after one that fails it stops.
Execute(w) == Advance(w) /\ Effect(w, todo[w])

\* The client exits with 0 at the end of its input.  A clone has awaited its dump,
\* too.
CallEnds(w) ==
  /\ call[w] = "load" /\ exists /\ Ends(w)
  /\ call' = [call EXCEPT ![w] = "none"]
  /\ IF Awaited(w) THEN Goto(w[1], "finish") /\ UNCHANGED <<todo, tail>>
                   ELSE Forget(w) /\ UNCHANGED pc
  /\ UNCHANGED <<params, exists, owner, rows, tally, at, up>> /\ Quiet

\* A query rejects, CREATE DATABASE perhaps after its effect; or the client exits with
\* an error (a table that is there, or is not, no database, a lost connection).
CallRejects(w) ==
  /\ call[w] # "none"
  /\ call' = [call EXCEPT ![w] = "none"] /\ Forget(w)
  /\ exists' \in {exists} \cup (IF call[w] = "create" THEN {TRUE} ELSE {})
  /\ IF Awaited(w) THEN GiveUp(w[1]) ELSE UNCHANGED <<params, tally, pc, at, up>>
  /\ UNCHANGED <<owner, rows>> /\ Quiet

\* A client exits and leaves input unread: the pipe into it breaks, and nobody
\* handles that error.
PipeBreaks(w) == call[w] = "load" /\ ~Ends(w) /\ Die

----------------------------------------------------------------------------
\* Import: the batches of the file, each one INSERT that commits by itself.

Inserted(j) == copies' = [copies EXCEPT ![j][at[j] + 1] = @ + 1]

\* Mutant: the batch is not emptied after it was inserted.
InsertMutant(j) ==
  /\ pc[j] = "insert" /\ at[j] < Size
  /\ copies' = [copies EXCEPT ![j] = [i \in Tables |-> IF i <= at[j] + 1 THEN @[i] + 1 ELSE @[i]]]
  /\ at' = [at EXCEPT ![j] = @ + 1]
  /\ UNCHANGED <<params, target, export, orphans, tally, pc, up>>

Insert(j) ==
  /\ pc[j] = "insert" /\ at[j] < Size
  /\ Inserted(j)
  /\ at' = [at EXCEPT ![j] = @ + 1]
  /\ UNCHANGED <<params, target, export, orphans, tally, pc, up>>

\* The answer is lost, or the progress that follows it rejects.
InsertUnanswered(j) == /\ pc[j] = "insert" /\ at[j] < Size
                       /\ Inserted(j) /\ GiveUp(j)
                       /\ UNCHANGED <<target, export, orphans>>

InsertsEnd(j) == /\ at[j] = Size /\ Step(j, "insert", "finish")
                 /\ at' = [at EXCEPT ![j] = 0]
                 /\ UNCHANGED <<target, copies, export, orphans>>

----------------------------------------------------------------------------
\* Export: a dump of one table, or its rows, into an upload that is awaited last.

Exports(j) == kind[j] \in {"exportSql", "exportRows"}

StartPut(j) == /\ Exports(j) /\ Step(j, "start", "produce")
               /\ puts' = puts \cup {Self(j)}
               /\ UNCHANGED <<target, copies, object, record, orphans, at>>

Produce(j) == /\ pc[j] = "produce" /\ at[j] < Size
              /\ at' = [at EXCEPT ![j] = @ + 1]
              /\ UNCHANGED <<params, target, copies, export, orphans, tally, pc, up>>

ProduceEnds(j) == /\ at[j] = Size /\ Step(j, "produce", "await")
                  /\ at' = [at EXCEPT ![j] = 0]
                  /\ UNCHANGED <<target, copies, export, orphans>>

ProduceFails(j) == /\ pc[j] = "produce" /\ GiveUp(j)
                   /\ UNCHANGED <<target, copies, export, orphans>>

\* Mutant: the row is written while the upload is under way.
PutStoredMutant(j) == /\ Step(j, "await", "record")
                      /\ UNCHANGED <<target, copies, export, orphans, at>>

PutStored(j) == /\ Step(j, "await", "record")
                /\ puts' = puts \ {Self(j)}
                /\ object' = [object EXCEPT ![j] = [by |-> runs[j], whole |-> TRUE]]
                /\ UNCHANGED <<target, copies, record, orphans, at>>

PutRejects(j) == /\ pc[j] = "await" /\ GiveUp(j)
                 /\ puts' = puts \ {Self(j)}
                 /\ UNCHANGED <<target, copies, object, record, orphans>>

\* An upload that rejects before its processor awaits it, or after it gave up.
PutRejectsUnheard(p) == /\ p \in puts /\ ~(pc[p[1]] = "await" /\ Self(p[1]) = p)
                        /\ Die

\* A dump that failed closed its pipe: the upload ends with what there was.  The
\* stream of the rows is not ended, its upload stays open.
LatePut(p) ==
  /\ p \in puts /\ kind[p[1]] = "exportSql"
  /\ ~(pc[p[1]] \in {"produce", "await"} /\ Self(p[1]) = p)
  /\ puts' = puts \ {p}
  /\ object' = [object EXCEPT ![p[1]] = [by |-> p[2], whole |-> FALSE]]
  /\ UNCHANGED <<params, target, copies, record, orphans, tally, pc, at, up>>

\* backup.create: the jobId of a row is unique.
Record(j) ==
  /\ pc[j] = "record"
  /\ \/ /\ record[j] = 0 /\ record' = [record EXCEPT ![j] = runs[j]]
        /\ Step(j, "record", "finish") /\ UNCHANGED <<at>>
     \/ /\ record' \in {record, [record EXCEPT ![j] = IF @ = 0 THEN runs[j] ELSE @]}
        /\ GiveUp(j)
  /\ UNCHANGED <<target, copies, object, puts, orphans>>

----------------------------------------------------------------------------
Deliver(j) == \/ Take(j) \/ Throw(j) \/ Fail(j) \/ Finish(j)
              \/ Fetch(j) \/ SpawnDump(j) \/ ReportDump(j)
              \/ DumpRejects(j)
              \/ Insert(j) \/ InsertUnanswered(j) \/ InsertsEnd(j)
              \/ StartPut(j) \/ Produce(j) \/ ProduceEnds(j) \/ ProduceFails(j)
              \/ PutStored(j) \/ PutRejects(j) \/ Record(j)

Restore(w) == \/ EnsureDatabase(w) \/ CreateDatabase(w) \/ Execute(w)
              \/ CallEnds(w) \/ CallRejects(w) \/ PipeBreaks(w)

Next == \/ \E w \in Writer : Restore(w)
        \/ \E j \in Jobs : Deliver(j) \/ CheckStalled(j)
        \/ \E p \in puts : PutRejectsUnheard(p) \/ LatePut(p)
        \/ DumpRejectsUnheard \/ Crash \/ Restart

Spec == Init /\ [][Next]_vars

----------------------------------------------------------------------------
(* Properties. *)

Loads(j) == kind[j] \in {"restore", "clone"}

\* A restore or clone that is reported as completed left its whole script in the
\* target: each table is the one it created and has its rows, once, and no others.
\* On Postgres that holds whatever half filled the target before, and whatever
\* restores, re-runs and left over clients come beside or after it; on MySQL, where
\* they drop each other's tables, as long as none of them has executed a statement
\* since its own first one.
CompletedIsWhole ==
  \A j \in Jobs :
    Loads(j) /\ queue[j] = "completed" /\ (engine = "postgres" \/ tail = Self(j)) =>
      \A i \in Tables : /\ owner[i] = Self(j)
                        /\ (Torn(j) => i < Size) => rows[i] = {Self(j)}

\* Batches are never skipped or overtaken: one that was inserted n times follows
\* one that was inserted at least as often, no batch more often than the job was
\* delivered; a completed import has all of them, and once if it was delivered once.
ImportedInOrder ==
  \A j \in Jobs :
    /\ \A i \in Tables : /\ copies[j][i] <= runs[j]
                         /\ i < Size => copies[j][i + 1] <= copies[j][i]
    /\ kind[j] = "import" /\ queue[j] = "completed" =>
         \A i \in Tables : copies[j][i] >= 1 /\ (runs[j] = 1 => copies[j][i] = 1)

\* An export is completed only with a row and an object, and the object is whole
\* if it is the one that was recorded.
ExportIsRecorded ==
  \A j \in Jobs : /\ Exports(j) /\ queue[j] = "completed" => record[j] # 0
                  /\ record[j] # 0 => object[j].by # 0
                  /\ record[j] # 0 /\ object[j].by = record[j] => object[j].whole
=============================================================================
