----------------------------- MODULE BackupJob ------------------------------
(***************************************************************************)
(* The backup queue: JobLifecycle with backup.processor.ts as its middle   *)
(* part.  Each delivery of a job dumps the database as it is then, streams *)
(* the dump to one object whose key depends on the job only, and records   *)
(* a Backup row, unique per job, with the checksum of what it streamed.    *)
(*                                                                         *)
(* A dump is named by the delivery that made it.  An upload outlives the   *)
(* await of the processor when the dump fails first: Promise.all rejects,  *)
(* the storage goes on writing what the dump produced.                     *)
(***************************************************************************)
EXTENDS JobLifecycle

CONSTANTS NoDump   \* no object under the key, or no Backup row

ASSUME NoDumpAssumption == NoDump \notin Nat

VARIABLES
  object,   \* storage: whose dump lies under the job's key, and is it whole
  backup,   \* Postgres: which dump the job's Backup row has the checksum of
  turn,     \* the delivery a slot runs
  puts      \* uploads under way: slot, job, turn; "await"ed or abandoned

backupVars == <<object, backup, turn, puts>>
bvars == <<vars, backupVars>>

\* The steps of the middle part; "work" is its first.
Steps == {"work", "dump", "report", "stream", "await", "record"}

Content == [by : Nat \cup {NoDump}, whole : BOOLEAN]
Put     == [slot : Slots, job : Jobs, by : Nat]

\* JobLifecycle with these steps taken for its one place "work".
L == INSTANCE JobLifecycle WITH
       Milestones <- {5, 30},
       pc <- [w \in Slots |-> IF pc[w] \in Steps THEN "work" ELSE pc[w]]

BackupTypeOK ==
  /\ L!TypeOK
  /\ pc     \in [Slots -> Pc \cup Steps]
  /\ object \in [Jobs -> Content]
  /\ backup \in [Jobs -> Nat \cup {NoDump}]
  /\ turn   \in [Slots -> Nat]
  /\ puts   \subseteq Put

BackupInit ==
  /\ Init
  /\ object = [j \in Jobs |-> [by |-> NoDump, whole |-> FALSE]]
  /\ backup = [j \in Jobs |-> NoDump]
  /\ turn   = [w \in Slots |-> 0]
  /\ puts   = {}

OwnPut(w) == [slot |-> w, job |-> job[w], by |-> turn[w]]
Store(j, by, whole) == object' = [object EXCEPT ![j] = [by |-> by, whole |-> whole]]

\* A step of the middle part that touches nothing outside it.
Step(w, from, to) ==
  /\ pc[w] = from
  /\ Goto(w, to)
  /\ UNCHANGED <<status, request, queueVars, toldVars, turn>>

BackupReserve(w, j) ==
  /\ Reserve(w, j)
  /\ turn' = [turn EXCEPT ![w] = starts'[j]]
  /\ UNCHANGED <<object, backup, puts>>

----------------------------------------------------------------------------
\* updateProgress: announced, or rejected with the row written or not.
Report(w, from, to, m) ==
  /\ \/ /\ Step(w, from, to)
        /\ progress' = [progress EXCEPT ![job[w]] = m]
        /\ Emit(job[w], "running")
     \/ /\ "call" \in Faults
        /\ Step(w, from, "catch")
        /\ \/ UNCHANGED <<progress, announced>>
           \/ /\ progress' = [progress EXCEPT ![job[w]] = m]
              /\ Emit(job[w], "running") \/ UNCHANGED announced
  /\ UNCHANGED <<object, backup, puts>>

ReportStart(w)  == Report(w, "work", "dump", 5)
ReportUpload(w) == Report(w, "report", "stream", 30)

\* adapter.dump spawns the client program.  That it could not, or that the dump
\* ended with an error before it is awaited, is heard of by nobody: BackupCrash.
SpawnDump(w) ==
  /\ Step(w, "dump", "report")
  /\ UNCHANGED <<progress, announced, object, backup, puts>>

\* Mutant: an upload is known by its job.
StartPutMutant(w) ==
  /\ Step(w, "stream", "await")
  /\ puts' = puts \cup {job[w]}
  /\ UNCHANGED <<progress, announced, object, backup>>

StartPut(w) ==
  /\ Step(w, "stream", "await")
  /\ puts' = puts \cup {OwnPut(w)}
  /\ UNCHANGED <<progress, announced, object, backup>>

\* Mutant: the exit of the dump is not awaited.
PutDoneMutant(w) ==
  /\ Step(w, "await", "record")
  /\ \E whole \in BOOLEAN : Store(job[w], turn[w], whole)
  /\ puts' = puts \ {OwnPut(w)}
  /\ UNCHANGED <<progress, announced, backup>>

\* Both promises resolved: the dump exited well and all of it is stored.
PutDone(w) ==
  /\ Step(w, "await", "record")
  /\ Store(job[w], turn[w], TRUE)
  /\ puts' = puts \ {OwnPut(w)}
  /\ UNCHANGED <<progress, announced, backup>>

\* Mutant: the two promises are awaited outside the try.
DumpFailsMutant(w) ==
  /\ Step(w, "await", "throw")
  /\ UNCHANGED <<progress, announced, object, backup, puts>>

\* The dump exits with an error before the upload is over.
DumpFails(w) ==
  /\ Step(w, "await", "catch")
  /\ UNCHANGED <<progress, announced, object, backup, puts>>

\* The upload rejects; a storage without atomic puts may keep a torn object.
PutFails(w) ==
  /\ Step(w, "await", "catch")
  /\ puts' = puts \ {OwnPut(w)}
  /\ Store(job[w], turn[w], FALSE) \/ UNCHANGED object
  /\ UNCHANGED <<progress, announced, backup>>

\* The upload of an attempt that has given up ends: what it stores is the
\* output of a dump that failed.
LatePut(p) ==
  /\ p \in puts
  /\ ~(pc[p.slot] = "await" /\ OwnPut(p.slot) = p)
  /\ puts' = puts \ {p}
  /\ Store(p.job, p.by, FALSE) \/ UNCHANGED object
  /\ UNCHANGED <<vars, backup, turn>>

\* Mutant: a rejected create is ignored.
RecordIgnoredMutant(w) ==
  /\ Step(w, "record", "finish")
  /\ \/ UNCHANGED backup
     \/ /\ backup[job[w]] = NoDump
        /\ backup' = [backup EXCEPT ![job[w]] = turn[w]]
  /\ UNCHANGED <<progress, announced, object, puts>>

\* backup.create: Backup.jobId is unique, its server must still exist.
RecordBackup(w) ==
  /\ \/ /\ Step(w, "record", "finish")
        /\ backup[job[w]] = NoDump
        /\ backup' = [backup EXCEPT ![job[w]] = turn[w]]
     \/ Step(w, "record", "catch") /\ UNCHANGED backup
     \/ /\ "call" \in Faults
        /\ Step(w, "record", "catch")
        /\ backup[job[w]] = NoDump
        /\ backup' = [backup EXCEPT ![job[w]] = turn[w]]
  /\ UNCHANGED <<progress, announced, object, puts>>

\* The two reports of this processor that death may cut in half.
HalfReport(w) ==
  \/ pc[w] = "work"   /\ progress' = [progress EXCEPT ![job[w]] = 5]
  \/ pc[w] = "report" /\ progress' = [progress EXCEPT ![job[w]] = 30]

\* The process dies: the dump failed while nobody awaited it (between SpawnDump
\* and StartPut), or another job's work did.  The uploads of a process die with it.
BackupCrash(w) ==
  /\ Die(w)
  /\ \/ (HalfMarked(w) \/ UNCHANGED <<status, progress>>) /\ UNCHANGED backup
     \/ HalfReport(w) /\ UNCHANGED <<status, backup>>
     \/ /\ pc[w] = "record" /\ backup[job[w]] = NoDump
        /\ backup' = [backup EXCEPT ![job[w]] = turn[w]]
        /\ UNCHANGED <<status, progress>>
  /\ puts' = {p \in puts : p.slot # w}
  /\ \/ UNCHANGED object
     \/ \E p \in puts : p.slot = w /\ Store(p.job, p.by, FALSE)
  /\ UNCHANGED turn

----------------------------------------------------------------------------
BackupWork(w) == \/ ReportStart(w) \/ SpawnDump(w) \/ ReportUpload(w) \/ StartPut(w)
                 \/ PutDone(w) \/ DumpFails(w) \/ PutFails(w) \/ RecordBackup(w)

BackupNext ==
  \/ \E w \in Slots : BackupWork(w) \/ BackupCrash(w)
  \/ \E w \in Slots, j \in Jobs : BackupReserve(w, j)
  \/ \E p \in puts : LatePut(p)
  \/ /\ \/ \E j \in Jobs : Route(j) \/ AbandonRequest(j) \/ Timer(j)
        \/ \E w \in Slots : Process(w) \/ Lapse(w)
     /\ UNCHANGED backupVars

BackupSpec == BackupInit /\ [][BackupNext]_bvars

----------------------------------------------------------------------------
(* Properties. *)

\* The backup processor behaves as the skeleton says: whatever JobLifecycle
\* promises of every job holds of backup jobs.
LifecycleImplemented == L!Spec

\* The bookkeeping of a job agrees with its artifact: a job is done only when
\* its backup is recorded, a recorded backup has an object, and the object is
\* whole unless an attempt other than the recorded one wrote it.
DoneIsRecorded ==
  \A j \in Jobs : /\ status[j] = "done" => backup[j] # NoDump
                  /\ backup[j] # NoDump => object[j].by # NoDump
                  /\ backup[j] # NoDump /\ object[j].by = backup[j] => object[j].whole

\* The first delivery of a job leaves nothing behind that could spoil what it
\* recorded: until a second one starts, the checksum is that of the object.
FirstDeliveryIsIntact ==
  \A j \in Jobs : starts[j] = 1 /\ backup[j] # NoDump
                    => object[j] = [by |-> backup[j], whole |-> TRUE]
=============================================================================
