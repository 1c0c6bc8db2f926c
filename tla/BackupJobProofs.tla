-------------------------- MODULE BackupJobProofs --------------------------
(***************************************************************************)
(* Proofs about BackupJob.  First that it implements JobLifecycle: every   *)
(* step of the backup processor is a step of the skeleton or leaves its    *)
(* state alone.  With that, what JobLifecycleProofs says of the skeleton   *)
(* holds of backups, and the proof of what is peculiar to them, how rows   *)
(* and objects agree, starts from there.                                   *)
(***************************************************************************)
EXTENDS BackupJob, TLAPS

LP == INSTANCE JobLifecycleProofs WITH
        Milestones <- {5, 30},
        pc <- [w \in Slots |-> IF pc[w] \in Steps THEN "work" ELSE pc[w]]

\* The places a slot of the backup worker can be at.
Places == Pc \cup Steps
PlaceOK == pc \in [Slots -> Places]

\* The place of the skeleton a place of the backup processor stands for.
Bar(l) == IF l \in Steps THEN "work" ELSE l

----------------------------------------------------------------------------
\* A slot never leaves the places of the processor.
LEMMA PlaceStep == ASSUME PlaceOK, [BackupNext]_bvars PROVE PlaceOK'
<1> USE DEF PlaceOK, Places
<1>1. ASSUME NEW w \in Slots, BackupWork(w) PROVE PlaceOK'
  BY <1>1 DEF BackupWork, ReportStart, ReportUpload, Report, SpawnDump, StartPut, PutDone, DumpFails, PutFails, RecordBackup, Step, Goto, Pc, Steps
<1>2. ASSUME NEW w \in Slots, Process(w) PROVE PlaceOK'
  BY <1>2 DEF Process, OpenAdapter, MarkRunning, MarkDone, AuditDone, NotifyDone, MarkFailed, AuditFailed, NotifyFailed, CloseThrows, Complete, Fail, MarkAs, Notify, Goto, Leave, Pc
<1>3. ASSUME NEW w \in Slots, BackupCrash(w) \/ Lapse(w) PROVE PlaceOK'
  BY <1>3 DEF BackupCrash, Die, Lapse, Leave, slotVars, Pc
<1>4. ASSUME NEW w \in Slots, NEW j \in Jobs, BackupReserve(w, j) PROVE PlaceOK'
  BY <1>4 DEF BackupReserve, Reserve, Pc
<1>5. ASSUME NEW j \in Jobs, Route(j) \/ AbandonRequest(j) \/ Timer(j) PROVE PlaceOK'
  BY <1>5 DEF Route, CreateJob, Enqueue, AuditRequest, AbandonRequest, Timer, Promote, CheckStalled, slotVars
<1>6. ASSUME NEW p \in puts, LatePut(p) PROVE PlaceOK'
  BY <1>6 DEF LatePut, vars, slotVars
<1>7. CASE UNCHANGED bvars
  BY <1>7 DEF bvars, vars, slotVars
<1> QED
  BY <1>1, <1>2, <1>3, <1>4, <1>5, <1>6, <1>7 DEF BackupNext

\* Moving to a place is, in the skeleton, moving to what it stands for.
LEMMA GotoMaps ==
  ASSUME PlaceOK, NEW w \in Slots, NEW l \in Places, Goto(w, l)
  PROVE  L!Goto(w, Bar(l))
BY DEF PlaceOK, Goto, L!Goto, Bar

\* Moving within the middle part is no move of the skeleton.
LEMMA MiddleMoveIsQuiet ==
  ASSUME PlaceOK, NEW w \in Slots, pc[w] \in Steps, NEW l \in Steps, Goto(w, l)
  PROVE  UNCHANGED L!slotVars
BY DEF PlaceOK, Goto, L!slotVars

\* Leaving a job is the same in both.
LEMMA LeaveMaps ==
  ASSUME PlaceOK, NEW w \in Slots, Leave(w)
  PROVE  L!Leave(w)
BY DEF PlaceOK, Leave, L!Leave, Steps

\* Outside its middle part the backup processor is the skeleton.
LEMMA ProcessMaps ==
  ASSUME PlaceOK, NEW w \in Slots, Process(w)
  PROVE  L!Process(w)
<1> USE DEF rowVars, queueVars, toldVars, L!rowVars, L!queueVars, L!toldVars
<1>1. \A l \in {"start", "catch", "auditOk", "notifyOk", "ret", "auditFail", "notifyFail", "throw", "work"} :
         Goto(w, l) => L!Goto(w, l)
  BY GotoMaps DEF Bar, Places, Pc, Steps
<1>2. Leave(w) => L!Leave(w)
  BY LeaveMaps
<1>3. \A l \in Pc \ Steps : pc[w] = l => [v \in Slots |-> IF pc[v] \in Steps THEN "work" ELSE pc[v]][w] = l
  OBVIOUS
<1>4. OpenAdapter(w) => L!OpenAdapter(w)
  BY <1>1, <1>2, <1>3 DEF OpenAdapter, L!OpenAdapter, Pc, Steps
<1>5. MarkRunning(w) => L!MarkRunning(w)
  BY <1>1, <1>2, <1>3 DEF MarkRunning, L!MarkRunning, MarkAs, L!MarkAs, Write, L!Write, Emit, L!Emit, Pc, Steps
<1>6. MarkDone(w) => L!MarkDone(w)
  BY <1>1, <1>2, <1>3 DEF MarkDone, L!MarkDone, MarkAs, L!MarkAs, Write, L!Write, Emit, L!Emit, Pc, Steps
<1>7. AuditDone(w) => L!AuditDone(w)
  BY <1>1, <1>2, <1>3 DEF AuditDone, L!AuditDone, Record, L!Record, Pc, Steps
<1>8. NotifyDone(w) => L!NotifyDone(w)
  BY <1>1, <1>2, <1>3 DEF NotifyDone, L!NotifyDone, Notify, L!Notify, Pc, Steps
<1>9. MarkFailed(w) => L!MarkFailed(w)
  BY <1>1, <1>2, <1>3 DEF MarkFailed, L!MarkFailed, MarkAs, L!MarkAs, Write, L!Write, Emit, L!Emit, Pc, Steps
<1>10. AuditFailed(w) => L!AuditFailed(w)
  BY <1>1, <1>2, <1>3 DEF AuditFailed, L!AuditFailed, Record, L!Record, Pc, Steps
<1>11. NotifyFailed(w) => L!NotifyFailed(w)
  BY <1>1, <1>2, <1>3 DEF NotifyFailed, L!NotifyFailed, Notify, L!Notify, Pc, Steps
<1>12. CloseThrows(w) => L!CloseThrows(w)
  BY <1>1, <1>2, <1>3 DEF CloseThrows, L!CloseThrows, Pc, Steps
<1>13. Complete(w) => L!Complete(w)
  BY <1>1, <1>2, <1>3 DEF Complete, L!Complete, Settle, L!Settle, HoldsLock, L!HoldsLock, Pc, Steps
<1>14. Fail(w) => L!Fail(w)
  BY <1>1, <1>2, <1>3 DEF Fail, L!Fail, Settle, L!Settle, HoldsLock, L!HoldsLock, Retryable, L!Retryable, Pc, Steps
<1> QED
  BY <1>4, <1>5, <1>6, <1>7, <1>8, <1>9, <1>10, <1>11, <1>12, <1>13, <1>14 DEF Process, L!Process

\* A step from one place of the middle part to another that reports nothing
\* is none of the skeleton.
LEMMA MiddleGoesOn ==
  ASSUME PlaceOK, NEW w \in Slots, NEW from \in Steps, NEW to \in Steps,
         Step(w, from, to), UNCHANGED <<progress, announced>>
  PROVE  UNCHANGED L!vars
<1>1. UNCHANGED L!slotVars
  BY MiddleMoveIsQuiet DEF Step, Places
<1> QED
  BY <1>1 DEF Step, L!vars, L!rowVars, L!queueVars, L!toldVars, L!slotVars,
              queueVars, toldVars

\* Its end is the end of the skeleton's work, well or with an error.
LEMMA MiddleEnds ==
  ASSUME PlaceOK, NEW w \in Slots, NEW from \in Steps, NEW to \in {"catch", "finish"},
         Step(w, from, to), UNCHANGED <<progress, announced>>
  PROVE  L!Work(w)
<1>1. L!Goto(w, to)
  BY GotoMaps DEF Step, Places, Pc, Steps, Bar
<1>2. [v \in Slots |-> IF pc[v] \in Steps THEN "work" ELSE pc[v]][w] = "work"
  BY DEF Step
<1>3. CASE to = "catch"
  <2>1. L!ThrowWork(w)
    BY <1>1, <1>2, <1>3
    DEF Step, L!ThrowWork, L!rowVars, L!queueVars, L!toldVars, queueVars, toldVars
  <2> QED
    BY <2>1 DEF L!Work
<1>4. CASE to = "finish"
  <2>1. L!FinishWork(w)
    BY <1>1, <1>2, <1>4
    DEF Step, L!FinishWork, L!rowVars, L!queueVars, L!toldVars, queueVars, toldVars
  <2> QED
    BY <2>1 DEF L!Work
<1> QED
  BY <1>3, <1>4

\* A report is one of the skeleton: announced, or rejected with the row written
\* or not.
LEMMA ReportMaps ==
  ASSUME PlaceOK, NEW w \in Slots, NEW from \in Steps, NEW to \in Steps, NEW m \in {5, 30},
         Report(w, from, to, m)
  PROVE  L!Work(w)
<1>1. L!Clamp(m) = m
  BY DEF L!Clamp
<1>2. CASE /\ Step(w, from, to) /\ Emit(job[w], "running")
           /\ progress' = [progress EXCEPT ![job[w]] = m]
  <2>1. UNCHANGED L!slotVars
    BY <1>2, MiddleMoveIsQuiet DEF Step
  <2>2. L!ReportProgress(w, m)
    BY <1>1, <1>2, <2>1
    DEF Step, Emit, L!Emit, L!ReportProgress, L!slotVars, L!queueVars, L!toldVars,
        queueVars, toldVars
  <2> QED
    BY <2>2 DEF L!Work
<1>3. CASE /\ "call" \in Faults /\ Step(w, from, "catch")
           /\ Emit(job[w], "running") \/ UNCHANGED announced
           /\ progress' = [progress EXCEPT ![job[w]] = m]
  <2>1. L!Goto(w, "catch")
    BY <1>3, GotoMaps DEF Step, Places, Pc, Steps, Bar
  <2>2. L!ReportThrows(w, m)
    BY <1>1, <1>3, <2>1
    DEF Step, Emit, L!Emit, L!ReportThrows, L!queueVars, L!toldVars, queueVars, toldVars
  <2> QED
    BY <2>2 DEF L!Work
<1>4. CASE Step(w, from, "catch") /\ UNCHANGED <<progress, announced>>
  BY <1>4, MiddleEnds
<1> QED
  BY <1>2, <1>3, <1>4 DEF Report

\* The middle part of the backup processor is one the skeleton allows.
LEMMA WorkMaps ==
  ASSUME PlaceOK, NEW w \in Slots, BackupWork(w)
  PROVE  L!Work(w) \/ UNCHANGED L!vars
<1>1. CASE ReportStart(w) \/ ReportUpload(w)
  BY <1>1, ReportMaps DEF ReportStart, ReportUpload, Steps
<1>2. CASE SpawnDump(w)
  BY <1>2, MiddleGoesOn DEF SpawnDump, Steps
<1>3. CASE StartPut(w) \/ PutDone(w)
  BY <1>3, MiddleGoesOn DEF StartPut, PutDone, Steps
<1>4. CASE DumpFails(w) \/ PutFails(w)
  BY <1>4, MiddleEnds DEF DumpFails, PutFails, Steps
<1>5. CASE RecordBackup(w)
  BY <1>5, MiddleEnds DEF RecordBackup, Steps
<1> QED
  BY <1>1, <1>2, <1>3, <1>4, <1>5 DEF BackupWork

\* A crash of the backup worker is one of the skeleton, whatever becomes of its
\* uploads and of the row it was about to write.
LEMMA CrashMaps ==
  ASSUME PlaceOK, NEW w \in Slots, BackupCrash(w)
  PROVE  L!Crash(w)
<1>1. L!Die(w)
  BY LeaveMaps DEF BackupCrash, Die, L!Die, Unlock, L!Unlock, toldVars, L!toldVars, Steps
<1>2. CASE HalfMarked(w) \/ UNCHANGED <<status, progress>>
  BY <1>1, <1>2 DEF L!Crash, HalfMarked, L!HalfMarked, Write, L!Write, Steps
<1>3. CASE HalfReport(w) /\ UNCHANGED status
  <2>1. \A m \in {5, 30} : L!Clamp(m) = m
    BY DEF L!Clamp
  <2>2. L!HalfReported(w)
    BY <1>3, <2>1 DEF HalfReport, L!HalfReported, Steps
  <2> QED
    BY <1>1, <2>2 DEF L!Crash
<1> QED
  BY <1>2, <1>3 DEF BackupCrash

\* Each step of the backup queue is a step of the skeleton or a stutter.
LEMMA NextMaps == ASSUME PlaceOK, [BackupNext]_bvars PROVE [L!Next]_L!vars
<1> USE DEF rowVars, queueVars, toldVars, slotVars,
            L!rowVars, L!queueVars, L!toldVars, L!slotVars
<1>1. ASSUME NEW w \in Slots, BackupWork(w) PROVE [L!Next]_L!vars
  BY <1>1, WorkMaps DEF L!Next
<1>2. ASSUME NEW w \in Slots, BackupCrash(w) PROVE [L!Next]_L!vars
  BY <1>2, CrashMaps DEF L!Next
<1>3. ASSUME NEW w \in Slots, NEW j \in Jobs, BackupReserve(w, j) PROVE [L!Next]_L!vars
  <2>1. L!Reserve(w, j)
    BY <1>3 DEF BackupReserve, Reserve, L!Reserve, PlaceOK, Steps
  <2> QED
    BY <2>1 DEF L!Next
<1>4. ASSUME NEW p \in puts, LatePut(p) PROVE [L!Next]_L!vars
  BY <1>4 DEF LatePut, vars, L!vars
<1>5. ASSUME NEW j \in Jobs, Route(j) \/ AbandonRequest(j) \/ Timer(j) PROVE [L!Next]_L!vars
  <2>1. Route(j) => L!Route(j)
    BY DEF Route, L!Route, CreateJob, L!CreateJob, Write, L!Write, Enqueue, L!Enqueue,
           AuditRequest, L!AuditRequest, Record, L!Record
  <2>2. AbandonRequest(j) => L!AbandonRequest(j)
    BY DEF AbandonRequest, L!AbandonRequest
  <2>3. Timer(j) => L!Timer(j)
    BY DEF Timer, L!Timer, Promote, L!Promote, CheckStalled, L!CheckStalled,
           Settle, L!Settle, StallAllowed, L!StallAllowed
  <2> QED
    BY <1>5, <2>1, <2>2, <2>3 DEF L!Next
<1>6. ASSUME NEW w \in Slots, Process(w) PROVE [L!Next]_L!vars
  BY <1>6, ProcessMaps DEF L!Next
<1>7. ASSUME NEW w \in Slots, Lapse(w) PROVE [L!Next]_L!vars
  <2>1. L!Lapse(w)
    BY <1>7 DEF Lapse, L!Lapse, HoldsLock, L!HoldsLock, Unlock, L!Unlock
  <2> QED
    BY <2>1 DEF L!Next
<1>8. CASE UNCHANGED bvars
  BY <1>8 DEF bvars, vars, L!vars
<1> QED
  BY <1>1, <1>2, <1>3, <1>4, <1>5, <1>6, <1>7, <1>8 DEF BackupNext

\* The slots of the backup worker are always at a place of its processor.
LEMMA PlaceAlwaysOK == BackupSpec => []PlaceOK
<1>1. BackupInit => PlaceOK
  BY DEF BackupInit, Init, PlaceOK, Places, Pc
<1> QED
  BY <1>1, PlaceStep, PTL DEF BackupSpec

\* The backup processor, its uploads, its Backup row and its crashes included,
\* implements the skeleton of JobLifecycle, under every kind of fault.
THEOREM ImplementsLifecycle == BackupSpec => LifecycleImplemented
<1>1. BackupInit => L!Init
  BY DEF BackupInit, Init, L!Init, Steps
<1> QED
  BY <1>1, NextMaps, PlaceAlwaysOK, PTL DEF BackupSpec, LifecycleImplemented, L!Spec

----------------------------------------------------------------------------
\* The skeleton BackupJob refines is the one JobLifecycleProofs is about.
LEMMA SameSkeleton == L!Spec <=> LP!Spec
<1>1. L!Init <=> LP!Init
  BY DEF L!Init, LP!Init
<1>2. [L!Next]_L!vars <=> [LP!Next]_LP!vars
  BY DEF L!CreateJob, LP!CreateJob, L!Enqueue, LP!Enqueue, L!AuditRequest,
      LP!AuditRequest, L!AbandonRequest, LP!AbandonRequest, L!Reserve,
      LP!Reserve, L!Retryable, LP!Retryable, L!StallAllowed,
      LP!StallAllowed, L!HoldsLock, LP!HoldsLock, L!Leave, LP!Leave,
      L!Settle, LP!Settle, L!Complete, LP!Complete, L!CloseThrows,
      LP!CloseThrows, L!Fail, LP!Fail, L!Promote, LP!Promote,
      L!CheckStalled, LP!CheckStalled, L!Unlock, LP!Unlock,
      L!HalfMarked, LP!HalfMarked, L!HalfReported, LP!HalfReported,
      L!Die, LP!Die, L!Crash, LP!Crash, L!Lapse,
      LP!Lapse, L!OpenAdapter, LP!OpenAdapter, L!MarkAs, LP!MarkAs,
      L!MarkRunning, LP!MarkRunning, L!Clamp, LP!Clamp,
      L!ReportProgress, LP!ReportProgress, L!ReportThrows,
      LP!ReportThrows, L!FinishWork, LP!FinishWork, L!ThrowWork,
      LP!ThrowWork, L!MarkDone, LP!MarkDone, L!MarkFailed,
      LP!MarkFailed, L!AuditDone, LP!AuditDone, L!AuditFailed,
      LP!AuditFailed, L!Notify, LP!Notify, L!NotifyDone,
      LP!NotifyDone, L!NotifyFailed, LP!NotifyFailed, L!Route,
      LP!Route, L!Work, LP!Work, L!Process, LP!Process, L!Timer,
      LP!Timer, L!Next, LP!Next, L!Write, LP!Write, L!Emit, LP!Emit,
      L!Goto, LP!Goto, L!Record, LP!Record, L!rowVars, LP!rowVars,
      L!queueVars, LP!queueVars, L!slotVars, LP!slotVars, L!toldVars,
      LP!toldVars, L!vars, LP!vars
<1> QED
  BY <1>1, <1>2, PTL DEF L!Spec, LP!Spec

\* It is an instance of JobLifecycle like any other.
LEMMA SkeletonAssumptions ==
  /\ LP!AttemptsAssumption /\ LP!MaxStalledAssumption /\ LP!MilestonesAssumption
  /\ LP!IdleAssumption /\ LP!AttendedAssumption
BY AttemptsAssumption, MaxStalledAssumption, IdleAssumption, AttendedAssumption
DEF LP!AttemptsAssumption, LP!MaxStalledAssumption, LP!MilestonesAssumption,
    LP!IdleAssumption, LP!AttendedAssumption

\* So the types and the accounts of the queue hold of backups.
LEMMA SkeletonHolds == BackupSpec => [](L!TypeOK /\ L!QueueInvariant)
<1>1. LP!Spec => []LP!TypeOK /\ []LP!QueueInvariant
  BY SkeletonAssumptions, LP!TypeCorrect, LP!QueueAlwaysConsistent
<1>2. LP!TypeOK => L!TypeOK
  BY DEF LP!TypeOK, L!TypeOK, LP!Status, L!Status, LP!QState, L!QState, LP!Request,
         L!Request, LP!Pc, L!Pc, LP!Outcome, L!Outcome
<1>3. LP!QueueInvariant => L!QueueInvariant
  BY DEF LP!QueueInvariant, L!QueueInvariant
<1> QED
  BY <1>1, <1>2, <1>3, SameSkeleton, ImplementsLifecycle, PTL DEF LifecycleImplemented

\* And so do, unless a lock lapses, the reports.
LEMMA SkeletonReports ==
  ASSUME "lapse" \notin Faults
  PROVE  BackupSpec => [](L!ReportInvariant /\ CompletedIsReported)
<1>1. LP!Spec => [](LP!ReportInvariant /\ LP!CompletedIsReported)
  BY SkeletonAssumptions, LP!ReportAlwaysConsistent
<1>2. LP!ReportInvariant => L!ReportInvariant
  BY DEF LP!ReportInvariant, L!ReportInvariant
<1>3. LP!CompletedIsReported => CompletedIsReported
  BY DEF LP!CompletedIsReported, CompletedIsReported
<1> QED
  BY <1>1, <1>2, <1>3, SameSkeleton, ImplementsLifecycle, PTL DEF LifecycleImplemented

\* Every delivery of a backup job is accounted for, under every kind of fault.
THEOREM BackupStartsAreAccounted == BackupSpec => []StartsAccounted
<1>1. LP!Spec => []LP!StartsAccounted
  BY SkeletonAssumptions, LP!StartsAreAccounted
<1>2. LP!StartsAccounted => StartsAccounted
  BY DEF LP!StartsAccounted, StartsAccounted
<1> QED
  BY <1>1, <1>2, SameSkeleton, ImplementsLifecycle, PTL DEF LifecycleImplemented

\* A backup job the queue counts as completed has a row that says so and an
\* actor who was told.
THEOREM BackupCompletionIsReported ==
  ASSUME "lapse" \notin Faults
  PROVE  BackupSpec => []CompletedIsReported
BY SkeletonReports, PTL

\* A backup job is never run by two slots at once.
THEOREM BackupExecutionIsSole ==
  ASSUME "lapse" \notin Faults
  PROVE  BackupSpec => []SoleExecution
<1>1. L!ReportInvariant => SoleExecution
  BY DEF L!ReportInvariant, SoleExecution
<1> QED
  BY <1>1, SkeletonReports, PTL

----------------------------------------------------------------------------
\* The type of what the backup processor adds, given that of the skeleton.
LEMMA ArtifactTypeStep ==
  ASSUME BackupTypeOK, L!TypeOK', L!QueueInvariant, PlaceOK', [BackupNext]_bvars
  PROVE  BackupTypeOK'
<1> USE DEF PlaceOK, Places, L!Pc, Pc
<1>1. \A w \in Slots : pc[w] # "idle" => job[w] \in Jobs /\ OwnPut(w) \in Put
  BY IdleAssumption DEF BackupTypeOK, L!TypeOK, L!QueueInvariant, OwnPut, Put, Steps
<1>2. \A j \in Jobs, by \in Nat, whole \in BOOLEAN :
         Store(j, by, whole) => object' \in [Jobs -> Content]
  BY DEF Store, BackupTypeOK, Content
<1>3. ASSUME NEW w \in Slots, BackupWork(w) PROVE BackupTypeOK'
  <2>1. pc[w] # "idle" /\ turn' = turn /\ turn[w] \in Nat
    BY <1>3 DEF BackupWork, ReportStart, ReportUpload, Report, SpawnDump, StartPut, PutDone,
                DumpFails, PutFails, RecordBackup, Step, BackupTypeOK
  <2>2. puts' \subseteq Put
    <3>1. puts' \in {puts, puts \cup {OwnPut(w)}, puts \ {OwnPut(w)}}
      BY <1>3 DEF BackupWork, ReportStart, ReportUpload, Report, SpawnDump, StartPut,
                  PutDone, DumpFails, PutFails, RecordBackup
    <3> QED
      BY <1>1, <2>1, <3>1 DEF BackupTypeOK
  <2>3. object' \in [Jobs -> Content]
    BY <1>1, <1>2, <1>3, <2>1 DEF BackupWork, ReportStart, ReportUpload, Report, SpawnDump,
       StartPut, PutDone, DumpFails, PutFails, RecordBackup, BackupTypeOK
  <2>4. backup' \in [Jobs -> Nat \cup {NoDump}]
    BY <1>1, <1>3, <2>1 DEF BackupWork, ReportStart, ReportUpload, Report, SpawnDump,
       StartPut, PutDone, DumpFails, PutFails, RecordBackup, BackupTypeOK
  <2> QED
    BY <2>1, <2>2, <2>3, <2>4 DEF BackupTypeOK
<1>4. ASSUME NEW w \in Slots, BackupCrash(w) PROVE BackupTypeOK'
  <2>1. object' \in [Jobs -> Content]
    BY <1>2, <1>4 DEF BackupCrash, BackupTypeOK, Put
  <2>2. backup' \in [Jobs -> Nat \cup {NoDump}]
    BY <1>1, <1>4 DEF BackupCrash, BackupTypeOK
  <2> QED
    BY <1>4, <2>1, <2>2 DEF BackupCrash, BackupTypeOK
<1>5. ASSUME NEW w \in Slots, NEW j \in Jobs, BackupReserve(w, j) PROVE BackupTypeOK'
  BY <1>5 DEF BackupReserve, BackupTypeOK, L!TypeOK
<1>6. ASSUME NEW p \in puts, LatePut(p) PROVE BackupTypeOK'
  <2>1. object' \in [Jobs -> Content]
    BY <1>2, <1>6 DEF LatePut, BackupTypeOK, Put
  <2> QED
    BY <1>6, <2>1 DEF LatePut, BackupTypeOK
<1>7. CASE UNCHANGED backupVars
  BY <1>7 DEF backupVars, BackupTypeOK
<1>8. CASE UNCHANGED bvars
  BY <1>7, <1>8 DEF bvars
<1> QED
  BY <1>3, <1>4, <1>5, <1>6, <1>7, <1>8 DEF BackupNext

\* Every variable of the backup queue keeps its type, under every kind of fault.
THEOREM BackupTypeCorrect == BackupSpec => []BackupTypeOK
<1>1. BackupInit /\ L!TypeOK /\ PlaceOK => BackupTypeOK
  BY DEF BackupInit, BackupTypeOK, Content, PlaceOK, Places
<1>2. /\ BackupTypeOK /\ L!TypeOK' /\ L!QueueInvariant /\ PlaceOK' /\ [BackupNext]_bvars
      => BackupTypeOK'
  BY ArtifactTypeStep
<1> QED
  BY <1>1, <1>2, SkeletonHolds, PlaceAlwaysOK, PTL DEF BackupSpec

----------------------------------------------------------------------------
\* How rows, objects and uploads agree.  Of a job each slot runs a delivery of
\* its own, and records what it stored: nothing else can still write under its
\* name.  An upload is of a delivery that began, and its slot is known by it.
SlotArtifact(w) ==
  job[w] # NoJob =>
    /\ turn[w] \in 1..starts[job[w]]
    /\ \A v \in Slots \ {w} : job[v] = job[w] => turn[v] # turn[w]
    /\ pc[w] \in {"adapter", "start"} \cup Steps => backup[job[w]] # turn[w]
    /\ pc[w] = "record" =>
         /\ object[job[w]].by # NoDump
         /\ object[job[w]].by = turn[w] => object[job[w]].whole
         /\ \A p \in puts : p.job = job[w] => p.by # turn[w]
    /\ pc[w] \in {"finish", "auditOk", "notifyOk", "ret"} => backup[job[w]] # NoDump

PutArtifact(p) ==
  /\ p.by \in 1..starts[p.job]
  /\ \A w \in Slots : job[w] = p.job /\ turn[w] = p.by => p.slot = w

JobArtifact(j) ==
  /\ status[j] = "done" => backup[j] # NoDump
  /\ object[j].by # NoDump => object[j].by \in 1..starts[j]
  /\ backup[j] # NoDump =>
       /\ backup[j] \in 1..starts[j]
       /\ object[j].by # NoDump
       /\ object[j].by = backup[j] => object[j].whole
       /\ \A p \in puts : p.job = j => p.by # backup[j]

ArtifactInvariant ==
  /\ \A w \in Slots : SlotArtifact(w)
  /\ \A p \in puts : PutArtifact(p)
  /\ \A j \in Jobs : JobArtifact(j)

\* A slot that is not idle runs a job.
LEMMA BusySlot ==
  ASSUME BackupTypeOK, L!QueueInvariant, NEW w \in Slots, pc[w] # "idle" \/ job[w] # NoJob
  PROVE  job[w] \in Jobs /\ job[w] # NoJob /\ pc[w] # "idle" /\ starts[job[w]] \in Nat
BY IdleAssumption DEF BackupTypeOK, L!TypeOK, L!QueueInvariant, Steps

\* A step of the middle part keeps rows, objects and uploads in agreement.
LEMMA WorkKeepsArtifacts ==
  ASSUME BackupTypeOK, L!QueueInvariant, ArtifactInvariant,
         NEW w \in Slots, BackupWork(w)
  PROVE  ArtifactInvariant'
<1> DEFINE j == job[w]
<1>1. /\ pc[w] \in Steps
      /\ job' = job /\ turn' = turn /\ starts' = starts /\ status' = status
      /\ \A v \in Slots \ {w} : pc'[v] = pc[v]
  BY DEF BackupWork, ReportStart, ReportUpload, Report, SpawnDump, StartPut, PutDone,
         DumpFails, PutFails, RecordBackup, Step, Goto, queueVars, BackupTypeOK, Steps
<1>2. /\ j \in Jobs /\ j # NoJob /\ starts[j] \in Nat
      /\ \A v \in Slots \ {w} : job[v] # NoJob => job[v] \in Jobs
  BY <1>1, BusySlot DEF Steps
<1>3. /\ turn[w] \in 1..starts[j] /\ turn[w] \in Nat /\ turn[w] # NoDump
      /\ backup[j] # turn[w]
      /\ \A v \in Slots \ {w} : job[v] = j => turn[v] # turn[w]
  BY <1>1, <1>2, NoDumpAssumption DEF ArtifactInvariant, SlotArtifact
<1>4. OwnPut(w) \in Put /\ OwnPut(w).job = j /\ OwnPut(w).by = turn[w] /\ OwnPut(w).slot = w
  BY <1>2, <1>3 DEF OwnPut, Put
<1>5. \A p \in puts : p.job = j /\ p.by = turn[w] => p = OwnPut(w)
  BY <1>2, <1>3 DEF ArtifactInvariant, PutArtifact, OwnPut, BackupTypeOK, Put
<1>6. CASE ReportStart(w) \/ ReportUpload(w) \/ SpawnDump(w) \/ DumpFails(w)
  <2>1. /\ object' = object /\ backup' = backup /\ puts' = puts
        /\ pc'[w] \in (Steps \ {"record"}) \cup {"catch"}
    BY <1>6 DEF ReportStart, ReportUpload, Report, SpawnDump, DumpFails, Step, Goto,
                BackupTypeOK, Steps
  <2> QED
    BY <1>1, <1>2, <1>3, <2>1
    DEF ArtifactInvariant, SlotArtifact, PutArtifact, JobArtifact, Steps
<1>7. CASE StartPut(w)
  <2>1. /\ object' = object /\ backup' = backup /\ puts' = puts \cup {OwnPut(w)}
        /\ pc'[w] = "await"
    BY <1>7 DEF StartPut, Step, Goto, BackupTypeOK
  <2>2. \A v \in Slots : SlotArtifact(v)'
    BY <1>1, <1>2, <1>3, <1>4, <2>1 DEF ArtifactInvariant, SlotArtifact, Steps
  <2>3. \A p \in puts' : PutArtifact(p)'
    BY <1>1, <1>2, <1>3, <1>4, <2>1 DEF ArtifactInvariant, PutArtifact
  <2>4. \A i \in Jobs : JobArtifact(i)'
    BY <1>1, <1>2, <1>3, <1>4, <2>1 DEF ArtifactInvariant, JobArtifact
  <2> QED
    BY <2>2, <2>3, <2>4 DEF ArtifactInvariant
<1>8. CASE PutDone(w) \/ PutFails(w)
  <2>1. /\ backup' = backup /\ puts' = puts \ {OwnPut(w)}
        /\ \A i \in Jobs \ {j} : object'[i] = object[i]
    BY <1>8 DEF PutDone, PutFails, Store, BackupTypeOK
  <2>2. \/ /\ pc'[w] = "record"
           /\ object'[j].by = turn[w] /\ object'[j].whole
        \/ /\ pc'[w] = "catch"
           /\ object'[j] = object[j] \/ object'[j].by = turn[w]
    BY <1>2, <1>8 DEF PutDone, PutFails, Store, Step, Goto, BackupTypeOK
  <2>3. \A v \in Slots : SlotArtifact(v)'
    <3>1. SlotArtifact(w)'
      BY <1>1, <1>2, <1>3, <1>5, <2>1, <2>2 DEF ArtifactInvariant, SlotArtifact, Steps
    <3>2. ASSUME NEW v \in Slots \ {w}, job[v] # NoJob PROVE SlotArtifact(v)'
      <4>1. SlotArtifact(v) /\ job[v] \in Jobs /\ (job[v] = j => turn[v] # turn[w])
        BY <1>2, <1>3, <3>2 DEF ArtifactInvariant
      <4> QED
        BY <1>1, <1>2, <1>3, <2>1, <2>2, <3>2, <4>1 DEF SlotArtifact
    <3> QED
      BY <1>1, <3>1, <3>2 DEF SlotArtifact
  <2>4. \A p \in puts' : PutArtifact(p)'
    BY <1>1, <2>1 DEF ArtifactInvariant, PutArtifact
  <2>5. \A i \in Jobs : JobArtifact(i)'
    BY <1>1, <1>2, <1>3, <2>1, <2>2 DEF ArtifactInvariant, JobArtifact
  <2> QED
    BY <2>3, <2>4, <2>5 DEF ArtifactInvariant
<1>9. CASE RecordBackup(w)
  <2>1. /\ object' = object /\ puts' = puts /\ pc[w] = "record"
        /\ \A i \in Jobs \ {j} : backup'[i] = backup[i]
        /\ \/ pc'[w] = "catch" /\ backup'[j] = backup[j]
           \/ pc'[w] \in {"finish", "catch"} /\ backup'[j] = turn[w]
    BY <1>2, <1>9 DEF RecordBackup, Step, Goto, BackupTypeOK
  <2>2. \A v \in Slots : SlotArtifact(v)'
    <3>1. SlotArtifact(w)'
      BY <1>1, <1>2, <1>3, <2>1, NoDumpAssumption DEF ArtifactInvariant, SlotArtifact, Steps
    <3>2. ASSUME NEW v \in Slots \ {w}, job[v] # NoJob PROVE SlotArtifact(v)'
      <4>1. SlotArtifact(v) /\ job[v] \in Jobs /\ (job[v] = j => turn[v] # turn[w])
        BY <1>2, <1>3, <3>2 DEF ArtifactInvariant
      <4> QED
        BY <1>1, <1>2, <1>3, <2>1, <3>2, <4>1 DEF SlotArtifact
    <3> QED
      BY <1>1, <3>1, <3>2 DEF SlotArtifact
  <2>3. \A i \in Jobs : JobArtifact(i)'
    BY <1>1, <1>2, <1>3, <2>1 DEF ArtifactInvariant, SlotArtifact, JobArtifact
  <2> QED
    BY <1>1, <2>1, <2>2, <2>3 DEF ArtifactInvariant, PutArtifact
<1> QED
  BY <1>6, <1>7, <1>8, <1>9 DEF BackupWork

\* What a step of the skeleton's own part of the processor does to what the
\* artifacts depend on: "done" is written only from "finish", and no place is
\* reached whose claim the place before it did not make.
LEMMA ProcessMoves ==
  ASSUME BackupTypeOK, L!QueueInvariant, NEW w \in Slots, Process(w)
  PROVE  /\ starts' = starts
         /\ \A v \in Slots \ {w} : pc'[v] = pc[v] /\ job'[v] = job[v]
         /\ job'[w] \in {job[w], NoJob}
         /\ pc'[w] \in {"adapter", "start"} \cup Steps =>
              pc[w] \in {"adapter", "start"} \cup Steps
         /\ pc'[w] \notin {"record", "finish"}
         /\ pc'[w] \in {"auditOk", "notifyOk", "ret"} =>
              pc[w] \in {"finish", "auditOk", "notifyOk", "ret"}
         /\ \A i \in Jobs : status'[i] = "done" =>
              status[i] = "done" \/ (i = job[w] /\ pc[w] = "finish")
<1> USE DEF BackupTypeOK, L!TypeOK, Steps, Pc, rowVars, queueVars, toldVars
<1>1. CASE OpenAdapter(w) \/ CloseThrows(w)
  BY <1>1 DEF OpenAdapter, CloseThrows, Goto
<1>2. CASE MarkRunning(w) \/ MarkDone(w) \/ MarkFailed(w)
  <2>1. job[w] \in Jobs
    BY <1>2, BusySlot DEF MarkRunning, MarkDone, MarkFailed
  <2> QED
    BY <1>2, <2>1 DEF MarkRunning, MarkDone, MarkFailed, MarkAs, Write, Goto
<1>3. CASE AuditDone(w) \/ AuditFailed(w)
  BY <1>3 DEF AuditDone, AuditFailed, Goto
<1>4. CASE NotifyDone(w) \/ NotifyFailed(w)
  BY <1>4 DEF NotifyDone, NotifyFailed, Notify, Goto
<1>5. CASE Complete(w) \/ Fail(w)
  BY <1>5 DEF Complete, Fail, Settle, Leave
<1> QED
  BY <1>1, <1>2, <1>3, <1>4, <1>5 DEF Process

\* So it keeps them in agreement.
LEMMA ProcessKeepsArtifacts ==
  ASSUME BackupTypeOK, L!QueueInvariant, ArtifactInvariant,
         NEW w \in Slots, Process(w), UNCHANGED backupVars
  PROVE  ArtifactInvariant'
<1>1. UNCHANGED <<object, backup, turn, puts, starts>>
  BY ProcessMoves DEF backupVars
<1>2. SlotArtifact(w)'
  <2>1. SlotArtifact(w)
    BY DEF ArtifactInvariant
  <2> QED
    BY <1>1, <2>1, ProcessMoves DEF SlotArtifact, Steps
<1>3. \A v \in Slots \ {w} : SlotArtifact(v)'
  BY <1>1, ProcessMoves DEF ArtifactInvariant, SlotArtifact
<1>4. \A p \in puts : PutArtifact(p)'
  <2>1. \A p \in puts : p.job # NoJob
    BY IdleAssumption DEF BackupTypeOK, Put
  <2> QED
    BY <1>1, <2>1, ProcessMoves DEF ArtifactInvariant, PutArtifact
<1>5. \A i \in Jobs : JobArtifact(i)'
  <2>1. job[w] \in Jobs /\ pc[w] = "finish" => backup[job[w]] # NoDump
    BY IdleAssumption DEF ArtifactInvariant, SlotArtifact
  <2> QED
    BY <1>1, <2>1, ProcessMoves DEF ArtifactInvariant, JobArtifact
<1> QED
  BY <1>1, <1>2, <1>3, <1>4, <1>5 DEF ArtifactInvariant

\* An upload that ends badly replaces at most its own object, by a dump that
\* was under way.
LEMMA TornObject ==
  ASSUME BackupTypeOK, ArtifactInvariant, NEW p \in puts, Store(p.job, p.by, FALSE)
  PROVE  \A i \in Jobs :
           \/ object'[i] = object[i]
           \/ /\ object'[i].by # NoDump /\ object'[i].by \in 1..starts[i]
              /\ \E q \in puts : q.job = i /\ q.by = object'[i].by
<1>1. p.job \in Jobs /\ p.by \in Nat
  BY DEF BackupTypeOK, Put
<1>2. p.by # NoDump /\ p.by \in 1..starts[p.job]
  BY <1>1, NoDumpAssumption DEF ArtifactInvariant, PutArtifact
<1>3. object'[p.job].by = p.by /\ \A i \in Jobs \ {p.job} : object'[i] = object[i]
  BY <1>1 DEF Store, BackupTypeOK
<1> QED
  BY <1>2, <1>3

\* The uploads of a process die with it, a torn object is not the recorded one,
\* and what it may have recorded on its way out is what it had stored.
LEMMA CrashKeepsArtifacts ==
  ASSUME BackupTypeOK, L!QueueInvariant, ArtifactInvariant,
         NEW w \in Slots, BackupCrash(w)
  PROVE  ArtifactInvariant'
<1> DEFINE j == job[w]
<1>1. /\ pc[w] # "idle" /\ starts' = starts /\ turn' = turn
      /\ puts' = {p \in puts : p.slot # w}
      /\ job' = [job EXCEPT ![w] = NoJob] /\ pc' = [pc EXCEPT ![w] = "idle"]
  BY DEF BackupCrash, Die, Leave
<1>2. /\ j \in Jobs /\ j # NoJob
      /\ \A v \in Slots \ {w} : job[v] # NoJob => job[v] \in Jobs
  BY <1>1, BusySlot
<1>3. /\ job'[w] = NoJob
      /\ \A v \in Slots \ {w} : pc'[v] = pc[v] /\ job'[v] = job[v]
  BY <1>1 DEF BackupTypeOK, L!TypeOK
<1>4. \/ object' = object
      \/ \E p \in puts : p.slot = w /\ Store(p.job, p.by, FALSE)
  BY DEF BackupCrash
<1>5. \A i \in Jobs :
        \/ object'[i] = object[i]
        \/ /\ object'[i].by # NoDump /\ object'[i].by \in 1..starts[i]
           /\ \E p \in puts : p.job = i /\ p.by = object'[i].by
  BY <1>4, TornObject
<1>6. \A i \in Jobs :
        \/ backup'[i] = backup[i]
        \/ i = j /\ pc[w] = "record" /\ backup'[i] = turn[w]
  BY <1>2 DEF BackupCrash, BackupTypeOK
<1>7. \A i \in Jobs : status'[i] = "done" =>
        status[i] = "done" \/ (i = j /\ pc[w] = "finish")
  BY <1>2 DEF BackupCrash, HalfMarked, Write, BackupTypeOK, L!TypeOK
<1>8. pc[w] = "finish" => backup[j] # NoDump
  BY <1>2 DEF ArtifactInvariant, SlotArtifact
<1>9. pc[w] = "record" =>
        /\ object[j].by # NoDump /\ turn[w] \in 1..starts[j]
        /\ object[j].by = turn[w] => object[j].whole
        /\ \A p \in puts : p.job = j => p.by # turn[w]
        /\ turn[w] # NoDump
  BY <1>1, <1>2, BusySlot, NoDumpAssumption DEF ArtifactInvariant, SlotArtifact
<1>10. \A v \in Slots : SlotArtifact(v)'
  <2>1. ASSUME NEW v \in Slots \ {w}, job[v] # NoJob PROVE SlotArtifact(v)'
    <3>1. /\ SlotArtifact(v) /\ job'[v] = job[v] /\ pc'[v] = pc[v]
          /\ job[v] \in Jobs /\ (job[v] = j => turn[v] # turn[w])
      BY <1>2, <1>3, <2>1 DEF ArtifactInvariant, SlotArtifact
    <3>2. \/ object'[job[v]] = object[job[v]]
          \/ /\ object'[job[v]].by # NoDump
             /\ \E p \in puts : p.job = job[v] /\ p.by = object'[job[v]].by
      BY <1>5, <3>1
    <3>3. \/ backup'[job[v]] = backup[job[v]]
          \/ job[v] = j /\ pc[w] = "record" /\ backup'[job[v]] = turn[w]
      BY <1>6, <3>1
    <3>4. \A u \in Slots \ {v} : job'[u] = job'[v] => turn'[u] # turn'[v]
      BY <1>1, <1>3, <2>1, <3>1 DEF SlotArtifact
    <3> QED
      BY <1>1, <1>9, <2>1, <3>1, <3>2, <3>3, <3>4 DEF SlotArtifact
  <2> QED
    BY <1>3, <2>1 DEF SlotArtifact
<1>11. \A p \in puts' : PutArtifact(p)'
  <2>1. \A p \in puts : p.job # NoJob
    BY IdleAssumption DEF BackupTypeOK, Put
  <2> QED
    BY <1>1, <1>3, <2>1 DEF ArtifactInvariant, PutArtifact
<1>12. \A i \in Jobs : JobArtifact(i)'
  <2> SUFFICES ASSUME NEW i \in Jobs PROVE JobArtifact(i)'
    OBVIOUS
  <2>1. JobArtifact(i)
    BY DEF ArtifactInvariant
  <2>2. CASE backup'[i] = backup[i]
    BY <1>1, <1>5, <1>7, <1>8, <2>1, <2>2 DEF JobArtifact
  <2>3. CASE i = j /\ pc[w] = "record" /\ backup'[i] = turn[w]
    BY <1>1, <1>5, <1>7, <1>9, <2>1, <2>3 DEF JobArtifact
  <2> QED
    BY <1>6, <2>2, <2>3
<1> QED
  BY <1>10, <1>11, <1>12 DEF ArtifactInvariant

\* The end of an abandoned upload spoils nothing that was recorded.
LEMMA LatePutKeepsArtifacts ==
  ASSUME BackupTypeOK, L!QueueInvariant, ArtifactInvariant,
         NEW p \in puts, LatePut(p)
  PROVE  ArtifactInvariant'
<1>1. /\ UNCHANGED <<status, starts, job, pc, backup, turn>>
      /\ puts' = puts \ {p}
  BY DEF LatePut, vars, rowVars, queueVars, slotVars
<1>2. \A i \in Jobs :
        \/ object'[i] = object[i]
        \/ /\ object'[i].by # NoDump /\ object'[i].by \in 1..starts[i]
           /\ \E q \in puts : q.job = i /\ q.by = object'[i].by
  BY TornObject DEF LatePut
<1>3. \A v \in Slots : SlotArtifact(v)'
  <2>1. ASSUME NEW v \in Slots, job[v] # NoJob PROVE SlotArtifact(v)'
    <3>1. SlotArtifact(v) /\ job[v] \in Jobs
      BY <2>1, BusySlot DEF ArtifactInvariant
    <3> QED
      BY <1>1, <1>2, <3>1 DEF SlotArtifact
  <2> QED
    BY <1>1, <2>1 DEF SlotArtifact
<1>4. \A q \in puts' : PutArtifact(q)'
  BY <1>1 DEF ArtifactInvariant, PutArtifact
<1>5. \A i \in Jobs : JobArtifact(i)'
  BY <1>1, <1>2 DEF ArtifactInvariant, JobArtifact
<1> QED
  BY <1>3, <1>4, <1>5 DEF ArtifactInvariant

\* A delivery begins under a number no dump has yet.
LEMMA ReserveKeepsArtifacts ==
  ASSUME BackupTypeOK, L!QueueInvariant, ArtifactInvariant,
         NEW w \in Slots, NEW j \in Jobs, BackupReserve(w, j)
  PROVE  ArtifactInvariant'
<1>1. /\ UNCHANGED <<status, object, backup, puts>>
      /\ job'[w] = j /\ pc'[w] = "adapter" /\ turn'[w] = starts[j] + 1
      /\ \A v \in Slots \ {w} : UNCHANGED <<job[v], pc[v], turn[v]>>
      /\ starts'[j] = starts[j] + 1 /\ \A i \in Jobs \ {j} : starts'[i] = starts[i]
      /\ \A i \in Jobs : starts[i] \in Nat
  BY DEF BackupReserve, Reserve, rowVars, BackupTypeOK, L!TypeOK
<1>2. \A v \in Slots : job[v] = j /\ job[v] # NoJob => turn[v] \in 1..starts[j]
  BY DEF ArtifactInvariant, SlotArtifact
<1>3. backup[j] # NoDump => backup[j] \in 1..starts[j]
  BY DEF ArtifactInvariant, JobArtifact
<1>4. SlotArtifact(w)'
  BY <1>1, <1>2, <1>3, IdleAssumption, NoDumpAssumption DEF SlotArtifact, Steps
<1>5. \A v \in Slots \ {w} : SlotArtifact(v)'
  <2>1. ASSUME NEW v \in Slots \ {w}, job[v] # NoJob PROVE SlotArtifact(v)'
    <3>1. SlotArtifact(v) /\ job[v] \in Jobs
      BY <2>1, BusySlot DEF ArtifactInvariant
    <3> QED
      BY <1>1, <1>2, <2>1, <3>1 DEF SlotArtifact
  <2> QED
    BY <1>1, <2>1 DEF SlotArtifact
<1>6. \A p \in puts : PutArtifact(p)'
  <2> SUFFICES ASSUME NEW p \in puts PROVE PutArtifact(p)'
    OBVIOUS
  <2>1. PutArtifact(p) /\ p.job \in Jobs
    BY DEF ArtifactInvariant, BackupTypeOK, Put
  <2> QED
    BY <1>1, <2>1 DEF PutArtifact
<1>7. \A i \in Jobs : JobArtifact(i)'
  BY <1>1 DEF ArtifactInvariant, JobArtifact
<1> QED
  BY <1>1, <1>4, <1>5, <1>6, <1>7 DEF ArtifactInvariant

\* Every step of the backup queue keeps its rows, objects and uploads in
\* agreement.
LEMMA ArtifactStep ==
  ASSUME BackupTypeOK, L!QueueInvariant,
         ArtifactInvariant, [BackupNext]_bvars
  PROVE  ArtifactInvariant'
<1>1. ASSUME NEW w \in Slots, BackupWork(w) \/ BackupCrash(w) PROVE ArtifactInvariant'
  BY <1>1, WorkKeepsArtifacts, CrashKeepsArtifacts
<1>2. ASSUME NEW w \in Slots, NEW j \in Jobs, BackupReserve(w, j) PROVE ArtifactInvariant'
  BY <1>2, ReserveKeepsArtifacts
<1>3. ASSUME NEW p \in puts, LatePut(p) PROVE ArtifactInvariant'
  BY <1>3, LatePutKeepsArtifacts
<1>4. ASSUME NEW w \in Slots, Process(w), UNCHANGED backupVars PROVE ArtifactInvariant'
  BY <1>4, ProcessKeepsArtifacts
<1>5. ASSUME NEW j \in Jobs, Route(j) \/ AbandonRequest(j) \/ Timer(j), UNCHANGED backupVars
      PROVE  ArtifactInvariant'
  <2>1. /\ UNCHANGED <<job, pc, starts, object, backup, turn, puts>>
        /\ \A i \in Jobs : status'[i] = "done" => status[i] = "done"
    BY <1>5 DEF Route, CreateJob, Enqueue, AuditRequest, AbandonRequest, Timer, Promote,
       CheckStalled, Settle, Write, rowVars, queueVars, slotVars, backupVars,
       BackupTypeOK, L!TypeOK
  <2> QED
    BY <2>1 DEF ArtifactInvariant, SlotArtifact, PutArtifact, JobArtifact
<1>6. ASSUME NEW w \in Slots, Lapse(w), UNCHANGED backupVars PROVE ArtifactInvariant'
  BY <1>6 DEF Lapse, rowVars, slotVars, backupVars,
     ArtifactInvariant, SlotArtifact, PutArtifact, JobArtifact
<1>7. CASE UNCHANGED bvars
  BY <1>7 DEF bvars, vars, rowVars, queueVars, slotVars, backupVars,
     ArtifactInvariant, SlotArtifact, PutArtifact, JobArtifact
<1> QED
  BY <1>1, <1>2, <1>3, <1>4, <1>5, <1>6, <1>7 DEF BackupNext

\* Rows, objects and uploads always agree, through rejected calls, crashes,
\* lapses, retries and uploads that outlive their attempt.
THEOREM ArtifactsAlwaysAgree == BackupSpec => []ArtifactInvariant
<1>1. BackupInit => ArtifactInvariant
  BY DEF BackupInit, Init, ArtifactInvariant, SlotArtifact, PutArtifact, JobArtifact
<1>2. /\ BackupTypeOK /\ L!QueueInvariant
      /\ ArtifactInvariant /\ [BackupNext]_bvars
      => ArtifactInvariant'
  BY ArtifactStep
<1> QED
  BY <1>1, <1>2, BackupTypeCorrect, SkeletonHolds, PTL DEF BackupSpec

\* A job that is done has a recorded backup, a recorded backup has an object,
\* and the object is whole unless another attempt wrote it.
THEOREM DoneIsAlwaysRecorded == BackupSpec => []DoneIsRecorded
<1>1. ArtifactInvariant => DoneIsRecorded
  BY DEF ArtifactInvariant, JobArtifact, DoneIsRecorded
<1> QED
  BY <1>1, ArtifactsAlwaysAgree, PTL

\* What the first delivery of a job recorded is what lies in storage, whole,
\* until a second delivery starts.
THEOREM FirstDeliveryAlwaysIntact == BackupSpec => []FirstDeliveryIsIntact
<1>1. BackupTypeOK /\ ArtifactInvariant => FirstDeliveryIsIntact
  <2> SUFFICES ASSUME BackupTypeOK, ArtifactInvariant,
                      NEW j \in Jobs, starts[j] = 1, backup[j] # NoDump
               PROVE  object[j] = [by |-> backup[j], whole |-> TRUE]
    BY DEF FirstDeliveryIsIntact
  <2>1. JobArtifact(j) /\ object[j] \in Content
    BY DEF ArtifactInvariant, BackupTypeOK
  <2>2. backup[j] = 1 /\ object[j].by = 1
    BY <2>1 DEF JobArtifact
  <2> QED
    BY <2>1, <2>2 DEF JobArtifact, Content
<1> QED
  BY <1>1, BackupTypeCorrect, ArtifactsAlwaysAgree, PTL
=============================================================================
