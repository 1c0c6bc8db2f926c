---------------------------- MODULE JobLifecycle ----------------------------
(***************************************************************************)
(* The life of the jobs of one queue: the API route that creates the Job   *)
(* row and enqueues it, the BullMQ queue, the worker slots that run the    *)
(* processor, the row and the events the processor writes, the audit       *)
(* entries and the notifications that tell people how it ended.            *)
(*                                                                         *)
(* The five processors (backup, restore, export, import, clone) are the    *)
(* same skeleton around a different middle part; here that part is the     *)
(* program counter "work", which reports progress, finishes or throws.     *)
(* BackupJob expands it.                                                   *)
(*                                                                         *)
(* A processor's own work may fail at any time, and that alone may end the *)
(* whole worker process at any place of any slot: the workers of all five  *)
(* queues share one process, and the promise of a dump or an upload that   *)
(* rejects while nobody awaits it (in backup, clone and export, during the *)
(* await of something else) is an unhandled rejection.  So workers die     *)
(* whatever Faults is.  Three more things go wrong, each only if it is a   *)
(* member of Faults:                                                       *)
(*   "call"   a call to Postgres, Redis or a connection pool rejects,      *)
(*            before or after it took effect;                              *)
(*   "crash"  the API process dies between two of its awaits;              *)
(*   "lapse"  a worker cannot renew its lock in time (a blocked event      *)
(*            loop, a Redis outage) and goes on running.                   *)
(***************************************************************************)
EXTENDS Integers

CONSTANTS Jobs,        \* ids of Job rows, which are also the BullMQ job ids
          Slots,       \* concurrency slots of the queue's workers
          NoJob,       \* what an idle slot runs
          NoSlot,      \* the holder of a lock nobody holds
          Attempts,    \* defaultJobOptions.attempts
          MaxStalled,  \* BullMQ's maxStalledCount
          Milestones,  \* values the middle part passes to updateProgress
          Attended,    \* jobs with an actorId (the others are scheduled)
          Faults

ASSUME AttemptsAssumption == Attempts \in Nat \ {0}
ASSUME MaxStalledAssumption == MaxStalled \in Nat
ASSUME MilestonesAssumption == Milestones \subseteq Int
ASSUME IdleAssumption == NoJob \notin Jobs /\ NoSlot \notin Slots
ASSUME AttendedAssumption == Attended \subseteq Jobs

VARIABLES
  \* Postgres: the Job row, and the last status its events announced
  status, progress, announced,
  \* the HTTP request that creates the job
  request,
  \* Redis: the BullMQ job; starts is a history variable (runs of the processor)
  qstate, attempts, stalls, lock, starts,
  \* the worker slots
  job, pc,
  \* what people are told: notifications and audit entries about the job
  notices, trail

rowVars   == <<status, progress, announced>>
queueVars == <<qstate, attempts, stalls, lock, starts>>
slotVars  == <<job, pc>>
toldVars  == <<notices, trail>>
vars == <<rowVars, request, queueVars, slotVars, toldVars>>

Status   == {"absent", "queued", "running", "done", "failed"}
QState   == {"absent", "waiting", "active", "delayed", "completed", "failed"}
Request  == {"idle", "created", "enqueued", "answered", "lost"}
Pc       == {"idle", "adapter", "start", "work", "finish", "auditOk",
             "notifyOk", "ret", "catch", "auditFail", "notifyFail", "throw"}
Outcome  == {"completed", "failed"}

TypeOK ==
  /\ status    \in [Jobs -> Status]
  /\ progress  \in [Jobs -> 0..100]
  /\ announced \in [Jobs -> Status]
  /\ request   \in [Jobs -> Request]
  /\ qstate    \in [Jobs -> QState]
  /\ attempts  \in [Jobs -> Nat]
  /\ stalls    \in [Jobs -> Nat]
  /\ lock      \in [Jobs -> Slots \cup {NoSlot}]
  /\ starts    \in [Jobs -> Nat]
  /\ job       \in [Slots -> Jobs \cup {NoJob}]
  /\ pc        \in [Slots -> Pc]
  /\ notices   \in [Jobs -> SUBSET Outcome]
  /\ trail     \in [Jobs -> SUBSET (Outcome \cup {"requested"})]

Init ==
  /\ status    = [j \in Jobs |-> "absent"]
  /\ progress  = [j \in Jobs |-> 0]
  /\ announced = [j \in Jobs |-> "absent"]
  /\ request   = [j \in Jobs |-> "idle"]
  /\ qstate    = [j \in Jobs |-> "absent"]
  /\ attempts  = [j \in Jobs |-> 0]
  /\ stalls    = [j \in Jobs |-> 0]
  /\ lock      = [j \in Jobs |-> NoSlot]
  /\ starts    = [j \in Jobs |-> 0]
  /\ job       = [w \in Slots |-> NoJob]
  /\ pc        = [w \in Slots |-> "idle"]
  /\ notices   = [j \in Jobs |-> {}]
  /\ trail     = [j \in Jobs |-> {}]

Write(j, s, p) == /\ status'   = [status EXCEPT ![j] = s]
                  /\ progress' = [progress EXCEPT ![j] = p]
Emit(j, s) == announced' = [announced EXCEPT ![j] = s]
UnclampedMutant(p) == p
Clamp(p) == IF p < 0 THEN 0 ELSE IF p > 100 THEN 100 ELSE p
Goto(w, l) == /\ pc' = [pc EXCEPT ![w] = l]
              /\ UNCHANGED job

\* audit() swallows its own errors, so an entry is appended or silently lost.
Record(j, action) ==
  \/ trail' = [trail EXCEPT ![j] = @ \cup {action}]
  \/ "call" \in Faults /\ UNCHANGED trail

----------------------------------------------------------------------------
\* The API route: createJob, enqueue, audit, 202.

CreateJob(j) ==
  /\ request[j] = "idle"
  /\ request' = [request EXCEPT ![j] = "created"]
  /\ Write(j, "queued", 0)
  /\ UNCHANGED <<announced, queueVars, slotVars, toldVars>>

Enqueue(j) ==
  /\ request[j] = "created"
  /\ request' = [request EXCEPT ![j] = "enqueued"]
  /\ qstate'  = [qstate EXCEPT ![j] = "waiting"]
  /\ UNCHANGED <<rowVars, attempts, stalls, lock, starts, slotVars, toldVars>>

AuditRequest(j) ==
  /\ request[j] = "enqueued"
  /\ request' = [request EXCEPT ![j] = "answered"]
  /\ Record(j, "requested")
  /\ UNCHANGED <<rowVars, queueVars, slotVars, notices>>

\* The API process dies, or the add to Redis rejects and the client gets a 500.
AbandonRequest(j) ==
  /\ \/ request[j] \in {"created", "enqueued"} /\ "crash" \in Faults
     \/ request[j] = "created" /\ "call" \in Faults
  /\ request' = [request EXCEPT ![j] = "lost"]
  /\ UNCHANGED <<rowVars, queueVars, slotVars, toldVars>>

----------------------------------------------------------------------------
\* BullMQ, as the service configures it.

Reserve(w, j) ==
  /\ pc[w] = "idle"
  /\ qstate[j] = "waiting"
  /\ qstate' = [qstate EXCEPT ![j] = "active"]
  /\ lock'   = [lock EXCEPT ![j] = w]
  /\ starts' = [starts EXCEPT ![j] = @ + 1]
  /\ job'    = [job EXCEPT ![w] = j]
  /\ pc'     = [pc EXCEPT ![w] = "adapter"]
  /\ UNCHANGED <<rowVars, request, attempts, stalls, toldVars>>

RetryableMutant(j) == attempts[j] < Attempts
Retryable(j) == attempts[j] + 1 < Attempts
StallAllowed(j) == stalls[j] < MaxStalled

\* A result counts only for the holder of the lock.
HoldsLock(w) == lock[job[w]] = w

Leave(w) == /\ job' = [job EXCEPT ![w] = NoJob]
            /\ pc'  = [pc EXCEPT ![w] = "idle"]

Settle(j, s) == /\ qstate' = [qstate EXCEPT ![j] = s]
                /\ lock'   = [lock EXCEPT ![j] = NoSlot]
                /\ UNCHANGED starts

Complete(w) ==
  /\ pc[w] = "ret"
  /\ IF HoldsLock(w)
       THEN Settle(job[w], "completed") /\ UNCHANGED <<attempts, stalls>>
       ELSE UNCHANGED queueVars
  /\ Leave(w)
  /\ UNCHANGED <<rowVars, request, toldVars>>

\* The finally clause: adapter.close() may reject after all went well.
CloseThrows(w) ==
  /\ "call" \in Faults
  /\ pc[w] = "ret"
  /\ Goto(w, "throw")
  /\ UNCHANGED <<rowVars, request, queueVars, toldVars>>

Fail(w) ==
  /\ pc[w] = "throw"
  /\ IF HoldsLock(w)
       THEN /\ Settle(job[w], IF Retryable(job[w]) THEN "delayed" ELSE "failed")
            /\ attempts' = [attempts EXCEPT ![job[w]] = @ + 1]
            /\ UNCHANGED stalls
       ELSE UNCHANGED queueVars
  /\ Leave(w)
  /\ UNCHANGED <<rowVars, request, toldVars>>

\* Mutant: the last retry is never due.
PromoteMutant(j) ==
  /\ qstate[j] = "delayed" /\ attempts[j] + 1 < Attempts
  /\ qstate' = [qstate EXCEPT ![j] = "waiting"]
  /\ UNCHANGED <<rowVars, request, attempts, stalls, lock, starts, slotVars, toldVars>>

\* The exponential backoff of a failed attempt is over.
Promote(j) ==
  /\ qstate[j] = "delayed"
  /\ qstate' = [qstate EXCEPT ![j] = "waiting"]
  /\ UNCHANGED <<rowVars, request, attempts, stalls, lock, starts, slotVars, toldVars>>

\* Mutants: the lock is not looked at; a stall is not counted; a job that
\* stalled too often is left alone.
CheckStalledNoLockMutant(j) ==
  /\ qstate[j] = "active"
  /\ Settle(j, IF StallAllowed(j) THEN "waiting" ELSE "failed")
  /\ stalls' = [stalls EXCEPT ![j] = @ + 1]
  /\ UNCHANGED <<rowVars, request, attempts, slotVars, toldVars>>

CheckStalledTimidMutant(j) ==
  /\ qstate[j] = "active" /\ lock[j] = NoSlot /\ StallAllowed(j)
  /\ Settle(j, "waiting")
  /\ stalls' = [stalls EXCEPT ![j] = @ + 1]
  /\ UNCHANGED <<rowVars, request, attempts, slotVars, toldVars>>

\* The stalled checker finds an active job without a lock.
CheckStalled(j) ==
  /\ qstate[j] = "active" /\ lock[j] = NoSlot
  /\ Settle(j, IF StallAllowed(j) THEN "waiting" ELSE "failed")
  /\ stalls' = [stalls EXCEPT ![j] = @ + 1]
  /\ UNCHANGED <<rowVars, request, attempts, slotVars, toldVars>>

Unlock(w) == lock' = [j \in Jobs |-> IF lock[j] = w THEN NoSlot ELSE lock[j]]

\* The worker process may die after a slot wrote the row and before it
\* announced what it wrote: in one of the three marks, or in updateProgress.
HalfMarked(w) ==
  \/ pc[w] = "start"  /\ Write(job[w], "running", 0)
  \/ pc[w] = "finish" /\ Write(job[w], "done", 100)
  \/ pc[w] = "catch"  /\ Write(job[w], "failed", progress[job[w]])

HalfReported(w) ==
  \E m \in Milestones : /\ pc[w] = "work"
                        /\ progress' = [progress EXCEPT ![job[w]] = Clamp(m)]
                        /\ UNCHANGED status

\* A slot ends with its process: no mark, no catch, and its lock expires.
Die(w) ==
  /\ pc[w] # "idle"
  /\ Unlock(w)
  /\ Leave(w)
  /\ UNCHANGED <<announced, request, qstate, attempts, stalls, starts, toldVars>>

Crash(w) ==
  /\ HalfMarked(w) \/ HalfReported(w) \/ UNCHANGED <<status, progress>>
  /\ Die(w)

Lapse(w) ==
  /\ "lapse" \in Faults
  /\ pc[w] # "idle"
  /\ HoldsLock(w)
  /\ Unlock(w)
  /\ UNCHANGED <<rowVars, request, qstate, attempts, stalls, starts, slotVars, toldVars>>

----------------------------------------------------------------------------
\* The processor.  getAdapter is called before the try.

OpenAdapter(w) ==
  /\ pc[w] = "adapter"
  /\ \/ Goto(w, "start")
     \/ Goto(w, "throw")
  /\ UNCHANGED <<rowVars, request, queueVars, toldVars>>

\* A write of the row and its event, or a call of the two that rejects, with
\* or without its effect.
MarkAs(w, s, p, next, onError) ==
  \/ /\ Write(job[w], s, p)
     /\ Emit(job[w], s)
     /\ Goto(w, next)
  \/ /\ "call" \in Faults
     /\ \/ UNCHANGED rowVars
        \/ /\ Write(job[w], s, p)
           /\ Emit(job[w], s) \/ UNCHANGED announced
     /\ Goto(w, onError)

MarkRunning(w) ==
  /\ pc[w] = "start"
  /\ MarkAs(w, "running", 0, "work", "catch")
  /\ UNCHANGED <<request, queueVars, toldVars>>

\* updateProgress writes only the progress but always announces "running".
ReportProgress(w, m) ==
  /\ pc[w] = "work"
  /\ progress' = [progress EXCEPT ![job[w]] = Clamp(m)]
  /\ Emit(job[w], "running")
  /\ UNCHANGED <<status, request, queueVars, slotVars, toldVars>>

\* updateProgress wrote the row, its event went out or not, and its error ends
\* the work.
ReportThrows(w, m) ==
  /\ "call" \in Faults
  /\ pc[w] = "work"
  /\ progress' = [progress EXCEPT ![job[w]] = Clamp(m)]
  /\ Emit(job[w], "running") \/ UNCHANGED announced
  /\ Goto(w, "catch")
  /\ UNCHANGED <<status, request, queueVars, toldVars>>

FinishWork(w) ==
  /\ pc[w] = "work"
  /\ Goto(w, "finish")
  /\ UNCHANGED <<rowVars, request, queueVars, toldVars>>

ThrowWork(w) ==
  /\ pc[w] = "work"
  /\ Goto(w, "catch")
  /\ UNCHANGED <<rowVars, request, queueVars, toldVars>>

MarkDone(w) ==
  /\ pc[w] = "finish"
  /\ MarkAs(w, "done", 100, "auditOk", "catch")
  /\ UNCHANGED <<request, queueVars, toldVars>>

MarkFailed(w) ==
  /\ pc[w] = "catch"
  /\ MarkAs(w, "failed", progress[job[w]], "auditFail", "throw")
  /\ UNCHANGED <<request, queueVars, toldVars>>

AuditDone(w) ==
  /\ pc[w] = "auditOk"
  /\ Record(job[w], "completed")
  /\ Goto(w, "notifyOk")
  /\ UNCHANGED <<rowVars, request, queueVars, notices>>

\* Mutant: the catch block records the wrong action.
AuditFailedMutant(w) ==
  /\ pc[w] = "auditFail"
  /\ Record(job[w], "completed")
  /\ Goto(w, "notifyFail")
  /\ UNCHANGED <<rowVars, request, queueVars, notices>>

AuditFailed(w) ==
  /\ pc[w] = "auditFail"
  /\ Record(job[w], "failed")
  /\ Goto(w, "notifyFail")
  /\ UNCHANGED <<rowVars, request, queueVars, notices>>

\* notifyJobOutcome.  A job without an actor notifies nobody; the row of the
\* notification references the actor, so it cannot be written once the actor's
\* account is deleted.  After the row is written, only its update can reject.
Notify(w, outcome, next, onError) ==
  \/ /\ IF job[w] \in Attended
          THEN notices' = [notices EXCEPT ![job[w]] = @ \cup {outcome}]
          ELSE UNCHANGED notices
     /\ Goto(w, next)
  \/ /\ job[w] \in Attended \/ "call" \in Faults
     /\ UNCHANGED notices
     /\ Goto(w, onError)
  \/ /\ job[w] \in Attended /\ "call" \in Faults
     /\ notices' = [notices EXCEPT ![job[w]] = @ \cup {outcome}]
     /\ Goto(w, onError)

\* Mutant: an error of the notification is swallowed like one of the audit.
NotifyDoneSwallowMutant(w) ==
  /\ pc[w] = "notifyOk"
  /\ Notify(w, "completed", "ret", "ret")
  /\ UNCHANGED <<rowVars, request, queueVars, trail>>

NotifyDone(w) ==
  /\ pc[w] = "notifyOk"
  /\ Notify(w, "completed", "ret", "catch")
  /\ UNCHANGED <<rowVars, request, queueVars, trail>>

NotifyFailed(w) ==
  /\ pc[w] = "notifyFail"
  /\ Notify(w, "failed", "throw", "throw")
  /\ UNCHANGED <<rowVars, request, queueVars, trail>>

----------------------------------------------------------------------------
Route(j) == CreateJob(j) \/ Enqueue(j) \/ AuditRequest(j)

Work(w) == \/ \E m \in Milestones : ReportProgress(w, m) \/ ReportThrows(w, m)
           \/ FinishWork(w)
           \/ ThrowWork(w)

\* One step of a busy slot outside its middle part.
Process(w) == \/ OpenAdapter(w) \/ MarkRunning(w)
              \/ MarkDone(w) \/ AuditDone(w) \/ NotifyDone(w)
              \/ MarkFailed(w) \/ AuditFailed(w) \/ NotifyFailed(w)
              \/ CloseThrows(w) \/ Complete(w) \/ Fail(w)

Timer(j) == Promote(j) \/ CheckStalled(j)

Next == \/ \E j \in Jobs : Route(j) \/ AbandonRequest(j) \/ Timer(j)
        \/ \E w \in Slots : Process(w) \/ Work(w) \/ Crash(w) \/ Lapse(w)
        \/ \E w \in Slots, j \in Jobs : Reserve(w, j)

Spec == Init /\ [][Next]_vars

\* BullMQ's timers fire, an idle slot takes a waiting job, a busy slot goes on
\* and its middle part, a finite piece of code, comes to an end.  Nothing is
\* assumed of the clients, of the faults or of the outcome of any call.
Fairness == /\ \A w \in Slots : /\ WF_vars(Process(w))
                                /\ WF_vars(FinishWork(w) \/ ThrowWork(w))
                                /\ WF_vars(\E j \in Jobs : Reserve(w, j))
            /\ \A j \in Jobs : WF_vars(Timer(j))

FairSpec == Spec /\ Fairness

----------------------------------------------------------------------------
(* Properties.  Which faults each one survives is said with the run that   *)
(* checks it.                                                              *)

\* Every run of the processor the queue ever started is the current one, or is
\* charged to a failed attempt, to a stall or to the job's completion, and the
\* charges stay within the limits of the queue: nothing is run for free.
StartsAccounted ==
  \A j \in Jobs :
    LET open == IF qstate[j] \in {"active", "completed"} THEN 1 ELSE 0
    IN  /\ starts[j] = attempts[j] + stalls[j] + open
        /\ attempts[j] <= Attempts
        /\ stalls[j] <= MaxStalled + 1
        /\ qstate[j] \in {"waiting", "delayed", "active"} =>
              attempts[j] < Attempts /\ stalls[j] <= MaxStalled

\* What makes the accounting inductive: a lock is held only by the slot that runs
\* an active job, a slot is idle exactly when it runs nothing, and a job reaches
\* the queue only through its route.  Each state of the queue has its own sums.
QueueInvariant ==
  /\ \A j \in Jobs :
       /\ request[j] \in {"idle", "created"} => qstate[j] = "absent"
       /\ lock[j] # NoSlot => qstate[j] = "active" /\ job[lock[j]] = j
       /\ qstate[j] = "absent" =>
            starts[j] = 0 /\ attempts[j] = 0 /\ stalls[j] = 0
       /\ qstate[j] \in {"waiting", "delayed", "failed"} =>
            starts[j] = attempts[j] + stalls[j]
       /\ qstate[j] \in {"active", "completed"} =>
            starts[j] = attempts[j] + stalls[j] + 1
       /\ qstate[j] # "failed" => attempts[j] < Attempts /\ stalls[j] <= MaxStalled
       /\ qstate[j] = "failed" =>
            \/ attempts[j] = Attempts /\ stalls[j] <= MaxStalled
            \/ attempts[j] < Attempts /\ stalls[j] = MaxStalled + 1
  /\ \A w \in Slots : pc[w] = "idle" <=> job[w] = NoJob

\* Two slots never run the same job at the same time (without "lapse").
SoleExecution ==
  \A w1, w2 \in Slots : w1 # w2 /\ job[w1] # NoJob => job[w1] # job[w2]

\* When the queue counts a job as completed, its row says so, its subscribers
\* were told and so was the user who asked for it (worker/processors: what the
\* processor awaits before it returns).
CompletedIsReported ==
  \A j \in Jobs : qstate[j] = "completed" =>
    /\ status[j] = "done" /\ progress[j] = 100 /\ announced[j] = "done"
    /\ j \in Attended => "completed" \in notices[j]

\* What makes the report inductive: where the processor is tells what it wrote,
\* and only the holder of the lock writes (without "lapse").
ReportInvariant ==
  /\ \A w \in Slots : job[w] # NoJob => lock[job[w]] = w
  /\ \A w \in Slots :
       /\ pc[w] \in {"work", "finish"} => status[job[w]] = "running"
       /\ pc[w] \in {"auditOk", "notifyOk", "ret"} =>
            status[job[w]] = "done" /\ progress[job[w]] = 100 /\ announced[job[w]] = "done"
       /\ pc[w] = "ret" /\ job[w] \in Attended => "completed" \in notices[job[w]]

\* A row becomes "done" only from "running": a retry first takes back what an
\* earlier attempt said of the job (markRunning before markDone).
DoneStep == \A j \in Jobs : status'[j] = "done" /\ status[j] # "done"
                               => status[j] = "running"

DoneOnlyFromRunning == [][DoneStep]_vars

\* When a job the queue counts as completed has an actor, the actor was told so,
\* even if several executions of the job overlapped and another one failed.
CompletedIsTold ==
  \A j \in Attended : qstate[j] = "completed" => "completed" \in notices[j]

\* Without faults, and though failing work may end the process: the only jobs
\* that rest with a row that is not explained are those the queue charged a
\* stall.  Any other job that failed or was put off was announced and audited as
\* failed, or no attempt ever got past getAdapter and the row is still "queued";
\* and a completed job was audited, however many stalls came before.
RestingRowIsExplained ==
  \A j \in Jobs :
    /\ qstate[j] \in {"delayed", "failed"} /\ stalls[j] = 0 =>
         \/ status[j] = "queued" /\ announced[j] = "absent" /\ trail[j] \subseteq {"requested"}
         \/ status[j] = "failed" /\ announced[j] = "failed" /\ "failed" \in trail[j]
    /\ qstate[j] = "completed" => "completed" \in trail[j]

\* The queue and the workers implement the abstract delivery.
Phase(j) == CASE qstate[j] = "absent" -> "new"
              [] qstate[j] \in {"waiting", "active", "delayed"} -> "pending"
              [] OTHER -> "settled"

D == INSTANCE Delivery WITH MaxDeliveries <- Attempts + MaxStalled,
                            phase <- [j \in Jobs |-> Phase(j)],
                            deliveries <- starts

\* What the queue does to a job is what Delivery allows.
DeliveryImplemented == D!Spec

\* Every job that reached the queue is settled, whatever calls and workers do.
EnqueuedJobsSettle == D!PendingSettles
=============================================================================
