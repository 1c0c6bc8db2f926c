------------------------- MODULE JobLifecycleProofs -------------------------
(***************************************************************************)
(* Proofs about JobLifecycle, for any jobs, slots and limits.  Each        *)
(* invariant has a lemma with one step per action of Next; the theorems    *)
(* combine them.  QueueInvariant and the theorems that rest on it alone    *)
(* hold under every kind of fault; those about the report to people assume *)
(* that no execution outlives its lock ("lapse").                          *)
(***************************************************************************)
EXTENDS JobLifecycle, TLAPS

\* updateProgress never writes a percentage out of range.
LEMMA ClampRange == \A p \in Int : Clamp(p) \in 0..100
BY DEF Clamp

\* Every variable keeps its type: in particular the progress of a job stays a
\* percentage whatever a processor passes to updateProgress.
THEOREM TypeCorrect == Spec => []TypeOK
<1>1. Init => TypeOK
  BY DEF Init, TypeOK, Status, QState, Request, Pc
<1>2. ASSUME TypeOK, [Next]_vars PROVE TypeOK'
  <2> USE <1>2
  <2>1. ASSUME NEW j \in Jobs, CreateJob(j) PROVE TypeOK'
    BY <2>1 DEF CreateJob, Write, TypeOK, Status, QState, Request, Pc, Outcome, rowVars, queueVars, slotVars, toldVars
  <2>2. ASSUME NEW j \in Jobs, Enqueue(j) PROVE TypeOK'
    BY <2>2 DEF Enqueue, TypeOK, Status, QState, Request, Pc, Outcome, rowVars, queueVars, slotVars, toldVars
  <2>3. ASSUME NEW j \in Jobs, AuditRequest(j) PROVE TypeOK'
    BY <2>3 DEF AuditRequest, Record, TypeOK, Status, QState, Request, Pc, Outcome, rowVars, queueVars, slotVars, toldVars
  <2>4. ASSUME NEW j \in Jobs, AbandonRequest(j) PROVE TypeOK'
    BY <2>4 DEF AbandonRequest, TypeOK, Status, QState, Request, Pc, Outcome, rowVars, queueVars, slotVars, toldVars
  <2>5. ASSUME NEW j \in Jobs, Promote(j) PROVE TypeOK'
    BY <2>5 DEF Promote, TypeOK, Status, QState, Request, Pc, Outcome, rowVars, queueVars, slotVars, toldVars
  <2>6. ASSUME NEW j \in Jobs, CheckStalled(j) PROVE TypeOK'
    BY <2>6 DEF CheckStalled, Settle, TypeOK, Status, QState, Request, Pc, Outcome, rowVars, queueVars, slotVars, toldVars
  <2>7. ASSUME NEW w \in Slots, OpenAdapter(w) PROVE TypeOK'
    BY <2>7 DEF OpenAdapter, Goto, TypeOK, Status, QState, Request, Pc, Outcome, rowVars, queueVars, slotVars, toldVars
  <2>8. ASSUME NEW w \in Slots, MarkRunning(w) PROVE TypeOK'
    BY <2>8 DEF MarkRunning, MarkAs, Write, Emit, Goto, TypeOK, Status, QState, Request, Pc, Outcome, rowVars, queueVars, slotVars, toldVars
  <2>9. ASSUME NEW w \in Slots, MarkDone(w) PROVE TypeOK'
    BY <2>9 DEF MarkDone, MarkAs, Write, Emit, Goto, TypeOK, Status, QState, Request, Pc, Outcome, rowVars, queueVars, slotVars, toldVars
  <2>10. ASSUME NEW w \in Slots, AuditDone(w) PROVE TypeOK'
    BY <2>10 DEF AuditDone, Record, Goto, TypeOK, Status, QState, Request, Pc, Outcome, rowVars, queueVars, slotVars, toldVars
  <2>11. ASSUME NEW w \in Slots, NotifyDone(w) PROVE TypeOK'
    BY <2>11 DEF NotifyDone, Notify, Goto, TypeOK, Status, QState, Request, Pc, Outcome, rowVars, queueVars, slotVars, toldVars
  <2>12. ASSUME NEW w \in Slots, MarkFailed(w) PROVE TypeOK'
    BY <2>12 DEF MarkFailed, MarkAs, Write, Emit, Goto, TypeOK, Status, QState, Request, Pc, Outcome, rowVars, queueVars, slotVars, toldVars
  <2>13. ASSUME NEW w \in Slots, AuditFailed(w) PROVE TypeOK'
    BY <2>13 DEF AuditFailed, Record, Goto, TypeOK, Status, QState, Request, Pc, Outcome, rowVars, queueVars, slotVars, toldVars
  <2>14. ASSUME NEW w \in Slots, NotifyFailed(w) PROVE TypeOK'
    BY <2>14 DEF NotifyFailed, Notify, Goto, TypeOK, Status, QState, Request, Pc, Outcome, rowVars, queueVars, slotVars, toldVars
  <2>15. ASSUME NEW w \in Slots, CloseThrows(w) PROVE TypeOK'
    BY <2>15 DEF CloseThrows, Goto, TypeOK, Status, QState, Request, Pc, Outcome, rowVars, queueVars, slotVars, toldVars
  <2>16. ASSUME NEW w \in Slots, Complete(w) PROVE TypeOK'
    BY <2>16 DEF Complete, Settle, HoldsLock, Leave, TypeOK, Status, QState, Request, Pc, Outcome, rowVars, queueVars, slotVars, toldVars
  <2>17. ASSUME NEW w \in Slots, Fail(w) PROVE TypeOK'
    BY <2>17 DEF Fail, Settle, HoldsLock, Leave, TypeOK, Status, QState, Request, Pc, Outcome, rowVars, queueVars, slotVars, toldVars
  <2>18. ASSUME NEW w \in Slots, FinishWork(w) PROVE TypeOK'
    BY <2>18 DEF FinishWork, Goto, TypeOK, Status, QState, Request, Pc, Outcome, rowVars, queueVars, slotVars, toldVars
  <2>19. ASSUME NEW w \in Slots, ThrowWork(w) PROVE TypeOK'
    BY <2>19 DEF ThrowWork, Goto, TypeOK, Status, QState, Request, Pc, Outcome, rowVars, queueVars, slotVars, toldVars
  <2>20. ASSUME NEW w \in Slots, Crash(w) PROVE TypeOK'
    BY <2>20, ClampRange, MilestonesAssumption DEF Crash, HalfMarked, HalfReported, Die, Write, Unlock, Leave, TypeOK, Status, QState, Request, Pc, Outcome, rowVars, queueVars, slotVars, toldVars
  <2>21. ASSUME NEW w \in Slots, Lapse(w) PROVE TypeOK'
    BY <2>21 DEF Lapse, Unlock, HoldsLock, TypeOK, Status, QState, Request, Pc, Outcome, rowVars, queueVars, slotVars, toldVars
  <2>22. ASSUME NEW w \in Slots, NEW m \in Milestones, ReportProgress(w, m) PROVE TypeOK'
    BY <2>22, ClampRange, MilestonesAssumption DEF ReportProgress, Emit, TypeOK, Status, QState, Request, Pc, Outcome, rowVars, queueVars, slotVars, toldVars
  <2>23. ASSUME NEW w \in Slots, NEW m \in Milestones, ReportThrows(w, m) PROVE TypeOK'
    BY <2>23, ClampRange, MilestonesAssumption DEF ReportThrows, Emit, Goto, TypeOK, Status, QState, Request, Pc, Outcome, rowVars, queueVars, slotVars, toldVars
  <2>24. ASSUME NEW w \in Slots, NEW j \in Jobs, Reserve(w, j) PROVE TypeOK'
    BY <2>24 DEF Reserve, TypeOK, Status, QState, Request, Pc, Outcome, rowVars, queueVars, slotVars, toldVars
  <2>25. CASE UNCHANGED vars
    BY <2>25 DEF vars, TypeOK, Status, QState, Request, Pc, Outcome, rowVars, queueVars, slotVars, toldVars
  <2> QED
    BY <2>1, <2>2, <2>3, <2>4, <2>5, <2>6, <2>7, <2>8, <2>9, <2>10, <2>11, <2>12, <2>13, <2>14, <2>15, <2>16, <2>17, <2>18, <2>19, <2>20, <2>21, <2>22, <2>23, <2>24, <2>25
    DEF Next, Route, Timer, Process, Work
<1> QED
  BY <1>1, <1>2, PTL DEF Spec

----------------------------------------------------------------------------
\* The accounts of the queue balance again after every step.
LEMMA QueueInvariantStep ==
  ASSUME TypeOK, QueueInvariant, [Next]_vars
  PROVE  QueueInvariant'
<1> USE AttemptsAssumption, MaxStalledAssumption, IdleAssumption
<1>1. ASSUME NEW j \in Jobs, CreateJob(j) PROVE QueueInvariant'
  BY <1>1 DEF CreateJob, Write, TypeOK, QState, Request, QueueInvariant, queueVars, slotVars
<1>2. ASSUME NEW j \in Jobs, Enqueue(j) PROVE QueueInvariant'
  BY <1>2 DEF Enqueue, TypeOK, QState, Request, QueueInvariant, queueVars, slotVars
<1>3. ASSUME NEW j \in Jobs, AuditRequest(j) PROVE QueueInvariant'
  BY <1>3 DEF AuditRequest, Record, TypeOK, QState, Request, QueueInvariant, queueVars, slotVars
<1>4. ASSUME NEW j \in Jobs, AbandonRequest(j) PROVE QueueInvariant'
  BY <1>4 DEF AbandonRequest, TypeOK, QState, Request, QueueInvariant, queueVars, slotVars
<1>5. ASSUME NEW j \in Jobs, Promote(j) PROVE QueueInvariant'
  BY <1>5 DEF Promote, TypeOK, QState, Request, QueueInvariant, queueVars, slotVars
<1>6. ASSUME NEW j \in Jobs, CheckStalled(j) PROVE QueueInvariant'
  <2>1. /\ attempts[j] \in Nat /\ stalls[j] \in Nat /\ starts[j] \in Nat
        /\ starts[j] = attempts[j] + stalls[j] + 1
        /\ attempts[j] < Attempts /\ stalls[j] <= MaxStalled
    BY <1>6 DEF CheckStalled, TypeOK, QueueInvariant
  <2>2. \/ StallAllowed(j) /\ stalls[j] + 1 <= MaxStalled /\ qstate'[j] = "waiting"
        \/ ~StallAllowed(j) /\ stalls[j] + 1 = MaxStalled + 1 /\ qstate'[j] = "failed"
    BY <1>6, <2>1 DEF CheckStalled, Settle, StallAllowed, TypeOK
  <2>3. /\ stalls'[j] = stalls[j] + 1 /\ lock'[j] = NoSlot
        /\ UNCHANGED <<starts, attempts, request, job, pc>>
        /\ \A i \in Jobs \ {j} : /\ stalls'[i] = stalls[i]
                                 /\ qstate'[i] = qstate[i] /\ lock'[i] = lock[i]
    BY <1>6 DEF CheckStalled, Settle, TypeOK, slotVars
  <2>4. starts'[j] = attempts'[j] + stalls'[j]
    BY <2>1, <2>3
  <2> QED
    BY <1>6, <2>1, <2>2, <2>3, <2>4 DEF CheckStalled, TypeOK, QueueInvariant
<1>7. ASSUME NEW w \in Slots, OpenAdapter(w) PROVE QueueInvariant'
  BY <1>7 DEF OpenAdapter, Goto, TypeOK, QState, Request, QueueInvariant, queueVars, slotVars
<1>8. ASSUME NEW w \in Slots, MarkRunning(w) PROVE QueueInvariant'
  BY <1>8 DEF MarkRunning, MarkAs, Write, Emit, Goto, TypeOK, QState, Request, QueueInvariant, queueVars, slotVars
<1>9. ASSUME NEW w \in Slots, MarkDone(w) PROVE QueueInvariant'
  BY <1>9 DEF MarkDone, MarkAs, Write, Emit, Goto, TypeOK, QState, Request, QueueInvariant, queueVars, slotVars
<1>10. ASSUME NEW w \in Slots, AuditDone(w) PROVE QueueInvariant'
  BY <1>10 DEF AuditDone, Record, Goto, TypeOK, QState, Request, QueueInvariant, queueVars, slotVars
<1>11. ASSUME NEW w \in Slots, NotifyDone(w) PROVE QueueInvariant'
  BY <1>11 DEF NotifyDone, Notify, Goto, TypeOK, QState, Request, QueueInvariant, queueVars, slotVars
<1>12. ASSUME NEW w \in Slots, MarkFailed(w) PROVE QueueInvariant'
  BY <1>12 DEF MarkFailed, MarkAs, Write, Emit, Goto, TypeOK, QState, Request, QueueInvariant, queueVars, slotVars
<1>13. ASSUME NEW w \in Slots, AuditFailed(w) PROVE QueueInvariant'
  BY <1>13 DEF AuditFailed, Record, Goto, TypeOK, QState, Request, QueueInvariant, queueVars, slotVars
<1>14. ASSUME NEW w \in Slots, NotifyFailed(w) PROVE QueueInvariant'
  BY <1>14 DEF NotifyFailed, Notify, Goto, TypeOK, QState, Request, QueueInvariant, queueVars, slotVars
<1>15. ASSUME NEW w \in Slots, CloseThrows(w) PROVE QueueInvariant'
  BY <1>15 DEF CloseThrows, Goto, TypeOK, QState, Request, QueueInvariant, queueVars, slotVars
<1>16. ASSUME NEW w \in Slots, Complete(w) PROVE QueueInvariant'
  BY <1>16 DEF Complete, Settle, HoldsLock, Leave, TypeOK, QState, Request, QueueInvariant, queueVars, slotVars
<1>17. ASSUME NEW w \in Slots, Fail(w) PROVE QueueInvariant'
  BY <1>17 DEF Fail, Settle, HoldsLock, Leave, TypeOK, QState, Request, QueueInvariant, queueVars, slotVars, Retryable
<1>18. ASSUME NEW w \in Slots, FinishWork(w) PROVE QueueInvariant'
  BY <1>18 DEF FinishWork, Goto, TypeOK, QState, Request, QueueInvariant, queueVars, slotVars
<1>19. ASSUME NEW w \in Slots, ThrowWork(w) PROVE QueueInvariant'
  BY <1>19 DEF ThrowWork, Goto, TypeOK, QState, Request, QueueInvariant, queueVars, slotVars
<1>20. ASSUME NEW w \in Slots, Crash(w) PROVE QueueInvariant'
  BY <1>20 DEF Crash, HalfMarked, HalfReported, Die, Write, Unlock, Leave, TypeOK, QState, Request, QueueInvariant, queueVars, slotVars
<1>21. ASSUME NEW w \in Slots, Lapse(w) PROVE QueueInvariant'
  BY <1>21 DEF Lapse, Unlock, HoldsLock, TypeOK, QState, Request, QueueInvariant, queueVars, slotVars
<1>22. ASSUME NEW w \in Slots, NEW m \in Milestones, ReportProgress(w, m) PROVE QueueInvariant'
  BY <1>22 DEF ReportProgress, Emit, TypeOK, QState, Request, QueueInvariant, queueVars, slotVars
<1>23. ASSUME NEW w \in Slots, NEW m \in Milestones, ReportThrows(w, m) PROVE QueueInvariant'
  BY <1>23 DEF ReportThrows, Goto, TypeOK, QState, Request, QueueInvariant, queueVars, slotVars
<1>24. ASSUME NEW w \in Slots, NEW j \in Jobs, Reserve(w, j) PROVE QueueInvariant'
  BY <1>24 DEF Reserve, TypeOK, QState, Request, QueueInvariant, queueVars, slotVars
<1>25. CASE UNCHANGED vars
  BY <1>25 DEF vars, TypeOK, QState, Request, QueueInvariant, queueVars, slotVars
<1> QED
  BY <1>1, <1>2, <1>3, <1>4, <1>5, <1>6, <1>7, <1>8, <1>9, <1>10, <1>11, <1>12, <1>13, <1>14, <1>15, <1>16, <1>17, <1>18, <1>19, <1>20, <1>21, <1>22, <1>23, <1>24, <1>25
  DEF Next, Route, Timer, Process, Work

\* The queue's states, its lock and its counters always agree.
THEOREM QueueAlwaysConsistent == Spec => []QueueInvariant
<1>1. Init => QueueInvariant
  BY AttemptsAssumption, MaxStalledAssumption DEF Init, QueueInvariant
<1>2. TypeOK /\ QueueInvariant /\ [Next]_vars => QueueInvariant'
  BY QueueInvariantStep
<1> QED
  BY <1>1, <1>2, TypeCorrect, PTL DEF Spec

\* No run of a processor goes uncounted, whatever crashes, stalls or lapses.
THEOREM StartsAreAccounted == Spec => []StartsAccounted
<1>1. TypeOK /\ QueueInvariant => StartsAccounted
  <2> SUFFICES ASSUME TypeOK, QueueInvariant, NEW j \in Jobs
               PROVE  LET open == IF qstate[j] \in {"active", "completed"} THEN 1 ELSE 0
                      IN  /\ starts[j] = attempts[j] + stalls[j] + open
                          /\ attempts[j] <= Attempts
                          /\ stalls[j] <= MaxStalled + 1
                          /\ qstate[j] \in {"waiting", "delayed", "active"} =>
                                attempts[j] < Attempts /\ stalls[j] <= MaxStalled
    BY DEF StartsAccounted
  <2>1. /\ attempts[j] \in Nat /\ stalls[j] \in Nat /\ starts[j] \in Nat
        /\ qstate[j] \in QState
    BY DEF TypeOK
  <2>2. CASE qstate[j] \in {"active", "completed"}
    BY <2>1, <2>2, AttemptsAssumption, MaxStalledAssumption DEF QueueInvariant
  <2>3. CASE qstate[j] \in {"absent", "waiting", "delayed"}
    BY <2>1, <2>3, AttemptsAssumption, MaxStalledAssumption DEF QueueInvariant
  <2>4. CASE qstate[j] = "failed"
    BY <2>1, <2>4, AttemptsAssumption, MaxStalledAssumption DEF QueueInvariant
  <2> QED
    BY <2>1, <2>2, <2>3, <2>4 DEF QState
<1> QED
  BY <1>1, TypeCorrect, QueueAlwaysConsistent, PTL

----------------------------------------------------------------------------
\* Steps that touch neither the queue's state nor the count of runs stutter.
LEMMA QuietStep == ASSUME UNCHANGED <<qstate, starts>> PROVE UNCHANGED D!vars
BY DEF D!vars, Phase

\* What the job's state means for Delivery when it changes, for one job.
LEMMA PhaseOfMoved ==
  ASSUME NEW j \in Jobs, NEW s \in QState, TypeOK,
         qstate' = [qstate EXCEPT ![j] = s]
  PROVE  /\ \A i \in Jobs \ {j} : Phase(i)' = Phase(i)
         /\ s = "absent" => Phase(j)' = "new"
         /\ s \in {"waiting", "active", "delayed"} => Phase(j)' = "pending"
         /\ s \in {"completed", "failed"} => Phase(j)' = "settled"
BY DEF Phase, TypeOK, QState

\* Settling an active job is a Settle of Delivery, putting it back a stutter.
LEMMA ActiveSettles ==
  ASSUME NEW j \in Jobs, NEW s \in QState \ {"absent", "active"}, TypeOK, QueueInvariant,
         qstate[j] = "active", Settle(j, s)
  PROVE  [D!Next]_D!vars
<1> DEFINE before == [i \in Jobs |-> Phase(i)]
           after  == [i \in Jobs |-> Phase(i)']
<1>1. /\ qstate' = [qstate EXCEPT ![j] = s]
      /\ starts' = starts /\ starts[j] > 0 /\ Phase(j) = "pending"
  BY DEF Settle, QueueInvariant, TypeOK, Phase
<1>2. \A i \in Jobs \ {j} : Phase(i)' = Phase(i)
  BY <1>1, PhaseOfMoved
<1>3. CASE s \in {"waiting", "delayed"}
  <2>1. \A i \in Jobs : Phase(i)' = Phase(i)
    BY <1>1, <1>2, <1>3, PhaseOfMoved
  <2> QED
    BY <1>1, <2>1 DEF D!vars
<1>4. CASE s \in {"completed", "failed"}
  <2>1. after = [before EXCEPT ![j] = "settled"]
    BY <1>1, <1>2, <1>4, PhaseOfMoved
  <2>2. D!Settle(j)
    BY <1>1, <2>1 DEF D!Settle
  <2> QED
    BY <2>2 DEF D!Next
<1> QED
  BY <1>3, <1>4 DEF QState

\* The queue, its workers and its timers implement Delivery, under every kind
\* of fault: a job is delivered at most Attempts + MaxStalled times, never
\* before it is published and never after it is settled.
THEOREM ImplementsDelivery == Spec => DeliveryImplemented
<1>1. Init => D!Init
  BY DEF Init, D!Init, Phase
<1>2. ASSUME TypeOK, QueueInvariant, QueueInvariant', [Next]_vars
      PROVE  [D!Next]_D!vars
  <2> USE <1>2
  <2>1. ASSUME NEW j \in Jobs, Enqueue(j) PROVE [D!Next]_D!vars
    <3>1. /\ qstate' = [qstate EXCEPT ![j] = "waiting"] /\ starts' = starts
          /\ Phase(j) = "new"
      BY <2>1 DEF Enqueue, QueueInvariant, Phase
    <3>2. [i \in Jobs |-> Phase(i)'] = [[i \in Jobs |-> Phase(i)] EXCEPT ![j] = "pending"]
      BY <3>1, PhaseOfMoved DEF QState
    <3>3. D!Publish(j)
      BY <3>1, <3>2 DEF D!Publish
    <3> QED
      BY <3>3 DEF D!Next
  <2>2. ASSUME NEW w \in Slots, NEW j \in Jobs, Reserve(w, j) PROVE [D!Next]_D!vars
    <3>1. /\ qstate' = [qstate EXCEPT ![j] = "active"]
          /\ starts' = [starts EXCEPT ![j] = @ + 1]
          /\ Phase(j) = "pending"
      BY <2>2 DEF Reserve, Phase
    <3>2. starts[j] < Attempts + MaxStalled
      BY <2>2, AttemptsAssumption, MaxStalledAssumption DEF Reserve, QueueInvariant, TypeOK
    <3>3. [i \in Jobs |-> Phase(i)'] = [i \in Jobs |-> Phase(i)]
      BY <3>1, PhaseOfMoved DEF QState
    <3>4. D!Deliver(j)
      BY <3>1, <3>2, <3>3 DEF D!Deliver
    <3> QED
      BY <3>4 DEF D!Next
  <2>3. ASSUME NEW w \in Slots, Complete(w) PROVE [D!Next]_D!vars
    <3>1. CASE HoldsLock(w)
      <4>1. /\ job[w] \in Jobs /\ qstate[job[w]] = "active"
            /\ Settle(job[w], "completed")
        BY <2>3, <3>1, IdleAssumption DEF Complete, HoldsLock, QueueInvariant, TypeOK, Pc
      <4> QED
        BY <4>1, ActiveSettles DEF QState
    <3> QED
      BY <2>3, <3>1, QuietStep DEF Complete, queueVars
  <2>4. ASSUME NEW w \in Slots, Fail(w) PROVE [D!Next]_D!vars
    <3>1. CASE HoldsLock(w)
      <4>1. /\ job[w] \in Jobs /\ qstate[job[w]] = "active"
            /\ \E s \in {"delayed", "failed"} : Settle(job[w], s)
        BY <2>4, <3>1, IdleAssumption DEF Fail, HoldsLock, QueueInvariant, TypeOK, Pc
      <4> QED
        BY <4>1, ActiveSettles DEF QState
    <3> QED
      BY <2>4, <3>1, QuietStep DEF Fail, queueVars
  <2>5. ASSUME NEW j \in Jobs, CheckStalled(j) PROVE [D!Next]_D!vars
    <3>1. qstate[j] = "active" /\ \E s \in {"waiting", "failed"} : Settle(j, s)
      BY <2>5 DEF CheckStalled
    <3> QED
      BY <3>1, ActiveSettles DEF QState
  <2>6. ASSUME NEW j \in Jobs, Promote(j) PROVE [D!Next]_D!vars
    <3>1. /\ qstate' = [qstate EXCEPT ![j] = "waiting"] /\ starts' = starts
          /\ Phase(j) = "pending"
      BY <2>6 DEF Promote, Phase
    <3>2. \A i \in Jobs : Phase(i)' = Phase(i)
      BY <3>1, PhaseOfMoved DEF QState
    <3> QED
      BY <3>1, <3>2 DEF D!vars
  <2>7. ASSUME NEW j \in Jobs, CreateJob(j) \/ AuditRequest(j) \/ AbandonRequest(j)
        PROVE [D!Next]_D!vars
    BY <2>7, QuietStep DEF CreateJob, AuditRequest, AbandonRequest, queueVars
  <2>8. ASSUME NEW w \in Slots,
               \/ OpenAdapter(w) \/ MarkRunning(w) \/ MarkDone(w) \/ AuditDone(w)
               \/ NotifyDone(w) \/ MarkFailed(w) \/ AuditFailed(w) \/ NotifyFailed(w)
               \/ CloseThrows(w) \/ Work(w) \/ Crash(w) \/ Lapse(w)
        PROVE [D!Next]_D!vars
    BY <2>8, QuietStep
    DEF OpenAdapter, MarkRunning, MarkDone, AuditDone, NotifyDone, MarkFailed,
        AuditFailed, NotifyFailed, CloseThrows, Work, ReportProgress, ReportThrows,
        FinishWork, ThrowWork, Crash, Die, Lapse, queueVars
  <2>9. CASE UNCHANGED vars
    BY <2>9, QuietStep DEF vars, queueVars
  <2> QED
    BY <2>1, <2>2, <2>3, <2>4, <2>5, <2>6, <2>7, <2>8, <2>9
    DEF Next, Route, Timer, Process
<1> QED
  BY <1>1, <1>2, TypeCorrect, QueueAlwaysConsistent, PTL DEF Spec, DeliveryImplemented, D!Spec

----------------------------------------------------------------------------
\* Without "lapse" the program counter of the only slot that runs a job tells
\* what its row says, and a completed job keeps what was reported of it.
LEMMA ReportStep ==
  ASSUME "lapse" \notin Faults, TypeOK, QueueInvariant,
         ReportInvariant, CompletedIsReported, [Next]_vars
  PROVE  ReportInvariant' /\ CompletedIsReported'
<1> USE IdleAssumption
<1>1. ASSUME NEW j \in Jobs, CreateJob(j) PROVE ReportInvariant' /\ CompletedIsReported'
  BY <1>1 DEF CreateJob, Write, TypeOK, Pc, ReportInvariant, CompletedIsReported, QueueInvariant, rowVars, queueVars, slotVars, toldVars
<1>2. ASSUME NEW j \in Jobs, Enqueue(j) PROVE ReportInvariant' /\ CompletedIsReported'
  BY <1>2 DEF Enqueue, TypeOK, Pc, ReportInvariant, CompletedIsReported, QueueInvariant, rowVars, queueVars, slotVars, toldVars
<1>3. ASSUME NEW j \in Jobs, AuditRequest(j) PROVE ReportInvariant' /\ CompletedIsReported'
  BY <1>3 DEF AuditRequest, Record, TypeOK, Pc, ReportInvariant, CompletedIsReported, QueueInvariant, rowVars, queueVars, slotVars, toldVars
<1>4. ASSUME NEW j \in Jobs, AbandonRequest(j) PROVE ReportInvariant' /\ CompletedIsReported'
  BY <1>4 DEF AbandonRequest, TypeOK, Pc, ReportInvariant, CompletedIsReported, QueueInvariant, rowVars, queueVars, slotVars, toldVars
<1>5. ASSUME NEW j \in Jobs, Promote(j) PROVE ReportInvariant' /\ CompletedIsReported'
  BY <1>5 DEF Promote, TypeOK, Pc, ReportInvariant, CompletedIsReported, QueueInvariant, rowVars, queueVars, slotVars, toldVars
<1>6. ASSUME NEW j \in Jobs, CheckStalled(j) PROVE ReportInvariant' /\ CompletedIsReported'
  BY <1>6 DEF CheckStalled, Settle, TypeOK, Pc, ReportInvariant, CompletedIsReported, QueueInvariant, rowVars, queueVars, slotVars, toldVars
<1>7. ASSUME NEW w \in Slots, OpenAdapter(w) PROVE ReportInvariant' /\ CompletedIsReported'
  BY <1>7 DEF OpenAdapter, Goto, TypeOK, Pc, ReportInvariant, CompletedIsReported, QueueInvariant, rowVars, queueVars, slotVars, toldVars
<1>8. ASSUME NEW w \in Slots, MarkRunning(w) PROVE ReportInvariant' /\ CompletedIsReported'
  BY <1>8 DEF MarkRunning, MarkAs, Write, Emit, Goto, TypeOK, Pc, ReportInvariant, CompletedIsReported, QueueInvariant, rowVars, queueVars, slotVars, toldVars
<1>9. ASSUME NEW w \in Slots, MarkDone(w) PROVE ReportInvariant' /\ CompletedIsReported'
  BY <1>9 DEF MarkDone, MarkAs, Write, Emit, Goto, TypeOK, Pc, ReportInvariant, CompletedIsReported, QueueInvariant, rowVars, queueVars, slotVars, toldVars
<1>10. ASSUME NEW w \in Slots, AuditDone(w) PROVE ReportInvariant' /\ CompletedIsReported'
  BY <1>10 DEF AuditDone, Record, Goto, TypeOK, Pc, ReportInvariant, CompletedIsReported, QueueInvariant, rowVars, queueVars, slotVars, toldVars
<1>11. ASSUME NEW w \in Slots, NotifyDone(w) PROVE ReportInvariant' /\ CompletedIsReported'
  BY <1>11 DEF NotifyDone, Notify, Goto, TypeOK, Pc, ReportInvariant, CompletedIsReported, QueueInvariant, rowVars, queueVars, slotVars, toldVars
<1>12. ASSUME NEW w \in Slots, MarkFailed(w) PROVE ReportInvariant' /\ CompletedIsReported'
  BY <1>12 DEF MarkFailed, MarkAs, Write, Emit, Goto, TypeOK, Pc, ReportInvariant, CompletedIsReported, QueueInvariant, rowVars, queueVars, slotVars, toldVars
<1>13. ASSUME NEW w \in Slots, AuditFailed(w) PROVE ReportInvariant' /\ CompletedIsReported'
  BY <1>13 DEF AuditFailed, Record, Goto, TypeOK, Pc, ReportInvariant, CompletedIsReported, QueueInvariant, rowVars, queueVars, slotVars, toldVars
<1>14. ASSUME NEW w \in Slots, NotifyFailed(w) PROVE ReportInvariant' /\ CompletedIsReported'
  BY <1>14 DEF NotifyFailed, Notify, Goto, TypeOK, Pc, ReportInvariant, CompletedIsReported, QueueInvariant, rowVars, queueVars, slotVars, toldVars
<1>15. ASSUME NEW w \in Slots, CloseThrows(w) PROVE ReportInvariant' /\ CompletedIsReported'
  BY <1>15 DEF CloseThrows, Goto, TypeOK, Pc, ReportInvariant, CompletedIsReported, QueueInvariant, rowVars, queueVars, slotVars, toldVars
<1>16. ASSUME NEW w \in Slots, Complete(w) PROVE ReportInvariant' /\ CompletedIsReported'
  BY <1>16 DEF Complete, Settle, HoldsLock, Leave, TypeOK, Pc, ReportInvariant, CompletedIsReported, QueueInvariant, rowVars, queueVars, slotVars, toldVars
<1>17. ASSUME NEW w \in Slots, Fail(w) PROVE ReportInvariant' /\ CompletedIsReported'
  BY <1>17 DEF Fail, Settle, HoldsLock, Leave, TypeOK, Pc, ReportInvariant, CompletedIsReported, QueueInvariant, rowVars, queueVars, slotVars, toldVars, Retryable
<1>18. ASSUME NEW w \in Slots, FinishWork(w) PROVE ReportInvariant' /\ CompletedIsReported'
  BY <1>18 DEF FinishWork, Goto, TypeOK, Pc, ReportInvariant, CompletedIsReported, QueueInvariant, rowVars, queueVars, slotVars, toldVars
<1>19. ASSUME NEW w \in Slots, ThrowWork(w) PROVE ReportInvariant' /\ CompletedIsReported'
  BY <1>19 DEF ThrowWork, Goto, TypeOK, Pc, ReportInvariant, CompletedIsReported, QueueInvariant, rowVars, queueVars, slotVars, toldVars
<1>20. ASSUME NEW w \in Slots, Crash(w) PROVE ReportInvariant' /\ CompletedIsReported'
  BY <1>20 DEF Crash, HalfMarked, HalfReported, Die, Write, Unlock, Leave, TypeOK, Pc, ReportInvariant, CompletedIsReported, QueueInvariant, rowVars, queueVars, slotVars, toldVars
<1>21. ASSUME NEW w \in Slots, Lapse(w) PROVE ReportInvariant' /\ CompletedIsReported'
  BY <1>21 DEF Lapse, Unlock, HoldsLock, TypeOK, Pc, ReportInvariant, CompletedIsReported, QueueInvariant, rowVars, queueVars, slotVars, toldVars
<1>22. ASSUME NEW w \in Slots, NEW m \in Milestones, ReportProgress(w, m) PROVE ReportInvariant' /\ CompletedIsReported'
  BY <1>22 DEF ReportProgress, Emit, TypeOK, Pc, ReportInvariant, CompletedIsReported, QueueInvariant, rowVars, queueVars, slotVars, toldVars
<1>23. ASSUME NEW w \in Slots, NEW m \in Milestones, ReportThrows(w, m) PROVE ReportInvariant' /\ CompletedIsReported'
  BY <1>23 DEF ReportThrows, Emit, Goto, TypeOK, Pc, ReportInvariant, CompletedIsReported, QueueInvariant, rowVars, queueVars, slotVars, toldVars
<1>24. ASSUME NEW w \in Slots, NEW j \in Jobs, Reserve(w, j) PROVE ReportInvariant' /\ CompletedIsReported'
  BY <1>24 DEF Reserve, TypeOK, Pc, ReportInvariant, CompletedIsReported, QueueInvariant, rowVars, queueVars, slotVars, toldVars
<1>25. CASE UNCHANGED vars
  BY <1>25 DEF vars, TypeOK, Pc, ReportInvariant, CompletedIsReported, QueueInvariant, rowVars, queueVars, slotVars, toldVars
<1> QED
  BY <1>1, <1>2, <1>3, <1>4, <1>5, <1>6, <1>7, <1>8, <1>9, <1>10, <1>11, <1>12, <1>13, <1>14, <1>15, <1>16, <1>17, <1>18, <1>19, <1>20, <1>21, <1>22, <1>23, <1>24, <1>25
  DEF Next, Route, Timer, Process, Work

\* Without lapses the place of a processor tells what its row, its event and its
\* notification say.
THEOREM ReportAlwaysConsistent ==
  ASSUME "lapse" \notin Faults
  PROVE  Spec => [](ReportInvariant /\ CompletedIsReported)
<1>1. Init => ReportInvariant /\ CompletedIsReported
  BY DEF Init, ReportInvariant, CompletedIsReported
<1>2. /\ TypeOK /\ QueueInvariant /\ ReportInvariant /\ CompletedIsReported
      /\ [Next]_vars
      => ReportInvariant' /\ CompletedIsReported'
  BY ReportStep
<1> QED
  BY <1>1, <1>2, TypeCorrect, QueueAlwaysConsistent, PTL DEF Spec

\* A job the queue counts as completed has a row that says so and an actor who
\* was told, through any rejected calls and crashes.
THEOREM CompletionIsReported ==
  ASSUME "lapse" \notin Faults
  PROVE  Spec => []CompletedIsReported
BY ReportAlwaysConsistent, PTL

\* A job is never run by two slots at once unless a lock lapses.
THEOREM ExecutionIsSole ==
  ASSUME "lapse" \notin Faults
  PROVE  Spec => []SoleExecution
<1>1. ReportInvariant => SoleExecution
  BY DEF ReportInvariant, SoleExecution
<1> QED
  BY <1>1, ReportAlwaysConsistent, PTL

\* A row becomes "done" only from "running".
THEOREM DoneComesFromRunning ==
  ASSUME "lapse" \notin Faults
  PROVE  Spec => DoneOnlyFromRunning
<1>1. ASSUME TypeOK, QueueInvariant, ReportInvariant, [Next]_vars,
             NEW i \in Jobs, status'[i] = "done", status[i] # "done"
      PROVE  status[i] = "running"
  <2> USE <1>1, IdleAssumption
  <2>1. ASSUME NEW w \in Slots, MarkDone(w) \/ Crash(w) PROVE status[i] = "running"
    BY <2>1 DEF MarkDone, MarkAs, Crash, HalfMarked, HalfReported, Die, Write, TypeOK,
                Pc, ReportInvariant, QueueInvariant, rowVars
  <2>2. ASSUME NEW j \in Jobs, CreateJob(j) PROVE FALSE
    BY <2>2 DEF CreateJob, Write, TypeOK
  <2>3. ASSUME NEW w \in Slots, MarkRunning(w) \/ MarkFailed(w) PROVE FALSE
    BY <2>3 DEF MarkRunning, MarkFailed, MarkAs, Write, TypeOK, rowVars
  <2> QED
    BY <2>1, <2>2, <2>3
    DEF Next, Route, Timer, Process, Work, vars, rowVars, Enqueue, AuditRequest,
        AbandonRequest, Promote, CheckStalled, OpenAdapter, AuditDone, NotifyDone,
        AuditFailed, NotifyFailed, CloseThrows, Complete, Fail, ReportProgress,
        ReportThrows, FinishWork, ThrowWork, Lapse, Reserve
<1>2. TypeOK /\ QueueInvariant /\ ReportInvariant /\ [Next]_vars
        => [DoneStep]_vars
  BY <1>1 DEF DoneStep

<1> QED
  BY <1>2, TypeCorrect, QueueAlwaysConsistent, ReportAlwaysConsistent, PTL
  DEF Spec, DoneOnlyFromRunning

----------------------------------------------------------------------------
\* A processor returns only after its actor was told, whoever else runs the job.
ToldInvariant ==
  /\ CompletedIsTold
  /\ \A w \in Slots : pc[w] = "ret" /\ job[w] \in Attended
       => "completed" \in notices[job[w]]

\* Notifications are never taken back, and only NotifyDone leads to the return.
LEMMA ToldStep ==
  ASSUME TypeOK, QueueInvariant, ToldInvariant, [Next]_vars
  PROVE  ToldInvariant'
<1> USE IdleAssumption, AttendedAssumption
<1> USE DEF rowVars, queueVars, slotVars, toldVars
<1>1. ASSUME NEW w \in Slots, NotifyDone(w) \/ NotifyFailed(w) PROVE ToldInvariant'
  BY <1>1 DEF NotifyDone, NotifyFailed, Notify, Goto, TypeOK, ToldInvariant, CompletedIsTold
<1>2. ASSUME NEW w \in Slots, Complete(w) PROVE ToldInvariant'
  BY <1>2 DEF Complete, Settle, HoldsLock, Leave, TypeOK, QueueInvariant,
              ToldInvariant, CompletedIsTold
<1>3. ASSUME NEW w \in Slots, Fail(w) \/ Crash(w) PROVE ToldInvariant'
  BY <1>3 DEF Fail, Crash, Die, Settle, HoldsLock, Leave, TypeOK, ToldInvariant, CompletedIsTold
<1>4. ASSUME NEW j \in Jobs, Route(j) \/ AbandonRequest(j) \/ Timer(j) PROVE ToldInvariant'
  BY <1>4 DEF Route, CreateJob, Enqueue, AuditRequest, AbandonRequest, Timer, Promote,
              CheckStalled, Settle, TypeOK, ToldInvariant, CompletedIsTold
<1>5. ASSUME NEW w \in Slots,
             OpenAdapter(w) \/ MarkRunning(w) \/ MarkDone(w) \/ MarkFailed(w)
      PROVE  ToldInvariant'
  BY <1>5 DEF OpenAdapter, MarkRunning, MarkDone, MarkFailed, MarkAs, Goto, TypeOK,
              ToldInvariant, CompletedIsTold
<1>6. ASSUME NEW w \in Slots,
             AuditDone(w) \/ AuditFailed(w) \/ CloseThrows(w) \/ Work(w) \/ Lapse(w)
      PROVE  ToldInvariant'
  BY <1>6 DEF AuditDone, AuditFailed, CloseThrows, Work, ReportProgress, ReportThrows,
              FinishWork, ThrowWork, Lapse, Goto, TypeOK, ToldInvariant, CompletedIsTold
<1>7. ASSUME NEW w \in Slots, NEW j \in Jobs, Reserve(w, j) PROVE ToldInvariant'
  BY <1>7 DEF Reserve, TypeOK, ToldInvariant, CompletedIsTold
<1>8. CASE UNCHANGED vars
  BY <1>8 DEF vars, ToldInvariant, CompletedIsTold
<1> QED
  BY <1>1, <1>2, <1>3, <1>4, <1>5, <1>6, <1>7, <1>8 DEF Next, Process

\* Whatever calls reject, whichever workers die and even if executions outlive
\* their lock and overlap, a completed job's actor was told that it completed.
THEOREM CompletionIsTold == Spec => []CompletedIsTold
<1>1. Init => ToldInvariant
  BY AttendedAssumption DEF Init, ToldInvariant, CompletedIsTold
<1>2. TypeOK /\ QueueInvariant /\ ToldInvariant /\ [Next]_vars => ToldInvariant'
  BY ToldStep
<1>3. ToldInvariant => CompletedIsTold
  BY DEF ToldInvariant
<1> QED
  BY <1>1, <1>2, <1>3, TypeCorrect, QueueAlwaysConsistent, PTL DEF Spec

----------------------------------------------------------------------------
\* The two ways in which the row of a job at rest is explained: no attempt got
\* past getAdapter, or the failure was announced and audited.
Explained(j) ==
  \/ status[j] = "queued" /\ announced[j] = "absent" /\ trail[j] \subseteq {"requested"}
  \/ status[j] = "failed" /\ announced[j] = "failed" /\ "failed" \in trail[j]

\* What makes it inductive: as long as no stall was charged, a delivery begins
\* with an explained row and, where it is, tells how much of the next explanation
\* is written.
ExplainedInvariant ==
  /\ \A j \in Jobs :
       /\ request[j] \in {"idle", "created"} => announced[j] = "absent" /\ trail[j] = {}
       /\ request[j] = "created" => status[j] = "queued"
       /\ qstate[j] \in {"waiting", "delayed", "failed"} /\ stalls[j] = 0 => Explained(j)
       /\ qstate[j] = "completed" => "completed" \in trail[j]
  /\ \A w \in Slots : job[w] # NoJob =>
       /\ pc[w] \in {"adapter", "start", "throw"} /\ stalls[job[w]] = 0
            => Explained(job[w])
       /\ pc[w] \in {"notifyOk", "ret"} => "completed" \in trail[job[w]]
       /\ pc[w] \in {"auditFail", "notifyFail"} =>
            status[job[w]] = "failed" /\ announced[job[w]] = "failed"
       /\ pc[w] = "notifyFail" => "failed" \in trail[job[w]]

\* A busy slot holds the lock of its job, which is active, and no other slot
\* runs it.
LEMMA BusySlotHolds ==
  ASSUME TypeOK, QueueInvariant, ReportInvariant, NEW w \in Slots, pc[w] # "idle"
  PROVE  /\ job[w] \in Jobs /\ job[w] # NoJob /\ lock[job[w]] = w
         /\ qstate[job[w]] = "active" /\ request[job[w]] \notin {"idle", "created"}
         /\ \A v \in Slots \ {w} : job[v] # NoJob => job[v] \in Jobs \ {job[w]}
<1>1. job[w] \in Jobs /\ job[w] # NoJob
  BY IdleAssumption DEF TypeOK, QueueInvariant
<1>2. lock[job[w]] = w /\ \A v \in Slots : job[v] # NoJob => lock[job[v]] = v
  BY <1>1 DEF ReportInvariant
<1>3. qstate[job[w]] = "active"
  BY <1>1, <1>2, IdleAssumption DEF QueueInvariant
<1>4. request[job[w]] \notin {"idle", "created"}
  BY <1>1, <1>3 DEF QueueInvariant
<1> QED
  BY <1>1, <1>2, <1>3, <1>4 DEF TypeOK

\* Without faults every step keeps the explanations, the death of the worker
\* process too: its jobs stay active until the queue charges them a stall.
LEMMA ExplainedStep ==
  ASSUME Faults = {}, TypeOK, QueueInvariant, ReportInvariant, ExplainedInvariant, [Next]_vars
  PROVE  ExplainedInvariant'
<1> USE IdleAssumption
<1> USE DEF rowVars, queueVars, slotVars, toldVars
<1>1. ASSUME NEW j \in Jobs, CreateJob(j) PROVE ExplainedInvariant'
  BY <1>1 DEF CreateJob, Write, TypeOK, QueueInvariant, ExplainedInvariant, Explained
<1>2. ASSUME NEW j \in Jobs, Enqueue(j) PROVE ExplainedInvariant'
  BY <1>2 DEF Enqueue, TypeOK, QueueInvariant, ExplainedInvariant, Explained
<1>3. ASSUME NEW j \in Jobs, AuditRequest(j) PROVE ExplainedInvariant'
  BY <1>3 DEF AuditRequest, Record, TypeOK, QueueInvariant, ExplainedInvariant, Explained
<1>4. ASSUME NEW j \in Jobs, Promote(j) PROVE ExplainedInvariant'
  BY <1>4 DEF Promote, TypeOK, QueueInvariant, ExplainedInvariant, Explained
<1>5. ASSUME NEW w \in Slots, OpenAdapter(w) PROVE ExplainedInvariant'
  <2>1. pc[w] # "idle"
    BY <1>5 DEF OpenAdapter, Goto
  <2> QED
    BY <1>5, <2>1, BusySlotHolds DEF OpenAdapter, Goto, TypeOK, ExplainedInvariant, Explained
<1>6. ASSUME NEW w \in Slots, MarkRunning(w) \/ MarkDone(w) \/ MarkFailed(w) PROVE ExplainedInvariant'
  <2>1. pc[w] # "idle"
    BY <1>6 DEF MarkRunning, MarkDone, MarkFailed, MarkAs, Write, Emit, Goto
  <2> QED
    BY <1>6, <2>1, BusySlotHolds DEF MarkRunning, MarkDone, MarkFailed, MarkAs, Write, Emit, Goto, TypeOK, ExplainedInvariant, Explained
<1>7. ASSUME NEW w \in Slots, AuditDone(w) \/ AuditFailed(w) PROVE ExplainedInvariant'
  <2>1. pc[w] # "idle"
    BY <1>7 DEF AuditDone, AuditFailed, Record, Goto
  <2> QED
    BY <1>7, <2>1, BusySlotHolds DEF AuditDone, AuditFailed, Record, Goto, TypeOK, ExplainedInvariant, Explained
<1>8. ASSUME NEW w \in Slots, NotifyDone(w) \/ NotifyFailed(w) PROVE ExplainedInvariant'
  <2>1. pc[w] # "idle"
    BY <1>8 DEF NotifyDone, NotifyFailed, Notify, Goto
  <2> QED
    BY <1>8, <2>1, BusySlotHolds DEF NotifyDone, NotifyFailed, Notify, Goto, TypeOK, ExplainedInvariant, Explained
<1>9. ASSUME NEW w \in Slots, Complete(w) PROVE ExplainedInvariant'
  <2>1. pc[w] # "idle"
    BY <1>9 DEF Complete, Settle, HoldsLock, Leave
  <2> QED
    BY <1>9, <2>1, BusySlotHolds DEF Complete, Settle, HoldsLock, Leave, TypeOK, ExplainedInvariant, Explained
<1>10. ASSUME NEW w \in Slots, Fail(w) PROVE ExplainedInvariant'
  <2>1. pc[w] # "idle"
    BY <1>10 DEF Fail, Settle, HoldsLock, Leave
  <2> QED
    BY <1>10, <2>1, BusySlotHolds DEF Fail, Settle, HoldsLock, Leave, TypeOK, ExplainedInvariant, Explained
<1>11. ASSUME NEW w \in Slots, FinishWork(w) \/ ThrowWork(w) PROVE ExplainedInvariant'
  <2>1. pc[w] # "idle"
    BY <1>11 DEF FinishWork, ThrowWork, Goto
  <2> QED
    BY <1>11, <2>1, BusySlotHolds DEF FinishWork, ThrowWork, Goto, TypeOK, ExplainedInvariant, Explained
<1>12. ASSUME NEW w \in Slots, NEW m \in Milestones, ReportProgress(w, m) PROVE ExplainedInvariant'
  <2>1. pc[w] # "idle"
    BY <1>12 DEF ReportProgress, Emit
  <2> QED
    BY <1>12, <2>1, BusySlotHolds DEF ReportProgress, Emit, TypeOK, ExplainedInvariant, Explained
<1>13. ASSUME NEW w \in Slots, NEW j \in Jobs, Reserve(w, j) PROVE ExplainedInvariant'
  BY <1>13 DEF Reserve, TypeOK, QueueInvariant, ExplainedInvariant, Explained
<1>14. ASSUME NEW j \in Jobs, CheckStalled(j) PROVE ExplainedInvariant'
  <2>1. stalls'[j] # 0 /\ \A v \in Slots : job[v] # j
    BY <1>14 DEF CheckStalled, TypeOK, ReportInvariant
  <2> QED
    BY <1>14, <2>1 DEF CheckStalled, Settle, TypeOK, ExplainedInvariant, Explained
<1>15. ASSUME NEW w \in Slots, Crash(w) PROVE ExplainedInvariant'
  <2>1. pc[w] # "idle"
    BY <1>15 DEF Crash, Die
  <2>2. \A i \in Jobs \ {job[w]} : status'[i] = status[i]
    BY <1>15, <2>1, BusySlotHolds DEF Crash, HalfMarked, HalfReported, Write, TypeOK
  <2>3. /\ UNCHANGED <<announced, request, qstate, stalls, notices, trail>>
        /\ job' = [job EXCEPT ![w] = NoJob] /\ pc' = [pc EXCEPT ![w] = "idle"]
    BY <1>15 DEF Crash, Die, Leave
  <2> QED
    BY <2>1, <2>2, <2>3, BusySlotHolds DEF TypeOK, ExplainedInvariant, Explained
<1>17. ASSUME NEW j \in Jobs, AbandonRequest(j) PROVE FALSE
  BY <1>17 DEF AbandonRequest
<1>18. ASSUME NEW w \in Slots,
              \/ CloseThrows(w) \/ Lapse(w)
              \/ \E m \in Milestones : ReportThrows(w, m)
       PROVE  FALSE
  BY <1>18 DEF CloseThrows, ReportThrows, Lapse
<1>16. CASE UNCHANGED vars
  BY <1>16 DEF vars, ExplainedInvariant, Explained
<1> QED
  BY <1>1, <1>2, <1>3, <1>4, <1>5, <1>6, <1>7, <1>8, <1>9, <1>10, <1>11, <1>12, <1>13, <1>14, <1>15, <1>16, <1>17, <1>18
  DEF Next, Route, Timer, Process, Work

\* Without faults a job that rests without a stall has a row that is explained,
\* whatever work fails and however often; a row found "running", or a failure
\* unrecorded, is always that of a job whose worker died under it.
THEOREM RestIsExplained ==
  ASSUME Faults = {}
  PROVE  Spec => []RestingRowIsExplained
<1>1. Init => ExplainedInvariant
  BY DEF Init, ExplainedInvariant
<1>2. /\ TypeOK /\ QueueInvariant /\ ReportInvariant /\ ExplainedInvariant /\ [Next]_vars
      => ExplainedInvariant'
  BY ExplainedStep
<1>3. ExplainedInvariant => RestingRowIsExplained
  BY DEF ExplainedInvariant, Explained, RestingRowIsExplained
<1>4. Spec => [](ReportInvariant /\ CompletedIsReported)
  <2>1. "lapse" \notin Faults
    OBVIOUS
  <2> QED
    BY <2>1, ReportAlwaysConsistent
<1> QED
  BY <1>1, <1>2, <1>3, <1>4, TypeCorrect, QueueAlwaysConsistent, PTL DEF Spec
=============================================================================
