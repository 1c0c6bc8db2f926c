\* One job, two slots: calls reject, workers die, executions outlive their lock.
SPECIFICATION FairSpec
CONSTANTS
  j1 = j1
  j2 = j2
  w1 = w1
  w2 = w2
  NoJob = NoJob
  NoSlot = NoSlot
  Jobs = {j1}
  Slots = {w1, w2}
  Attempts = 2
  MaxStalled = 1
  Milestones <- MCMilestones
  Attended = {j1}
  Faults = {"call", "crash", "lapse"}
INVARIANTS TypeOK CompletedIsTold
PROPERTIES DeliveryImplemented EnqueuedJobsSettle
\* Jobs are finitely many: when all are settled the system rests.
CHECK_DEADLOCK FALSE
