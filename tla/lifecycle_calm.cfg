\* Only work fails, at times with the whole process; two jobs and their retries
\* compete for one slot.  The percentage plays no part in the properties: 0 keeps
\* the report and its event and adds no states.
SPECIFICATION CalmSpec
CONSTANTS
  j1 = j1
  j2 = j2
  w1 = w1
  w2 = w2
  NoJob = NoJob
  NoSlot = NoSlot
  Jobs = {j1, j2}
  Slots = {w1}
  Attempts = 3
  MaxStalled = 1
  Milestones = {0}
  Attended = {j1}
  Faults = {}
INVARIANTS RestingRowIsExplained
PROPERTIES EnqueuedJobsSettle
\* Jobs are finitely many: when all are settled the system rests.
CHECK_DEADLOCK FALSE
