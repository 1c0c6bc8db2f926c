\* Rows and objects under rejected calls, crashes and late uploads.
SPECIFICATION BackupSpec
CONSTANTS
  j1 = j1
  w1 = w1
  w2 = w2
  NoJob = NoJob
  NoSlot = NoSlot
  NoDump = NoDump
  Jobs = {j1}
  Slots = {w1, w2}
  Attempts = 2
  MaxStalled = 1
  Milestones = {5, 30}
  Attended = {j1}
  Faults = {"call", "crash"}
INVARIANTS BackupTypeOK DoneIsRecorded FirstDeliveryIsIntact SoleExecution CompletedIsReported
PROPERTIES LifecycleImplemented
\* One job: when it is settled the system rests.
CHECK_DEADLOCK FALSE
