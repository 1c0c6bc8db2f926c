\* Two jobs of any kinds in one process that may die, on either engine.
SPECIFICATION MCSpec
CONSTANTS
  j1 = j1
  j2 = j2
  NoOne = NoOne
  Other = Other
  Jobs = {j1, j2}
  Attempts = 2
  MaxStalled = 0
  Size = 2
INVARIANTS TypeOK CompletedIsWhole ImportedInOrder ExportIsRecorded
\* The jobs are finitely many: when all are settled the system rests.
CHECK_DEADLOCK FALSE
