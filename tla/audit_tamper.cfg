\* Two overlapping writers, two instants.
SPECIFICATION ChainSpec
CONSTANTS
  w1 = w1
  w2 = w2
  w3 = w3
  login = login
  logout = logout
  ann = ann
  bob = bob
  Writers = {w1, w2}
  Actions = {login, logout}
  Emails = {ann}
  Metas <- AnyOrder
  Stored <- JsonbOrder
  Genesis = Genesis
  Hash <- PairHash
  MaxTime = 1
  MaxEntries = 3
  NoDraft = NoDraft
SYMMETRY Symmetry
INVARIANTS EveryEntryContinues TamperDetected
\* The log and the clock are bounded: at the bounds the system rests.
CHECK_DEADLOCK FALSE
