\* Expected violation: one writer, the clock moves.
SPECIFICATION ChainSpec
CONSTANTS
  w1 = w1
  w2 = w2
  w3 = w3
  login = login
  logout = logout
  ann = ann
  bob = bob
  Writers = {w1}
  Actions = {login}
  Emails = {ann}
  Metas <- InOrder
  Stored <- JsonbOrder
  Genesis = Genesis
  Hash <- PairHash
  MaxTime = 1
  MaxEntries = 2
  NoDraft = NoDraft
INVARIANTS UntamperedVerifies
\* The log and the clock are bounded: at the bounds the system rests.
CHECK_DEADLOCK FALSE
