\* Two consoles edit one server, which may move to another host and back.
SPECIFICATION MCSpec
SYMMETRY MCSymmetry
CONSTANTS
  h1 = h1
  h2 = h2
  c1 = c1
  c2 = c2
  None = None
  Asked = Asked
  MasterKey = MasterKey
  Hosts = {h1, h2}
  Clients = {c1, c2}
  MaxVer = 2
INVARIANTS TypeOK SettingsArePaired ReadsArePaired OwnWriteShown
\* A server that was deleted, and shown as such, is the end.
CHECK_DEADLOCK FALSE
