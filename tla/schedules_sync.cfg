\* Requests run into each other and into boots, calls are lost, processes die, servers go.
SPECIFICATION MCSpec
CONSTANTS
  s1 = s1
  s2 = s2
  c1 = c1
  bad = bad
  r1 = r1
  r2 = r2
  NoRow = NoRow
  NoRequest = NoRequest
  Schedules = {s1, s2}
  Crons = {c1, bad}
  Valid = {c1}
  Requests = {r1, r2}
  Faults = {"call", "crash", "cascade"}
SYMMETRY Symmetry
INVARIANTS TypeOK RegisteredAtRest BootRegistersAll
