\* Two sweeps overlap, calls reject, a scheduler dies in the middle.
SPECIFICATION FairSpec
CONSTANTS
  short = short
  long = long
  a = a
  b = b
  MaxArtifacts = 4
  Schedules = {short, long}
  Keep <- MCKeep
  Sweeps = {a, b}
  MaxCrashes = 1
  Faults = {"call"}
INVARIANTS TypeOK NewestKept DeletedIsFreed
PROPERTIES RetentionConverges
