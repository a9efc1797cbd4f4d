SPECIFICATION Spec
CONSTANTS
  Pids = {p1, p2, p3}
  Hashes = {h1, h2}
  NoPid = NoPid
  MaxCrashes = 3
  MaxStarts = 5
SYMMETRY PidSymmetry
INVARIANTS OneSyncthing Marked
