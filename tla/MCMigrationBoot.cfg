SPECIFICATION Spec
CONSTANTS
  Runs = {r1}
  Boots = {b1, b2}
  Sessions = {s1, s2}
  MaxId = 3
  Checksums = {"c", "d"}
  BootChecksum = "c"
  MaxFaults = 1
  Inputs <- MCInputs
  Atomic = {2}
  Destructive = {3}
  Guarded = {2}
SYMMETRY Symmetry
INVARIANT BlockedLeavesNothing
