SPECIFICATION Spec
CONSTANTS
  Runs = {r1, r2}
  Boots = {b1}
  Sessions = {s1, s2}
  MaxId = 3
  Checksums = {"c", "d"}
  BootChecksum = "c"
  MaxFaults = 2
  Inputs <- MCInputs
  Atomic = {2}
  Destructive = {3}
  Guarded = {2}
SYMMETRY Symmetry
INVARIANT LedgerIsPrefix
INVARIANT RecordedWasApplied
INVARIANT AppliedOnce
INVARIANT RunsTellTruth
PROPERTY NoReapply
