SPECIFICATION MCSpec
CONSTANTS
  Owners = {o1, o2}
  Requests = {r1, r2}
  Size = 3
  MaxCopied = 2
  MaxEdits = 2
SYMMETRY Symmetry
INVARIANT ForksAreAccepted
