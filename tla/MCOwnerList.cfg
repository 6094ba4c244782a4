SPECIFICATION Spec
CONSTANTS
  Users = {u1, u2}
  Pages = 2
  MaxGenerations = 5
  MaxEpochs = 3
SYMMETRY Symmetry
CHECK_DEADLOCK FALSE
INVARIANTS
  LoadingMoreIsOwned
PROPERTIES
  LateAnswersIgnored
