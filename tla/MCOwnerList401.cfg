SPECIFICATION Spec
CONSTANTS
  Users = {u1, u2}
  Pages = 2
  MaxGenerations = 3
  MaxEpochs = 2
CHECK_DEADLOCK FALSE
PROPERTIES
  AuthErrorIsShown
