SPECIFICATION MCSpec
CONSTANTS
  owner = owner
  stranger = stranger
  r1 = r1
  r2 = r2
  r3 = r3
  t1 = t1
  t2 = t2
  a = a
  b = b
  c = c
  k1 = k1
  k2 = k2
  Trees = {t1, t2}
  Actors = {owner, stranger}
  Owner <- MCOwner
  Seeds = {a, b, c}
  Keys = {k1, k2}
  Requests = {r1, r2, r3}
  Forests <- MCForests
  Scenarios <- MCScenarios
INVARIANT TypeOK
INVARIANT Acyclic
INVARIANT ReferencesHold
INVARIANT KeyNamesOneMemory
INVARIANT NeverMissing
INVARIANT AnswersAreTrue
PROPERTY ImplementsForest
