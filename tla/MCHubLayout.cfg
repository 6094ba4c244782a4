SPECIFICATION MCSpec
CONSTANTS
  s1 = s1
  s2 = s2
  s3 = s3
  Saves = {s1, s2, s3}
  MaxBase = 2
INVARIANT TypeOK
INVARIANT LinearHistory
INVARIANT AnswersAreTrue
INVARIANT NoOrphanLayouts
PROPERTY ImplementsRegister
PROPERTY EverySaveEnds
