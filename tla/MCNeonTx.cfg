SPECIFICATION FairSpec
CONSTANT MaxQueries = 3
INVARIANT TypeOK
INVARIANT Agreement
INVARIANT AckedCommitIsReturned
PROPERTY ImplementsContract
PROPERTY CallEnds
