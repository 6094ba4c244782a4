SPECIFICATION Spec
CONSTANTS
  Actors = {a1, a2}
  Trees = {t1, t2}
  Keys = {k1, k2}
  Requests = {r1, r2, r3}
  MaxFlips = 2
SYMMETRY Symmetry
INVARIANT TypeOK
INVARIANT CountMatchesLikes
INVARIANT NoRequestIsStuck
PROPERTY NoToggleAfterRevocation
PROPERTY ImplementsLedger
