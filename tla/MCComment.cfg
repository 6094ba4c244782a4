SPECIFICATION Spec
CONSTANTS
  Actors = {owner, a1}
  Owner = owner
  Trees = {t1}
  Memories = {m1, m2}
  Bodies = {b1, b2}
  Keys = {k1, k2}
  Requests = {r1, r2}
  ActorLimit = 1
  TargetLimit = 1
  MaxMinute = 1
  MaxFlips = 2
SYMMETRY Symmetry
INVARIANT TypeOK
INVARIANT OneCommentPerKey
INVARIANT MemoryOriginalIsReplayed
INVARIANT WithinRateLimits
INVARIANT NoRequestIsStuck
PROPERTY ImplementsBoard
