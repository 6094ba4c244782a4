SPECIFICATION Spec
CONSTANTS
  Actors = {a1}
  Owner = owner
  Trees = {t1}
  Memories = {}
  Bodies = {b1}
  Keys = {k1}
  Requests = {r1, r2}
  ActorLimit = 1
  TargetLimit = 0
  MaxMinute = 0
  MaxFlips = 0
INVARIANT OriginalIsReplayed
