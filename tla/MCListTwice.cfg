SPECIFICATION PartsSpec
CONSTANTS
  Parts = {"lists"}
  QUEUE_SIZE = 4
  Msg = {m1, m2}
  None = None
  MaxBatch = 3
  Actors = {a1, a2}
  NoActor = NoActor
  ListLoads <- TwoSends
  KEEP = 4
  Digits = {}
INVARIANT ListedOnce
