SPECIFICATION Spec
CONSTANTS
  a1 = a1
  a2 = a2
  NumCores = 2
  Actors = {a1, a2}
  Loads <- PingPong
  MAILBOX_SIZE = 4
  QUEUE_CAP = 4
  BATCH = 4
  MAX_INLINE_DEPTH = 2
  Limit <- MCLimit
  FLUSH_LIMIT = 2
INVARIANT InOrder
