SPECIFICATION Spec
CONSTANTS
  a1 = a1
  a2 = a2
  NumCores = 1
  Actors = {a1, a2}
  Loads <- Nested
  MAILBOX_SIZE = 2
  QUEUE_CAP = 1
  BATCH = 2
  MAX_INLINE_DEPTH = 2
  Limit <- MCLimit
  FLUSH_LIMIT = 2
INVARIANT FlushTail
