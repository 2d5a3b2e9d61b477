SPECIFICATION PartsSpec
CONSTANTS
  Parts = {"queue", "mailbox", "lists", "properties", "objects", "strings",
           "collection"}
  QUEUE_SIZE = 4
  Msg = {m1, m2}
  None = None
  MaxBatch = 3
  Actors = {a1, a2, a3}
  NoActor = NoActor
  ListLoads <- CalmLoads
  KEEP = 1
  Digits = {1}
SYMMETRY Symmetry
INVARIANTS TypeOK NoSlotRace PartsTypeOK MailboxNoSlotRace  LookupAgrees
  UniqueStrings CollectsAll
PROPERTIES ImplementsFifo MailboxImplementsFifo ImplementsMap ImplementsGraph FinalizesOnce
