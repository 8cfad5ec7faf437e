CONSTANTS
  Clients = {c1}
  Bus = Bus
  Kinds = {"recordset", "chunked", "quit", "unknown", "nopath", "cancel", "badcancel", "junkcancel"}
  MaxSerial = 2
  MaxChunks = 1
  MayLoseBus = TRUE
  NoAct = NoAct
SPECIFICATION FairSpec
INVARIANT NothingLost
PROPERTIES EveryCallAnswered WantToDieEnds
