CONSTANTS
  Clients = {c1}
  Bus = Bus
  Kinds = {"recordset", "quit"}
  MaxSerial = 1
  MaxChunks = 1
  MayLoseBus = TRUE
  NoAct = NoAct
SPECIFICATION FairSpec
PROPERTY WantToDieIsSeen
