CONSTANTS
  Clients = {c1, c2}
  Bus = Bus
  Kinds = {"chunked", "cancel"}
  MaxSerial = 2
  MaxChunks = 1
  MayLoseBus = FALSE
  NoAct = NoAct
SPECIFICATION Spec
INVARIANT CanceledOnRequest
