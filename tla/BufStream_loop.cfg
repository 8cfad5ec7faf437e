CONSTANTS
  MsgLen = 2
  Room = 2
  MaxCalls = 2
  MaxReply = 3
  MayLose = TRUE
  Cookies = {"cookie"}
SPECIFICATION FairSpec
INVARIANTS Intact ListensForWrites
PROPERTIES EverythingLeaves NothingWaits
