SPECIFICATION Spec
CONSTANTS
  Size = 2
  UserTags = {7}
  Roots = {0}
  Forms = {"text"}
  Calls = {"init", "finalize", "drop", "barrier", "send", "recv", "bcast"}
  MaxCalls = 3
INVARIANTS NoStaleMail WorldReclaimed
PROPERTY ImplementsFifo
CHECK_DEADLOCK FALSE
