SPECIFICATION Spec
CONSTANTS
  Size = 2
  UserTags = {0}
  Roots = {0}
  Forms = {"text"}
  Calls = {"init", "send", "bcast"}
  MaxCalls = 2
INVARIANT BcastReturnsBroadcast
CHECK_DEADLOCK FALSE
