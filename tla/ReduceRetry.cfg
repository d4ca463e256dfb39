SPECIFICATION Spec
CONSTANTS
  Size = 3
  UserTags = {}
  Roots = {0}
  Forms = {"number"}
  Calls = {"init", "reduce"}
  MaxCalls = 2
INVARIANT ReduceOneRound
CHECK_DEADLOCK FALSE
