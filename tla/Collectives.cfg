SPECIFICATION FairSpec
CONSTANTS
  Size = 3
  UserTags = {7}
  Roots = {1}
  Forms = {"number", "text"}
  Calls = {"init", "finalize", "reduce", "bcast"}
  MaxCalls = 2
INVARIANTS TypeOK BcastAligned ReduceAligned
PROPERTIES ReduceComplete CallsReturn
CHECK_DEADLOCK FALSE
