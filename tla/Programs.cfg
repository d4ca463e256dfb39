SPECIFICATION ProgramsSpec
CONSTANTS
  p = p
  q = q
  Process = {p, q}
  Plans <- MCPlans
  Run <- Calls
  Family <- Calls
  FamilyOf <- MCFamilyOf
  Width <- MCWidth
  Distributed <- MCDistributed
  WorldSize <- MCWorldSize
  Files = {"ready", "odd"}
  Kinds <- MCKinds
  Cleans = FALSE
INVARIANTS OwnDeployment LostForCause ExitMeansDone CleanBetween OrphanHasCause RestartRecovers
CHECK_DEADLOCK FALSE
