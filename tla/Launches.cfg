SPECIFICATION Spec
CONSTANTS
  l1 = l1
  l2 = l2
  l3 = l3
  Launch <- Launches
  Target <- Targets
  Detached <- Background
  MaxOutput = 1
  MaxTime = 1
INVARIANTS LogsApart RegistryKept
CHECK_DEADLOCK FALSE
