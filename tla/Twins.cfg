SPECIFICATION Spec
CONSTANTS
  l1 = l1
  l2 = l2
  l3 = l3
  Launch <- Twins
  Target <- OneTarget
  Detached <- Twins
  MaxOutput = 1
  MaxTime = 1
INVARIANT LogComplete
CHECK_DEADLOCK FALSE
