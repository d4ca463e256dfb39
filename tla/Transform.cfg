SPECIFICATION Spec
CONSTANTS
  q1 = q1
  q2 = q2
  q3 = q3
  Object <- Circuits
  Namings <- MCNamings
  Qubits <- One
  Clbits <- One
  Calls <- MCCalls
  MaxCalls = 2
  Batches <- MCBatches
INVARIANTS TalksToNamed DeclaresTargets RefusedForCause CommunicatesDynamically ControlsApart
CHECK_DEADLOCK FALSE
