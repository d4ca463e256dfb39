SPECIFICATION FairExamplesSpec
CONSTANTS
  TotalQubits = 5
  Qpus = 3
  Sizes <- MCSizes
  Object <- MCObject
  Namings <- MCNamings
  Qubits <- MCQubits
  Clbits <- MCClbits
  Calls = {}
  MaxCalls = 100
  Batches = {}
INVARIANTS ExamplesAccepted AppliesItsGate OneGoesOn
PROPERTIES ExamplesEnd ImplementsQft
CHECK_DEADLOCK FALSE
