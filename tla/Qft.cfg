SPECIFICATION ProgramSpec
CONSTANTS
  MaxQubits = 10
  Sizes <- UpToMaxQubits
  Qubits = 6
  Qpus = 4
INVARIANTS FillsVector PlacesQubits NoCircularWait RightControl QftOrder
CHECK_DEADLOCK FALSE
