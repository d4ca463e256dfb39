SPECIFICATION FairSpec
CONSTANTS
  r1 = r1
  r2 = r2
  Run <- TwoRuns
  Family <- OneFamily
  FamilyOf <- SharedFamily
  Width <- TwoAndOne
  Files = {"absent", "odd"}
  Kinds <- SomeBare
  Cleans = FALSE
INVARIANTS TypeOK NoLeak AllOrNothing
PROPERTY RunsEnd
CHECK_DEADLOCK FALSE
