SPECIFICATION FairSpec
CONSTANTS
  Thread = {t1, t2}
  Directory = {"lib", "zmq", "maestro", "user"}
  Dirs <- MCDirs
  Inherited <- MCInherited
  Configured = {"none", "store"}
  RootsSet <- MCRootsSet
  CunqaPlaces = {"store", "home"}
INVARIANTS NoDirTwice InheritedKept CompleteWhenAlone
PROPERTY FoundUnlessHidden
CHECK_DEADLOCK FALSE
