CONSTANTS
  NThreads = 2
  MaxVersions = 2
  MaxModules = 3
  Usage = {"source"}
SPECIFICATION Spec
INVARIANTS CallRunsCurrent
