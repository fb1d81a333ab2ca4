CONSTANTS
  NThreads = 1
  MaxVersions = 1
  MaxModules = 2
  Usage = {"source"}
SPECIFICATION Spec
INVARIANTS SourceIsCompiled
