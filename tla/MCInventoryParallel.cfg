CONSTANTS
  Group = {"sn", "wn"}
  Server = {"a", "b", "c", "d"}
  Commands <- MCParallel
  None = ""
  Torn = "torn"
  numCommands = 1
SPECIFICATION Spec
INVARIANT ParallelReachesEach
