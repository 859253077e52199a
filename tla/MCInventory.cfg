CONSTANTS
  Group = {"sn", "wn"}
  Server = {"a", "b", "c", "d"}
  Commands <- MCCommands
  None = ""
  Torn = "torn"
  numCommands = 1
SPECIFICATION Spec
INVARIANTS TypeOK AnswersKept SerialReachesEach GroupsKeptApart
PROPERTY Returns
