CONSTANTS
  Host = {h}
  Local = h
  Addr = {x, y}
  Name = {a, b}
  Missing = Missing
  Torn = Torn
  Plain = Plain
  Stamp = {s, t}
  Cases = {"unit", "yml"}
  MaxRuns = 2
  Commands <- AllCommands
SYMMETRY Symmetry
SPECIFICATION Spec
CONSTRAINT Units
INVARIANTS TypeOK MasternodeUnlessManaged AliasIsKnown SupernodeHasItsId
PROPERTIES ConfKept
CHECK_DEADLOCK FALSE
