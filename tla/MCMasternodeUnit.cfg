CONSTANTS
  Host = {h}
  Local = h
  Addr = {x, y}
  Name = {a, b}
  Missing = Missing
  Torn = Torn
  Plain = Plain
  Stamp = {s, t}
  Cases = {"unit"}
  MaxRuns = 1
  Commands <- AllCommands
SYMMETRY Symmetry
SPECIFICATION Spec
INVARIANTS RunsAsMasternode
CHECK_DEADLOCK FALSE
