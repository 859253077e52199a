CONSTANTS
  Host = {h}
  Local = h
  Addr = {x, y}
  Name = {a, b}
  Missing = Missing
  Torn = Torn
  Plain = Plain
  Stamp = {s, t}
  Cases = {"same stamp"}
  MaxRuns = 2
  Commands <- AllCommands
SYMMETRY Symmetry
SPECIFICATION Spec
PROPERTIES ConfKept
CHECK_DEADLOCK FALSE
