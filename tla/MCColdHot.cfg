CONSTANTS
  Host = {cold, hot}
  Local = cold
  Hot = hot
  Addr = {x}
  Name = {a}
  Missing = Missing
  Torn = Torn
  Plain = Plain
  Stamp = {s, t}
  Cases = {"unit"}
  MaxRuns = 2
  Commands <- AllCommands
SYMMETRY Symmetry
SPECIFICATION Spec
CONSTRAINT Units
INVARIANTS TypeOK HotIsMasternode KeyInUseIsKept AliasIsKnown ColdAsBefore RegistersWithCoins
CHECK_DEADLOCK FALSE
