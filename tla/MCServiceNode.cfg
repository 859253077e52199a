CONSTANTS
  Tool <- NodeHost
  StopLists <- MCStopLists
  StartLists <- MCStartLists
  ServiceLists <- MCServiceLists
  Systems = {TRUE}
  Failures = {"start", "enable", "disable", "write", "rm", "ps", "kill"}
  MaxManual = 2
SPECIFICATION Spec
INVARIANTS TypeOK StoppedStaysDown ManagedStaysUp
PROPERTIES NodeNotRunTwice ManagedSpec
