CONSTANTS
  Tool <- HermesHost
  StopLists <- SuperNodeStop
  StartLists <- SuperNodeStart
  ServiceLists <- SuperNodeService
  Systems = {TRUE}
  Failures = {"query", "start", "stop", "ps"}
  MaxManual = 2
SPECIFICATION FairSpec
PROPERTIES FlavourKept CommandReturns ManagedComesBack
