CONSTANTS
  Tool <- ScriptHost
  StopLists <- MCStopLists
  StartLists <- MCStartLists
  ServiceLists <- MCServiceLists
  Systems = {TRUE, FALSE}
  Failures = {"start", "stop", "enable", "write", "rm", "ps", "kill"}
  MaxManual = 2
SPECIFICATION Spec
INVARIANTS RemovedIsGone InstalledIsManaged
PROPERTIES StopMeansKilled
