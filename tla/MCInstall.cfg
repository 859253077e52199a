SPECIFICATION Spec
CONSTANTS
  Missing = Missing
  Torn = Torn
  SysFiles <- MCSysFiles
  MaxRelease = 1
  Commands <- MCCommands
  MaxRuns = 2
INVARIANTS TypeOK InstalledIsWhole RerunWorks
PROPERTIES ChainGivenUpForSnapshot SettingsAskedFor
CHECK_DEADLOCK FALSE
