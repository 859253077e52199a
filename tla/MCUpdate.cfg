SPECIFICATION Spec
CONSTANTS
  Item <- MCItem
  DDItem <- MCDDItem
  SubDir = ""
  Commands <- MCCommands
  archiveRetention = 3
  Failures = {"mkdir", "copy", "prune", "clean", "unzip", "snapshot"}
  MaxTime = 9
INVARIANTS TypeOK RetentionKeepsNewest BackupOfStoppedNode BackupBeforeInstall
PROPERTIES NewestWholeKept OtherArchivesKept CleanedIsSaved KeysSurvive
