SPECIFICATION FairSpec
CONSTANTS
  N = 2
  Val = {v1, v2}
  Hole = Hole
  NoFile = NoFile
  ShortFile = ShortFile
  NoData = NoData
  IoFaults = FALSE
  DirectBackup = FALSE
INVARIANTS AckedDurable LoadFailsOnlyWhenLost
PROPERTIES ImplementsStore BackupKept CallsReturn
