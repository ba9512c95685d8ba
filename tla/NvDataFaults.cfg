SPECIFICATION Spec
CONSTANTS
  N = 2
  Val = {v1, v2}
  Hole = Hole
  NoFile = NoFile
  ShortFile = ShortFile
  NoData = NoData
  IoFaults = TRUE
  DirectBackup = TRUE
INVARIANTS LoadedWhole ReadsBack
