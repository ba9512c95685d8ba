SPECIFICATION Spec
CONSTANTS
  AtMax = 6
  AckMax = 4
  PsiParts = 2
  EblParts = 2
  Unknown = 4
  CrcAcks = 2
  FirmwareBlocks = 2
  NvBlocks = 2
  Faults = TRUE
  Mps = TRUE
  Blocks = 2
  PortWords = 2
  ReplyLengths = {8, 10, 13}
  AtCount = 3
  AckLimit = 6
  PsiSize = 2
  FirmwareSize = 3
  NvSize = 2
  NvOffset = 4
  InfoSize = 2
  MaxQueue = 3
  Tocs <- MCTocs
  MaxChunk = 2
  Word = 12
  ImageLen = 6
  NvLens = {1, 2}
  IoFaults = TRUE
  ShortReads = TRUE
  Nothing = Nothing
INVARIANTS
  DoneMeansFlashed LateRepliesHarmless DoneMeansDrained
  ResetOnlyFlashed CommandsInStep ReplyInBounds
  ReturnMeansLoaded UploadedExactly
PROPERTIES HsicReturns Xmm616Returns HerolteReturns
