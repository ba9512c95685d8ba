SPECIFICATION Spec
CONSTANTS
  Tokens <- MCTokens
  MaxTokens = 4
  Sample <- MCSample
  Runs <- MCRuns
  Files <- MCFiles
  Beyond <- MCBeyond
  Size = 4
  ChunkSize = 2
  ImeiLength = 5
  UIntRange = 16
  ByteRange = 8
  SizeRange = 32
  MaxSize = 10
  Header = 2
  Entry = 2
  Field = 4
  Lists <- MCLists
INVARIANTS
  RunsWhatIsAsked WrittenReadsBack FindsEveryPlace
  BuiltWithinRoom FoundInside EntryIsThere
