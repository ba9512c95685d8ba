SPECIFICATION Spec
CONSTANTS
  MaxSent = 4
  MaxInbox = 2
  NewState = "NORMAL"
  Commands <- MCCommands
  MaxTries = 2
INVARIANTS ImeiOrReason UndefinedOnlyOnFailure TriesOnlyByWrongPin SimOkIsTrue
PROPERTIES AnswerFound CallFollowsRegistration
