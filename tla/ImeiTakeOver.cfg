SPECIFICATION Spec
CONSTANTS
  NewState = "NORMAL"
  MaxSent = 4
  MaxInbox = 2
INVARIANTS CallbackTakesOver
