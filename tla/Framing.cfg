SPECIFICATION Spec
CONSTANTS
  Header = 2
  Buffer = 4
  Limit = 5
  Width = 7
  Sizes = {0, 1, 3, 4, 5}
  MaxSends = 2
INVARIANTS ReceivedInOrder ReceiverInBounds
PROPERTIES RecvReturns ImplementsChannel
