SPECIFICATION Spec
CONSTANTS
  Clients = {"c1", "c2"}
  MaxFd = 2
INVARIANTS StrayOnlyZero ChannelKept LeakOnlyByCaller
