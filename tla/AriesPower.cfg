SPECIFICATION Spec
CONSTANTS
  Devices = {"aries"}
  ConnectedTries = 3
  HostwakeTries = 2
  OnlineTries = 3
  DeviceTries = 3
INVARIANTS AriesPoweredOn
