SPECIFICATION Spec
CONSTANTS
  Clients = {"c1"}
  MaxFd = 1
INVARIANTS OpenReports
