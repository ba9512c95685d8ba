SPECIFICATION Spec
CONSTANTS
  Devices = {"i9300", "n7100", "n5100", "galaxys2", "maguro", "piranha", "crespo", "aries",
    "generic"}
  ConnectedTries = 3
  HostwakeTries = 2
  OnlineTries = 3
  DeviceTries = 3
INVARIANTS Released PsiOverFreshLink LinkUpAtReturn
