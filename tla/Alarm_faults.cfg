CONSTANTS
  r1 = r1
  r2 = r2
  Sweep = Sweep
  Requests <- TwoRequests
  Configs <- TwoConfigs
  ConfigChanges = TRUE
  DbFails = TRUE
  IotFails = TRUE
  Crashes = TRUE
SPECIFICATION Spec
SYMMETRY Symmetry
INVARIANT AnnouncedOnce
PROPERTIES StandsDownOnlyByPin
