CONSTANTS
  r1 = r1
  r2 = r2
  Sweep = Sweep
  Requests <- TwoRequests
  Configs <- TwoConfigs
  ConfigChanges = TRUE
  DbFails = TRUE
  IotFails = TRUE
  Crashes = TRUE
  door = door
  smoke = smoke
  hue = hue
  mqtt = mqtt
  Sensors <- OneSensor
  Smokes <- OneDetector
  Backends <- OneBackend
  BackendOf <- Together
SPECIFICATION FailSafeAlone
PROPERTY BlindArmingIsTold
