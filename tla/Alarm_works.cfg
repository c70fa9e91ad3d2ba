CONSTANTS
  r1 = r1
  r2 = r2
  Sweep = Sweep
  Requests <- TwoRequests
  Configs <- Delays
  ConfigChanges = FALSE
  DbFails = FALSE
  IotFails = FALSE
  Crashes = TRUE
  door = door
  smoke = smoke
  hue = hue
  mqtt = mqtt
  Sensors <- OneSensor
  Smokes <- OneDetector
  Backends <- TwoBackends
  BackendOf <- Apart
SPECIFICATION WorksSpec
INVARIANTS DurablePhase DisarmSilences OutageToldOnce
PROPERTIES TriggeredSounds EntryResolves OutageIsTold
