CONSTANTS
  r1 = r1
  r2 = r2
  Requests <- OneRequest
  shelly = shelly
  d1 = d1
  d2 = d2
  e1 = e1
  e2 = e2
  Env = Env
  None = None
  Nil = Nil
  Kinds <- OneKind
  Devices <- TwoDevices
  Unbuildable <- OneDevice
  Editors <- TwoEditors
  hue = hue
  mqtt = mqtt
  alarm = alarm
  q1 = q1
  q2 = q2
  Backends <- TwoBackends
  Readers <- OneSweep
  Reads <- TwoReads
  RouteReads <- OneRouteRead
  MaxUpdaters = 2
  MaxMisfortunes = 2
SPECIFICATION LifecycleSpec
INVARIANTS OneUpdater SuccessIsWhole RollbackRestores RefusalTouchesNothing AllOrNothing OldBaseIsRescuable LiveIsSaved
PROPERTIES DbReplacedWhenStopped UpdatingEnds ComesUp ListsComeBack
