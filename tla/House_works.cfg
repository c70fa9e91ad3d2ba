CONSTANTS
  d1 = d1
  d2 = d2
  ana = ana
  luis = luis
  cycle = cycle
  People <- TwoPeople
  Devices <- OneEach
  Owner <- OwnerOneEach
  Scanners <- CycleOnly
  RequiredSweeps = 2
  ScansPerSweep = 1
  Nights = TRUE
  ManualModes <- NoModes
  Crashes = TRUE
  m1 = m1
  m2 = m2
  r1 = r1
  Boot = Boot
  Loop = Loop
  Macs <- OneMac
  Requests <- OneRequest
  Uses <- Everything
  Windows <- OneMac
  Pausable <- OneMac
  Cap = 1
  Failures <- AnyFailure
  DbFails = TRUE
  SlowBoot = FALSE
  Reboots = TRUE
  AgentCrashes = "anytime"
SPECIFICATION HouseSpec
INVARIANTS ManagedDurable
PROPERTY EmptyHouseGoesAway
