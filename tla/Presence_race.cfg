CONSTANTS
  d1 = d1
  d2 = d2
  ana = ana
  luis = luis
  cycle = cycle
  People <- TwoPeople
  Devices <- OneEach
  Owner <- OwnerOneEach
  Scanners <- CycleOnly
  RequiredSweeps = 2
  ScansPerSweep = 1
  Nights = FALSE
  ManualModes <- NoModes
  Crashes = FALSE
SPECIFICATION Spec
INVARIANT AwayMeansEmpty
