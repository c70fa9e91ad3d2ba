CONSTANTS
  d1 = d1
  d2 = d2
  ana = ana
  luis = luis
  cycle = cycle
  People <- OnePerson
  Devices <- Both
  Owner <- OwnerBoth
  Scanners <- CycleOnly
  RequiredSweeps = 2
  ScansPerSweep = 1
  Nights = TRUE
  ManualModes <- AllModes
  Crashes = TRUE
  lamp = lamp
  dusk = dusk
  off = off
  night = night
  Unset = Unset
  Null = Null
  Things <- OneThing
  Order <- ThreeRules
  Routine <- Routines
  Slots <- TwoSlots
  DayLength = 3
  Week = 2
  LastMinute = 5
  t1 = t1
  t2 = t2
  t3 = t3
  k1 = k1
  r1 = r1
  c1 = c1
  c2 = c2
  None = None
  Users <- OnePerson
  Passkeys <- OnePerson
  Tokens <- ThreeTokens
  Tickets <- OneTicket
  Codes <- OneCode
  Holder <- OfAna
  Handlers <- TwoHandlers
SPECIFICATION PeopleSpec
SYMMETRY HandlerSymmetry
INVARIANTS PresenceFollowsSignal AwayMeansEmpty TimelineAlternates EachInstantOnce CooldownKept SeenIsTold SessionNeverForks ProofUsedOnce BarredGetsNothing
