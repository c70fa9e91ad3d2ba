CONSTANTS
  r1 = r1
  r2 = r2
  r3 = r3
  ana = ana
  luis = luis
  i1 = i1
  i2 = i2
  x = x
  f1 = f1
  f2 = f2
  Requests <- ThreeRequests
  Accounts <- TwoAccounts
  DbFails = TRUE
  Crashes = TRUE
  Absent = Absent
  Ids <- TwoIds
  Items <- OneItem
  Callers <- TwoCallers
  Faults <- AllFaults
SPECIFICATION StorageSpec
INVARIANTS Serialized AdminStays CrashLeavesWholeFile
PROPERTIES ImplementsStore EveryoneIsServed ImplementsCollection EveryCallerAnswered
