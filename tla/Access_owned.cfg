CONSTANTS
  m1 = m1
  m2 = m2
  r1 = r1
  Boot = Boot
  Loop = Loop
  Macs <- TwoMacs
  Requests <- OneRequest
  Uses <- BlockOnly
  Windows <- OneMac
  Pausable <- OneMac
  Cap = 1
  Failures <- Refusals
  DbFails = FALSE
  SlowBoot = FALSE
  Reboots = TRUE
  AgentCrashes = "betweenCommands"
SPECIFICATION OwnedSpec
INVARIANT EveryRuleIsOwned
PROPERTIES BlockReachesRouter UnblockReachesRouter
