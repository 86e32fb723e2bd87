SPECIFICATION HFairSpec
CONSTANTS
  r1 = r1
  r2 = r2
  Reqs <- OneRequest
  Configs <- TwoConfigs
  Flaky <- Sidecars
  Verdicts <- RefusalsOnly
  Faults = 1
  Crashes = 2
  Restores = 1
INVARIANTS TypeOK BootSettles RevertOwed ConfirmedIsKept
PROPERTIES WindowCloses RouterRestored
CHECK_DEADLOCK FALSE
