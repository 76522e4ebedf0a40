\* Three harts, checkpoints that let all of them go.
CONSTANTS
  Harts <- ThreeHarts
  Checkpoints <- UpToMachine
  BootBss = {0}
  StopCpu <- NoHart
  HasPayload = TRUE
SPECIFICATION Spec
INVARIANTS
  MtimeRestoredOnce
  HealthyGoesOn
PROPERTIES
  AllResume
  AllBoot
  LocksImplementSpinLock
