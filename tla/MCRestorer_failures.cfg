\* Three harts of which some cannot restore, and interrupts.
CONSTANTS
  Harts <- ThreeHarts
  Checkpoints <- FailingOrInterrupted
  BootBss = {0}
  StopCpu <- NoHart
  HasPayload = TRUE
SPECIFICATION Spec
\* A hart that strays leaves the others in the barrier.
CHECK_DEADLOCK FALSE
INVARIANTS
  TypeOK
  LocksExact
  BarrierSafe
PROPERTIES
  FailureIsSignalled
  OthersBlock
