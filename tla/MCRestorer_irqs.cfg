\* Two harts, interrupts.
CONSTANTS
  Harts <- TwoHarts
  Checkpoints <- Interrupted
  BootBss = {0}
  StopCpu <- NoHart
  HasPayload = TRUE
SPECIFICATION Spec
CHECK_DEADLOCK FALSE
INVARIANT IrqsDisabledInLocks
