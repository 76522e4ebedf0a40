\* Two harts with a checkpoint of two harts.
CONSTANTS
  Harts <- TwoHarts
  Checkpoints <- JustGood
  BootBss = {0}
  StopCpu <- NoHart
  HasPayload = TRUE
SPECIFICATION Spec
INVARIANT MtimeRestoredBeforeResume
