\* Neither checkpoint nor payload.
CONSTANTS
  Harts <- TwoHarts
  Checkpoints <- JustNone
  BootBss = {0}
  StopCpu <- NoHart
  HasPayload = FALSE
SPECIFICATION Spec
INVARIANT NoSelfBoot
