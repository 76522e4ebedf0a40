\* Four harts; .bss holds zeros or ones before it is cleared.
CONSTANTS
  Harts <- FourHarts
  Checkpoints <- GoodOrNone
  BootBss = {0, 1}
  StopCpu <- NoHart
  HasPayload = TRUE
SPECIFICATION Spec
INVARIANTS
  LocksExact
  CounterExact
  BarrierSafe
PROPERTY ImplementsContract
