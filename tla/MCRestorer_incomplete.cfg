\* Built with --stop-cpu=1, or a hart too few, or neither checkpoint nor payload.
CONSTANTS
  Harts <- ThreeHarts
  Checkpoints <- GoodLargerOrNone
  BootBss = {0}
  StopCpu = 1
  HasPayload = FALSE
SPECIFICATION Spec
\* The harts wait for the stopped one.
CHECK_DEADLOCK FALSE
INVARIANT IncompleteBlocks
PROPERTIES
  OthersBlock
  NeverWedged
