\* One hart; a 32-bit offset is cut to 24 bits, addresses are below 2^31.
CONSTANTS
  MemoryBase = 1073741824
  FlashBase = 268435456
  GcptStack = 1074790400
  OffsetModulus = 16777216
  Core0 = 1073807360
  Scenarios <- AllScenarios
SPECIFICATION Spec
INVARIANTS
  TypeOK
  IntRegsRestored
  FloatVectorRestored
  CsrsRestored
  ReachesTarget
  SupportedNeverTraps
  TrapsAreReported
  DisplayAgrees
