\* A dual-core restorer that runs from flash.
CONSTANTS
  MemoryBase = 1073741824
  FlashBase = 268435456
  GcptStack = 1074790400
  OffsetModulus = 16777216
  Core0 = 1073807360
  Scenarios <- FlashScenarios
SPECIFICATION Spec
INVARIANT RestoresWhatItChecked
