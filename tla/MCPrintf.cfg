\* Numbers of at most 8 bits in a conversion buffer of 4 characters.
CONSTANTS
  Calls <- AllCalls
  BufferSize = 4
  Bits <- ScaledBits
  SizeMax = 255
  Unit = 80
  FtoaSize = 6
  FtoaDigits = 3
  FtoaDefault = 2
  MaxFloat = 1000
  Cells = 12
SPECIFICATION Spec
INVARIANTS
  TypeOK
  NumberFitsBuffer
  BufferIsCutText
  SentIsText
PROPERTY PutsOutWhatItSays
