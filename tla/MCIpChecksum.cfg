CONSTANTS
  HalfRange = 16
  HighRange = 16
  Headers <- NarrowHeaders
SPECIFICATION ChecksumSpec
INVARIANT WrongExactlyOnLostCarry
