SPECIFICATION UInt256Spec
CONSTANTS
  NumWords = 4
  WordDigits = 2
  DigitBits = 1
  Inputs <- MCInputs
  Hexes <- MCHexes
  Amounts <- MCAmounts
INVARIANTS ExactArithmetic HexRoundTrip
