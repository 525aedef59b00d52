\* A decimal directive behind a hexadecimal one.
SPECIFICATION ScanSpec
CONSTANTS
  Calls <- BasedThenDecimal
  CallerFmt <- MCCallerFmt
  Bits <- MCBits
  Garbage = {"a", "z"}
  Unwritten = Unwritten
  Alphabet = {"%", "l", "h", "L", "d", "x", "c", "a", " ", "NUL"}
  MaxLength = 0
INVARIANTS
  ScanDirectivesIndependent
