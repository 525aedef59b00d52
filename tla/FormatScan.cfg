\* Calls put together from two items, directives of every length and type among
\* them, and every format of up to five of ten characters with a few texts.
SPECIFICATION ScanSpec
CONSTANTS
  Calls <- AllCalls
  CallerFmt <- MCCallerFmt
  Bits <- MCBits
  Garbage = {"a", "z"}
  Unwritten = Unwritten
  Alphabet = {"%", "l", "h", "L", "d", "x", "c", "a", " ", "NUL"}
  MaxLength = 5
INVARIANTS
  ScanTypeOK
  ScanReadsBack
PROPERTIES
  ScanFinishes
  FailureIsFinal
