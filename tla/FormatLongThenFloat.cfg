\* A length modifier, then a directive without one.
SPECIFICATION PrintSpec
CONSTANTS
  MaxLength = 5
  Inputs <- MCLongThenFloat
  CallerStream <- MCCallerStream
  Garbage <- MCGarbage
INVARIANTS
  DirectivesIndependent
