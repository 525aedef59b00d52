\* Formats put together from directives and text, and every string of up to
\* five characters, with arguments that read as garbage.
SPECIFICATION PrintSpec
CONSTANTS
  MaxLength = 5
  Inputs <- MCFormats
  CallerStream <- MCCallerStream
  Garbage <- MCGarbage
INVARIANTS
  ReadsBack
  PrintTypeOK
PROPERTIES
  Finishes
