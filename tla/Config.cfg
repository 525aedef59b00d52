\* Up to three options, in any order, with and without a recipient before them.
SPECIFICATION ConfigSpec
CONSTANTS
  MaxOptions = 3
  CommandLines <- MCCommandLines
  FileSystems <- MCFileSystems
  MessageFiles = {"note"}
  Host <- MCHost
  Strtod <- MCStrtod
  Undefined = Undefined
  Missing = Missing
  Malformed = Malformed
INVARIANTS
  ConfigTypeOK
  StartsAsAsked
  TerminatesForCause
  FailsLoudly
  VerboseReportsErrors
