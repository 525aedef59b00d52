\* A recipient without an option.
SPECIFICATION ConfigSpec
CONSTANTS
  MaxOptions = 2
  CommandLines <- WordLines
  FileSystems <- WordFiles
  MessageFiles = {"note"}
  Host <- MCHost
  Strtod <- MCStrtod
  Undefined = Undefined
  Missing = Missing
  Malformed = Malformed
INVARIANTS
  DocumentedRecipientWord
