\* Both default files exist.
SPECIFICATION ConfigSpec
CONSTANTS
  MaxOptions = 2
  CommandLines <- DefaultLines
  FileSystems <- DefaultFiles
  MessageFiles = {"note"}
  Host <- MCHost
  Strtod <- MCStrtod
  Undefined = Undefined
  Missing = Missing
  Malformed = Malformed
INVARIANTS
  DocumentedDefaultFile
