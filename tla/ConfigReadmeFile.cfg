\* The configuration of the README.
SPECIFICATION ConfigSpec
CONSTANTS
  MaxOptions = 2
  CommandLines <- ReadmeLines
  FileSystems <- ReadmeFiles
  MessageFiles = {"note"}
  Host <- MCHost
  Strtod <- MCStrtod
  Undefined = Undefined
  Missing = Missing
  Malformed = Malformed
INVARIANTS
  DocumentedFileStarts
