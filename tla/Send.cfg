\* From the command line to the exit status.  Rooms let us in under the nickname
\* we asked for, refuse us or stay silent; somebody may write the 'stop' text.
SPECIFICATION FairSendSpec
CONSTANTS
  r1 = r1
  r2 = r2
  u1 = u1
  none = none
  me = me
  other = other
  Rooms <- MCRooms
  Users <- MCUsers
  Nicks <- MCNicks
  NoResource = none
  NoJID = NoJID
  Username = me
  Message = "text"
  Resource = "resource"
  NoBody = "nobody"
  JoinReplies = {"admit", "refuse", "ignore"}
  Unsolicited = {"represence", "chatter", "kick"}
  MaxUnsolicited = 1
  Failures = {"ConnIoError", "ConnStreamClosed"}
  JidOf <- MCJidOf
  CodeOf <- MCCodeOf
  CommandLines <- MCCommandLines
  FileSystems <- MCFileSystems
  MessageFiles = {"note"}
  Host <- MCHost
  Strtod <- MCStrtod
  Undefined = Undefined
  Missing = Missing
  Malformed = Malformed
INVARIANTS
  StatusHonest
  
PROPERTIES
  KeepsPromiseToCaller
  SendEnds
