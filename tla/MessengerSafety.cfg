\* Rooms may answer a join in every way, or not at all; the connection may
\* break anywhere, noticed or not; one unsolicited event.
SPECIFICATION DeafSpec
CONSTANTS
  r1 = r1
  r2 = r2
  u1 = u1
  none = none
  me = me
  other = other
  Rooms <- MCRooms
  Users <- MCUsers
  Nicks <- MCNicks
  NoResource = none
  NoJID = NoJID
  Username = me
  Message = "text"
  Resource = "resource"
  NoBody = "nobody"
  JoinReplies = {"admit", "refuse", "rename", "ignore"}
  Unsolicited = {"represence", "kick", "contact"}
  MaxUnsolicited = 1
  Failures = {"ConnIoError", "ConnStreamClosed"}
  DestinationLists <- MCLists
INVARIANTS
  TypeOK
  NoSelfDeadlock
  ExitCodeHonest
  ConfirmedBeforeClose
  OncePerPresence
PROPERTIES
  ClosesOnlyWhenDone
  KeepsPromise
  WaitsOnlyForTheSilent
