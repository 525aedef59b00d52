----------------------------- MODULE MucService -----------------------------
(***************************************************************************)
(* The far end of the XMPP stream: the server, the chat rooms it hosts     *)
(* (XEP-0045) and the contacts behind it, together with the two directions *)
(* of the TCP connection.  None of it is code of this repository: it is    *)
(* what src/mucsender.cpp and src/messenger.cpp write to and wait for.     *)
(*                                                                         *)
(* A stanza is a record [kind, jid, body].  In `up' (client to server) jid *)
(* is the addressee, in `down' (server to client) it is the sender.  Both  *)
(* directions are FIFO, as one TCP connection is.                          *)
(***************************************************************************)
EXTENDS Naturals, Sequences

CONSTANTS
  Rooms,        \* bare JIDs of chat rooms
  Users,        \* bare JIDs of people
  Nicks,        \* resources (nicknames) a JID may carry
  NoResource,   \* the empty resource part
  NoJID,        \* no JID: not an occupant, no sender, no room
  Message,      \* the text the user asked to send
  Resource,     \* the text of the 'stop' message: our own session's resource
  NoBody,       \* presence stanzas carry no text
  JoinReplies,  \* how a room may answer a join
  Unsolicited,  \* what rooms and contacts may send of their own accord
  MaxUnsolicited \* bound: how many unsolicited events happen in a behaviour

Bares  == Rooms \cup Users
JID    == [bare : Bares, resource : Nicks \cup {NoResource}]
Body   == {Message, Resource, NoBody}
UpKind == {"join", "groupchat", "chat", "leave"}
DownKind == {"presence", "unavailable", "presenceError", "message", "messageError"}
UpStanza   == [kind : UpKind, jid : JID, body : Body]
DownStanza == [kind : DownKind, jid : JID, body : Body]

ASSUME ServiceAssumption ==
  /\ Rooms \cap Users = {}
  /\ NoResource \notin Nicks
  /\ NoJID \notin JID \cup Bares
  /\ NoBody \notin {Message, Resource}
  /\ JoinReplies \subseteq {"admit", "refuse", "rename", "ignore"}
  /\ Unsolicited \subseteq {"represence", "chatter", "kick", "contact"}
  /\ MaxUnsolicited \in Nat

VARIABLES
  up,           \* stanzas on their way to the server
  down,         \* stanzas on their way to the client
  broken,       \* the connection is dead, whether the client knows it or not
  occupants,    \* occupants[r]: the JID under which r holds us, or NoJID
  accepted,     \* accepted[r]: how often r has taken Message and shown it to the room
  spare         \* unsolicited events left

serviceVars == <<up, down, broken, occupants, accepted, spare>>

Stanza(kind, jid, body) == [kind |-> kind, jid |-> jid, body |-> body]

ServiceInit ==
  /\ up = <<>>
  /\ down = <<>>
  /\ broken = FALSE
  /\ occupants = [r \in Rooms |-> NoJID]
  /\ accepted = [r \in Rooms |-> 0]
  /\ spare = MaxUnsolicited

ServiceTypeOK ==
  /\ up \in Seq(UpStanza)
  /\ down \in Seq(DownStanza)
  /\ broken \in BOOLEAN
  /\ occupants \in [Rooms -> JID \cup {NoJID}]
  /\ accepted \in [Rooms -> Nat]
  /\ spare \in 0..MaxUnsolicited

-----------------------------------------------------------------------------
(***************************************************************************)
(* The server takes the oldest stanza off the stream and answers it.       *)
(***************************************************************************)
ServerReads(kind) ==
  /\ ~broken
  /\ up # <<>>
  /\ Head(up).kind = kind
  /\ up' = Tail(up)

Answer(kind, jid, body) == down' = Append(down, Stanza(kind, jid, body))

\* The room lets us in under the nickname we asked for.
RoomAdmits ==
  /\ "admit" \in JoinReplies
  /\ ServerReads("join")
  /\ Head(up).jid.bare \in Rooms
  /\ occupants' = [occupants EXCEPT ![Head(up).jid.bare] = Head(up).jid]
  /\ Answer("presence", Head(up).jid, NoBody)
  /\ UNCHANGED <<broken, accepted, spare>>

\* The room lets us in under a nickname of its own choice.
RoomRenames ==
  /\ "rename" \in JoinReplies
  /\ ServerReads("join")
  /\ Head(up).jid.bare \in Rooms
  /\ \E nick \in Nicks \ {Head(up).jid.resource} :
       LET given == [Head(up).jid EXCEPT !.resource = nick]
       IN  /\ occupants' = [occupants EXCEPT ![given.bare] = given]
           /\ Answer("presence", given, NoBody)
  /\ UNCHANGED <<broken, accepted, spare>>

\* Banned, wrong password, nickname taken, not a room at all ...
RoomRefuses ==
  /\ ServerReads("join")
  /\ "refuse" \in JoinReplies \/ Head(up).jid.bare \notin Rooms
  /\ Answer("presenceError", Head(up).jid, NoBody)
  /\ UNCHANGED <<broken, occupants, accepted, spare>>

RoomIgnores ==
  /\ "ignore" \in JoinReplies
  /\ ServerReads("join")
  /\ UNCHANGED <<down, broken, occupants, accepted, spare>>

\* A room shows an occupant's groupchat message to everybody in it, the
\* author included.
RoomAccepts ==
  /\ ServerReads("groupchat")
  /\ LET r == Head(up).jid.bare
     IN  /\ r \in Rooms /\ occupants[r] # NoJID
         /\ accepted' = [accepted EXCEPT ![r] = @ + 1]
         /\ Answer("message", occupants[r], Head(up).body)
  /\ UNCHANGED <<broken, occupants, spare>>

\* A private message to an occupant: the only occupant we ever address is
\* ourselves, so the text comes back.
RoomRelays ==
  /\ ServerReads("chat")
  /\ Head(up).jid.bare \in Rooms
  /\ occupants[Head(up).jid.bare] = Head(up).jid
  /\ Answer("message", Head(up).jid, Head(up).body)
  /\ UNCHANGED <<broken, occupants, accepted, spare>>

\* No voice, not an occupant, private messages disabled, no such contact ...
StanzaRejected ==
  /\ ServerReads("groupchat") \/ ServerReads("chat")
  /\ Answer("messageError", Head(up).jid, Head(up).body)
  /\ UNCHANGED <<broken, occupants, accepted, spare>>

UserReceives ==
  /\ ServerReads("chat")
  /\ Head(up).jid.bare \in Users
  /\ UNCHANGED <<down, broken, occupants, accepted, spare>>

RoomReleases ==
  /\ ServerReads("leave")
  /\ occupants' = [occupants EXCEPT ![Head(up).jid.bare] = NoJID]
  /\ Answer("unavailable", Head(up).jid, NoBody)
  /\ UNCHANGED <<broken, accepted, spare>>

ServerStep ==
  \/ RoomAdmits
  \/ RoomRenames
  \/ RoomRefuses
  \/ RoomIgnores
  \/ RoomAccepts
  \/ RoomRelays
  \/ StanzaRejected
  \/ UserReceives
  \/ RoomReleases

-----------------------------------------------------------------------------
(***************************************************************************)
(* What arrives without having been asked for.                             *)
(***************************************************************************)
SpendUnsolicited(event) ==
  /\ event \in Unsolicited
  /\ ~broken
  /\ spare > 0
  /\ spare' = spare - 1

\* A change of role or affiliation: the room sends our presence once more.
RoomRepeatsPresence(r) ==
  /\ SpendUnsolicited("represence")
  /\ occupants[r] # NoJID
  /\ Answer("presence", occupants[r], NoBody)
  /\ UNCHANGED <<up, broken, occupants, accepted>>

\* Another occupant writes a text that equals our resource.
OccupantWrites(r) ==
  /\ SpendUnsolicited("chatter")
  /\ occupants[r] # NoJID
  /\ \E nick \in Nicks \ {occupants[r].resource} :
       Answer("message", [bare |-> r, resource |-> nick], Resource)
  /\ UNCHANGED <<up, broken, occupants, accepted>>

RoomKicks(r) ==
  /\ SpendUnsolicited("kick")
  /\ occupants[r] # NoJID
  /\ occupants' = [occupants EXCEPT ![r] = NoJID]
  /\ Answer("unavailable", occupants[r], NoBody)
  /\ UNCHANGED <<up, broken, accepted>>

\* A contact writes to us, a text that equals our resource or any other.
ContactWrites(u) ==
  /\ SpendUnsolicited("contact")
  /\ \E text \in {Message, Resource} :
       Answer("message", [bare |-> u, resource |-> NoResource], text)
  /\ UNCHANGED <<up, broken, occupants, accepted>>

UnsolicitedStep ==
  \/ \E r \in Rooms : RoomRepeatsPresence(r) \/ OccupantWrites(r) \/ RoomKicks(r)
  \/ \E u \in Users : ContactWrites(u)

\* The connection dies.  What was under way to the server is gone; of what
\* was under way to the client, only what had already reached it is left.
Break ==
  /\ ~broken
  /\ broken' = TRUE
  /\ up' = <<>>
  /\ \E n \in 0..Len(down) : down' = SubSeq(down, 1, n)
  /\ UNCHANGED <<occupants, accepted, spare>>

ServiceNext == ServerStep \/ UnsolicitedStep \/ Break
=============================================================================
