----------------------------- MODULE MUCSender ------------------------------
(***************************************************************************)
(* msg::MUCSender (src/mucsender.cpp): one object per chat room.  It joins *)
(* the room, posts the text when its own presence comes back, sends itself *)
(* a private 'stop' message behind the text, and asks its parent to remove *)
(* it when 'stop' returns or the room reports an error.                    *)
(*                                                                         *)
(* Every callback runs on the one thread that sits in gloox's receive      *)
(* loop; pc is that thread's control point, declared here because a        *)
(* sender's callbacks end by calling Messenger::remove_muc_sender.         *)
(***************************************************************************)
EXTENDS ClientStream

CONSTANTS
  Username      \* the nickname taken when the destination names none

ASSUME SenderAssumption == Username \in Nicks

VARIABLES
  muc_senders,  \* Messenger::muc_senders: room -> nick of its MUCSender, or NoJID
  joined,       \* the rooms whose MUCRoom has joined and not left
  reported,     \* the rooms named by a "Can'nt join" line on stderr
  written,      \* history: how often Message was handed to the open stream for a bare JID
  pc,           \* control point of the receive thread
  removing      \* argument of the remove_muc_sender call in progress

senderVars == <<muc_senders, joined, reported, written>>

SenderInit ==
  /\ muc_senders = [b \in Bares |-> NoJID]
  /\ joined = {}
  /\ reported = {}
  /\ written = [b \in Bares |-> 0]

SenderTypeOK ==
  /\ muc_senders \in [Bares -> JID \cup {NoJID}]
  /\ joined \subseteq Bares
  /\ reported \subseteq Bares
  /\ written \in [Bares -> Nat]

\* The MUCRoom of b is registered with gloox, which routes b's stanzas to it.
Live(b) == muc_senders[b] # NoJID /\ b \in joined

\* The room JID with a nickname: the destination's own, else the username.
WithNick(jid) ==
  IF jid.resource = NoResource THEN [jid EXCEPT !.resource = Username] ELSE jid

RoomJid(b) == [bare |-> b, resource |-> NoResource]

CallRemoveMucSender(b) ==
  /\ pc' = "remove"
  /\ removing' = b

\* Counts a Write of Message that gloox accepted; evaluated after the Write.
CountWritten(b) ==
  written' = IF conn = "connected" /\ conn' = "connected"
             THEN [written EXCEPT ![b] = @ + 1]
             ELSE written

\* MUCSender::start: create the MUCRoom and join, asking for no history.
StartSender(nick) ==
  /\ joined' = joined \cup {nick.bare}
  /\ Write(<<Stanza("join", nick, NoBody)>>)

\* ~MUCSender destroys its MUCRoom, which leaves a room it has joined.
DestroySender(b) ==
  /\ joined' = joined \ {b}
  /\ IF Live(b)
     THEN Write(<<Stanza("leave", muc_senders[b], NoBody)>>)
     ELSE UNCHANGED <<up, conn, result>>

-----------------------------------------------------------------------------
(***************************************************************************)
(* The MUCRoomHandler callbacks, for a stanza s that gloox has routed to   *)
(* the sender of room s.jid.bare.                                          *)
(***************************************************************************)
\* Mutant: 'stop' goes out in front of the text.
HandleOwnPresence_StopFirst(s) ==
  /\ s.kind = "presence"
  /\ s.jid = muc_senders[s.jid.bare]
  /\ Write(<<Stanza("chat", muc_senders[s.jid.bare], Resource),
             Stanza("groupchat", RoomJid(s.jid.bare), Message)>>)
  /\ CountWritten(s.jid.bare)
  /\ UNCHANGED <<muc_senders, joined, reported, pc, removing>>

\* Our own presence: we are in.  Post the text, then 'stop' to ourselves.
HandleOwnPresence(s) ==
  /\ s.kind = "presence"
  /\ s.jid = muc_senders[s.jid.bare]
  /\ Write(<<Stanza("groupchat", RoomJid(s.jid.bare), Message),
             Stanza("chat", muc_senders[s.jid.bare], Resource)>>)
  /\ CountWritten(s.jid.bare)
  /\ UNCHANGED <<muc_senders, joined, reported, pc, removing>>

\* Somebody else's presence, or ours going away: nothing is done.
HandleOtherPresence(s) ==
  /\ s.kind \in {"presence", "unavailable"}
  /\ s.kind = "unavailable" \/ s.jid # muc_senders[s.jid.bare]
  /\ UNCHANGED <<up, streamVars, senderVars, pc, removing>>

\* Mutant: the error is printed and the sender stays.
HandleMUCError_NoRemoval(s) ==
  /\ s.kind \in {"presenceError", "messageError"}
  /\ joined' = IF s.kind = "presenceError" THEN joined \ {s.jid.bare} ELSE joined
  /\ reported' = reported \cup {s.jid.bare}
  /\ UNCHANGED <<up, streamVars, muc_senders, written, pc, removing>>

\* Mutant: the sender is removed without a word.
HandleMUCError_Silent(s) ==
  /\ s.kind \in {"presenceError", "messageError"}
  /\ joined' = IF s.kind = "presenceError" THEN joined \ {s.jid.bare} ELSE joined
  /\ CallRemoveMucSender(muc_senders[s.jid.bare].bare)
  /\ UNCHANGED <<up, streamVars, muc_senders, reported, written>>

\* The join was refused (gloox has already given the room up), or something
\* we sent to the room was.  Either way the room is reported and dropped.
HandleMUCError(s) ==
  /\ s.kind \in {"presenceError", "messageError"}
  /\ joined' = IF s.kind = "presenceError" THEN joined \ {s.jid.bare} ELSE joined
  /\ reported' = reported \cup {s.jid.bare}
  /\ CallRemoveMucSender(muc_senders[s.jid.bare].bare)
  /\ UNCHANGED <<up, streamVars, muc_senders, written>>

\* A text that equals our resource is the 'stop' message.
HandleStopMessage(s) ==
  /\ s.kind = "message" /\ s.body = Resource
  /\ CallRemoveMucSender(muc_senders[s.jid.bare].bare)
  /\ UNCHANGED <<up, streamVars, senderVars>>

\* Any other text in the room is ignored.
HandleOtherMessage(s) ==
  /\ s.kind = "message" /\ s.body # Resource
  /\ UNCHANGED <<up, streamVars, senderVars, pc, removing>>

HandleMUC(s) ==
  \/ HandleOwnPresence(s)
  \/ HandleOtherPresence(s)
  \/ HandleMUCError(s)
  \/ HandleStopMessage(s)
  \/ HandleOtherMessage(s)
=============================================================================
