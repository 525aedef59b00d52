----------------------------- MODULE Messenger ------------------------------
(***************************************************************************)
(* msg::Messenger (src/messenger.cpp): connects, hands the text to every   *)
(* destination, waits in gloox's blocking receive loop until the last chat *)
(* room is done, and returns the exit code.                                *)
(*                                                                         *)
(* client->connect(true) runs every callback on the calling thread, one    *)
(* at a time; only onDisconnect is nested, inside the send or disconnect() *)
(* that triggers it.  What runs beside that thread is the network and the  *)
(* service (MucService).  onConnect is one step per destination and        *)
(* remove_muc_sender one step per statement under map_guard, so that the   *)
(* connection can die between any two of them.                             *)
(***************************************************************************)
EXTENDS MUCSender

CONSTANTS
  DestinationLists  \* the lists of destinations considered

DestinationType == {"Normal", "Groupchat"}
Destination == [type : DestinationType, jid : JID]

ASSUME DestinationAssumption ==
  \A list \in DestinationLists : list \in Seq(Destination)

VARIABLES
  destinations, \* Messenger::destinations
  cursor,       \* position of onConnect in destinations
  map_guard     \* "free" or "held"

controlVars == <<pc, removing, destinations, cursor, map_guard>>
vars == <<serviceVars, streamVars, senderVars, controlVars>>

Control == {"start", "connecting", "onConnect", "sending", "receiving",
            "remove", "erase", "lastCheck", "returned", "exited"}

Init ==
  /\ ServiceInit
  /\ StreamInit
  /\ SenderInit
  /\ pc = "start"
  /\ removing = NoJID
  /\ destinations \in DestinationLists
  /\ cursor = 1
  /\ map_guard = "free"

NoSenders == \A b \in Bares : muc_senders[b] = NoJID

GoTo(from, to) ==
  /\ pc = from
  /\ pc' = to

\* The client leaves the service's own state and the incoming queue alone.
ServiceKept == UNCHANGED <<down, broken, occupants, accepted, spare>>

-----------------------------------------------------------------------------
(* start(): register the listeners and enter connect(true).                *)
Start ==
  /\ GoTo("start", "connecting")
  /\ UNCHANGED <<serviceVars, streamVars, senderVars, removing,
                 destinations, cursor, map_guard>>

\* connect() gives up without a callback (no server name); start() does not
\* look at its return value.
ConnectDeclined ==
  /\ GoTo("connecting", "returned")
  /\ UNCHANGED <<serviceVars, streamVars, senderVars, removing,
                 destinations, cursor, map_guard>>

\* DNS, TCP, TLS or authentication fails: onDisconnect, then connect() returns.
ConnectFails ==
  /\ GoTo("connecting", "returned")
  /\ conn' = "closed"
  /\ \E e \in Failures : OnDisconnect(e)
  /\ UNCHANGED <<serviceVars, senderVars, removing, destinations, cursor, map_guard>>

Connected ==
  /\ GoTo("connecting", "onConnect")
  /\ Establish
  /\ UNCHANGED <<serviceVars, senderVars, removing, destinations, cursor, map_guard>>

-----------------------------------------------------------------------------
(* onConnect().                                                            *)
\* The initial presence; nothing the program looks at answers it.
OnConnect ==
  /\ GoTo("onConnect", "sending")
  /\ Write(<<>>)
  /\ ServiceKept
  /\ UNCHANGED <<senderVars, removing, destinations, cursor, map_guard>>

NextDestination(type) ==
  /\ pc = "sending"
  /\ cursor <= Len(destinations)
  /\ destinations[cursor].type = type
  /\ cursor' = cursor + 1
  /\ ServiceKept
  /\ UNCHANGED <<pc, removing, destinations>>

\* sendTo: one chat message through a session that is disposed of at once.
SendTo ==
  /\ NextDestination("Normal")
  /\ Write(<<Stanza("chat", destinations[cursor].jid, Message)>>)
  /\ CountWritten(destinations[cursor].jid.bare)
  /\ UNCHANGED <<muc_senders, joined, reported, map_guard>>

\* Mutant: the sender is started whether emplace inserted it or not.
SendToRoom_AlwaysStarts ==
  /\ NextDestination("Groupchat")
  /\ map_guard = "free"
  /\ LET nick == WithNick(destinations[cursor].jid)
     IN  /\ muc_senders' = IF muc_senders[nick.bare] = NoJID
                           THEN [muc_senders EXCEPT ![nick.bare] = nick]
                           ELSE muc_senders
         /\ StartSender(nick)
  /\ UNCHANGED <<reported, written, map_guard>>

\* sendToRoom: emplace a sender under the bare room JID, and start it if the
\* room had none yet.
SendToRoom ==
  /\ NextDestination("Groupchat")
  /\ map_guard = "free"
  /\ LET nick == WithNick(destinations[cursor].jid)
     IN  IF muc_senders[nick.bare] = NoJID
         THEN /\ muc_senders' = [muc_senders EXCEPT ![nick.bare] = nick]
              /\ StartSender(nick)
         ELSE UNCHANGED <<muc_senders, joined, up, streamVars>>
  /\ UNCHANGED <<reported, written, map_guard>>

\* Mutant: disconnect without a look at muc_senders.
OnConnectDone_Unchecked ==
  /\ GoTo("sending", "receiving")
  /\ cursor > Len(destinations)
  /\ map_guard = "free"
  /\ Disconnect
  /\ ServiceKept
  /\ UNCHANGED <<up, senderVars, removing, destinations, cursor, map_guard>>

\* After the 500 ms sleep: nobody to wait for, so disconnect.
OnConnectDone ==
  /\ GoTo("sending", "receiving")
  /\ cursor > Len(destinations)
  /\ map_guard = "free"
  /\ IF NoSenders THEN Disconnect ELSE UNCHANGED streamVars
  /\ ServiceKept
  /\ UNCHANGED <<up, senderVars, removing, destinations, cursor, map_guard>>

-----------------------------------------------------------------------------
(***************************************************************************)
(* The receive loop.  gloox parses what it has read to the end, so stanzas *)
(* may still be dispatched after a callback has closed the stream.         *)
(***************************************************************************)
Dispatch ==
  /\ pc = "receiving"
  /\ down # <<>>
  /\ down' = Tail(down)
  /\ UNCHANGED <<broken, occupants, accepted, spare, destinations, cursor, map_guard>>

\* A stanza of a room that has a live sender goes to the sender's MUCRoom.
RoomCallback ==
  /\ Dispatch
  /\ Live(Head(down).jid.bare)
  /\ HandleMUC(Head(down))

\* A text gloox gives to no room comes to the Messenger, where the 'stop'
\* message removes the sender of whatever bare JID it came from.  Which of
\* the two handlers gets a private text of a room is gloox's choice.
HandleMessage ==
  /\ Dispatch
  /\ \/ Head(down).kind = "message"
     \/ Head(down).kind = "messageError" /\ ~Live(Head(down).jid.bare)
  /\ IF Head(down).body = Resource
     THEN CallRemoveMucSender(Head(down).jid.bare)
     ELSE UNCHANGED <<pc, removing>>
  /\ UNCHANGED <<up, streamVars, senderVars>>

\* Presence of a room without a sender has no handler.
UnhandledPresence ==
  /\ Dispatch
  /\ Head(down).kind \in {"presence", "unavailable", "presenceError"}
  /\ ~Live(Head(down).jid.bare)
  /\ UNCHANGED <<up, streamVars, senderVars, pc, removing>>

-----------------------------------------------------------------------------
(* remove_muc_sender( removing ).                                          *)
LockForRemoval ==
  /\ GoTo("remove", "erase")
  /\ map_guard = "free"
  /\ map_guard' = "held"
  /\ UNCHANGED <<serviceVars, streamVars, senderVars, removing, destinations, cursor>>

\* Mutant: the destructor of a sender asks for its own removal.
EraseSender_Reenters ==
  /\ GoTo("erase", "remove")
  /\ muc_senders' = [muc_senders EXCEPT ![removing] = NoJID]
  /\ DestroySender(removing)
  /\ ServiceKept
  /\ UNCHANGED <<reported, written, removing, destinations, cursor, map_guard>>

\* erase() drops the last reference, so the sender is destroyed under the lock.
EraseSender ==
  /\ GoTo("erase", "lastCheck")
  /\ muc_senders' = [muc_senders EXCEPT ![removing] = NoJID]
  /\ DestroySender(removing)
  /\ ServiceKept
  /\ UNCHANGED <<reported, written, removing, destinations, cursor, map_guard>>

\* Mutant: disconnect as soon as the first sender is done.
DisconnectIfLast_Unchecked ==
  /\ GoTo("lastCheck", "receiving")
  /\ Disconnect
  /\ map_guard' = "free"
  /\ removing' = NoJID
  /\ ServiceKept
  /\ UNCHANGED <<up, senderVars, destinations, cursor>>

\* The map is empty: nobody is left to wait for.
DisconnectIfLast ==
  /\ GoTo("lastCheck", "receiving")
  /\ IF NoSenders THEN Disconnect ELSE UNCHANGED streamVars
  /\ map_guard' = "free"
  /\ removing' = NoJID
  /\ ServiceKept
  /\ UNCHANGED <<up, senderVars, destinations, cursor>>

-----------------------------------------------------------------------------
(* The end of the stream and of the process.                               *)
StreamLost ==
  /\ pc = "receiving"
  /\ Lose
  /\ UNCHANGED <<serviceVars, senderVars, controlVars>>

StartReturns ==
  /\ GoTo("receiving", "returned")
  /\ conn = "closed"
  /\ UNCHANGED <<serviceVars, streamVars, senderVars, removing,
                 destinations, cursor, map_guard>>

\* ~Messenger disconnects and destroys the senders that are left; main
\* returns the result it has already taken.
Destroy ==
  /\ GoTo("returned", "exited")
  /\ Disconnect
  /\ muc_senders' = [b \in Bares |-> NoJID]
  /\ joined' = {}
  /\ ServiceKept
  /\ UNCHANGED <<up, reported, written, removing, destinations, cursor, map_guard>>

Exited ==
  /\ pc = "exited"
  /\ UNCHANGED vars

ClientNext ==
  \/ Start
  \/ ConnectDeclined
  \/ ConnectFails
  \/ Connected
  \/ OnConnect
  \/ SendTo
  \/ SendToRoom
  \/ OnConnectDone
  \/ RoomCallback
  \/ HandleMessage
  \/ UnhandledPresence
  \/ LockForRemoval
  \/ EraseSender
  \/ DisconnectIfLast
  \/ StreamLost
  \/ StartReturns
  \/ Destroy

ServiceStep == ServiceNext /\ UNCHANGED <<streamVars, senderVars, controlVars>>

Next == ClientNext \/ ServiceStep \/ Exited

Spec == Init /\ [][Next]_vars

\* The thread that runs main is scheduled, and the server goes on answering
\* what it is sent.  Nothing makes a room misbehave or the connection break,
\* nor recv notice that it is dead: the code sends no keep-alive.
DeafSpec ==
  /\ Spec
  /\ WF_vars(ClientNext /\ ~StreamLost)
  /\ WF_vars(ServerStep /\ UNCHANGED <<streamVars, senderVars, controlVars>>)

-----------------------------------------------------------------------------
(***************************************************************************)
(* Properties.                                                             *)
(***************************************************************************)

\* Every variable keeps its type: only stanzas travel, the result is NoError
\* or a failure (messenger.cpp never stores a user disconnect), pc stays
\* among the control points and cursor within the destinations.
TypeOK ==
  /\ ServiceTypeOK
  /\ StreamTypeOK
  /\ SenderTypeOK
  /\ pc \in Control
  /\ removing \in Bares \cup {NoJID}
  /\ destinations \in Seq(Destination)
  /\ cursor \in 1..(Len(destinations) + 1)
  /\ map_guard \in {"free", "held"}

\* map_guard is not recursive and is held across the destruction of a sender
\* and across client->disconnect(), both of which call back.  No callback may
\* come to one of the program's lock operations while it is held.
NoSelfDeadlock ==
  pc \in {"sending", "remove"} => map_guard = "free"

\* The program closes a working stream only after onConnect has been through
\* every destination and no sender is waiting for its room any more, and
\* such a close is a success: it leaves the exit code at 0.
ClosesOnlyWhenDone ==
  [][ conn = "connected" /\ conn' = "closed" /\ ~broken =>
        /\ NoSenders
        /\ cursor > Len(destinations)
        /\ result' = NoError ]_vars

\* Exit code 0 of a run that had a session is honest: each destination was
\* handed to the open stream or named in an error message.
ExitCodeHonest ==
  pc = "exited" /\ conn = "closed" /\ result = NoError =>
    \A i \in 1..Len(destinations) :
      \/ written[destinations[i].jid.bare] > 0
      \/ destinations[i].jid.bare \in reported

\* What the 'stop' message is for: when the program closes the stream with
\* success, every room it did not complain about has already taken the text;
\* no text is left under way when the connection goes.
ConfirmedBeforeClose ==
  conn = "closed" /\ result = NoError =>
    \A i \in 1..Len(destinations) :
      LET b == destinations[i].jid.bare
      IN  destinations[i].type = "Groupchat" /\ b \in Rooms \ reported => accepted[b] > 0

\* A room gets the text once, however many destinations name it, and at most
\* once more for each unsolicited event there has been, in whatever room: a
\* sender posts again when its room repeats our presence.
OncePerPresence == \A r \in Rooms : accepted[r] <= 1 + (MaxUnsolicited - spare)

\* There is no timeout, so connect( true ) may block for ever; but only on a
\* connection that died without a sound, or on a room that has neither
\* refused us nor let us in under the nickname asked for.  A room that the
\* text has been posted to, or that was complained about, is never what the
\* program waits for.
Unanswered(b) ==
  /\ muc_senders[b] # NoJID
  /\ b \in Rooms => occupants[b] # muc_senders[b]
  /\ written[b] = 0 /\ b \notin reported

WaitsOnlyForTheSilent ==
  \/ <>(pc = "exited")
  \/ <>[](pc = "receiving" /\ conn = "connected" /\ (broken \/ \E b \in Bares : Unanswered(b)))

-----------------------------------------------------------------------------
(***************************************************************************)
(* The promise to the user (Delivery), read off the program's state.       *)
(***************************************************************************)
Owed == {destinations[i].jid.bare : i \in 1..Len(destinations)}
Settled == {b \in Bares : written[b] > 0} \cup reported
Outcome ==
  IF pc # "exited" THEN "running"
  ELSE IF result # NoError THEN "failure"
  ELSE IF conn = "idle" THEN "unstarted"
  ELSE "success"

Promise == INSTANCE Delivery WITH owed <- Owed, settled <- Settled, outcome <- Outcome

\* The program implements the promise: what is settled stays settled, and it
\* reports success only when nothing it owes is left.
KeepsPromise == Promise!Spec
=============================================================================
