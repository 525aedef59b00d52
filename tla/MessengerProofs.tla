--------------------------- MODULE MessengerProofs --------------------------
(***************************************************************************)
(* Theorems about Messenger, for any rooms, nicknames, destinations,       *)
(* replies and failures.  First its own discipline: types, map_guard, when *)
(* the stream is closed.  Then what exit code 0 promises: it is honest,    *)
(* and Messenger implements Delivery, as long as nobody else's text can be *)
(* taken for the 'stop' message of a room before we have written to it.    *)
(***************************************************************************)
EXTENDS Messenger, SequenceTheorems, TLAPS

(***************************************************************************)
(* The invariant is TypeOK together with three facts about where the       *)
(* thread is (Discipline); ClosesOnlyWhenDone and NoSelfDeadlock follow    *)
(* from it.                                                                *)
(***************************************************************************)

\* remove_muc_sender holds map_guard from its lock to the end of its block,
\* and nothing else keeps it across a step.
GuardHeldInRemoval == map_guard = "held" <=> pc \in {"erase", "lastCheck"}

\* No callback but onConnect runs before onConnect has been through the
\* destinations.
SendsBeforeReceiving ==
  pc \in {"receiving", "remove", "erase", "lastCheck"} => cursor > Len(destinations)

\* The stream opens when connect() has negotiated it and is closed when
\* connect() returns, and no failure is recorded while it is usable.
StreamFollowsControl ==
  /\ pc \in {"start", "connecting"} => conn = "idle"
  /\ pc \in {"returned", "exited"} => conn # "connected"
  /\ conn # "closed" => result = NoError

Discipline == GuardHeldInRemoval /\ SendsBeforeReceiving /\ StreamFollowsControl

IInv == TypeOK /\ Discipline

-----------------------------------------------------------------------------
(***************************************************************************)
(* Types.                                                                  *)
(***************************************************************************)
LEMMA HeadTailType ==
  ASSUME NEW S, NEW q \in Seq(S), q # <<>>
  PROVE  Head(q) \in S /\ Tail(q) \in Seq(S)
  OBVIOUS

LEMMA AppendType ==
  ASSUME NEW S, NEW q \in Seq(S), NEW x \in S
  PROVE  Append(q, x) \in Seq(S)
  OBVIOUS

LEMMA UpStanzaType ==
  ASSUME NEW kind \in UpKind, NEW jid \in JID, NEW body \in Body
  PROVE  Stanza(kind, jid, body) \in UpStanza
  BY DEF Stanza, UpStanza

LEMMA DownStanzaType ==
  ASSUME NEW kind \in DownKind, NEW jid \in JID, NEW body \in Body
  PROVE  Stanza(kind, jid, body) \in DownStanza
  BY DEF Stanza, DownStanza

LEMMA WriteType ==
  ASSUME ServiceTypeOK, StreamTypeOK,
         NEW stanzas \in Seq(UpStanza), Write(stanzas)
  PROVE  up' \in Seq(UpStanza) /\ StreamTypeOK'
<1>1. up \o stanzas \in Seq(UpStanza) /\ up \in Seq(UpStanza)
  BY ConcatProperties DEF ServiceTypeOK
<1>2. up' \in Seq(UpStanza)
  BY <1>1 DEF Write
<1>3. StreamTypeOK'
  BY DEF StreamTypeOK, Write, OnDisconnect
<1>4. QED
  BY <1>2, <1>3

LEMMA DisconnectType ==
  ASSUME StreamTypeOK, Disconnect
  PROVE  StreamTypeOK'
  BY DEF StreamTypeOK, Disconnect, OnDisconnect

LEMMA AnswerType ==
  ASSUME ServiceTypeOK,
         NEW kind \in DownKind, NEW jid \in JID, NEW body \in Body,
         Answer(kind, jid, body)
  PROVE  down' \in Seq(DownStanza)
  BY DownStanzaType, AppendType DEF ServiceTypeOK, Answer

LEMMA ServerReadsType ==
  ASSUME ServiceTypeOK, NEW kind, ServerReads(kind)
  PROVE  /\ up' \in Seq(UpStanza)
         /\ Head(up) \in UpStanza
         /\ Head(up).jid \in JID /\ Head(up).body \in Body
         /\ Head(up).jid.bare \in Bares
  <1>1. Head(up) \in UpStanza /\ Tail(up) \in Seq(UpStanza)
    BY HeadTailType DEF ServiceTypeOK, ServerReads
  <1>2. QED
    BY <1>1 DEF ServerReads, UpStanza, JID

LEMMA ServerStepType ==
  ASSUME ServiceTypeOK, ServerStep
  PROVE  ServiceTypeOK'
<1> USE ServiceAssumption
<1>1. CASE RoomAdmits
  <2>1. Head(up).jid \in JID /\ up' \in Seq(UpStanza)
    BY <1>1, ServerReadsType DEF RoomAdmits
  <2>2. down' \in Seq(DownStanza)
    BY <1>1, <2>1, AnswerType DEF RoomAdmits, DownKind, Body
  <2>3. QED
    BY <1>1, <2>1, <2>2 DEF RoomAdmits, ServiceTypeOK
<1>2. CASE RoomRenames
  <2>1. PICK nick \in Nicks \ {Head(up).jid.resource} :
          LET given == [Head(up).jid EXCEPT !.resource = nick]
          IN  /\ occupants' = [occupants EXCEPT ![given.bare] = given]
              /\ Answer("presence", given, NoBody)
    BY <1>2 DEF RoomRenames
  <2> DEFINE given == [Head(up).jid EXCEPT !.resource = nick]
  <2>2. Head(up).jid \in JID /\ up' \in Seq(UpStanza)
    BY <1>2, ServerReadsType DEF RoomRenames
  <2>3. given \in JID
    BY <2>2 DEF JID
  <2> HIDE DEF given
  <2>4. down' \in Seq(DownStanza)
    BY <2>1, <2>3, AnswerType DEF given, DownKind, Body
  <2>5. occupants' \in [Rooms -> JID \cup {NoJID}]
    BY <2>1, <2>3 DEF ServiceTypeOK, given
  <2>6. QED
    BY <1>2, <2>2, <2>4, <2>5 DEF RoomRenames, ServiceTypeOK
<1>3. CASE RoomRefuses
  <2>1. Head(up).jid \in JID /\ up' \in Seq(UpStanza)
    BY <1>3, ServerReadsType DEF RoomRefuses
  <2>2. down' \in Seq(DownStanza)
    BY <1>3, <2>1, AnswerType DEF RoomRefuses, DownKind, Body
  <2>3. QED
    BY <1>3, <2>1, <2>2 DEF RoomRefuses, ServiceTypeOK
<1>4. CASE RoomIgnores
  BY <1>4, ServerReadsType DEF RoomIgnores, ServiceTypeOK
<1>5. CASE RoomAccepts
  <2>1. Head(up).body \in Body /\ up' \in Seq(UpStanza)
    BY <1>5, ServerReadsType DEF RoomAccepts
  <2>2. Head(up).jid.bare \in Rooms /\ occupants[Head(up).jid.bare] \in JID
    BY <1>5 DEF RoomAccepts, ServiceTypeOK
  <2>3. down' \in Seq(DownStanza)
    BY <1>5, <2>1, <2>2, AnswerType DEF RoomAccepts, DownKind
  <2>4. accepted' \in [Rooms -> Nat]
    BY <1>5, <2>2 DEF RoomAccepts, ServiceTypeOK
  <2>5. QED
    BY <1>5, <2>1, <2>3, <2>4 DEF RoomAccepts, ServiceTypeOK
<1>6. CASE RoomRelays
  <2>1. Head(up).jid \in JID /\ Head(up).body \in Body /\ up' \in Seq(UpStanza)
    BY <1>6, ServerReadsType DEF RoomRelays
  <2>2. down' \in Seq(DownStanza)
    BY <1>6, <2>1, AnswerType DEF RoomRelays, DownKind
  <2>3. QED
    BY <1>6, <2>1, <2>2 DEF RoomRelays, ServiceTypeOK
<1>7. CASE StanzaRejected
  <2>1. Head(up).jid \in JID /\ Head(up).body \in Body /\ up' \in Seq(UpStanza)
    BY <1>7, ServerReadsType DEF StanzaRejected
  <2>2. down' \in Seq(DownStanza)
    BY <1>7, <2>1, AnswerType DEF StanzaRejected, DownKind
  <2>3. QED
    BY <1>7, <2>1, <2>2 DEF StanzaRejected, ServiceTypeOK
<1>8. CASE UserReceives
  BY <1>8, ServerReadsType DEF UserReceives, ServiceTypeOK
<1>9. CASE RoomReleases
  <2>1. Head(up).jid \in JID /\ up' \in Seq(UpStanza)
    BY <1>9, ServerReadsType DEF RoomReleases
  <2>2. down' \in Seq(DownStanza)
    BY <1>9, <2>1, AnswerType DEF RoomReleases, DownKind, Body
  <2>3. QED
    BY <1>9, <2>1, <2>2 DEF RoomReleases, ServiceTypeOK
<1>10. QED
  BY <1>1, <1>2, <1>3, <1>4, <1>5, <1>6, <1>7, <1>8, <1>9 DEF ServerStep

LEMMA UnsolicitedStepType ==
  ASSUME ServiceTypeOK, UnsolicitedStep
  PROVE  ServiceTypeOK'
<1> USE ServiceAssumption
<1>0. ASSUME NEW event, SpendUnsolicited(event)
      PROVE  spare' \in 0..MaxUnsolicited
  BY <1>0 DEF SpendUnsolicited, ServiceTypeOK
<1>1. ASSUME NEW r \in Rooms, RoomRepeatsPresence(r)
      PROVE  ServiceTypeOK'
  <2>1. occupants[r] \in JID
    BY <1>1 DEF RoomRepeatsPresence, ServiceTypeOK
  <2>2. down' \in Seq(DownStanza)
    BY <1>1, <2>1, AnswerType DEF RoomRepeatsPresence, DownKind, Body
  <2>3. QED
    BY <1>0, <1>1, <2>2 DEF RoomRepeatsPresence, ServiceTypeOK
<1>2. ASSUME NEW r \in Rooms, OccupantWrites(r)
      PROVE  ServiceTypeOK'
  <2>1. PICK nick \in Nicks : Answer("message", [bare |-> r, resource |-> nick], Resource)
    BY <1>2 DEF OccupantWrites
  <2>2. [bare |-> r, resource |-> nick] \in JID
    BY DEF JID, Bares
  <2>3. down' \in Seq(DownStanza)
    BY <2>1, <2>2, AnswerType DEF DownKind, Body
  <2>4. QED
    BY <1>0, <1>2, <2>3 DEF OccupantWrites, ServiceTypeOK
<1>3. ASSUME NEW r \in Rooms, RoomKicks(r)
      PROVE  ServiceTypeOK'
  <2>1. occupants[r] \in JID
    BY <1>3 DEF RoomKicks, ServiceTypeOK
  <2>2. down' \in Seq(DownStanza)
    BY <1>3, <2>1, AnswerType DEF RoomKicks, DownKind, Body
  <2>3. QED
    BY <1>0, <1>3, <2>2 DEF RoomKicks, ServiceTypeOK
<1>4. ASSUME NEW u \in Users, ContactWrites(u)
      PROVE  ServiceTypeOK'
  <2>1. PICK text \in {Message, Resource} :
          Answer("message", [bare |-> u, resource |-> NoResource], text)
    BY <1>4 DEF ContactWrites
  <2>2. [bare |-> u, resource |-> NoResource] \in JID
    BY DEF JID, Bares
  <2>3. down' \in Seq(DownStanza)
    BY <2>1, <2>2, AnswerType DEF DownKind, Body
  <2>4. QED
    BY <1>0, <1>4, <2>3 DEF ContactWrites, ServiceTypeOK
<1>5. QED
  BY <1>1, <1>2, <1>3, <1>4 DEF UnsolicitedStep

LEMMA BreakType ==
  ASSUME ServiceTypeOK, Break
  PROVE  ServiceTypeOK'
<1>1. PICK n \in 0..Len(down) : down' = SubSeq(down, 1, n)
  BY DEF Break
<1>2. down' \in Seq(DownStanza)
  BY <1>1 DEF ServiceTypeOK
<1>3. QED
  BY <1>2 DEF Break, ServiceTypeOK

LEMMA ServiceStepType ==
  ASSUME TypeOK, ServiceStep
  PROVE  TypeOK'
<1>1. ServiceTypeOK'
  BY ServerStepType, UnsolicitedStepType, BreakType DEF TypeOK, ServiceStep, ServiceNext
<1>2. UNCHANGED <<streamVars, senderVars, controlVars>>
  BY DEF ServiceStep
<1>3. QED
  BY <1>1, <1>2 DEF TypeOK, StreamTypeOK, SenderTypeOK, streamVars, senderVars, controlVars

LEMMA InitType == Init => TypeOK
<1>1. SUFFICES ASSUME Init PROVE TypeOK
  OBVIOUS
<1>2. ServiceTypeOK
  <2>1. up \in Seq(UpStanza) /\ down \in Seq(DownStanza)
    BY <1>1, EmptySeq DEF Init, ServiceInit
  <2>2. broken \in BOOLEAN
    BY <1>1 DEF Init, ServiceInit
  <2>3. spare \in 0..MaxUnsolicited
    BY <1>1, ServiceAssumption DEF Init, ServiceInit
  <2>4. occupants \in [Rooms -> JID \cup {NoJID}] /\ accepted \in [Rooms -> Nat]
    BY <1>1 DEF Init, ServiceInit
  <2>5. QED
    BY <2>1, <2>2, <2>3, <2>4 DEF ServiceTypeOK
<1>3. StreamTypeOK
  BY <1>1 DEF Init, StreamInit, StreamTypeOK
<1>4. SenderTypeOK
  BY <1>1 DEF Init, SenderInit, SenderTypeOK
<1>5. /\ destinations \in Seq(Destination)
      /\ cursor \in 1..(Len(destinations) + 1)
  BY <1>1, DestinationAssumption DEF Init
<1>6. QED
  BY <1>1, <1>2, <1>3, <1>4, <1>5 DEF Init, TypeOK, Control

LEMMA WithNickType ==
  ASSUME NEW jid \in JID
  PROVE  WithNick(jid) \in JID
  BY SenderAssumption DEF WithNick, JID

\* A client step that leaves the service alone except for what it writes.
LEMMA ServiceKeptType ==
  ASSUME ServiceTypeOK, ServiceKept, up' \in Seq(UpStanza)
  PROVE  ServiceTypeOK'
  BY DEF ServiceTypeOK, ServiceKept

LEMMA DestinationJid ==
  ASSUME TypeOK, cursor <= Len(destinations)
  PROVE  destinations[cursor].jid \in JID
<1>1. cursor \in 1..Len(destinations)
  BY LenProperties DEF TypeOK
<1>2. destinations[cursor] \in Destination
  BY <1>1, ElementOfSeq DEF TypeOK
<1>3. QED
  BY <1>2 DEF Destination

LEMMA ConnectingType ==
  ASSUME TypeOK, Start \/ ConnectDeclined \/ ConnectFails \/ Connected
  PROVE  TypeOK'
  BY DEF TypeOK, Start, ConnectDeclined, ConnectFails, Connected, GoTo, Establish,
         OnDisconnect, Control, ServiceTypeOK, StreamTypeOK, SenderTypeOK,
         serviceVars, streamVars, senderVars

LEMMA OnConnectType ==
  ASSUME TypeOK, OnConnect
  PROVE  TypeOK'
<1>1. up' \in Seq(UpStanza) /\ StreamTypeOK'
  BY WriteType, EmptySeq DEF TypeOK, OnConnect
<1>2. ServiceTypeOK'
  BY <1>1, ServiceKeptType DEF TypeOK, OnConnect
<1>3. QED
  BY <1>1, <1>2 DEF TypeOK, OnConnect, GoTo, Control, SenderTypeOK, senderVars

LEMMA CountWrittenType ==
  ASSUME SenderTypeOK, NEW b \in Bares, CountWritten(b)
  PROVE  written' \in [Bares -> Nat]
<1>1. [written EXCEPT ![b] = @ + 1] \in [Bares -> Nat] /\ written \in [Bares -> Nat]
  BY DEF SenderTypeOK
<1>2. written' = [written EXCEPT ![b] = @ + 1] \/ written' = written
  BY DEF CountWritten
<1>3. QED
  BY <1>1, <1>2

LEMMA SendToType ==
  ASSUME TypeOK, SendTo
  PROVE  TypeOK'
<1>1. destinations[cursor].jid \in JID /\ destinations[cursor].jid.bare \in Bares
  BY DestinationJid DEF SendTo, NextDestination, JID
<1>2. <<Stanza("chat", destinations[cursor].jid, Message)>> \in Seq(UpStanza)
  BY <1>1, UpStanzaType DEF UpKind, Body
<1>3. up' \in Seq(UpStanza) /\ StreamTypeOK'
  BY <1>2, WriteType DEF TypeOK, SendTo
<1>4. ServiceTypeOK'
  BY <1>3, ServiceKeptType DEF TypeOK, SendTo, NextDestination
<1>5. written' \in [Bares -> Nat]
  BY <1>1, CountWrittenType DEF TypeOK, SendTo
<1>6. cursor' \in 1..(Len(destinations') + 1)
  BY LenProperties DEF TypeOK, SendTo, NextDestination
<1>7. QED
  BY <1>3, <1>4, <1>5, <1>6 DEF TypeOK, SendTo, NextDestination, SenderTypeOK

LEMMA SendToRoomType ==
  ASSUME TypeOK, SendToRoom
  PROVE  TypeOK'
<1> DEFINE nick == WithNick(destinations[cursor].jid)
<1>1. nick \in JID /\ nick.bare \in Bares
  <2>1. nick \in JID
    BY DestinationJid, WithNickType DEF SendToRoom, NextDestination
  <2>2. QED
    BY <2>1 DEF JID
<1>2. <<Stanza("join", nick, NoBody)>> \in Seq(UpStanza)
  BY <1>1, UpStanzaType DEF UpKind, Body
<1> HIDE DEF nick
<1>3. /\ up' \in Seq(UpStanza)
      /\ StreamTypeOK'
      /\ muc_senders' \in [Bares -> JID \cup {NoJID}]
      /\ joined' \subseteq Bares
  <2>1. CASE muc_senders[nick.bare] = NoJID
    <3>1. /\ muc_senders' = [muc_senders EXCEPT ![nick.bare] = nick]
          /\ joined' = joined \cup {nick.bare}
          /\ Write(<<Stanza("join", nick, NoBody)>>)
      BY <2>1 DEF SendToRoom, StartSender, nick
    <3>2. up' \in Seq(UpStanza) /\ StreamTypeOK'
      BY <3>1, <1>2, WriteType DEF TypeOK
    <3>3. QED
      BY <1>1, <3>1, <3>2 DEF TypeOK, SenderTypeOK
  <2>2. CASE muc_senders[nick.bare] # NoJID
    BY <2>2 DEF SendToRoom, nick, TypeOK, ServiceTypeOK, StreamTypeOK, SenderTypeOK, streamVars
  <2>3. QED
    BY <2>1, <2>2
<1>4. ServiceTypeOK'
  BY <1>3, ServiceKeptType DEF TypeOK, SendToRoom, NextDestination
<1>5. cursor' \in 1..(Len(destinations') + 1)
  BY LenProperties DEF TypeOK, SendToRoom, NextDestination
<1>6. QED
  BY <1>3, <1>4, <1>5 DEF TypeOK, SendToRoom, NextDestination, SenderTypeOK

LEMMA DisconnectTypeKept ==
  ASSUME TypeOK, UNCHANGED up, ServiceKept,
         (IF NoSenders THEN Disconnect ELSE UNCHANGED streamVars) \/ Disconnect
  PROVE  ServiceTypeOK' /\ StreamTypeOK'
<1>1. StreamTypeOK'
  BY DisconnectType DEF TypeOK, StreamTypeOK, streamVars
<1>2. QED
  BY <1>1, ServiceKeptType DEF TypeOK, ServiceTypeOK

LEMMA OnConnectDoneType ==
  ASSUME TypeOK, OnConnectDone
  PROVE  TypeOK'
<1>1. ServiceTypeOK' /\ StreamTypeOK'
  BY DisconnectTypeKept DEF OnConnectDone
<1>2. QED
  BY <1>1 DEF TypeOK, OnConnectDone, GoTo, Control, SenderTypeOK, senderVars

LEMMA RemovalType ==
  ASSUME TypeOK, LockForRemoval \/ DisconnectIfLast
  PROVE  TypeOK'
<1>1. CASE LockForRemoval
  BY <1>1 DEF TypeOK, LockForRemoval, GoTo, Control, ServiceTypeOK, StreamTypeOK,
              SenderTypeOK, serviceVars, streamVars, senderVars
<1>2. CASE DisconnectIfLast
  <2>1. ServiceTypeOK' /\ StreamTypeOK'
    BY <1>2, DisconnectTypeKept DEF DisconnectIfLast
  <2>2. QED
    BY <1>2, <2>1 DEF TypeOK, DisconnectIfLast, GoTo, Control, SenderTypeOK, senderVars
<1>3. QED
  BY <1>1, <1>2

LEMMA EraseSenderType ==
  ASSUME TypeOK, EraseSender
  PROVE  TypeOK'
<1>1. /\ up' \in Seq(UpStanza)
      /\ StreamTypeOK'
      /\ joined' \subseteq Bares
  <2>1. joined' \subseteq Bares
    BY DEF TypeOK, SenderTypeOK, EraseSender, DestroySender
  <2>2. CASE Live(removing)
    <3>1. muc_senders[removing] \in JID
      BY <2>2 DEF Live, TypeOK, SenderTypeOK
    <3>2. <<Stanza("leave", muc_senders[removing], NoBody)>> \in Seq(UpStanza)
      BY <3>1, UpStanzaType DEF UpKind, Body
    <3>3. Write(<<Stanza("leave", muc_senders[removing], NoBody)>>)
      BY <2>2 DEF EraseSender, DestroySender
    <3>4. QED
      BY <2>1, <3>2, <3>3, WriteType DEF TypeOK
  <2>3. CASE ~Live(removing)
    BY <2>1, <2>3 DEF EraseSender, DestroySender, TypeOK, ServiceTypeOK, StreamTypeOK
  <2>4. QED
    BY <2>2, <2>3
<1>2. muc_senders' \in [Bares -> JID \cup {NoJID}]
  BY DEF TypeOK, SenderTypeOK, EraseSender
<1>3. ServiceTypeOK'
  BY <1>1, ServiceKeptType DEF TypeOK, EraseSender
<1>4. QED
  BY <1>1, <1>2, <1>3 DEF TypeOK, EraseSender, GoTo, Control, SenderTypeOK

LEMMA EndType ==
  ASSUME TypeOK, StreamLost \/ StartReturns \/ Destroy \/ UNCHANGED vars
  PROVE  TypeOK'
<1>1. CASE StreamLost
  BY <1>1 DEF TypeOK, StreamLost, Lose, OnDisconnect, ServiceTypeOK, StreamTypeOK,
              SenderTypeOK, serviceVars, senderVars, controlVars
<1>2. CASE StartReturns
  BY <1>2 DEF TypeOK, StartReturns, GoTo, Control, ServiceTypeOK, StreamTypeOK,
              SenderTypeOK, serviceVars, streamVars, senderVars
<1>3. CASE Destroy
  <2>1. ServiceTypeOK' /\ StreamTypeOK'
    BY <1>3, DisconnectTypeKept DEF Destroy
  <2>2. QED
    BY <1>3, <2>1 DEF TypeOK, Destroy, GoTo, Control, SenderTypeOK
<1>4. CASE UNCHANGED vars
  BY <1>4 DEF vars, TypeOK, ServiceTypeOK, StreamTypeOK,
              SenderTypeOK, serviceVars, streamVars, senderVars, controlVars
<1>5. QED
  BY <1>1, <1>2, <1>3, <1>4

LEMMA DispatchType ==
  ASSUME TypeOK, Dispatch, up' \in Seq(UpStanza)
  PROVE  /\ ServiceTypeOK'
         /\ Head(down).jid \in JID /\ Head(down).jid.bare \in Bares
<1>1. Head(down) \in DownStanza /\ Tail(down) \in Seq(DownStanza)
  BY HeadTailType DEF TypeOK, ServiceTypeOK, Dispatch
<1>2. ServiceTypeOK'
  BY <1>1 DEF TypeOK, ServiceTypeOK, Dispatch
<1>3. QED
  BY <1>1, <1>2 DEF DownStanza, JID

\* What a MUCRoomHandler callback does to the sender and the stream.
LEMMA HandleMUCType ==
  ASSUME TypeOK, pc = "receiving", NEW s, s.jid.bare \in Bares, Live(s.jid.bare), HandleMUC(s)
  PROVE  /\ up' \in Seq(UpStanza)
         /\ StreamTypeOK'
         /\ SenderTypeOK'
         /\ pc' \in {"receiving", "remove"}
         /\ removing' \in Bares \cup {NoJID}
<1>1. muc_senders[s.jid.bare] \in JID /\ muc_senders[s.jid.bare].bare \in Bares
  <2>1. muc_senders[s.jid.bare] \in JID
    BY DEF Live, TypeOK, SenderTypeOK
  <2>2. QED
    BY <2>1 DEF JID
<1>2. CASE HandleOwnPresence(s)
  <2> DEFINE text == Stanza("groupchat", RoomJid(s.jid.bare), Message)
  <2> DEFINE stop == Stanza("chat", muc_senders[s.jid.bare], Resource)
  <2>1. RoomJid(s.jid.bare) \in JID
    BY DEF RoomJid, JID
  <2>2. text \in UpStanza /\ stop \in UpStanza
    BY <1>1, <2>1, UpStanzaType DEF UpKind, Body
  <2>3. Write(<<text, stop>>)
    BY <1>2 DEF HandleOwnPresence
  <2> HIDE DEF text, stop
  <2>4. <<text, stop>> \in Seq(UpStanza)
    BY <2>2
  <2>5. up' \in Seq(UpStanza) /\ StreamTypeOK'
    BY <2>3, <2>4, WriteType DEF TypeOK
  <2>6. written' \in [Bares -> Nat]
    BY <1>2, CountWrittenType DEF HandleOwnPresence, TypeOK
  <2>7. QED
    BY <1>2, <2>5, <2>6 DEF HandleOwnPresence, TypeOK, SenderTypeOK
<1>3. CASE HandleOtherPresence(s) \/ HandleOtherMessage(s)
  BY <1>3 DEF HandleOtherPresence, HandleOtherMessage, TypeOK, ServiceTypeOK,
              StreamTypeOK, SenderTypeOK, streamVars, senderVars
<1>4. CASE HandleMUCError(s)
  BY <1>1, <1>4 DEF HandleMUCError, CallRemoveMucSender, TypeOK, ServiceTypeOK,
                    StreamTypeOK, SenderTypeOK, streamVars
<1>5. CASE HandleStopMessage(s)
  BY <1>1, <1>5 DEF HandleStopMessage, CallRemoveMucSender, TypeOK, ServiceTypeOK,
                    StreamTypeOK, SenderTypeOK, streamVars, senderVars
<1>6. QED
  BY <1>2, <1>3, <1>4, <1>5 DEF HandleMUC

LEMMA RoomCallbackType ==
  ASSUME TypeOK, RoomCallback
  PROVE  TypeOK'
<1>1. pc = "receiving" /\ Head(down).jid.bare \in Bares
  <2>1. Head(down) \in DownStanza
    BY HeadTailType DEF TypeOK, ServiceTypeOK, RoomCallback, Dispatch
  <2>2. QED
    BY <2>1 DEF DownStanza, JID, RoomCallback, Dispatch
<1>2. /\ up' \in Seq(UpStanza)
      /\ StreamTypeOK'
      /\ SenderTypeOK'
      /\ pc' \in {"receiving", "remove"}
      /\ removing' \in Bares \cup {NoJID}
  BY <1>1, HandleMUCType DEF RoomCallback
<1>3. ServiceTypeOK'
  BY <1>2, DispatchType DEF RoomCallback
<1>4. QED
  BY <1>2, <1>3 DEF RoomCallback, Dispatch, TypeOK, Control

LEMMA MessengerCallbackType ==
  ASSUME TypeOK, HandleMessage \/ UnhandledPresence
  PROVE  TypeOK'
<1>1. Dispatch /\ UNCHANGED <<up, streamVars, senderVars>>
  BY DEF HandleMessage, UnhandledPresence
<1>2. ServiceTypeOK' /\ Head(down).jid.bare \in Bares
  BY <1>1, DispatchType DEF TypeOK, ServiceTypeOK
<1>3. pc' \in Control /\ removing' \in Bares \cup {NoJID}
  BY <1>2 DEF HandleMessage, UnhandledPresence, CallRemoveMucSender, TypeOK, Control
<1>4. QED
  BY <1>1, <1>2, <1>3 DEF Dispatch, TypeOK, StreamTypeOK, SenderTypeOK, streamVars, senderVars

LEMMA NextType == TypeOK /\ [Next]_vars => TypeOK'
<1>1. SUFFICES ASSUME TypeOK, [Next]_vars PROVE TypeOK'
  OBVIOUS
<1>2. CASE ServiceStep
  BY <1>1, <1>2, ServiceStepType
<1>3. CASE ClientNext
  BY <1>1, <1>3, ConnectingType, OnConnectType, SendToType, SendToRoomType,
     OnConnectDoneType, RoomCallbackType, MessengerCallbackType, RemovalType,
     EraseSenderType, EndType DEF ClientNext
<1>4. CASE Exited \/ UNCHANGED vars
  BY <1>1, <1>4, EndType DEF Exited
<1>5. QED
  BY <1>1, <1>2, <1>3, <1>4 DEF Next

\* Whatever rooms, service and network do, every variable keeps its type;
\* in particular the exit code is never ConnUserDisconnected.
THEOREM TypeCorrect == Spec => []TypeOK
<1>1. QED
  BY InitType, NextType, PTL DEF Spec

-----------------------------------------------------------------------------
(***************************************************************************)
(* Where the thread is, and what it may hold and find there.               *)
(***************************************************************************)
LEMMA InitDiscipline == Init => Discipline
  BY DEF Init, StreamInit, Discipline, GuardHeldInRemoval, SendsBeforeReceiving,
         StreamFollowsControl

\* No send and no close leaves a failure behind on a stream that is still open.
LEMMA StreamOpsKeepResult ==
  ASSUME conn # "closed" => result = NoError,
         \/ \E stanzas : Write(stanzas)
         \/ Disconnect
         \/ UNCHANGED streamVars
  PROVE  conn' # "closed" => result' = NoError
  BY DEF Write, Disconnect, streamVars

\* The service touches neither the stream's state nor the thread's.
LEMMA QuietDiscipline ==
  ASSUME Discipline, UNCHANGED <<streamVars, controlVars>>
  PROVE  Discipline'
  BY DEF Discipline, GuardHeldInRemoval, SendsBeforeReceiving, StreamFollowsControl,
         streamVars, controlVars

LEMMA ConnectingDiscipline ==
  ASSUME Discipline, Start \/ ConnectDeclined \/ ConnectFails \/ Connected
  PROVE  Discipline'
  BY DEF Discipline, GuardHeldInRemoval, SendsBeforeReceiving, StreamFollowsControl,
         Start, ConnectDeclined, ConnectFails, Connected, Establish, GoTo, streamVars

LEMMA OnConnectDiscipline ==
  ASSUME Discipline, OnConnect \/ SendTo \/ SendToRoom \/ OnConnectDone
  PROVE  Discipline'
<1> USE DEF Discipline, GuardHeldInRemoval, SendsBeforeReceiving, StreamFollowsControl
<1>1. conn' # "closed" => result' = NoError
  <2>1. (\E stanzas : Write(stanzas)) \/ Disconnect \/ UNCHANGED streamVars
    BY DEF OnConnect, SendTo, SendToRoom, StartSender, OnConnectDone, streamVars
  <2>2. QED
    BY <2>1, StreamOpsKeepResult
<1>2. /\ pc \in {"onConnect", "sending"}
      /\ UNCHANGED map_guard
      /\ \/ pc' = "sending"
         \/ pc' = "receiving" /\ cursor' = cursor /\ cursor > Len(destinations)
                             /\ UNCHANGED destinations
  BY DEF OnConnect, SendTo, SendToRoom, NextDestination, OnConnectDone, GoTo
<1>3. QED
  BY <1>1, <1>2

LEMMA CallbackDiscipline ==
  ASSUME Discipline, RoomCallback \/ HandleMessage \/ UnhandledPresence
  PROVE  Discipline'
<1> USE DEF Discipline, GuardHeldInRemoval, SendsBeforeReceiving, StreamFollowsControl
<1>1. conn' # "closed" => result' = NoError
  <2>1. (\E stanzas : Write(stanzas)) \/ UNCHANGED streamVars
    BY DEF RoomCallback, HandleMUC, HandleOwnPresence, HandleOtherPresence, HandleMUCError,
           HandleStopMessage, HandleOtherMessage, HandleMessage, UnhandledPresence
  <2>2. QED
    BY <2>1, StreamOpsKeepResult
<1>2. /\ pc = "receiving" /\ pc' \in {"receiving", "remove"}
      /\ UNCHANGED <<destinations, cursor, map_guard>>
  BY DEF RoomCallback, HandleMUC, HandleOwnPresence, HandleOtherPresence, HandleMUCError,
         HandleStopMessage, HandleOtherMessage, HandleMessage, UnhandledPresence,
         Dispatch, CallRemoveMucSender
<1>3. QED
  BY <1>1, <1>2

LEMMA RemovalDiscipline ==
  ASSUME Discipline, LockForRemoval \/ EraseSender \/ DisconnectIfLast
  PROVE  Discipline'
<1> USE DEF Discipline, GuardHeldInRemoval, SendsBeforeReceiving, StreamFollowsControl
<1>1. conn' # "closed" => result' = NoError
  <2>1. (\E stanzas : Write(stanzas)) \/ Disconnect \/ UNCHANGED streamVars
    BY DEF LockForRemoval, EraseSender, DestroySender, DisconnectIfLast, streamVars
  <2>2. QED
    BY <2>1, StreamOpsKeepResult
<1>2. /\ pc \in {"remove", "erase", "lastCheck"}
      /\ UNCHANGED <<destinations, cursor>>
      /\ \/ pc' = "erase" /\ map_guard' = "held"
         \/ pc = "erase" /\ pc' = "lastCheck" /\ UNCHANGED map_guard
         \/ pc' = "receiving" /\ map_guard' = "free"
  BY DEF LockForRemoval, EraseSender, DisconnectIfLast, GoTo
<1>3. QED
  BY <1>1, <1>2

LEMMA EndDiscipline ==
  ASSUME Discipline, StreamLost \/ StartReturns \/ Destroy
  PROVE  Discipline'
<1> USE DEF Discipline, GuardHeldInRemoval, SendsBeforeReceiving, StreamFollowsControl
<1>1. CASE StreamLost
  BY <1>1 DEF StreamLost, Lose, controlVars
<1>2. CASE StartReturns
  BY <1>2 DEF StartReturns, GoTo, streamVars
<1>3. CASE Destroy
  BY <1>3 DEF Destroy, Disconnect, GoTo
<1>4. QED
  BY <1>1, <1>2, <1>3

LEMMA NextDiscipline == Discipline /\ [Next]_vars => Discipline'
<1>1. SUFFICES ASSUME Discipline, [Next]_vars PROVE Discipline'
  OBVIOUS
<1>2. CASE ServiceStep
  BY <1>1, <1>2, QuietDiscipline DEF ServiceStep
<1>3. CASE ClientNext
  BY <1>1, <1>3, ConnectingDiscipline, OnConnectDiscipline, CallbackDiscipline,
     RemovalDiscipline, EndDiscipline DEF ClientNext
<1>4. CASE Exited \/ UNCHANGED vars
  BY <1>1, <1>4, QuietDiscipline DEF Exited, vars
<1>5. QED
  BY <1>1, <1>2, <1>3, <1>4 DEF Next

\* The inductive invariant holds in every reachable state.
THEOREM Invariance == Spec => []IInv
<1>1. Init => IInv
  BY InitType, InitDiscipline DEF IInv
<1>2. IInv /\ [Next]_vars => IInv'
  BY NextType, NextDiscipline DEF IInv
<1>3. QED
  BY <1>1, <1>2, PTL DEF Spec

\* No callback of the receive thread comes to a lock operation of its own
\* program while it holds map_guard: remove_muc_sender, although it destroys
\* the sender and disconnects under the lock, cannot block on itself.
THEOREM SelfDeadlockFree == Spec => []NoSelfDeadlock
<1>1. IInv => NoSelfDeadlock
  BY DEF IInv, TypeOK, Discipline, GuardHeldInRemoval, NoSelfDeadlock
<1>2. QED
  BY <1>1, Invariance, PTL

-----------------------------------------------------------------------------
(***************************************************************************)
(* When the program closes the stream.                                     *)
(***************************************************************************)
\* A send closes the stream only because the connection is dead.
LEMMA WriteClosesBroken ==
  ASSUME NEW stanzas, Write(stanzas), conn = "connected", conn' = "closed"
  PROVE  broken
  BY DEF Write

LEMMA DisconnectSucceeds ==
  ASSUME Disconnect, conn = "connected", conn' = "closed", ~broken
  PROVE  result' = result
  BY DEF Disconnect, OnDisconnect

LEMMA CloseStep ==
  ASSUME IInv, [Next]_vars, conn = "connected", conn' = "closed", ~broken
  PROVE  NoSenders /\ cursor > Len(destinations) /\ result' = NoError
<1> USE DEF IInv, Discipline, SendsBeforeReceiving, StreamFollowsControl
<1>1. ~ \E stanzas : Write(stanzas)
  BY WriteClosesBroken
<1>2. ~ UNCHANGED streamVars /\ ~ UNCHANGED conn
  BY DEF streamVars
<1>3. CASE OnConnectDone
  BY <1>2, <1>3, DisconnectSucceeds DEF OnConnectDone
<1>4. CASE DisconnectIfLast
  BY <1>2, <1>4, DisconnectSucceeds DEF DisconnectIfLast, GoTo
<1>5. ~ (Start \/ ConnectDeclined \/ ConnectFails \/ Connected)
  BY <1>2 DEF Start, ConnectDeclined, ConnectFails, Connected, Establish, GoTo
<1>6. ~ (OnConnect \/ SendTo \/ SendToRoom)
  BY <1>1, <1>2 DEF OnConnect, SendTo, SendToRoom, StartSender
<1>7. ~ (RoomCallback \/ HandleMessage \/ UnhandledPresence)
  BY <1>1, <1>2 DEF RoomCallback, HandleMUC, HandleOwnPresence, HandleOtherPresence,
     HandleMUCError, HandleStopMessage, HandleOtherMessage, HandleMessage, UnhandledPresence
<1>8. ~ (LockForRemoval \/ EraseSender)
  BY <1>1, <1>2 DEF LockForRemoval, EraseSender, DestroySender
<1>9. ~ (StreamLost \/ StartReturns \/ Destroy)
  BY <1>2 DEF StreamLost, Lose, StartReturns, Destroy, GoTo
<1>10. ~ (ServiceStep \/ Exited \/ UNCHANGED vars)
  BY <1>2 DEF ServiceStep, Exited, vars
<1>11. QED
  BY <1>3, <1>4, <1>5, <1>6, <1>7, <1>8, <1>9, <1>10 DEF Next, ClientNext

\* onConnect and remove_muc_sender disconnect a working stream only when
\* every destination has been handled and no sender is left, and then the
\* exit code stays 0, on any interleaving with rooms and network.
THEOREM ClosedWhenDone == Spec => ClosesOnlyWhenDone
<1>1. IInv /\ [Next]_vars =>
        [conn = "connected" /\ conn' = "closed" /\ ~broken =>
           NoSenders /\ cursor > Len(destinations) /\ result' = NoError]_vars
  BY CloseStep
<1>2. QED
  BY <1>1, Invariance, PTL DEF Spec, ClosesOnlyWhenDone

-----------------------------------------------------------------------------
(***************************************************************************)
(* Order in a queue.                                                       *)
(***************************************************************************)
Has(q, B) == \E k \in 1..Len(q) : q[k] \in B

\* Whatever of A is in the queue has something of B in front of it.
Preceded(q, B, A) == \A j \in 1..Len(q) : q[j] \in A => \E k \in 1..(j - 1) : q[k] \in B

LEMMA PrecededHead ==
  ASSUME NEW S, NEW q \in Seq(S), q # <<>>, NEW A, NEW B, Preceded(q, B, A)
  PROVE  Head(q) \notin A
<1>1. Len(q) \in Nat \ {0} /\ Head(q) = q[1]
  BY LenProperties
<1>2. QED
  BY <1>1 DEF Preceded

\* What is not of B can be taken off in front.
LEMMA PrecededTail ==
  ASSUME NEW S, NEW q \in Seq(S), q # <<>>, NEW A, NEW B, Preceded(q, B, A), Head(q) \notin B
  PROVE  Preceded(Tail(q), B, A)
<1>1. /\ Len(q) \in Nat \ {0} /\ Head(q) = q[1] /\ Len(Tail(q)) = Len(q) - 1
      /\ \A j \in 1..(Len(q) - 1) : Tail(q)[j] = q[j + 1]
  BY LenProperties, HeadTailProperties
<1>2. ASSUME NEW j \in 1..Len(Tail(q)), Tail(q)[j] \in A
      PROVE  \E k \in 1..(j - 1) : Tail(q)[k] \in B
  <2>1. j + 1 \in 1..Len(q) /\ q[j + 1] \in A
    BY <1>1, <1>2
  <2>2. PICK k \in 1..j : q[k] \in B
    BY <2>1 DEF Preceded
  <2>3. k # 1
    BY <1>1, <2>2
  <2>4. k - 1 \in 1..(j - 1) /\ k - 1 \in 1..(Len(q) - 1)
    BY <1>1, <1>2, <2>2, <2>3
  <2>5. Tail(q)[k - 1] = q[k]
    BY <1>1, <2>4
  <2>6. QED
    BY <2>2, <2>4, <2>5
<1>3. QED
  BY <1>2 DEF Preceded

LEMMA PrecededAppend ==
  ASSUME NEW S, NEW q \in Seq(S), NEW x, NEW A, NEW B, Preceded(q, B, A),
         x \notin A \/ Has(q, B)
  PROVE  Preceded(Append(q, x), B, A)
<1>1. /\ Len(q) \in Nat /\ Len(Append(q, x)) = Len(q) + 1
      /\ Append(q, x)[Len(q) + 1] = x
      /\ \A j \in 1..Len(q) : Append(q, x)[j] = q[j]
  BY LenProperties, AppendProperties
<1> HIDE DEF Has, Preceded
<1>2. ASSUME NEW j \in 1..(Len(q) + 1), Append(q, x)[j] \in A
      PROVE  \E k \in 1..(j - 1) : Append(q, x)[k] \in B
  <2>1. CASE j \in 1..Len(q)
    <3>1. PICK k \in 1..(j - 1) : q[k] \in B
      BY <1>1, <1>2, <2>1 DEF Preceded
    <3>2. k \in 1..Len(q)
      BY <1>1, <2>1
    <3>3. QED
      BY <1>1, <3>1, <3>2
  <2>2. CASE j = Len(q) + 1
    <3>1. PICK k \in 1..Len(q) : q[k] \in B
      BY <1>1, <1>2, <2>2 DEF Has
    <3>2. QED
      BY <1>1, <2>2, <3>1
  <2>3. QED
    BY <1>1, <2>1, <2>2
<1>3. QED
  BY <1>1, <1>2 DEF Preceded

LEMMA PrecededPrefix ==
  ASSUME NEW S, NEW q \in Seq(S), NEW n \in 0..Len(q), NEW A, NEW B, Preceded(q, B, A)
  PROVE  Preceded(SubSeq(q, 1, n), B, A)
<1>1. /\ Len(q) \in Nat /\ Len(SubSeq(q, 1, n)) = n
      /\ \A j \in 1..n : SubSeq(q, 1, n)[j] = q[j]
  BY LenProperties, SubSeqProperties
<1>2. ASSUME NEW j \in 1..n, SubSeq(q, 1, n)[j] \in A
      PROVE  \E k \in 1..(j - 1) : SubSeq(q, 1, n)[k] \in B
  <2>1. q[j] \in A /\ j \in 1..Len(q)
    BY <1>1, <1>2
  <2>2. PICK k \in 1..(j - 1) : q[k] \in B
    BY <2>1 DEF Preceded
  <2>3. k \in 1..n
    BY <1>1
  <2>4. QED
    BY <1>1, <2>2, <2>3
<1>3. QED
  BY <1>1, <1>2 DEF Preceded

LEMMA PrecededEmpty ==
  ASSUME NEW A, NEW B
  PROVE  Preceded(<<>>, B, A)
  BY DEF Preceded

LEMMA HasAppend ==
  ASSUME NEW S, NEW q \in Seq(S), NEW x, NEW B, Has(q, B) \/ x \in B
  PROVE  Has(Append(q, x), B)
<1>1. /\ Len(q) \in Nat /\ Len(Append(q, x)) = Len(q) + 1
      /\ Append(q, x)[Len(q) + 1] = x
      /\ \A j \in 1..Len(q) : Append(q, x)[j] = q[j]
  BY LenProperties, AppendProperties
<1>2. CASE x \in B
  BY <1>1, <1>2 DEF Has
<1>3. CASE Has(q, B)
  <2>1. PICK k \in 1..Len(q) : q[k] \in B
    BY <1>3 DEF Has
  <2>2. k \in 1..(Len(q) + 1) /\ Append(q, x)[k] \in B
    BY <1>1, <2>1
  <2>3. QED
    BY <1>1, <2>2 DEF Has
<1>4. QED
  BY <1>2, <1>3

LEMMA HasTail ==
  ASSUME NEW S, NEW q \in Seq(S), q # <<>>, NEW B, Has(q, B), Head(q) \notin B
  PROVE  Has(Tail(q), B)
<1>1. /\ Len(q) \in Nat \ {0} /\ Head(q) = q[1] /\ Len(Tail(q)) = Len(q) - 1
      /\ \A j \in 1..(Len(q) - 1) : Tail(q)[j] = q[j + 1]
  BY LenProperties, HeadTailProperties
<1>2. PICK k \in 1..Len(q) : q[k] \in B
  BY DEF Has
<1>3. k # 1
  BY <1>1, <1>2
<1>4. k - 1 \in 1..Len(Tail(q)) /\ Tail(q)[k - 1] = q[k]
  BY <1>1, <1>3
<1>5. QED
  BY <1>2, <1>4 DEF Has

\* A pair at the end is two single appends.
LEMMA ConcatPair ==
  ASSUME NEW S, NEW q \in Seq(S), NEW x \in S, NEW y \in S
  PROVE  q \o <<x, y>> = Append(Append(q, x), y)
  OBVIOUS

LEMMA ConcatSingle ==
  ASSUME NEW S, NEW q \in Seq(S), NEW x \in S
  PROVE  q \o <<x>> = Append(q, x)
  OBVIOUS

-----------------------------------------------------------------------------
(***************************************************************************)
(* Who is where: an occupant in its room, a sender under its room.         *)
(***************************************************************************)
\* While onConnect may still come, senders may still be created.
Enlisting == pc \in {"start", "connecting", "onConnect", "sending"}

\* A room holds us under a JID of its own.
OccupantsHome == \A r \in Rooms : occupants[r] # NoJID => occupants[r].bare = r

\* A sender is filed under its room, and its MUCRoom is joined until the
\* removal that an error of the room brings about.
SendersFiled == \A b \in Bares : muc_senders[b] # NoJID => muc_senders[b].bare = b
SendersJoined ==
  \A b \in Bares :
    muc_senders[b] # NoJID => b \in joined \/ (pc \in {"remove", "erase"} /\ removing = b)

Homes == OccupantsHome /\ SendersFiled /\ SendersJoined

LEMMA ReadStanza ==
  ASSUME ServiceTypeOK, NEW kind, ServerReads(kind)
  PROVE  /\ up # <<>> /\ up' = Tail(up) /\ up \in Seq(UpStanza)
         /\ Head(up) \in UpStanza /\ Head(up).kind = kind
         /\ Head(up).jid \in JID /\ Head(up).jid.bare \in Bares /\ Head(up).body \in Body
<1>1. Head(up) \in UpStanza /\ up \in Seq(UpStanza)
  BY HeadTailType DEF ServiceTypeOK, ServerReads
<1>2. QED
  BY <1>1 DEF ServerReads, UpStanza, JID

LEMMA OccupantsStay ==
  ASSUME TypeOK, OccupantsHome, ServiceStep
  PROVE  OccupantsHome'
<1> USE ServiceAssumption DEF OccupantsHome
<1>0. occupants \in [Rooms -> JID \cup {NoJID}] /\ ServiceTypeOK
  BY DEF TypeOK, ServiceTypeOK
<1>1. CASE RoomAdmits
  BY <1>0, <1>1 DEF RoomAdmits
<1>2. CASE RoomRenames
  <2>1. PICK nick \in Nicks \ {Head(up).jid.resource} :
          LET given == [Head(up).jid EXCEPT !.resource = nick]
          IN  /\ occupants' = [occupants EXCEPT ![given.bare] = given]
              /\ Answer("presence", given, NoBody)
    BY <1>2 DEF RoomRenames
  <2>2. Head(up).jid \in JID
    BY <1>0, <1>2, ReadStanza DEF RoomRenames
  <2>3. QED
    BY <1>0, <2>1, <2>2 DEF JID
<1>3. CASE RoomReleases
  BY <1>0, <1>3 DEF RoomReleases
<1>4. CASE RoomRefuses \/ RoomIgnores \/ RoomAccepts \/ RoomRelays \/ StanzaRejected \/ UserReceives
  BY <1>4 DEF RoomRefuses, RoomIgnores, RoomAccepts, RoomRelays, StanzaRejected, UserReceives
<1>5. CASE UnsolicitedStep
  BY <1>0, <1>5 DEF UnsolicitedStep, RoomRepeatsPresence, OccupantWrites, RoomKicks, ContactWrites
<1>6. CASE Break
  BY <1>6 DEF Break
<1>7. QED
  BY <1>1, <1>2, <1>3, <1>4, <1>5, <1>6 DEF ServiceStep, ServiceNext, ServerStep

\* What a callback of a room does to senders and thread.
LEMMA RoomCallbackMoves ==
  ASSUME TypeOK, SendersFiled, RoomCallback
  PROVE  LET s == Head(down)
             b == s.jid.bare
         IN  /\ s \in DownStanza /\ b \in Bares /\ HandleMUC(s)
             /\ muc_senders[b] \in JID /\ muc_senders[b].bare = b
             /\ pc = "receiving" /\ UNCHANGED <<muc_senders, occupants, destinations, cursor>>
             /\ \/ UNCHANGED <<joined, reported, pc, removing>>
                \/ pc' = "remove" /\ removing' = b /\ joined \ {b} \subseteq joined'
<1> DEFINE s == Head(down)
           b == s.jid.bare
<1>1. s \in DownStanza
  BY HeadTailType DEF TypeOK, ServiceTypeOK, RoomCallback, Dispatch
<1>2. b \in Bares
  BY <1>1 DEF DownStanza, JID
<1>3. HandleMUC(s) /\ muc_senders[b] \in JID /\ muc_senders[b].bare = b
  BY <1>2 DEF RoomCallback, Live, SendersFiled, TypeOK, SenderTypeOK
<1>4. pc = "receiving" /\ UNCHANGED <<occupants, destinations, cursor>>
  BY DEF RoomCallback, Dispatch
<1> HIDE DEF s
<1>5. /\ UNCHANGED muc_senders
      /\ \/ UNCHANGED <<joined, reported, pc, removing>>
         \/ pc' = "remove" /\ removing' = b /\ joined \ {b} \subseteq joined'
  BY <1>3 DEF HandleMUC, HandleOwnPresence, HandleOtherPresence, HandleMUCError,
     HandleStopMessage, HandleOtherMessage, CallRemoveMucSender, senderVars
<1>6. QED
  BY <1>1, <1>2, <1>3, <1>4, <1>5 DEF s

\* Where onConnect stands, and the JID it sends to.
LEMMA RoomDestination ==
  ASSUME TypeOK, SendToRoom
  PROVE  LET nick == WithNick(destinations[cursor].jid)
         IN  /\ nick \in JID /\ nick.bare \in Bares /\ nick # NoJID
             /\ nick.bare = destinations[cursor].jid.bare
<1>1. destinations[cursor].jid \in JID
  BY DestinationJid DEF SendToRoom, NextDestination
<1>2. QED
  BY <1>1, WithNickType, ServiceAssumption DEF WithNick, JID

LEMMA SendToRoomMoves ==
  ASSUME TypeOK, SendToRoom
  PROVE  LET nick == WithNick(destinations[cursor].jid)
         IN  \/ /\ muc_senders[nick.bare] # NoJID
                /\ UNCHANGED <<muc_senders, joined, up, streamVars>>
             \/ /\ muc_senders[nick.bare] = NoJID
                /\ muc_senders' = [muc_senders EXCEPT ![nick.bare] = nick]
                /\ joined' = joined \cup {nick.bare}
                /\ Write(<<Stanza("join", nick, NoBody)>>)
  BY DEF SendToRoom, StartSender

LEMMA SendersStay ==
  ASSUME TypeOK, SendersFiled, SendersJoined, [Next]_vars
  PROVE  SendersFiled' /\ SendersJoined'
<1> USE DEF SendersFiled, SendersJoined
<1>0. muc_senders \in [Bares -> JID \cup {NoJID}]
  BY DEF TypeOK, SenderTypeOK
<1>1. CASE SendToRoom
  <2> DEFINE nick == WithNick(destinations[cursor].jid)
  <2>1. nick \in JID /\ nick.bare \in Bares /\ UNCHANGED <<pc, removing>>
    BY <1>1, RoomDestination DEF SendToRoom, NextDestination
  <2>2. \/ UNCHANGED <<muc_senders, joined>>
        \/ /\ muc_senders' = [muc_senders EXCEPT ![nick.bare] = nick]
           /\ joined' = joined \cup {nick.bare}
    BY <1>1, SendToRoomMoves
  <2> HIDE DEF nick
  <2>3. QED
    BY <1>0, <2>1, <2>2
<1>2. CASE RoomCallback
  BY <1>0, <1>2, RoomCallbackMoves
<1>3. CASE EraseSender
  <2>1. /\ muc_senders' = [muc_senders EXCEPT ![removing] = NoJID]
        /\ joined' = joined \ {removing}
        /\ pc = "erase" /\ pc' = "lastCheck"
    BY <1>3 DEF EraseSender, DestroySender, GoTo
  <2>2. QED
    BY <1>0, <2>1
<1>4. CASE Destroy
  BY <1>4 DEF Destroy
<1>5. CASE \/ Start \/ ConnectDeclined \/ ConnectFails \/ Connected \/ OnConnect \/ SendTo
           \/ OnConnectDone \/ StreamLost \/ StartReturns \/ ServiceStep \/ Exited
           \/ UNCHANGED vars
  <2>1. /\ UNCHANGED <<muc_senders, joined, removing>>
        /\ pc \in {"remove", "erase"} => pc' = pc
    BY <1>5 DEF Start, ConnectDeclined, ConnectFails, Connected, OnConnect, SendTo, NextDestination,
       OnConnectDone, StreamLost, StartReturns, ServiceStep, Exited, GoTo, vars, senderVars,
       controlVars
  <2>2. QED
    BY <2>1
<1>6. CASE HandleMessage \/ UnhandledPresence \/ LockForRemoval \/ DisconnectIfLast
  <2>1. /\ UNCHANGED <<muc_senders, joined>>
        /\ \/ pc \notin {"remove", "erase"}
           \/ pc' \in {"remove", "erase"} /\ UNCHANGED removing
    BY <1>6 DEF HandleMessage, UnhandledPresence, Dispatch, LockForRemoval, DisconnectIfLast,
       GoTo, senderVars
  <2>2. QED
    BY <2>1
<1>7. QED
  BY <1>1, <1>2, <1>3, <1>4, <1>5, <1>6 DEF Next, ClientNext

LEMMA HomesStay ==
  ASSUME TypeOK, Homes, [Next]_vars
  PROVE  Homes'
<1>1. SendersFiled' /\ SendersJoined'
  BY SendersStay DEF Homes
<1>2. OccupantsHome'
  <2>1. CASE ServiceStep
    BY <2>1, OccupantsStay DEF Homes
  <2>2. CASE UNCHANGED occupants
    BY <2>2 DEF Homes, OccupantsHome
  <2>3. QED
    BY <2>1, <2>2 DEF Next, ClientNext, Start, ConnectDeclined, ConnectFails, Connected, OnConnect,
       SendTo, SendToRoom, NextDestination, OnConnectDone, RoomCallback, HandleMessage,
       UnhandledPresence, Dispatch, LockForRemoval, EraseSender, DisconnectIfLast, StreamLost,
       StartReturns, Destroy, Exited, ServiceKept, vars, serviceVars
<1>3. QED
  BY <1>1, <1>2 DEF Homes

LEMMA InitHomes == Init => Homes
  BY DEF Init, ServiceInit, SenderInit, Homes, OccupantsHome, SendersFiled, SendersJoined

\* Once onConnect is over no sender is created.
LEMMA SendersOnlyLeave ==
  ASSUME TypeOK, [Next]_vars, ~Enlisting
  PROVE  ~Enlisting' /\ \A b \in Bares : muc_senders[b] = NoJID => muc_senders'[b] = NoJID
<1> USE DEF Enlisting
<1>1. CASE RoomCallback \/ HandleMessage \/ UnhandledPresence
  BY <1>1 DEF RoomCallback, HandleMUC, HandleOwnPresence, HandleOtherPresence, HandleMUCError,
     HandleStopMessage, HandleOtherMessage, HandleMessage, UnhandledPresence, Dispatch,
     CallRemoveMucSender, senderVars
<1>2. CASE \/ LockForRemoval \/ DisconnectIfLast \/ StreamLost \/ StartReturns
           \/ ServiceStep \/ Exited \/ UNCHANGED vars
  BY <1>2 DEF LockForRemoval, DisconnectIfLast, StreamLost, StartReturns, ServiceStep, Exited, GoTo,
     vars, senderVars, controlVars
<1>3. CASE EraseSender \/ Destroy
  BY <1>3 DEF EraseSender, Destroy, GoTo, TypeOK, SenderTypeOK
<1>4. ~ (\/ Start \/ ConnectDeclined \/ ConnectFails \/ Connected \/ OnConnect \/ SendTo
         \/ SendToRoom \/ OnConnectDone)
  BY DEF Start, ConnectDeclined, ConnectFails, Connected, OnConnect, SendTo, SendToRoom,
     NextDestination, OnConnectDone, GoTo
<1>5. QED
  BY <1>1, <1>2, <1>3, <1>4 DEF Next, ClientNext

-----------------------------------------------------------------------------
(***************************************************************************)
(* What exit code 0 promises.                                              *)
(***************************************************************************)

\* Nobody else's text can pass for the 'stop' message of a room we have not
\* written to: other occupants write it, if at all, only where no room
\* renames us; contacts only where no contact was given as a chat room.
HarmlessImpostors ==
  /\ "chatter" \in Unsolicited => "rename" \notin JoinReplies
  /\ "contact" \in Unsolicited =>
       \A list \in DestinationLists : \A i \in 1..Len(list) :
         list[i].type = "Groupchat" => list[i].jid.bare \in Rooms

\* Those who may write to us without having got anything: contacts, and
\* rooms in the name of their occupants.
Strangers == IF "contact" \in Unsolicited THEN Users ELSE {}
Impostors == IF "chatter" \in Unsolicited THEN Rooms ELSE {}

\* The text has been handed to an open stream for b, or nobody waits for b.
Earned(b) == written[b] > 0 \/ b \in Strangers

\* Somebody waits for b, or may yet.
Awaited(b) == muc_senders[b] # NoJID \/ Enlisting

\* The sender of b may go: exit code 0 says nothing false about b.
Covered(b) == Earned(b) \/ b \in reported \/ result # NoError \/ ~Awaited(b)

-----------------------------------------------------------------------------
(***************************************************************************)
(* The invariant, in three parts: who is written to, waited for and heard  *)
(* of (Traffic), in which order a room with impostors is heard of (Heard), *)
(* and how the exit code accounts for it (Account).                        *)
(***************************************************************************)
\* A sender is filed under its room, and its room was asked for.
SendersHome ==
  \A b \in Bares :
    muc_senders[b] # NoJID =>
      /\ muc_senders[b].bare = b
      /\ b \in Owed
      /\ b \notin Strangers

\* Messages are under way only for those who have been written to, but for
\* what impostors write.
EarnedUp == {s \in UpStanza : s.kind \in {"groupchat", "chat"} => written[s.jid.bare] > 0}
EarnedDown == {s \in DownStanza : s.kind \in {"message", "messageError"} =>
                                        Earned(s.jid.bare) \/ s.jid.bare \in Impostors}
MessagesEarned == up \in Seq(EarnedUp) /\ down \in Seq(EarnedDown)

\* A sender is taken out only when its room has been written to or reported,
\* or the failure of the stream has been recorded.
RemovalEarned == pc \in {"remove", "erase"} => removing \in Bares /\ Covered(removing)

DestinationsGiven == destinations \in DestinationLists

Traffic ==
  OccupantsHome /\ SendersHome /\ MessagesEarned /\ RemovalEarned /\ DestinationsGiven

\* Where no room renames us, a room we wait for knows us under the JID of its
\* sender and no other.
OurJoins ==
  {s \in UpStanza : s.kind = "join" /\ Awaited(s.jid.bare) => s.jid = muc_senders[s.jid.bare]}
OurPresences ==
  {s \in DownStanza : s.kind = "presence" /\ Awaited(s.jid.bare) => s.jid = muc_senders[s.jid.bare]}
OurOccupants ==
  \A r \in Rooms : occupants[r] # NoJID /\ Awaited(r) => occupants[r] = muc_senders[r]
UnderOurName == up \in Seq(OurJoins) /\ down \in Seq(OurPresences) /\ OurOccupants

\* A room shows us what its occupants write only once it has let us in: until
\* the text has been posted, its messages come behind our own presence.
Presences(b) == {s \in DownStanza : s.kind = "presence" /\ s.jid.bare = b}
Messages(b) == {s \in DownStanza : s.kind \in {"message", "messageError"} /\ s.jid.bare = b}
Behind(b) ==
  /\ Preceded(down, Presences(b), Messages(b))
  /\ broken \/ occupants[b] = NoJID \/ Has(down, Presences(b))
PresenceFirst == \A b \in Rooms : Covered(b) \/ Behind(b)

Heard ==
  /\ SendersJoined
  /\ "chatter" \in Unsolicited => UnderOurName /\ PresenceFirst

\* What onConnect has been through is sent, reported, waited for, or failed.
DestinationsHandled ==
  \A i \in 1..Len(destinations) :
    i < cursor =>
      \/ destinations[i].jid.bare \in Settled
      \/ muc_senders[destinations[i].jid.bare] # NoJID
      \/ result # NoError

\* While onConnect runs, a stream that is gone has left its failure behind.
SessionWhileSending == pc \in {"onConnect", "sending"} => conn = "connected" \/ result # NoError

SuccessIsComplete ==
  conn = "closed" /\ result = NoError => NoSenders /\ cursor > Len(destinations)

NothingBeforeSession ==
  conn = "idle" => cursor = 1 /\ Settled = {} /\ NoSenders

Account ==
  DestinationsHandled /\ SessionWhileSending /\ SuccessIsComplete /\ NothingBeforeSession

PInv == IInv /\ Traffic /\ Heard /\ Account

-----------------------------------------------------------------------------
(***************************************************************************)
(* What no step takes back: the account of a JID, and a failure.           *)
(***************************************************************************)
Kept ==
  /\ destinations' = destinations
  /\ reported \subseteq reported'
  /\ \A b \in Bares : written[b] > 0 => written'[b] > 0
  /\ result # NoError => result' # NoError

LEMMA StreamOpsKeepFailure ==
  ASSUME result # NoError,
         \/ \E stanzas : Write(stanzas)
         \/ Disconnect
         \/ UNCHANGED result
  PROVE  result' # NoError
  BY StreamAssumption DEF Write, Disconnect, OnDisconnect

LEMMA CountWrittenKeeps ==
  ASSUME SenderTypeOK, NEW c \in Bares, CountWritten(c) \/ UNCHANGED written,
         NEW b \in Bares, written[b] > 0
  PROVE  written'[b] > 0
<1>1. written \in [Bares -> Nat] /\ written[b] \in Nat
  BY DEF SenderTypeOK
<1>2. CASE UNCHANGED written
  BY <1>2
<1>3. CASE written' = [written EXCEPT ![c] = @ + 1]
  BY <1>1, <1>3
<1>4. QED
  BY <1>2, <1>3 DEF CountWritten

LEMMA WritingKeeps ==
  ASSUME TypeOK, SendTo \/ SendToRoom \/ RoomCallback
  PROVE  Kept
<1>1. destinations' = destinations /\ reported \subseteq reported'
  BY DEF SendTo, SendToRoom, NextDestination, RoomCallback, Dispatch, HandleMUC,
         HandleOwnPresence, HandleOtherPresence, HandleMUCError, HandleStopMessage,
         HandleOtherMessage, senderVars
<1>2. (\E stanzas : Write(stanzas)) \/ UNCHANGED result
  BY DEF SendTo, SendToRoom, StartSender, RoomCallback, HandleMUC,
         HandleOwnPresence, HandleOtherPresence, HandleMUCError, HandleStopMessage,
         HandleOtherMessage, streamVars
<1>3. \E c \in Bares : CountWritten(c) \/ UNCHANGED written
  <2>1. CASE SendTo
    <3>1. destinations[cursor].jid.bare \in Bares
      BY <2>1, DestinationJid DEF SendTo, NextDestination, JID
    <3>2. QED
      BY <2>1, <3>1 DEF SendTo
  <2>2. CASE SendToRoom
    <3>1. WithNick(destinations[cursor].jid).bare \in Bares
      BY <2>2, DestinationJid, WithNickType DEF SendToRoom, NextDestination, JID
    <3>2. QED
      BY <2>2, <3>1 DEF SendToRoom
  <2>3. CASE RoomCallback
    <3>1. Head(down) \in DownStanza
      BY <2>3, HeadTailType DEF TypeOK, ServiceTypeOK, RoomCallback, Dispatch
    <3>2. Head(down).jid.bare \in Bares
      BY <3>1 DEF DownStanza, JID
    <3>3. QED
      BY <2>3, <3>2 DEF RoomCallback, HandleMUC, HandleOwnPresence, HandleOtherPresence,
         HandleMUCError, HandleStopMessage, HandleOtherMessage, senderVars
  <2>4. QED
    BY <2>1, <2>2, <2>3
<1>4. \A b \in Bares : written[b] > 0 => written'[b] > 0
  BY <1>3, CountWrittenKeeps DEF TypeOK
<1>5. QED
  BY <1>1, <1>2, <1>4, StreamOpsKeepFailure DEF Kept

LEMMA SilentKeeps ==
  ASSUME \/ Start \/ ConnectDeclined \/ ConnectFails \/ Connected
         \/ OnConnect \/ OnConnectDone \/ HandleMessage \/ UnhandledPresence
         \/ LockForRemoval \/ EraseSender \/ DisconnectIfLast
         \/ StreamLost \/ StartReturns \/ Destroy
         \/ ServiceStep \/ Exited \/ UNCHANGED vars
  PROVE  Kept
<1>1. UNCHANGED <<destinations, reported, written>>
  BY DEF Start, ConnectDeclined, ConnectFails, Connected, OnConnect, OnConnectDone,
         HandleMessage, UnhandledPresence, Dispatch, LockForRemoval, EraseSender,
         DisconnectIfLast, StreamLost, StartReturns, Destroy, ServiceStep, Exited,
         vars, senderVars, controlVars
<1>2. \/ \E stanzas : Write(stanzas)
      \/ Disconnect
      \/ UNCHANGED result
      \/ \E e \in Failures : OnDisconnect(e)
  BY DEF Start, ConnectDeclined, ConnectFails, Connected, Establish, OnConnect, OnConnectDone,
         HandleMessage, UnhandledPresence, LockForRemoval, EraseSender, DestroySender,
         DisconnectIfLast, StreamLost, Lose, StartReturns, Destroy, ServiceStep, Exited,
         vars, streamVars
<1>3. result # NoError => result' # NoError
  BY <1>2, StreamOpsKeepFailure, StreamAssumption DEF OnDisconnect
<1>4. QED
  BY <1>1, <1>3 DEF Kept

LEMMA StepKeeps ==
  ASSUME TypeOK, [Next]_vars
  PROVE  Kept
  BY WritingKeeps, SilentKeeps DEF Next, ClientNext

LEMMA SeqMonotone ==
  ASSUME NEW S, NEW T, S \subseteq T, NEW q \in Seq(S)
  PROVE  q \in Seq(T)
  BY SeqDef

LEMMA EarnedKept ==
  ASSUME Kept, NEW b \in Bares, Earned(b)
  PROVE  Earned(b)'
  BY DEF Kept, Earned, Strangers

LEMMA CoveredKept ==
  ASSUME TypeOK, Kept, [Next]_vars, NEW b \in Bares, Covered(b)
  PROVE  Covered(b)'
<1>1. CASE Earned(b) \/ b \in reported \/ result # NoError
  BY <1>1, EarnedKept DEF Kept, Covered
<1>2. CASE ~Awaited(b)
  BY <1>2, SendersOnlyLeave DEF Awaited, Covered
<1>3. QED
  BY <1>1, <1>2 DEF Covered

LEMMA QueuesKept ==
  ASSUME Kept, MessagesEarned
  PROVE  up \in Seq(EarnedUp') /\ down \in Seq(EarnedDown')
<1>1. EarnedUp \subseteq EarnedUp'
  BY DEF EarnedUp, Kept, UpStanza, JID
<1>2. EarnedDown \subseteq EarnedDown'
  BY EarnedKept DEF EarnedDown, DownStanza, JID
<1>3. QED
  BY <1>1, <1>2, SeqMonotone DEF MessagesEarned

-----------------------------------------------------------------------------
(***************************************************************************)
(* Traffic: the service answers only what it has got.                      *)
(***************************************************************************)
LEMMA HeadEarned ==
  ASSUME TypeOK, Traffic, NEW kind, ServerReads(kind)
  PROVE  /\ up' \in Seq(EarnedUp)
         /\ Head(up).jid \in JID /\ Head(up).jid.bare \in Bares /\ Head(up).body \in Body
         /\ kind \in {"groupchat", "chat"} => Earned(Head(up).jid.bare)
<1>1. Head(up) \in EarnedUp /\ up' \in Seq(EarnedUp)
  BY HeadTailType DEF Traffic, MessagesEarned, ServerReads
<1>2. Head(up) \in UpStanza /\ Head(up).kind = kind
  BY <1>1 DEF EarnedUp, ServerReads
<1>3. QED
  BY <1>1, <1>2 DEF EarnedUp, Earned, UpStanza, JID

LEMMA AnswerEarned ==
  ASSUME Traffic,
         NEW kind \in DownKind, NEW jid \in JID, NEW body \in Body,
         kind \in {"message", "messageError"} => Earned(jid.bare) \/ jid.bare \in Impostors,
         Answer(kind, jid, body)
  PROVE  down' \in Seq(EarnedDown)
<1>1. Stanza(kind, jid, body) \in EarnedDown
  BY DownStanzaType DEF EarnedDown, Stanza
<1>2. QED
  BY <1>1, AppendType DEF Answer, Traffic, MessagesEarned

LEMMA ServerStepTraffic ==
  ASSUME TypeOK, Traffic, ServerStep
  PROVE  OccupantsHome' /\ up' \in Seq(EarnedUp) /\ down' \in Seq(EarnedDown)
<1> USE ServiceAssumption DEF OccupantsHome
<1>0. OccupantsHome /\ down \in Seq(EarnedDown) /\ occupants \in [Rooms -> JID \cup {NoJID}]
  BY DEF Traffic, MessagesEarned, TypeOK, ServiceTypeOK
<1>1. CASE RoomAdmits
  <2>1. Head(up).jid \in JID /\ up' \in Seq(EarnedUp)
    BY <1>1, HeadEarned DEF RoomAdmits
  <2>2. down' \in Seq(EarnedDown)
    BY <1>1, <2>1, AnswerEarned DEF RoomAdmits, DownKind, Body
  <2>3. QED
    BY <1>0, <1>1, <2>1, <2>2 DEF RoomAdmits
<1>2. CASE RoomRenames
  <2>1. PICK nick \in Nicks \ {Head(up).jid.resource} :
          LET given == [Head(up).jid EXCEPT !.resource = nick]
          IN  /\ occupants' = [occupants EXCEPT ![given.bare] = given]
              /\ Answer("presence", given, NoBody)
    BY <1>2 DEF RoomRenames
  <2> DEFINE given == [Head(up).jid EXCEPT !.resource = nick]
  <2>2. Head(up).jid \in JID /\ up' \in Seq(EarnedUp)
    BY <1>2, HeadEarned DEF RoomRenames
  <2>3. given \in JID
    BY <2>2 DEF JID
  <2> HIDE DEF given
  <2>4. down' \in Seq(EarnedDown)
    BY <2>1, <2>3, AnswerEarned DEF given, DownKind, Body
  <2>5. OccupantsHome'
    BY <1>0, <2>1 DEF given
  <2>6. QED
    BY <2>2, <2>4, <2>5
<1>3. CASE RoomRefuses
  <2>1. Head(up).jid \in JID /\ up' \in Seq(EarnedUp)
    BY <1>3, HeadEarned DEF RoomRefuses
  <2>2. down' \in Seq(EarnedDown)
    BY <1>3, <2>1, AnswerEarned DEF RoomRefuses, DownKind, Body
  <2>3. QED
    BY <1>0, <1>3, <2>1, <2>2 DEF RoomRefuses
<1>4. CASE RoomIgnores
  BY <1>0, <1>4, HeadEarned DEF RoomIgnores
<1>5. CASE RoomAccepts
  <2> DEFINE r == Head(up).jid.bare
  <2>1. Head(up).body \in Body /\ up' \in Seq(EarnedUp) /\ Earned(r)
    BY <1>5, HeadEarned DEF RoomAccepts
  <2>2. occupants[r] \in JID /\ occupants[r].bare = r
    BY <1>0, <1>5 DEF RoomAccepts
  <2>3. down' \in Seq(EarnedDown)
    BY <1>5, <2>1, <2>2, AnswerEarned DEF RoomAccepts, DownKind
  <2>4. QED
    BY <1>0, <1>5, <2>1, <2>3 DEF RoomAccepts
<1>6. CASE RoomRelays
  <2>1. /\ Head(up).jid \in JID /\ Head(up).body \in Body /\ up' \in Seq(EarnedUp)
        /\ Earned(Head(up).jid.bare)
    BY <1>6, HeadEarned DEF RoomRelays
  <2>2. down' \in Seq(EarnedDown)
    BY <1>6, <2>1, AnswerEarned DEF RoomRelays, DownKind
  <2>3. QED
    BY <1>0, <1>6, <2>1, <2>2 DEF RoomRelays
<1>7. CASE StanzaRejected
  <2>1. /\ Head(up).jid \in JID /\ Head(up).body \in Body /\ up' \in Seq(EarnedUp)
        /\ Earned(Head(up).jid.bare)
    BY <1>7, HeadEarned DEF StanzaRejected
  <2>2. down' \in Seq(EarnedDown)
    BY <1>7, <2>1, AnswerEarned DEF StanzaRejected, DownKind
  <2>3. QED
    BY <1>0, <1>7, <2>1, <2>2 DEF StanzaRejected
<1>8. CASE UserReceives
  BY <1>0, <1>8, HeadEarned DEF UserReceives
<1>9. CASE RoomReleases
  <2>1. Head(up).jid \in JID /\ up' \in Seq(EarnedUp)
    BY <1>9, HeadEarned DEF RoomReleases
  <2>2. down' \in Seq(EarnedDown)
    BY <1>9, <2>1, AnswerEarned DEF RoomReleases, DownKind, Body
  <2>3. QED
    BY <1>0, <1>9, <2>1, <2>2 DEF RoomReleases
<1>10. QED
  BY <1>1, <1>2, <1>3, <1>4, <1>5, <1>6, <1>7, <1>8, <1>9 DEF ServerStep

LEMMA UnsolicitedTraffic ==
  ASSUME TypeOK, Traffic, HarmlessImpostors, UnsolicitedStep
  PROVE  OccupantsHome' /\ up' \in Seq(EarnedUp) /\ down' \in Seq(EarnedDown)
<1> USE ServiceAssumption DEF OccupantsHome
<1>0. /\ OccupantsHome /\ up \in Seq(EarnedUp) /\ down \in Seq(EarnedDown)
      /\ occupants \in [Rooms -> JID \cup {NoJID}]
  BY DEF Traffic, MessagesEarned, TypeOK, ServiceTypeOK
<1>1. ASSUME NEW r \in Rooms, RoomRepeatsPresence(r)
      PROVE  OccupantsHome' /\ up' \in Seq(EarnedUp) /\ down' \in Seq(EarnedDown)
  <2>1. occupants[r] \in JID
    BY <1>0, <1>1 DEF RoomRepeatsPresence
  <2>2. down' \in Seq(EarnedDown)
    BY <1>1, <2>1, AnswerEarned DEF RoomRepeatsPresence, DownKind, Body
  <2>3. QED
    BY <1>0, <1>1, <2>2 DEF RoomRepeatsPresence
<1>2. ASSUME NEW r \in Rooms, OccupantWrites(r)
      PROVE  OccupantsHome' /\ up' \in Seq(EarnedUp) /\ down' \in Seq(EarnedDown)
  <2>1. PICK nick \in Nicks \ {occupants[r].resource} :
          Answer("message", [bare |-> r, resource |-> nick], Resource)
    BY <1>2 DEF OccupantWrites
  <2> DEFINE jid == [bare |-> r, resource |-> nick]
  <2>2. jid \in JID /\ jid.bare \in Impostors
    BY <1>2 DEF JID, Bares, Impostors, OccupantWrites, SpendUnsolicited
  <2> HIDE DEF jid
  <2>3. down' \in Seq(EarnedDown)
    BY <2>1, <2>2, AnswerEarned DEF jid, DownKind, Body
  <2>4. QED
    BY <1>0, <1>2, <2>3 DEF OccupantWrites
<1>3. ASSUME NEW r \in Rooms, RoomKicks(r)
      PROVE  OccupantsHome' /\ up' \in Seq(EarnedUp) /\ down' \in Seq(EarnedDown)
  <2>1. occupants[r] \in JID
    BY <1>0, <1>3 DEF RoomKicks
  <2>2. down' \in Seq(EarnedDown)
    BY <1>3, <2>1, AnswerEarned DEF RoomKicks, DownKind, Body
  <2>3. QED
    BY <1>0, <1>3, <2>2 DEF RoomKicks
<1>4. ASSUME NEW u \in Users, ContactWrites(u)
      PROVE  OccupantsHome' /\ up' \in Seq(EarnedUp) /\ down' \in Seq(EarnedDown)
  <2>1. PICK text \in {Message, Resource} :
          Answer("message", [bare |-> u, resource |-> NoResource], text)
    BY <1>4 DEF ContactWrites
  <2> DEFINE jid == [bare |-> u, resource |-> NoResource]
  <2>2. jid \in JID /\ Earned(jid.bare)
    BY <1>4 DEF JID, Bares, Earned, Strangers, ContactWrites, SpendUnsolicited
  <2> HIDE DEF jid
  <2>3. down' \in Seq(EarnedDown)
    BY <2>1, <2>2, AnswerEarned DEF jid, DownKind, Body
  <2>4. QED
    BY <1>0, <1>4, <2>3 DEF ContactWrites
<1>5. QED
  BY <1>1, <1>2, <1>3, <1>4 DEF UnsolicitedStep

LEMMA BreakTraffic ==
  ASSUME TypeOK, Traffic, Break
  PROVE  OccupantsHome' /\ up' \in Seq(EarnedUp) /\ down' \in Seq(EarnedDown)
<1>1. down \in Seq(EarnedDown) /\ OccupantsHome
  BY DEF Traffic, MessagesEarned
<1>2. PICK n \in 0..Len(down) : down' = SubSeq(down, 1, n)
  BY DEF Break
<1>3. down' \in Seq(EarnedDown)
  BY <1>1, <1>2
<1>4. QED
  BY <1>1, <1>3, EmptySeq DEF Break, OccupantsHome

LEMMA ServiceTraffic ==
  ASSUME TypeOK, Traffic, HarmlessImpostors, ServiceStep
  PROVE  Traffic'
<1>1. OccupantsHome' /\ up' \in Seq(EarnedUp) /\ down' \in Seq(EarnedDown)
  BY ServerStepTraffic, UnsolicitedTraffic, BreakTraffic DEF ServiceStep, ServiceNext
<1>2. UNCHANGED <<senderVars, controlVars>>
  BY DEF ServiceStep
<1>3. MessagesEarned'
  BY <1>1, <1>2 DEF MessagesEarned, EarnedUp, EarnedDown, Earned, Strangers, senderVars
<1>4. SendersHome' /\ RemovalEarned' /\ DestinationsGiven'
  BY <1>2 DEF Traffic, SendersHome, Owed, Strangers, RemovalEarned, Covered, Awaited, Enlisting,
              Earned, DestinationsGiven, ServiceStep, streamVars, senderVars, controlVars
<1>5. QED
  BY <1>1, <1>3, <1>4 DEF Traffic

-----------------------------------------------------------------------------
(***************************************************************************)
(* Traffic: the client writes texts only together with their account.      *)
(***************************************************************************)
LEMMA WriteEarned ==
  ASSUME NEW S, up \in Seq(S), NEW stanzas, Write(stanzas),
         conn = "connected" /\ conn' = "connected" => stanzas \in Seq(S)
  PROVE  up' \in Seq(S)
<1>1. CASE up' = up \o stanzas /\ conn = "connected" /\ conn' = "connected"
  BY <1>1, ConcatProperties
<1>2. CASE up' = up
  BY <1>2
<1>3. QED
  BY <1>1, <1>2 DEF Write

\* Steps that leave senders and queues alone and go to no removal.
LEMMA QuietTraffic ==
  ASSUME Traffic, UNCHANGED <<up, down, occupants, senderVars, destinations>>,
         pc' \notin {"remove", "erase"}
  PROVE  Traffic'
  BY DEF Traffic, OccupantsHome, SendersHome, Owed, MessagesEarned, EarnedUp, EarnedDown,
         Earned, Strangers, RemovalEarned, DestinationsGiven, senderVars

LEMMA ConnectingTraffic ==
  ASSUME Traffic, Start \/ ConnectDeclined \/ ConnectFails \/ Connected \/ OnConnectDone
  PROVE  Traffic'
<1>1. UNCHANGED <<up, down, occupants, senderVars, destinations>>
  BY DEF Start, ConnectDeclined, ConnectFails, Connected, OnConnectDone, ServiceKept, serviceVars
<1>2. pc' \notin {"remove", "erase"}
  BY DEF Start, ConnectDeclined, ConnectFails, Connected, OnConnectDone, GoTo
<1>3. QED
  BY <1>1, <1>2, QuietTraffic

\* The parts of Traffic that are not about the queues, for a step that
\* leaves muc_senders alone.
LEMMA SendersHomeKept ==
  ASSUME Traffic, Kept, UNCHANGED muc_senders
  PROVE  SendersHome' /\ DestinationsGiven'
  BY DEF Traffic, Kept, SendersHome, Owed, Strangers, DestinationsGiven

LEMMA OnConnectTraffic ==
  ASSUME TypeOK, Traffic, Kept, OnConnect
  PROVE  Traffic'
<1>1. up' \in Seq(EarnedUp) /\ UNCHANGED <<down, occupants, senderVars>>
  BY WriteEarned, EmptySeq DEF OnConnect, ServiceKept, Traffic, MessagesEarned
<1>2. MessagesEarned'
  BY <1>1 DEF Traffic, MessagesEarned, EarnedUp, EarnedDown, Earned, Strangers, senderVars
<1>3. SendersHome' /\ DestinationsGiven'
  BY <1>1, SendersHomeKept DEF senderVars
<1>4. OccupantsHome' /\ RemovalEarned'
  BY <1>1 DEF Traffic, OccupantsHome, RemovalEarned, OnConnect, GoTo
<1>5. QED
  BY <1>2, <1>3, <1>4 DEF Traffic

LEMMA CountedIsWritten ==
  ASSUME SenderTypeOK, NEW b \in Bares, CountWritten(b),
         conn = "connected", conn' = "connected"
  PROVE  written'[b] > 0
  BY DEF SenderTypeOK, CountWritten

LEMMA SendToTraffic ==
  ASSUME TypeOK, Traffic, Kept, SendTo
  PROVE  Traffic'
<1> DEFINE jid == destinations[cursor].jid
<1>1. jid \in JID /\ jid.bare \in Bares
  BY DestinationJid DEF SendTo, NextDestination, JID
<1>2. ASSUME conn = "connected", conn' = "connected"
      PROVE  <<Stanza("chat", jid, Message)>> \in Seq(EarnedUp')
  <2>1. written'[jid.bare] > 0
    BY <1>1, <1>2, CountedIsWritten DEF SendTo, TypeOK
  <2>2. Stanza("chat", jid, Message) \in UpStanza
    BY <1>1, UpStanzaType DEF UpKind, Body
  <2>3. Stanza("chat", jid, Message) \in EarnedUp'
    BY <2>1, <2>2 DEF EarnedUp, Stanza
  <2> HIDE DEF jid
  <2>4. QED
    BY <2>3
<1>3. up' \in Seq(EarnedUp')
  BY <1>2, QueuesKept, WriteEarned DEF SendTo, Traffic
<1>4. MessagesEarned'
  BY <1>3, QueuesKept DEF MessagesEarned, Traffic, SendTo, NextDestination, ServiceKept
<1>5. SendersHome' /\ DestinationsGiven'
  BY SendersHomeKept DEF SendTo
<1>6. OccupantsHome' /\ RemovalEarned'
  BY DEF Traffic, OccupantsHome, RemovalEarned, SendTo, NextDestination, ServiceKept
<1>7. QED
  BY <1>4, <1>5, <1>6 DEF Traffic

\* A room that is given as a destination belongs to no stranger.
LEMMA NoStrangersRoom ==
  ASSUME TypeOK, Traffic, HarmlessImpostors, cursor <= Len(destinations),
         destinations[cursor].type = "Groupchat"
  PROVE  /\ destinations[cursor].jid.bare \in Owed
         /\ destinations[cursor].jid.bare \notin Strangers
<1>1. cursor \in 1..Len(destinations)
  BY LenProperties DEF TypeOK
<1>2. QED
  BY <1>1, ServiceAssumption DEF Owed, Strangers, HarmlessImpostors, Traffic, DestinationsGiven

LEMMA SendToRoomTraffic ==
  ASSUME TypeOK, Traffic, Kept, HarmlessImpostors, SendToRoom
  PROVE  Traffic'
<1> DEFINE nick == WithNick(destinations[cursor].jid)
<1>1. nick \in JID /\ nick.bare \in Bares /\ nick.bare = destinations[cursor].jid.bare
  <2>1. destinations[cursor].jid \in JID
    BY DestinationJid DEF SendToRoom, NextDestination
  <2>2. nick \in JID
    BY <2>1, WithNickType
  <2>3. QED
    BY <2>1, <2>2 DEF JID, WithNick
<1>2. nick.bare \in Owed /\ nick.bare \notin Strangers
  BY <1>1, NoStrangersRoom DEF SendToRoom, NextDestination
<1>3. Stanza("join", nick, NoBody) \in EarnedUp'
  BY <1>1, UpStanzaType DEF UpKind, Body, EarnedUp, Stanza
<1> HIDE DEF nick
<1>4. <<Stanza("join", nick, NoBody)>> \in Seq(EarnedUp')
  BY <1>3
<1>5. up' \in Seq(EarnedUp') /\ SendersHome'
  <2>0. SendersHome /\ UNCHANGED <<Owed, Strangers>> /\ muc_senders \in [Bares -> JID \cup {NoJID}]
    BY DEF Traffic, Owed, Strangers, Kept, TypeOK, SenderTypeOK
  <2>1. CASE muc_senders[nick.bare] = NoJID
    <3>1. /\ muc_senders' = [muc_senders EXCEPT ![nick.bare] = nick]
          /\ Write(<<Stanza("join", nick, NoBody)>>)
      BY <2>1 DEF SendToRoom, StartSender, nick
    <3>2. up' \in Seq(EarnedUp')
      BY <1>4, <3>1, QueuesKept, WriteEarned DEF Traffic
    <3>3. SendersHome'
      BY <1>1, <1>2, <2>0, <3>1 DEF SendersHome
    <3>4. QED
      BY <3>2, <3>3
  <2>2. CASE muc_senders[nick.bare] # NoJID
    <3>1. UNCHANGED <<muc_senders, up>>
      BY <2>2 DEF SendToRoom, nick
    <3>2. QED
      BY <2>0, <3>1, QueuesKept DEF Traffic, SendersHome
  <2>3. QED
    BY <2>1, <2>2
<1>6. MessagesEarned'
  BY <1>5, QueuesKept DEF MessagesEarned, Traffic, SendToRoom, NextDestination, ServiceKept
<1>7. OccupantsHome' /\ RemovalEarned' /\ DestinationsGiven'
  BY DEF Traffic, OccupantsHome, RemovalEarned, DestinationsGiven, SendToRoom,
         NextDestination, ServiceKept
<1>8. QED
  BY <1>5, <1>6, <1>7 DEF Traffic

LEMMA DispatchEarned ==
  ASSUME TypeOK, Traffic, Heard, Kept, Dispatch
  PROVE  /\ down' \in Seq(EarnedDown')
         /\ Head(down).jid.bare \in Bares
         /\ Head(down).kind \in {"message", "messageError"} => Covered(Head(down).jid.bare)
<1>1. Head(down) \in EarnedDown
  BY HeadTailType DEF Traffic, MessagesEarned, Dispatch
<1>2. down' \in Seq(EarnedDown')
  BY QueuesKept, HeadTailType DEF Traffic, Dispatch
<1>3. ASSUME Head(down).kind \in {"message", "messageError"}, Head(down).jid.bare \in Impostors
      PROVE  Covered(Head(down).jid.bare)
  <2> DEFINE b == Head(down).jid.bare
  <2>1. b \in Rooms /\ PresenceFirst
    BY <1>3 DEF Impostors, Heard
  <2>2. Head(down) \in Messages(b)
    BY <1>1, <1>3 DEF EarnedDown, Messages
  <2> HIDE DEF b
  <2>3. ASSUME Preceded(down, Presences(b), Messages(b)) PROVE FALSE
    BY <2>2, <2>3, PrecededHead DEF Traffic, MessagesEarned, Dispatch
  <2>4. QED
    BY <2>1, <2>3 DEF PresenceFirst, Behind, b
<1>4. QED
  BY <1>1, <1>2, <1>3 DEF EarnedDown, DownStanza, JID, Covered

LEMMA RemovalBegins ==
  ASSUME TypeOK, Kept, [Next]_vars, NEW b \in Bares, Covered(b), CallRemoveMucSender(b)
  PROVE  RemovalEarned'
<1>1. removing' = b /\ Covered(b)'
  BY CoveredKept DEF CallRemoveMucSender
<1>2. QED
  BY <1>1 DEF RemovalEarned, Covered, Earned, Awaited

LEMMA MessengerCallbackTraffic ==
  ASSUME TypeOK, Traffic, Heard, Kept, [Next]_vars,
         HandleMessage \/ UnhandledPresence
  PROVE  Traffic'
<1> DEFINE b == Head(down).jid.bare
<1>1. Dispatch /\ UNCHANGED <<up, senderVars, occupants>>
  BY DEF HandleMessage, UnhandledPresence, Dispatch
<1>2. MessagesEarned'
  BY <1>1, DispatchEarned, QueuesKept DEF MessagesEarned, Traffic
<1>3. SendersHome' /\ DestinationsGiven' /\ OccupantsHome'
  BY <1>1, SendersHomeKept DEF senderVars, Traffic, OccupantsHome
<1>4. RemovalEarned'
  <2>1. CASE pc' = "receiving"
    BY <2>1 DEF RemovalEarned
  <2>2. CASE HandleMessage /\ CallRemoveMucSender(b)
    <3>1. PICK c \in Bares : c = b /\ Covered(c)
      BY <1>1, <2>2, DispatchEarned DEF HandleMessage
    <3>2. QED
      BY <2>2, <3>1, RemovalBegins
  <2>3. QED
    BY <1>1, <2>1, <2>2 DEF HandleMessage, UnhandledPresence, Dispatch
<1>5. QED
  BY <1>2, <1>3, <1>4 DEF Traffic

LEMMA RoomCallbackTraffic ==
  ASSUME TypeOK, Traffic, Heard, Kept, [Next]_vars, RoomCallback
  PROVE  Traffic'
<1> DEFINE s == Head(down)
           b == s.jid.bare
<1>1. /\ Dispatch /\ HandleMUC(s) /\ b \in Bares
      /\ muc_senders[b] \in JID /\ muc_senders[b].bare = b
      /\ b \notin Strangers
      /\ s.kind \in {"message", "messageError"} => Covered(b)
  BY DispatchEarned DEF RoomCallback, Live, Traffic, SendersHome, TypeOK, SenderTypeOK
<1> HIDE DEF s
<1>2. UNCHANGED <<muc_senders, occupants>>
  BY <1>1 DEF HandleMUC, HandleOwnPresence, HandleOtherPresence, HandleMUCError,
     HandleStopMessage, HandleOtherMessage, senderVars, Dispatch
<1>3. up' \in Seq(EarnedUp')
  <2>1. CASE HandleOwnPresence(s)
    <3> DEFINE text == Stanza("groupchat", RoomJid(b), Message)
    <3> DEFINE stop == Stanza("chat", muc_senders[b], Resource)
    <3>1. ASSUME conn = "connected", conn' = "connected"
          PROVE  <<text, stop>> \in Seq(EarnedUp')
      <4>1. written'[b] > 0
        BY <1>1, <2>1, <3>1, CountedIsWritten DEF HandleOwnPresence, TypeOK
      <4>2. RoomJid(b) \in JID /\ RoomJid(b).bare = b
        BY <1>1 DEF RoomJid, JID
      <4>3. text \in UpStanza /\ stop \in UpStanza
        BY <1>1, <4>2, UpStanzaType DEF UpKind, Body
      <4>4. text \in EarnedUp' /\ stop \in EarnedUp'
        BY <1>1, <4>1, <4>2, <4>3 DEF EarnedUp, Stanza
      <4> HIDE DEF text, stop
      <4>5. QED
        BY <4>4
    <3>2. Write(<<text, stop>>)
      BY <2>1 DEF HandleOwnPresence
    <3> HIDE DEF text, stop
    <3>3. QED
      BY <3>1, <3>2, QueuesKept, WriteEarned DEF Traffic
  <2>2. CASE UNCHANGED up
    BY <2>2, QueuesKept DEF Traffic
  <2>3. QED
    BY <1>1, <2>1, <2>2 DEF HandleMUC, HandleOtherPresence, HandleMUCError,
       HandleStopMessage, HandleOtherMessage
<1>4. MessagesEarned'
  BY <1>1, <1>3, DispatchEarned DEF MessagesEarned
<1>5. SendersHome' /\ DestinationsGiven' /\ OccupantsHome'
  BY <1>2, SendersHomeKept DEF Traffic, OccupantsHome
<1>6. RemovalEarned'
  <2>1. CASE HandleMUCError(s)
    <3>1. removing' = b /\ b \in reported'
      BY <1>1, <2>1 DEF HandleMUCError, CallRemoveMucSender
    <3> HIDE DEF b
    <3>2. QED
      BY <1>1, <3>1 DEF RemovalEarned, Covered
  <2>2. CASE HandleStopMessage(s)
    <3>1. PICK c \in Bares : c = b /\ Covered(c)
      BY <1>1, <2>2 DEF HandleStopMessage
    <3>2. CallRemoveMucSender(c)
      BY <1>1, <2>2, <3>1 DEF HandleStopMessage
    <3>3. QED
      BY <3>1, <3>2, RemovalBegins
  <2>3. CASE pc' = pc
    BY <1>1, <2>3 DEF RemovalEarned, Dispatch
  <2>4. QED
    BY <1>1, <2>1, <2>2, <2>3 DEF HandleMUC, HandleOwnPresence, HandleOtherPresence,
       HandleOtherMessage
<1>7. QED
  BY <1>4, <1>5, <1>6 DEF Traffic

LEMMA EraseSenderTraffic ==
  ASSUME TypeOK, Traffic, Kept, EraseSender
  PROVE  Traffic'
<1>1. UNCHANGED <<down, occupants, written, reported, destinations>>
  BY DEF EraseSender, ServiceKept
<1>2. EarnedUp' = EarnedUp /\ EarnedDown' = EarnedDown
  BY <1>1 DEF EarnedUp, EarnedDown, Earned, Strangers
<1>3. up' \in Seq(EarnedUp)
  <2>1. CASE Live(removing)
    <3>1. muc_senders[removing] \in JID
      BY <2>1 DEF Live, TypeOK, SenderTypeOK
    <3> DEFINE leave == Stanza("leave", muc_senders[removing], NoBody)
    <3>2. leave \in EarnedUp
      BY <3>1, UpStanzaType DEF UpKind, Body, EarnedUp, Stanza
    <3>3. Write(<<leave>>)
      BY <2>1 DEF EraseSender, DestroySender
    <3> HIDE DEF leave
    <3>4. <<leave>> \in Seq(EarnedUp)
      BY <3>2
    <3>5. QED
      BY <3>3, <3>4, WriteEarned DEF Traffic, MessagesEarned
  <2>2. CASE ~Live(removing)
    BY <2>2 DEF EraseSender, DestroySender, Traffic, MessagesEarned
  <2>3. QED
    BY <2>1, <2>2
<1>4. MessagesEarned'
  BY <1>1, <1>2, <1>3 DEF Traffic, MessagesEarned
<1>5. SendersHome'
  BY <1>1 DEF Traffic, SendersHome, Owed, Strangers, EraseSender, TypeOK, SenderTypeOK
<1>6. OccupantsHome' /\ RemovalEarned' /\ DestinationsGiven'
  BY <1>1 DEF Traffic, OccupantsHome, RemovalEarned, DestinationsGiven, EraseSender, GoTo
<1>7. QED
  BY <1>4, <1>5, <1>6 DEF Traffic

LEMMA RemovalTraffic ==
  ASSUME Traffic, LockForRemoval \/ DisconnectIfLast
  PROVE  Traffic'
<1>1. UNCHANGED <<up, down, occupants, senderVars, destinations>>
  BY DEF LockForRemoval, DisconnectIfLast, ServiceKept, serviceVars
<1>2. OccupantsHome' /\ SendersHome' /\ MessagesEarned' /\ DestinationsGiven'
  BY <1>1 DEF Traffic, OccupantsHome, SendersHome, Owed, MessagesEarned, EarnedUp, EarnedDown,
         Earned, Strangers, DestinationsGiven, senderVars
<1>3. RemovalEarned'
  BY <1>1 DEF Traffic, RemovalEarned, Covered, Awaited, Enlisting, Earned, Strangers,
         LockForRemoval, DisconnectIfLast, GoTo, streamVars, senderVars
<1>4. QED
  BY <1>2, <1>3 DEF Traffic

LEMMA EndTraffic ==
  ASSUME TypeOK, Traffic, StreamLost \/ StartReturns \/ Destroy \/ UNCHANGED vars
  PROVE  Traffic'
<1>1. CASE StreamLost \/ StartReturns
  <2>1. UNCHANGED <<up, down, occupants, senderVars, destinations>>
    BY <1>1 DEF StreamLost, StartReturns, serviceVars, controlVars
  <2>2. pc' \notin {"remove", "erase"}
    BY <1>1 DEF StreamLost, StartReturns, GoTo, controlVars
  <2>3. QED
    BY <2>1, <2>2, QuietTraffic
<1>2. CASE Destroy
  <2>1. UNCHANGED <<up, down, occupants, written, reported, destinations>>
    BY <1>2 DEF Destroy, ServiceKept
  <2>2. SendersHome'
    BY <1>2 DEF Destroy, SendersHome
  <2>3. OccupantsHome' /\ MessagesEarned' /\ RemovalEarned' /\ DestinationsGiven'
    BY <1>2, <2>1 DEF Traffic, OccupantsHome, MessagesEarned, EarnedUp, EarnedDown,
       Earned, Strangers, RemovalEarned, DestinationsGiven, Destroy, GoTo
  <2>4. QED
    BY <2>2, <2>3 DEF Traffic
<1>3. CASE UNCHANGED vars
  BY <1>3 DEF Traffic, OccupantsHome, SendersHome, Owed, MessagesEarned, EarnedUp, EarnedDown,
         Earned, Strangers, RemovalEarned, Covered, Awaited, Enlisting, DestinationsGiven,
         vars, serviceVars, streamVars, senderVars, controlVars
<1>4. QED
  BY <1>1, <1>2, <1>3

LEMMA NextTraffic ==
  ASSUME HarmlessImpostors, TypeOK, Traffic, Heard, [Next]_vars
  PROVE  Traffic'
<1>1. Kept
  BY StepKeeps
<1>2. CASE ServiceStep
  BY <1>2, ServiceTraffic
<1>3. CASE ClientNext
  BY <1>1, <1>3, ConnectingTraffic, OnConnectTraffic, SendToTraffic, SendToRoomTraffic,
     RoomCallbackTraffic, MessengerCallbackTraffic, RemovalTraffic, EraseSenderTraffic,
     EndTraffic DEF ClientNext
<1>4. CASE Exited \/ UNCHANGED vars
  BY <1>4, EndTraffic DEF Exited
<1>5. QED
  BY <1>2, <1>3, <1>4 DEF Next

-----------------------------------------------------------------------------
(***************************************************************************)
(* Heard: the names under which rooms know us.                             *)
(***************************************************************************)
LEMMA AwaitedBefore ==
  ASSUME TypeOK, [Next]_vars, NEW b \in Bares, Awaited(b)'
  PROVE  /\ Awaited(b)
         /\ muc_senders[b] # NoJID => muc_senders'[b] = muc_senders[b]
<1>1. Awaited(b)
  BY SendersOnlyLeave DEF Awaited
<1>2. CASE SendToRoom
  BY <1>1, <1>2, SendToRoomMoves, RoomDestination DEF TypeOK, SenderTypeOK
<1>3. CASE EraseSender
  <2>1. muc_senders'[b] # NoJID /\ muc_senders' = [muc_senders EXCEPT ![removing] = NoJID]
    BY <1>3 DEF Awaited, Enlisting, EraseSender, GoTo
  <2>2. QED
    BY <1>1, <2>1 DEF TypeOK, SenderTypeOK
<1>4. CASE Destroy
  BY <1>4 DEF Awaited, Enlisting, Destroy, GoTo
<1>5. CASE UNCHANGED muc_senders
  BY <1>1, <1>5
<1>6. QED
  BY <1>1, <1>2, <1>3, <1>4, <1>5 DEF Next, ServiceStep, ClientNext, Start, ConnectDeclined,
     ConnectFails, Connected, OnConnect, SendTo, OnConnectDone, RoomCallback, HandleMUC,
     HandleOwnPresence, HandleOtherPresence, HandleMUCError, HandleStopMessage,
     HandleOtherMessage, HandleMessage, UnhandledPresence, LockForRemoval, DisconnectIfLast,
     StreamLost, StartReturns, Exited, vars, senderVars

LEMMA OursKept ==
  ASSUME TypeOK, [Next]_vars
  PROVE  /\ OurJoins \subseteq OurJoins'
         /\ OurPresences \subseteq OurPresences'
         /\ OurOccupants /\ UNCHANGED occupants => OurOccupants'
<1>1. ASSUME NEW b \in Bares, NEW jid \in JID, Awaited(b) => jid = muc_senders[b], Awaited(b)'
      PROVE  jid = muc_senders'[b]
  BY <1>1, AwaitedBefore, ServiceAssumption
<1>2. OurJoins \subseteq OurJoins'
  BY <1>1 DEF OurJoins, UpStanza, JID
<1>3. OurPresences \subseteq OurPresences'
  BY <1>1 DEF OurPresences, DownStanza, JID
<1>4. ASSUME OurOccupants, UNCHANGED occupants
      PROVE  OurOccupants'
  BY <1>1, <1>4 DEF OurOccupants, Bares, TypeOK, ServiceTypeOK
<1>5. QED
  BY <1>2, <1>3, <1>4

LEMMA HeadNamed ==
  ASSUME TypeOK, UnderOurName, NEW kind, ServerReads(kind)
  PROVE  /\ up' \in Seq(OurJoins)
         /\ Head(up).jid \in JID /\ Head(up).jid.bare \in Bares /\ Head(up).body \in Body
         /\ kind = "join" /\ Awaited(Head(up).jid.bare) =>
              Head(up).jid = muc_senders[Head(up).jid.bare]
<1>1. Head(up) \in OurJoins /\ up' \in Seq(OurJoins)
  BY HeadTailType DEF UnderOurName, ServerReads
<1>2. QED
  BY <1>1, ReadStanza DEF OurJoins, TypeOK

LEMMA AnswerNamed ==
  ASSUME UnderOurName,
         NEW kind \in DownKind, NEW jid \in JID, NEW body \in Body,
         kind = "presence" /\ Awaited(jid.bare) => jid = muc_senders[jid.bare],
         Answer(kind, jid, body)
  PROVE  down' \in Seq(OurPresences)
<1>1. Stanza(kind, jid, body) \in OurPresences
  BY DownStanzaType DEF OurPresences, Stanza
<1>2. QED
  BY <1>1, AppendType DEF Answer, UnderOurName

\* A room that does not rename us knows us by the name we came with.
LEMMA ServerNames ==
  ASSUME TypeOK, OccupantsHome, UnderOurName, "rename" \notin JoinReplies, ServerStep
  PROVE  /\ up' \in Seq(OurJoins) /\ down' \in Seq(OurPresences)
         /\ \A r \in Rooms : occupants'[r] # NoJID /\ Awaited(r) => occupants'[r] = muc_senders[r]
<1> USE DEF OurOccupants
<1>0. /\ down \in Seq(OurPresences) /\ OurOccupants
      /\ occupants \in [Rooms -> JID \cup {NoJID}]
  BY DEF UnderOurName, TypeOK, ServiceTypeOK
<1>1. CASE RoomAdmits
  <2>1. /\ Head(up).jid \in JID /\ up' \in Seq(OurJoins)
        /\ Awaited(Head(up).jid.bare) => Head(up).jid = muc_senders[Head(up).jid.bare]
    BY <1>1, HeadNamed DEF RoomAdmits
  <2>2. down' \in Seq(OurPresences)
    BY <1>1, <2>1, AnswerNamed DEF RoomAdmits, DownKind, Body
  <2>3. QED
    BY <1>0, <1>1, <2>1, <2>2 DEF RoomAdmits
<1>2. ~RoomRenames
  BY DEF RoomRenames
<1>3. CASE RoomRefuses
  <2>1. Head(up).jid \in JID /\ up' \in Seq(OurJoins)
    BY <1>3, HeadNamed DEF RoomRefuses
  <2>2. down' \in Seq(OurPresences)
    BY <1>3, <2>1, AnswerNamed DEF RoomRefuses, DownKind, Body
  <2>3. QED
    BY <1>0, <1>3, <2>1, <2>2 DEF RoomRefuses
<1>4. CASE RoomIgnores
  BY <1>0, <1>4, HeadNamed DEF RoomIgnores
<1>5. CASE RoomAccepts
  <2>1. Head(up).body \in Body /\ up' \in Seq(OurJoins)
    BY <1>5, HeadNamed DEF RoomAccepts
  <2>2. down' \in Seq(OurPresences)
    BY <1>0, <1>5, <2>1, AnswerNamed DEF RoomAccepts, DownKind
  <2>3. QED
    BY <1>0, <1>5, <2>1, <2>2 DEF RoomAccepts
<1>6. CASE RoomRelays
  <2>1. Head(up).jid \in JID /\ Head(up).body \in Body /\ up' \in Seq(OurJoins)
    BY <1>6, HeadNamed DEF RoomRelays
  <2>2. down' \in Seq(OurPresences)
    BY <1>6, <2>1, AnswerNamed DEF RoomRelays, DownKind
  <2>3. QED
    BY <1>0, <1>6, <2>1, <2>2 DEF RoomRelays
<1>7. CASE StanzaRejected
  <2>1. Head(up).jid \in JID /\ Head(up).body \in Body /\ up' \in Seq(OurJoins)
    BY <1>7, HeadNamed DEF StanzaRejected
  <2>2. down' \in Seq(OurPresences)
    BY <1>7, <2>1, AnswerNamed DEF StanzaRejected, DownKind
  <2>3. QED
    BY <1>0, <1>7, <2>1, <2>2 DEF StanzaRejected
<1>8. CASE UserReceives
  BY <1>0, <1>8, HeadNamed DEF UserReceives
<1>9. CASE RoomReleases
  <2>1. Head(up).jid \in JID /\ up' \in Seq(OurJoins)
    BY <1>9, HeadNamed DEF RoomReleases
  <2>2. down' \in Seq(OurPresences)
    BY <1>9, <2>1, AnswerNamed DEF RoomReleases, DownKind, Body
  <2>3. QED
    BY <1>0, <1>9, <2>1, <2>2 DEF RoomReleases
<1>10. QED
  BY <1>1, <1>2, <1>3, <1>4, <1>5, <1>6, <1>7, <1>8, <1>9 DEF ServerStep

LEMMA OutsideNames ==
  ASSUME TypeOK, OccupantsHome, UnderOurName, UnsolicitedStep \/ Break
  PROVE  /\ up' \in Seq(OurJoins) /\ down' \in Seq(OurPresences)
         /\ \A r \in Rooms : occupants'[r] # NoJID /\ Awaited(r) => occupants'[r] = muc_senders[r]
<1> USE DEF OurOccupants
<1>0. /\ up \in Seq(OurJoins) /\ down \in Seq(OurPresences) /\ OurOccupants
      /\ occupants \in [Rooms -> JID \cup {NoJID}]
  BY DEF UnderOurName, TypeOK, ServiceTypeOK
<1>1. CASE \E r \in Rooms : RoomRepeatsPresence(r)
  <2>1. PICK r \in Rooms : RoomRepeatsPresence(r)
    BY <1>1
  <2>2. occupants[r] \in JID /\ occupants[r].bare = r /\ occupants[r] # NoJID
    BY <1>0, <2>1 DEF RoomRepeatsPresence, OccupantsHome
  <2>3. down' \in Seq(OurPresences)
    BY <1>0, <2>1, <2>2, AnswerNamed DEF RoomRepeatsPresence, DownKind, Body
  <2>4. QED
    BY <1>0, <2>1, <2>3 DEF RoomRepeatsPresence
<1>2. CASE \E r \in Rooms : OccupantWrites(r)
  <2>1. PICK r \in Rooms, nick \in Nicks :
          /\ OccupantWrites(r)
          /\ Answer("message", [bare |-> r, resource |-> nick], Resource)
    BY <1>2 DEF OccupantWrites
  <2>2. [bare |-> r, resource |-> nick] \in JID
    BY DEF JID, Bares
  <2>3. down' \in Seq(OurPresences)
    BY <2>1, <2>2, AnswerNamed DEF DownKind, Body
  <2>4. QED
    BY <1>0, <2>1, <2>3 DEF OccupantWrites
<1>3. CASE \E r \in Rooms : RoomKicks(r)
  <2>1. PICK r \in Rooms : RoomKicks(r)
    BY <1>3
  <2>2. occupants[r] \in JID
    BY <1>0, <2>1 DEF RoomKicks
  <2>3. down' \in Seq(OurPresences)
    BY <2>1, <2>2, AnswerNamed DEF RoomKicks, DownKind, Body
  <2>4. QED
    BY <1>0, <2>1, <2>3 DEF RoomKicks
<1>4. CASE \E u \in Users : ContactWrites(u)
  <2>1. PICK u \in Users, text \in {Message, Resource} :
          /\ ContactWrites(u)
          /\ Answer("message", [bare |-> u, resource |-> NoResource], text)
    BY <1>4 DEF ContactWrites
  <2>2. [bare |-> u, resource |-> NoResource] \in JID
    BY DEF JID, Bares
  <2>3. down' \in Seq(OurPresences)
    BY <2>1, <2>2, AnswerNamed DEF DownKind, Body
  <2>4. QED
    BY <1>0, <2>1, <2>3 DEF ContactWrites
<1>5. CASE Break
  <2>1. PICK n \in 0..Len(down) : down' = SubSeq(down, 1, n)
    BY <1>5 DEF Break
  <2>2. down' \in Seq(OurPresences)
    BY <1>0, <2>1
  <2>3. QED
    BY <1>0, <1>5, <2>2, EmptySeq DEF Break
<1>6. QED
  BY <1>1, <1>2, <1>3, <1>4, <1>5 DEF UnsolicitedStep

-----------------------------------------------------------------------------
(***************************************************************************)
(* Heard: nothing from a room in front of our own presence.                *)
(***************************************************************************)
LEMMA AnswerBehind ==
  ASSUME ServiceTypeOK, NEW b \in Rooms, Behind(b),
         NEW kind \in DownKind, NEW jid \in JID, NEW body \in Body, Answer(kind, jid, body),
         kind \in {"message", "messageError"} /\ jid.bare = b => Has(down, Presences(b)),
         UNCHANGED broken,
         occupants'[b] \in {NoJID, occupants[b]} \/ (kind = "presence" /\ jid.bare = b)
  PROVE  Behind(b)'
<1> DEFINE x == Stanza(kind, jid, body)
<1>1. x \in DownStanza /\ x.kind = kind /\ x.jid = jid
  BY DownStanzaType DEF Stanza
<1>2. down \in Seq(DownStanza) /\ down' = Append(down, x)
  BY DEF ServiceTypeOK, Answer
<1>3. x \notin Messages(b) \/ Has(down, Presences(b))
  BY <1>1 DEF Messages
<1>4. Has(down, Presences(b)) \/ x \in Presences(b) \/ broken' \/ occupants'[b] = NoJID
  BY <1>1 DEF Behind, Presences
<1> HIDE DEF x
<1>5. Preceded(down', Presences(b), Messages(b))
  BY <1>2, <1>3, PrecededAppend DEF Behind
<1>6. Has(down', Presences(b)) \/ broken' \/ occupants'[b] = NoJID
  BY <1>2, <1>4, HasAppend
<1>7. QED
  BY <1>5, <1>6 DEF Behind, Presences, Messages

\* What the service takes or does leaves the order as it is, unless it takes
\* a message for the room; but that is written only when the text is.
LEMMA ServerBehind ==
  ASSUME TypeOK, Traffic, NEW b \in Rooms, ~Covered(b), Behind(b), ServerStep
  PROVE  Behind(b)'
<1>0. /\ ServiceTypeOK /\ occupants \in [Rooms -> JID \cup {NoJID}] /\ OccupantsHome
      /\ ~Earned(b)
  BY DEF TypeOK, ServiceTypeOK, Traffic, Covered
<1>1. CASE RoomAdmits
  <2>1. Head(up).jid \in JID
    BY <1>1, HeadEarned DEF RoomAdmits
  <2>2. QED
    BY <1>0, <1>1, <2>1, AnswerBehind DEF RoomAdmits, DownKind, Body
<1>2. CASE RoomRenames
  <2>1. PICK nick \in Nicks \ {Head(up).jid.resource} :
          LET given == [Head(up).jid EXCEPT !.resource = nick]
          IN  /\ occupants' = [occupants EXCEPT ![given.bare] = given]
              /\ Answer("presence", given, NoBody)
    BY <1>2 DEF RoomRenames
  <2> DEFINE given == [Head(up).jid EXCEPT !.resource = nick]
  <2>2. Head(up).jid \in JID
    BY <1>2, HeadEarned DEF RoomRenames
  <2>3. given \in JID
    BY <2>2 DEF JID
  <2> HIDE DEF given
  <2>4. /\ occupants' = [occupants EXCEPT ![given.bare] = given]
        /\ Answer("presence", given, NoBody) /\ UNCHANGED broken
    BY <1>2, <2>1 DEF RoomRenames, given
  <2>5. QED
    BY <1>0, <2>3, <2>4, AnswerBehind DEF DownKind, Body
<1>3. CASE RoomRefuses
  <2>1. Head(up).jid \in JID
    BY <1>3, HeadEarned DEF RoomRefuses
  <2>2. QED
    BY <1>0, <1>3, <2>1, AnswerBehind DEF RoomRefuses, DownKind, Body
<1>4. CASE RoomIgnores
  BY <1>4 DEF RoomIgnores, Behind, Presences, Messages
<1>5. CASE RoomAccepts
  <2> DEFINE r == Head(up).jid.bare
  <2>1. Head(up).body \in Body /\ Earned(r)
    BY <1>5, HeadEarned DEF RoomAccepts
  <2>2. occupants[r] \in JID /\ occupants[r].bare = r
    BY <1>0, <1>5 DEF RoomAccepts, OccupantsHome
  <2>3. occupants[r].bare # b
    BY <1>0, <2>1, <2>2
  <2>4. Answer("message", occupants[r], Head(up).body) /\ UNCHANGED <<broken, occupants>>
    BY <1>5 DEF RoomAccepts
  <2> HIDE DEF r
  <2>5. QED
    BY <1>0, <2>1, <2>2, <2>3, <2>4, AnswerBehind DEF DownKind
<1>6. CASE RoomRelays
  <2>1. Head(up).jid \in JID /\ Head(up).body \in Body /\ Head(up).jid.bare # b
    BY <1>0, <1>6, HeadEarned DEF RoomRelays
  <2>2. QED
    BY <1>0, <1>6, <2>1, AnswerBehind DEF RoomRelays, DownKind
<1>7. CASE StanzaRejected
  <2>1. Head(up).jid \in JID /\ Head(up).body \in Body /\ Head(up).jid.bare # b
    BY <1>0, <1>7, HeadEarned DEF StanzaRejected
  <2>2. QED
    BY <1>0, <1>7, <2>1, AnswerBehind DEF StanzaRejected, DownKind
<1>8. CASE UserReceives
  BY <1>8 DEF UserReceives, Behind, Presences, Messages
<1>9. CASE RoomReleases
  <2>1. Head(up).jid \in JID
    BY <1>9, HeadEarned DEF RoomReleases
  <2>2. QED
    BY <1>0, <1>9, <2>1, AnswerBehind DEF RoomReleases, DownKind, Body
<1>10. QED
  BY <1>1, <1>2, <1>3, <1>4, <1>5, <1>6, <1>7, <1>8, <1>9 DEF ServerStep

\* An occupant writes only to those who are in.
LEMMA OutsideBehind ==
  ASSUME TypeOK, Traffic, NEW b \in Rooms, Behind(b), UnsolicitedStep \/ Break
  PROVE  Behind(b)'
<1>0. /\ ServiceTypeOK /\ occupants \in [Rooms -> JID \cup {NoJID}] /\ OccupantsHome
      /\ down \in Seq(DownStanza)
  BY DEF TypeOK, ServiceTypeOK, Traffic
<1>1. CASE \E r \in Rooms : RoomRepeatsPresence(r)
  <2>1. PICK r \in Rooms : RoomRepeatsPresence(r)
    BY <1>1
  <2>2. occupants[r] \in JID
    BY <1>0, <2>1 DEF RoomRepeatsPresence
  <2>3. QED
    BY <1>0, <2>1, <2>2, AnswerBehind DEF RoomRepeatsPresence, DownKind, Body
<1>2. CASE \E r \in Rooms : OccupantWrites(r)
  <2>1. PICK r \in Rooms, nick \in Nicks :
          /\ OccupantWrites(r)
          /\ Answer("message", [bare |-> r, resource |-> nick], Resource)
    BY <1>2 DEF OccupantWrites
  <2> DEFINE jid == [bare |-> r, resource |-> nick]
  <2>2. jid \in JID /\ jid.bare = r
    BY DEF JID, Bares
  <2>3. Answer("message", jid, Resource) /\ UNCHANGED <<broken, occupants>>
    BY <2>1 DEF OccupantWrites
  <2>4. r = b => Has(down, Presences(b))
    BY <2>1 DEF OccupantWrites, SpendUnsolicited, Behind
  <2> HIDE DEF jid
  <2>5. QED
    BY <1>0, <2>2, <2>3, <2>4, AnswerBehind DEF DownKind, Body
<1>3. CASE \E r \in Rooms : RoomKicks(r)
  <2>1. PICK r \in Rooms : RoomKicks(r)
    BY <1>3
  <2>2. occupants[r] \in JID
    BY <1>0, <2>1 DEF RoomKicks
  <2>3. QED
    BY <1>0, <2>1, <2>2, AnswerBehind DEF RoomKicks, DownKind, Body
<1>4. CASE \E u \in Users : ContactWrites(u)
  <2>1. PICK u \in Users, text \in {Message, Resource} :
          /\ ContactWrites(u)
          /\ Answer("message", [bare |-> u, resource |-> NoResource], text)
    BY <1>4 DEF ContactWrites
  <2> DEFINE jid == [bare |-> u, resource |-> NoResource]
  <2>2. jid \in JID /\ jid.bare # b
    BY ServiceAssumption DEF JID, Bares
  <2>3. Answer("message", jid, text) /\ UNCHANGED <<broken, occupants>>
    BY <2>1 DEF ContactWrites
  <2> HIDE DEF jid
  <2>4. QED
    BY <1>0, <2>2, <2>3, AnswerBehind DEF DownKind, Body
<1>5. CASE Break
  <2>1. PICK n \in 0..Len(down) : down' = SubSeq(down, 1, n)
    BY <1>5 DEF Break
  <2>2. Preceded(down', Presences(b), Messages(b))
    BY <1>0, <2>1, PrecededPrefix DEF Behind
  <2>3. QED
    BY <1>5, <2>2 DEF Break, Behind, Presences, Messages
<1>6. QED
  BY <1>1, <1>2, <1>3, <1>4, <1>5 DEF UnsolicitedStep

LEMMA DispatchBehind ==
  ASSUME TypeOK, NEW b \in Rooms, Behind(b), Dispatch, Head(down) \notin Presences(b)
  PROVE  Behind(b)'
<1>1. down \in Seq(DownStanza) /\ down # <<>> /\ down' = Tail(down)
  BY DEF TypeOK, ServiceTypeOK, Dispatch
<1>2. Preceded(down', Presences(b), Messages(b))
  BY <1>1, PrecededTail DEF Behind
<1>3. Has(down, Presences(b)) => Has(down', Presences(b))
  BY <1>1, HasTail
<1>4. QED
  BY <1>2, <1>3 DEF Behind, Presences, Messages, Dispatch

\* Our presence makes us post the text, and then the room is accounted for.
LEMMA PresenceCovers ==
  ASSUME TypeOK, Heard, UnderOurName, Account, Kept, [Next]_vars,
         RoomCallback \/ HandleMessage \/ UnhandledPresence,
         NEW b \in Rooms, ~Covered(b), Head(down) \in Presences(b)
  PROVE  Covered(b)'
<1>1. /\ b \in Bares /\ pc = "receiving" /\ Dispatch
      /\ Head(down).kind = "presence" /\ Head(down).jid.bare = b
  BY DEF Bares, Presences, RoomCallback, HandleMessage, UnhandledPresence, Dispatch
<1>2. muc_senders[b] # NoJID /\ b \in joined /\ result = NoError /\ Live(b)
  BY <1>1 DEF Covered, Awaited, Enlisting, Heard, SendersJoined, Live
<1>3. Head(down).jid = muc_senders[b]
  <2>1. Head(down) \in OurPresences
    BY <1>1, HeadTailType DEF UnderOurName, Dispatch
  <2>2. QED
    BY <1>1, <1>2, <2>1 DEF OurPresences, Awaited
<1>4. HandleOwnPresence(Head(down))
  BY <1>1, <1>2, <1>3 DEF RoomCallback, HandleMessage, UnhandledPresence, HandleMUC,
     HandleOtherPresence, HandleMUCError, HandleStopMessage, HandleOtherMessage
<1>5. conn = "connected"
  BY <1>1, <1>2 DEF Account, SuccessIsComplete, NothingBeforeSession, NoSenders, TypeOK,
     StreamTypeOK
<1>6. CASE conn' = "connected"
  <2>1. written'[b] > 0
    BY <1>1, <1>4, <1>5, <1>6, CountedIsWritten DEF HandleOwnPresence, TypeOK
  <2>2. QED
    BY <2>1 DEF Covered, Earned
<1>7. CASE conn' # "connected"
  <2>1. result' # NoError
    BY <1>4, <1>5, <1>7, StreamAssumption DEF HandleOwnPresence, Write, OnDisconnect
  <2>2. QED
    BY <2>1 DEF Covered
<1>8. QED
  BY <1>6, <1>7

-----------------------------------------------------------------------------
(***************************************************************************)
(* Heard: every step.                                                      *)
(***************************************************************************)
LEMMA ServiceHeard ==
  ASSUME TypeOK, Traffic, UnderOurName, PresenceFirst, [Next]_vars,
         "rename" \notin JoinReplies, ServiceStep
  PROVE  UnderOurName' /\ PresenceFirst'
<1>1. UNCHANGED <<muc_senders, written, reported, pc, result>>
  BY DEF ServiceStep, streamVars, senderVars, controlVars
<1>2. OccupantsHome /\ (ServerStep \/ UnsolicitedStep \/ Break)
  BY DEF Traffic, ServiceStep, ServiceNext
<1>3. UnderOurName'
  <2>1. /\ up' \in Seq(OurJoins) /\ down' \in Seq(OurPresences)
        /\ \A r \in Rooms : occupants'[r] # NoJID /\ Awaited(r) => occupants'[r] = muc_senders[r]
    BY <1>2, ServerNames, OutsideNames
  <2>2. QED
    BY <1>1, <2>1 DEF UnderOurName, OurJoins, OurPresences, OurOccupants, Awaited, Enlisting
<1>4. ASSUME NEW b \in Rooms
      PROVE  Covered(b)' \/ Behind(b)'
  <2>1. CASE Covered(b)
    BY <1>1, <2>1 DEF Covered, Earned, Awaited, Enlisting
  <2>2. CASE ~Covered(b)
    BY <1>2, <2>2, ServerBehind, OutsideBehind DEF PresenceFirst
  <2>3. QED
    BY <2>1, <2>2
<1>5. QED
  BY <1>3, <1>4 DEF PresenceFirst

\* What the client writes that is a join names the sender it is for.
LEMMA ClientNames ==
  ASSUME TypeOK, UnderOurName, [Next]_vars, ClientNext
  PROVE  UnderOurName'
<1>1. /\ OurJoins \subseteq OurJoins' /\ OurPresences \subseteq OurPresences'
      /\ up \in Seq(OurJoins') /\ down \in Seq(OurPresences')
  BY OursKept, SeqMonotone DEF UnderOurName
<1>2. UNCHANGED occupants /\ (UNCHANGED down \/ (down # <<>> /\ down' = Tail(down)))
  BY DEF ClientNext, Start, ConnectDeclined, ConnectFails, Connected, OnConnect, SendTo, SendToRoom,
     NextDestination, OnConnectDone, RoomCallback, HandleMessage, UnhandledPresence, Dispatch,
     LockForRemoval, EraseSender, DisconnectIfLast, StreamLost, StartReturns, Destroy,
     ServiceKept, serviceVars
<1>3. OurOccupants' /\ down' \in Seq(OurPresences')
  BY <1>1, <1>2, OursKept, HeadTailType DEF UnderOurName
<1>4. up' \in Seq(OurJoins')
  <2>1. CASE OnConnect
    <3>1. <<>> \in Seq(OurJoins') /\ Write(<<>>)
      BY <2>1, EmptySeq DEF OnConnect
    <3>2. QED
      BY <1>1, <3>1, WriteEarned
  <2>2. CASE SendTo
    <3> DEFINE s == Stanza("chat", destinations[cursor].jid, Message)
    <3>1. destinations[cursor].jid \in JID /\ Write(<<s>>)
      BY <2>2, DestinationJid DEF SendTo, NextDestination
    <3>2. s \in OurJoins'
      BY <3>1, UpStanzaType DEF OurJoins, Stanza, UpKind, Body
    <3> HIDE DEF s
    <3>3. <<s>> \in Seq(OurJoins')
      BY <3>2
    <3>4. QED
      BY <1>1, <3>1, <3>3, WriteEarned
  <2>3. CASE SendToRoom
    <3> DEFINE nick == WithNick(destinations[cursor].jid)
               s == Stanza("join", nick, NoBody)
    <3>1. nick \in JID /\ nick.bare \in Bares
      BY <2>3, RoomDestination
    <3>2. CASE muc_senders[nick.bare] = NoJID
      <4>1. muc_senders' = [muc_senders EXCEPT ![nick.bare] = nick] /\ Write(<<s>>)
        BY <2>3, <3>2 DEF SendToRoom, StartSender
      <4>2. muc_senders'[nick.bare] = nick
        BY <3>1, <4>1 DEF TypeOK, SenderTypeOK
      <4>3. s \in UpStanza /\ s.jid = nick
        BY <3>1, UpStanzaType DEF Stanza, UpKind, Body
      <4> HIDE DEF nick, s
      <4>4. s \in OurJoins'
        BY <4>2, <4>3 DEF OurJoins
      <4>5. <<s>> \in Seq(OurJoins')
        BY <4>4
      <4>6. QED
        BY <1>1, <4>1, <4>5, WriteEarned
    <3>3. CASE muc_senders[nick.bare] # NoJID
      BY <1>1, <2>3, <3>3 DEF SendToRoom
    <3>4. QED
      BY <3>2, <3>3
  <2>4. CASE RoomCallback /\ HandleOwnPresence(Head(down))
    <3> DEFINE b == Head(down).jid.bare
               text == Stanza("groupchat", RoomJid(b), Message)
               stop == Stanza("chat", muc_senders[b], Resource)
    <3>1. Head(down) \in DownStanza
      BY <2>4, HeadTailType DEF TypeOK, ServiceTypeOK, RoomCallback, Dispatch
    <3>2. b \in Bares
      BY <3>1 DEF DownStanza, JID
    <3>3. RoomJid(b) \in JID /\ muc_senders[b] \in JID
      BY <2>4, <3>2 DEF RoomJid, JID, RoomCallback, Live, TypeOK, SenderTypeOK
    <3>4. text \in OurJoins' /\ stop \in OurJoins'
      BY <3>3, UpStanzaType DEF OurJoins, Stanza, UpKind, Body
    <3>5. Write(<<text, stop>>)
      BY <2>4 DEF HandleOwnPresence
    <3> HIDE DEF text, stop
    <3>6. <<text, stop>> \in Seq(OurJoins')
      BY <3>4
    <3>7. QED
      BY <1>1, <3>5, <3>6, WriteEarned
  <2>5. CASE EraseSender /\ Live(removing)
    <3> DEFINE leave == Stanza("leave", muc_senders[removing], NoBody)
    <3>1. muc_senders[removing] \in JID
      BY <2>5 DEF Live, TypeOK, SenderTypeOK
    <3>2. leave \in OurJoins' /\ Write(<<leave>>)
      BY <2>5, <3>1, UpStanzaType DEF OurJoins, Stanza, UpKind, Body, EraseSender, DestroySender
    <3> HIDE DEF leave
    <3>3. <<leave>> \in Seq(OurJoins')
      BY <3>2
    <3>4. QED
      BY <1>1, <3>2, <3>3, WriteEarned
  <2>6. CASE UNCHANGED up
    BY <1>1, <2>6
  <2>7. QED
    BY <2>1, <2>2, <2>3, <2>4, <2>5, <2>6 DEF ClientNext, Start, ConnectDeclined, ConnectFails,
       Connected, OnConnectDone, RoomCallback, HandleMUC, HandleOtherPresence, HandleMUCError,
       HandleStopMessage, HandleOtherMessage, HandleMessage, UnhandledPresence, LockForRemoval,
       EraseSender, DestroySender, DisconnectIfLast, StreamLost, StartReturns, Destroy, serviceVars
<1>5. QED
  BY <1>3, <1>4 DEF UnderOurName

LEMMA ClientHeard ==
  ASSUME TypeOK, Heard, UnderOurName, PresenceFirst, Account, Kept, [Next]_vars, ClientNext
  PROVE  PresenceFirst'
<1>1. SUFFICES ASSUME NEW b \in Rooms PROVE Covered(b)' \/ Behind(b)'
  BY DEF PresenceFirst
<1>2. b \in Bares
  BY DEF Bares
<1>3. CASE Covered(b)
  BY <1>2, <1>3, CoveredKept
<1>4. CASE ~Covered(b) /\ UNCHANGED <<down, broken, occupants>>
  BY <1>4 DEF PresenceFirst, Behind, Presences, Messages
<1>5. CASE ~Covered(b) /\ (RoomCallback \/ HandleMessage \/ UnhandledPresence)
  <2>1. CASE Head(down) \in Presences(b)
    BY <1>5, <2>1, PresenceCovers
  <2>2. CASE Head(down) \notin Presences(b)
    BY <1>5, <2>2, DispatchBehind DEF PresenceFirst, RoomCallback, HandleMessage, UnhandledPresence
  <2>3. QED
    BY <2>1, <2>2
<1>6. QED
  BY <1>3, <1>4, <1>5 DEF ClientNext, Start, ConnectDeclined, ConnectFails, Connected, OnConnect,
     SendTo, SendToRoom, NextDestination, OnConnectDone, LockForRemoval, EraseSender,
     DisconnectIfLast, StreamLost, StartReturns, Destroy, ServiceKept, serviceVars

LEMMA NextHeard ==
  ASSUME HarmlessImpostors, TypeOK, Traffic, Heard, Account, [Next]_vars
  PROVE  Heard'
<1>1. SendersJoined'
  <2>1. SendersFiled
    BY DEF Traffic, SendersHome, SendersFiled
  <2>2. QED
    BY <2>1, SendersStay DEF Heard
<1>2. ASSUME "chatter" \in Unsolicited
      PROVE  UnderOurName' /\ PresenceFirst'
  <2>1. "rename" \notin JoinReplies /\ UnderOurName /\ PresenceFirst /\ Kept
    BY <1>2, StepKeeps DEF HarmlessImpostors, Heard
  <2>2. CASE ServiceStep
    BY <2>1, <2>2, ServiceHeard
  <2>3. CASE ClientNext
    BY <2>1, <2>3, ClientNames, ClientHeard
  <2>4. CASE Exited \/ UNCHANGED vars
    <3>1. UNCHANGED <<up, down, broken, occupants, muc_senders, written, reported, result, pc>>
      BY <2>4 DEF Exited, vars, serviceVars, streamVars, senderVars, controlVars
    <3>2. UnderOurName'
      BY <2>1, <3>1 DEF UnderOurName, OurJoins, OurPresences, OurOccupants, Awaited, Enlisting
    <3>3. PresenceFirst'
      BY <2>1, <3>1 DEF PresenceFirst, Covered, Earned, Awaited, Enlisting, Behind, Presences, Messages
    <3>4. QED
      BY <3>2, <3>3
  <2>5. QED
    BY <2>2, <2>3, <2>4 DEF Next
<1>3. QED
  BY <1>1, <1>2 DEF Heard

LEMMA InitHeard == Init => Heard
<1>1. SUFFICES ASSUME Init PROVE Heard
  OBVIOUS
<1>2. SendersJoined
  BY <1>1 DEF Init, SenderInit, SendersJoined
<1>3. UnderOurName
  BY <1>1, EmptySeq DEF Init, ServiceInit, UnderOurName, OurOccupants
<1>4. PresenceFirst
  BY <1>1, PrecededEmpty DEF Init, ServiceInit, PresenceFirst, Behind
<1>5. QED
  BY <1>2, <1>3, <1>4 DEF Heard

-----------------------------------------------------------------------------
(***************************************************************************)
(* Account: what has been gone through is sent, reported, waited for or    *)
(* covered by a failure.                                                   *)
(***************************************************************************)
LEMMA DestinationBare ==
  ASSUME TypeOK, NEW i \in 1..Len(destinations)
  PROVE  destinations[i].jid \in JID /\ destinations[i].jid.bare \in Bares
<1>1. destinations[i] \in Destination
  BY ElementOfSeq DEF TypeOK
<1>2. QED
  BY <1>1 DEF Destination, JID

LEMMA SettledKept ==
  ASSUME Kept, NEW b \in Bares, b \in Settled
  PROVE  b \in Settled'
  BY DEF Kept, Settled

\* A destination stays handled if no sender goes but one that is settled.
LEMMA HandledKept ==
  ASSUME TypeOK, Kept, NEW i \in 1..Len(destinations),
         \/ destinations[i].jid.bare \in Settled
         \/ muc_senders[destinations[i].jid.bare] # NoJID
         \/ result # NoError,
         \A b \in Bares : muc_senders[b] # NoJID =>
           muc_senders'[b] # NoJID \/ b \in Settled' \/ result' # NoError
  PROVE  \/ destinations'[i].jid.bare \in Settled'
         \/ muc_senders'[destinations'[i].jid.bare] # NoJID
         \/ result' # NoError
<1>1. destinations[i].jid.bare \in Bares /\ destinations' = destinations
  BY DestinationBare DEF Kept
<1>2. QED
  BY <1>1, SettledKept DEF Kept

LEMMA AllHandledKept ==
  ASSUME TypeOK, Kept, DestinationsHandled, UNCHANGED cursor,
         \A b \in Bares : muc_senders[b] # NoJID =>
           muc_senders'[b] # NoJID \/ b \in Settled' \/ result' # NoError
  PROVE  DestinationsHandled'
<1>1. destinations' = destinations
  BY DEF Kept
<1>2. QED
  BY <1>1, HandledKept DEF DestinationsHandled

LEMMA QuietAccount ==
  ASSUME Account, UNCHANGED <<streamVars, senderVars, destinations, cursor>>,
         pc' \in {"onConnect", "sending"} => pc' = pc
  PROVE  Account'
  BY DEF Account, DestinationsHandled, SessionWhileSending, SuccessIsComplete,
         NothingBeforeSession, NoSenders, Settled, streamVars, senderVars

LEMMA ConnectingAccount ==
  ASSUME TypeOK, Discipline, Account, Start \/ ConnectDeclined \/ ConnectFails \/ Connected
  PROVE  Account'
<1>1. /\ conn = "idle" /\ cursor = 1 /\ Settled = {} /\ NoSenders
      /\ UNCHANGED <<senderVars, destinations, cursor>>
  BY DEF Discipline, StreamFollowsControl, Account, NothingBeforeSession, Start,
         ConnectDeclined, ConnectFails, Connected, GoTo
<1>2. /\ pc' \in {"onConnect", "sending"} => conn' = "connected"
      /\ conn' = "closed" => result' # NoError
  BY <1>1, StreamAssumption DEF Start, ConnectDeclined, ConnectFails, Connected, Establish,
     OnDisconnect, GoTo, streamVars
<1>3. Settled' = Settled /\ NoSenders' /\ DestinationsHandled'
  BY <1>1 DEF Settled, NoSenders, senderVars, DestinationsHandled
<1>4. QED
  BY <1>1, <1>2, <1>3 DEF Account, SessionWhileSending, SuccessIsComplete, NothingBeforeSession

\* A send during onConnect: the session is there, or its failure is.
LEMMA WriteSession ==
  ASSUME NEW stanzas, Write(stanzas), conn = "connected" \/ result # NoError,
         conn # "closed" => result = NoError
  PROVE  /\ conn' = "connected" \/ result' # NoError
         /\ conn' # "idle"
         /\ ~ (conn' = "closed" /\ result' = NoError)
  BY StreamAssumption DEF Write, OnDisconnect

LEMMA OnConnectAccount ==
  ASSUME TypeOK, Discipline, Traffic, Account, Kept, OnConnect \/ SendTo \/ SendToRoom
  PROVE  Account'
<1>1. /\ conn = "connected" \/ result # NoError
      /\ conn # "closed" => result = NoError
  BY DEF Account, SessionWhileSending, Discipline, StreamFollowsControl, OnConnect,
         SendTo, SendToRoom, NextDestination, GoTo
<1>2. (\E stanzas : Write(stanzas)) \/ UNCHANGED streamVars
  BY DEF OnConnect, SendTo, SendToRoom, StartSender
<1>3. /\ conn' = "connected" \/ result' # NoError
      /\ conn' # "idle"
      /\ ~ (conn' = "closed" /\ result' = NoError)
  BY <1>1, <1>2, WriteSession DEF streamVars
<1>4. DestinationsHandled'
  <2>1. CASE OnConnect
    BY <2>1, AllHandledKept DEF OnConnect, senderVars, Account
  <2>2. CASE SendTo \/ SendToRoom
    <3>1. /\ cursor \in 1..Len(destinations) /\ cursor' = cursor + 1
          /\ destinations' = destinations
      BY <2>2, LenProperties DEF SendTo, SendToRoom, NextDestination, TypeOK
    <3> DEFINE jid == destinations[cursor].jid
    <3>2. jid \in JID /\ jid.bare \in Bares
      BY <3>1, DestinationBare
    <3>3. \/ jid.bare \in Settled'
          \/ muc_senders'[jid.bare] # NoJID
          \/ result' # NoError
      <4>1. CASE SendTo
        <5>1. CASE conn = "connected" /\ conn' = "connected"
          <6>1. written'[jid.bare] > 0
            BY <3>2, <4>1, <5>1, CountedIsWritten DEF SendTo, TypeOK
          <6>2. QED
            BY <3>2, <6>1 DEF Settled
        <5>2. CASE ~ (conn = "connected" /\ conn' = "connected")
          BY <1>1, <1>3, <5>2 DEF Kept
        <5>3. QED
          BY <5>1, <5>2
      <4>2. CASE SendToRoom
        <5>1. WithNick(jid) \in JID /\ WithNick(jid).bare = jid.bare
          BY <3>2, WithNickType DEF WithNick, JID
        <5>2. CASE muc_senders[jid.bare] = NoJID
          <6>1. muc_senders' = [muc_senders EXCEPT ![jid.bare] = WithNick(jid)]
            BY <4>2, <5>1, <5>2 DEF SendToRoom
          <6>2. QED
            BY <3>2, <5>1, <6>1, ServiceAssumption DEF TypeOK, SenderTypeOK
        <5>3. CASE muc_senders[jid.bare] # NoJID
          BY <4>2, <5>1, <5>3 DEF SendToRoom
        <5>4. QED
          BY <5>2, <5>3
      <4>3. QED
        BY <2>2, <4>1, <4>2
    <3>4. \A b \in Bares : muc_senders[b] # NoJID => muc_senders'[b] # NoJID
      <4>1. CASE SendTo
        BY <4>1 DEF SendTo
      <4>2. CASE SendToRoom
        <5>1. WithNick(jid) \in JID
          BY <3>2, WithNickType
        <5>2. \/ muc_senders' = muc_senders
              \/ muc_senders' = [muc_senders EXCEPT ![WithNick(jid).bare] = WithNick(jid)]
          BY <4>2 DEF SendToRoom
        <5>3. QED
          BY <5>1, <5>2, ServiceAssumption DEF TypeOK, SenderTypeOK
      <4>3. QED
        BY <2>2, <4>1, <4>2
    <3> HIDE DEF jid
    <3>5. ASSUME NEW i \in 1..Len(destinations), i < cursor
          PROVE  \/ destinations'[i].jid.bare \in Settled'
                 \/ muc_senders'[destinations'[i].jid.bare] # NoJID
                 \/ result' # NoError
      BY <3>4, <3>5, HandledKept DEF Account, DestinationsHandled
    <3>6. ASSUME NEW i \in 1..Len(destinations), i < cursor + 1
          PROVE  i < cursor \/ i = cursor
      BY <3>1, <3>6, LenProperties DEF TypeOK
    <3>7. QED
      BY <3>1, <3>3, <3>5, <3>6 DEF DestinationsHandled, jid
  <2>3. QED
    BY <2>1, <2>2
<1>5. QED
  BY <1>3, <1>4 DEF Account, SessionWhileSending, SuccessIsComplete, NothingBeforeSession

\* disconnect() is called only when everything is done.
LEMMA ClosingAccount ==
  ASSUME TypeOK, Discipline, Account, Kept, OnConnectDone \/ DisconnectIfLast
  PROVE  Account'
<1>1. /\ UNCHANGED <<senderVars, cursor>> /\ pc' = "receiving"
      /\ cursor > Len(destinations)
      /\ IF NoSenders THEN Disconnect ELSE UNCHANGED streamVars
  BY DEF OnConnectDone, DisconnectIfLast, GoTo, Discipline, SendsBeforeReceiving
<1>2. DestinationsHandled'
  BY <1>1, AllHandledKept DEF Account, senderVars
<1>3. NoSenders' = NoSenders /\ Settled' = Settled
  BY <1>1 DEF NoSenders, Settled, senderVars
<1>4. conn' = "closed" /\ result' = NoError => NoSenders
  BY <1>1 DEF Account, SuccessIsComplete, streamVars
<1>5. conn' = "idle" => conn = "idle"
  BY <1>1 DEF Disconnect, streamVars
<1>6. QED
  BY <1>1, <1>2, <1>3, <1>4, <1>5
     DEF Account, SessionWhileSending, SuccessIsComplete, NothingBeforeSession, Kept

\* A send once onConnect is through, by a step that ends no wait.
LEMMA LaterWriteAccount ==
  ASSUME Account, Kept, (\E stanzas : Write(stanzas)) \/ UNCHANGED <<conn, result>>,
         UNCHANGED cursor, pc' \notin {"onConnect", "sending"},
         NoSenders => NoSenders' /\ Settled' = Settled,
         DestinationsHandled'
  PROVE  Account'
<1>1. /\ conn' = "closed" /\ result' = NoError => conn = "closed" /\ result = NoError
      /\ conn' = "idle" => conn = "idle"
  BY StreamAssumption DEF Write, OnDisconnect
<1>2. QED
  BY <1>1 DEF Account, SessionWhileSending, SuccessIsComplete, NothingBeforeSession, Kept

LEMMA RoomCallbackAccount ==
  ASSUME TypeOK, Account, Kept, RoomCallback
  PROVE  Account'
<1>1. /\ pc' \in {"receiving", "remove"}
      /\ UNCHANGED <<muc_senders, cursor>>
      /\ (\E stanzas : Write(stanzas)) \/ UNCHANGED <<conn, result>>
  BY DEF RoomCallback, Dispatch, HandleMUC, HandleOwnPresence, HandleOtherPresence,
         HandleMUCError, HandleStopMessage, HandleOtherMessage, CallRemoveMucSender,
         senderVars, streamVars
<1>2. ~NoSenders
  <2>1. Head(down) \in DownStanza
    BY HeadTailType DEF TypeOK, ServiceTypeOK, RoomCallback, Dispatch
  <2>2. Head(down).jid.bare \in Bares
    BY <2>1 DEF DownStanza, JID
  <2>3. QED
    BY <2>2 DEF NoSenders, RoomCallback, Live
<1>3. DestinationsHandled'
  BY <1>1, AllHandledKept DEF Account
<1>4. QED
  BY <1>1, <1>2, <1>3, LaterWriteAccount

LEMMA EraseSenderAccount ==
  ASSUME TypeOK, Traffic, Account, Kept, EraseSender
  PROVE  Account'
<1>1. /\ pc' = "lastCheck" /\ UNCHANGED <<cursor, written, reported>>
      /\ muc_senders' = [muc_senders EXCEPT ![removing] = NoJID]
      /\ (\E stanzas : Write(stanzas)) \/ UNCHANGED <<conn, result>>
  BY DEF EraseSender, DestroySender, GoTo
<1>2. Settled' = Settled /\ (NoSenders => NoSenders')
  BY <1>1 DEF Settled, NoSenders, TypeOK, SenderTypeOK
<1>3. \A b \in Bares : muc_senders[b] # NoJID =>
        muc_senders'[b] # NoJID \/ b \in Settled' \/ result' # NoError
  <2>1. removing \in Bares /\ Covered(removing)
    BY DEF Traffic, RemovalEarned, EraseSender, GoTo
  <2>2. muc_senders[removing] # NoJID => removing \in Settled \/ result # NoError
    BY <2>1 DEF Traffic, SendersHome, Covered, Awaited, Earned, Settled
  <2>3. QED
    BY <1>1, <1>2, <2>1, <2>2 DEF Kept, TypeOK, SenderTypeOK
<1>4. DestinationsHandled'
  BY <1>1, <1>3, AllHandledKept DEF Account
<1>5. QED
  BY <1>1, <1>2, <1>4, LaterWriteAccount

\* After the end of the session nobody is left to wait for, or it failed.
LEMMA EndAccount ==
  ASSUME TypeOK, Discipline, Account, Kept, StreamLost \/ StartReturns \/ Destroy
  PROVE  Account'
<1>1. CASE StreamLost
  <2>1. /\ UNCHANGED <<senderVars, cursor>> /\ pc' = "receiving"
        /\ conn' = "closed" /\ result' # NoError
    BY <1>1, StreamAssumption DEF StreamLost, Lose, OnDisconnect, controlVars
  <2>2. DestinationsHandled'
    BY <2>1, AllHandledKept DEF Account, senderVars
  <2>3. QED
    BY <2>1, <2>2 DEF Account, SessionWhileSending, SuccessIsComplete, NothingBeforeSession
<1>2. CASE StartReturns
  BY <1>2, QuietAccount DEF StartReturns, GoTo
<1>3. CASE Destroy
  <2>1. /\ UNCHANGED <<conn, result, cursor, written, reported>> /\ pc' = "exited"
        /\ muc_senders' = [b \in Bares |-> NoJID]
        /\ conn # "connected"
    BY <1>3 DEF Destroy, GoTo, Discipline, StreamFollowsControl, Disconnect
  <2>2. Settled' = Settled /\ NoSenders'
    BY <2>1 DEF Settled, NoSenders
  <2>3. NoSenders \/ result # NoError
    BY <2>1 DEF Account, SuccessIsComplete, NothingBeforeSession, TypeOK, StreamTypeOK
  <2>4. \A b \in Bares : muc_senders[b] # NoJID => result' # NoError
    BY <2>1, <2>3 DEF NoSenders
  <2>5. DestinationsHandled'
    BY <2>1, <2>4, AllHandledKept DEF Account
  <2>6. QED
    BY <2>1, <2>2, <2>5
       DEF Account, SessionWhileSending, SuccessIsComplete, NothingBeforeSession, Kept
<1>4. QED
  BY <1>1, <1>2, <1>3

LEMMA NextAccount ==
  ASSUME TypeOK, Discipline, Traffic, Account, [Next]_vars
  PROVE  Account'
<1>1. Kept
  BY StepKeeps
<1>2. CASE ServiceStep \/ Exited \/ UNCHANGED vars
  BY <1>2, QuietAccount DEF ServiceStep, Exited, vars, controlVars
<1>3. CASE HandleMessage \/ UnhandledPresence \/ LockForRemoval
  <2>1. /\ UNCHANGED <<streamVars, senderVars, destinations, cursor>>
        /\ pc' \notin {"onConnect", "sending"}
    BY <1>3 DEF HandleMessage, UnhandledPresence, LockForRemoval, Dispatch,
       CallRemoveMucSender, GoTo
  <2>2. QED
    BY <2>1, QuietAccount
<1>4. CASE ClientNext
  BY <1>1, <1>3, <1>4, ConnectingAccount, OnConnectAccount, ClosingAccount,
     RoomCallbackAccount, EraseSenderAccount, EndAccount DEF ClientNext
<1>5. QED
  BY <1>2, <1>4 DEF Next

LEMMA InitTraffic == Init => Traffic
<1>1. SUFFICES ASSUME Init PROVE Traffic
  OBVIOUS
<1>2. MessagesEarned
  BY <1>1, EmptySeq DEF Init, ServiceInit, MessagesEarned
<1>3. OccupantsHome /\ SendersHome /\ RemovalEarned /\ DestinationsGiven
  BY <1>1 DEF Init, ServiceInit, SenderInit, OccupantsHome, SendersHome, RemovalEarned,
     DestinationsGiven
<1>4. QED
  BY <1>2, <1>3 DEF Traffic

LEMMA InitAccount == Init => Account
  BY DEF Init, StreamInit, SenderInit, Account, DestinationsHandled, SessionWhileSending,
         SuccessIsComplete, NothingBeforeSession, NoSenders, Settled

LEMMA InitPromise == Init => PInv
  BY InitType, InitDiscipline, InitTraffic, InitHeard, InitAccount DEF PInv, IInv

LEMMA NextPromise ==
  ASSUME HarmlessImpostors
  PROVE  PInv /\ [Next]_vars => PInv'
  BY NextType, NextDiscipline, NextTraffic, NextHeard, NextAccount DEF PInv, IInv

\* The account of every destination is kept, on any interleaving of the
\* thread with rooms, contacts and network.
THEOREM PromiseInvariance ==
  ASSUME HarmlessImpostors
  PROVE  Spec => []PInv
  BY InitPromise, NextPromise, PTL DEF Spec

LEMMA CompleteAtExit ==
  ASSUME PInv, conn = "closed", result = NoError
  PROVE  Owed \subseteq Settled
<1>1. NoSenders /\ cursor > Len(destinations)
  BY DEF PInv, Account, SuccessIsComplete
<1>2. ASSUME NEW i \in 1..Len(destinations)
      PROVE  destinations[i].jid.bare \in Settled
  <2>1. i < cursor /\ destinations[i].jid.bare \in Bares
    BY <1>1, DestinationBare, LenProperties DEF PInv, IInv, TypeOK
  <2>2. QED
    BY <1>1, <2>1 DEF PInv, Account, DestinationsHandled, NoSenders
<1>3. QED
  BY <1>2 DEF Owed

\* Exit code 0 after a session says the truth about every destination: no
\* loss of the connection, refusal, removal or impostor can make it a lie,
\* unless rooms rename us and let impostors write (or contacts are given as
\* rooms and write): then a 'stop' can come that we have not sent.
THEOREM HonestExit ==
  ASSUME HarmlessImpostors
  PROVE  Spec => []ExitCodeHonest
<1>1. PInv => ExitCodeHonest
  BY CompleteAtExit DEF ExitCodeHonest, Owed, Settled
<1>2. QED
  BY <1>1, PromiseInvariance, PTL

-----------------------------------------------------------------------------
(***************************************************************************)
(* Messenger implements Delivery.                                          *)
(***************************************************************************)
\* A step that hands nothing over, reports nobody and does not end the
\* process is a stutter of the promise.
LEMMA StutterMaps ==
  ASSUME UNCHANGED <<written, reported, destinations>>,
         \/ UNCHANGED <<pc, result, conn>>
         \/ pc # "exited" /\ pc' # "exited"
  PROVE  UNCHANGED Promise!deliveryVars
  BY DEF Promise!deliveryVars, Owed, Settled, Outcome

\* A step that touches the account of one destination settles it, or
\* changes nothing if it was settled before.
LEMMA SettleMaps ==
  ASSUME NEW b \in Bares, b \in Owed, UNCHANGED destinations,
         Settled' = Settled \/ Settled' = Settled \cup {b},
         pc # "exited", pc' # "exited"
  PROVE  Promise!Next \/ UNCHANGED Promise!deliveryVars
<1>1. Owed' = Owed /\ Outcome = "running" /\ Outcome' = "running"
  BY DEF Owed, Outcome
<1>2. CASE Settled' = Settled
  BY <1>1, <1>2 DEF Promise!deliveryVars
<1>3. CASE b \notin Settled /\ Settled' = Settled \cup {b}
  <2>1. Promise!Settle(b)
    BY <1>1, <1>3 DEF Promise!Settle
  <2>2. QED
    BY <2>1 DEF Promise!Next
<1>4. QED
  BY <1>2, <1>3

LEMMA CountedSettles ==
  ASSUME SenderTypeOK, NEW b \in Bares, CountWritten(b), UNCHANGED reported
  PROVE  Settled' = Settled \/ Settled' = Settled \cup {b}
<1>1. CASE UNCHANGED written
  BY <1>1 DEF Settled
<1>2. CASE written' = [written EXCEPT ![b] = @ + 1]
  <2>1. \A c \in Bares : written'[c] > 0 <=> written[c] > 0 \/ c = b
    BY <1>2 DEF SenderTypeOK
  <2>2. QED
    BY <2>1 DEF Settled
<1>3. QED
  BY <1>1, <1>2 DEF CountWritten

LEMMA SendToMaps ==
  ASSUME PInv, SendTo
  PROVE  Promise!Next \/ UNCHANGED Promise!deliveryVars
<1> DEFINE b == destinations[cursor].jid.bare
<1>1. cursor \in 1..Len(destinations)
  BY LenProperties DEF PInv, IInv, TypeOK, SendTo, NextDestination
<1>2. b \in Bares /\ b \in Owed
  BY <1>1, DestinationBare DEF PInv, IInv, Owed
<1>3. /\ CountWritten(b) /\ UNCHANGED <<destinations, reported>>
      /\ pc = "sending" /\ pc' = "sending"
  BY DEF SendTo, NextDestination
<1> HIDE DEF b
<1>4. Settled' = Settled \/ Settled' = Settled \cup {b}
  BY <1>2, <1>3, CountedSettles DEF PInv, IInv, TypeOK
<1>5. QED
  BY <1>2, <1>3, <1>4, SettleMaps

LEMMA RoomCallbackMaps ==
  ASSUME PInv, RoomCallback
  PROVE  Promise!Next \/ UNCHANGED Promise!deliveryVars
<1> DEFINE s == Head(down)
           b == s.jid.bare
<1>1. b \in Bares /\ b \in Owed
  <2>1. s \in DownStanza
    BY HeadTailType DEF PInv, IInv, TypeOK, ServiceTypeOK, RoomCallback, Dispatch
  <2>2. b \in Bares
    BY <2>1 DEF DownStanza, JID
  <2>3. QED
    BY <2>2 DEF PInv, Traffic, SendersHome, RoomCallback, Live
<1>2. HandleMUC(s) /\ Dispatch
  BY DEF RoomCallback
<1> HIDE DEF s
<1>3. pc # "exited" /\ pc' # "exited" /\ UNCHANGED destinations
  BY <1>2 DEF Dispatch, HandleMUC, HandleOwnPresence, HandleOtherPresence, HandleMUCError,
     HandleStopMessage, HandleOtherMessage, CallRemoveMucSender
<1>4. Settled' = Settled \/ Settled' = Settled \cup {b}
  <2>1. CASE HandleOwnPresence(s)
    BY <1>1, <2>1, CountedSettles DEF HandleOwnPresence, PInv, IInv, TypeOK
  <2>2. CASE HandleMUCError(s)
    BY <2>2 DEF HandleMUCError, Settled
  <2>3. CASE UNCHANGED senderVars
    BY <2>3 DEF senderVars, Settled
  <2>4. QED
    BY <1>2, <2>1, <2>2, <2>3 DEF HandleMUC, HandleOtherPresence, HandleStopMessage,
       HandleOtherMessage
<1>5. QED
  BY <1>1, <1>3, <1>4, SettleMaps

LEMMA DestroyMaps ==
  ASSUME PInv, Destroy
  PROVE  Promise!Next
<1>1. /\ UNCHANGED <<conn, result, written, reported, destinations>>
      /\ pc = "returned" /\ pc' = "exited" /\ conn # "connected"
  BY DEF Destroy, GoTo, PInv, IInv, Discipline, StreamFollowsControl, Disconnect
<1>2. Owed' = Owed /\ Settled' = Settled /\ Outcome = "running"
  BY <1>1 DEF Owed, Settled, Outcome
<1>3. CASE result # NoError
  <2>1. Outcome' = "failure"
    BY <1>1, <1>3 DEF Outcome
  <2>2. QED
    BY <1>2, <2>1 DEF Promise!Next, Promise!Fail, Promise!End
<1>4. CASE result = NoError /\ conn = "idle"
  <2>1. Outcome' = "unstarted" /\ Settled = {}
    BY <1>1, <1>4 DEF Outcome, PInv, Account, NothingBeforeSession
  <2>2. QED
    BY <1>2, <2>1 DEF Promise!Next, Promise!NeverStart, Promise!End
<1>5. CASE result = NoError /\ conn = "closed"
  <2>1. Outcome' = "success"
    BY <1>1, <1>5 DEF Outcome
  <2>2. Owed \subseteq Settled
    BY <1>5, CompleteAtExit
  <2>3. QED
    BY <1>2, <2>1, <2>2 DEF Promise!Next, Promise!Succeed, Promise!End
<1>6. QED
  BY <1>1, <1>3, <1>4, <1>5 DEF PInv, IInv, TypeOK, StreamTypeOK

LEMMA StepMaps ==
  ASSUME PInv, [Next]_vars
  PROVE  Promise!Next \/ UNCHANGED Promise!deliveryVars
<1>1. CASE ServiceStep \/ Exited \/ UNCHANGED vars
  BY <1>1, StutterMaps DEF ServiceStep, Exited, vars, senderVars, streamVars, controlVars
<1>2. CASE \/ Start \/ ConnectDeclined \/ ConnectFails \/ Connected
           \/ OnConnect \/ SendToRoom \/ OnConnectDone \/ HandleMessage \/ UnhandledPresence
           \/ LockForRemoval \/ EraseSender \/ DisconnectIfLast \/ StreamLost \/ StartReturns
  <2>1. /\ UNCHANGED <<written, reported, destinations>>
        /\ pc # "exited" /\ pc' # "exited"
    BY <1>2 DEF Start, ConnectDeclined, ConnectFails, Connected, OnConnect, SendToRoom,
       NextDestination, OnConnectDone, HandleMessage, UnhandledPresence, Dispatch,
       CallRemoveMucSender, LockForRemoval, EraseSender, DisconnectIfLast, StreamLost,
       StartReturns, GoTo, senderVars, controlVars
  <2>2. QED
    BY <2>1, StutterMaps
<1>3. CASE ClientNext
  BY <1>2, <1>3, SendToMaps, RoomCallbackMaps, DestroyMaps DEF ClientNext
<1>4. QED
  BY <1>1, <1>3 DEF Next

\* A step settles one destination or none, and does not change what is owed.
LEMMA StepSettles ==
  ASSUME PInv, [Next]_vars
  PROVE  /\ Owed' = Owed
         /\ Settled' = Settled \/ \E b \in Owed \ Settled : Settled' = Settled \cup {b}
  BY StepMaps DEF Promise!Next, Promise!Settle, Promise!Succeed, Promise!Fail,
     Promise!NeverStart, Promise!End, Promise!deliveryVars

LEMMA InitMaps == Init => Promise!Init
<1>1. SUFFICES ASSUME Init PROVE Promise!Init
  OBVIOUS
<1>2. Owed \subseteq Bares
  BY <1>1, InitType, DestinationBare DEF Owed
<1>3. Settled = {} /\ Outcome = "running"
  BY <1>1 DEF Init, SenderInit, Settled, Outcome
<1>4. QED
  BY <1>2, <1>3 DEF Promise!Init

\* Every behaviour of the program, seen from outside, is one Delivery allows:
\* what is settled stays settled, only what is owed is settled, and success
\* is reported only when nothing is left.
THEOREM PromiseKept ==
  ASSUME HarmlessImpostors
  PROVE  Spec => KeepsPromise
<1>1. PInv /\ [Next]_vars => [Promise!Next]_(Promise!deliveryVars)
  BY StepMaps
<1>2. QED
  BY <1>1, InitMaps, PromiseInvariance, PTL DEF Spec, KeepsPromise, Promise!Spec
=============================================================================
