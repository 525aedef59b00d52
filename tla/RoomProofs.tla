----------------------------- MODULE RoomProofs -----------------------------
(***************************************************************************)
(* What the program and a chat room owe each other, for any rooms,         *)
(* nicknames, destinations, replies and failures: a clean close finds the  *)
(* text in every room that was not complained about (ConfirmedBeforeClose),*)
(* and no room gets it more often than it let us in (OncePerPresence).     *)
(*                                                                         *)
(* The first rests on the order of the two queues, the second on a count   *)
(* of the stanzas that can still make the text appear.                     *)
(***************************************************************************)
EXTENDS MessengerProofs, FiniteSetTheorems

-----------------------------------------------------------------------------
(***************************************************************************)
(* Counting in a queue.                                                    *)
(***************************************************************************)
Places(q, B) == {j \in 1..Len(q) : q[j] \in B}
Count(q, B) == Cardinality(Places(q, B))

LEMMA PlacesFinite ==
  ASSUME NEW S, NEW q \in Seq(S), NEW B
  PROVE  IsFiniteSet(Places(q, B)) /\ Count(q, B) \in Nat
<1>1. IsFiniteSet(1..Len(q))
  BY LenProperties, FS_Interval
<1>2. IsFiniteSet(Places(q, B))
  BY <1>1, FS_Subset DEF Places
<1>3. QED
  BY <1>2, FS_CardinalityType DEF Count

LEMMA CountEmpty ==
  ASSUME NEW B
  PROVE  Count(<<>>, B) = 0
<1>1. Places(<<>>, B) = {}
  BY DEF Places
<1>2. QED
  BY <1>1, FS_EmptySet DEF Count

LEMMA CountAppend ==
  ASSUME NEW S, NEW q \in Seq(S), NEW x, NEW B
  PROVE  Count(Append(q, x), B) = IF x \in B THEN Count(q, B) + 1 ELSE Count(q, B)
<1>1. /\ Len(q) \in Nat /\ Len(Append(q, x)) = Len(q) + 1
      /\ Append(q, x)[Len(q) + 1] = x
      /\ \A j \in 1..Len(q) : Append(q, x)[j] = q[j]
  BY LenProperties, AppendProperties
<1>2. IsFiniteSet(Places(q, B)) /\ Len(q) + 1 \notin Places(q, B)
  <2>1. IsFiniteSet(Places(q, B))
    BY PlacesFinite
  <2>2. Len(q) + 1 \notin Places(q, B)
    BY <1>1 DEF Places
  <2>3. QED
    BY <2>1, <2>2
<1>3. CASE x \in B
  <2>1. Places(Append(q, x), B) = Places(q, B) \cup {Len(q) + 1}
    BY <1>1, <1>3 DEF Places
  <2>2. QED
    BY <1>2, <1>3, <2>1, FS_AddElement DEF Count
<1>4. CASE x \notin B
  <2>1. Places(Append(q, x), B) = Places(q, B)
    BY <1>1, <1>4 DEF Places
  <2>2. QED
    BY <1>4, <2>1 DEF Count
<1>5. QED
  BY <1>3, <1>4

LEMMA CountAppendPair ==
  ASSUME NEW S, NEW q \in Seq(S), NEW x \in S, NEW B, NEW y, y \notin B
  PROVE  Count(Append(Append(q, x), y), B) = IF x \in B THEN Count(q, B) + 1 ELSE Count(q, B)
<1> DEFINE p == Append(q, x)
<1>1. p \in Seq(S)
  BY AppendType
<1>2. Count(p, B) = IF x \in B THEN Count(q, B) + 1 ELSE Count(q, B)
  BY CountAppend
<1> HIDE DEF p
<1>3. Count(Append(p, y), B) = Count(p, B)
  BY <1>1, CountAppend
<1>4. QED
  BY <1>2, <1>3 DEF p

\* The places of the tail are those of the queue, one further on.
LEMMA CountTail ==
  ASSUME NEW S, NEW q \in Seq(S), q # <<>>, NEW B
  PROVE  Count(q, B) = IF Head(q) \in B THEN Count(Tail(q), B) + 1 ELSE Count(Tail(q), B)
<1> DEFINE rest == Places(q, B) \ {1}
           f == [j \in Places(Tail(q), B) |-> j + 1]
<1>1. /\ Len(q) \in Nat \ {0} /\ Head(q) = q[1] /\ Len(Tail(q)) = Len(q) - 1
      /\ \A j \in 1..(Len(q) - 1) : Tail(q)[j] = q[j + 1]
      /\ Tail(q) \in Seq(S)
  BY LenProperties, HeadTailProperties
<1>2. IsFiniteSet(Places(q, B)) /\ IsFiniteSet(Places(Tail(q), B))
  BY <1>1, PlacesFinite
<1>3. \A j \in Places(Tail(q), B) : j \in Nat /\ j + 1 \in rest
  BY <1>1 DEF Places
<1>4. \A k \in rest : k - 1 \in Places(Tail(q), B) /\ (k - 1) + 1 = k
  BY <1>1 DEF Places
<1>5. f \in Bijection(Places(Tail(q), B), rest)
  <2>1. f \in [Places(Tail(q), B) -> rest]
    BY <1>3
  <2>2. \A i, j \in Places(Tail(q), B) : f[i] = f[j] => i = j
    BY <1>3
  <2>3. \A k \in rest : \E j \in Places(Tail(q), B) : f[j] = k
    BY <1>4
  <2> HIDE DEF f, rest
  <2>4. QED
    BY <2>1, <2>2, <2>3 DEF Bijection, Injection, IsInjective, Surjection
<1>6. Cardinality(rest) = Count(Tail(q), B)
  <2>1. ExistsBijection(Places(Tail(q), B), rest)
    BY <1>5 DEF ExistsBijection
  <2>2. QED
    BY <1>2, <2>1, FS_Bijection DEF Count
<1>7. Head(q) \in B <=> 1 \in Places(q, B)
  BY <1>1 DEF Places
<1>8. Count(q, B) \in Nat
  BY PlacesFinite
<1>9. Cardinality(rest) = IF 1 \in Places(q, B) THEN Count(q, B) - 1 ELSE Count(q, B)
  BY <1>2, FS_RemoveElement DEF Count
<1> HIDE DEF rest
<1>10. QED
  BY <1>6, <1>7, <1>8, <1>9

LEMMA CountPrefix ==
  ASSUME NEW S, NEW q \in Seq(S), NEW n \in 0..Len(q), NEW B
  PROVE  Count(SubSeq(q, 1, n), B) <= Count(q, B)
<1>1. /\ Len(q) \in Nat /\ Len(SubSeq(q, 1, n)) = n
      /\ \A j \in 1..n : SubSeq(q, 1, n)[j] = q[j]
  BY LenProperties, SubSeqProperties
<1>2. Places(SubSeq(q, 1, n), B) \subseteq Places(q, B)
  BY <1>1 DEF Places
<1>3. QED
  BY <1>2, PlacesFinite, FS_Subset DEF Count
-----------------------------------------------------------------------------
(***************************************************************************)
(* The invariant.                                                          *)
(***************************************************************************)
\* Nothing is due to the room any more, or nobody will wait for it.
Excused(b) == accepted[b] > 0 \/ b \in reported \/ (muc_senders[b] = NoJID /\ ~Enlisting)

\* What travels between the client and room b.
Texts(b) == {s \in UpStanza : s.kind = "groupchat" /\ s.jid.bare = b}
Stops(b) == {s \in UpStanza : s.kind = "chat" /\ s.jid.bare = b /\ s.body = Resource}
Joins(b) == {s \in UpStanza : s.kind = "join" /\ s.jid.bare = b}
Errors(b) == {s \in DownStanza : s.kind = "messageError" /\ s.jid.bare = b}
Echoes(b) == {s \in DownStanza : s.kind = "message" /\ s.jid.bare = b /\ s.body = Resource}

\* A 'stop' follows the text it is to confirm, and comes back after the
\* room's word on it.
InOrder(b) ==
  \/ Excused(b)
  \/ /\ Preceded(down, Errors(b), Echoes(b))
     /\ Has(down, Errors(b)) \/ Preceded(up, Texts(b), Stops(b))

Orderly == \A b \in Rooms : InOrder(b)

RemovalConfirmed == pc \in {"remove", "erase"} /\ removing \in Rooms => Excused(removing)

\* The rooms onConnect has been through.
WaitedFor(b) == muc_senders[b] # NoJID \/ accepted[b] > 0 \/ b \in reported
RoomsHandled ==
  pc # "exited" =>
    \A i \in 1..Len(destinations) :
      /\ i < cursor
      /\ destinations[i].type = "Groupchat"
      /\ destinations[i].jid.bare \in Rooms
      => WaitedFor(destinations[i].jid.bare)

Session == SessionWhileSending /\ SuccessIsComplete

RInv ==
  /\ IInv
  /\ Homes
  /\ Orderly
  /\ RemovalConfirmed
  /\ RoomsHandled
  /\ Session
  /\ DestinationsGiven
  /\ ConfirmedBeforeClose

\* No other occupant writes our resource, and no text equal to it goes to a
\* room as a private message of ours.  What contacts write does not matter.
NoRoomImpostors ==
  /\ "chatter" \notin Unsolicited
  /\ Message = Resource =>
       \A list \in DestinationLists : \A i \in 1..Len(list) :
         list[i].type = "Normal" => list[i].jid.bare \notin Rooms

-----------------------------------------------------------------------------
(***************************************************************************)
(* What no step takes back: an acceptance, a report, and the end of a      *)
(* sender once onConnect is over.                                          *)
(***************************************************************************)
LEMMA AcceptedKept ==
  ASSUME TypeOK, [Next]_vars, NEW b \in Rooms
  PROVE  accepted[b] > 0 => accepted'[b] > 0
<1>1. CASE RoomAccepts
  BY <1>1 DEF RoomAccepts, TypeOK, ServiceTypeOK
<1>2. CASE UNCHANGED accepted
  BY <1>2
<1>3. QED
  BY <1>1, <1>2 DEF Next, ServiceStep, ServiceNext, ServerStep, RoomAdmits, RoomRenames, RoomRefuses,
     RoomIgnores, RoomRelays, StanzaRejected, UserReceives, RoomReleases, UnsolicitedStep,
     RoomRepeatsPresence, OccupantWrites, RoomKicks, ContactWrites, Break,
     ClientNext, Start, ConnectDeclined, ConnectFails, Connected, OnConnect,
     SendTo, SendToRoom, NextDestination, OnConnectDone, RoomCallback, HandleMessage,
     UnhandledPresence, Dispatch, LockForRemoval, EraseSender, DisconnectIfLast, StreamLost,
     StartReturns, Destroy, Exited, ServiceKept, vars, serviceVars

LEMMA ExcusedKept ==
  ASSUME TypeOK, [Next]_vars, NEW b \in Rooms, Excused(b)
  PROVE  Excused(b)'
<1>1. reported \subseteq reported'
  BY StepKeeps DEF Kept
<1>2. b \in Bares
  BY DEF Bares
<1>3. QED
  BY <1>1, <1>2, AcceptedKept, SendersOnlyLeave DEF Excused

-----------------------------------------------------------------------------
(***************************************************************************)
(* Order of the queues: the service.                                       *)
(***************************************************************************)
\* A stanza taken off and answered: the answer is no echo unless a 'stop'
\* was taken, and a text that is taken is answered with an error, or accepted.
LEMMA AnswerOrder ==
  ASSUME TypeOK, NEW b \in Rooms, ~Excused(b), InOrder(b),
         up # <<>>, up' = Tail(up),
         NEW x \in DownStanza,
         down' = down \/ down' = Append(down, x),
         x \in Echoes(b) /\ down' # down => Head(up) \in Stops(b),
         Head(up) \in Texts(b) => down' = Append(down, x) /\ x \in Errors(b)
  PROVE  InOrder(b)'
<1>0. up \in Seq(UpStanza) /\ down \in Seq(DownStanza)
  BY DEF TypeOK, ServiceTypeOK
<1>1. /\ Preceded(down, Errors(b), Echoes(b))
      /\ Has(down, Errors(b)) \/ Preceded(up, Texts(b), Stops(b))
  BY DEF InOrder
<1>2. Preceded(down', Errors(b), Echoes(b))
  <2>1. CASE down' = down
    BY <1>1, <2>1
  <2>2. CASE down' = Append(down, x) /\ down' # down
    <3>1. x \notin Echoes(b) \/ Has(down, Errors(b))
      BY <1>0, <1>1, <2>2, PrecededHead
    <3>2. QED
      BY <1>0, <1>1, <2>2, <3>1, PrecededAppend
  <2>3. QED
    BY <2>1, <2>2
<1>3. Has(down', Errors(b)) \/ Preceded(up', Texts(b), Stops(b))
  <2>1. CASE Has(down, Errors(b))
    BY <1>0, <2>1, HasAppend
  <2>2. CASE Head(up) \in Texts(b)
    BY <1>0, <2>2, HasAppend
  <2>3. CASE Preceded(up, Texts(b), Stops(b)) /\ Head(up) \notin Texts(b)
    BY <1>0, <2>3, PrecededTail
  <2>4. QED
    BY <1>1, <2>1, <2>2, <2>3
<1>4. Errors(b)' = Errors(b) /\ Echoes(b)' = Echoes(b) /\ Texts(b)' = Texts(b) /\ Stops(b)' = Stops(b)
  BY DEF Errors, Echoes, Texts, Stops
<1>5. QED
  BY <1>2, <1>3, <1>4 DEF InOrder

LEMMA ServerOrder ==
  ASSUME TypeOK, OccupantsHome, NEW b \in Rooms, InOrder(b), ~Excused(b), ~Excused(b)', ServerStep
  PROVE  InOrder(b)'
<1> USE ServiceAssumption
<1>0. ServiceTypeOK /\ accepted \in [Rooms -> Nat] /\ occupants \in [Rooms -> JID \cup {NoJID}]
  BY DEF TypeOK, ServiceTypeOK
<1>1. CASE RoomAdmits
  <2> DEFINE x == Stanza("presence", Head(up).jid, NoBody)
  <2>1. x \in DownStanza /\ x \notin Echoes(b) /\ x \notin Errors(b)
    BY <1>0, <1>1, ReadStanza, DownStanzaType DEF RoomAdmits, DownKind, Body, Echoes, Errors, Stanza
  <2>2. /\ up # <<>> /\ up' = Tail(up) /\ down' = Append(down, x)
        /\ Head(up) \notin Texts(b)
    BY <1>0, <1>1, ReadStanza DEF RoomAdmits, Answer, Texts
  <2> HIDE DEF x
  <2>3. QED
    BY <2>1, <2>2, AnswerOrder
<1>2. CASE RoomRenames
  <2>1. PICK nick \in Nicks \ {Head(up).jid.resource} :
          LET given == [Head(up).jid EXCEPT !.resource = nick]
          IN  /\ occupants' = [occupants EXCEPT ![given.bare] = given]
              /\ Answer("presence", given, NoBody)
    BY <1>2 DEF RoomRenames
  <2> DEFINE given == [Head(up).jid EXCEPT !.resource = nick]
             x == Stanza("presence", given, NoBody)
  <2>2. given \in JID
    BY <1>0, <1>2, ReadStanza DEF RoomRenames, JID
  <2>3. down' = Append(down, x)
    BY <2>1 DEF Answer
  <2> HIDE DEF given
  <2>4. x \in DownStanza /\ x \notin Echoes(b) /\ x \notin Errors(b)
    BY <2>2, DownStanzaType DEF DownKind, Body, Echoes, Errors, Stanza
  <2>5. up # <<>> /\ up' = Tail(up) /\ Head(up) \notin Texts(b)
    BY <1>0, <1>2, ReadStanza DEF RoomRenames, Texts
  <2> HIDE DEF x
  <2>6. QED
    BY <2>3, <2>4, <2>5, AnswerOrder
<1>3. CASE RoomRefuses
  <2> DEFINE x == Stanza("presenceError", Head(up).jid, NoBody)
  <2>1. x \in DownStanza /\ x \notin Echoes(b) /\ x \notin Errors(b)
    BY <1>0, <1>3, ReadStanza, DownStanzaType DEF RoomRefuses, DownKind, Body, Echoes, Errors, Stanza
  <2>2. /\ up # <<>> /\ up' = Tail(up) /\ down' = Append(down, x)
        /\ Head(up) \notin Texts(b)
    BY <1>0, <1>3, ReadStanza DEF RoomRefuses, Answer, Texts
  <2> HIDE DEF x
  <2>3. QED
    BY <2>1, <2>2, AnswerOrder
<1>4. CASE RoomIgnores \/ UserReceives
  <2> DEFINE x == Stanza("presence", Head(up).jid, NoBody)
  <2>1. x \in DownStanza
    BY <1>0, <1>4, ReadStanza, DownStanzaType DEF RoomIgnores, UserReceives, DownKind, Body
  <2>2. /\ up # <<>> /\ up' = Tail(up) /\ down' = down
        /\ Head(up) \notin Texts(b)
    BY <1>0, <1>4, ReadStanza DEF RoomIgnores, UserReceives, Texts
  <2> HIDE DEF x
  <2>3. QED
    BY <2>1, <2>2, AnswerOrder
<1>5. CASE RoomAccepts
  <2> DEFINE r == Head(up).jid.bare
             x == Stanza("message", occupants[r], Head(up).body)
  <2>1. r \in Rooms /\ occupants[r] \in JID /\ occupants[r].bare = r
    BY <1>0, <1>5 DEF RoomAccepts, OccupantsHome
  <2>2. r # b
    BY <1>0, <1>5, <2>1 DEF RoomAccepts, Excused
  <2>3. x \in DownStanza /\ x \notin Echoes(b)
    BY <1>0, <1>5, <2>1, <2>2, ReadStanza, DownStanzaType DEF RoomAccepts, DownKind, Echoes, Stanza
  <2>4. /\ up # <<>> /\ up' = Tail(up) /\ down' = Append(down, x)
        /\ Head(up) \notin Texts(b)
    BY <1>0, <1>5, <2>2, ReadStanza DEF RoomAccepts, Answer, Texts
  <2> HIDE DEF x
  <2>5. QED
    BY <2>3, <2>4, AnswerOrder
<1>6. CASE RoomRelays
  <2> DEFINE x == Stanza("message", Head(up).jid, Head(up).body)
  <2>1. x \in DownStanza /\ (x \in Echoes(b) => Head(up) \in Stops(b))
    BY <1>0, <1>6, ReadStanza, DownStanzaType DEF RoomRelays, DownKind, Echoes, Stops, Stanza
  <2>2. /\ up # <<>> /\ up' = Tail(up) /\ down' = Append(down, x)
        /\ Head(up) \notin Texts(b)
    BY <1>0, <1>6, ReadStanza DEF RoomRelays, Answer, Texts
  <2> HIDE DEF x
  <2>3. QED
    BY <2>1, <2>2, AnswerOrder
<1>7. CASE StanzaRejected
  <2> DEFINE x == Stanza("messageError", Head(up).jid, Head(up).body)
  <2>1. PICK kind \in {"groupchat", "chat"} : ServerReads(kind)
    BY <1>7 DEF StanzaRejected
  <2>2. /\ up # <<>> /\ up' = Tail(up) /\ Head(up) \in UpStanza
        /\ Head(up).jid \in JID /\ Head(up).body \in Body
    BY <1>0, <2>1, ReadStanza
  <2>3. down' = Append(down, x)
    BY <1>7 DEF StanzaRejected, Answer
  <2>4. x \in DownStanza /\ x \notin Echoes(b) /\ (Head(up) \in Texts(b) => x \in Errors(b))
    BY <2>2, DownStanzaType DEF DownKind, Echoes, Errors, Texts, Stanza
  <2> HIDE DEF x
  <2>5. QED
    BY <2>2, <2>3, <2>4, AnswerOrder
<1>8. CASE RoomReleases
  <2> DEFINE x == Stanza("unavailable", Head(up).jid, NoBody)
  <2>1. x \in DownStanza /\ x \notin Echoes(b) /\ x \notin Errors(b)
    BY <1>0, <1>8, ReadStanza, DownStanzaType DEF RoomReleases, DownKind, Body, Echoes, Errors, Stanza
  <2>2. /\ up # <<>> /\ up' = Tail(up) /\ down' = Append(down, x)
        /\ Head(up) \notin Texts(b)
    BY <1>0, <1>8, ReadStanza DEF RoomReleases, Answer, Texts
  <2> HIDE DEF x
  <2>3. QED
    BY <2>1, <2>2, AnswerOrder
<1>9. QED
  BY <1>1, <1>2, <1>3, <1>4, <1>5, <1>6, <1>7, <1>8 DEF ServerStep

\* Something that is neither an echo nor an error comes by itself.
LEMMA ArrivalOrder ==
  ASSUME TypeOK, NEW b \in Rooms, InOrder(b), ~Excused(b), UNCHANGED up,
         NEW x \in DownStanza, x \notin Echoes(b), down' = Append(down, x)
  PROVE  InOrder(b)'
<1>0. down \in Seq(DownStanza)
  BY DEF TypeOK, ServiceTypeOK
<1>1. Preceded(down', Errors(b), Echoes(b))
  BY <1>0, PrecededAppend DEF InOrder
<1>2. Has(down', Errors(b)) \/ Preceded(up', Texts(b), Stops(b))
  BY <1>0, HasAppend DEF InOrder
<1>3. Errors(b)' = Errors(b) /\ Echoes(b)' = Echoes(b) /\ Texts(b)' = Texts(b) /\ Stops(b)' = Stops(b)
  BY DEF Errors, Echoes, Texts, Stops
<1>4. QED
  BY <1>1, <1>2, <1>3 DEF InOrder

LEMMA UnsolicitedOrder ==
  ASSUME TypeOK, NoRoomImpostors, NEW b \in Rooms, InOrder(b), ~Excused(b), UnsolicitedStep
  PROVE  InOrder(b)'
<1> USE ServiceAssumption
<1>0. occupants \in [Rooms -> JID \cup {NoJID}]
  BY DEF TypeOK, ServiceTypeOK
<1>1. ASSUME NEW r \in Rooms, RoomRepeatsPresence(r)
      PROVE  InOrder(b)'
  <2> DEFINE x == Stanza("presence", occupants[r], NoBody)
  <2>1. x \in DownStanza /\ x \notin Echoes(b)
    BY <1>0, <1>1, DownStanzaType DEF RoomRepeatsPresence, DownKind, Body, Echoes, Stanza
  <2>2. UNCHANGED up /\ down' = Append(down, x)
    BY <1>1 DEF RoomRepeatsPresence, Answer
  <2> HIDE DEF x
  <2>3. QED
    BY <2>1, <2>2, ArrivalOrder
<1>2. ASSUME NEW r \in Rooms, OccupantWrites(r)
      PROVE  FALSE
  BY <1>2 DEF OccupantWrites, SpendUnsolicited, NoRoomImpostors
<1>3. ASSUME NEW r \in Rooms, RoomKicks(r)
      PROVE  InOrder(b)'
  <2> DEFINE x == Stanza("unavailable", occupants[r], NoBody)
  <2>1. x \in DownStanza /\ x \notin Echoes(b)
    BY <1>0, <1>3, DownStanzaType DEF RoomKicks, DownKind, Body, Echoes, Stanza
  <2>2. UNCHANGED up /\ down' = Append(down, x)
    BY <1>3 DEF RoomKicks, Answer
  <2> HIDE DEF x
  <2>3. QED
    BY <2>1, <2>2, ArrivalOrder
<1>4. ASSUME NEW u \in Users, ContactWrites(u)
      PROVE  InOrder(b)'
  <2>1. PICK text \in {Message, Resource} :
          Answer("message", [bare |-> u, resource |-> NoResource], text)
    BY <1>4 DEF ContactWrites
  <2> DEFINE jid == [bare |-> u, resource |-> NoResource]
             x == Stanza("message", jid, text)
  <2>2. jid \in JID /\ jid.bare = u /\ u # b
    BY DEF JID, Bares
  <2>3. UNCHANGED up /\ down' = Append(down, x)
    BY <1>4, <2>1 DEF ContactWrites, Answer
  <2> HIDE DEF jid
  <2>4. x \in DownStanza /\ x \notin Echoes(b)
    BY <2>2, DownStanzaType DEF DownKind, Body, Echoes, Stanza
  <2> HIDE DEF x
  <2>5. QED
    BY <2>3, <2>4, ArrivalOrder
<1>5. QED
  BY <1>1, <1>2, <1>3, <1>4 DEF UnsolicitedStep

LEMMA BreakOrder ==
  ASSUME TypeOK, NEW b \in Rooms, InOrder(b), ~Excused(b), Break
  PROVE  InOrder(b)'
<1>1. PICK n \in 0..Len(down) : down' = SubSeq(down, 1, n)
  BY DEF Break
<1>2. Preceded(down', Errors(b), Echoes(b))
  BY <1>1, PrecededPrefix DEF InOrder, TypeOK, ServiceTypeOK
<1>3. Preceded(up', Texts(b), Stops(b))
  BY PrecededEmpty DEF Break
<1>4. Errors(b)' = Errors(b) /\ Echoes(b)' = Echoes(b) /\ Texts(b)' = Texts(b) /\ Stops(b)' = Stops(b)
  BY DEF Errors, Echoes, Texts, Stops
<1>5. QED
  BY <1>2, <1>3, <1>4 DEF InOrder

LEMMA ServiceOrder ==
  ASSUME TypeOK, OccupantsHome, NoRoomImpostors, NEW b \in Rooms, InOrder(b), ServiceStep
  PROVE  InOrder(b)'
<1>1. CASE Excused(b)'
  BY <1>1 DEF InOrder
<1>2. CASE ~Excused(b)'
  <2>1. ~Excused(b)
    BY <1>2, ExcusedKept DEF Next
  <2>2. QED
    BY <1>2, <2>1, ServerOrder, UnsolicitedOrder, BreakOrder DEF ServiceStep, ServiceNext
<1>3. QED
  BY <1>1, <1>2
-----------------------------------------------------------------------------
(***************************************************************************)
(* Order of the queues: the client.                                        *)
(***************************************************************************)
UpOrder(b) == Preceded(up, Texts(b), Stops(b))

LEMMA WriteOrder ==
  ASSUME TypeOK, NEW b, UpOrder(b), NEW x \in UpStanza, x \notin Stops(b), Write(<<x>>)
  PROVE  UpOrder(b)'
<1>0. up \in Seq(UpStanza)
  BY DEF TypeOK, ServiceTypeOK
<1>1. up' = up \/ up' = Append(up, x)
  BY <1>0, ConcatSingle DEF Write
<1>2. Preceded(up', Texts(b), Stops(b))
  BY <1>0, <1>1, PrecededAppend DEF UpOrder
<1>3. Texts(b)' = Texts(b) /\ Stops(b)' = Stops(b)
  BY DEF Texts, Stops
<1>4. QED
  BY <1>2, <1>3 DEF UpOrder

LEMMA WritePairOrder ==
  ASSUME TypeOK, NEW b, UpOrder(b), NEW x \in UpStanza, NEW y \in UpStanza,
         x \notin Stops(b), y \in Stops(b) => x \in Texts(b), Write(<<x, y>>)
  PROVE  UpOrder(b)'
<1>0. up \in Seq(UpStanza) /\ Append(up, x) \in Seq(UpStanza)
  BY AppendType DEF TypeOK, ServiceTypeOK
<1>1. up' = up \/ up' = Append(Append(up, x), y)
  BY <1>0, ConcatPair DEF Write
<1>2. Preceded(Append(up, x), Texts(b), Stops(b))
  BY <1>0, PrecededAppend DEF UpOrder
<1>3. y \notin Stops(b) \/ Has(Append(up, x), Texts(b))
  BY <1>0, HasAppend
<1>4. Preceded(Append(Append(up, x), y), Texts(b), Stops(b))
  BY <1>0, <1>2, <1>3, PrecededAppend
<1>5. Texts(b)' = Texts(b) /\ Stops(b)' = Stops(b)
  BY DEF Texts, Stops
<1>6. QED
  BY <1>1, <1>4, <1>5 DEF UpOrder

LEMMA WriteNothingOrder ==
  ASSUME TypeOK, NEW b, UpOrder(b), Write(<<>>)
  PROVE  UpOrder(b)'
<1>1. up' = up
  BY DEF Write, TypeOK, ServiceTypeOK
<1>2. QED
  BY <1>1 DEF UpOrder, Texts, Stops

\* A step of the client that takes nothing off the queue of answers.
LEMMA SilentOrder ==
  ASSUME NEW b, InOrder(b), ~Excused(b), UNCHANGED down, UpOrder(b) => UpOrder(b)'
  PROVE  InOrder(b)'
  BY DEF InOrder, UpOrder, Errors, Echoes, Texts, Stops

\* One that takes something off, but no error of the room.
LEMMA DispatchOrder ==
  ASSUME TypeOK, NEW b, InOrder(b), ~Excused(b), Dispatch, Head(down) \notin Errors(b),
         UpOrder(b) => UpOrder(b)'
  PROVE  InOrder(b)'
<1>0. down \in Seq(DownStanza) /\ down # <<>> /\ down' = Tail(down)
  BY DEF TypeOK, ServiceTypeOK, Dispatch
<1>1. Preceded(down', Errors(b), Echoes(b))
  BY <1>0, PrecededTail DEF InOrder
<1>2. Has(down', Errors(b)) \/ UpOrder(b)'
  BY <1>0, HasTail DEF InOrder, UpOrder
<1>3. Errors(b)' = Errors(b) /\ Echoes(b)' = Echoes(b)
  BY DEF Errors, Echoes
<1>4. QED
  BY <1>1, <1>2, <1>3 DEF InOrder, UpOrder

LEMMA RoomCallbackOrder ==
  ASSUME TypeOK, SendersFiled, NEW b \in Rooms, InOrder(b), ~Excused(b), ~Excused(b)', RoomCallback
  PROVE  InOrder(b)'
<1> DEFINE s == Head(down)
           c == s.jid.bare
<1>1. /\ s \in DownStanza /\ c \in Bares /\ HandleMUC(s)
      /\ muc_senders[c] \in JID /\ muc_senders[c].bare = c
  BY RoomCallbackMoves
<1>2. Dispatch
  BY DEF RoomCallback
<1> HIDE DEF s
<1>3. s \notin Errors(b)
  BY <1>1 DEF Errors, Excused, HandleMUC, HandleOwnPresence, HandleOtherPresence, HandleMUCError,
     HandleStopMessage, HandleOtherMessage
<1>4. UpOrder(b) => UpOrder(b)'
  <2>1. CASE HandleOwnPresence(s)
    <3> DEFINE text == Stanza("groupchat", RoomJid(c), Message)
               stop == Stanza("chat", muc_senders[c], Resource)
    <3>1. RoomJid(c) \in JID /\ RoomJid(c).bare = c
      BY <1>1 DEF RoomJid, JID
    <3>2. text \in UpStanza /\ stop \in UpStanza
      BY <1>1, <3>1, UpStanzaType DEF UpKind, Body
    <3>3. text \notin Stops(b) /\ (stop \in Stops(b) => text \in Texts(b))
      BY <1>1, <3>1, <3>2 DEF Stops, Texts, Stanza
    <3>4. Write(<<text, stop>>)
      BY <2>1 DEF HandleOwnPresence
    <3> HIDE DEF text, stop
    <3>5. QED
      BY <3>2, <3>3, <3>4, WritePairOrder
  <2>2. CASE UNCHANGED up
    BY <2>2 DEF UpOrder, Texts, Stops
  <2>3. QED
    BY <1>1, <2>1, <2>2 DEF HandleMUC, HandleOtherPresence, HandleMUCError, HandleStopMessage,
       HandleOtherMessage
<1>5. QED
  BY <1>2, <1>3, <1>4, DispatchOrder DEF s

\* A text of ours that equals our resource does not go to a room.
LEMMA SendToOrder ==
  ASSUME TypeOK, DestinationsGiven, NoRoomImpostors, NEW b \in Rooms, SendTo, UpOrder(b)
  PROVE  UpOrder(b)'
<1> DEFINE jid == destinations[cursor].jid
           x == Stanza("chat", jid, Message)
<1>1. jid \in JID /\ destinations[cursor].type = "Normal" /\ cursor \in 1..Len(destinations)
  BY DestinationJid, LenProperties DEF TypeOK, SendTo, NextDestination
<1>2. Message = Resource => jid.bare \notin Rooms
  BY <1>1 DEF NoRoomImpostors, DestinationsGiven
<1>3. x \in UpStanza /\ Write(<<x>>)
  BY <1>1, UpStanzaType DEF UpKind, Body, SendTo
<1> HIDE DEF jid
<1>4. x \notin Stops(b)
  BY <1>2 DEF Stops, Stanza
<1> HIDE DEF x
<1>5. QED
  BY <1>3, <1>4, WriteOrder

LEMMA SendToRoomOrder ==
  ASSUME TypeOK, NEW b \in Rooms, SendToRoom, UpOrder(b)
  PROVE  UpOrder(b)'
<1> DEFINE nick == WithNick(destinations[cursor].jid)
           x == Stanza("join", nick, NoBody)
<1>1. nick \in JID
  BY RoomDestination
<1>2. UNCHANGED up \/ Write(<<x>>)
  BY SendToRoomMoves
<1> HIDE DEF nick
<1>3. x \in UpStanza /\ x \notin Stops(b)
  BY <1>1, UpStanzaType DEF UpKind, Body, Stops, Stanza
<1> HIDE DEF x
<1>4. CASE UNCHANGED up
  BY <1>4 DEF UpOrder, Texts, Stops
<1>5. QED
  BY <1>2, <1>3, <1>4, WriteOrder

LEMMA EraseSenderOrder ==
  ASSUME TypeOK, NEW b \in Rooms, EraseSender, UpOrder(b)
  PROVE  UpOrder(b)'
<1> DEFINE x == Stanza("leave", muc_senders[removing], NoBody)
<1>1. CASE Live(removing)
  <2>1. muc_senders[removing] \in JID /\ Write(<<x>>)
    BY <1>1 DEF EraseSender, DestroySender, Live, TypeOK, SenderTypeOK
  <2>2. x \in UpStanza /\ x \notin Stops(b)
    BY <2>1, UpStanzaType DEF UpKind, Body, Stops, Stanza
  <2> HIDE DEF x
  <2>3. QED
    BY <2>1, <2>2, WriteOrder
<1>2. CASE ~Live(removing)
  BY <1>2 DEF EraseSender, DestroySender, UpOrder, Texts, Stops
<1>3. QED
  BY <1>1, <1>2

LEMMA ClientOrder ==
  ASSUME TypeOK, Discipline, Homes, DestinationsGiven, NoRoomImpostors,
         NEW b \in Rooms, InOrder(b), ~Excused(b), ~Excused(b)',
         ClientNext \/ Exited \/ UNCHANGED vars
  PROVE  InOrder(b)'
<1>1. CASE RoomCallback
  BY <1>1, RoomCallbackOrder DEF Homes
<1>2. CASE HandleMessage \/ UnhandledPresence
  <2>1. Dispatch /\ UNCHANGED up /\ pc = "receiving"
    BY <1>2 DEF HandleMessage, UnhandledPresence, Dispatch
  <2>2. Head(down) \notin Errors(b)
    <3>1. SUFFICES ASSUME Head(down) \in Errors(b) PROVE FALSE
      OBVIOUS
    <3>2. ~Live(b)
      BY <1>2, <3>1 DEF HandleMessage, UnhandledPresence, Errors
    <3>3. muc_senders[b] = NoJID
      BY <2>1, <3>2 DEF Live, Homes, SendersJoined, Bares
    <3>4. QED
      BY <2>1, <3>3 DEF Excused, Enlisting
  <2>3. UpOrder(b) => UpOrder(b)'
    BY <2>1 DEF UpOrder, Texts, Stops
  <2>4. QED
    BY <2>1, <2>2, <2>3, DispatchOrder
<1>3. CASE SendTo \/ SendToRoom \/ EraseSender \/ OnConnect
  <2>1. UNCHANGED down
    BY <1>3 DEF SendTo, SendToRoom, NextDestination, EraseSender, OnConnect, ServiceKept
  <2>2. UpOrder(b) => UpOrder(b)'
    BY <1>3, SendToOrder, SendToRoomOrder, EraseSenderOrder, WriteNothingOrder DEF OnConnect
  <2>3. QED
    BY <2>1, <2>2, SilentOrder
<1>4. CASE \/ Start \/ ConnectDeclined \/ ConnectFails \/ Connected
           \/ OnConnectDone \/ LockForRemoval \/ DisconnectIfLast \/ StreamLost \/ StartReturns
           \/ Destroy \/ Exited \/ UNCHANGED vars
  <2>1. UNCHANGED <<up, down>>
    BY <1>4 DEF Start, ConnectDeclined, ConnectFails, Connected, OnConnectDone, LockForRemoval,
       DisconnectIfLast, StreamLost, StartReturns, Destroy, Exited, ServiceKept, vars, serviceVars
  <2>2. UpOrder(b) => UpOrder(b)'
    BY <2>1 DEF UpOrder, Texts, Stops
  <2>3. QED
    BY <2>1, <2>2, SilentOrder
<1>5. QED
  BY <1>1, <1>2, <1>3, <1>4 DEF ClientNext

LEMMA OrderKept ==
  ASSUME TypeOK, Discipline, Homes, DestinationsGiven, NoRoomImpostors, Orderly, [Next]_vars
  PROVE  Orderly'
<1>1. SUFFICES ASSUME NEW b \in Rooms
               PROVE  InOrder(b)'
  BY DEF Orderly
<1>2. InOrder(b)
  BY DEF Orderly
<1>3. CASE Excused(b)'
  BY <1>3 DEF InOrder
<1>4. CASE ~Excused(b)'
  <2>1. ~Excused(b)
    BY <1>4, ExcusedKept
  <2>2. CASE ServiceStep
    BY <1>2, <2>2, ServiceOrder DEF Homes
  <2>3. CASE ClientNext \/ Exited \/ UNCHANGED vars
    BY <1>2, <1>4, <2>1, <2>3, ClientOrder
  <2>4. QED
    BY <2>2, <2>3 DEF Next
<1>5. QED
  BY <1>3, <1>4

LEMMA InitOrder == Init => Orderly
<1>1. SUFFICES ASSUME Init, NEW b \in Rooms PROVE InOrder(b)
  BY DEF Orderly
<1>2. up = <<>> /\ down = <<>>
  BY <1>1 DEF Init, ServiceInit
<1>3. QED
  BY <1>2, PrecededEmpty DEF InOrder
-----------------------------------------------------------------------------
(***************************************************************************)
(* A sender goes only when its room is excused, so a room stays waited for *)
(* until it has accepted the text or been reported.                        *)
(***************************************************************************)
LEMMA RemovalStaysConfirmed ==
  ASSUME TypeOK, Discipline, Homes, Orderly, RemovalConfirmed, [Next]_vars
  PROVE  RemovalConfirmed'
<1>1. SUFFICES ASSUME pc' \in {"remove", "erase"}, NEW r \in Rooms, removing' = r
               PROVE  Excused(r)'
  BY DEF RemovalConfirmed, Excused, Enlisting
<1>2. CASE pc \in {"remove", "erase"} /\ removing' = removing
  <2>1. Excused(r)
    BY <1>1, <1>2 DEF RemovalConfirmed
  <2>2. QED
    BY <2>1, ExcusedKept
<1>3. CASE RoomCallback /\ pc' = "remove"
  <2> DEFINE s == Head(down)
             b == s.jid.bare
  <2>1. /\ s \in DownStanza /\ HandleMUC(s) /\ pc = "receiving" /\ removing' = b
        /\ muc_senders[b] \in JID /\ muc_senders[b].bare = b
    BY <1>3, RoomCallbackMoves DEF Homes
  <2>2. Dispatch /\ b = r
    BY <1>1, <1>3, <2>1 DEF RoomCallback
  <2>3. CASE s.kind = "message" /\ s.body = Resource
    <3>1. s \in Echoes(r)
      BY <2>1, <2>2, <2>3 DEF Echoes
    <3>2. ~Preceded(down, Errors(r), Echoes(r))
      BY <2>2, <3>1, PrecededHead DEF TypeOK, ServiceTypeOK, Dispatch
    <3>3. Excused(r)
      BY <3>2 DEF Orderly, InOrder
    <3>4. QED
      BY <3>3, ExcusedKept
  <2>4. CASE ~ (s.kind = "message" /\ s.body = Resource)
    <3> HIDE DEF s
    <3>1. r \in reported'
      BY <1>3, <2>1, <2>2, <2>4 DEF HandleMUC, HandleOwnPresence, HandleOtherPresence, HandleMUCError,
         HandleStopMessage, HandleOtherMessage
    <3>2. QED
      BY <3>1 DEF Excused
  <2>5. QED
    BY <2>3, <2>4
<1>4. CASE HandleMessage /\ pc' = "remove"
  <2> DEFINE s == Head(down)
             b == s.jid.bare
  <2>1. Dispatch /\ pc = "receiving" /\ s.body = Resource /\ b = r
    BY <1>1, <1>4 DEF HandleMessage, Dispatch, CallRemoveMucSender
  <2>2. Excused(r)
    <3>1. CASE s.kind = "message"
      <4>1. s \in Echoes(r)
        BY <2>1, <3>1, HeadTailType DEF Echoes, TypeOK, ServiceTypeOK, Dispatch
      <4>2. ~Preceded(down, Errors(r), Echoes(r))
        BY <2>1, <4>1, PrecededHead DEF TypeOK, ServiceTypeOK, Dispatch
      <4>3. QED
        BY <4>2 DEF Orderly, InOrder
    <3>2. CASE ~Live(r)
      BY <2>1, <3>2 DEF Live, Homes, SendersJoined, Bares, Excused, Enlisting
    <3>3. QED
      BY <1>4, <2>1, <3>1, <3>2 DEF HandleMessage
  <2>3. QED
    BY <2>2, ExcusedKept
<1>5. \/ pc \in {"remove", "erase"} /\ removing' = removing
      \/ RoomCallback /\ pc' = "remove"
      \/ HandleMessage /\ pc' = "remove"
  <2>1. CASE RoomCallback
    BY <1>1, <2>1, RoomCallbackMoves DEF Homes
  <2>2. CASE HandleMessage \/ UnhandledPresence
    BY <1>1, <2>2 DEF HandleMessage, UnhandledPresence, Dispatch, CallRemoveMucSender
  <2>3. CASE ServiceStep \/ Exited \/ UNCHANGED vars \/ StreamLost
    BY <1>1, <2>3 DEF ServiceStep, Exited, vars, controlVars, StreamLost
  <2>4. CASE LockForRemoval
    BY <2>4 DEF LockForRemoval, GoTo
  <2>5. ~ (\/ Start \/ ConnectDeclined \/ ConnectFails \/ Connected \/ OnConnect \/ SendTo
           \/ SendToRoom \/ OnConnectDone \/ EraseSender \/ DisconnectIfLast \/ StartReturns
           \/ Destroy)
    BY <1>1 DEF Start, ConnectDeclined, ConnectFails, Connected, OnConnect, SendTo, SendToRoom,
       NextDestination, OnConnectDone, EraseSender, DisconnectIfLast, StartReturns, Destroy, GoTo
  <2>6. QED
    BY <2>1, <2>2, <2>3, <2>4, <2>5 DEF Next, ClientNext
<1>6. QED
  BY <1>2, <1>3, <1>4, <1>5

\* A room that is waited for stays so if its sender does, or is excused.
LEMMA WaitKept ==
  ASSUME TypeOK, [Next]_vars, NEW b \in Rooms, WaitedFor(b),
         muc_senders[b] # NoJID => muc_senders'[b] # NoJID \/ (Excused(b) /\ ~Enlisting)
  PROVE  WaitedFor(b)'
<1>1. reported \subseteq reported'
  BY StepKeeps DEF Kept
<1>2. QED
  BY <1>1, AcceptedKept DEF WaitedFor, Excused

LEMMA RoomsStayHandled ==
  ASSUME TypeOK, Discipline, RemovalConfirmed, RoomsHandled, [Next]_vars
  PROVE  RoomsHandled'
<1> USE ServiceAssumption
<1>0. /\ muc_senders \in [Bares -> JID \cup {NoJID}] /\ cursor \in Nat /\ Rooms \subseteq Bares
      /\ destinations' = destinations
  BY StepKeeps, LenProperties DEF TypeOK, SenderTypeOK, Bares, Kept
<1>1. SUFFICES ASSUME pc' # "exited", NEW i \in 1..Len(destinations), i < cursor',
                      destinations[i].type = "Groupchat",
                      NEW b \in Rooms, b = destinations[i].jid.bare
               PROVE  WaitedFor(b)'
  BY <1>0 DEF RoomsHandled, WaitedFor
<1>2. pc # "exited"
  BY <1>1 DEF Next, ClientNext, Start, ConnectDeclined, ConnectFails, Connected, OnConnect,
     SendTo, SendToRoom, NextDestination, OnConnectDone, RoomCallback, HandleMessage,
     UnhandledPresence, Dispatch, LockForRemoval, EraseSender, DisconnectIfLast, StreamLost,
     StartReturns, Destroy, Exited, ServiceStep, GoTo, vars, controlVars
<1>3. i < cursor => WaitedFor(b)
  BY <1>1, <1>2 DEF RoomsHandled
<1>4. CASE SendToRoom
  <2> DEFINE nick == WithNick(destinations[cursor].jid)
  <2>1. /\ nick \in JID /\ nick # NoJID /\ nick.bare \in Bares
        /\ nick.bare = destinations[cursor].jid.bare
        /\ cursor' = cursor + 1
    BY <1>4, RoomDestination DEF SendToRoom, NextDestination
  <2>2. \/ muc_senders[nick.bare] # NoJID /\ muc_senders' = muc_senders
        \/ muc_senders' = [muc_senders EXCEPT ![nick.bare] = nick]
    BY <1>4, SendToRoomMoves
  <2>3. i = cursor => b = nick.bare
    BY <1>1, <2>1
  <2> HIDE DEF nick
  <2>4. \A c \in Bares : muc_senders[c] # NoJID => muc_senders'[c] # NoJID
    BY <1>0, <2>1, <2>2
  <2>5. CASE i < cursor
    BY <1>0, <1>1, <1>3, <2>4, <2>5, WaitKept
  <2>6. CASE i = cursor
    <3>1. muc_senders'[b] # NoJID
      BY <1>0, <2>1, <2>2, <2>3, <2>6
    <3>2. QED
      BY <3>1 DEF WaitedFor
  <2>7. QED
    BY <1>0, <1>1, <2>1, <2>5, <2>6
<1>5. CASE SendTo
  <2>1. /\ cursor' = cursor + 1 /\ destinations[cursor].type = "Normal"
        /\ UNCHANGED muc_senders
    BY <1>5 DEF SendTo, NextDestination
  <2>2. i < cursor
    BY <1>0, <1>1, <2>1
  <2>3. QED
    BY <1>1, <1>3, <2>1, <2>2, WaitKept
<1>6. CASE EraseSender
  <2>1. /\ muc_senders' = [muc_senders EXCEPT ![removing] = NoJID] /\ cursor' = cursor
        /\ pc = "erase"
    BY <1>6 DEF EraseSender, GoTo
  <2>2. b = removing => Excused(b) /\ ~Enlisting
    BY <1>1, <2>1 DEF RemovalConfirmed, Enlisting
  <2>3. b # removing => muc_senders'[b] = muc_senders[b]
    BY <1>0, <1>1, <2>1
  <2>4. QED
    BY <1>1, <1>3, <2>1, <2>2, <2>3, WaitKept
<1>7. CASE UNCHANGED <<muc_senders, cursor>>
  BY <1>1, <1>3, <1>7, WaitKept
<1>8. QED
  BY <1>1, <1>4, <1>5, <1>6, <1>7 DEF Next, ClientNext, Start, ConnectDeclined, ConnectFails,
     Connected, OnConnect, OnConnectDone, RoomCallback, HandleMUC, HandleOwnPresence,
     HandleOtherPresence, HandleMUCError, HandleStopMessage, HandleOtherMessage, HandleMessage,
     UnhandledPresence, Dispatch, LockForRemoval, DisconnectIfLast, StreamLost,
     StartReturns, Destroy, Exited, ServiceStep, GoTo, vars, senderVars, controlVars

-----------------------------------------------------------------------------
(***************************************************************************)
(* A session that ends without a failure ends when everything is done.     *)
(***************************************************************************)
LEMMA SendKeepsSession ==
  ASSUME Discipline, Session, OnConnect \/ SendTo \/ SendToRoom
  PROVE  Session'
<1> USE DEF Session, SessionWhileSending, SuccessIsComplete
<1>1. /\ conn = "connected" \/ result # NoError
      /\ conn # "closed" => result = NoError
      /\ (\E stanzas : Write(stanzas)) \/ UNCHANGED streamVars
  BY DEF OnConnect, SendTo, SendToRoom, StartSender, NextDestination, GoTo, Discipline,
     StreamFollowsControl
<1>2. /\ conn' = "connected" \/ result' # NoError
      /\ ~ (conn' = "closed" /\ result' = NoError)
  BY <1>1, WriteSession DEF streamVars
<1>3. QED
  BY <1>2

LEMMA SessionKept ==
  ASSUME TypeOK, Discipline, Session, [Next]_vars
  PROVE  Session'
<1> USE DEF Session, SessionWhileSending, SuccessIsComplete
<1>1. CASE Start \/ ConnectDeclined \/ ConnectFails \/ Connected
  BY <1>1, StreamAssumption DEF Start, ConnectDeclined, ConnectFails, Connected, Establish,
     OnDisconnect, GoTo, streamVars, Discipline, StreamFollowsControl
<1>2. CASE OnConnectDone \/ DisconnectIfLast
  <2>1. /\ UNCHANGED <<senderVars, destinations, cursor>> /\ pc' = "receiving"
        /\ cursor > Len(destinations)
        /\ IF NoSenders THEN Disconnect ELSE UNCHANGED streamVars
    BY <1>2 DEF OnConnectDone, DisconnectIfLast, GoTo, Discipline, SendsBeforeReceiving
  <2>2. NoSenders' = NoSenders
    BY <2>1 DEF NoSenders, senderVars
  <2>3. QED
    BY <2>1, <2>2 DEF streamVars
<1>3. CASE RoomCallback
  <2>1. /\ pc' \in {"receiving", "remove"} /\ UNCHANGED <<muc_senders, destinations, cursor>>
        /\ (\E stanzas : Write(stanzas)) \/ UNCHANGED streamVars
    BY <1>3 DEF RoomCallback, Dispatch, HandleMUC, HandleOwnPresence, HandleOtherPresence,
         HandleMUCError, HandleStopMessage, HandleOtherMessage, CallRemoveMucSender, senderVars
  <2>2. conn' = "closed" /\ result' = NoError => conn = "closed" /\ result = NoError
    BY <2>1, StreamAssumption DEF Write, OnDisconnect, streamVars
  <2>3. QED
    BY <2>1, <2>2 DEF NoSenders
<1>4. CASE EraseSender
  <2>1. /\ pc' = "lastCheck" /\ UNCHANGED <<cursor, destinations>>
        /\ muc_senders' = [muc_senders EXCEPT ![removing] = NoJID]
        /\ (\E stanzas : Write(stanzas)) \/ UNCHANGED <<conn, result>>
    BY <1>4 DEF EraseSender, DestroySender, GoTo
  <2>2. conn' = "closed" /\ result' = NoError => conn = "closed" /\ result = NoError
    BY <2>1, StreamAssumption DEF Write, OnDisconnect
  <2>3. NoSenders => NoSenders'
    BY <2>1 DEF NoSenders, TypeOK, SenderTypeOK
  <2>4. QED
    BY <2>1, <2>2, <2>3
<1>5. CASE StreamLost
  BY <1>5, StreamAssumption DEF StreamLost, Lose, OnDisconnect, controlVars
<1>6. CASE Destroy
  BY <1>6 DEF Destroy, GoTo, Discipline, StreamFollowsControl, Disconnect, NoSenders
<1>7. CASE \/ HandleMessage \/ UnhandledPresence \/ LockForRemoval \/ StartReturns
           \/ ServiceStep \/ Exited \/ UNCHANGED vars
  <2>1. /\ UNCHANGED <<streamVars, senderVars, destinations, cursor>>
        /\ pc' \in {"onConnect", "sending"} => pc' = pc
    BY <1>7 DEF HandleMessage, UnhandledPresence, Dispatch, CallRemoveMucSender, LockForRemoval,
       StartReturns, ServiceStep, Exited, GoTo, vars, controlVars
  <2>2. QED
    BY <2>1 DEF NoSenders, streamVars, senderVars
<1>8. QED
  BY <1>1, <1>2, <1>3, <1>4, <1>5, <1>6, <1>7, SendKeepsSession DEF Next, ClientNext

\* When the stream closes in success, every room has been waited for to the end.
LEMMA ConfirmedAtClose ==
  ASSUME TypeOK, RoomsHandled, Session, pc # "exited"
  PROVE  ConfirmedBeforeClose
<1>1. SUFFICES ASSUME conn = "closed", result = NoError, NEW i \in 1..Len(destinations),
                      destinations[i].type = "Groupchat",
                      destinations[i].jid.bare \in Rooms \ reported
               PROVE  accepted[destinations[i].jid.bare] > 0
  BY DEF ConfirmedBeforeClose
<1>2. NoSenders /\ i < cursor
  BY <1>1, LenProperties DEF Session, SuccessIsComplete, TypeOK
<1>3. QED
  BY <1>1, <1>2 DEF RoomsHandled, WaitedFor, NoSenders, Bares

LEMMA ConfirmationKept ==
  ASSUME TypeOK, Discipline, ConfirmedBeforeClose, [Next]_vars,
         TypeOK', RoomsHandled', Session'
  PROVE  ConfirmedBeforeClose'
<1>1. CASE pc' # "exited"
  <2>1. (TypeOK /\ RoomsHandled /\ Session /\ pc # "exited" => ConfirmedBeforeClose)'
    BY ConfirmedAtClose, PTL
  <2>2. QED
    BY <1>1, <2>1
<1>2. CASE pc' = "exited"
  <2>1. \/ Destroy \/ Exited \/ UNCHANGED vars \/ ServiceStep
    BY <1>2 DEF Next, ClientNext, Start, ConnectDeclined, ConnectFails, Connected, OnConnect,
       SendTo, SendToRoom, NextDestination, OnConnectDone, RoomCallback, HandleMUC,
       HandleOwnPresence, HandleOtherPresence, HandleMUCError, HandleStopMessage,
       HandleOtherMessage, HandleMessage, UnhandledPresence, Dispatch, CallRemoveMucSender,
       LockForRemoval, EraseSender, DisconnectIfLast, StreamLost, StartReturns, GoTo, controlVars
  <2>2. UNCHANGED <<conn, result, destinations, reported>>
    BY <2>1 DEF Destroy, Disconnect, GoTo, Discipline, StreamFollowsControl, Exited, ServiceStep,
       vars, streamVars, senderVars, controlVars
  <2>3. QED
    BY <2>2, AcceptedKept DEF ConfirmedBeforeClose
<1>3. QED
  BY <1>1, <1>2

LEMMA InitRooms == Init => RInv
<1>1. SUFFICES ASSUME Init PROVE RInv
  OBVIOUS
<1>2. RemovalConfirmed /\ RoomsHandled /\ Session /\ DestinationsGiven /\ ConfirmedBeforeClose
  BY <1>1 DEF Init, StreamInit, RemovalConfirmed, RoomsHandled, Session, SessionWhileSending,
     SuccessIsComplete, DestinationsGiven, ConfirmedBeforeClose
<1>3. QED
  BY <1>1, <1>2, InitType, InitDiscipline, InitHomes, InitOrder DEF RInv, IInv

LEMMA NextRooms ==
  ASSUME NoRoomImpostors
  PROVE  RInv /\ [Next]_vars => RInv'
<1>1. SUFFICES ASSUME RInv, [Next]_vars PROVE RInv'
  OBVIOUS
<1>2. TypeOK /\ Discipline /\ Homes /\ TypeOK' /\ Discipline' /\ Homes'
  BY <1>1, NextType, NextDiscipline, HomesStay DEF RInv, IInv
<1>3. Orderly' /\ RemovalConfirmed' /\ RoomsHandled' /\ Session'
  BY <1>1, <1>2, OrderKept, RemovalStaysConfirmed, RoomsStayHandled, SessionKept DEF RInv
<1>4. DestinationsGiven'
  BY <1>1, <1>2, StepKeeps DEF RInv, DestinationsGiven, Kept
<1>5. ConfirmedBeforeClose'
  BY <1>1, <1>2, <1>3, ConfirmationKept DEF RInv
<1>6. QED
  BY <1>2, <1>3, <1>4, <1>5 DEF RInv, IInv

\* What the 'stop' message is for: whatever the rooms answer and whenever the
\* connection breaks, a close in success finds the text accepted by every
\* chat room that was not complained about, unless another occupant's text
\* passes for the 'stop'.
THEOREM Confirmation ==
  ASSUME NoRoomImpostors
  PROVE  Spec => []ConfirmedBeforeClose
<1>1. RInv => ConfirmedBeforeClose
  BY DEF RInv
<1>2. QED
  BY <1>1, InitRooms, NextRooms, PTL DEF Spec
-----------------------------------------------------------------------------
(***************************************************************************)
(* How often the text can still appear in a room: each acceptance was a    *)
(* text under way, each text a presence that came, each presence a join,   *)
(* each join a sender that was not there; but a presence that the room     *)
(* repeats of its own accord comes from nothing.                           *)
(***************************************************************************)
Calls(b) == Texts(b) \cup Joins(b)

\* A sender for b may still be created.
Open(b) == IF muc_senders[b] = NoJID /\ Enlisting THEN 1 ELSE 0

Due(b) == accepted[b] + Count(up, Calls(b)) + Count(down, Presences(b)) + Open(b)

Bounded(b) == Due(b) <= 1 + (MaxUnsolicited - spare)
PostsBounded == \A b \in Rooms : Bounded(b)

LEMMA DueType ==
  ASSUME TypeOK, NEW b \in Rooms
  PROVE  /\ accepted[b] \in Nat /\ Open(b) \in Nat /\ spare \in Nat /\ spare <= MaxUnsolicited
         /\ Count(up, Calls(b)) \in Nat /\ Count(down, Presences(b)) \in Nat
         /\ MaxUnsolicited \in Nat
<1>1. Count(up, Calls(b)) \in Nat /\ Count(down, Presences(b)) \in Nat
  BY PlacesFinite DEF TypeOK, ServiceTypeOK
<1>2. QED
  BY <1>1, ServiceAssumption DEF TypeOK, ServiceTypeOK, Open

LEMMA DueNat == TypeOK => spare \in Nat /\ \A b \in Rooms : Due(b) \in Nat
  BY DueType DEF Due, TypeOK, ServiceTypeOK

LEMMA SetsFixed ==
  ASSUME NEW b
  PROVE  Calls(b)' = Calls(b) /\ Presences(b)' = Presences(b)
  BY DEF Calls, Texts, Joins, Presences

\* The comparison that every step comes down to.
LEMMA DueFalls ==
  ASSUME TypeOK, TypeOK', NEW b \in Rooms, Bounded(b), spare' <= spare,
         Due(b)' <= Due(b) + (spare - spare')
  PROVE  Bounded(b)'
<1>1. Due(b) \in Nat /\ spare \in Nat /\ MaxUnsolicited \in Nat
  BY DueNat, ServiceAssumption
<1>2. Due(b)' \in Nat /\ spare' \in Nat
  <2>1. /\ accepted' \in [Rooms -> Nat] /\ spare' \in Nat /\ Open(b)' \in Nat
        /\ Count(up', Calls(b)) \in Nat /\ Count(down', Presences(b)) \in Nat
    BY PlacesFinite, ServiceAssumption DEF TypeOK, ServiceTypeOK, Open
  <2>2. Due(b)' = accepted'[b] + Count(up', Calls(b)) + Count(down', Presences(b)) + Open(b)'
    BY SetsFixed DEF Due
  <2>3. QED
    BY <2>1, <2>2
<1>3. Due(b) <= 1 + (MaxUnsolicited - spare)
  BY DEF Bounded
<1>4. Due(b)' <= 1 + (MaxUnsolicited - spare')
  BY <1>1, <1>2, <1>3
<1>5. QED
  BY <1>4 DEF Bounded
\* Nobody gets another chance of a sender.
LEMMA OpenFalls ==
  ASSUME TypeOK, [Next]_vars, NEW b \in Bares
  PROVE  Open(b)' <= Open(b)
<1>1. SUFFICES ASSUME Enlisting, Enlisting', muc_senders[b] # NoJID
               PROVE  muc_senders'[b] # NoJID
  BY SendersOnlyLeave DEF Open
<1>2. CASE SendToRoom
  <2> DEFINE nick == WithNick(destinations[cursor].jid)
  <2>1. nick \in JID /\ nick # NoJID /\ nick.bare \in Bares
    BY <1>2, RoomDestination
  <2>2. muc_senders' = muc_senders \/ muc_senders' = [muc_senders EXCEPT ![nick.bare] = nick]
    BY <1>2, SendToRoomMoves
  <2> HIDE DEF nick
  <2>3. QED
    BY <1>1, <2>1, <2>2 DEF TypeOK, SenderTypeOK
<1>3. CASE UNCHANGED muc_senders
  BY <1>1, <1>3
<1>4. ~ (EraseSender \/ Destroy)
  BY <1>1 DEF Enlisting, EraseSender, Destroy, GoTo
<1>5. QED
  BY <1>2, <1>3, <1>4 DEF Next, ClientNext, Start, ConnectDeclined, ConnectFails, Connected, OnConnect,
     SendTo, NextDestination, OnConnectDone, RoomCallback, HandleMUC, HandleOwnPresence,
     HandleOtherPresence, HandleMUCError, HandleStopMessage, HandleOtherMessage, HandleMessage,
     UnhandledPresence, Dispatch, LockForRemoval, DisconnectIfLast, StreamLost,
     StartReturns, Exited, ServiceStep, vars, senderVars, controlVars

\* A stanza taken off by the server and answered.
LEMMA AnswerDue ==
  ASSUME TypeOK, NEW b \in Rooms, UNCHANGED <<muc_senders, pc>>,
         up # <<>>, up' = Tail(up),
         NEW x \in DownStanza, down' = down \/ down' = Append(down, x),
         \/ /\ accepted'[b] = accepted[b]
            /\ down' # down /\ x \in Presences(b) => Head(up) \in Calls(b)
         \/ /\ accepted'[b] = accepted[b] + 1
            /\ Head(up) \in Calls(b) /\ x \notin Presences(b)
  PROVE  Due(b)' <= Due(b)
<1>0. up \in Seq(UpStanza) /\ down \in Seq(DownStanza)
  BY DEF TypeOK, ServiceTypeOK
<1>1. /\ accepted[b] \in Nat /\ Open(b) \in Nat /\ Open(b)' = Open(b)
      /\ Count(up, Calls(b)) \in Nat /\ Count(down, Presences(b)) \in Nat
  BY DueType DEF Open, Enlisting
<1>2. /\ Count(Tail(up), Calls(b)) \in Nat
      /\ Count(up, Calls(b)) = IF Head(up) \in Calls(b) THEN Count(Tail(up), Calls(b)) + 1
                               ELSE Count(Tail(up), Calls(b))
  BY <1>0, CountTail, HeadTailType, PlacesFinite
<1>3. Count(down', Presences(b)) = IF down' # down /\ x \in Presences(b)
                                   THEN Count(down, Presences(b)) + 1
                                   ELSE Count(down, Presences(b))
  <2>1. CASE down' = down
    BY <2>1
  <2>2. CASE down' # down
    <3>1. Count(Append(down, x), Presences(b)) = IF x \in Presences(b)
                                                 THEN Count(down, Presences(b)) + 1
                                                 ELSE Count(down, Presences(b))
      BY <1>0, CountAppend
    <3>2. QED
      BY <2>2, <3>1
  <2>3. QED
    BY <2>1, <2>2
<1>4. Due(b)' = accepted'[b] + Count(up', Calls(b)) + Count(down', Presences(b)) + Open(b)'
  BY SetsFixed DEF Due
<1>5. QED
  BY <1>1, <1>2, <1>3, <1>4 DEF Due

LEMMA ServerDue ==
  ASSUME TypeOK, NEW b \in Rooms, ServerStep, UNCHANGED <<muc_senders, pc>>
  PROVE  Due(b)' <= Due(b)
<1> USE ServiceAssumption
<1>0. /\ ServiceTypeOK /\ accepted \in [Rooms -> Nat] /\ occupants \in [Rooms -> JID \cup {NoJID}]
      /\ accepted[b] \in Nat
  BY DEF TypeOK, ServiceTypeOK
<1>1. CASE RoomAdmits
  <2> DEFINE x == Stanza("presence", Head(up).jid, NoBody)
  <2>1. x \in DownStanza /\ (x \in Presences(b) => Head(up) \in Calls(b))
    BY <1>0, <1>1, ReadStanza, DownStanzaType
       DEF RoomAdmits, DownKind, Body, Presences, Calls, Joins, Stanza
  <2>2. up # <<>> /\ up' = Tail(up) /\ down' = Append(down, x) /\ accepted' = accepted
    BY <1>0, <1>1, ReadStanza DEF RoomAdmits, Answer
  <2> HIDE DEF x
  <2>3. QED
    BY <2>1, <2>2, AnswerDue
<1>2. CASE RoomRenames
  <2>1. PICK nick \in Nicks \ {Head(up).jid.resource} :
          LET given == [Head(up).jid EXCEPT !.resource = nick]
          IN  /\ occupants' = [occupants EXCEPT ![given.bare] = given]
              /\ Answer("presence", given, NoBody)
    BY <1>2 DEF RoomRenames
  <2> DEFINE given == [Head(up).jid EXCEPT !.resource = nick]
             x == Stanza("presence", given, NoBody)
  <2>2. given \in JID /\ given.bare = Head(up).jid.bare
    BY <1>0, <1>2, ReadStanza DEF RoomRenames, JID
  <2>3. down' = Append(down, x)
    BY <2>1 DEF Answer
  <2> HIDE DEF given
  <2>4. x \in DownStanza /\ (x \in Presences(b) => Head(up) \in Calls(b))
    BY <1>0, <1>2, <2>2, ReadStanza, DownStanzaType
       DEF RoomRenames, DownKind, Body, Presences, Calls, Joins, Stanza
  <2>5. up # <<>> /\ up' = Tail(up) /\ accepted' = accepted
    BY <1>0, <1>2, ReadStanza DEF RoomRenames
  <2> HIDE DEF x
  <2>6. QED
    BY <2>3, <2>4, <2>5, AnswerDue
<1>3. CASE RoomRefuses
  <2> DEFINE x == Stanza("presenceError", Head(up).jid, NoBody)
  <2>1. x \in DownStanza /\ x \notin Presences(b)
    BY <1>0, <1>3, ReadStanza, DownStanzaType DEF RoomRefuses, DownKind, Body, Presences, Stanza
  <2>2. up # <<>> /\ up' = Tail(up) /\ down' = Append(down, x) /\ accepted' = accepted
    BY <1>0, <1>3, ReadStanza DEF RoomRefuses, Answer
  <2> HIDE DEF x
  <2>3. QED
    BY <2>1, <2>2, AnswerDue
<1>4. CASE RoomIgnores \/ UserReceives
  <2> DEFINE x == Stanza("presence", Head(up).jid, NoBody)
  <2>1. x \in DownStanza
    BY <1>0, <1>4, ReadStanza, DownStanzaType DEF RoomIgnores, UserReceives, DownKind, Body
  <2>2. up # <<>> /\ up' = Tail(up) /\ down' = down /\ accepted' = accepted
    BY <1>0, <1>4, ReadStanza DEF RoomIgnores, UserReceives
  <2> HIDE DEF x
  <2>3. QED
    BY <2>1, <2>2, AnswerDue
<1>5. CASE RoomAccepts
  <2> DEFINE r == Head(up).jid.bare
             x == Stanza("message", occupants[r], Head(up).body)
  <2>1. r \in Rooms /\ occupants[r] \in JID /\ accepted' = [accepted EXCEPT ![r] = @ + 1]
    BY <1>0, <1>5 DEF RoomAccepts
  <2>2. x \in DownStanza /\ x \notin Presences(b)
    BY <1>0, <1>5, <2>1, ReadStanza, DownStanzaType DEF RoomAccepts, DownKind, Presences, Stanza
  <2>3. /\ up # <<>> /\ up' = Tail(up) /\ down' = Append(down, x)
        /\ r = b => Head(up) \in Calls(b)
    BY <1>0, <1>5, ReadStanza DEF RoomAccepts, Answer, Calls, Texts
  <2>4. \/ accepted'[b] = accepted[b]
        \/ r = b /\ accepted'[b] = accepted[b] + 1
    BY <1>0, <2>1
  <2> HIDE DEF x, r
  <2>5. QED
    BY <2>2, <2>3, <2>4, AnswerDue
<1>6. CASE RoomRelays
  <2> DEFINE x == Stanza("message", Head(up).jid, Head(up).body)
  <2>1. x \in DownStanza /\ x \notin Presences(b)
    BY <1>0, <1>6, ReadStanza, DownStanzaType DEF RoomRelays, DownKind, Presences, Stanza
  <2>2. up # <<>> /\ up' = Tail(up) /\ down' = Append(down, x) /\ accepted' = accepted
    BY <1>0, <1>6, ReadStanza DEF RoomRelays, Answer
  <2> HIDE DEF x
  <2>3. QED
    BY <2>1, <2>2, AnswerDue
<1>7. CASE StanzaRejected
  <2> DEFINE x == Stanza("messageError", Head(up).jid, Head(up).body)
  <2>1. PICK kind \in {"groupchat", "chat"} : ServerReads(kind)
    BY <1>7 DEF StanzaRejected
  <2>2. up # <<>> /\ up' = Tail(up) /\ Head(up).jid \in JID /\ Head(up).body \in Body
    BY <1>0, <2>1, ReadStanza
  <2>3. down' = Append(down, x) /\ accepted' = accepted
    BY <1>7 DEF StanzaRejected, Answer
  <2>4. x \in DownStanza /\ x \notin Presences(b)
    BY <2>2, DownStanzaType DEF DownKind, Presences, Stanza
  <2> HIDE DEF x
  <2>5. QED
    BY <2>2, <2>3, <2>4, AnswerDue
<1>8. CASE RoomReleases
  <2> DEFINE x == Stanza("unavailable", Head(up).jid, NoBody)
  <2>1. x \in DownStanza /\ x \notin Presences(b)
    BY <1>0, <1>8, ReadStanza, DownStanzaType DEF RoomReleases, DownKind, Body, Presences, Stanza
  <2>2. up # <<>> /\ up' = Tail(up) /\ down' = Append(down, x) /\ accepted' = accepted
    BY <1>0, <1>8, ReadStanza DEF RoomReleases, Answer
  <2> HIDE DEF x
  <2>3. QED
    BY <2>1, <2>2, AnswerDue
<1>9. QED
  BY <1>1, <1>2, <1>3, <1>4, <1>5, <1>6, <1>7, <1>8 DEF ServerStep

\* Something comes by itself, and uses up one unsolicited event.
LEMMA ArrivalDue ==
  ASSUME TypeOK, NEW b \in Rooms, UNCHANGED <<muc_senders, pc, up, accepted>>,
         NEW x, down' = Append(down, x)
  PROVE  Due(b)' <= Due(b) + 1
<1>1. /\ accepted[b] \in Nat /\ Open(b) \in Nat /\ Open(b)' = Open(b)
      /\ Count(up, Calls(b)) \in Nat /\ Count(down, Presences(b)) \in Nat
  BY DueType DEF Open, Enlisting
<1>2. Count(down', Presences(b)) = IF x \in Presences(b)
                                   THEN Count(down, Presences(b)) + 1
                                   ELSE Count(down, Presences(b))
  BY CountAppend DEF TypeOK, ServiceTypeOK
<1>3. Due(b)' = accepted[b] + Count(up, Calls(b)) + Count(down', Presences(b)) + Open(b)
  BY <1>1, SetsFixed DEF Due
<1>4. QED
  BY <1>1, <1>2, <1>3 DEF Due

LEMMA ServiceDue ==
  ASSUME TypeOK, NEW b \in Rooms, ServiceStep
  PROVE  spare' <= spare /\ Due(b)' <= Due(b) + (spare - spare')
<1>0. UNCHANGED <<muc_senders, pc>> /\ spare \in Nat /\ Due(b) \in Nat
  BY DueNat DEF ServiceStep, senderVars, controlVars
<1>1. CASE ServerStep
  <2>1. spare' = spare
    BY <1>1 DEF ServerStep, RoomAdmits, RoomRenames, RoomRefuses, RoomIgnores, RoomAccepts,
       RoomRelays, StanzaRejected, UserReceives, RoomReleases
  <2>2. Due(b)' <= Due(b)
    BY <1>0, <1>1, ServerDue
  <2>3. QED
    BY <1>0, <2>1, <2>2
<1>2. CASE UnsolicitedStep
  <2>1. UNCHANGED <<up, accepted>> /\ spare' = spare - 1 /\ \E x : down' = Append(down, x)
    BY <1>2 DEF UnsolicitedStep, RoomRepeatsPresence, OccupantWrites, RoomKicks, ContactWrites,
       SpendUnsolicited, Answer
  <2>2. Due(b)' <= Due(b) + 1
    BY <1>0, <2>1, ArrivalDue
  <2>3. QED
    BY <1>0, <2>1, <2>2
<1>3. CASE Break
  <2>1. PICK n \in 0..Len(down) : down' = SubSeq(down, 1, n)
    BY <1>3 DEF Break
  <2>2. /\ Count(down', Presences(b)) <= Count(down, Presences(b))
        /\ Count(down', Presences(b)) \in Nat
    BY <2>1, CountPrefix, PlacesFinite, BreakType, <1>3 DEF TypeOK, ServiceTypeOK
  <2>3. Count(up', Calls(b)) = 0 /\ spare' = spare /\ accepted' = accepted
    BY <1>3, CountEmpty DEF Break
  <2>4. /\ accepted[b] \in Nat /\ Open(b) \in Nat /\ Open(b)' = Open(b)
        /\ Count(up, Calls(b)) \in Nat /\ Count(down, Presences(b)) \in Nat
    BY <1>0, DueType DEF Open, Enlisting
  <2>5. Due(b)' = accepted'[b] + Count(up', Calls(b)) + Count(down', Presences(b)) + Open(b)'
    BY SetsFixed DEF Due
  <2>6. Due(b)' <= Due(b)
    BY <2>2, <2>3, <2>4, <2>5 DEF Due
  <2>7. QED
    BY <1>0, <2>3, <2>6
<1>4. QED
  BY <1>1, <1>2, <1>3 DEF ServiceStep, ServiceNext
\* The client hands one stanza over; only a join takes a chance of a sender.
LEMMA WriteCount ==
  ASSUME TypeOK, NEW B, NEW x \in UpStanza, Write(<<x>>)
  PROVE  Count(up', B) <= IF x \in B THEN Count(up, B) + 1 ELSE Count(up, B)
<1>0. up \in Seq(UpStanza)
  BY DEF TypeOK, ServiceTypeOK
<1>1. up' = up \/ up' = Append(up, x)
  BY <1>0, ConcatSingle DEF Write
<1>2. /\ Count(up, B) \in Nat
      /\ Count(Append(up, x), B) = IF x \in B THEN Count(up, B) + 1 ELSE Count(up, B)
  BY <1>0, CountAppend, PlacesFinite
<1>3. CASE up' = up
  BY <1>2, <1>3
<1>4. CASE up' = Append(up, x)
  BY <1>2, <1>4
<1>5. QED
  BY <1>1, <1>3, <1>4

\* A client step seen as sums: what it adds to one queue is paid for by what
\* it takes off the other, or by the chance of a sender.
LEMMA ClientSum ==
  ASSUME TypeOK, TypeOK', NEW b \in Rooms, UNCHANGED <<accepted, spare>>,
         Count(up', Calls(b)) + Count(down', Presences(b)) + Open(b)'
           <= Count(up, Calls(b)) + Count(down, Presences(b)) + Open(b)
  PROVE  spare' <= spare /\ Due(b)' <= Due(b) + (spare - spare')
<1>1. /\ accepted[b] \in Nat /\ spare \in Nat /\ Open(b) \in Nat
      /\ Count(up, Calls(b)) \in Nat /\ Count(down, Presences(b)) \in Nat
  BY DueType
<1>2. Open(b)' \in Nat /\ Count(up', Calls(b)) \in Nat /\ Count(down', Presences(b)) \in Nat
  BY PlacesFinite DEF TypeOK, ServiceTypeOK, Open
<1>3. Due(b)' = accepted[b] + Count(up', Calls(b)) + Count(down', Presences(b)) + Open(b)'
  BY SetsFixed DEF Due
<1>4. QED
  BY <1>1, <1>2, <1>3 DEF Due

LEMMA SendToRoomDue ==
  ASSUME TypeOK, TypeOK', NEW b \in Rooms, SendToRoom
  PROVE  spare' <= spare /\ Due(b)' <= Due(b) + (spare - spare')
<1> DEFINE nick == WithNick(destinations[cursor].jid)
           x == Stanza("join", nick, NoBody)
<1>1. /\ nick \in JID /\ nick # NoJID /\ nick.bare \in Bares
      /\ pc = "sending" /\ UNCHANGED <<pc, down, accepted, spare>>
  BY RoomDestination DEF SendToRoom, NextDestination, ServiceKept
<1>2. \/ UNCHANGED <<muc_senders, up>>
      \/ /\ muc_senders[nick.bare] = NoJID
         /\ muc_senders' = [muc_senders EXCEPT ![nick.bare] = nick]
         /\ Write(<<x>>)
  BY SendToRoomMoves
<1>3. x \in UpStanza /\ (x \in Calls(b) => nick.bare = b)
  BY <1>1, UpStanzaType DEF UpKind, Body, Calls, Texts, Joins, Stanza
<1> HIDE DEF x, nick
<1>4. Count(up, Calls(b)) \in Nat /\ Count(down, Presences(b)) \in Nat /\ Open(b) \in Nat
  BY DueType
<1>5. Count(up', Calls(b)) \in Nat /\ Open(b)' \in Nat
  BY PlacesFinite DEF TypeOK, ServiceTypeOK, Open
<1>6. Count(up', Calls(b)) + Open(b)' <= Count(up, Calls(b)) + Open(b)
  <2>1. CASE UNCHANGED <<muc_senders, up>>
    BY <1>1, <1>4, <2>1 DEF Open, Enlisting
  <2>2. CASE /\ muc_senders[nick.bare] = NoJID
             /\ muc_senders' = [muc_senders EXCEPT ![nick.bare] = nick]
             /\ Write(<<x>>)
    <3>1. Count(up', Calls(b)) <= IF x \in Calls(b) THEN Count(up, Calls(b)) + 1
                                 ELSE Count(up, Calls(b))
      BY <1>3, <2>2, WriteCount
    <3>2. CASE nick.bare = b
      <4>1. Open(b) = 1 /\ Open(b)' = 0
        BY <1>1, <2>2, <3>2 DEF Open, Enlisting, TypeOK, SenderTypeOK
      <4>2. QED
        BY <1>4, <1>5, <3>1, <4>1
    <3>3. CASE nick.bare # b
      <4>1. Open(b)' = Open(b)
        BY <1>1, <2>2, <3>3 DEF Open, Enlisting, TypeOK, SenderTypeOK, Bares
      <4>2. QED
        BY <1>3, <1>4, <1>5, <3>1, <3>3, <4>1
    <3>4. QED
      BY <3>2, <3>3
  <2>3. QED
    BY <1>2, <2>1, <2>2
<1>7. Count(up', Calls(b)) + Count(down', Presences(b)) + Open(b)'
        <= Count(up, Calls(b)) + Count(down, Presences(b)) + Open(b)
  BY <1>1, <1>4, <1>5, <1>6
<1>8. QED
  BY <1>1, <1>7, ClientSum

\* Taking a stanza off the queue of answers.
LEMMA DispatchCount ==
  ASSUME TypeOK, Dispatch, NEW B
  PROVE  /\ Count(down', B) \in Nat
         /\ Count(down, B) = IF Head(down) \in B THEN Count(down', B) + 1 ELSE Count(down', B)
<1>1. down \in Seq(DownStanza) /\ down # <<>> /\ down' = Tail(down) /\ Tail(down) \in Seq(DownStanza)
  BY HeadTailType DEF TypeOK, ServiceTypeOK, Dispatch
<1>2. QED
  BY <1>1, CountTail, PlacesFinite

LEMMA RoomCallbackDue ==
  ASSUME TypeOK, TypeOK', NEW b \in Rooms, RoomCallback, Open(b)' <= Open(b)
  PROVE  spare' <= spare /\ Due(b)' <= Due(b) + (spare - spare')
<1> DEFINE s == Head(down)
           c == s.jid.bare
           text == Stanza("groupchat", RoomJid(c), Message)
           stop == Stanza("chat", muc_senders[c], Resource)
<1>1. /\ s \in DownStanza /\ c \in Bares /\ HandleMUC(s) /\ muc_senders[c] \in JID
      /\ Dispatch /\ UNCHANGED <<accepted, spare>>
  <2>1. s \in DownStanza
    BY HeadTailType DEF TypeOK, ServiceTypeOK, RoomCallback, Dispatch
  <2>2. c \in Bares
    BY <2>1 DEF DownStanza, JID
  <2>3. QED
    BY <2>1, <2>2 DEF RoomCallback, Dispatch, Live, TypeOK, SenderTypeOK
<1>2. /\ Count(up, Calls(b)) \in Nat /\ Open(b) \in Nat /\ Count(up', Calls(b)) \in Nat
      /\ Open(b)' \in Nat
  BY DueType, PlacesFinite DEF TypeOK, ServiceTypeOK, Open
<1>3. /\ Count(down', Presences(b)) \in Nat
      /\ Count(down, Presences(b)) = IF s \in Presences(b) THEN Count(down', Presences(b)) + 1
                                     ELSE Count(down', Presences(b))
  BY <1>1, DispatchCount
<1>4. \/ Count(up', Calls(b)) <= Count(up, Calls(b))
      \/ s \in Presences(b) /\ Count(up', Calls(b)) <= Count(up, Calls(b)) + 1
  <2>1. CASE HandleOwnPresence(s)
    <3>1. RoomJid(c) \in JID /\ RoomJid(c).bare = c
      BY <1>1 DEF RoomJid, JID
    <3>2. text \in UpStanza /\ stop \in UpStanza
      BY <1>1, <3>1, UpStanzaType DEF UpKind, Body
    <3>3. stop \notin Calls(b) /\ (text \in Calls(b) => s \in Presences(b))
      BY <1>1, <2>1, <3>1 DEF Calls, Texts, Joins, Presences, Stanza, HandleOwnPresence
    <3>4. Write(<<text, stop>>)
      BY <2>1 DEF HandleOwnPresence
    <3> HIDE DEF text, stop, s
    <3>5. up \in Seq(UpStanza)
      BY DEF TypeOK, ServiceTypeOK
    <3>6. up' = up \/ up' = Append(Append(up, text), stop)
      BY <3>2, <3>4, <3>5, ConcatPair DEF Write
    <3>7. Count(Append(Append(up, text), stop), Calls(b))
            = IF text \in Calls(b) THEN Count(up, Calls(b)) + 1 ELSE Count(up, Calls(b))
      BY <3>2, <3>3, <3>5, CountAppendPair
    <3>8. CASE up' = up
      BY <1>2, <3>8
    <3>9. CASE up' = Append(Append(up, text), stop)
      BY <1>2, <3>3, <3>7, <3>9
    <3>10. QED
      BY <3>6, <3>8, <3>9
  <2>2. CASE UNCHANGED up
    BY <1>2, <2>2
  <2>3. QED
    BY <1>1, <2>1, <2>2 DEF HandleMUC, HandleOtherPresence, HandleMUCError, HandleStopMessage,
       HandleOtherMessage
<1> HIDE DEF s
<1>5. Count(up', Calls(b)) + Count(down', Presences(b)) + Open(b)'
        <= Count(up, Calls(b)) + Count(down, Presences(b)) + Open(b)
  BY <1>2, <1>3, <1>4
<1>6. QED
  BY <1>1, <1>5, ClientSum

\* The other steps of the client call no room.
LEMMA OtherDue ==
  ASSUME TypeOK, TypeOK', NEW b \in Rooms, Open(b)' <= Open(b), UNCHANGED <<accepted, spare>>,
         down' = down \/ Dispatch,
         \/ up' = up
         \/ \E x \in UpStanza : x.kind \in {"chat", "leave"} /\ Write(<<x>>)
  PROVE  spare' <= spare /\ Due(b)' <= Due(b) + (spare - spare')
<1>1. /\ Count(up, Calls(b)) \in Nat /\ Open(b) \in Nat /\ Count(up', Calls(b)) \in Nat
      /\ Open(b)' \in Nat
      /\ Count(down, Presences(b)) \in Nat /\ Count(down', Presences(b)) \in Nat
  BY DueType, PlacesFinite DEF TypeOK, ServiceTypeOK, Open
<1>2. Count(down', Presences(b)) <= Count(down, Presences(b))
  <2>1. CASE down' = down
    BY <1>1, <2>1
  <2>2. CASE Dispatch
    BY <1>1, <2>2, DispatchCount
  <2>3. QED
    BY <2>1, <2>2
<1>3. Count(up', Calls(b)) <= Count(up, Calls(b))
  <2>1. CASE up' = up
    BY <1>1, <2>1
  <2>2. ASSUME NEW x \in UpStanza, x.kind \in {"chat", "leave"}, Write(<<x>>)
        PROVE  Count(up', Calls(b)) <= Count(up, Calls(b))
    <3>1. x \notin Calls(b)
      BY <2>2 DEF Calls, Texts, Joins
    <3>2. QED
      BY <2>2, <3>1, WriteCount
  <2>3. QED
    BY <2>1, <2>2
<1>4. Count(up', Calls(b)) + Count(down', Presences(b)) + Open(b)'
        <= Count(up, Calls(b)) + Count(down, Presences(b)) + Open(b)
  BY <1>1, <1>2, <1>3
<1>5. QED
  BY <1>4, ClientSum

\* What SendTo and EraseSender write is a message to a contact and a leave.
LEMMA OtherWrites ==
  ASSUME TypeOK, SendTo \/ EraseSender
  PROVE  \/ up' = up
         \/ \E x \in UpStanza : x.kind \in {"chat", "leave"} /\ Write(<<x>>)
<1>1. CASE SendTo
  <2> DEFINE x == Stanza("chat", destinations[cursor].jid, Message)
  <2>1. destinations[cursor].jid \in JID
    BY <1>1, DestinationJid DEF SendTo, NextDestination
  <2>2. x \in UpStanza /\ x.kind = "chat"
    BY <2>1, UpStanzaType DEF UpKind, Body, Stanza
  <2>3. Write(<<x>>)
    BY <1>1 DEF SendTo
  <2> HIDE DEF x
  <2>4. QED
    BY <2>2, <2>3
<1>2. CASE EraseSender
  <2> DEFINE x == Stanza("leave", muc_senders[removing], NoBody)
  <2>1. CASE Live(removing)
    <3>1. muc_senders[removing] \in JID /\ Write(<<x>>)
      BY <1>2, <2>1 DEF EraseSender, DestroySender, Live, TypeOK, SenderTypeOK
    <3>2. x \in UpStanza /\ x.kind = "leave"
      BY <3>1, UpStanzaType DEF UpKind, Body, Stanza
    <3> HIDE DEF x
    <3>3. QED
      BY <3>1, <3>2
  <2>2. CASE ~Live(removing)
    BY <1>2, <2>2 DEF EraseSender, DestroySender
  <2>3. QED
    BY <2>1, <2>2
<1>3. QED
  BY <1>1, <1>2

LEMMA StepDue ==
  ASSUME TypeOK, TypeOK', NEW b \in Rooms, [Next]_vars
  PROVE  spare' <= spare /\ Due(b)' <= Due(b) + (spare - spare')
<1>0. Open(b)' <= Open(b)
  BY OpenFalls DEF Bares
<1>1. CASE SendTo \/ EraseSender
  <2>1. UNCHANGED <<down, accepted, spare>>
    BY <1>1 DEF SendTo, NextDestination, EraseSender, ServiceKept
  <2>2. QED
    BY <1>0, <1>1, <2>1, OtherWrites, OtherDue
<1>2. CASE OnConnect
  <2>1. UNCHANGED <<up, down, accepted, spare>>
    BY <1>2 DEF OnConnect, Write, ServiceKept, TypeOK, ServiceTypeOK
  <2>2. QED
    BY <1>0, <2>1, OtherDue
<1>3. CASE HandleMessage \/ UnhandledPresence
  <2>1. UNCHANGED <<up, accepted, spare>> /\ Dispatch
    BY <1>3 DEF HandleMessage, UnhandledPresence, Dispatch
  <2>2. QED
    BY <1>0, <2>1, OtherDue
<1>4. CASE \/ Start \/ ConnectDeclined \/ ConnectFails \/ Connected \/ OnConnectDone
           \/ LockForRemoval \/ DisconnectIfLast \/ StreamLost \/ StartReturns \/ Destroy
           \/ Exited \/ UNCHANGED vars
  <2>1. UNCHANGED <<up, down, accepted, spare>>
    BY <1>4 DEF Start, ConnectDeclined, ConnectFails, Connected, OnConnectDone, LockForRemoval,
       DisconnectIfLast, StreamLost, StartReturns, Destroy, Exited, ServiceKept, vars, serviceVars
  <2>2. QED
    BY <1>0, <2>1, OtherDue
<1>5. QED
  BY <1>0, <1>1, <1>2, <1>3, <1>4, ServiceDue, SendToRoomDue, RoomCallbackDue DEF Next, ClientNext

LEMMA InitPosts == Init => PostsBounded
<1>1. SUFFICES ASSUME Init, NEW b \in Rooms PROVE Bounded(b)
  BY DEF PostsBounded
<1>2. /\ accepted[b] = 0 /\ spare = MaxUnsolicited /\ MaxUnsolicited \in Nat
      /\ Count(up, Calls(b)) = 0 /\ Count(down, Presences(b)) = 0
  BY <1>1, CountEmpty, ServiceAssumption DEF Init, ServiceInit
<1>3. QED
  BY <1>2 DEF Bounded, Due, Open

LEMMA NextPosts ==
  ASSUME TypeOK, TypeOK', PostsBounded, [Next]_vars
  PROVE  PostsBounded'
<1>1. SUFFICES ASSUME NEW b \in Rooms PROVE Bounded(b)'
  BY DEF PostsBounded
<1>2. Bounded(b)
  BY DEF PostsBounded
<1>3. QED
  BY <1>2, StepDue, DueFalls

\* No room gets the text more than once, however many destinations name it
\* and whatever order things come in, except for the times something in the
\* room happened to us of its own accord.
THEOREM PostedOnce == Spec => []OncePerPresence
<1>1. Init => TypeOK /\ PostsBounded
  BY InitType, InitPosts
<1>2. TypeOK /\ PostsBounded /\ [Next]_vars => (TypeOK /\ PostsBounded)'
  BY NextType, NextPosts
<1>3. TypeOK /\ PostsBounded => OncePerPresence
  BY DueType DEF PostsBounded, Bounded, Due, OncePerPresence
<1>4. QED
  BY <1>1, <1>2, <1>3, PTL DEF Spec
=============================================================================
