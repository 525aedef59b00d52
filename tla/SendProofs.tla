----------------------------- MODULE SendProofs -----------------------------
(***************************************************************************)
(* Proofs about the whole program, from the command line to the exit       *)
(* status, for every command line, file, room, reply and failure.          *)
(*                                                                         *)
(* They join the two invariants there are: ConfigInv (ConfigProofs) holds  *)
(* until the Messenger has returned, PInv (MessengerProofs) from the       *)
(* moment it has been built.  MessengerProofs is instantiated with the     *)
(* variables of the whole program and with every list of recipients a      *)
(* Messenger may be given.                                                 *)
(***************************************************************************)
EXTENDS XmppSend, ConfigProofs

\* Nobody else's text can pass for the 'stop' message of a room we have not
\* written to: other occupants write it, if at all, only where no room
\* renames us, and contacts write only if -a names rooms alone.
HarmlessStops ==
  /\ "chatter" \in Unsolicited => "rename" \notin JoinReplies
  /\ "contact" \in Unsolicited =>
       \A line \in CommandLines : \A i \in 1..Len(line) :
         line[i].opt = "a" => JidOf[line[i].arg].bare \in Rooms

\* The lists of destinations a Messenger may be given under HarmlessStops.
RoomsAreRooms(list) ==
  \A i \in 1..Len(list) : list[i].type = "Groupchat" => list[i].jid.bare \in Rooms
GivenLists ==
  {list \in Seq(M!Destination) : "contact" \in Unsolicited => RoomsAreRooms(list)}

P == INSTANCE MessengerProofs WITH pc <- thread, DestinationLists <- GivenLists

-----------------------------------------------------------------------------
(* The invariant: where the process is, and what holds there.              *)

\* Every recipient stands behind an option -a or -d.
Chosen == \A k \in 1..Len(recipients) : \E i \in Naming : recipients[k] = Named(i)

HelpRead == pc \in {"parse", "exited", "aborted"} \/ Given("h") = {}

\* No Messenger has been built: nothing of it has moved.
Preparing ==
  /\ pc # "started"
  /\ ConfigInv /\ Chosen /\ HelpRead
  /\ M!Init

\* What a Messenger that has been built works for and works through.
Session ==
  /\ P!PInv
  /\ Inputs
  /\ P!Owed = AskedBares
  /\ Settled \subseteq AskedBares
  /\ Complete /\ ~PortInFile /\ Given("h") = {}

Running == pc = "started" /\ Session

Returned ==
  /\ pc = "exited" /\ thread = "exited"
  /\ status = CodeOf[result] % 256
  /\ Session

SendInv == Preparing \/ Running \/ Returned

-----------------------------------------------------------------------------
(***************************************************************************)
(* XmppSend sees Messenger through one instance, the proofs about it come  *)
(* through another.  They are the same, and assume the same.               *)
(***************************************************************************)
LEMMA SameNames ==
  /\ M!JID = P!JID /\ M!Bares = P!Bares
  /\ M!Destination = P!Destination
  /\ Settled = P!Settled
  BY DEF M!JID, P!JID, M!Bares, P!Bares, M!Destination, P!Destination,
     M!DestinationType, P!DestinationType, Settled, P!Settled

LEMMA PromiseAssumptions ==
  P!ServiceAssumption /\ P!StreamAssumption /\ P!SenderAssumption /\ P!DestinationAssumption
<1>1. P!ServiceAssumption
  BY SameNames, MessengerAssumption DEF P!ServiceAssumption
<1>2. P!StreamAssumption
  BY MessengerAssumption
     DEF P!StreamAssumption, M!NoError, P!NoError, M!UserDisconnected, P!UserDisconnected
<1>3. P!SenderAssumption
  BY MessengerAssumption DEF P!SenderAssumption
<1>4. P!DestinationAssumption
  BY SameNames DEF P!DestinationAssumption, GivenLists
<1> QED
  BY <1>1, <1>2, <1>3, <1>4

LEMMA HarmlessHere == HarmlessStops => P!HarmlessImpostors
  BY DEF HarmlessStops, P!HarmlessImpostors, GivenLists, RoomsAreRooms

LEMMA SameServer == M!ServerStep => P!ServiceNext
<1> USE DEF M!Stanza, P!Stanza, M!ServerReads, P!ServerReads, M!Answer, P!Answer
<1>1. M!RoomAdmits \/ M!RoomRenames \/ M!RoomRefuses \/ M!RoomIgnores =>
        P!RoomAdmits \/ P!RoomRenames \/ P!RoomRefuses \/ P!RoomIgnores
  BY Zenon DEF M!RoomAdmits, P!RoomAdmits, M!RoomRenames, P!RoomRenames,
     M!RoomRefuses, P!RoomRefuses, M!RoomIgnores, P!RoomIgnores
<1>2. M!RoomAccepts \/ M!RoomRelays \/ M!StanzaRejected \/ M!UserReceives \/ M!RoomReleases =>
        P!RoomAccepts \/ P!RoomRelays \/ P!StanzaRejected \/ P!UserReceives \/ P!RoomReleases
  BY Zenon DEF M!RoomAccepts, P!RoomAccepts, M!RoomRelays, P!RoomRelays,
     M!StanzaRejected, P!StanzaRejected, M!UserReceives, P!UserReceives,
     M!RoomReleases, P!RoomReleases
<1> QED
  BY <1>1, <1>2 DEF M!ServerStep, P!ServerStep, P!ServiceNext

LEMMA SameOutside == M!UnsolicitedStep \/ M!Break => P!ServiceNext
<1>1. M!UnsolicitedStep => P!UnsolicitedStep
  BY Zenon DEF M!UnsolicitedStep, P!UnsolicitedStep, M!Stanza, P!Stanza, M!Answer, P!Answer,
     M!SpendUnsolicited, P!SpendUnsolicited, M!RoomRepeatsPresence, P!RoomRepeatsPresence,
     M!OccupantWrites, P!OccupantWrites, M!RoomKicks, P!RoomKicks,
     M!ContactWrites, P!ContactWrites
<1>2. M!Break => P!Break
  BY Zenon DEF M!Break, P!Break
<1> QED
  BY <1>1, <1>2 DEF P!ServiceNext

LEMMA SameClient == M!ClientNext => P!ClientNext
<1> USE DEF M!GoTo, P!GoTo, M!ServiceKept, P!ServiceKept,
            M!serviceVars, P!serviceVars, M!streamVars, P!streamVars,
            M!senderVars, P!senderVars, M!controlVars, P!controlVars,
            M!Write, P!Write, M!Disconnect, P!Disconnect, M!OnDisconnect, P!OnDisconnect,
            M!UserDisconnected, P!UserDisconnected, M!NoError, P!NoError,
            M!Stanza, P!Stanza, M!NoSenders, P!NoSenders, M!Bares, P!Bares,
            M!Live, P!Live, M!CountWritten, P!CountWritten,
            M!CallRemoveMucSender, P!CallRemoveMucSender
<1>1. /\ M!Start => P!Start
      /\ M!ConnectDeclined => P!ConnectDeclined
      /\ M!ConnectFails => P!ConnectFails
      /\ M!Connected => P!Connected
  BY Zenon DEF M!Start, P!Start, M!ConnectDeclined, P!ConnectDeclined,
     M!ConnectFails, P!ConnectFails, M!Connected, P!Connected,
     M!Establish, P!Establish, M!OnTLSConnect, P!OnTLSConnect
<1>2. /\ M!OnConnect => P!OnConnect
      /\ M!SendTo => P!SendTo
      /\ M!SendToRoom => P!SendToRoom
      /\ M!OnConnectDone => P!OnConnectDone
  BY Zenon DEF M!OnConnect, P!OnConnect, M!SendTo, P!SendTo, M!SendToRoom, P!SendToRoom,
     M!OnConnectDone, P!OnConnectDone, M!NextDestination, P!NextDestination,
     M!WithNick, P!WithNick, M!StartSender, P!StartSender
<1>3. /\ M!RoomCallback => P!RoomCallback
      /\ M!HandleMessage => P!HandleMessage
      /\ M!UnhandledPresence => P!UnhandledPresence
  BY Zenon DEF M!RoomCallback, P!RoomCallback, M!HandleMessage, P!HandleMessage,
     M!UnhandledPresence, P!UnhandledPresence, M!Dispatch, P!Dispatch, M!RoomJid, P!RoomJid,
     M!HandleMUC, P!HandleMUC, M!HandleOwnPresence, P!HandleOwnPresence,
     M!HandleOtherPresence, P!HandleOtherPresence, M!HandleMUCError, P!HandleMUCError,
     M!HandleStopMessage, P!HandleStopMessage, M!HandleOtherMessage, P!HandleOtherMessage
<1>4. /\ M!LockForRemoval => P!LockForRemoval
      /\ M!EraseSender => P!EraseSender
      /\ M!DisconnectIfLast => P!DisconnectIfLast
  BY Zenon DEF M!LockForRemoval, P!LockForRemoval, M!EraseSender, P!EraseSender,
     M!DestroySender, P!DestroySender, M!DisconnectIfLast, P!DisconnectIfLast
<1>5. /\ M!StreamLost => P!StreamLost
      /\ M!StartReturns => P!StartReturns
      /\ M!Destroy => P!Destroy
  BY Zenon DEF M!StreamLost, P!StreamLost, M!Lose, P!Lose,
     M!StartReturns, P!StartReturns, M!Destroy, P!Destroy
<1> QED
  BY <1>1, <1>2, <1>3, <1>4, <1>5, Zenon DEF M!ClientNext, P!ClientNext

\* While main is in start(), every step is one of Messenger.
LEMMA MessengerSteps ==
  ASSUME ClientStep \/ ServerAnswers \/ OutsideStep
  PROVE  P!Next /\ UNCHANGED configVars /\ pc = "started"
<1>1. CASE ClientStep
  BY <1>1, SameClient DEF ClientStep, P!Next
<1>2. CASE ServerAnswers \/ OutsideStep
  <2>1. P!ServiceNext /\ UNCHANGED <<configVars, conn, result, muc_senders, joined, reported,
                                     written, removing, destinations, cursor, map_guard, thread>>
    BY <1>2, SameServer, SameOutside DEF ServerAnswers, OutsideStep
  <2>2. P!ServiceStep
    BY <2>1 DEF P!ServiceStep, P!streamVars, P!senderVars, P!controlVars
  <2> QED
    BY <1>2, <2>1, <2>2 DEF P!Next, ServerAnswers, OutsideStep
<1> QED
  BY <1>1, <1>2

-----------------------------------------------------------------------------
(***************************************************************************)
(* Before there is a Messenger.                                            *)
(***************************************************************************)
Over == {"started", "exited", "aborted"}

\* What a step of main before the session may do to the phase and to what
\* has been read.
LEMMA ConfigureMoves ==
  ASSUME Configure
  PROVE  /\ UNCHANGED inputVars
         /\ pc \notin Over /\ pc' # "started"
         /\ pc # "parse" \/ pc' \in {"parse", "exited", "aborted"} \/ OptionsEnd
         /\ pc' = "parse" \/ pc # "parse" \/ UNCHANGED recipients
         /\ UNCHANGED recipients \/ OptionRecipient
<1> USE DEF Over, Exit, Terminate, Throw
<1>1. CASE OptionHelp \/ OptionVerbose \/ OptionValue \/ OptionPort \/ OptionRecipient
           \/ OptionUnknown \/ Word
  BY <1>1 DEF OptionHelp, OptionVerbose, OptionValue, OptionPort, OptionRecipient,
     OptionUnknown, Word, NextOption, KeepParsing
<1>2. CASE OptionsEnd
  BY <1>2 DEF OptionsEnd, inputVars
<1>3. CASE InitConfig
  BY <1>3 DEF InitConfig, AfterInit, Continue, inputVars
<1>4. CASE GetJid \/ GetPassword \/ GetJID \/ GetServer \/ GetPort
  BY <1>4 DEF GetJid, GetPassword, GetText, GetJID, JIDFails, GetServer, GetPort,
     Getter, Return
<1>5. CASE DebugPrinted \/ CheckRecipients \/ ReadMessage
  BY <1>5 DEF DebugPrinted, CheckRecipients, ReadMessage, Continue, MainStep, inputVars
<1> QED
  BY <1>1, <1>2, <1>3, <1>4, <1>5 DEF Configure

LEMMA ConfigureHelp ==
  ASSUME ConfigInv, HelpRead, Configure
  PROVE  HelpRead'
<1>1. Given("h")' = Given("h")
  BY ConfigureMoves, AskedStays
<1>2. CASE OptionsEnd
  <2>1. optind = Len(args) /\ \A i \in 1..optind : args[i].opt # "h"
    BY <1>2 DEF OptionsEnd, ConfigInv
  <2> QED
    BY <1>1, <2>1 DEF HelpRead, Given
<1>3. CASE ~OptionsEnd
  BY <1>1, <1>3, ConfigureMoves DEF HelpRead, Over
<1> QED
  BY <1>2, <1>3

LEMMA ConfigureChosen ==
  ASSUME ConfigInv, Chosen, Configure
  PROVE  Chosen'
<1>1. Naming' = Naming /\ \A i : Named(i)' = Named(i)
  BY ConfigureMoves, AskedStays
<1>2. CASE UNCHANGED recipients
  BY <1>1, <1>2 DEF Chosen
<1>3. CASE OptionRecipient
  <2> DEFINE i == optind + 1
  <2>1. /\ optind < Len(args) /\ args[i].opt \in {"a", "d"}
        /\ recipients' = Append(recipients, Named(i))
    BY <1>3 DEF OptionRecipient, NextOption, Named
  <2>2. optind \in 0..Len(args) /\ Len(args) \in Nat /\ recipients \in Seq(Destination)
    BY ConfigAssumption DEF ConfigInv, ConfigTypeOK, Inputs
  <2>3. i \in Naming
    BY <2>1, <2>2 DEF Naming, Given
  <2> HIDE DEF i
  <2>4. /\ Len(recipients') = Len(recipients) + 1
        /\ recipients'[Len(recipients) + 1] = Named(i)
        /\ \A k \in 1..Len(recipients) : recipients'[k] = recipients[k]
    BY <2>1, <2>2
  <2>5. ASSUME NEW k \in 1..Len(recipients')
        PROVE  \E j \in Naming : recipients'[k] = Named(j)
    <3>1. Len(recipients) \in Nat
      BY <2>2
    <3>2. k = Len(recipients) + 1 \/ k \in 1..Len(recipients)
      BY <2>4, <3>1
    <3> QED
      BY <2>3, <2>4, <3>2 DEF Chosen
  <2> QED
    BY <1>1, <2>5 DEF Chosen
<1> QED
  BY <1>2, <1>3, ConfigureMoves

LEMMA ConfigStepInv ==
  ASSUME Preparing, ConfigStep
  PROVE  Preparing'
<1>1. Configure /\ UNCHANGED messengerVars
  BY DEF ConfigStep
<1>2. ConfigInv'
  BY <1>1, ConfigSteps DEF Preparing, Configure, ConfigNext
<1>3. M!Init'
  BY <1>1, Zenon DEF Preparing, messengerVars, M!Init, M!ServiceInit, M!StreamInit, M!SenderInit
<1> QED
  BY <1>1, <1>2, <1>3, ConfigureMoves, ConfigureHelp, ConfigureChosen DEF Preparing

-----------------------------------------------------------------------------
(***************************************************************************)
(* The Messenger is built.                                                 *)
(***************************************************************************)
\* What lies behind -a and -d makes a list a Messenger may be given.
LEMMA ParsedGiven ==
  ASSUME HarmlessStops, Inputs, Chosen, recipients \in Seq(Destination)
  PROVE  Parsed(recipients) \in GivenLists
<1>1. Len(recipients) \in Nat
  OBVIOUS
<1>2. ASSUME NEW k \in 1..Len(recipients)
      PROVE  /\ recipients[k].type \in M!DestinationType
             /\ JidOf[recipients[k].jid] \in M!JID
             /\ "contact" \in Unsolicited /\ recipients[k].type = "Groupchat"
                  => JidOf[recipients[k].jid].bare \in Rooms
  <2>1. PICK i \in Naming : recipients[k] = Named(i)
    BY DEF Chosen
  <2>2. args \in CommandLines /\ i \in 1..Len(args) /\ args[i].opt \in {"a", "d"}
    BY DEF Inputs, Naming, Given
  <2>3. args[i].arg \in DOMAIN JidOf /\ JidOf[args[i].arg] \in M!JID
    BY <2>2, SendAssumption
  <2>4. /\ recipients[k].jid = args[i].arg
        /\ recipients[k].type = IF args[i].opt = "d" THEN "Normal" ELSE "Groupchat"
    BY <2>1 DEF Named
  <2>5. recipients[k].type = "Groupchat" => args[i].opt = "a"
    BY <2>2, <2>4
  <2>6. recipients[k].type \in M!DestinationType
    BY <2>4 DEF M!DestinationType
  <2> QED
    BY <2>2, <2>3, <2>4, <2>5, <2>6 DEF HarmlessStops
<1> DEFINE list == Parsed(recipients)
<1>3. /\ list \in Seq(M!Destination) /\ Len(list) = Len(recipients)
      /\ \A k \in 1..Len(recipients) :
           list[k] = [type |-> recipients[k].type, jid |-> JidOf[recipients[k].jid]]
  BY <1>1, <1>2 DEF Parsed, M!Destination
<1> HIDE DEF list
<1>4. ASSUME "contact" \in Unsolicited, NEW k \in 1..Len(list), list[k].type = "Groupchat"
      PROVE  list[k].jid.bare \in Rooms
  <2>1. k \in 1..Len(recipients)
    BY <1>3
  <2>2. list[k] = [type |-> recipients[k].type, jid |-> JidOf[recipients[k].jid]]
    BY <1>3, <2>1
  <2>3. list[k].type = recipients[k].type /\ list[k].jid = JidOf[recipients[k].jid]
    BY <2>2
  <2> QED
    BY <1>2, <1>4, <2>1, <2>3
<1> QED
  BY <1>3, <1>4 DEF GivenLists, RoomsAreRooms, list

LEMMA SessionStarts == P!Init => P!PInv
  BY PromiseAssumptions, P!InitPromise

LEMMA SessionStartsNext == P!Init' => P!PInv'
  BY SessionStarts, PTL

LEMMA NothingSettled == M!Init => Settled = {}
  BY DEF M!Init, M!SenderInit, Settled

LEMMA BuildStep ==
  ASSUME HarmlessStops, Preparing, BuildMessenger
  PROVE  Running'
<1>1. /\ pc = "messenger" /\ pc' = "started" /\ StartMessenger
      /\ UNCHANGED inputVars /\ UNCHANGED recipients
      /\ destinations' = Parsed(recipients)
      /\ UNCHANGED <<up, down, broken, occupants, accepted, spare, conn, result,
                     muc_senders, joined, reported, written, removing, cursor, map_guard, thread>>
  BY DEF BuildMessenger, StartMessenger, MainStep
<1>2. ConfigInv'
  BY <1>1, ConfigSteps DEF Preparing, ConfigNext
<1>3. /\ recipients = AskedRecipients /\ recipients \in Seq(Destination) /\ Inputs
      /\ Chosen /\ Given("h") = {}
  BY <1>1 DEF Preparing, HelpRead, ConfigInv, LookedUp, OptionsKept
<1>4. Inputs' /\ Complete' /\ ~PortInFile' /\ Given("h")' = {} /\ AskedRecipients' = recipients
  BY <1>1, <1>2, <1>3, AskedStays DEF ConfigInv, TerminatesForCause
<1>5. P!Init'
  <2>1. destinations' \in GivenLists
    BY <1>1, <1>3, ParsedGiven
  <2>2. M!ServiceInit' /\ M!StreamInit' /\ M!SenderInit'
    BY <1>1, Zenon DEF Preparing, M!Init, M!ServiceInit, M!StreamInit, M!SenderInit
  <2>3. /\ thread' = "start" /\ removing' = NoJID /\ cursor' = 1 /\ map_guard' = "free"
    BY <1>1 DEF Preparing, M!Init
  <2> QED
    BY <2>1, <2>2, <2>3, Zenon DEF P!Init, P!ServiceInit, M!ServiceInit, P!StreamInit, M!StreamInit,
       P!SenderInit, M!SenderInit, P!NoError, M!NoError, P!Bares, M!Bares
<1>6. P!Owed' = AskedBares'
  <2>1. Len(recipients) \in Nat
    BY <1>3
  <2>2. /\ Len(destinations') = Len(recipients)
        /\ \A i \in 1..Len(recipients) :
             destinations'[i].jid.bare = JidOf[recipients[i].jid].bare
    BY <1>1, <2>1 DEF Parsed
  <2> QED
    BY <1>4, <2>2 DEF P!Owed, AskedBares
<1>7. Settled' = {}
  <2>1. Settled' = Settled
    BY <1>1 DEF Settled
  <2> QED
    BY <2>1, NothingSettled DEF Preparing
<1> QED
  BY <1>1, <1>4, <1>5, <1>6, <1>7, SessionStartsNext DEF Running, Session

-----------------------------------------------------------------------------
(***************************************************************************)
(* The session, and its end.                                               *)
(***************************************************************************)
LEMMA SessionKept ==
  ASSUME HarmlessStops, Session, [P!Next]_(P!vars), UNCHANGED inputVars
  PROVE  /\ Session'
         /\ AskedBares' = AskedBares
         /\ Settled' = Settled \/ \E b \in AskedBares \ Settled : Settled' = Settled \cup {b}
<1>1. P!PInv'
  BY PromiseAssumptions, HarmlessHere, P!NextPromise DEF Session
<1>2. /\ P!Owed' = P!Owed
      /\ P!Settled' = P!Settled \/ \E b \in P!Owed \ P!Settled : P!Settled' = P!Settled \cup {b}
  BY PromiseAssumptions, P!StepSettles DEF Session
<1>3. Settled = P!Settled /\ Settled' = P!Settled'
  BY DEF Settled, P!Settled, M!Bares, P!Bares
<1>4. /\ AskedBares' = AskedBares /\ Complete' = Complete /\ PortInFile' = PortInFile /\ Inputs' = Inputs
      /\ Given("h")' = Given("h")
  BY AskedStays DEF AskedBares
<1> QED
  BY <1>1, <1>2, <1>3, <1>4 DEF Session

LEMMA RunningStep ==
  ASSUME HarmlessStops, Running, ClientStep \/ ServerAnswers \/ OutsideStep
  PROVE  Running'
  BY MessengerSteps, SessionKept DEF Running, configVars, inputVars

LEMMA ReturnStep ==
  ASSUME HarmlessStops, Running, ReturnFromMain
  PROVE  Returned'
<1>1. /\ pc' = "exited" /\ thread = "exited" /\ status' = CodeOf[result] % 256
      /\ UNCHANGED inputVars /\ UNCHANGED messengerVars
  BY DEF ReturnFromMain, Exit
<1>2. UNCHANGED P!vars /\ thread' = thread /\ result' = result
  BY <1>1 DEF messengerVars, P!vars, P!serviceVars, P!streamVars, P!senderVars, P!controlVars
<1> QED
  BY <1>1, <1>2, SessionKept DEF Running, Returned

LEMMA StutterStep ==
  ASSUME HarmlessStops, SendInv, UNCHANGED sendVars
  PROVE  SendInv'
<1>1. UNCHANGED configVars /\ UNCHANGED messengerVars
  BY DEF sendVars
<1>2. /\ UNCHANGED inputVars /\ pc' = pc /\ status' = status /\ recipients' = recipients
      /\ thread' = thread /\ result' = result /\ UNCHANGED P!vars
  BY <1>1 DEF configVars, inputVars, messengerVars, P!vars, P!serviceVars, P!streamVars,
     P!senderVars, P!controlVars
<1>3. CASE Preparing
  <2>1. M!Init'
    BY <1>1, <1>3, Zenon
       DEF Preparing, messengerVars, M!Init, M!ServiceInit, M!StreamInit, M!SenderInit
  <2>2. Chosen' /\ HelpRead'
    BY <1>2, <1>3, AskedStays DEF Preparing, Chosen, HelpRead
  <2> QED
    BY <1>1, <1>2, <1>3, <2>1, <2>2, ConfigStutters DEF Preparing, SendInv
<1>4. CASE Running
  BY <1>2, <1>4, SessionKept DEF Running, SendInv
<1>5. CASE Returned
  BY <1>2, <1>5, SessionKept DEF Returned, SendInv
<1> QED
  BY <1>3, <1>4, <1>5 DEF SendInv

LEMMA SendStarts == SendInit => SendInv
<1> SUFFICES ASSUME SendInit PROVE SendInv
  OBVIOUS
<1>1. ConfigInv /\ M!Init /\ pc = "parse" /\ recipients = <<>>
  BY ConfigStarts DEF SendInit, ConfigInit
<1> QED
  BY <1>1 DEF SendInv, Preparing, Chosen, HelpRead

\* Which phase a step belongs to.
LEMMA StepPhase ==
  ASSUME SendInv, SendNext
  PROVE  \/ Preparing /\ (ConfigStep \/ BuildMessenger)
         \/ Running /\ (ClientStep \/ ServerAnswers \/ OutsideStep \/ ReturnFromMain)
         \/ UNCHANGED sendVars
<1>1. Preparing => pc # "started"
  BY DEF Preparing
<1>2. Running \/ Returned => pc \in Over
  BY DEF Running, Returned, Over
<1>3. CASE ConfigStep
  BY <1>2, <1>3, ConfigureMoves DEF ConfigStep, SendInv
<1>4. CASE BuildMessenger
  BY <1>2, <1>4 DEF BuildMessenger, StartMessenger, SendInv, Over
<1>5. CASE ClientStep \/ ServerAnswers \/ OutsideStep \/ ReturnFromMain
  BY <1>1, <1>5 DEF ClientStep, ServerAnswers, OutsideStep, ReturnFromMain, SendInv, Returned
<1> QED
  BY <1>3, <1>4, <1>5 DEF SendNext, Ended

LEMMA SendSteps ==
  ASSUME HarmlessStops
  PROVE  SendInv /\ [SendNext]_sendVars => SendInv'
<1> SUFFICES ASSUME SendInv, [SendNext]_sendVars PROVE SendInv'
  OBVIOUS
<1>1. CASE UNCHANGED sendVars
  BY <1>1, StutterStep
<1>2. CASE Preparing /\ (ConfigStep \/ BuildMessenger)
  BY <1>2, ConfigStepInv, BuildStep DEF SendInv
<1>3. CASE Running /\ (ClientStep \/ ServerAnswers \/ OutsideStep \/ ReturnFromMain)
  BY <1>3, RunningStep, ReturnStep DEF SendInv
<1> QED
  BY <1>1, <1>2, <1>3, StepPhase

LEMMA SendInvariance ==
  ASSUME HarmlessStops
  PROVE  SendSpec => []SendInv
  BY SendStarts, SendSteps, PTL DEF SendSpec

-----------------------------------------------------------------------------
(* The theorems.                                                           *)

LEMMA SessionComplete ==
  ASSUME Session, conn = "closed", result = P!NoError
  PROVE  AskedBares \subseteq Settled
  BY PromiseAssumptions, P!CompleteAtExit, SameNames DEF Session

LEMMA SessionIdle ==
  ASSUME Session, conn = "idle"
  PROVE  Settled = {}
  BY SameNames DEF Session, P!PInv, P!Account, P!NothingBeforeSession

\* How the result of a session becomes an exit status.
LEMMA ReturnedStatus ==
  ASSUME Session, thread = "exited"
  PROVE  /\ CodeOf[result] % 256 = 0 <=> result = P!NoError
         /\ CodeOf[result] % 256 \in Int
         /\ conn \in {"idle", "closed"}
<1>1. result \in Failures \cup {P!NoError} /\ conn \in {"idle", "connected", "closed"}
  BY DEF Session, P!PInv, P!IInv, P!TypeOK, P!StreamTypeOK
<1>2. conn # "connected"
  BY DEF Session, P!PInv, P!IInv, P!Discipline, P!StreamFollowsControl
<1>3. CodeOf[P!NoError] = 0 /\ \A e \in Failures : CodeOf[e] \in 1..255
  BY SendAssumption DEF M!NoError, P!NoError
<1>4. P!NoError \notin Failures
  BY MessengerAssumption DEF M!NoError, P!NoError
<1>5. CASE result = P!NoError
  BY <1>1, <1>2, <1>3, <1>5
<1>6. CASE result \in Failures
  <2>1. CodeOf[result] \in 1..255
    BY <1>3, <1>6
  <2>2. CodeOf[result] % 256 = CodeOf[result]
    BY <2>1
  <2> QED
    BY <1>1, <1>2, <1>4, <1>6, <2>1, <2>2
<1> QED
  BY <1>1, <1>5, <1>6

\* Exit status 0 of the process means that the help was asked for, that there
\* never was a connection, or that every JID behind -a and -d was sent the
\* text or named in an error: whatever main, the rooms and the network do.
THEOREM HonestStatus ==
  ASSUME HarmlessStops
  PROVE  SendSpec => []StatusHonest
<1>1. SendInv => StatusHonest
  <2> SUFFICES ASSUME SendInv, pc = "exited", status = 0
               PROVE  \/ Given("h") # {}
                      \/ thread = "exited" /\ conn = "idle" /\ Settled = {}
                      \/ AskedBares \subseteq Settled
    BY DEF StatusHonest
  <2>1. CASE Preparing
    BY <2>1 DEF Preparing, ConfigInv, FailsLoudly
  <2>2. CASE Returned
    BY <2>2, ReturnedStatus, SessionComplete, SessionIdle DEF Returned
  <2> QED
    BY <2>1, <2>2 DEF SendInv, Running
<1> QED
  BY <1>1, SendInvariance, PTL

\* The process writes to nobody, and complains of nobody, whom -a and -d do
\* not name, and to nobody at all unless the command line and the file are
\* complete and no help was asked for.
THEOREM NobodyElse ==
  ASSUME HarmlessStops
  PROVE  SendSpec => []OnlyTheAsked
<1>1. SendInv => OnlyTheAsked
  BY NothingSettled DEF SendInv, Preparing, Running, Returned, Session, OnlyTheAsked
<1> QED
  BY <1>1, SendInvariance, PTL

-----------------------------------------------------------------------------
(***************************************************************************)
(* The whole program implements Delivery.                                  *)
(***************************************************************************)
LEMMA NamingFinite ==
  ASSUME Inputs
  PROVE  IsFiniteSet(Naming) /\ Cardinality(Naming) \in Nat
<1>1. Naming \in SUBSET (1..Len(args)) /\ Len(args) \in Nat
  BY ConfigAssumption DEF Inputs, Naming, Given
<1>2. IsFiniteSet(1..Len(args))
  BY <1>1, FS_Interval
<1>3. IsFiniteSet(Naming)
  BY <1>1, <1>2, FS_Subset
<1> QED
  BY <1>3, FS_CardinalityType

\* Every place among the recipients is that of one option -a or -d.
LEMMA EveryPlaceTaken ==
  ASSUME Inputs, NEW k \in 1..Cardinality(Naming)
  PROVE  \E i \in Naming : Place(i) = k
<1> DEFINE n == Cardinality(Naming)
           f == [i \in Naming |-> Place(i)]
<1>1. IsFiniteSet(Naming) /\ n \in Nat
  BY NamingFinite
<1>2. ASSUME NEW i \in Naming
      PROVE  Place(i) \in 1..n
  <2> DEFINE A == {j \in Naming : j <= i}
  <2>1. A \in SUBSET Naming /\ i \in A
    BY ConfigAssumption DEF Inputs, Naming, Given
  <2>2. IsFiniteSet(A) /\ Cardinality(A) \in Nat /\ Cardinality(A) <= n
    BY <1>1, <2>1, FS_Subset, FS_CardinalityType
  <2>3. Cardinality(A) # 0
    BY <2>1, <2>2, FS_EmptySet
  <2> QED
    BY <1>1, <2>2, <2>3 DEF Place
<1>3. f \in Injection(Naming, 1..n)
  BY <1>2, PlacesDiffer DEF Injection, IsInjective
<1>4. IsFiniteSet(1..n) /\ Cardinality(1..n) = n
  BY <1>1, FS_Interval
<1>5. f \in Surjection(Naming, 1..n)
  BY <1>3, <1>4, FS_Injection
<1> QED
  BY <1>5 DEF Surjection

\* Whatever the command line asks for is a JID.
LEMMA AskedIsKnown ==
  ASSUME Inputs
  PROVE  AskedBares \subseteq M!Bares
<1>1. Cardinality(Naming) \in Nat
  BY NamingFinite
<1>2. Len(AskedRecipients) = Cardinality(Naming)
  BY <1>1 DEF AskedRecipients
<1>3. ASSUME NEW k \in 1..Len(AskedRecipients)
      PROVE  JidOf[AskedRecipients[k].jid].bare \in M!Bares
  <2>1. \E i \in Naming : Place(i) = k
    BY <1>2, <1>3, EveryPlaceTaken
  <2>2. PICK i \in Naming : AskedRecipients[k] = Named(i)
    BY <1>2, <2>1 DEF AskedRecipients
  <2>3. args \in CommandLines /\ i \in 1..Len(args) /\ args[i].opt \in {"a", "d"}
    BY DEF Inputs, Naming, Given
  <2>4. JidOf[args[i].arg] \in M!JID
    BY <2>3, SendAssumption
  <2>5. AskedRecipients[k].jid = args[i].arg
    BY <2>2 DEF Named
  <2> QED
    BY <2>4, <2>5 DEF M!JID
<1> QED
  BY <1>3 DEF AskedBares

LEMMA SendInitMaps == SendInit => SendPromise!Init
<1> SUFFICES ASSUME SendInit PROVE SendPromise!Init
  OBVIOUS
<1>1. Inputs /\ Settled = {} /\ pc = "parse"
  BY NothingSettled DEF SendInit, ConfigInit, Inputs
<1> QED
  BY <1>1, AskedIsKnown DEF SendPromise!Init, SendOutcome

\* A step of main before the session ends the promise or does not touch it.
LEMMA ConfigStepMaps ==
  ASSUME Preparing, ConfigStep
  PROVE  [SendPromise!Next]_(SendPromise!deliveryVars)
<1>1. /\ AskedBares' = AskedBares /\ Settled' = Settled /\ Settled = {}
      /\ SendOutcome = "running" /\ conn' = "idle" /\ pc' # "started"
  <2>1. UNCHANGED inputVars /\ UNCHANGED messengerVars /\ pc \notin Over /\ pc' # "started"
    BY ConfigureMoves DEF ConfigStep
  <2>2. written' = written /\ reported' = reported /\ conn' = conn /\ conn = "idle"
    BY <2>1 DEF Preparing, messengerVars, M!Init, M!StreamInit
  <2>3. Settled' = Settled /\ Settled = {}
    BY <2>2, NothingSettled DEF Preparing, Settled
  <2> QED
    BY <2>1, <2>2, <2>3, AskedStays DEF AskedBares, SendOutcome, Over
<1>2. CASE pc' \notin {"exited", "aborted"}
  BY <1>1, <1>2 DEF SendOutcome, SendPromise!deliveryVars
<1>3. CASE pc' = "aborted" \/ (pc' = "exited" /\ status' # 0)
  <2>1. SendOutcome' = "failure"
    BY <1>3 DEF SendOutcome
  <2> QED
    BY <1>1, <2>1 DEF SendPromise!Next, SendPromise!Fail, SendPromise!End
<1>4. CASE pc' = "exited" /\ status' = 0
  <2>1. SendOutcome' = "unstarted"
    BY <1>1, <1>4 DEF SendOutcome
  <2> QED
    BY <1>1, <2>1 DEF SendPromise!Next, SendPromise!NeverStart, SendPromise!End
<1>5. \/ pc' \notin {"exited", "aborted"}
      \/ pc' = "aborted" \/ (pc' = "exited" /\ status' # 0)
      \/ pc' = "exited" /\ status' = 0
  OBVIOUS
<1> QED
  BY <1>2, <1>3, <1>4, <1>5, Zenon

\* Building the Messenger is a stutter of the promise.
LEMMA BuildStepMaps ==
  ASSUME BuildMessenger
  PROVE  UNCHANGED SendPromise!deliveryVars
<1>1. /\ UNCHANGED inputVars /\ pc = "messenger" /\ pc' = "started"
      /\ written' = written /\ reported' = reported
  BY DEF BuildMessenger, StartMessenger, MainStep
<1>2. AskedBares' = AskedBares /\ Settled' = Settled
  BY <1>1, AskedStays DEF AskedBares, Settled
<1> QED
  BY <1>1, <1>2 DEF SendOutcome, SendPromise!deliveryVars

\* A step of the session settles one JID that is owed, or none.
LEMMA RunningStepMaps ==
  ASSUME HarmlessStops, Running, ClientStep \/ ServerAnswers \/ OutsideStep
  PROVE  [SendPromise!Next]_(SendPromise!deliveryVars)
<1>1. P!Next /\ UNCHANGED inputVars /\ pc = "started" /\ pc' = "started" /\ Session
  BY MessengerSteps DEF Running, configVars, inputVars
<1>2. /\ AskedBares' = AskedBares
      /\ Settled' = Settled \/ \E b \in AskedBares \ Settled : Settled' = Settled \cup {b}
  BY <1>1, SessionKept
<1>3. SendOutcome = "running" /\ SendOutcome' = "running"
  BY <1>1 DEF SendOutcome
<1>4. CASE Settled' = Settled
  BY <1>2, <1>3, <1>4 DEF SendPromise!deliveryVars
<1>5. ASSUME NEW b \in AskedBares \ Settled, Settled' = Settled \cup {b}
      PROVE  SendPromise!Next
  <2>1. b \in M!Bares
    BY <1>1, AskedIsKnown DEF Session
  <2>2. SendPromise!Settle(b)
    BY <1>2, <1>3, <1>5 DEF SendPromise!Settle
  <2> QED
    BY <2>1, <2>2 DEF SendPromise!Next
<1> QED
  BY <1>2, <1>4, <1>5

\* main's return ends the promise as Delivery allows.
LEMMA ReturnStepMaps ==
  ASSUME Running, ReturnFromMain
  PROVE  SendPromise!Next
<1>1. /\ Session /\ pc = "started" /\ pc' = "exited" /\ thread = "exited"
      /\ status' = CodeOf[result] % 256
      /\ UNCHANGED inputVars /\ UNCHANGED messengerVars
  BY DEF Running, ReturnFromMain, Exit
<1>2. /\ AskedBares' = AskedBares /\ Settled' = Settled /\ SendOutcome = "running"
      /\ conn' = conn
  BY <1>1, AskedStays DEF AskedBares, Settled, SendOutcome, messengerVars
<1>3. CASE result # P!NoError
  <2>1. SendOutcome' = "failure"
    BY <1>1, <1>3, ReturnedStatus DEF SendOutcome
  <2> QED
    BY <1>2, <2>1 DEF SendPromise!Next, SendPromise!Fail, SendPromise!End
<1>4. CASE result = P!NoError /\ conn = "idle"
  <2>1. SendOutcome' = "unstarted"
    BY <1>1, <1>2, <1>4, ReturnedStatus DEF SendOutcome
  <2> QED
    BY <1>1, <1>2, <1>4, <2>1, SessionIdle DEF SendPromise!Next, SendPromise!NeverStart, SendPromise!End
<1>5. CASE result = P!NoError /\ conn = "closed"
  <2>1. SendOutcome' = "success"
    BY <1>1, <1>2, <1>5, ReturnedStatus DEF SendOutcome
  <2> QED
    BY <1>1, <1>2, <1>5, <2>1, SessionComplete DEF SendPromise!Next, SendPromise!Succeed, SendPromise!End
<1> QED
  BY <1>1, <1>3, <1>4, <1>5, ReturnedStatus

LEMMA StutterMaps ==
  ASSUME UNCHANGED sendVars
  PROVE  UNCHANGED SendPromise!deliveryVars
<1>1. UNCHANGED inputVars /\ pc' = pc /\ status' = status /\ conn' = conn
      /\ written' = written /\ reported' = reported
  BY DEF sendVars, configVars, inputVars, messengerVars
<1> QED
  BY <1>1, AskedStays DEF AskedBares, Settled, SendOutcome, SendPromise!deliveryVars

\* What the caller may rely on: towards its command line, the process is
\* allowed nothing that Delivery does not allow.  What is settled is what
\* was asked for, and exit status 0 after a session means that all of it is.
THEOREM PromiseToCaller ==
  ASSUME HarmlessStops
  PROVE  SendSpec => KeepsPromiseToCaller
<1>1. SendInit => SendPromise!Init
  BY SendInitMaps
<1>2. SendInv /\ [SendNext]_sendVars => [SendPromise!Next]_(SendPromise!deliveryVars)
  BY StepPhase, ConfigStepMaps, BuildStepMaps, RunningStepMaps, ReturnStepMaps, StutterMaps
<1> QED
  BY <1>1, <1>2, SendInvariance, PTL DEF SendSpec, KeepsPromiseToCaller, SendPromise!Spec
=============================================================================
