------------------------------ MODULE XmppSend ------------------------------
(***************************************************************************)
(* The whole program: main reads what it is asked for (XmppConfig), builds *)
(* a Messenger from it, runs it against the service (Messenger), and       *)
(* returns what the Messenger returned.  The two parts share no variable:  *)
(* the recipients cross over when the Messenger is built, the result when  *)
(* it returns.                                                             *)
(***************************************************************************)
EXTENDS XmppConfig

CONSTANTS
  Rooms, Users, Nicks, NoResource, NoJID, Message, Resource, NoBody,
  JoinReplies, Unsolicited, MaxUnsolicited, Failures, Username,  \* Messenger's
  JidOf,        \* the JID gloox makes of a text after -a or -d
  CodeOf        \* the number of a gloox::ConnectionError

VARIABLES
  up, down, broken, occupants, accepted, spare, conn, result,    \* Messenger's
  muc_senders, joined, reported, written, removing,
  destinations, cursor, map_guard,
  thread        \* Messenger's pc

messengerVars == <<up, down, broken, occupants, accepted, spare, conn, result,
                   muc_senders, joined, reported, written, removing,
                   destinations, cursor, map_guard, thread>>
sendVars == <<configVars, messengerVars>>

NoDestinations == {<<>>}  \* what a Messenger is born with

M == INSTANCE Messenger WITH pc <- thread, DestinationLists <- NoDestinations

ASSUME SendAssumption ==
  /\ \A line \in CommandLines : \A i \in 1..Len(line) :
       line[i].opt \in {"a", "d"} => line[i].arg \in DOMAIN JidOf
  /\ \A text \in DOMAIN JidOf : JidOf[text] \in M!JID
  /\ CodeOf[M!NoError] = 0
  /\ \A e \in Failures : CodeOf[e] \in 1..255

\* What Messenger assumes of the constants that are handed on to it.
ASSUME MessengerAssumption ==
  /\ Rooms \cap Users = {}
  /\ NoResource \notin Nicks /\ Username \in Nicks
  /\ NoJID \notin M!JID \cup M!Bares
  /\ NoBody \notin {Message, Resource}
  /\ JoinReplies \subseteq {"admit", "refuse", "rename", "ignore"}
  /\ Unsolicited \subseteq {"represence", "chatter", "kick", "contact"}
  /\ MaxUnsolicited \in Nat
  /\ Failures # {} /\ Failures \cap {M!NoError, M!UserDisconnected} = {}

SendInit == ConfigInit /\ M!Init

Configure ==
  \/ OptionHelp
  \/ OptionVerbose
  \/ OptionValue
  \/ OptionPort
  \/ OptionRecipient
  \/ OptionUnknown
  \/ Word
  \/ OptionsEnd
  \/ InitConfig
  \/ GetJid
  \/ GetPassword
  \/ GetJID
  \/ GetServer
  \/ GetPort
  \/ DebugPrinted
  \/ CheckRecipients
  \/ ReadMessage

ConfigStep == Configure /\ UNCHANGED messengerVars

Parsed(list) == [i \in 1..Len(list) |-> [type |-> list[i].type, jid |-> JidOf[list[i].jid]]]

\* Mutant: only the recipient named last is handed over.
BuildMessenger_LastOnly ==
  /\ StartMessenger
  /\ destinations' = Parsed(<<recipients[Len(recipients)]>>)
  /\ UNCHANGED <<up, down, broken, occupants, accepted, spare, conn, result,
                 muc_senders, joined, reported, written, removing, cursor, map_guard, thread>>

\* Messenger::Messenger and the setters.
BuildMessenger ==
  /\ StartMessenger
  /\ destinations' = Parsed(recipients)
  /\ UNCHANGED <<up, down, broken, occupants, accepted, spare, conn, result,
                 muc_senders, joined, reported, written, removing, cursor, map_guard, thread>>

ClientStep == pc = "started" /\ M!ClientNext /\ UNCHANGED configVars
ServerAnswers ==
  /\ pc = "started"
  /\ M!ServerStep
  /\ UNCHANGED <<configVars, conn, result, muc_senders, joined, reported, written,
                 removing, destinations, cursor, map_guard, thread>>
OutsideStep ==
  /\ pc = "started"
  /\ M!UnsolicitedStep \/ M!Break
  /\ UNCHANGED <<configVars, conn, result, muc_senders, joined, reported, written,
                 removing, destinations, cursor, map_guard, thread>>

\* Mutant: main does not look at what start() returns.
ReturnFromMain_Ignores ==
  /\ pc = "started" /\ thread = "exited"
  /\ Exit(0)
  /\ UNCHANGED <<inputVars, optind, config, recipients, lookedUp, messengerVars>>

\* return messenger.start(): the result is what start() read, and the
\* destructors that run in between leave it alone.
ReturnFromMain ==
  /\ pc = "started" /\ thread = "exited"
  /\ Exit(CodeOf[result] % 256)
  /\ UNCHANGED <<inputVars, optind, config, recipients, lookedUp, messengerVars>>

Ended == pc \in {"exited", "aborted"} /\ UNCHANGED sendVars

SendNext ==
  \/ ConfigStep
  \/ BuildMessenger
  \/ ClientStep
  \/ ServerAnswers
  \/ OutsideStep
  \/ ReturnFromMain
  \/ Ended

SendSpec == SendInit /\ [][SendNext]_sendVars

\* The one thread of the program is scheduled, the server answers.  Nothing
\* makes recv notice a dead connection: the code sends no keep-alive.
FairSendSpec ==
  /\ SendSpec
  /\ WF_sendVars(\/ ConfigStep
                 \/ BuildMessenger
                 \/ ClientStep /\ ~M!StreamLost
                 \/ ReturnFromMain)
  /\ WF_sendVars(ServerAnswers)

-----------------------------------------------------------------------------
(***************************************************************************)
(* Properties, from the command line to the exit status.                   *)
(***************************************************************************)

AskedBares == {JidOf[AskedRecipients[i].jid].bare : i \in 1..Len(AskedRecipients)}
Settled == {b \in M!Bares : written[b] > 0} \cup reported

\* Exit status 0 has one of three meanings: the help was asked for, gloox
\* never opened a connection, or every JID behind -a and -d of the command
\* line has been sent the text or been named in an error message.
StatusHonest ==
  pc = "exited" /\ status = 0 =>
    \/ Given("h") # {}
    \/ thread = "exited" /\ conn = "idle" /\ Settled = {}
    \/ AskedBares \subseteq Settled

\* Nobody is written to who was not asked for, and nobody at all by a
\* process that complains about its command line, its file or its message.
OnlyTheAsked ==
  /\ Settled \subseteq AskedBares
  /\ Settled # {} => Complete /\ ~PortInFile /\ Given("h") = {}

\* The process ends, whatever it is asked and wherever it fails, or it waits
\* in recv for ever for one of two things: a connection that died without a
\* sound, or a room that has neither refused us nor let us in.
SendEnds ==
  \/ <>(pc \in {"exited", "aborted"})
  \/ <>[](/\ thread = "receiving" /\ conn = "connected"
          /\ broken \/ \E b \in M!Bares : M!Unanswered(b))

SendOutcome ==
  CASE pc = "aborted" -> "failure"
    [] pc = "exited" /\ status # 0 -> "failure"
    [] pc = "exited" /\ status = 0 -> IF conn = "idle" THEN "unstarted" ELSE "success"
    [] OTHER -> "running"

SendPromise ==
  INSTANCE Delivery WITH Bares <- M!Bares, owed <- AskedBares, settled <- Settled, outcome <- SendOutcome

\* The program keeps the promise of Delivery towards its command line: what
\* is owed is what -a and -d name, and the outcome is the exit status.
KeepsPromiseToCaller == SendPromise!Spec
=============================================================================
