---------------------------- MODULE ConfigProofs ----------------------------
(***************************************************************************)
(* Proofs about XmppConfig, for every command line, configuration file and *)
(* set of JIDs gloox accepts.                                              *)
(*                                                                         *)
(* The inductive invariant ConfigInv follows main: while the options are   *)
(* read, each field holds the last value among the options read so far     *)
(* (FieldsRead) and the recipients are the ones named so far               *)
(* (RecipientsRead); from the file on, what a getter would return now is   *)
(* what the properties ask for (LookedUp), and a getter that is no longer  *)
(* to be called has left its field defined (Established).                  *)
(***************************************************************************)
EXTENDS XmppConfig, FiniteSetTheorems, SequenceTheorems, TLAPS

-----------------------------------------------------------------------------
(* The invariant.                                                          *)

\* Where the option o is among the first n of a command line, and its last
\* argument there.
Before(line, n, o) == {i \in 1..n : line[i].opt = o}
LastBefore(line, n, o, default) ==
  IF Before(line, n, o) = {} THEN default ELSE line[Max(Before(line, n, o))].arg

TextsRead ==
  /\ \A o \in DOMAIN FieldOf :
       /\ config[FieldOf[o]] = LastBefore(args, optind, o, Undefined)
       /\ Before(args, optind, o) # {} => Defined(FieldOf[o])
  /\ Defined("conf_file") => config.conf_file \in DOMAIN files

DebugRead == config.debug = IF Before(args, optind, "v") = {} THEN Undefined ELSE TRUE

PortRead ==
  IF Before(args, optind, "p") = {} THEN config.port = Undefined
  ELSE Defined("port") /\ config.port \in Strtod[LastBefore(args, optind, "p", Undefined)]

FieldsRead == TextsRead /\ DebugRead /\ PortRead

NamedSoFar == {i \in Naming : i <= optind}

RecipientsRead ==
  /\ Len(recipients) = Cardinality(NamedSoFar)
  /\ \A k \in 1..Len(recipients) :
       \E i \in NamedSoFar : Place(i) = k /\ recipients[k] = Named(i)

\* What the getters would make of the fields and the file as they are.
Known(f) ==
  IF Defined(f) THEN config[f] ELSE IF IsText(f) THEN TextOf(f) ELSE Undefined
KnownServer ==
  IF Defined("server") \/ Exists("server") THEN Known("server")
  ELSE IF JidText \in DOMAIN Host THEN Host[JidText] ELSE Undefined

FileRead ==
  /\ cfg = IF ChosenFile \in {Missing, Malformed} THEN Empty ELSE ChosenFile
  /\ WellTyped(cfg)
  /\ get_root = ChosenRoot

OptionsKept ==
  /\ MessageSource = LastOf("m", Stdin)
  /\ get_debug = (Given("v") # {})
  /\ recipients = AskedRecipients

PortKnown ==
  /\ Given("p") # {} => Defined("port")
  /\ Defined("port") =>
       config.port \in AskedPorts /\ (Given("p") # {} \/ "port" \notin DOMAIN Settings)

LookedUp ==
  /\ FileRead
  /\ OptionsKept
  /\ JidText = Asked("j", "jid")
  /\ Known("password") = Asked("P", "password")
  /\ KnownServer = AskedServer
  /\ PortKnown

Pending(getter) == \E i \in 1..Len(todo) : todo[i] = getter

Established ==
  /\ pc \in {"debug", "messenger"} => \A f \in Group : Pending(f) \/ Defined(f)
  /\ pc \in {"recipients", "message", "messenger"} /\ get_debug => \A f \in Group : Defined(f)
  /\ pc = "debug" => get_debug
  /\ pc = "messenger" => ~Pending("JID")

Getters == {"jid", "JID", "password", "server", "port"}

Inputs ==
  /\ args \in CommandLines
  /\ files \in FileSystems

Destination == [type : {"Normal", "Groupchat"}, jid : STRING]

Reading ==
  /\ FieldsRead
  /\ RecipientsRead
  /\ cfg = Empty
  /\ ~jidSet

ConfigInv ==
  /\ Inputs
  /\ ConfigTypeOK
  /\ recipients \in Seq(Destination)
  /\ todo \in Seq(Getters)
  /\ pc = "parse" => Reading /\ \A i \in 1..optind : args[i].opt \notin {"h", "unknown"}
  /\ pc = "init" => Reading /\ optind = Len(args)
  /\ pc \in {"debug", "recipients", "message", "messenger"} => LookedUp
  /\ Established
  /\ StartsAsAsked
  /\ TerminatesForCause
  /\ FailsLoudly
  /\ VerboseReportsErrors

-----------------------------------------------------------------------------
(* The command line.                                                       *)

\* The maximum of a set of integers is its one member above all others.
LEMMA MaxOf ==
  ASSUME NEW S \in SUBSET Int, NEW n \in S, \A i \in S : n >= i
  PROVE  Max(S) = n
<1>1. \A i \in S : (\A j \in S : i >= j) => i = n
  OBVIOUS
<1>2. \E i \in S : \A j \in S : i >= j
  OBVIOUS
<1>3. Max(S) \in S /\ \A j \in S : Max(S) >= j
  BY <1>2 DEF Max
<1> QED
  BY <1>1, <1>3

\* One option more: it is the last of its name, and the other names stay.
LEMMA BeforeNext ==
  ASSUME NEW line, NEW n \in Nat, NEW o
  PROVE  /\ line[n + 1].opt = o => /\ Before(line, n + 1, o) # {}
                                   /\ \A default : LastBefore(line, n + 1, o, default) = line[n + 1].arg
         /\ line[n + 1].opt # o => /\ Before(line, n + 1, o) = Before(line, n, o)
                                   /\ \A default : LastBefore(line, n + 1, o, default)
                                                   = LastBefore(line, n, o, default)
<1>1. CASE line[n + 1].opt = o
  <2>1. n + 1 \in Before(line, n + 1, o)
    BY <1>1 DEF Before
  <2>2. Before(line, n + 1, o) \in SUBSET Int /\ \A i \in Before(line, n + 1, o) : n + 1 >= i
    BY DEF Before
  <2>3. Max(Before(line, n + 1, o)) = n + 1
    BY <2>1, <2>2, MaxOf
  <2> QED
    BY <1>1, <2>1, <2>3 DEF LastBefore
<1>2. CASE line[n + 1].opt # o
  <2>1. Before(line, n + 1, o) = Before(line, n, o)
    BY <1>2 DEF Before
  <2> QED
    BY <1>2, <2>1 DEF LastBefore
<1> QED
  BY <1>1, <1>2

\* Nothing is read yet.
LEMMA BeforeNone ==
  ASSUME NEW line, NEW o
  PROVE  Before(line, 0, o) = {} /\ LastBefore(line, 0, o, Undefined) = Undefined
BY DEF Before, LastBefore

\* All is read.
LEMMA BeforeAll ==
  ASSUME NEW o
  PROVE  /\ Before(args, Len(args), o) = Given(o)
         /\ \A default : LastBefore(args, Len(args), o, default) = LastOf(o, default)
BY DEF Before, LastBefore, Given, LastOf

\* An option that takes an argument has one.
LEMMA Argument ==
  ASSUME Inputs, NEW i \in 1..Len(args), args[i].opt \in OptionName
  PROVE  /\ args[i].arg \in STRING
         /\ args[i].opt = "p" => args[i].arg \in DOMAIN Strtod
         /\ args[i].opt = "c" => args[i].arg \in DOMAIN files
<1>1. args \in Seq(Option)
  BY ConfigAssumption DEF Inputs
<1>2. args[i] \in Option
  BY <1>1
<1>3. args[i].arg \in STRING
  BY <1>2 DEF Option, OptionName
<1> QED
  BY <1>3, ConfigAssumption DEF Inputs

\* The fields that take the argument of an option as it is.
LEMMA FieldsOfOptions ==
  /\ DOMAIN FieldOf = {"c", "t", "j", "P", "s", "m"}
  /\ \A o \in DOMAIN FieldOf : FieldOf[o] \in Fields \ {"port", "debug"}
  /\ \A o, p \in DOMAIN FieldOf : FieldOf[o] = FieldOf[p] => o = p
  /\ FieldOf["c"] = "conf_file" /\ FieldOf["t"] = "root" /\ FieldOf["j"] = "jid"
  /\ FieldOf["P"] = "password" /\ FieldOf["s"] = "server" /\ FieldOf["m"] = "message"
BY DEF FieldOf, Fields

-----------------------------------------------------------------------------
(* Steps in general.                                                       *)

\* A field gets a text, a port or the -v flag; the others stay.
LEMMA AssignText ==
  ASSUME FieldsTyped, NEW f \in Fields \ {"port", "debug"}, NEW text \in STRING, Assign(f, text)
  PROVE  FieldsTyped' /\ config'[f] = text /\ \A g \in Fields \ {f} : config'[g] = config[g]
<1>1. /\ DOMAIN config' = Fields
      /\ config'[f] = text
      /\ \A g \in Fields \ {f} : config'[g] = config[g]
  BY DEF FieldsTyped, Assign
<1>2. config'["port"] = config["port"] /\ config'["debug"] = config["debug"]
  BY <1>1 DEF Fields
<1> QED
  BY <1>1, <1>2 DEF FieldsTyped

LEMMA AssignPort ==
  ASSUME FieldsTyped, NEW n \in Int, Assign("port", n)
  PROVE  FieldsTyped' /\ config'.port = n /\ \A g \in Fields \ {"port"} : config'[g] = config[g]
<1>1. /\ DOMAIN config' = Fields
      /\ config'["port"] = n
      /\ \A g \in Fields \ {"port"} : config'[g] = config[g]
  BY DEF FieldsTyped, Assign, Fields
<1>2. config'["debug"] = config["debug"]
  BY <1>1 DEF Fields
<1> QED
  BY <1>1, <1>2 DEF FieldsTyped

LEMMA AssignDebug ==
  ASSUME FieldsTyped, Assign("debug", TRUE)
  PROVE  FieldsTyped' /\ config'.debug = TRUE /\ \A g \in Fields \ {"debug"} : config'[g] = config[g]
<1>1. /\ DOMAIN config' = Fields
      /\ config'["debug"] = TRUE
      /\ \A g \in Fields \ {"debug"} : config'[g] = config[g]
  BY DEF FieldsTyped, Assign, Fields
<1>2. config'["port"] = config["port"]
  BY <1>1 DEF Fields
<1>3. config'.debug \in {Undefined, TRUE}
  BY <1>1, Zenon
<1>4. \A f \in Fields \ {"port", "debug"} : config'[f] = Undefined \/ config'[f] \in STRING
  BY <1>1 DEF FieldsTyped
<1>5. config'.port = Undefined \/ config'.port \in Int
  BY <1>2 DEF FieldsTyped
<1> QED
  BY <1>1, <1>3, <1>4, <1>5, Zenon DEF FieldsTyped

\* What is asked for depends on the command line and the files alone.
LEMMA AskedStays ==
  ASSUME UNCHANGED inputVars
  PROVE  /\ \A o : Given(o)' = Given(o)
         /\ \A o, default : LastOf(o, default)' = LastOf(o, default)
         /\ ChosenFile' = ChosenFile
         /\ Settings' = Settings
         /\ \A o, name : Asked(o, name)' = Asked(o, name)
         /\ AskedServer' = AskedServer
         /\ AskedPorts' = AskedPorts
         /\ Naming' = Naming
         /\ \A i : Place(i)' = Place(i) /\ Named(i)' = Named(i)
         /\ AskedRecipients' = AskedRecipients
         /\ Complete' = Complete
         /\ PortInFile' = PortInFile
         /\ Inputs' = Inputs
<1>0. args' = args /\ files' = files
  BY DEF inputVars
<1>1. \A o : Given(o)' = Given(o)
  BY <1>0 DEF Given
<1>2. \A o, default : LastOf(o, default)' = LastOf(o, default)
  BY <1>0, <1>1 DEF LastOf
<1>3. ChosenFile' = ChosenFile /\ ChosenRoot' = ChosenRoot
  BY <1>0, <1>2 DEF ChosenFile, ChosenRoot
<1>4. Settings' = Settings /\ TextSettings' = TextSettings
  BY <1>3 DEF Settings, TextSettings
<1>5. \A o, name : Asked(o, name)' = Asked(o, name)
  BY <1>0, <1>1, <1>4 DEF Asked, LastOf
<1>6. AskedServer' = AskedServer
  BY <1>1, <1>4, <1>5 DEF AskedServer
<1>7. AskedPorts' = AskedPorts
  BY <1>0, <1>1 DEF AskedPorts
<1>8. Naming' = Naming
  BY <1>1 DEF Naming
<1>9. \A i : Place(i)' = Place(i) /\ Named(i)' = Named(i)
  BY <1>0, <1>8 DEF Place, Named
<1>10. AskedRecipients' = AskedRecipients
  BY <1>0, <1>8 DEF AskedRecipients, Place, Named
<1>11. Complete' = Complete /\ PortInFile' = PortInFile
  BY <1>1, <1>4, <1>5, <1>6 DEF Complete, PortInFile
<1>12. Inputs' = Inputs
  BY <1>0 DEF Inputs
<1> QED
  BY <1>1, <1>2, <1>3, <1>4, <1>5, <1>6, <1>7, <1>8, <1>9, <1>10, <1>11, <1>12

\* The process ends with a status other than 0.
LEMMA Exits ==
  ASSUME ConfigInv, UNCHANGED inputVars, ConfigTypeOK', recipients' \in Seq(Destination),
         NEW code \in {FAILED, EXCPT_GENERAL}, Exit(code)
  PROVE  ConfigInv'
<1>1. pc' = "exited" /\ todo' = todo /\ status' \in Int \ {0}
  BY DEF Exit, FAILED, EXCPT_GENERAL
<1>2. Inputs' /\ todo' \in Seq(Getters)
  BY <1>1, AskedStays DEF ConfigInv
<1>3. Established' /\ StartsAsAsked' /\ TerminatesForCause' /\ FailsLoudly' /\ VerboseReportsErrors'
  BY <1>1 DEF Established, StartsAsAsked, TerminatesForCause, FailsLoudly, VerboseReportsErrors
<1> QED
  BY <1>1, <1>2, <1>3 DEF ConfigInv

\* The process is ended by std::terminate, for one of the good reasons.
LEMMA Aborts ==
  ASSUME ConfigInv, UNCHANGED inputVars, ConfigTypeOK', recipients' \in Seq(Destination),
         Terminate, PortInFile \/ (~Complete /\ Given("v") = {})
  PROVE  ConfigInv'
<1>1. pc' = "aborted" /\ todo' = todo
  BY DEF Terminate
<1>2. Inputs' /\ todo' \in Seq(Getters)
  BY <1>1, AskedStays DEF ConfigInv
<1>3. Established' /\ StartsAsAsked' /\ FailsLoudly'
  BY <1>1 DEF Established, StartsAsAsked, FailsLoudly
<1>4. TerminatesForCause'
  BY <1>1, AskedStays DEF TerminatesForCause
<1>5. VerboseReportsErrors'
  BY <1>1, AskedStays DEF VerboseReportsErrors
<1> QED
  BY <1>1, <1>2, <1>3, <1>4, <1>5 DEF ConfigInv

\* However it ends, the status is a byte.
LEMMA ThrowTyped ==
  ASSUME ConfigTypeOK, NEW code \in {FAILED, EXCPT_GENERAL}, Throw(code)
  PROVE  pc' \in {"exited", "aborted"} /\ (status' = Undefined \/ status' \in 0..255)
<1>1. FAILED \in 0..255 /\ EXCPT_GENERAL \in 0..255
  <2>1. \A n \in Int : n % 256 \in 0..255
    OBVIOUS
  <2>2. -1 \in Int
    OBVIOUS
  <2>3. (-1) % 256 \in 0..255
    BY <2>1, <2>2, Zenon
  <2> QED
    BY <2>3 DEF FAILED, EXCPT_GENERAL
<1>2. status = Undefined \/ status \in 0..255
  BY DEF ConfigTypeOK
<1>3. CASE Exit(code)
  BY <1>1, <1>3 DEF Exit
<1>4. CASE Terminate
  BY <1>2, <1>4 DEF Terminate
<1> QED
  BY <1>3, <1>4 DEF Throw

\* An exception: caught, or about something that is missing without -v.
LEMMA Throws ==
  ASSUME ConfigInv, UNCHANGED inputVars, ConfigTypeOK', recipients' \in Seq(Destination),
         NEW code \in {FAILED, EXCPT_GENERAL}, Throw(code),
         InTry \/ (~Complete /\ Given("v") = {})
  PROVE  ConfigInv'
BY Exits, Aborts DEF Throw

-----------------------------------------------------------------------------
(* parse_opt_args.                                                         *)

\* Each call of getopt_long.
LEMMA NextOptionReads ==
  ASSUME ConfigInv, NEW names, NextOption(names)
  PROVE  /\ args' = args /\ files' = files /\ cfg' = cfg /\ jidSet' = jidSet
         /\ UNCHANGED inputVars
         /\ pc = "parse" /\ Reading
         /\ optind \in Nat /\ optind + 1 \in 1..Len(args) /\ optind' = optind + 1
         /\ optind' \in 0..Len(args')
         /\ args[optind + 1].opt \in names
         /\ \A o :
              /\ args[optind + 1].opt = o =>
                   /\ Before(args, optind', o) # {}
                   /\ \A default : LastBefore(args, optind', o, default) = args[optind + 1].arg
              /\ args[optind + 1].opt # o =>
                   /\ Before(args, optind', o) = Before(args, optind, o)
                   /\ \A default : LastBefore(args, optind', o, default)
                                   = LastBefore(args, optind, o, default)
<1>1. /\ args' = args /\ files' = files /\ cfg' = cfg /\ jidSet' = jidSet
      /\ UNCHANGED inputVars
      /\ pc = "parse" /\ Reading
      /\ args[optind + 1].opt \in names
  BY DEF NextOption, ConfigInv, inputVars, lookedUp
<1>2. optind \in Nat /\ optind + 1 \in 1..Len(args) /\ optind' = optind + 1
  <2>1. args \in Seq(Option)
    BY ConfigAssumption DEF ConfigInv, Inputs
  <2> QED
    BY <2>1 DEF NextOption, ConfigInv, ConfigTypeOK
<1>4. optind' \in 0..Len(args')
  <2>1. Len(args) \in Nat
    BY ConfigAssumption DEF ConfigInv, Inputs
  <2> QED
    BY <1>1, <1>2, <2>1
<1>3. ASSUME NEW o
      PROVE  /\ args[optind + 1].opt = o =>
                   /\ Before(args, optind', o) # {}
                   /\ \A default : LastBefore(args, optind', o, default) = args[optind + 1].arg
             /\ args[optind + 1].opt # o =>
                   /\ Before(args, optind', o) = Before(args, optind, o)
                   /\ \A default : LastBefore(args, optind', o, default)
                                   = LastBefore(args, optind, o, default)
  <2>1. /\ args[optind + 1].opt = o =>
             /\ Before(args, optind + 1, o) # {}
             /\ \A default : LastBefore(args, optind + 1, o, default) = args[optind + 1].arg
        /\ args[optind + 1].opt # o =>
             /\ Before(args, optind + 1, o) = Before(args, optind, o)
             /\ \A default : LastBefore(args, optind + 1, o, default)
                             = LastBefore(args, optind, o, default)
    BY <1>2, BeforeNext, Zenon
  <2>2. optind' = optind + 1
    BY <1>2
  <2> QED
    BY <2>1, <2>2, Zenon
<1> QED
  BY <1>1, <1>2, <1>3, <1>4

\* An option that adds no recipient leaves the recipients as they should be.
LEMMA NoRecipient ==
  ASSUME ConfigInv, NEW names, NextOption(names), names \cap {"a", "d"} = {},
         recipients' = recipients
  PROVE  RecipientsRead'
<1>1. args' = args /\ optind \in Nat /\ optind' = optind + 1 /\ UNCHANGED inputVars /\ RecipientsRead
  BY NextOptionReads DEF Reading
<1>2. optind + 1 \notin Naming
  BY NextOptionReads DEF Naming, Given
<1>3. Naming \subseteq Int
  BY DEF Naming, Given
<1>4. NamedSoFar' = NamedSoFar
  <2>1. Naming' = Naming
    BY <1>1, AskedStays
  <2>2. \A i \in Naming : i <= optind' <=> i <= optind
    BY <1>1, <1>2, <1>3
  <2> QED
    BY <2>1, <2>2 DEF NamedSoFar
<1> QED
  BY <1>1, <1>4, AskedStays DEF RecipientsRead

\* The parsing goes on.
LEMMA ParsesOn ==
  ASSUME ConfigInv, NEW names, NextOption(names), KeepParsing,
         names \cap {"h", "unknown"} = {},
         ConfigTypeOK', recipients' \in Seq(Destination), FieldsRead', RecipientsRead'
  PROVE  ConfigInv'
<1>1. /\ optind \in Nat /\ optind' = optind + 1 /\ args' = args /\ UNCHANGED inputVars
      /\ args[optind + 1].opt \in names
      /\ cfg' = cfg /\ jidSet' = jidSet /\ Reading /\ pc = "parse"
  BY NextOptionReads
<1>2. pc' = "parse" /\ todo' = todo
  BY <1>1 DEF KeepParsing
<1>3. Inputs' /\ todo' \in Seq(Getters)
  BY <1>1, <1>2, AskedStays DEF ConfigInv
<1>4. Established' /\ StartsAsAsked' /\ TerminatesForCause' /\ FailsLoudly' /\ VerboseReportsErrors'
  BY <1>2 DEF Established, StartsAsAsked, TerminatesForCause, FailsLoudly, VerboseReportsErrors
<1>5. Reading'
  BY <1>1 DEF Reading
<1>6. \A i \in 1..optind' : args'[i].opt \notin {"h", "unknown"}
  <2>1. \A i \in 1..optind : args[i].opt \notin {"h", "unknown"}
    BY <1>1 DEF ConfigInv
  <2>2. \A i \in 1..(optind + 1) : i \in 1..optind \/ i = optind + 1
    BY <1>1
  <2> QED
    BY <1>1, <2>1, <2>2
<1> QED
  BY <1>2, <1>3, <1>4, <1>5, <1>6 DEF ConfigInv

\* An option that sets no field leaves the fields as they should be.
LEMMA NoField ==
  ASSUME ConfigInv, NEW names, NextOption(names),
         names \cap (DOMAIN FieldOf \cup {"v", "p"}) = {}, config' = config
  PROVE  FieldsRead'
<1>1. args' = args /\ files' = files /\ FieldsRead /\ args[optind + 1].opt \in names
  BY NextOptionReads DEF Reading
<1>2. ASSUME NEW o \in DOMAIN FieldOf \cup {"v", "p"}
      PROVE  /\ Before(args, optind', o) = Before(args, optind, o)
             /\ \A default : LastBefore(args, optind', o, default) = LastBefore(args, optind, o, default)
  <2>1. args[optind + 1].opt # o
    BY <1>1
  <2> QED
    BY <2>1, NextOptionReads
<1>3. TextsRead'
  BY <1>1, <1>2 DEF FieldsRead, TextsRead, Defined
<1>4. DebugRead'
  BY <1>1, <1>2, Zenon DEF FieldsRead, DebugRead
<1>5. PortRead'
  BY <1>1, <1>2 DEF FieldsRead, PortRead, Defined
<1> QED
  BY <1>3, <1>4, <1>5 DEF FieldsRead

LEMMA HelpStep ==
  ASSUME ConfigInv, OptionHelp
  PROVE  ConfigInv'
<1>1. NextOption({"h"}) /\ Exit(0) /\ config' = config /\ recipients' = recipients
  BY DEF OptionHelp
<1>2. /\ optind \in Nat /\ optind' = optind + 1 /\ args' = args /\ UNCHANGED inputVars
      /\ optind + 1 \in 1..Len(args) /\ args[optind + 1].opt = "h"
      /\ optind' \in 0..Len(args')
      /\ jidSet' = jidSet /\ pc = "parse"
  BY <1>1, NextOptionReads
<1>3. pc' = "exited" /\ todo' = todo /\ status' = 0
  BY <1>1 DEF Exit
<1>4. ConfigTypeOK'
  <2>1. FieldsTyped' /\ (jidSet' => config'.jid \in DOMAIN Host)
    BY <1>1, <1>2 DEF ConfigInv, ConfigTypeOK, FieldsTyped
  <2>2. \A i \in 1..Len(recipients') : recipients'[i].type \in {"Normal", "Groupchat"}
    BY <1>1 DEF ConfigInv, ConfigTypeOK
  <2> QED
    BY <1>2, <1>3, <2>1, <2>2 DEF ConfigTypeOK
<1>5. Inputs' /\ todo' \in Seq(Getters) /\ recipients' \in Seq(Destination)
  BY <1>1, <1>2, <1>3, AskedStays DEF ConfigInv
<1>6. Established' /\ StartsAsAsked' /\ TerminatesForCause' /\ VerboseReportsErrors'
  BY <1>3 DEF Established, StartsAsAsked, TerminatesForCause, VerboseReportsErrors
<1>7. FailsLoudly'
  <2>1. optind' \in Given("h")
    BY <1>2 DEF Given
  <2>2. \A i \in 1..optind : args[i].opt # "unknown"
    BY <1>2 DEF ConfigInv
  <2>3. \A i \in 1..optind' : args[i].opt # "unknown"
    <3>1. \A i \in 1..(optind + 1) : i \in 1..optind \/ i = optind + 1
      BY <1>2
    <3> QED
      BY <1>2, <2>2, <3>1
  <2>4. optind' \in Given("h")'
    BY <1>2, <2>1, AskedStays
  <2> QED
    BY <1>2, <2>3, <2>4 DEF FailsLoudly
<1> QED
  BY <1>3, <1>4, <1>5, <1>6, <1>7 DEF ConfigInv

LEMMA VerboseStep ==
  ASSUME ConfigInv, OptionVerbose
  PROVE  ConfigInv'
<1>1. NextOption({"v"}) /\ KeepParsing /\ recipients' = recipients
      /\ Assign("debug", TRUE)
  BY DEF OptionVerbose
<1>2. /\ optind \in Nat /\ optind' = optind + 1 /\ args' = args /\ files' = files
      /\ optind + 1 \in 1..Len(args) /\ args[optind + 1].opt = "v"
      /\ optind' \in 0..Len(args')
      /\ jidSet' = jidSet /\ Reading
  BY <1>1, NextOptionReads
<1>3. ConfigTypeOK /\ FieldsTyped /\ ~jidSet
  BY <1>2 DEF ConfigInv, ConfigTypeOK, Reading
<1>4. FieldsTyped' /\ config'["debug"] = TRUE
      /\ \A f \in Fields \ {"debug"} : config'[f] = config[f]
  BY <1>1, <1>3, AssignDebug
<1>5. ConfigTypeOK'
  BY <1>1, <1>2, <1>3, <1>4 DEF ConfigTypeOK, KeepParsing
<1>6. recipients' \in Seq(Destination)
  BY <1>1 DEF ConfigInv
<1>7. FieldsRead'
  <2>1. FieldsRead
    BY <1>2 DEF Reading
  <2>2. \A o \in DOMAIN FieldOf \cup {"p"} :
           /\ Before(args, optind', o) = Before(args, optind, o)
           /\ \A default : LastBefore(args, optind', o, default) = LastBefore(args, optind, o, default)
    BY <1>1, <1>2, NextOptionReads, FieldsOfOptions
  <2>3. Before(args, optind', "v") # {}
    BY <1>1, <1>2, NextOptionReads
  <2>4. \A o \in DOMAIN FieldOf : config'[FieldOf[o]] = config[FieldOf[o]]
    BY <1>4, FieldsOfOptions
  <2>5. config'["port"] = config["port"] /\ config'["conf_file"] = config["conf_file"]
    BY <1>4 DEF Fields
  <2>6. TextsRead'
    BY <1>2, <2>1, <2>2, <2>4, <2>5 DEF FieldsRead, TextsRead, Defined
  <2>7. DebugRead'
    BY <1>2, <1>4, <2>3, Zenon DEF DebugRead
  <2>8. PortRead'
    BY <1>2, <2>1, <2>2, <2>5 DEF FieldsRead, PortRead, Defined
  <2> QED
    BY <2>6, <2>7, <2>8 DEF FieldsRead
<1>8. RecipientsRead'
  BY <1>1, NoRecipient
<1> QED
  BY <1>1, <1>5, <1>6, <1>7, <1>8, ParsesOn

LEMMA ValueStep ==
  ASSUME ConfigInv, OptionValue
  PROVE  ConfigInv'
<1> DEFINE opt == args[optind + 1].opt
           text == args[optind + 1].arg
<1>1. NextOption(DOMAIN FieldOf) /\ KeepParsing /\ recipients' = recipients
      /\ Assign(FieldOf[opt], text)
  BY DEF OptionValue
<1>2. /\ optind \in Nat /\ optind' = optind + 1 /\ args' = args /\ files' = files
      /\ optind + 1 \in 1..Len(args) /\ opt \in DOMAIN FieldOf
      /\ optind' \in 0..Len(args')
      /\ jidSet' = jidSet /\ Reading
  BY <1>1, NextOptionReads
<1>3. /\ text \in STRING
      /\ opt = "c" => text \in DOMAIN files
  <2>1. opt \in OptionName
    BY <1>2, FieldsOfOptions DEF OptionName
  <2> QED
    BY <1>2, <2>1, Argument DEF ConfigInv
<1>4. ConfigTypeOK /\ FieldsTyped /\ ~jidSet
  BY <1>2 DEF ConfigInv, ConfigTypeOK, Reading
<1>5. FieldOf[opt] \in Fields \ {"port", "debug"}
  BY <1>2, FieldsOfOptions
<1> HIDE DEF opt, text
<1>6. FieldsTyped' /\ config'[FieldOf[opt]] = text
      /\ \A f \in Fields \ {FieldOf[opt]} : config'[f] = config[f]
  BY <1>1, <1>3, <1>4, <1>5, AssignText
<1>7. ConfigTypeOK'
  BY <1>1, <1>2, <1>4, <1>6 DEF ConfigTypeOK, KeepParsing
<1>8. recipients' \in Seq(Destination)
  BY <1>1 DEF ConfigInv
<1>9. FieldsRead'
  <2>1. FieldsRead /\ Undefined \notin STRING
    BY <1>2, ConfigAssumption DEF Reading
  <2>2. \A p \in DOMAIN FieldOf \cup {"p", "v"} : p # opt =>
           /\ Before(args, optind', p) = Before(args, optind, p)
           /\ \A default : LastBefore(args, optind', p, default) = LastBefore(args, optind, p, default)
    BY <1>1, NextOptionReads DEF opt
  <2>3. Before(args, optind', opt) # {} /\ LastBefore(args, optind', opt, Undefined) = text
    BY <1>1, NextOptionReads DEF opt, text
  <2>4. \A p \in DOMAIN FieldOf : p # opt => config'[FieldOf[p]] = config[FieldOf[p]]
    BY <1>2, <1>6, FieldsOfOptions
  <2>5. \A p \in DOMAIN FieldOf :
           /\ config'[FieldOf[p]] = LastBefore(args, optind', p, Undefined)
           /\ Before(args, optind', p) # {} => config'[FieldOf[p]] # Undefined
    BY <1>3, <1>6, <2>1, <2>2, <2>3, <2>4 DEF FieldsRead, TextsRead, Defined
  <2>6. config'["conf_file"] # Undefined => config'["conf_file"] \in DOMAIN files
    <3>1. CASE opt = "c"
      BY <1>3, <1>6, <3>1, FieldsOfOptions
    <3>2. CASE opt # "c"
      BY <1>2, <2>1, <2>4, <3>2, FieldsOfOptions DEF FieldsRead, TextsRead, Defined
    <3> QED
      BY <3>1, <3>2
  <2>7. config'["port"] = config["port"] /\ config'["debug"] = config["debug"]
    BY <1>5, <1>6 DEF Fields
  <2>8. opt \notin {"p", "v"}
    BY <1>2, FieldsOfOptions
  <2>9. TextsRead'
    BY <1>2, <2>5, <2>6 DEF TextsRead, Defined
  <2>10. DebugRead'
    BY <1>2, <2>1, <2>2, <2>7, <2>8, Zenon DEF FieldsRead, DebugRead
  <2>11. PortRead'
    BY <1>2, <2>1, <2>2, <2>7, <2>8 DEF FieldsRead, PortRead, Defined
  <2> QED
    BY <2>9, <2>10, <2>11 DEF FieldsRead
<1>10. RecipientsRead'
  <2>1. DOMAIN FieldOf \cap {"a", "d"} = {}
    BY FieldsOfOptions
  <2> QED
    BY <1>1, <2>1, NoRecipient
<1> QED
  <2>1. DOMAIN FieldOf \cap {"h", "unknown"} = {}
    BY FieldsOfOptions
  <2> QED
    BY <1>1, <1>7, <1>8, <1>9, <1>10, <2>1, ParsesOn

LEMMA PortStep ==
  ASSUME ConfigInv, OptionPort
  PROVE  ConfigInv'
<1> DEFINE text == args[optind + 1].arg
<1>1. /\ NextOption({"p"}) /\ recipients' = recipients
      /\ \/ Strtod[text] = {} /\ Throw(EXCPT_GENERAL) /\ config' = config
         \/ \E n \in Strtod[text] : Assign("port", n) /\ KeepParsing
  BY DEF OptionPort
<1>2. /\ optind \in Nat /\ optind' = optind + 1 /\ args' = args /\ files' = files
      /\ optind + 1 \in 1..Len(args) /\ args[optind + 1].opt = "p"
      /\ optind' \in 0..Len(args')
      /\ jidSet' = jidSet /\ Reading /\ pc = "parse" /\ UNCHANGED inputVars
  BY <1>1, NextOptionReads
<1>3. ConfigTypeOK /\ FieldsTyped /\ ~jidSet /\ recipients' \in Seq(Destination)
  BY <1>1, <1>2 DEF ConfigInv, ConfigTypeOK, Reading
<1>4. \A n \in Strtod[text] : n \in Int
  <2>1. text \in DOMAIN Strtod
    BY <1>2, Argument DEF ConfigInv, OptionName
  <2> QED
    BY <2>1, ConfigAssumption
<1>5. CASE Throw(EXCPT_GENERAL) /\ config' = config
  <2>1. Exit(EXCPT_GENERAL)
    BY <1>2, <1>5 DEF Throw, InTry
  <2>2. pc' = "exited" /\ status' = EXCPT_GENERAL
    BY <2>1 DEF Exit
  <2>3. FieldsTyped'
    BY <1>3, <1>5 DEF FieldsTyped
  <2>4. ConfigTypeOK'
    BY <1>1, <1>2, <1>3, <2>2, <2>3 DEF ConfigTypeOK, EXCPT_GENERAL
  <2> QED
    BY <1>2, <1>3, <2>1, <2>4, Exits
<1>6. ASSUME NEW n \in Strtod[text], Assign("port", n), KeepParsing
      PROVE  ConfigInv'
  <2>1. FieldsTyped' /\ config'.port = n /\ \A g \in Fields \ {"port"} : config'[g] = config[g]
    BY <1>3, <1>4, <1>6, AssignPort
  <2>2. ConfigTypeOK'
    BY <1>1, <1>2, <1>3, <1>6, <2>1 DEF ConfigTypeOK, KeepParsing
  <2>3. \A o \in DOMAIN FieldOf \cup {"v"} :
           /\ Before(args, optind', o) = Before(args, optind, o)
           /\ \A default : LastBefore(args, optind', o, default) = LastBefore(args, optind, o, default)
    BY <1>1, <1>2, NextOptionReads, FieldsOfOptions
  <2>4. Before(args, optind', "p") # {} /\ LastBefore(args, optind', "p", Undefined) = text
    BY <1>1, <1>2, NextOptionReads
  <2>5. FieldsRead
    BY <1>2 DEF Reading
  <2>6. config'["debug"] = config["debug"] /\ config'["conf_file"] = config["conf_file"]
    BY <2>1 DEF Fields
  <2>7. TextsRead'
    <3>1. \A o \in DOMAIN FieldOf : config'[FieldOf[o]] = config[FieldOf[o]]
      BY <2>1, FieldsOfOptions
    <3> QED
      BY <1>2, <2>3, <2>5, <2>6, <3>1 DEF FieldsRead, TextsRead, Defined
  <2>8. DebugRead'
    BY <1>2, <2>3, <2>5, <2>6, Zenon DEF FieldsRead, DebugRead
  <2>9. PortRead'
    <3>1. n # Undefined
      BY <1>4, ConfigAssumption
    <3> QED
      BY <1>2, <2>1, <2>4, <3>1 DEF PortRead, Defined
  <2>10. RecipientsRead'
    BY <1>1, NoRecipient
  <2> QED
    BY <1>1, <1>3, <1>6, <2>2, <2>7, <2>8, <2>9, <2>10, ParsesOn DEF FieldsRead
<1> QED
  BY <1>1, <1>5, <1>6

LEMMA RecipientStep ==
  ASSUME ConfigInv, OptionRecipient
  PROVE  ConfigInv'
<1> DEFINE next == optind + 1
           one == [type |-> IF args[next].opt = "d" THEN "Normal" ELSE "Groupchat", jid |-> args[next].arg]
<1>1. NextOption({"a", "d"}) /\ KeepParsing /\ config' = config
      /\ recipients' = Append(recipients, one)
  BY DEF OptionRecipient
<1>2. /\ optind \in Nat /\ optind' = next /\ args' = args /\ files' = files
      /\ next \in 1..Len(args) /\ args[next].opt \in {"a", "d"}
      /\ optind' \in 0..Len(args')
      /\ jidSet' = jidSet /\ Reading /\ UNCHANGED inputVars
  BY <1>1, NextOptionReads
<1>3. one \in Destination /\ one = Named(next)
  <2>1. args[next].arg \in STRING
    BY <1>2, Argument DEF ConfigInv, OptionName
  <2> QED
    BY <2>1 DEF Destination, Named
<1> HIDE DEF one
<1>4. ConfigTypeOK /\ FieldsTyped /\ ~jidSet /\ recipients \in Seq(Destination)
  BY <1>2 DEF ConfigInv, ConfigTypeOK, Reading
<1>5. recipients' \in Seq(Destination)
  BY <1>1, <1>3, <1>4
<1>6. ConfigTypeOK'
  <2>1. FieldsTyped'
    BY <1>1, <1>4 DEF FieldsTyped
  <2>2. \A i \in 1..Len(recipients') : recipients'[i].type \in {"Normal", "Groupchat"}
    <3>1. \A i \in 1..Len(recipients') : recipients'[i] \in Destination
      BY <1>5
    <3> QED
      BY <3>1 DEF Destination
  <2> QED
    BY <1>1, <1>2, <1>4, <2>1, <2>2 DEF ConfigTypeOK, KeepParsing
<1>7. FieldsRead'
  <2>1. {"a", "d"} \cap (DOMAIN FieldOf \cup {"v", "p"}) = {}
    BY FieldsOfOptions
  <2> QED
    BY <1>1, <2>1, NoField
<1>8. RecipientsRead'
  <2>1. next \in Naming /\ Naming \subseteq Int
    BY <1>2 DEF Naming, Given
  <2>2. NamedSoFar' = NamedSoFar \cup {next} /\ NamedSoFar' = {j \in Naming : j <= next}
    <3>1. Naming' = Naming
      BY <1>2, AskedStays
    <3>2. \A i \in Naming : i <= optind' <=> (i <= optind \/ i = next)
      <4>1. optind \in Int /\ optind' = next /\ Naming \subseteq Int
        BY <1>2, <2>1
      <4> HIDE DEF next
      <4>2. next = optind + 1
        BY DEF next
      <4>3. \A i \in Int : i <= next <=> (i <= optind \/ i = next)
        BY <4>1, <4>2
      <4> QED
        BY <4>1, <4>3
    <3> QED
      BY <1>2, <2>1, <3>1, <3>2 DEF NamedSoFar
  <2>3. IsFiniteSet(NamedSoFar) /\ next \notin NamedSoFar
    <3>1. NamedSoFar \in SUBSET (1..optind)
      BY <1>2 DEF NamedSoFar, Naming, Given
    <3>2. IsFiniteSet(1..optind)
      BY <1>2, FS_Interval
    <3>3. IsFiniteSet(NamedSoFar)
      BY <3>1, <3>2, FS_Subset
    <3>4. next \notin 1..optind
      BY <1>2
    <3> QED
      BY <3>1, <3>3, <3>4
  <2>4. Cardinality(NamedSoFar \cup {next}) = Cardinality(NamedSoFar) + 1
    BY <2>3, FS_AddElement
  <2>5. Place(next) = Cardinality(NamedSoFar) + 1
    BY <2>2, <2>4 DEF Place
  <2>6. RecipientsRead
    BY <1>2 DEF Reading
  <2>7. Len(recipients') = Len(recipients) + 1 /\ Len(recipients) \in Nat
        /\ recipients'[Len(recipients) + 1] = one
        /\ \A k \in 1..Len(recipients) : recipients'[k] = recipients[k]
    BY <1>1, <1>3, <1>4
  <2>8. Len(recipients') = Cardinality(NamedSoFar')
    BY <2>2, <2>4, <2>6, <2>7 DEF RecipientsRead
  <2>9. \A i : Place(i)' = Place(i) /\ Named(i)' = Named(i)
    BY <1>2, AskedStays
  <2>10. ASSUME NEW k \in 1..Len(recipients')
         PROVE  \E i \in NamedSoFar' : Place(i)' = k /\ recipients'[k] = Named(i)'
    <3>1. CASE k \in 1..Len(recipients)
      BY <2>2, <2>6, <2>7, <2>9, <3>1 DEF RecipientsRead
    <3>2. CASE k = Len(recipients) + 1
      <4>1. PICK i \in NamedSoFar' : i = next
        BY <2>2
      <4>2. Place(i)' = Place(i) /\ Named(i)' = Named(i)
        BY <2>9
      <4>3. Place(i) = k
        BY <2>5, <2>6, <3>2, <4>1 DEF RecipientsRead
      <4>4. recipients'[k] = Named(i)
        BY <1>3, <2>7, <3>2, <4>1
      <4> QED
        BY <4>2, <4>3, <4>4
    <3> QED
      BY <2>7, <3>1, <3>2
  <2> QED
    BY <2>8, <2>10 DEF RecipientsRead
<1> QED
  BY <1>1, <1>5, <1>6, <1>7, <1>8, ParsesOn

LEMMA UnknownStep ==
  ASSUME ConfigInv, OptionUnknown
  PROVE  ConfigInv'
<1>1. NextOption({"unknown"}) /\ Throw(EXCPT_GENERAL) /\ config' = config /\ recipients' = recipients
  BY DEF OptionUnknown
<1>2. /\ UNCHANGED inputVars /\ optind' \in 0..Len(args') /\ jidSet' = jidSet /\ pc = "parse" /\ Reading
  BY <1>1, NextOptionReads
<1>3. Exit(EXCPT_GENERAL)
  BY <1>1, <1>2 DEF Throw, InTry
<1>4. pc' = "exited" /\ status' = EXCPT_GENERAL
  BY <1>3 DEF Exit
<1>5. ConfigTypeOK /\ FieldsTyped /\ ~jidSet /\ recipients' \in Seq(Destination)
  BY <1>1, <1>2 DEF ConfigInv, ConfigTypeOK, Reading
<1>6. FieldsTyped'
  BY <1>1, <1>5 DEF FieldsTyped
<1>7. ConfigTypeOK'
  BY <1>1, <1>2, <1>4, <1>5, <1>6 DEF ConfigTypeOK, EXCPT_GENERAL
<1> QED
  BY <1>2, <1>3, <1>5, <1>7, Exits

LEMMA WordStep ==
  ASSUME ConfigInv, Word
  PROVE  ConfigInv'
<1>1. NextOption({"word"}) /\ KeepParsing /\ config' = config /\ recipients' = recipients
  BY DEF Word
<1>2. /\ optind' \in 0..Len(args') /\ jidSet' = jidSet /\ Reading
  BY <1>1, NextOptionReads
<1>3. ConfigTypeOK /\ FieldsTyped /\ ~jidSet /\ recipients' \in Seq(Destination)
  BY <1>1, <1>2 DEF ConfigInv, ConfigTypeOK, Reading
<1>4. FieldsTyped'
  BY <1>1, <1>3 DEF FieldsTyped
<1>5. ConfigTypeOK'
  BY <1>1, <1>2, <1>3, <1>4 DEF ConfigTypeOK, KeepParsing
<1>6. FieldsRead'
  <2>1. {"word"} \cap (DOMAIN FieldOf \cup {"v", "p"}) = {}
    BY FieldsOfOptions
  <2> QED
    BY <1>1, <2>1, NoField
<1>7. RecipientsRead'
  BY <1>1, NoRecipient
<1> QED
  BY <1>1, <1>3, <1>5, <1>6, <1>7, ParsesOn

LEMMA OptionsEndStep ==
  ASSUME ConfigInv, OptionsEnd
  PROVE  ConfigInv'
<1>1. /\ pc = "parse" /\ optind = Len(args) /\ UNCHANGED inputVars
      /\ args' = args /\ files' = files /\ optind' = optind
      /\ config' = config /\ recipients' = recipients /\ cfg' = cfg /\ jidSet' = jidSet
  BY DEF OptionsEnd, inputVars, lookedUp
<1>2. ConfigTypeOK /\ FieldsTyped /\ recipients' \in Seq(Destination) /\ Reading
  BY <1>1 DEF ConfigInv, ConfigTypeOK
<1>3. FieldsTyped'
  BY <1>1, <1>2 DEF FieldsTyped
<1>4. CASE Throw(EXCPT_GENERAL)
  <2>1. Exit(EXCPT_GENERAL)
    BY <1>1, <1>4 DEF Throw, InTry
  <2>2. pc' = "exited" /\ status' = EXCPT_GENERAL
    BY <2>1 DEF Exit
  <2>3. ConfigTypeOK'
    BY <1>1, <1>2, <1>3, <2>2 DEF ConfigTypeOK, EXCPT_GENERAL
  <2> QED
    BY <1>1, <1>2, <2>1, <2>3, Exits
<1>5. CASE pc' = "init" /\ UNCHANGED <<todo, status, session>>
  <2>1. ConfigTypeOK'
    BY <1>1, <1>2, <1>3, <1>5 DEF ConfigTypeOK
  <2>2. Inputs' /\ todo' \in Seq(Getters)
    BY <1>1, <1>5, AskedStays DEF ConfigInv
  <2>3. Established' /\ StartsAsAsked' /\ TerminatesForCause' /\ FailsLoudly' /\ VerboseReportsErrors'
    BY <1>5 DEF Established, StartsAsAsked, TerminatesForCause, FailsLoudly, VerboseReportsErrors
  <2>4. Reading'
    <3>1. TextsRead' /\ PortRead'
      BY <1>1, <1>2 DEF Reading, FieldsRead, TextsRead, PortRead, Defined
    <3>2. DebugRead'
      BY <1>1, <1>2, Zenon DEF Reading, FieldsRead, DebugRead
    <3>3. RecipientsRead'
      <4>1. NamedSoFar' = NamedSoFar
        BY <1>1, AskedStays DEF NamedSoFar
      <4> QED
        BY <1>1, <1>2, <4>1, AskedStays DEF Reading, RecipientsRead
    <3> QED
      BY <1>1, <1>2, <3>1, <3>2, <3>3 DEF Reading, FieldsRead
  <2> QED
    BY <1>1, <1>2, <1>5, <2>1, <2>2, <2>3, <2>4 DEF ConfigInv
<1> QED
  BY <1>4, <1>5 DEF OptionsEnd

-----------------------------------------------------------------------------
(* init_config.                                                            *)

\* Recipients are at different places.
LEMMA PlacesDiffer ==
  ASSUME Inputs, NEW i \in Naming, NEW j \in Naming, Place(i) = Place(j)
  PROVE  i = j
<1>1. Naming \in SUBSET (1..Len(args)) /\ Len(args) \in Nat
  BY ConfigAssumption DEF Inputs, Naming, Given
<1>2. i \in Int /\ j \in Int
  BY <1>1
<1>3. ASSUME NEW a \in Naming, NEW b \in Naming, a < b
      PROVE  Place(a) # Place(b)
  <2> DEFINE A == {k \in Naming : k <= a}
             B == {k \in Naming : k <= b}
  <2>1. A \in SUBSET B /\ b \in B /\ b \notin A /\ B \in SUBSET (1..Len(args))
    <3>1. a \in Int /\ b \in Int /\ Naming \subseteq Int
      BY <1>1
    <3>2. ~(b <= a) /\ \A k \in Naming : k <= a => k <= b
      BY <1>3, <3>1
    <3>3. b <= b
      BY <3>1
    <3>4. B \in SUBSET Naming /\ A \in SUBSET B
      BY <3>2
    <3> QED
      BY <1>1, <3>2, <3>3, <3>4
  <2>2. IsFiniteSet(1..Len(args))
    BY <1>1, FS_Interval
  <2>3. IsFiniteSet(B)
    BY <2>1, <2>2, FS_Subset
  <2>4. Cardinality(B) = Cardinality(A) => B = A
    BY <2>1, <2>3, FS_Subset
  <2> QED
    BY <2>1, <2>4 DEF Place
<1> QED
  BY <1>2, <1>3

\* All recipients are read.
LEMMA RecipientsAll ==
  ASSUME Inputs, RecipientsRead, recipients \in Seq(Destination), optind = Len(args)
  PROVE  recipients = AskedRecipients
<1>1. NamedSoFar = Naming
  BY ConfigAssumption DEF Inputs, NamedSoFar, Naming, Given
<1>2. Len(recipients) = Cardinality(Naming)
  BY <1>1 DEF RecipientsRead
<1>3. ASSUME NEW k \in 1..Cardinality(Naming)
      PROVE  recipients[k] = AskedRecipients[k]
  <2>1. PICK i \in Naming : Place(i) = k /\ recipients[k] = Named(i)
    BY <1>1, <1>2 DEF RecipientsRead
  <2>2. \A j \in Naming : Place(j) = k => j = i
    BY <2>1, PlacesDiffer
  <2>3. (CHOOSE j \in Naming : Place(j) = k) = i
    BY <2>1, <2>2
  <2>4. AskedRecipients[k] = Named(CHOOSE j \in Naming : Place(j) = k)
    BY DEF AskedRecipients
  <2> QED
    BY <2>1, <2>3, <2>4
<1>4. recipients = [k \in 1..Cardinality(Naming) |-> recipients[k]]
  BY <1>2
<1>5. AskedRecipients = [k \in 1..Cardinality(Naming) |-> AskedRecipients[k]]
  BY DEF AskedRecipients
<1> QED
  BY <1>3, <1>4, <1>5

\* The fields once all options are read.
LEMMA FieldsAll ==
  ASSUME FieldsRead, optind = Len(args)
  PROVE  /\ \A o \in DOMAIN FieldOf : \A default :
              LastOf(o, default) = GetOrDefault(FieldOf[o], default)
         /\ get_debug = (Given("v") # {})
         /\ Given("p") = {} => config.port = Undefined
         /\ Given("p") # {} => Defined("port") /\ config.port \in AskedPorts
<1>1. ASSUME NEW o \in DOMAIN FieldOf, NEW default
      PROVE  LastOf(o, default) = GetOrDefault(FieldOf[o], default)
  <2>1. /\ config[FieldOf[o]] = LastOf(o, Undefined)
        /\ Given(o) # {} => config[FieldOf[o]] # Undefined
    BY BeforeAll DEF FieldsRead, TextsRead, Defined
  <2>2. /\ Given(o) = {} => LastOf(o, Undefined) = Undefined /\ LastOf(o, default) = default
        /\ Given(o) # {} => LastOf(o, Undefined) = LastOf(o, default)
    BY DEF LastOf
  <2> QED
    BY <2>1, <2>2 DEF GetOrDefault, Defined
<1>2. get_debug = (Given("v") # {})
  <2>1. config.debug = IF Given("v") = {} THEN Undefined ELSE TRUE
    <3>1. Before(args, optind, "v") = Given("v")
      BY BeforeAll
    <3> QED
      BY <3>1, Zenon DEF FieldsRead, DebugRead
  <2>2. TRUE # Undefined
    BY ConfigAssumption
  <2> QED
    BY <2>1, <2>2, Zenon DEF get_debug, GetOrDefault, Defined
<1>3. /\ Given("p") = {} => config.port = Undefined
      /\ Given("p") # {} => Defined("port") /\ config.port \in AskedPorts
  <2>1. Given("p") # {} => LastOf("p", Undefined) = args[Max(Given("p"))].arg
    BY DEF LastOf
  <2> QED
    BY <2>1, BeforeAll DEF FieldsRead, PortRead, AskedPorts
<1> QED
  BY <1>1, <1>2, <1>3

\* The file that is read is the chosen one, and it is well typed.
LEMMA FileChosen ==
  ASSUME Inputs, FieldsRead, optind = Len(args)
  PROVE  /\ files[get_conf_file] = ChosenFile
         /\ ChosenFile \in {Missing, Malformed} \/ WellTyped(ChosenFile)
<1>1. get_conf_file = LastOf("c", DEFAULT_CONFIG)
  BY FieldsAll, FieldsOfOptions DEF get_conf_file
<1>2. get_conf_file \in DOMAIN files
  BY ConfigAssumption DEF Inputs, FieldsRead, TextsRead, get_conf_file, GetOrDefault
<1> QED
  BY <1>1, <1>2, ConfigAssumption DEF ChosenFile, Inputs

\* What a getter finds in the file are the settings of the chosen group.
LEMMA Found ==
  ASSUME FileRead
  PROVE  \A name : /\ Exists(name) <=> name \in DOMAIN Settings
                   /\ IsText(name) <=> name \in TextSettings
                   /\ IsText(name) => TextOf(name) = Settings[name].value /\ TextOf(name) \in STRING
<1>1. CASE get_root \in DOMAIN cfg
  <2>1. Settings = cfg[get_root]
    BY <1>1 DEF FileRead, Settings, Empty
  <2> QED
    BY <1>1, <2>1 DEF FileRead, WellTyped, Exists, IsText, TextOf, TextSettings
<1>2. CASE get_root \notin DOMAIN cfg
  <2>1. Settings = Empty
    BY <1>2 DEF FileRead, Settings
  <2>2. DOMAIN Settings = {}
    BY <2>1 DEF Empty
  <2> QED
    BY <1>2, <2>2 DEF Exists, IsText, TextSettings
<1> QED
  BY <1>1, <1>2

AllRead ==
  /\ Inputs
  /\ FieldsTyped
  /\ FieldsRead
  /\ RecipientsRead
  /\ recipients \in Seq(Destination)
  /\ optind = Len(args)

\* Once options and file are read, the getters would find what is asked for.
LEMMA FirstLook == AllRead /\ FileRead => LookedUp
<1> SUFFICES ASSUME AllRead, FileRead PROVE LookedUp
  OBVIOUS
<1>1. /\ Inputs /\ FieldsRead /\ optind = Len(args)
      /\ recipients = AskedRecipients
  BY RecipientsAll DEF AllRead
<1>2. /\ \A o \in DOMAIN FieldOf : \A default : LastOf(o, default) = GetOrDefault(FieldOf[o], default)
      /\ get_debug = (Given("v") # {})
      /\ Given("p") = {} => config.port = Undefined
      /\ Given("p") # {} => Defined("port") /\ config.port \in AskedPorts
  BY <1>1, FieldsAll
<1>3. \A name : /\ Exists(name) <=> name \in DOMAIN Settings
                /\ IsText(name) <=> name \in TextSettings
                /\ IsText(name) => TextOf(name) = Settings[name].value /\ TextOf(name) \in STRING
  BY Found
<1>4. OptionsKept
  <2>1. MessageSource = LastOf("m", Stdin)
    BY <1>2, FieldsOfOptions DEF MessageSource
  <2> QED
    BY <1>1, <1>2, <2>1, Zenon DEF OptionsKept
<1>5. \A default : LastOf("j", default) = IF Defined("jid") THEN config.jid ELSE default
  BY <1>2, FieldsOfOptions DEF GetOrDefault
<1>6. \A default : LastOf("P", default) = IF Defined("password") THEN config.password ELSE default
  BY <1>2, FieldsOfOptions DEF GetOrDefault
<1>7. \A default : LastOf("s", default) = IF Defined("server") THEN config.server ELSE default
  BY <1>2, FieldsOfOptions DEF GetOrDefault
<1>8. JidText = Asked("j", "jid")
  BY <1>3, <1>5 DEF JidText, Asked
<1>9. Known("password") = Asked("P", "password")
  BY <1>3, <1>6 DEF Known, Asked
<1>10. Given("s") = {} <=> ~Defined("server")
  <2>1. Given("s") = {} => LastOf("s", Undefined) = Undefined
    BY DEF LastOf
  <2>2. Given("s") # {} => Defined("server")
    BY <1>1, BeforeAll, FieldsOfOptions DEF FieldsRead, TextsRead
  <2> QED
    BY <1>7, <2>1, <2>2 DEF Defined
<1>11. KnownServer = AskedServer
  <2>1. Known("server") = Asked("s", "server")
    BY <1>3, <1>7 DEF Known, Asked
  <2> QED
    BY <1>3, <1>8, <1>10, <2>1 DEF KnownServer, AskedServer
<1>12. PortKnown
  BY <1>2 DEF PortKnown, Defined
<1> QED
  BY <1>4, <1>8, <1>9, <1>11, <1>12 DEF LookedUp

LEMMA InitConfigStep ==
  ASSUME ConfigInv, InitConfig
  PROVE  ConfigInv'
<1> DEFINE file == files[get_conf_file]
<1>1. /\ pc = "init" /\ UNCHANGED inputVars /\ args' = args /\ files' = files /\ optind' = optind
      /\ config' = config /\ recipients' = recipients /\ jidSet' = jidSet
  BY DEF InitConfig, inputVars
<1>2. /\ ConfigTypeOK /\ FieldsTyped /\ recipients' \in Seq(Destination) /\ Inputs
      /\ Reading /\ FieldsRead /\ optind = Len(args)
  BY <1>1 DEF ConfigInv, ConfigTypeOK, Reading
<1>3. FieldsTyped' /\ ~jidSet'
  BY <1>1, <1>2 DEF FieldsTyped, Reading
<1>4. file = ChosenFile /\ (ChosenFile \in {Missing, Malformed} \/ WellTyped(ChosenFile))
  BY <1>2, FileChosen
<1> HIDE DEF file
<1>5. CASE Throw(EXCPT_GENERAL)
  <2>1. Exit(EXCPT_GENERAL)
    BY <1>1, <1>5 DEF Throw, InTry
  <2>2. pc' = "exited" /\ status' = EXCPT_GENERAL
    BY <2>1 DEF Exit
  <2>3. ConfigTypeOK'
    BY <1>1, <1>2, <1>3, <2>2 DEF ConfigTypeOK, EXCPT_GENERAL
  <2> QED
    BY <1>1, <1>2, <2>1, <2>3, Exits
<1>6. ASSUME AfterInit, cfg' = IF ChosenFile \in {Missing, Malformed} THEN Empty ELSE ChosenFile
      PROVE  ConfigInv'
  <2>1. /\ status' = status /\ session' = session
        /\ \/ get_debug /\ pc' = "debug" /\ todo' = <<"jid", "JID", "password", "server", "port">>
           \/ ~get_debug /\ pc' = "recipients" /\ todo' = <<>>
    BY <1>6 DEF AfterInit, Continue
  <2>2. ConfigTypeOK'
    BY <1>1, <1>2, <1>3, <2>1 DEF ConfigTypeOK
  <2>3. AllRead'
    <3>1. TextsRead' /\ PortRead'
      BY <1>1, <1>2 DEF FieldsRead, TextsRead, PortRead, Defined
    <3>2. DebugRead'
      BY <1>1, <1>2, Zenon DEF FieldsRead, DebugRead
    <3>3. RecipientsRead'
      <4>1. NamedSoFar' = NamedSoFar
        BY <1>1, AskedStays DEF NamedSoFar
      <4> QED
        BY <1>1, <1>2, <4>1, AskedStays DEF Reading, RecipientsRead
    <3>4. Inputs'
      BY <1>1, <1>2, AskedStays
    <3> QED
      BY <1>1, <1>2, <1>3, <3>1, <3>2, <3>3, <3>4 DEF AllRead, FieldsRead
  <2>4. FileRead'
    <3>1. get_root = ChosenRoot
      BY <1>2, FieldsAll, FieldsOfOptions DEF get_root, ChosenRoot
    <3>2. get_root' = get_root /\ ChosenRoot' = ChosenRoot
      BY <1>1, AskedStays DEF get_root, GetOrDefault, Defined, ChosenRoot
    <3>3. WellTyped(Empty)
      BY DEF WellTyped, Empty
    <3>4. WellTyped(cfg')
      BY <1>4, <1>6, <3>3
    <3>5. ChosenFile' = ChosenFile
      BY <1>1, AskedStays
    <3> QED
      BY <1>6, <3>1, <3>2, <3>4, <3>5 DEF FileRead, WellTyped
  <2>5. LookedUp'
    <3>1. (AllRead /\ FileRead => LookedUp)'
      BY FirstLook, PTL
    <3> QED
      BY <2>3, <2>4, <3>1
  <2>6. get_debug' = get_debug
    BY <1>1 DEF get_debug, GetOrDefault, Defined
  <2>7. todo' \in Seq(Getters)
    <3>1. <<>> \in Seq(Getters) /\ <<"jid", "JID", "password", "server", "port">> \in Seq(Getters)
      BY DEF Getters
    <3> QED
      BY <2>1, <3>1
  <2>8. Established'
    <3>1. CASE get_debug
      <4>1. \A f \in Group : \E i \in 1..Len(todo') : todo'[i] = f
        <5>1. todo' = <<"jid", "JID", "password", "server", "port">>
          BY <2>1, <3>1
        <5>2. /\ Len(todo') = 5 /\ todo'[1] = "jid" /\ todo'[3] = "password"
              /\ todo'[4] = "server" /\ todo'[5] = "port"
          BY <5>1
        <5> QED
          BY <5>2 DEF Group
      <4> QED
        BY <2>1, <2>6, <3>1, <4>1 DEF Established, Pending
    <3>2. CASE ~get_debug
      BY <2>1, <2>6, <3>2 DEF Established
    <3> QED
      BY <3>1, <3>2
  <2>9. StartsAsAsked' /\ TerminatesForCause' /\ FailsLoudly' /\ VerboseReportsErrors'
    BY <2>1 DEF StartsAsAsked, TerminatesForCause, FailsLoudly, VerboseReportsErrors
  <2> QED
    BY <1>1, <1>2, <2>1, <2>2, <2>3, <2>5, <2>7, <2>8, <2>9 DEF ConfigInv, AllRead
<1>7. \/ Throw(EXCPT_GENERAL)
      \/ AfterInit /\ cfg' = IF ChosenFile \in {Missing, Malformed} THEN Empty ELSE ChosenFile
  <2>1. cfg = Empty
    BY <1>2 DEF Reading
  <2> QED
    BY <1>4, <2>1 DEF InitConfig, file
<1> QED
  BY <1>5, <1>6, <1>7

-----------------------------------------------------------------------------
(* The getters.                                                            *)

LEMMA GroupFields ==
  /\ Group \subseteq Fields
  /\ {"jid", "password", "server"} \subseteq Fields \ {"port", "debug"}
BY DEF Group, Fields

\* A step that changes no other fields than those of Group leaves the
\* file, the root, the recipients and the options that are none of Group.
LEMMA StillRead ==
  ASSUME FileRead, OptionsKept, UNCHANGED inputVars, cfg' = cfg, recipients' = recipients,
         \A f \in Fields \ Group : config'[f] = config[f]
  PROVE  /\ FileRead' /\ OptionsKept' /\ get_debug' = get_debug /\ Settings' = Settings
         /\ \A name : /\ Exists(name)' <=> Exists(name)
                      /\ IsText(name)' <=> IsText(name)
                      /\ TextOf(name)' = TextOf(name)
<1>1. /\ config'["root"] = config["root"] /\ config'["message"] = config["message"]
      /\ config'["debug"] = config["debug"]
  BY DEF Fields, Group
<1>2. get_root' = get_root /\ MessageSource' = MessageSource
  BY <1>1 DEF get_root, MessageSource, GetOrDefault, Defined
<1>3. get_debug' = get_debug
  BY <1>1, Zenon DEF get_debug, GetOrDefault, Defined
<1>4. ChosenRoot' = ChosenRoot
  BY AskedStays DEF ChosenRoot
<1>5. FileRead'
  BY <1>2, <1>4, AskedStays DEF FileRead, WellTyped
<1>6. OptionsKept'
  <2>1. (Given("v") # {})' = (Given("v") # {})
    BY AskedStays
  <2>2. get_debug' = (Given("v") # {})'
    BY <1>3, <2>1, Zenon DEF OptionsKept
  <2>3. LastOf("m", Stdin)' = LastOf("m", Stdin) /\ AskedRecipients' = AskedRecipients
    BY AskedStays
  <2> QED
    BY <1>2, <2>2, <2>3, Zenon DEF OptionsKept
<1>7. \A name : /\ Exists(name)' <=> Exists(name)
                /\ IsText(name)' <=> IsText(name)
                /\ TextOf(name)' = TextOf(name)
  BY <1>2 DEF Exists, IsText, TextOf
<1> QED
  BY <1>3, <1>5, <1>6, <1>7, AskedStays

\* What holds when a getter is called.
LEMMA GetterCalled ==
  ASSUME ConfigInv, NEW name, Getter(name)
  PROVE  /\ pc \in {"debug", "messenger"} /\ UNCHANGED inputVars /\ args' = args /\ files' = files
         /\ cfg' = cfg /\ recipients' = recipients /\ optind' = optind
         /\ recipients' \in Seq(Destination)
         /\ todo \in Seq(Getters) /\ todo # <<>> /\ Head(todo) = name
         /\ pc = "messenger" => name # "JID"
         /\ ConfigTypeOK /\ FieldsTyped /\ LookedUp /\ FileRead /\ OptionsKept /\ PortKnown
<1>1. /\ pc \in {"debug", "messenger"} /\ UNCHANGED inputVars /\ args' = args /\ files' = files
      /\ cfg' = cfg /\ recipients' = recipients /\ optind' = optind
      /\ todo # <<>> /\ Head(todo) = name
  BY DEF Getter, inputVars
<1>2. /\ recipients' \in Seq(Destination) /\ todo \in Seq(Getters) /\ ConfigTypeOK /\ FieldsTyped /\ LookedUp
      /\ Established
  BY <1>1 DEF ConfigInv, ConfigTypeOK
<1>3. pc = "messenger" => name # "JID"
  <2>1. Len(todo) \in Nat /\ Len(todo) # 0 /\ todo[1] = name
    BY <1>1, <1>2
  <2> QED
    BY <1>2, <2>1 DEF Established, Pending
<1> QED
  BY <1>1, <1>2, <1>3 DEF LookedUp

\* A getter that gives a value leaves what the others will find as it was.
LEMMA GetterReturns ==
  ASSUME ConfigInv, NEW name, Getter(name), Return, FieldsTyped',
         jidSet' => config'.jid \in DOMAIN Host,
         \A f \in Fields \ Group : config'[f] = config[f],
         JidText' = JidText, Known("password")' = Known("password"), KnownServer' = KnownServer,
         PortKnown',
         name \in Group => config'[name] # Undefined,
         \A f \in Group : config[f] # Undefined => config'[f] # Undefined
  PROVE  ConfigInv'
<1>1. /\ pc \in {"debug", "messenger"} /\ UNCHANGED inputVars /\ args' = args /\ files' = files
      /\ cfg' = cfg /\ recipients' = recipients /\ optind' = optind
      /\ recipients' \in Seq(Destination)
      /\ todo \in Seq(Getters) /\ todo # <<>> /\ Head(todo) = name
      /\ ConfigTypeOK /\ FieldsTyped /\ LookedUp /\ FileRead /\ OptionsKept
  BY GetterCalled
<1>2. /\ todo' = Tail(todo) /\ pc' = pc /\ status' = status /\ session' = session
  BY DEF Return
<1>3. FileRead' /\ OptionsKept' /\ get_debug' = get_debug
  BY <1>1, StillRead
<1>4. LookedUp'
  <2>1. Asked("j", "jid")' = Asked("j", "jid") /\ Asked("P", "password")' = Asked("P", "password")
        /\ AskedServer' = AskedServer
    BY <1>1, AskedStays
  <2> QED
    BY <1>1, <1>3, <2>1 DEF LookedUp
<1>5. ConfigTypeOK'
  BY <1>1, <1>2 DEF ConfigTypeOK
<1>6. todo' \in Seq(Getters)
  BY <1>1, <1>2
<1>7. Established'
  <2>1. /\ \A i \in 1..Len(todo) : i = 1 \/ (i - 1 \in 1..Len(todo') /\ todo'[i - 1] = todo[i])
        /\ todo[1] = name
        /\ \A i \in 1..Len(todo') : i + 1 \in 1..Len(todo) /\ todo'[i] = todo[i + 1]
    BY <1>1, <1>2
  <2>2. /\ \A f : Pending(f) => f = name \/ Pending(f)'
        /\ \A f : Pending(f)' => Pending(f)
    BY <2>1 DEF Pending
  <2>3. Established
    BY DEF ConfigInv
  <2>4. pc' = "messenger" => ~Pending("JID")'
    BY <1>2, <2>2, <2>3 DEF Established
  <2>5. \A f \in Group : Pending(f)' \/ Defined(f)'
    BY <1>1, <2>2, <2>3 DEF Established, Defined
  <2>6. pc' = "debug" => get_debug'
    BY <1>2, <1>3, <2>3, Zenon DEF Established
  <2>7. get_debug' /\ pc' = "messenger" => \A f \in Group : Defined(f)'
    <3>1. ASSUME get_debug', pc' = "messenger"
          PROVE  \A f \in Group : Defined(f)
      <4>1. get_debug
        BY <1>3, <3>1, Zenon
      <4> QED
        BY <1>2, <2>3, <3>1, <4>1 DEF Established
    <3> QED
      BY <3>1 DEF Defined
  <2> QED
    BY <1>1, <1>2, <2>4, <2>5, <2>6, <2>7 DEF Established
<1>8. StartsAsAsked' /\ TerminatesForCause' /\ FailsLoudly' /\ VerboseReportsErrors'
  BY <1>1, <1>2 DEF StartsAsAsked, TerminatesForCause, FailsLoudly, VerboseReportsErrors
<1>9. Inputs'
  BY <1>1, AskedStays DEF ConfigInv
<1> QED
  BY <1>1, <1>2, <1>4, <1>5, <1>6, <1>7, <1>8, <1>9 DEF ConfigInv

\* A getter that finds a field undefined is outside the try block only
\* without -v.
LEMMA Unguarded ==
  ASSUME ConfigInv, NEW name \in Group, Getter(name), ~Defined(name)
  PROVE  InTry \/ Given("v") = {}
<1>1. pc \in {"debug", "messenger"} /\ OptionsKept
  BY GetterCalled
<1>2. pc = "messenger" => ~get_debug
  BY DEF ConfigInv, Established
<1> QED
  BY <1>1, <1>2 DEF InTry, OptionsKept

\* Nothing is looked up again: a getter whose field is there changes nothing.
LEMMA GetterAgain ==
  ASSUME ConfigInv, NEW name, Getter(name), Return, config' = config, jidSet' = jidSet,
         name \in Group => Defined(name)
  PROVE  ConfigInv'
<1>1. /\ UNCHANGED inputVars /\ cfg' = cfg /\ recipients' = recipients
      /\ ConfigTypeOK /\ FieldsTyped /\ FileRead /\ OptionsKept /\ PortKnown
  BY GetterCalled
<1>2. FieldsTyped' /\ (jidSet' => config'.jid \in DOMAIN Host)
  BY <1>1 DEF ConfigTypeOK, FieldsTyped
<1>3. /\ Settings' = Settings
      /\ \A n : /\ Exists(n)' <=> Exists(n)
                /\ IsText(n)' <=> IsText(n)
                /\ TextOf(n)' = TextOf(n)
  BY <1>1, StillRead
<1>4. JidText' = JidText
  BY <1>3 DEF JidText, Defined
<1>5. Known("password")' = Known("password")
  BY <1>3 DEF Known, Defined
<1>6. KnownServer' = KnownServer
  <2>1. Known("server")' = Known("server")
    BY <1>3 DEF Known, Defined
  <2> QED
    BY <1>3, <1>4, <2>1 DEF KnownServer, Defined
<1>7. PortKnown'
  BY <1>1, <1>3, AskedStays DEF PortKnown, Defined
<1> QED
  BY <1>2, <1>4, <1>5, <1>6, <1>7, GetterReturns DEF Defined

LEMMA GetTextStep ==
  ASSUME ConfigInv, NEW field \in {"jid", "password"}, GetText(field)
  PROVE  ConfigInv'
<1>1. Getter(field) /\ jidSet' = jidSet /\ field \in Group /\ field \in Fields \ {"port", "debug"}
  BY DEF GetText, Group, Fields
<1>2. /\ UNCHANGED inputVars /\ args' = args /\ cfg' = cfg /\ recipients' = recipients /\ optind' = optind
      /\ recipients' \in Seq(Destination)
      /\ ConfigTypeOK /\ FieldsTyped /\ LookedUp /\ FileRead /\ OptionsKept /\ PortKnown
  BY <1>1, GetterCalled
<1>3. CASE Defined(field) /\ Return /\ config' = config
  BY <1>1, <1>3, GetterAgain
<1>4. CASE ~Defined(field) /\ IsText(field) /\ Assign(field, TextOf(field)) /\ Return
  <2>1. TextOf(field) \in STRING
    BY <1>2, <1>4, Found
  <2>2. FieldsTyped' /\ config'[field] = TextOf(field) /\ \A g \in Fields \ {field} : config'[g] = config[g]
    BY <1>1, <1>2, <1>4, <2>1, AssignText
  <2>3. \A f \in Fields \ Group : config'[f] = config[f]
    BY <1>1, <2>2
  <2>4. /\ Settings' = Settings
        /\ \A n : /\ Exists(n)' <=> Exists(n)
                  /\ IsText(n)' <=> IsText(n)
                  /\ TextOf(n)' = TextOf(n)
    BY <1>2, <2>3, StillRead
  <2>5. TextOf(field) # Undefined
    BY <2>1, ConfigAssumption
  <2>6. jidSet' => config'.jid \in DOMAIN Host
    <3>1. jidSet => config["jid"] # Undefined
      BY <1>2, ConfigAssumption DEF ConfigTypeOK
    <3>2. jidSet => field # "jid"
      BY <1>4, <3>1 DEF Defined
    <3>3. field # "jid" => config'["jid"] = config["jid"]
      BY <2>2 DEF Fields
    <3> QED
      BY <1>1, <1>2, <3>2, <3>3 DEF ConfigTypeOK
  <2>7. config'["server"] = config["server"] /\ config'["port"] = config["port"]
    BY <2>2 DEF Fields
  <2>8. JidText' = JidText
    <3>1. CASE field = "jid"
      BY <1>4, <2>2, <2>4, <2>5, <3>1 DEF JidText, Defined
    <3>2. CASE field = "password"
      <4>1. config'["jid"] = config["jid"]
        BY <2>2, <3>2 DEF Fields
      <4> QED
        BY <2>4, <4>1 DEF JidText, Defined
    <3> QED
      BY <3>1, <3>2
  <2>9. Known("password")' = Known("password")
    <3>1. CASE field = "password"
      BY <1>4, <2>2, <2>4, <2>5, <3>1 DEF Known, Defined
    <3>2. CASE field = "jid"
      <4>1. config'["password"] = config["password"]
        BY <2>2, <3>2 DEF Fields
      <4> QED
        BY <2>4, <4>1 DEF Known, Defined
    <3> QED
      BY <3>1, <3>2
  <2>10. KnownServer' = KnownServer
    <3>1. Known("server")' = Known("server")
      BY <2>4, <2>7 DEF Known, Defined
    <3> QED
      BY <2>4, <2>7, <2>8, <3>1 DEF KnownServer, Defined
  <2>11. PortKnown'
    BY <1>2, <2>4, <2>7, AskedStays DEF PortKnown, Defined
  <2>12. \A f \in Group : config[f] # Undefined => config'[f] # Undefined
    BY <1>1, <2>2, <2>5, GroupFields
  <2> QED
    BY <1>1, <1>4, <2>2, <2>3, <2>5, <2>6, <2>8, <2>9, <2>10, <2>11, <2>12, GetterReturns
<1>5. CASE ~Defined(field) /\ ~IsText(field) /\ Throw(FAILED) /\ config' = config
  <2>1. InTry \/ Given("v") = {}
    BY <1>1, <1>5, Unguarded
  <2>2. ~Complete
    BY <1>2, <1>5 DEF LookedUp, Complete, JidText, Known
  <2>3. FieldsTyped'
    BY <1>2, <1>5 DEF FieldsTyped
  <2>4. pc' \in {"exited", "aborted"} /\ (status' = Undefined \/ status' \in 0..255)
    BY <1>2, <1>5, ThrowTyped
  <2>5. ConfigTypeOK'
    BY <1>1, <1>2, <1>5, <2>3, <2>4 DEF ConfigTypeOK
  <2> QED
    BY <1>2, <1>5, <2>1, <2>2, <2>5, Throws
<1> QED
  BY <1>3, <1>4, <1>5 DEF GetText

\* The JID is missing or invalid: an error, caught or not.
LEMMA JIDFailsStep ==
  ASSUME ConfigInv, NEW name, Getter(name), ~JIDValid, JIDFails, jidSet' = jidSet,
         InTry \/ (~Complete /\ Given("v") = {})
  PROVE  ConfigInv'
<1>1. /\ UNCHANGED inputVars /\ args' = args /\ optind' = optind /\ recipients' = recipients
      /\ recipients' \in Seq(Destination)
      /\ ConfigTypeOK /\ FieldsTyped /\ FileRead
  BY GetterCalled
<1>2. ~jidSet
  BY DEF JIDValid
<1>3. JidText # Undefined => JidText \in STRING
  BY <1>1, Found DEF JidText, Defined, FieldsTyped, Fields
<1>4. FieldsTyped'
  <2>1. CASE config' = config
    BY <1>1, <2>1 DEF FieldsTyped
  <2>2. CASE JidText # Undefined /\ Assign("jid", JidText)
    BY <1>1, <1>3, <2>2, AssignText, GroupFields
  <2> QED
    BY <2>1, <2>2 DEF JIDFails
<1>5. PICK code \in {FAILED, EXCPT_GENERAL} : Throw(code)
  BY DEF JIDFails
<1>6. pc' \in {"exited", "aborted"} /\ (status' = Undefined \/ status' \in 0..255)
  BY <1>1, <1>5, ThrowTyped
<1>7. ConfigTypeOK'
  BY <1>1, <1>2, <1>4, <1>6 DEF ConfigTypeOK
<1> QED
  BY <1>1, <1>5, <1>7, Throws

LEMMA GetJIDStep ==
  ASSUME ConfigInv, GetJID
  PROVE  ConfigInv'
<1>1. Getter("JID")
  BY DEF GetJID
<1>2. /\ UNCHANGED inputVars /\ args' = args /\ cfg' = cfg /\ recipients' = recipients /\ optind' = optind
      /\ recipients' \in Seq(Destination) /\ InTry
      /\ ConfigTypeOK /\ FieldsTyped /\ LookedUp /\ FileRead /\ OptionsKept /\ PortKnown
  BY <1>1, GetterCalled DEF InTry
<1>3. "JID" \notin Group
  BY DEF Group
<1>4. CASE jidSet /\ Return /\ UNCHANGED <<config, jidSet>>
  BY <1>1, <1>3, <1>4, GetterAgain
<1>5. JidText # Undefined => JidText \in STRING
  BY <1>2, Found DEF JidText, Defined, FieldsTyped, Fields
<1>6. CASE ~jidSet /\ JIDValid /\ jidSet' = TRUE /\ Assign("jid", JidText) /\ Return
  <2>1. JidText \in DOMAIN Host /\ JidText \in STRING /\ JidText # Undefined
    BY <1>6, ConfigAssumption DEF JIDValid
  <2>2. FieldsTyped' /\ config'["jid"] = JidText /\ \A g \in Fields \ {"jid"} : config'[g] = config[g]
    BY <1>2, <1>6, <2>1, AssignText, GroupFields
  <2>3. \A f \in Fields \ Group : config'[f] = config[f]
    BY <2>2 DEF Group
  <2>4. /\ Settings' = Settings
        /\ \A n : /\ Exists(n)' <=> Exists(n)
                  /\ IsText(n)' <=> IsText(n)
                  /\ TextOf(n)' = TextOf(n)
    BY <1>2, <2>3, StillRead
  <2>5. /\ config'["server"] = config["server"] /\ config'["port"] = config["port"]
        /\ config'["password"] = config["password"]
    BY <2>2 DEF Fields
  <2>6. JidText' = JidText
    BY <2>1, <2>2 DEF JidText, Defined
  <2>7. Known("password")' = Known("password") /\ Known("server")' = Known("server")
    BY <2>4, <2>5 DEF Known, Defined
  <2>8. KnownServer' = KnownServer
    BY <2>4, <2>5, <2>6, <2>7 DEF KnownServer, Defined
  <2>9. PortKnown'
    BY <1>2, <2>4, <2>5, AskedStays DEF PortKnown, Defined
  <2>10. \A f \in Group : config[f] # Undefined => config'[f] # Undefined
    BY <2>1, <2>2, GroupFields
  <2> QED
    BY <1>1, <1>3, <1>6, <2>1, <2>2, <2>3, <2>6, <2>7, <2>8, <2>9, <2>10, GetterReturns
<1>7. CASE ~JIDValid /\ JIDFails /\ UNCHANGED jidSet
  BY <1>1, <1>2, <1>7, JIDFailsStep
<1> QED
  BY <1>4, <1>6, <1>7 DEF GetJID

LEMMA GetServerStep ==
  ASSUME ConfigInv, GetServer
  PROVE  ConfigInv'
<1>1. Getter("server") /\ "server" \in Group
  BY DEF GetServer, Group
<1>2. /\ UNCHANGED inputVars /\ args' = args /\ cfg' = cfg /\ recipients' = recipients /\ optind' = optind
      /\ recipients' \in Seq(Destination)
      /\ ConfigTypeOK /\ FieldsTyped /\ LookedUp /\ FileRead /\ OptionsKept /\ PortKnown
  BY <1>1, GetterCalled
<1>3. CASE Defined("server") /\ Return /\ config' = config /\ jidSet' = jidSet
  BY <1>1, <1>3, GetterAgain
<1>4. CASE /\ ~Defined("server") /\ IsText("server") /\ Assign("server", TextOf("server")) /\ Return
           /\ jidSet' = jidSet
  <2>1. TextOf("server") \in STRING /\ TextOf("server") # Undefined /\ Exists("server")
    BY <1>2, <1>4, Found, ConfigAssumption DEF IsText
  <2>2. FieldsTyped' /\ config'["server"] = TextOf("server")
        /\ \A g \in Fields \ {"server"} : config'[g] = config[g]
    BY <1>2, <1>4, <2>1, AssignText, GroupFields
  <2>3. \A f \in Fields \ Group : config'[f] = config[f]
    BY <2>2 DEF Group
  <2>4. /\ Settings' = Settings
        /\ \A n : /\ Exists(n)' <=> Exists(n)
                  /\ IsText(n)' <=> IsText(n)
                  /\ TextOf(n)' = TextOf(n)
    BY <1>2, <2>3, StillRead
  <2>5. /\ config'["jid"] = config["jid"] /\ config'["port"] = config["port"]
        /\ config'["password"] = config["password"]
    BY <2>2 DEF Fields
  <2>6. JidText' = JidText
    BY <2>4, <2>5 DEF JidText, Defined
  <2>7. Known("password")' = Known("password")
    BY <2>4, <2>5 DEF Known, Defined
  <2>8. KnownServer' = KnownServer
    <3>1. Known("server") = TextOf("server") /\ Known("server")' = TextOf("server")
      BY <1>4, <2>1, <2>2 DEF Known, Defined
    <3> QED
      BY <2>1, <2>4, <3>1 DEF KnownServer
  <2>9. PortKnown'
    BY <1>2, <2>4, <2>5, AskedStays DEF PortKnown, Defined
  <2>10. \A f \in Group : config[f] # Undefined => config'[f] # Undefined
    BY <2>1, <2>2, GroupFields
  <2>11. jidSet' => config'.jid \in DOMAIN Host
    BY <1>2, <1>4, <2>5 DEF ConfigTypeOK
  <2> QED
    BY <1>1, <1>4, <2>1, <2>2, <2>3, <2>6, <2>7, <2>8, <2>9, <2>10, <2>11, GetterReturns
<1>5. CASE /\ ~Defined("server") /\ Exists("server") /\ ~IsText("server") /\ Throw(FAILED)
           /\ config' = config /\ jidSet' = jidSet
  <2>1. InTry \/ Given("v") = {}
    BY <1>1, <1>5, Unguarded
  <2>2. ~Complete
    <3>1. KnownServer = Undefined
      BY <1>5 DEF KnownServer, Known
    <3> QED
      BY <1>2, <3>1 DEF LookedUp, Complete
  <2>3. FieldsTyped'
    BY <1>2, <1>5 DEF FieldsTyped
  <2>4. pc' \in {"exited", "aborted"} /\ (status' = Undefined \/ status' \in 0..255)
    BY <1>2, <1>5, ThrowTyped
  <2>5. ConfigTypeOK'
    BY <1>1, <1>2, <1>5, <2>3, <2>4 DEF ConfigTypeOK
  <2> QED
    BY <1>2, <1>5, <2>1, <2>2, <2>5, Throws
<1>6. JIDValid => JidText \in DOMAIN Host
  <2>1. jidSet => config.jid \in DOMAIN Host
    BY <1>2 DEF ConfigTypeOK
  <2>2. jidSet => JidText = config.jid
    BY <2>1, ConfigAssumption DEF JidText, Defined
  <2> QED
    BY <2>1, <2>2 DEF JIDValid
<1>7. CASE /\ ~Defined("server") /\ ~Exists("server") /\ JIDValid /\ jidSet' = TRUE
           /\ config' = [config EXCEPT !.jid = JidText, !.server = Host[JidText]]
           /\ Return
  <2>1. /\ JidText \in DOMAIN Host /\ JidText \in STRING /\ JidText # Undefined
        /\ Host[JidText] \in STRING /\ Host[JidText] # Undefined
    BY <1>6, <1>7, ConfigAssumption
  <2>2. /\ DOMAIN config' = Fields
        /\ config'["jid"] = JidText /\ config'["server"] = Host[JidText]
        /\ \A g \in Fields \ {"jid", "server"} : config'[g] = config[g]
    BY <1>2, <1>7 DEF FieldsTyped, Fields
  <2>3. \A f \in Fields \ Group : config'[f] = config[f]
    BY <2>2 DEF Group
  <2>4. /\ Settings' = Settings
        /\ \A n : /\ Exists(n)' <=> Exists(n)
                  /\ IsText(n)' <=> IsText(n)
                  /\ TextOf(n)' = TextOf(n)
    BY <1>2, <2>3, StillRead
  <2>5. /\ config'["port"] = config["port"] /\ config'["password"] = config["password"]
        /\ config'["debug"] = config["debug"]
    BY <2>2 DEF Fields
  <2>6. FieldsTyped'
    BY <1>2, <2>1, <2>2, <2>5 DEF FieldsTyped
  <2>7. JidText' = JidText
    BY <2>1, <2>2 DEF JidText, Defined
  <2>8. Known("password")' = Known("password")
    BY <2>4, <2>5 DEF Known, Defined
  <2>9. KnownServer' = KnownServer
    <3>1. KnownServer = Host[JidText]
      BY <1>7, <2>1 DEF KnownServer
    <3>2. KnownServer' = Host[JidText]
      BY <2>1, <2>2 DEF KnownServer, Known, Defined
    <3> QED
      BY <3>1, <3>2
  <2>10. PortKnown'
    BY <1>2, <2>4, <2>5, AskedStays DEF PortKnown, Defined
  <2>11. \A f \in Group : config[f] # Undefined => config'[f] # Undefined
    BY <2>1, <2>2, GroupFields
  <2> QED
    BY <1>1, <1>7, <2>1, <2>2, <2>3, <2>6, <2>7, <2>8, <2>9, <2>10, <2>11, GetterReturns
<1>8. CASE ~Defined("server") /\ ~Exists("server") /\ ~JIDValid /\ JIDFails /\ jidSet' = jidSet
  <2>1. InTry \/ Given("v") = {}
    BY <1>1, <1>8, Unguarded
  <2>2. ~Complete
    <3>1. KnownServer = Undefined
      BY <1>8 DEF KnownServer, JIDValid
    <3> QED
      BY <1>2, <3>1 DEF LookedUp, Complete
  <2> QED
    BY <1>1, <1>8, <2>1, <2>2, JIDFailsStep
<1> QED
  BY <1>3, <1>4, <1>5, <1>7, <1>8 DEF GetServer

LEMMA GetPortStep ==
  ASSUME ConfigInv, GetPort
  PROVE  ConfigInv'
<1>1. Getter("port") /\ "port" \in Group /\ jidSet' = jidSet
  BY DEF GetPort, Group
<1>2. /\ UNCHANGED inputVars /\ args' = args /\ cfg' = cfg /\ recipients' = recipients /\ optind' = optind
      /\ recipients' \in Seq(Destination)
      /\ ConfigTypeOK /\ FieldsTyped /\ LookedUp /\ FileRead /\ OptionsKept /\ PortKnown
  BY <1>1, GetterCalled
<1>3. CASE Defined("port") /\ Return /\ config' = config
  BY <1>1, <1>3, GetterAgain
<1>4. CASE ~Defined("port") /\ ~Exists("port") /\ Assign("port", -1) /\ Return
  <2>1. FieldsTyped' /\ config'["port"] = -1 /\ \A g \in Fields \ {"port"} : config'[g] = config[g]
    BY <1>2, <1>4, AssignPort
  <2>2. \A f \in Fields \ Group : config'[f] = config[f]
    BY <2>1 DEF Group
  <2>3. /\ Settings' = Settings
        /\ \A n : /\ Exists(n)' <=> Exists(n)
                  /\ IsText(n)' <=> IsText(n)
                  /\ TextOf(n)' = TextOf(n)
    BY <1>2, <2>2, StillRead
  <2>4. /\ config'["jid"] = config["jid"] /\ config'["server"] = config["server"]
        /\ config'["password"] = config["password"]
    BY <2>1 DEF Fields
  <2>5. JidText' = JidText
    BY <2>3, <2>4 DEF JidText, Defined
  <2>6. Known("password")' = Known("password") /\ Known("server")' = Known("server")
    BY <2>3, <2>4 DEF Known, Defined
  <2>7. KnownServer' = KnownServer
    BY <2>3, <2>4, <2>5, <2>6 DEF KnownServer, Defined
  <2>8. -1 # Undefined
    BY ConfigAssumption
  <2>9. PortKnown'
    <3>1. Given("p") = {} /\ Given("p")' = {}
      BY <1>2, <1>4, AskedStays DEF PortKnown
    <3>2. config'.port \in AskedPorts'
      BY <2>1, <3>1 DEF AskedPorts
    <3>3. "port" \notin DOMAIN Settings'
      BY <1>2, <1>4, <2>3, Found
    <3> QED
      BY <3>1, <3>2, <3>3 DEF PortKnown
  <2>10. \A f \in Group : config[f] # Undefined => config'[f] # Undefined
    BY <2>1, <2>8, GroupFields
  <2>11. jidSet' => config'.jid \in DOMAIN Host
    BY <1>1, <1>2, <2>4 DEF ConfigTypeOK
  <2> QED
    BY <1>1, <1>4, <2>1, <2>2, <2>5, <2>6, <2>7, <2>8, <2>9, <2>10, <2>11, GetterReturns
<1>5. CASE /\ ~Defined("port") /\ Exists("port")
           /\ IF IsText("port") THEN Assign("server", TextOf("port")) ELSE UNCHANGED config
           /\ Terminate
  <2>1. PortInFile
    BY <1>2, <1>5, Found DEF PortKnown, PortInFile
  <2>3. FieldsTyped' /\ config'["jid"] = config["jid"]
    <3>1. CASE IsText("port") /\ Assign("server", TextOf("port"))
      <4>1. TextOf("port") \in STRING
        BY <1>2, <3>1, Found
      <4> QED
        BY <1>2, <3>1, <4>1, AssignText, GroupFields
    <3>2. CASE config' = config
      BY <1>2, <3>2 DEF FieldsTyped
    <3> QED
      BY <1>5, <3>1, <3>2
  <2>4. ConfigTypeOK'
    BY <1>1, <1>2, <1>5, <2>3 DEF ConfigTypeOK, Terminate
  <2> QED
    BY <1>2, <1>5, <2>1, <2>4, Aborts
<1> QED
  BY <1>3, <1>4, <1>5 DEF GetPort

-----------------------------------------------------------------------------
(* The rest of main.                                                       *)

LEMMA Main ==
  ASSUME ConfigInv, MainStep
  PROVE  /\ UNCHANGED inputVars /\ args' = args /\ files' = files /\ optind' = optind
         /\ config' = config /\ recipients' = recipients /\ cfg' = cfg /\ jidSet' = jidSet
         /\ Inputs' /\ recipients' \in Seq(Destination) /\ ConfigTypeOK /\ FieldsTyped'
         /\ LookedUp => LookedUp'
<1>1. /\ UNCHANGED inputVars /\ args' = args /\ files' = files /\ optind' = optind
      /\ config' = config /\ recipients' = recipients /\ cfg' = cfg /\ jidSet' = jidSet
  BY DEF MainStep, inputVars, lookedUp
<1>2. ConfigTypeOK /\ FieldsTyped /\ recipients' \in Seq(Destination)
  BY <1>1 DEF ConfigInv, ConfigTypeOK
<1>3. FieldsTyped'
  BY <1>1, <1>2 DEF FieldsTyped
<1>4. ASSUME LookedUp PROVE LookedUp'
  <2>1. FileRead /\ OptionsKept /\ PortKnown
    BY <1>4 DEF LookedUp
  <2>2. /\ FileRead' /\ OptionsKept' /\ Settings' = Settings
        /\ \A n : /\ Exists(n)' <=> Exists(n)
                  /\ IsText(n)' <=> IsText(n)
                  /\ TextOf(n)' = TextOf(n)
    BY <1>1, <2>1, StillRead
  <2>3. JidText' = JidText
    BY <1>1, <2>2 DEF JidText, Defined
  <2>4. Known("password")' = Known("password") /\ Known("server")' = Known("server")
    BY <1>1, <2>2 DEF Known, Defined
  <2>5. KnownServer' = KnownServer
    BY <1>1, <2>2, <2>3, <2>4 DEF KnownServer, Defined
  <2>6. PortKnown'
    BY <1>1, <2>1, <2>2, AskedStays DEF PortKnown, Defined
  <2>7. Asked("j", "jid")' = Asked("j", "jid") /\ Asked("P", "password")' = Asked("P", "password")
        /\ AskedServer' = AskedServer
    BY <1>1, AskedStays
  <2> QED
    BY <1>4, <2>2, <2>3, <2>4, <2>5, <2>6, <2>7 DEF LookedUp
<1>5. Inputs'
  BY <1>1, AskedStays DEF ConfigInv
<1> QED
  BY <1>1, <1>2, <1>3, <1>4, <1>5

\* One phase of main follows another.
LEMMA NextPhase ==
  ASSUME ConfigInv, MainStep, LookedUp,
         NEW phase \in {"recipients", "message", "messenger"},
         NEW getters \in Seq(Getters), Continue(phase, getters), Established'
  PROVE  ConfigInv'
<1>1. pc' = phase /\ todo' = getters /\ status' = status /\ session' = session
  BY DEF Continue
<1>2. ConfigTypeOK'
  BY <1>1, Main DEF ConfigTypeOK
<1>3. StartsAsAsked' /\ TerminatesForCause' /\ FailsLoudly' /\ VerboseReportsErrors'
  BY <1>1 DEF StartsAsAsked, TerminatesForCause, FailsLoudly, VerboseReportsErrors
<1> QED
  BY <1>1, <1>2, <1>3, Main DEF ConfigInv

\* main gives up, with a message.
LEMMA GivesUp ==
  ASSUME ConfigInv, MainStep, Exit(FAILED)
  PROVE  ConfigInv'
<1>1. pc' = "exited" /\ status' = FAILED /\ todo' = todo
  BY DEF Exit
<1>2. FAILED \in 0..255
  <2>1. \A n \in Int : n % 256 \in 0..255
    OBVIOUS
  <2>2. -1 \in Int
    OBVIOUS
  <2>3. (-1) % 256 \in 0..255
    BY <2>1, <2>2, Zenon
  <2> QED
    BY <2>3 DEF FAILED
<1>3. ConfigTypeOK'
  BY <1>1, <1>2, Main DEF ConfigTypeOK
<1> QED
  BY <1>3, Main, Exits

LEMMA DebugPrintedStep ==
  ASSUME ConfigInv, DebugPrinted
  PROVE  ConfigInv'
<1>1. pc = "debug" /\ todo = <<>> /\ Continue("recipients", <<>>) /\ MainStep
  BY DEF DebugPrinted
<1>2. LookedUp /\ Established
  BY <1>1 DEF ConfigInv
<1>3. \A f \in Group : Defined(f)
  BY <1>1, <1>2 DEF Established, Pending
<1>4. Established'
  BY <1>1, <1>3, Main DEF Established, Continue, Defined
<1>5. <<>> \in Seq(Getters)
  OBVIOUS
<1> QED
  BY <1>1, <1>2, <1>4, <1>5, NextPhase

\* Phases in which no getter is called keep what is established.
LEMMA StillEstablished ==
  ASSUME ConfigInv, MainStep, pc \in {"recipients", "message"},
         pc' \in {"message", "messenger"},
         pc' = "messenger" => todo' = <<"jid", "password", "server", "port">>
  PROVE  Established'
<1>1. get_debug' = get_debug
  BY Main, Zenon DEF get_debug, GetOrDefault, Defined
<1>2. get_debug => \A f \in Group : Defined(f)
  BY DEF ConfigInv, Established
<1>3. get_debug' => \A f \in Group : Defined(f)'
  <2>1. \A f \in Group : Defined(f)' <=> Defined(f)
    BY Main DEF Defined
  <2> QED
    BY <1>1, <1>2, <2>1, Zenon
<1>4. CASE pc' = "messenger"
  <2>1. /\ Len(todo') = 4 /\ todo'[1] = "jid" /\ todo'[2] = "password"
        /\ todo'[3] = "server" /\ todo'[4] = "port"
    BY <1>4
  <2>2. \A f \in Group : \E i \in 1..Len(todo') : todo'[i] = f
    BY <2>1 DEF Group
  <2>3. \A i \in 1..Len(todo') : todo'[i] # "JID"
    BY <2>1
  <2> QED
    BY <1>3, <1>4, <2>2, <2>3 DEF Established, Pending
<1>5. CASE pc' = "message"
  BY <1>3, <1>5 DEF Established
<1> QED
  BY <1>4, <1>5

LEMMA CheckRecipientsStep ==
  ASSUME ConfigInv, CheckRecipients
  PROVE  ConfigInv'
<1>1. /\ pc = "recipients" /\ MainStep
      /\ Exit(FAILED) \/ Continue("message", <<>>)
  BY DEF CheckRecipients
<1>2. LookedUp
  BY <1>1 DEF ConfigInv
<1>3. <<>> \in Seq(Getters)
  OBVIOUS
<1>4. CASE Continue("message", <<>>)
  <2>1. Established'
    BY <1>1, <1>4, StillEstablished DEF Continue
  <2> QED
    BY <1>1, <1>2, <1>3, <1>4, <2>1, NextPhase
<1> QED
  BY <1>1, <1>4, GivesUp

LEMMA ReadMessageStep ==
  ASSUME ConfigInv, ReadMessage
  PROVE  ConfigInv'
<1>1. /\ pc = "message" /\ MainStep
      /\ Exit(FAILED) \/ Continue("messenger", <<"jid", "password", "server", "port">>)
  BY DEF ReadMessage
<1>2. LookedUp
  BY <1>1 DEF ConfigInv
<1>3. <<"jid", "password", "server", "port">> \in Seq(Getters)
  BY DEF Getters
<1>4. CASE Continue("messenger", <<"jid", "password", "server", "port">>)
  <2>1. Established'
    BY <1>1, <1>4, StillEstablished DEF Continue
  <2> QED
    BY <1>1, <1>2, <1>3, <1>4, <2>1, NextPhase
<1> QED
  BY <1>1, <1>4, GivesUp

LEMMA StartMessengerStep ==
  ASSUME ConfigInv, StartMessenger
  PROVE  ConfigInv'
<1>1. /\ pc = "messenger" /\ todo = <<>> /\ pc' = "started" /\ todo' = todo /\ status' = status
      /\ MainStep
      /\ session' = [jid |-> config.jid, password |-> config.password,
                     server |-> config.server, port |-> config.port,
                     destinations |-> recipients, message |-> MessageSource,
                     debug |-> get_debug]
  BY DEF StartMessenger
<1>2. LookedUp /\ Established /\ OptionsKept /\ PortKnown
  BY <1>1 DEF ConfigInv, LookedUp
<1>3. Defined("jid") /\ Defined("password") /\ Defined("server") /\ Defined("port")
  BY <1>1, <1>2 DEF Established, Pending, Group
<1>4. /\ config.jid = Asked("j", "jid") /\ config.password = Asked("P", "password")
      /\ config.server = AskedServer
      /\ config.port \in AskedPorts /\ (Given("p") # {} \/ "port" \notin DOMAIN Settings)
  BY <1>2, <1>3 DEF LookedUp, JidText, Known, KnownServer, PortKnown
<1>5. Complete /\ ~PortInFile
  BY <1>3, <1>4 DEF Complete, PortInFile, Defined
<1>6. UNCHANGED inputVars
  BY <1>1, Main
<1>7. StartsAsAsked'
  <2>1. /\ session'.jid = Asked("j", "jid")' /\ session'.password = Asked("P", "password")'
        /\ session'.server = AskedServer' /\ session'.port \in AskedPorts'
        /\ session'.destinations = AskedRecipients'
        /\ session'.message = LastOf("m", Stdin)'
    BY <1>1, <1>2, <1>4, <1>6, AskedStays DEF OptionsKept
  <2>2. session'.debug = (Given("v") # {})'
    <3>1. session'.debug = get_debug
      BY <1>1
    <3>2. Given("v")' = Given("v")
      BY <1>6, AskedStays
    <3> QED
      BY <1>2, <3>1, <3>2, Zenon DEF OptionsKept
  <2> QED
    BY <2>1, <2>2, Zenon DEF StartsAsAsked
<1>8. TerminatesForCause'
  BY <1>1, <1>5, <1>6, AskedStays DEF TerminatesForCause
<1>9. FailsLoudly' /\ VerboseReportsErrors' /\ Established'
  BY <1>1 DEF FailsLoudly, VerboseReportsErrors, Established
<1>10. ConfigTypeOK'
  BY <1>1, Main DEF ConfigTypeOK
<1>11. todo' \in Seq(Getters)
  BY <1>1
<1> QED
  BY <1>1, <1>7, <1>8, <1>9, <1>10, <1>11, Main DEF ConfigInv

-----------------------------------------------------------------------------
(* The theorems.                                                           *)

LEMMA ConfigStarts == ConfigInit => ConfigInv
<1> SUFFICES ASSUME ConfigInit PROVE ConfigInv
  OBVIOUS
<1>1. /\ Inputs /\ optind = 0 /\ config = [f \in Fields |-> Undefined] /\ recipients = <<>>
      /\ cfg = Empty /\ jidSet = FALSE /\ pc = "parse" /\ todo = <<>> /\ status = Undefined
  BY DEF ConfigInit, Inputs
<1>2. Len(args) \in Nat
  BY <1>1, ConfigAssumption DEF Inputs
<1>3. DOMAIN config = Fields /\ \A f \in Fields : config[f] = Undefined
  BY <1>1
<1>4. FieldsTyped
  BY <1>3 DEF FieldsTyped, Fields
<1>5. ConfigTypeOK
  BY <1>1, <1>2, <1>4 DEF ConfigTypeOK
<1>6. <<>> \in Seq(Destination) /\ <<>> \in Seq(Getters)
  OBVIOUS
<1>7. Reading
  <2>1. TextsRead
    <3>1. \A o \in DOMAIN FieldOf : config[FieldOf[o]] = Undefined
      BY <1>3, FieldsOfOptions
    <3>2. config["conf_file"] = Undefined
      BY <1>3 DEF Fields
    <3> QED
      BY <1>1, <3>1, <3>2, BeforeNone DEF TextsRead, Defined
  <2>2. config["debug"] = Undefined /\ config["port"] = Undefined
    BY <1>3 DEF Fields
  <2>3. DebugRead /\ PortRead
    BY <1>1, <2>2, BeforeNone DEF DebugRead, PortRead
  <2>4. RecipientsRead
    <3>1. NamedSoFar = {}
      BY <1>1 DEF NamedSoFar, Naming, Given
    <3> QED
      BY <1>1, <3>1, FS_EmptySet DEF RecipientsRead
  <2> QED
    BY <1>1, <2>1, <2>3, <2>4 DEF Reading, FieldsRead
<1>8. Established /\ StartsAsAsked /\ TerminatesForCause /\ FailsLoudly /\ VerboseReportsErrors
  BY <1>1 DEF Established, StartsAsAsked, TerminatesForCause, FailsLoudly, VerboseReportsErrors
<1> QED
  BY <1>1, <1>5, <1>6, <1>7, <1>8 DEF ConfigInv

\* Nothing happens: the invariant is about the state alone.
LEMMA ConfigStutters ==
  ASSUME ConfigInv, UNCHANGED configVars
  PROVE  ConfigInv'
<1>1. /\ UNCHANGED inputVars /\ args' = args /\ files' = files /\ optind' = optind
      /\ config' = config /\ recipients' = recipients /\ cfg' = cfg /\ jidSet' = jidSet
      /\ pc' = pc /\ todo' = todo /\ status' = status /\ session' = session /\ MainStep
  BY DEF configVars, inputVars, MainStep, lookedUp
<1>2. ConfigTypeOK'
  BY <1>1, Main DEF ConfigTypeOK
<1>3. todo' \in Seq(Getters)
  BY <1>1 DEF ConfigInv
<1>4. Reading => Reading'
  <2>1. TextsRead /\ PortRead => TextsRead' /\ PortRead'
    BY <1>1 DEF TextsRead, PortRead, Defined
  <2>2. DebugRead => DebugRead'
    BY <1>1, Zenon DEF DebugRead
  <2>3. RecipientsRead => RecipientsRead'
    <3>1. NamedSoFar' = NamedSoFar
      BY <1>1, AskedStays DEF NamedSoFar
    <3> QED
      BY <1>1, <3>1, AskedStays DEF RecipientsRead
  <2> QED
    BY <1>1, <2>1, <2>2, <2>3 DEF Reading, FieldsRead
<1>5. Established'
  <2>1. get_debug' = get_debug
    BY <1>1, Zenon DEF get_debug, GetOrDefault, Defined
  <2>2. /\ \A f : Pending(f)' <=> Pending(f)
        /\ \A f : Defined(f)' <=> Defined(f)
    BY <1>1 DEF Pending, Defined
  <2>3. Established
    BY DEF ConfigInv
  <2>4. CASE get_debug
    BY <1>1, <2>1, <2>2, <2>3, <2>4 DEF Established
  <2>5. CASE ~get_debug
    BY <1>1, <2>1, <2>2, <2>3, <2>5 DEF Established
  <2> QED
    BY <2>4, <2>5
<1>6. StartsAsAsked'
  <2>1. StartsAsAsked
    BY DEF ConfigInv
  <2>2. Given("v")' = Given("v")
    BY <1>1, AskedStays
  <2>3. /\ Asked("j", "jid")' = Asked("j", "jid") /\ Asked("P", "password")' = Asked("P", "password")
        /\ AskedServer' = AskedServer /\ AskedPorts' = AskedPorts /\ AskedRecipients' = AskedRecipients
        /\ LastOf("m", Stdin)' = LastOf("m", Stdin)
    BY <1>1, AskedStays
  <2> QED
    BY <1>1, <2>1, <2>2, <2>3, Zenon DEF StartsAsAsked
<1>7. TerminatesForCause' /\ FailsLoudly' /\ VerboseReportsErrors'
  BY <1>1, AskedStays DEF ConfigInv, TerminatesForCause, FailsLoudly, VerboseReportsErrors
<1>8. pc' = "parse" => \A i \in 1..optind' : args'[i].opt \notin {"h", "unknown"}
  BY <1>1 DEF ConfigInv
<1> QED
  BY <1>1, <1>2, <1>3, <1>4, <1>5, <1>6, <1>7, <1>8, Main DEF ConfigInv

LEMMA ConfigSteps == ConfigInv /\ [ConfigNext]_configVars => ConfigInv'
<1> SUFFICES ASSUME ConfigInv, [ConfigNext]_configVars PROVE ConfigInv'
  OBVIOUS
<1>1. CASE UNCHANGED configVars \/ ConfigEnded
  BY <1>1, ConfigStutters DEF ConfigEnded
<1>2. CASE OptionHelp \/ OptionVerbose \/ OptionValue \/ OptionPort
  BY <1>2, HelpStep, VerboseStep, ValueStep, PortStep
<1>3. CASE OptionRecipient \/ OptionUnknown \/ Word \/ OptionsEnd
  BY <1>3, RecipientStep, UnknownStep, WordStep, OptionsEndStep
<1>4. CASE InitConfig
  BY <1>4, InitConfigStep
<1>5. CASE GetJid \/ GetPassword
  BY <1>5, GetTextStep DEF GetJid, GetPassword
<1>6. CASE GetJID \/ GetServer \/ GetPort
  BY <1>6, GetJIDStep, GetServerStep, GetPortStep
<1>7. CASE DebugPrinted \/ CheckRecipients \/ ReadMessage \/ StartMessenger
  BY <1>7, DebugPrintedStep, CheckRecipientsStep, ReadMessageStep, StartMessengerStep
<1> QED
  BY <1>1, <1>2, <1>3, <1>4, <1>5, <1>6, <1>7 DEF ConfigNext

LEMMA ConfigInvariance == ConfigSpec => []ConfigInv
BY ConfigStarts, ConfigSteps, PTL DEF ConfigSpec

\* The fields of xmpp_config, the recipients and the exit status are typed,
\* and _JID is only set from a JID text that gloox accepts.
THEOREM ConfigTypes == ConfigSpec => []ConfigTypeOK
<1>1. ConfigInv => ConfigTypeOK
  BY DEF ConfigInv
<1> QED
  BY <1>1, ConfigInvariance, PTL

\* main gives the Messenger, for every value, the last one on the command
\* line, else the file's, else the default, and the recipients in the order
\* of the command line: whichever getter looked first, with -v or without.
THEOREM AsAsked == ConfigSpec => []StartsAsAsked
<1>1. ConfigInv => StartsAsAsked
  BY DEF ConfigInv
<1> QED
  BY <1>1, ConfigInvariance, PTL

\* std::terminate ends main only when something that a session needs is
\* missing, or when the file has a port; a session starts only without both.
THEOREM OnlyForCause == ConfigSpec => []TerminatesForCause
<1>1. ConfigInv => TerminatesForCause
  BY DEF ConfigInv
<1> QED
  BY <1>1, ConfigInvariance, PTL

\* main's exit code 0 without a session is the help text.
THEOREM Loudly == ConfigSpec => []FailsLoudly
<1>1. ConfigInv => FailsLoudly
  BY DEF ConfigInv
<1> QED
  BY <1>1, ConfigInvariance, PTL

\* With -v nothing but a port in the file ends main by std::terminate.
THEOREM VerboseReports == ConfigSpec => []VerboseReportsErrors
<1>1. ConfigInv => VerboseReportsErrors
  BY DEF ConfigInv
<1> QED
  BY <1>1, ConfigInvariance, PTL
=============================================================================
