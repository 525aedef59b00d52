----------------------------- MODULE XmppConfig -----------------------------
(***************************************************************************)
(* The program before it connects (src/main.cpp): parse_opt_args reads the *)
(* command line, init_config reads the configuration file, and the getters *)
(* of xmpp_config look a value up when it is first asked for and keep it.  *)
(* With -v every value is asked for once inside main's try block; without  *)
(* it the first getter runs outside of it, when the Messenger is built,    *)
(* and an exception there ends the process by std::terminate.              *)
(*                                                                         *)
(* A configuration file is a function from root names to groups, a group a *)
(* function from setting names to values [type, value].                    *)
(***************************************************************************)
EXTENDS Integers, Sequences, FiniteSetsExt

CONSTANTS
  CommandLines,  \* the command lines considered
  FileSystems,   \* what the configuration files may hold
  MessageFiles,  \* the readable files that -m may name
  Host,          \* the JID texts gloox accepts, each with its server part
  Strtod,        \* for a text after -p: the ints its conversion may give
  Undefined,     \* an optional<> without a value
  Missing,       \* there is no such file
  Malformed      \* the file has a syntax error

DEFAULT_ROOT == "xmpp"
DEFAULT_CONFIG == "~/.config/xmppsend.conf"
Stdin == "stdin"

EXCPT_GENERAL == 1     \* exc::exception built from a text alone

\* `return -1': the caller sees the low eight bits.
FAILED == (-1) % 256

OptionName == {"c", "t", "j", "P", "s", "p", "m", "a", "d"}
Option == [opt : OptionName, arg : STRING] \cup [opt : {"h", "v", "unknown", "word"}]
Group == {"jid", "password", "server", "port"}

\* What libconfig makes of a file: a setting of string type holds a string.
WellTyped(file) ==
  \A r \in DOMAIN file : \A name \in DOMAIN file[r] :
    file[r][name].type = "string" => file[r][name].value \in STRING

\* Command lines are what getopt_long makes of them, every file that may be
\* named has contents, and a setting that libconfig calls a string is one.
ASSUME ConfigAssumption ==
  /\ CommandLines \subseteq Seq(Option)
  /\ \A line \in CommandLines : \A i \in 1..Len(line) :
       /\ line[i].opt = "p" => line[i].arg \in DOMAIN Strtod
       /\ line[i].opt = "c" => \A disk \in FileSystems : line[i].arg \in DOMAIN disk
  /\ \A text \in DOMAIN Strtod : Strtod[text] \subseteq Int
  /\ \A text \in DOMAIN Host : text \in STRING /\ Host[text] \in STRING
  /\ \A disk \in FileSystems :
       /\ DEFAULT_CONFIG \in DOMAIN disk
       /\ \A name \in DOMAIN disk : disk[name] \in {Missing, Malformed} \/ WellTyped(disk[name])
  /\ Undefined \notin STRING /\ Undefined \notin Int /\ Undefined \notin BOOLEAN

VARIABLES
  args,          \* the command line
  files,         \* the configuration files
  optind,        \* how many arguments getopt has consumed
  config,        \* the optional fields of xmpp_config
  recipients,    \* xmpp_config::recipients
  cfg,           \* xmpp_config::cfg
  jidSet,        \* xmpp_config::_JID holds a valid JID
  pc,            \* where main is
  todo,          \* the getters main still calls in this phase
  status,        \* exit status
  session        \* what the Messenger was started with

configVars == <<args, files, optind, config, recipients, cfg, jidSet, pc, todo, status, session>>
inputVars == <<args, files>>
lookedUp == <<cfg, jidSet>>

Fields == {"conf_file", "root", "jid", "password", "server", "port", "message", "debug"}

Empty == [name \in {} |-> {}]

ConfigInit ==
  /\ args \in CommandLines
  /\ files \in FileSystems
  /\ optind = 0
  /\ config = [f \in Fields |-> Undefined]
  /\ recipients = <<>>
  /\ cfg = Empty
  /\ jidSet = FALSE
  /\ pc = "parse"
  /\ todo = <<>>
  /\ status = Undefined
  /\ session = Empty

-----------------------------------------------------------------------------
(* optional<> and weak_optional<>: assigning again replaces the value.     *)
Defined(f) == config[f] # Undefined
GetOrDefault(f, default) == IF Defined(f) THEN config[f] ELSE default
Assign(f, v) == config' = [config EXCEPT ![f] = v]

get_conf_file == GetOrDefault("conf_file", DEFAULT_CONFIG)
get_root == GetOrDefault("root", DEFAULT_ROOT)
get_debug == GetOrDefault("debug", FALSE)

\* main's try block covers the parsing, the file and the values -v prints.
InTry == pc \in {"parse", "init", "debug"}

Exit(code) ==
  /\ pc' = "exited"
  /\ status' = code
  /\ UNCHANGED <<todo, session>>

\* Outside the try block, and out of a noexcept function, std::terminate.
Terminate ==
  /\ pc' = "aborted"
  /\ UNCHANGED <<status, todo, session>>

Throw(code) == IF InTry THEN Exit(code) ELSE Terminate

-----------------------------------------------------------------------------
(***************************************************************************)
(* parse_opt_args.  getopt_long moves the words behind the options, so it  *)
(* delivers every option before main sees a word.                          *)
(***************************************************************************)
NextOption(names) ==
  /\ pc = "parse"
  /\ optind < Len(args)
  /\ args[optind + 1].opt \in names
  /\ optind' = optind + 1
  /\ UNCHANGED <<inputVars, lookedUp>>

KeepParsing == UNCHANGED <<pc, todo, status, session>>

\* Mutant: the help is printed and the parsing goes on.
OptionHelp_GoesOn ==
  /\ NextOption({"h"})
  /\ KeepParsing /\ UNCHANGED <<config, recipients>>

OptionHelp ==
  /\ NextOption({"h"})
  /\ Exit(0)
  /\ UNCHANGED <<config, recipients>>

OptionVerbose ==
  /\ NextOption({"v"})
  /\ Assign("debug", TRUE)
  /\ KeepParsing /\ UNCHANGED recipients

FieldOf == [c |-> "conf_file", t |-> "root", j |-> "jid", P |-> "password",
            s |-> "server", m |-> "message"]

OptionValue ==
  /\ NextOption(DOMAIN FieldOf)
  /\ Assign(FieldOf[args[optind + 1].opt], args[optind + 1].arg)
  /\ KeepParsing /\ UNCHANGED recipients

\* strtod into an int: no number at all is an error, a number out of int's
\* range is undefined and gives whatever the build gives.
OptionPort ==
  /\ NextOption({"p"})
  /\ UNCHANGED recipients
  /\ LET outcomes == Strtod[args[optind + 1].arg]
     IN  \/ outcomes = {} /\ Throw(EXCPT_GENERAL) /\ UNCHANGED config
         \/ \E n \in outcomes : Assign("port", n) /\ KeepParsing

OptionRecipient ==
  /\ NextOption({"a", "d"})
  /\ recipients' = Append(recipients,
       [type |-> IF args[optind + 1].opt = "d" THEN "Normal" ELSE "Groupchat",
        jid  |-> args[optind + 1].arg])
  /\ KeepParsing /\ UNCHANGED config

\* Mutant: an unknown option shows the help text and ends.
OptionUnknown_ShowsHelp ==
  /\ NextOption({"unknown"})
  /\ Exit(0)
  /\ UNCHANGED <<config, recipients>>

\* getopt has already complained; so does the program, and ends.
OptionUnknown ==
  /\ NextOption({"unknown"})
  /\ Throw(EXCPT_GENERAL)
  /\ UNCHANGED <<config, recipients>>

Word ==
  /\ NextOption({"word"})
  /\ KeepParsing /\ UNCHANGED <<config, recipients>>

Words == \E i \in 1..Len(args) : args[i].opt = "word"

\* A word that is left over is an error, not a recipient.
OptionsEnd ==
  /\ pc = "parse" /\ optind = Len(args)
  /\ \/ Words /\ Throw(EXCPT_GENERAL)
     \/ ~Words /\ pc' = "init" /\ UNCHANGED <<todo, status, session>>
  /\ UNCHANGED <<inputVars, optind, config, recipients, lookedUp>>

-----------------------------------------------------------------------------
(***************************************************************************)
(* init_config: a file that cannot be read is passed over in silence, a    *)
(* syntax error is not.                                                    *)
(***************************************************************************)
Continue(phase, getters) ==
  /\ pc' = phase
  /\ todo' = getters
  /\ UNCHANGED <<status, session>>

\* Mutant: -v forgets to print the password's length.
AfterInit_NoPassword ==
  IF get_debug
  THEN Continue("debug", <<"jid", "JID", "server", "port">>)
  ELSE Continue("recipients", <<>>)

\* The values that -v prints are the getters called inside the try block.
AfterInit ==
  IF get_debug
  THEN Continue("debug", <<"jid", "JID", "password", "server", "port">>)
  ELSE Continue("recipients", <<>>)

InitConfig ==
  /\ pc = "init"
  /\ LET file == files[get_conf_file]
     IN  \/ file = Malformed /\ Throw(EXCPT_GENERAL) /\ UNCHANGED cfg
         \/ file = Missing /\ AfterInit /\ UNCHANGED cfg
         \/ file \notin {Missing, Malformed} /\ AfterInit /\ cfg' = file
  /\ UNCHANGED <<inputVars, optind, config, recipients, jidSet>>

-----------------------------------------------------------------------------
(***************************************************************************)
(* The getters.  What libconfig throws for a setting that is missing or of *)
(* the wrong type is a std::exception, hence FAILED.                       *)
(***************************************************************************)
Exists(name) == get_root \in DOMAIN cfg /\ name \in DOMAIN cfg[get_root]

\* libconfig converts to std::string only what is a string.
IsText(name) == Exists(name) /\ cfg[get_root][name].type = "string"
TextOf(name) == cfg[get_root][name].value

Getter(name) ==
  /\ pc \in {"debug", "messenger"}
  /\ todo # <<>> /\ Head(todo) = name
  /\ UNCHANGED <<inputVars, optind, recipients, cfg>>

Return == todo' = Tail(todo) /\ UNCHANGED <<pc, status, session>>

\* The value get_jid returns, or Undefined when it throws.
JidText == IF Defined("jid") THEN config.jid
           ELSE IF IsText("jid") THEN TextOf("jid")
           ELSE Undefined

\* Mutant: the file goes before the command line.
GetText_FileFirst(field) ==
  /\ Getter(field)
  /\ UNCHANGED jidSet
  /\ \/ IsText(field) /\ Assign(field, TextOf(field)) /\ Return
     \/ ~IsText(field) /\ Defined(field) /\ Return /\ UNCHANGED config
     \/ ~IsText(field) /\ ~Defined(field) /\ Throw(FAILED) /\ UNCHANGED config

\* Mutant: a value that cannot be looked up is left empty.
GetText_Lenient(field) ==
  /\ Getter(field)
  /\ UNCHANGED jidSet
  /\ \/ Defined(field) /\ UNCHANGED config
     \/ ~Defined(field) /\ IsText(field) /\ Assign(field, TextOf(field))
     \/ ~Defined(field) /\ ~IsText(field) /\ Assign(field, "")
  /\ Return

\* get_jid and get_password: look the value up unless it is there already.
GetText(field) ==
  /\ Getter(field)
  /\ UNCHANGED jidSet
  /\ \/ Defined(field) /\ Return /\ UNCHANGED config
     \/ ~Defined(field) /\ IsText(field) /\ Assign(field, TextOf(field)) /\ Return
     \/ ~Defined(field) /\ ~IsText(field) /\ Throw(FAILED) /\ UNCHANGED config

GetJid == GetText("jid")
GetPassword == GetText("password")

\* The ways get_JID fails: get_jid throws, or gloox refuses the text.
JIDFails ==
  \/ JidText = Undefined /\ Throw(FAILED) /\ UNCHANGED config
  \/ /\ JidText # Undefined /\ JidText \notin DOMAIN Host
     /\ Throw(EXCPT_GENERAL)
     /\ Assign("jid", JidText)

JIDValid == jidSet \/ JidText \in DOMAIN Host

\* Mutant: _JID is made of the file's text, not of what get_jid returns.
GetJID_FromFile ==
  /\ Getter("JID")
  /\ UNCHANGED config
  /\ LET valid == IsText("jid") /\ TextOf("jid") \in DOMAIN Host
     IN  \/ jidSet /\ Return /\ UNCHANGED jidSet
         \/ ~jidSet /\ valid /\ jidSet' = TRUE /\ Return
         \/ ~jidSet /\ ~valid /\ Throw(EXCPT_GENERAL) /\ UNCHANGED jidSet

GetJID ==
  /\ Getter("JID")
  /\ \/ jidSet /\ Return /\ UNCHANGED <<config, jidSet>>
     \/ ~jidSet /\ JIDValid /\ jidSet' = TRUE /\ Assign("jid", JidText) /\ Return
     \/ ~JIDValid /\ JIDFails /\ UNCHANGED jidSet

GetServer ==
  /\ Getter("server")
  /\ \/ /\ Defined("server") \/ Exists("server")
        /\ UNCHANGED jidSet
        /\ \/ Defined("server") /\ Return /\ UNCHANGED config
           \/ ~Defined("server") /\ IsText("server") /\ Assign("server", TextOf("server")) /\ Return
           \/ ~Defined("server") /\ ~IsText("server") /\ Throw(FAILED) /\ UNCHANGED config
     \/ /\ ~Defined("server") /\ ~Exists("server") /\ JIDValid
        /\ jidSet' = TRUE
        /\ config' = [config EXCEPT !.jid = JidText, !.server = Host[JidText]]
        /\ Return
     \/ /\ ~Defined("server") /\ ~Exists("server") /\ ~JIDValid
        /\ JIDFails
        /\ UNCHANGED jidSet

\* get_port assigns the file's port to `server', as a text.  A number cannot
\* be converted, a text leaves port undefined; get_port is noexcept.
GetPort ==
  /\ Getter("port")
  /\ UNCHANGED jidSet
  /\ \/ Defined("port") /\ Return /\ UNCHANGED config
     \/ ~Defined("port") /\ ~Exists("port") /\ Assign("port", -1) /\ Return
     \/ /\ ~Defined("port") /\ Exists("port")
        /\ IF IsText("port") THEN Assign("server", TextOf("port")) ELSE UNCHANGED config
        /\ Terminate

-----------------------------------------------------------------------------
(* The rest of main.                                                       *)
MainStep == UNCHANGED <<inputVars, optind, config, recipients, lookedUp>>

DebugPrinted ==
  /\ pc = "debug" /\ todo = <<>>
  /\ Continue("recipients", <<>>)
  /\ MainStep

CheckRecipients ==
  /\ pc = "recipients"
  /\ \/ recipients = <<>> /\ Exit(FAILED)
     \/ recipients # <<>> /\ Continue("message", <<>>)
  /\ MainStep

MessageSource == GetOrDefault("message", Stdin)

ReadMessage ==
  /\ pc = "message"
  /\ \/ MessageSource \notin MessageFiles \cup {Stdin} /\ Exit(FAILED)
     \/ /\ MessageSource \in MessageFiles \cup {Stdin}
        /\ Continue("messenger", <<"jid", "password", "server", "port">>)
  /\ MainStep

\* Messenger( ... ), its setters, and start().
StartMessenger ==
  /\ pc = "messenger" /\ todo = <<>>
  /\ pc' = "started"
  /\ session' = [jid |-> config.jid, password |-> config.password,
                 server |-> config.server, port |-> config.port,
                 destinations |-> recipients, message |-> MessageSource,
                 debug |-> get_debug]
  /\ UNCHANGED <<todo, status>>
  /\ MainStep

ConfigEnded == pc \in {"exited", "aborted", "started"} /\ UNCHANGED configVars

ConfigNext ==
  \/ OptionHelp
  \/ OptionVerbose
  \/ OptionValue
  \/ OptionPort
  \/ OptionRecipient
  \/ OptionUnknown
  \/ Word
  \/ OptionsEnd
  \/ InitConfig
  \/ GetJid
  \/ GetPassword
  \/ GetJID
  \/ GetServer
  \/ GetPort
  \/ DebugPrinted
  \/ CheckRecipients
  \/ ReadMessage
  \/ StartMessenger
  \/ ConfigEnded

ConfigSpec == ConfigInit /\ [][ConfigNext]_configVars

-----------------------------------------------------------------------------
(***************************************************************************)
(* What the command line and the files ask for, said without any order of  *)
(* evaluation.                                                             *)
(***************************************************************************)
Given(o) == {i \in 1..Len(args) : args[i].opt = o}
LastOf(o, default) == IF Given(o) = {} THEN default ELSE args[Max(Given(o))].arg

ChosenFile == files[LastOf("c", DEFAULT_CONFIG)]
ChosenRoot == LastOf("t", DEFAULT_ROOT)
Settings ==
  IF ChosenFile \notin {Missing, Malformed} /\ ChosenRoot \in DOMAIN ChosenFile
  THEN ChosenFile[ChosenRoot]
  ELSE Empty

TextSettings == {name \in DOMAIN Settings : Settings[name].type = "string"}
Asked(o, name) ==
  LastOf(o, IF name \in TextSettings THEN Settings[name].value ELSE Undefined)

AskedServer ==
  IF Given("s") = {} /\ "server" \notin DOMAIN Settings
  THEN IF Asked("j", "jid") \in DOMAIN Host THEN Host[Asked("j", "jid")] ELSE Undefined
  ELSE Asked("s", "server")

AskedPorts == IF Given("p") = {} THEN {-1} ELSE Strtod[args[Max(Given("p"))].arg]

\* Recipients keep the order of the command line: the k-th is what the k-th
\* of the options -a and -d names.
Naming == Given("a") \cup Given("d")
Place(i) == Cardinality({j \in Naming : j <= i})
Named(i) == [type |-> IF args[i].opt = "d" THEN "Normal" ELSE "Groupchat", jid |-> args[i].arg]
AskedRecipients ==
  [k \in 1..Cardinality(Naming) |-> Named(CHOOSE i \in Naming : Place(i) = k)]

\* All that a session needs is given or can be read.  A port is not needed.
Complete == Undefined \notin {Asked("j", "jid"), Asked("P", "password"), AskedServer}

\* The file has a port and no -p hides it.
PortInFile == Given("p") = {} /\ "port" \in DOMAIN Settings

-----------------------------------------------------------------------------
(***************************************************************************)
(* Properties.                                                             *)
(***************************************************************************)

FieldsTyped ==
  /\ DOMAIN config = Fields
  /\ config.port = Undefined \/ config.port \in Int
  /\ config.debug \in {Undefined, TRUE}
  /\ \A f \in Fields \ {"port", "debug"} : config[f] = Undefined \/ config[f] \in STRING

\* Every field of xmpp_config is empty or of its type, the exit status is a
\* byte, and _JID, once set, was made of the text that is kept in jid.
ConfigTypeOK ==
  /\ optind \in 0..Len(args)
  /\ FieldsTyped
  /\ \A i \in 1..Len(recipients) : recipients[i].type \in {"Normal", "Groupchat"}
  /\ jidSet => config.jid \in DOMAIN Host
  /\ pc \in {"parse", "init", "debug", "recipients", "message", "messenger",
             "started", "exited", "aborted"}
  /\ status = Undefined \/ status \in 0..255

\* The Messenger gets, for every value, the last one on the command line,
\* else the file's, else the default: whatever order options, file and
\* getters were gone through in, and whether -v looked at them first.
StartsAsAsked ==
  pc = "started" =>
    /\ session.jid = Asked("j", "jid")
    /\ session.password = Asked("P", "password")
    /\ session.server = AskedServer
    /\ session.port \in AskedPorts
    /\ session.destinations = AskedRecipients
    /\ session.message = LastOf("m", Stdin)
    /\ session.debug = (Given("v") # {})

\* An uncaught exception ends the process for one of two reasons only, and a
\* session starts only without both: something it needs is neither given nor
\* readable, or the file has a port.  The second is no reason a reader of
\* README.md:27 expects, where the port is optional: get_port cannot read it
\* (main.cpp:127, DocumentedFileStarts).
TerminatesForCause ==
  /\ pc = "started" => Complete /\ ~PortInFile
  /\ pc = "aborted" => ~Complete \/ PortInFile

\* Exit code 0 without a session is the help text: no error of the command
\* line, the file or the recipients ends in success.
FailsLoudly ==
  pc = "exited" /\ status = 0 =>
    /\ optind \in Given("h")
    /\ \A i \in 1..optind : args[i].opt # "unknown"

\* With -v every error of the configuration is reported and ends with an
\* exit code, because main prints inside its try block each value it later
\* uses outside.  The one exception is a port in the file, which get_port
\* cannot survive.
VerboseReportsErrors ==
  pc = "aborted" /\ Given("v") # {} => PortInFile

\* README.md:22-30 shows a configuration with a port, which it calls an
\* optional parameter: a file that has all of it, each of the type shown,
\* does not end the program.
DocumentedFileStarts ==
  DOMAIN Settings = Group /\ Settings["port"].type = "int"
    /\ Group \ {"port"} \subseteq TextSettings => pc # "aborted"

\* README.md:10 and print_help say that without -c the program reads
\* ~/.config/xmppsend.cfg.
DocumentedDefaultFile ==
  Given("c") = {} /\ pc = "started" => files["~/.config/xmppsend.cfg"] = cfg

\* print_help announces `<recipient_N>' as the JID of a destination: a word
\* beside the options names one and is no error.
DocumentedRecipientWord ==
  Words /\ pc = "exited" => status = 0
=============================================================================
