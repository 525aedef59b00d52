# Verification of xmppsend

xmppsend sends one text to chat rooms and contacts over XMPP and tells its
caller, by the exit code, how it went. This directory holds TLA+ modules that
model it, TLC configurations that check them on small instances, and proofs
checked by TLAPS.

The question behind all of it: *when the program ends, has everybody on the
command line got the text, or does the caller know of it?*

## The system

| Part | Source | State | Operations |
|---|---|---|---|
| `main`, `xmpp_config` | `main.cpp` | optional fields, parsed file, cached `_JID` | `parse_opt_args`, `init_config`, lazy getters, the start of the Messenger |
| `Messenger` | `messenger.cpp/.h` | `destinations`, `message`, `result`, `muc_senders` under `map_guard`, the gloox `Client` | `start`, `onConnect`, `sendTo`, `sendToRoom`, `onTLSConnect`, `onDisconnect`, `handleMessage`, `remove_muc_sender` |
| `MUCSender` | `mucsender.cpp/.h` | `nick`, its `MUCRoom` | `start`, eight `MUCRoomHandler` callbacks |
| `optional`, `weak_optional` | `optional.h` | `_value` and `_defined` | construction, assignment, `set`, `reset`, `get`, `*`, `->`, conversion, `get_or_default` |
| formatting | `format.cpp/.h` | stream flags, directive parser | `strformat`, `streamformat`, `strscanf` |
| getopt fallback, build files | `getopt/`, `cmake/` | | not linked with the program |
| gloox, libconfig | external | connection, sessions, rooms | |

How they interact. `main` fills `xmpp_config`, builds one `Messenger`, and
returns what `Messenger::start` returns. `start` calls `client->connect(true)`,
which runs *every* callback on the calling thread, one after the other, until
the stream is closed. `onConnect` sends each contact its text at once and
creates one `MUCSender` per room. A sender joins; when its own presence comes
back it posts the text and sends itself a private 'stop' message, whose body is
the session's resource. When 'stop' returns (to the room's handler or to
`Messenger::handleMessage`), or an error does, it calls
`Messenger::remove_muc_sender`, which erases the sender and, if it was the
last, disconnects. `onDisconnect` is called from inside the send or the
`disconnect()` that met the failure.

What is hard: the network and the rooms move between any two statements of the
one thread; a send on a dead connection succeeds or fails at gloox's whim;
`map_guard` is held across code that calls back; the 'stop' message is
recognised by its text alone; nothing has a timeout; values looked up lazily
are looked up inside a `try` with `-v` and outside without.

## Modules

    Delivery          what is promised to the caller (abstract)
        ^ implemented by
    MucService  <-  ClientStream  <-  MUCSender  <-  Messenger  <-  MCMessenger
    (external)      onDisconnect                         ^           (instances)
                                                   MessengerProofs  <-  RoomProofs
    XmppConfig  <-  MCXmppConfig, ConfigProofs
        ^
    XmppSend (INSTANCE Messenger, INSTANCE Delivery)  <-  MCXmppSend
        ^
    SendProofs (with ConfigProofs, INSTANCE MessengerProofs)
    Lifetime     <-  MCLifetime, LifetimeProofs
    Optional     <-  MCOptional, OptionalProofs
    FormatPrint  <-  MCFormatPrint, PrintProofs
    FormatScan   <-  MCFormatScan, ScanProofs

* **MucService**: server, rooms and contacts, and the two FIFO directions of the
  connection (`up`, `down`). A room may admit, rename, refuse or ignore us,
  reject or accept what we send, repeat our presence, kick us; others may write;
  the connection may break at any moment (`Break`), losing what is under way
  to the server and any suffix of what is under way to us. `accepted` counts
  how often a room took the text. All of it is external, written from what
  `mucsender.cpp` sends and waits for.
* **ClientStream**: `conn` and `result`, with `OnDisconnect` and `OnTLSConnect`
  from `messenger.cpp` and the gloox operations `Write`, `Disconnect`,
  `Establish`, `Lose`. `onDisconnect` is part of the operation that triggers it,
  because gloox nests it.
* **MUCSender**: `muc_senders` maps a bare JID to the nick of its sender;
  `joined` is the set of rooms whose `MUCRoom` is registered. One operator per
  callback (`HandleOwnPresence`, `HandleMUCError`, `HandleStopMessage`, ...).
  `written` is a history variable: how often the text was handed to an open
  stream for a JID. `reported` are the rooms named on stderr.
* **Messenger**: the thread's control point `pc`, `destinations`, `cursor` (the
  loop variable of `onConnect`), `map_guard`. `onConnect` is one step per
  destination, `remove_muc_sender` three (lock, erase, last check), so that the
  connection and the rooms interleave with each. The two sends of a sender
  that is let in (`mucsender.cpp:97`, `:102`) are one step, `HandleOwnPresence`: a
  connection that breaks between them takes both from `up`, as `Break` does behind
  the step, unless the room has taken the text first. `Next` is a client step, a
  service step, or rest after the end.
* **Delivery**: JIDs are owed the text; one by one they are settled (sent to, or
  complained about); "success" only when all are. `Messenger` maps to it by
  `Owed`, `Settled`, `Outcome`.
* **XmppConfig**: `main` up to `messenger.start()`. One action per option, one
  per getter; `config` holds the `weak_optional` fields as a value or
  `Undefined`; `Throw` ends in an exit code inside the try block and in
  `std::terminate` outside. The section "What the command line and the files
  ask for" is a reference definition with no order of evaluation, which the
  properties compare with.

* **FormatPrint**: the loop of `_ostrformat`, one action per stretch of a
  directive (`Flag`, `Width`, `Precision`, `Length`, `Convert`, ...). `fPtr` and
  `uPtr` are the two iterators as positions, `stream` the ostream's settings,
  `pulled` the types `va_arg` was asked for, `printed` each field with the
  settings it was printed under; the digits of a value are left out. `Render`
  and `FieldOf` are the reference: how a directive is written and what it means.

* **XmppSend**: the whole program. `XmppConfig` is extended, `Messenger`
  instantiated on variables of its own (its `pc` is called `thread`), and
  `Delivery` once more, now with the command line as what is owed and the exit
  status as the outcome. Three steps join them: `BuildMessenger` hands the
  recipients over as JIDs, the client and the service run while `main` is in
  `start()`, and `ReturnFromMain` turns the result into an exit status.
* **Lifetime**: the same functions of `Messenger` and `MUCSender` seen from
  below, as sequences of uses, constructions and destructions of C++ objects.
  `todo` is the rest of the call stack; a send may break the stream and puts
  `onDisconnect` on top, the last release of a sender puts its destructor
  there. `holders` are the `shared_ptr`s of each sender, `MembersToMap`
  and `MembersBehindMap` are the members of `Messenger` in the order of their
  declaration; with the map, `~Messenger` ends the senders still in it, in any
  order. What the messages say, and
  when a room answers, is left to `Messenger`: here any callback may come at any
  time.
* **Optional**: objects of the two container types, each with `_value`, a flag,
  and junk in `_value` before anything is stored. An operation is called through
  a type, because a `weak_optional` seen as an `optional` is one. The members that
  are not `const` give out a reference to `_value`; `held` are the containers such
  a reference may still lead into, and `WriteThrough` (`*o = v`, `o.get() = v`) goes
  past the flag and past every rule about assigning twice. `stored` is a history
  variable.
* **FormatScan**: the loop of `_istrscanf`. The istream is the position in the
  text, `eofbit`, `failbit` and the settings; its extraction operators (external)
  are modelled by their rules for blanks, bases and ranges. `targets` are the
  variables `va_arg` was asked for and what was stored into them. `Call` and
  `Means` are the reference: how a call is put together and what its text denotes.

Operators named `X_Something` just above `X` with the comment "Mutant" are
wrong versions of `X`; the properties are known to notice them.

## Properties

| Property | Says | Would be broken by |
|---|---|---|
| `TypeOK` | types; `result` is never the user's own disconnect | storing every disconnect reason |
| `ConfigTypeOK` | types of the fields; the exit status is a byte; `_JID`, once set, was made of the text kept in `jid` | making `_JID` of the file's text while `-j` names another |
| `NoSelfDeadlock` | no lock operation is reached while the thread holds `map_guard` | a destructor that asks for its own removal |
| `ClosesOnlyWhenDone` | a working stream is closed only after all destinations, with no sender left, as a success | disconnecting after the first sender |
| `ExitCodeHonest` | exit code 0 after a session: each destination was handed to the open stream or named in an error | losing the failure, a removal without a word |
| `ConfirmedBeforeClose` | at a successful close every room not complained about has taken the text | 'stop' in front of the text |
| `OncePerPresence` | a room gets the text once, however often it is named, and at most once more for each unsolicited event there has been | starting a sender that was not inserted |
| `KeepsPromise` | Messenger implements Delivery | disconnecting without a look at the senders |
| `StartsAsAsked` | each value is the last on the command line, else the file's, else the default | file before command line |
| `TerminatesForCause` | `std::terminate` only if something needed is neither given nor readable, or (the exception that `README.md:27` does not announce) the file has a port; a session only without both | an empty value for a setting that is missing |
| `FailsLoudly` | exit code 0 without a session is `-h` | an error that shows the help |
| `ReadsBack` | a format put together from directives and text is taken apart into the same, each field under its own settings, with the arguments a caller passes | settings that stay from the directive before |
| `PrintTypeOK` | whatever the format, the iterators stay inside it | stepping over the terminator |
| `Finishes` | every format is worked through | reading an unfinished directive again |
| `WaitsOnlyForTheSilent` | the process ends, or waits for ever for a connection that died unnoticed or a room that neither refused us nor let us in as asked | an error that leaves its sender in place |
| `OnlyTheLiving` | no object is used or ended after its end | a log line behind the erasure of the sender it names |
| `NothingLeaks` | every sender has an owner; at the end no object is left | a sender that outlives its last owner |
| `StatusHonest` | exit status 0: help, no session, or all that `-a` and `-d` name are settled | an ignored return value |
| `OnlyTheAsked` | nobody else is written to, and nobody at all if the command line or the file is wrong | parsing that goes on after `-h` |
| `KeepsPromiseToCaller` | the whole program implements Delivery towards its command line | recipients lost on the way |
| `SendEnds` | the whole program ends, or waits in `recv` for ever for a connection that died unnoticed or a room that neither refused us nor let us in | an error that leaves its sender in place |
| `ReadsWhatWasStored` | what a container gives out is what it was last given | an access that skips the flag |
| `WriteOnce` | a value in an `optional` is replaced only by `reset` or through a reference the container gave out | an assignment from an object that replaces |
| `ScanReadsBack` | a scan of a call put together from directives and texts stores what the texts denote, in the right type, and counts up to the first that does not fit | types that stay from the directive before |
| `ScanTypeOK` | the iterator stays in the format, the count follows what was stored | stepping over the terminator |
| `ScanFinishes` | every format is worked through | reading an unfinished directive again |
| `FailureIsFinal` | nothing is counted or stored once the text has failed | counting failures |
| `VerboseReportsErrors` | with `-v` every configuration error is reported, but for a port in the file | a getter `-v` does not try |

## Runs

| Run | Instance | Shows |
|---|---|---|
| `messenger_safety` | 6 destination lists (one contact, one room, two rooms, both, a room named twice under two nicknames or under one), 2 nicknames, 2 failures, all four replies, 1 unsolicited event of {repeated presence, kick, contact's text}; `recv` need not notice a dead connection | all properties of `Messenger`, 138,000 states |
| `lifetime` | up to three destinations naming one room or two, with and without `-v` | `OnlyTheLiving`, `NothingLeaks` |
| `send` | 13 command lines (contacts, rooms, a room twice, a contact given as a room and a room as a contact, help, errors behind recipients) with 3 files; rooms admit, refuse or ignore us, an event may be an impostor's 'stop' text; `recv` need not notice a dead connection | the end-to-end properties, 151,000 states |
| `containers` | two containers of each type, two values, references held across everything | the properties of `Optional`, 85,000 states |
| `config` | every sequence of at most three of 17 options, alone, and every three behind a recipient; 22 file systems (full, one setting missing or mistyped, malformed, absent) | the configuration properties, 1.6 million states |
| `config_readme_file`, `config_default_file`, `config_recipient_word` | what the documents say | three disagreements, below |
| `format_print` | 12,870 calls: two pieces, of which one may have flags, width and precision (digits or `*`, negative too), the other any length modifier, no floating-point directive after one with `ll` or `L`; and all 111,111 strings of up to 5 of the characters `% - 1 * . l h d a NUL`, with no argument passed: a `*` reads -1, 0 or 3 | `ReadsBack`, `PrintTypeOK`, `Finishes`, 1 million states |
| `format_long_then_float` | each length modifier, then `%f` | a code bug, below |
| `format_scan` | pairs of directives, all conversions and lengths, with numbers inside, at and out of each type's range, no `%d` or `%u` behind a `%x` or `%o`; and all strings of up to 5 of the characters `% l h L d x c a blank NUL` with 6 texts | `ScanTypeOK`, `ScanReadsBack`, `ScanFinishes`, `FailureIsFinal`, 2.8 million states |
| `scan_hex_then_decimal` | `%x%d` | a code bug, below |

Bounds. `MaxUnsolicited` = 1 unsolicited event: each handler reacts to one
stanza and keeps no count, so two such events act through states that one
already reaches together with the regular traffic; with 2 the same run passes
as well, on 2.4 million states, in a little over five minutes. Two rooms are enough for
"last" and "not last", which is all `muc_senders.empty()` tells apart; three
destinations for a prefix, a duplicate and a rest. Two nicknames: ours and not
ours. No queue is bounded: a sender puts at most two stanzas on the stream per
presence it sees. Two pieces of a format are enough: a directive sees of its
predecessors only the stream, `int_type` and `float_type`, which one directive
can set in every way. Five characters let every phase of a directive be the one
the format breaks off in. Digits are 0, 1 and 2 only: the others behave alike.
`FormatScan` has integers of 9, 7, 5 and 3 bits for the 64, 32, 16 and 8 of the code: what it depends on
is their order and that there are numbers between them. `Lifetime` has two
rooms and three destinations for the same reason as `Messenger`; its callbacks
may come any number of times. Two containers of a type are enough for an
assignment, and one of them to be looked at through the other type.

Fairness. Weak fairness of the client's steps: it is one thread that the
operating system runs. Weak fairness of the server's answers, as a server
answers what it is sent. None for misbehaviour, for `Break`, or for a room to
let us in. `messenger_safety` (`DeafSpec`) and `send` (`FairSendSpec`) exclude
`StreamLost` from the client's steps, because the code has no keep-alive that
would make `recv` notice a dead connection: the process may then wait for ever
for such a connection, or for a room that gave no answer, and
`WaitsOnlyForTheSilent` and `SendEnds` say that it waits for nothing else. `send`
has weak fairness of `main`'s own steps too. The
printing loop of `format_print` runs on; that of `format_scan` is shown to end
without any fairness, by a distance that every step shortens.

Where a property needs a restriction. A stranger's text that equals the
resource ends the wait; in a room that renamed us, or from a contact whose JID
was given as a room, nothing has been sent then and the exit code is 0. So
`messenger_safety` has no impostor, and `send` has one but no renaming and no
writing contact. The combinations are listed as hazards.

## What the documents say and the code does not

* `README.md:27` shows `port = 5222` as an optional setting. `get_port`
  (`main.cpp:127`) assigns it to `server`, in a `noexcept` function: any port in
  the file ends the process (`DocumentedFileStarts`).
* `README.md:10` and `main.cpp:251` name `~/.config/xmppsend.cfg` as the default
  file; the code reads `~/.config/xmppsend.conf` (`DocumentedDefaultFile`).
* `main.cpp:247` announces `<recipient_N>` as a destination; such a word is
  rejected (`DocumentedRecipientWord`).
* `format.cpp:137-139` heads the start of a directive with "Default variable
  settings", but `float_type` keeps what an earlier `ll` or `L` made of it:
  in `%lld%f` the plain `%f` reads a `long double` (`DirectivesIndependent`). No
  format string of the program does this.
* `format.cpp:484-486` heads a directive of a scan in the same way, with the
  `copyfmt` behind it commented out: in `%x%d` the `%d` reads hexadecimal digits
  (`ScanDirectivesIndependent`). The program calls `strscanf` nowhere.

## Proofs

Every theorem is about all values of the constants; the runs show the same
properties on small instances. `MessengerProofs` proves, for any rooms, nicknames, destination lists, replies
and failures:

* `TypeCorrect`: `Spec => []TypeOK`;
* `Invariance`: `Spec => []IInv`;
* `SelfDeadlockFree`: `Spec => []NoSelfDeadlock`;
* `ClosedWhenDone`: `Spec => ClosesOnlyWhenDone`.

They rest on the assumptions on the constants (`ServiceAssumption`,
`StreamAssumption`, `SenderAssumption`, `DestinationAssumption`), which say that
the kinds of names are disjoint and that destinations are destinations.

`ClosesOnlyWhenDone` is not inductive: that `remove_muc_sender` disconnects only
after `onConnect` is through depends on where the thread can be. `Discipline`
adds three facts: `map_guard` is held exactly in the second half of
`remove_muc_sender`; no callback is dispatched before `cursor` has passed the
last destination; the stream is not open before `connect` or after `start`
returns, and no failure is stored while it is not closed. `NoSelfDeadlock`
follows from the first; `ClosesOnlyWhenDone` from the other two, by going
through the actions: a send closes the stream only when the connection is
broken, and the two calls of `disconnect()` stand behind `empty()`.

`MessengerProofs` then proves more, under an assumption of its own,
`HarmlessImpostors`: other occupants may write our resource only where no room
renames us, and contacts write only if no contact was given as a chat room. It is
what the 'stop' message, recognised by its text alone, cannot do without.

* `PromiseInvariance`: `Spec => []PInv`;
* `HonestExit`: `Spec => []ExitCodeHonest`;
* `PromiseKept`: `Spec => KeepsPromise`, the refinement of `Delivery`.

The argument. `Kept` collects what no step takes back: an account (`written`,
`reported`) and a failure. `Traffic` follows a message round the loop: a text
or 'stop' is put on the stream only together with its account (`EarnedUp`), the
service answers only what it has got (`EarnedDown`), so `remove_muc_sender` is
called only for a room that has been written to or reported (`RemovalEarned`).
`Account` then says that every destination `onConnect` has passed is settled, has
a sender that still waits, or is covered by a failure; that a success on a
closed stream has no sender left; and that without a session nothing was done.
Neither part is inductive alone: the account of a room that loses its sender
comes from the traffic that led to the removal. An impostor's text is nobody's
answer, and `EarnedDown` makes an exception of it; there the order of `down`
takes over (`Heard`). A room that does not rename us knows us under the JID of our
sender as long as it has one (`UnderOurName`), and shows us what its occupants
write only when we are in: until the text has been posted, its messages come
behind our own presence (`PresenceFirst`), which finds the sender joined
(`SendersJoined`) and makes it post the text, or meet the failure of the stream
(`PresenceCovers`). For the refinement, a send or
a room's callback settles at most one JID, which is owed because its sender is
filed under a destination; `Destroy` ends the promise; all else is a stutter.

`RoomProofs` proves what the program and a chat room owe each other:

* `Confirmation`: `Spec => []ConfirmedBeforeClose`;
* `PostedOnce`: `Spec => []OncePerPresence`.

`Confirmation` assumes `NoRoomImpostors`: no other occupant writes our resource,
and if the text itself is the resource, `-d` names no room. The argument is the
order of two queues. A sender writes the text in front of its 'stop', so in `up`
every 'stop' of a room that has not taken the text has the text in front of it
(`Preceded`); a room that takes or rejects the text does it before it sees the
'stop', so whatever in `down` could end the wait for a room follows its
acceptance or an error that will report it. `RemovalConfirmed` carries that into
`remove_muc_sender`, `RoomsHandled` over the destinations of `onConnect`.
`PostedOnce` has no hypothesis at all. It counts, for a room, the acceptances,
the texts and joins under way to it, the presences under way to us, and the
sender that may still be made (`Due`); no step raises the sum but an event of
the room's own accord, which costs one of `spare`.

`ConfigProofs` proves, for every command line, file system and set of JIDs:
`ConfigTypes`, `AsAsked`, `OnlyForCause`, `Loudly` and `VerboseReports`, which
state `ConfigTypeOK`, `StartsAsAsked`, `TerminatesForCause`, `FailsLoudly`
and `VerboseReportsErrors`. `ConfigInv` follows `main`: while options are read, a
field is the last argument among the options read so far (`FieldsRead`) and the
recipients are the first of those named (`RecipientsRead`, by counting); from
the file on, what each getter *would* return is what the properties ask for
(`LookedUp`), which the getters do not change by storing it; and a getter no
longer on the list has left its field defined (`Established`). `GetPort` is a
case of its own: it terminates exactly where the file has a port (`PortInFile`),
though nothing is missing there. `ConfigAssumption` says what getopt and libconfig guarantee: an option
that needs an argument has one, a file that may be named has contents, and a
setting of string type holds a string.

`SendProofs` proves the three safety properties of the whole program:

* `HonestStatus`: `SendSpec => []StatusHonest`;
* `NobodyElse`: `SendSpec => []OnlyTheAsked`;
* `PromiseToCaller`: `SendSpec => KeepsPromiseToCaller`, the refinement of `Delivery`.

They assume `HarmlessStops`, the whole-program form of `HarmlessImpostors`: other
occupants write our resource only where no room renames us, and contacts write
only if `-a` names rooms. The run `send`, with its impostor and without renaming,
is an instance of it.

The invariant has three phases: `Preparing` (`ConfigInv`, and the Messenger's
variables in their initial state), `Running` and `Returned` (`PInv`, what is owed
is what the command line names, what is settled is owed). `MessengerProofs` is
instantiated there, for every list of recipients a Messenger can be given, and its lemmas are used as they stand; `SameServer`, `SameOutside` and
`SameClient` show that its actions are those that `XmppSend` takes.
`MessengerAssumption` states for the whole program what `Messenger` assumes of
its constants.

`OptionalProofs` proves, for any containers and values:

* `ReadsSound`: `OptionalSpec => []ReadsWhatWasStored`;
* `NeverReplaced`: `OptionalSpec => WriteOnce`.

The invariant is `Sound`: a container that counts as defined holds the value it
was last given. Every operation then ends in one of four ways (`FailKeeps`,
`StoreKeeps`, `GiveKeeps`, `WriteThroughKeeps`); a store into a strong container
happens only if it is undefined or reset, and a write through a reference
reaches only a container that somebody was given a reference to. The one assumption is that junk and absence are
not values.

`PrintProofs` and `ScanProofs` prove, for every format, argument list and text:

* `PrintTypes`, `ScanTypes`: the iterators stay inside the format (`PrintTypeOK`,
  `ScanTypeOK`), which for the scan includes that the count follows what was
  stored;
* `FailedForGood`: `ScanSpec => FailureIsFinal`;
* `PrintWorksThrough`, `ScanWorksThrough`: every step of the loop comes closer to
  the end, and `PrintBounded`, `ScanBounded`: the distance is a number, bounded by
  the length of the format. Together they say that both loops end after so many
  steps at most, whatever they are given. `ScanWorksThrough` states `ScanFinishes`;
  for the printing loop this is the safety half of `Finishes`, without fairness.

The invariants are `PrintInv` and `ScanInv`. What they add to the types is that
inside a directive its `%` has been passed, so a loop that looks at the terminator
does not step over it; and, for the scan, the types of everything an extraction
can store, since a count is only kept by knowing what counts as stored. The
assumptions are `PrintAssumption` and `ScanAssumption`: formats and texts are
sequences of characters, integer arguments are integers, and the caller's stream
has settings of the right kind. The value of a run of digits is a recursive
function (`NumberAt`, `NumberOf`, `Pow2`); that it exists and is a number is proved
by looking at the least place where it would not be (`Least`).

`LifetimeProofs` proves, for any rooms, any list of destinations and either value
of `debug`:

* `LifeInvariance`: `LifeSpec => []LifeInv`;
* `OnlyLiving`: `LifeSpec => []OnlyTheLiving`;
* `NoLeaks`: `LifeSpec => []NothingLeaks`.

Neither property is inductive: whether the next thing finds its object depends on
everything that was begun before it. So the invariant is about the whole stack.
`Needs` says which objects an item cannot do without, `MayEnd` which it, or what
it puts on the stack, may end (an erasure may end every sender of its room).
`Runs(todo, alive, rooms)` says that whatever is still to be done needs only what
exists or is made ahead of it, and that nothing before it may end what it needs
(`Feasible`). Taking the first item off keeps this (`Pop`), and so does putting a
function in front if none of its items may end what the rest needs (`Concat`);
each function is shown to be of that kind, piece by piece (`RemoveRuns`,
`StartRuns`, `DestroySenderRuns`, `DestroyRuns`, ...). The other parts are the
ownership: a filed sender exists under its own room (`Filed`), a hold on a sender
is the map's or is given up by something ahead, once (`Held`), a part of a sender
has an owner or its end ahead (`Owned`), and the members live until
`~Messenger`, which has the end of each and the erasure of every sender ahead
(`Members`). `LifetimeAssumption` says that the destinations are lists of rooms
and that `debug` is a Boolean.

Only model-checked:

* `WaitsOnlyForTheSilent`, `SendEnds` and `Finishes`: liveness and `ENABLED` are out
  of the prover's reach;
* `ReadsBack` and `ScanReadsBack`: they compare a loop with a recursive reference
  on whole formats, an induction over data that the provers cannot be given.

## Not modelled

The wording of logs and errors (`handleLog`, `get_log_*`, `get_stream_error`,
`print_*`; `main.cpp:98` names `optarg` where it means the JID); the text of a
formatted value, whether a blank stands in front of it (which depends on its
sign) and overflow in a width or precision (`format.cpp:184`); a `0x` prefix, the
fraction and the exponent of a scanned number; destination texts that are no
JID, which gloox turns into a JID without parts (`messenger.cpp:103`);
`t_unique_ptr`, which only forwards to `std::unique_ptr`, and `operator&` of
`optional`, which does not compile when it is used.

The getopt fallback in `getopt/` is vendored, is not linked with the executable
(`CMakeLists.txt` builds it as a library nobody names) and takes the size of the
option table where `main.cpp:287` passes the address of an int.

`Lifetime` assumes that gloox's own frames, to which a callback returns, touch
nothing of a `MUCRoom` that the callback has destroyed; it cannot see inside
the library.

## Plan

1. *(done)* MucService, ClientStream, MUCSender, Messenger, Delivery, their runs;
   XmppConfig, FormatPrint and their runs; types, lock, close discipline, exit
   code and the refinement of Delivery proved.
2. *(done)* FormatScan, Optional, XmppSend, Lifetime and their runs; what the
   program may wait for without an answer; Optional proved.
3. *(done)* Proofs of `ConfirmedBeforeClose`, `OncePerPresence`, the invariants of
   `XmppConfig` and `XmppSend`, the refinement of Delivery by the whole program, and
   the safety of both formatting loops.
4. *(done)* Proofs of `OnlyTheLiving` and `NothingLeaks`, by an invariant over the
   call stack; the end-to-end theorems with an impostor in rooms that do not
   rename us, from the order of the queue to us.
