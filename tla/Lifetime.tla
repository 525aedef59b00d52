------------------------------ MODULE Lifetime ------------------------------
(***************************************************************************)
(* Which C++ objects exist while a Messenger lives.  A sender is held by   *)
(* muc_senders alone once onConnect is through, and is erased from there   *)
(* by a call out of its own callback; ~Messenger takes its members apart   *)
(* one by one while senders are still among them.  What a function does is *)
(* the sequence of objects it uses, makes and ends; `todo' is what is left *)
(* of the functions on the call stack.                                     *)
(***************************************************************************)
EXTENDS Naturals, Sequences, SequencesExt

CONSTANTS
  Rooms,            \* bare JIDs of rooms
  RoomLists,        \* the chat rooms among the destinations, a room maybe twice
  Debugging         \* the values of -v considered

ASSUME LifetimeAssumption ==
  /\ \A list \in RoomLists : list \in Seq(Rooms)
  /\ Debugging \subseteq BOOLEAN

VARIABLES
  alive,            \* the objects that exist
  holders,          \* holders[i]: who shares ownership of the sender of rooms[i]
  muc_senders,      \* muc_senders[r]: which sender is filed under r, or 0
  todo,             \* what the functions on the stack still do
  phase,            \* "sending", "receiving", "leaving", "gone"
  rooms,            \* the rooms of the destinations
  cursor,           \* how far onConnect has got with them
  debug,            \* Messenger::debug
  open              \* the stream is open

lifeVars == <<alive, holders, muc_senders, todo, phase, rooms, cursor, debug, open>>

\* The members of Messenger that have something to destroy or are used by
\* somebody else's function, in the order of their declaration: those up to
\* muc_senders and those behind it.  "text" is Messenger::message; "message"
\* is the one that gloox hands to a handler.
MembersToMap == <<"client", "jid", "destinations", "text", "debug", "result", "muc_senders">>
MembersBehindMap == <<"map_guard">>
MemberNames == Range(MembersToMap) \cup Range(MembersBehindMap)

Member(name) == [part |-> name, of |-> 0]   \* of the Messenger, or lent to it
Part(name, i) == [part |-> name, of |-> i]   \* "sender", "nick" or "room" of sender i
Session == Member("session")                 \* a MessageSession in use

Use(o) == [do |-> "use", obj |-> o]
Make(o) == [do |-> "make", obj |-> o]
End(o) == [do |-> "end", obj |-> o]
Release(i, holder) == [do |-> "release", obj |-> Part("sender", i), holder |-> holder]
Emplace(i) == [do |-> "emplace", obj |-> Part("sender", i)]
Erase(r) == [do |-> "erase", obj |-> Member("muc_senders"), room |-> r]
\* A send or a disconnect; either may find the stream broken.
Send == [do |-> "send", obj |-> Member("client")]

Log(steps) == IF debug THEN steps ELSE <<>>
UseMember(name) == <<Use(Member(name))>>

-----------------------------------------------------------------------------
(***************************************************************************)
(* The functions.                                                          *)
(***************************************************************************)
OnDisconnect == UseMember("debug") \o UseMember("result") \o UseMember("client")

\* parent is a member of the sender.
IsDebug(i) == <<Use(Part("sender", i))>> \o UseMember("debug")
GetClient(i) == <<Use(Part("sender", i))>> \o UseMember("client")
GetMessage(i) == <<Use(Part("sender", i))>> \o UseMember("text")

NewSender(i) ==
  UseMember("jid") \o
  <<Make(Part("sender", i)), Make(Part("nick", i))>> \o IsDebug(i) \o GetClient(i)
    \o <<Use(Part("nick", i))>>

StartSender(i) ==
  IsDebug(i) \o GetClient(i)
    \o <<Use(Part("nick", i)), Make(Part("room", i)), Use(Part("room", i)), Send>>

\* ~MUCSender, then its members from the last declared to the first; the
\* MUCRoom, if start() has made one, leaves the room.
DestroySender(i) ==
  IsDebug(i)
    \o (IF Part("room", i) \in alive THEN <<Use(Part("room", i)), Send, End(Part("room", i))>> ELSE <<>>)
    \o <<End(Part("nick", i)), End(Part("sender", i))>>

\* Mutant: the log names the room once more when it is gone.
RemoveMucSender_LogsAfter(r, argument) ==
  <<Use(argument)>> \o UseMember("map_guard") \o UseMember("muc_senders")
    \o <<Erase(r)>>
    \o UseMember("muc_senders") \o <<Send>> \o UseMember("map_guard") \o Log(<<Use(argument)>>)

\* The argument is a reference: to the nick of the sender that is erased, or
\* to a part of the message that gloox holds.  It is parsed first.
RemoveMucSender(r, argument) ==
  <<Use(argument)>> \o UseMember("map_guard") \o UseMember("muc_senders")
    \o <<Erase(r)>>
    \o UseMember("muc_senders") \o <<Send>> \o UseMember("map_guard")

\* A session is made, sent through, and disposed of by the client.
ThroughSession == <<Make(Session), Use(Session), Send, End(Session)>>

HandleMUCError(i) ==
  IsDebug(i) \o <<Use(Part("nick", i))>> \o RemoveMucSender(rooms[i], Part("nick", i))

HandleMUCMessage(i, stop) ==
  IsDebug(i) \o GetClient(i)
    \o (IF stop THEN RemoveMucSender(rooms[i], Part("nick", i)) ELSE <<>>)

HandlePresence(i) ==
  IsDebug(i) \o <<Use(Part("nick", i))>> \o GetMessage(i) \o <<Use(Part("room", i))>> \o <<Send>>
    \o GetClient(i) \o <<Use(Part("nick", i))>> \o ThroughSession

HandleMessage(r) ==
  UseMember("debug") \o UseMember("client") \o RemoveMucSender(r, Member("message"))
    \o Log(<<Use(Member("message"))>>)

-----------------------------------------------------------------------------
LifeInit ==
  /\ alive = {Member(name) : name \in MemberNames \cup {"message"}}
  /\ rooms \in RoomLists
  /\ holders = [i \in 1..Len(rooms) |-> {}]
  /\ muc_senders = [r \in Rooms |-> 0]
  /\ cursor = 1
  /\ todo = <<>>
  /\ phase = "sending"
  /\ debug \in Debugging
  /\ open = TRUE

Idle(p) == todo = <<>> /\ phase = p
Begin(steps) == todo' = steps /\ UNCHANGED <<alive, muc_senders, rooms, debug>>

\* sendToRoom: a local shared_ptr holds the sender from its making to the end
\* of the function.
SendToRoom ==
  /\ Idle("sending") /\ cursor <= Len(rooms)
  /\ cursor' = cursor + 1
  /\ holders' = [holders EXCEPT ![cursor] = {"local"}]
  /\ Begin(UseMember("destinations") \o NewSender(cursor) \o UseMember("map_guard")
             \o <<Emplace(cursor)>>)
  /\ UNCHANGED <<phase, open>>

\* The last look at muc_senders in onConnect, then the receive loop.
OnConnectDone ==
  /\ Idle("sending") /\ cursor > Len(rooms)
  /\ phase' = "receiving"
  /\ Begin(UseMember("map_guard") \o UseMember("muc_senders")
             \o (IF \A r \in Rooms : muc_senders[r] = 0 THEN <<Send>> ELSE <<>>)
             \o UseMember("map_guard"))
  /\ UNCHANGED <<holders, cursor, open>>

\* gloox calls a handler of a sender's MUCRoom, or the Messenger's with a
\* 'stop' from some room.
Callback ==
  /\ Idle("receiving")
  /\ \/ \E i \in 1..Len(rooms) :
          /\ Part("room", i) \in alive
          /\ \/ Begin(HandleMUCError(i))
             \/ Begin(HandlePresence(i))
             \/ \E stop \in BOOLEAN : Begin(HandleMUCMessage(i, stop))
     \/ \E r \in Rooms : Begin(HandleMessage(r))
  /\ UNCHANGED <<holders, phase, cursor, open>>

StreamEnds ==
  /\ Idle("receiving") /\ open
  /\ open' = FALSE
  /\ Begin(OnDisconnect)
  /\ UNCHANGED <<holders, phase, cursor>>

EndsOf(members) == [k \in 1..Len(members) |-> End(Member(Reverse(members)[k]))]

\* ~Messenger: disconnect, then the members from the last declared to the
\* first; with muc_senders goes every sender that is still in it.
Destroy ==
  /\ Idle("receiving") /\ ~open
  /\ phase' = "leaving"
  /\ \E filed \in SetToSeqs({r \in Rooms : muc_senders[r] # 0}) :
       Begin(UseMember("debug") \o <<Send>> \o EndsOf(MembersBehindMap)
               \o [k \in 1..Len(filed) |-> Erase(filed[k])] \o EndsOf(MembersToMap))
  /\ UNCHANGED <<holders, cursor, open>>

Gone ==
  /\ Idle("leaving")
  /\ phase' = "gone"
  /\ Begin(<<>>)
  /\ UNCHANGED <<holders, cursor, open>>

-----------------------------------------------------------------------------
(***************************************************************************)
(* One thing done by the function on top of the stack.                     *)
(***************************************************************************)
Does(what) == todo # <<>> /\ Head(todo).do = what
Then(steps) == todo' = steps \o Tail(todo)
Here == Head(todo).obj
Elsewhere == UNCHANGED <<phase, rooms, cursor, debug>>

Using == Does("use") /\ Then(<<>>) /\ UNCHANGED <<alive, holders, muc_senders, open>> /\ Elsewhere
Making ==
  /\ Does("make") /\ Then(<<>>)
  /\ alive' = alive \cup {Here}
  /\ UNCHANGED <<holders, muc_senders, open>> /\ Elsewhere
Ending ==
  /\ Does("end") /\ Then(<<>>)
  /\ alive' = alive \ {Here}
  /\ UNCHANGED <<holders, muc_senders, open>> /\ Elsewhere

\* On a closed stream nothing happens; else it may break, and onDisconnect
\* is called from inside.
Sending ==
  /\ Does("send")
  /\ \/ Then(<<>>) /\ UNCHANGED open
     \/ open /\ open' = FALSE /\ Then(OnDisconnect)
  /\ UNCHANGED <<alive, holders, muc_senders>> /\ Elsewhere

\* The map takes the sender if it has none for the room; only then is it
\* started, and in any case the function's own hold on it ends.
Emplacing ==
  /\ Does("emplace")
  /\ LET i == Here.of
     IN  IF muc_senders[rooms[i]] = 0
         THEN /\ muc_senders' = [muc_senders EXCEPT ![rooms[i]] = i]
              /\ holders' = [holders EXCEPT ![i] = @ \cup {"muc_senders"}]
              /\ Then(StartSender(i) \o <<Release(i, "local")>>)
         ELSE /\ Then(<<Release(i, "local")>>)
              /\ UNCHANGED <<holders, muc_senders>>
  /\ UNCHANGED <<alive, open>> /\ Elsewhere

Erasing ==
  /\ Does("erase")
  /\ LET i == muc_senders[Head(todo).room]
     IN  Then(IF i = 0 THEN <<>> ELSE <<Release(i, "muc_senders")>>)
  /\ muc_senders' = [muc_senders EXCEPT ![Head(todo).room] = 0]
  /\ UNCHANGED <<alive, holders, open>> /\ Elsewhere

\* Mutant: the sender outlives its last owner.
Releasing_Leaks ==
  /\ Does("release") /\ Then(<<>>)
  /\ holders' = [holders EXCEPT ![Here.of] = @ \ {Head(todo).holder}]
  /\ UNCHANGED <<alive, muc_senders, open>> /\ Elsewhere

\* The last owner ends the sender.
Releasing ==
  /\ Does("release")
  /\ holders' = [holders EXCEPT ![Here.of] = @ \ {Head(todo).holder}]
  /\ Then(IF holders[Here.of] = {Head(todo).holder} THEN DestroySender(Here.of) ELSE <<>>)
  /\ UNCHANGED <<alive, muc_senders, open>> /\ Elsewhere

Rest == phase = "gone" /\ UNCHANGED lifeVars

LifeNext ==
  \/ SendToRoom
  \/ OnConnectDone
  \/ Callback
  \/ StreamEnds
  \/ Destroy
  \/ Gone
  \/ Using
  \/ Making
  \/ Ending
  \/ Sending
  \/ Emplacing
  \/ Erasing
  \/ Releasing
  \/ Rest

LifeSpec == LifeInit /\ [][LifeNext]_lifeVars

-----------------------------------------------------------------------------
(***************************************************************************)
(* Properties.                                                             *)
(***************************************************************************)

\* Nothing is used after its end, nor ended twice: not the sender whose
\* callback removes it, not the string the removal was called with, not the
\* client or the flag a sender's destructor looks at in ~Messenger.
OnlyTheLiving ==
  todo # <<>> /\ Head(todo).do \notin {"make", "release"} => Here \in alive

\* And everything that was made has been ended: a sender has an owner for as
\* long as it exists.
NothingLeaks ==
  /\ \A i \in 1..Len(rooms) : todo = <<>> /\ Part("sender", i) \in alive => holders[i] # {}
  /\ phase = "gone" => alive = {Member("message")}
=============================================================================
