----------------------------- MODULE MCXmppSend -----------------------------
(* Small instances of XmppSend: two rooms, one contact, two nicknames.     *)
EXTENDS XmppSend, TLC

CONSTANTS r1, r2, u1, none, me, other

MCRooms == {r1, r2}
MCUsers == {u1}
MCNicks == {me, other}

MCJidOf ==
  LET jid(b, n) == [bare |-> b, resource |-> n]
  IN  "room" :> jid(r1, none) @@ "room/other" :> jid(r1, other)
        @@ "hall/me" :> jid(r2, me) @@ "hall" :> jid(r2, none) @@ "friend" :> jid(u1, none)
MCCodeOf == "ConnNoError" :> 0 @@ "ConnIoError" :> 7 @@ "ConnStreamClosed" :> 3

MCHost == "me@a" :> "a"
MCStrtod == "ssl" :> {} @@ "5223" :> {5223}

O(o, a) == [opt |-> o, arg |-> a]
F(o) == [opt |-> o]
Friend == O("d", "friend")
Room(text) == O("a", text)

\* Recipients of either kind with options around them, a room named twice, a
\* contact taken for a room and a room for a contact, and lines that end in
\* the help, in an error or in std::terminate.
MCCommandLines ==
  { <<Friend>>, <<Room("room")>>, <<Room("room"), F("v"), Friend>>,
    <<Room("room/other"), Room("hall/me")>>,
    <<Room("room"), O("m", "note"), Room("room/other")>>,
    <<Friend, O("j", "@"), F("v")>>, <<Room("room"), F("h")>>,
    <<Room("room"), F("unknown")>>, <<Friend, F("word")>>, <<O("p", "5223")>>,
    <<Room("friend"), O("d", "hall")>>, <<Friend, O("p", "ssl")>>, <<Friend, O("m", "nowhere")>> }

Text(v) == [type |-> "string", value |-> v]
Full == "jid" :> Text("me@a") @@ "password" :> Text("secret")
MCFileSystems ==
  { DEFAULT_CONFIG :> ("xmpp" :> Full),
    DEFAULT_CONFIG :> ("xmpp" :> ("jid" :> Text("me@a"))),
    DEFAULT_CONFIG :> Malformed }
=============================================================================
