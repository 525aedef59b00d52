---------------------------- MODULE MCXmppConfig ----------------------------
(* Small instances of XmppConfig: command lines of up to three options     *)
(* beside a recipient, and configuration files with one thing wrong each.  *)
EXTENDS XmppConfig, TLC

CONSTANT MaxOptions   \* bound: options on a command line

O(o, a) == [opt |-> o, arg |-> a]
F(o) == [opt |-> o]

MCHost == "me@a" :> "a" @@ "you@b" :> "b"
\* A text that is no number, one that is, one past the range of int (the
\* x86-64 build gives INT_MIN, a saturating one INT_MAX).
MCStrtod == "ssl" :> {} @@ "5223" :> {5223} @@ "1e10" :> {-2147483647 - 1, 2147483647}

MCOptions ==
  {F("h"), F("v"), F("unknown"), F("word"),
   O("c", "other.conf"), O("t", "work"), O("j", "you@b"), O("j", "@"), O("P", "pw"),
   O("s", "s"), O("p", "ssl"), O("p", "5223"), O("p", "1e10"),
   O("m", "note"), O("m", "nowhere"), O("a", "room"), O("d", "friend")}

MCCommandLines ==
  LET lines(n) == [1..n -> MCOptions]
  IN  UNION {lines(n) : n \in 0..MaxOptions}
        \cup {<<O("d", "friend")>> \o line : line \in lines(MaxOptions)}

Text(v) == [type |-> "string", value |-> v]
Int_(n) == [type |-> "int", value |-> n]

Full == "jid" :> Text("me@a") @@ "password" :> Text("secret") @@ "server" :> Text("x")
WithoutSetting(name) == [n \in DOMAIN Full \ {name} |-> Full[n]]

\* The README's example, one setting missing, of the wrong type, a JID that
\* is none and no server to make up for it.
MCGroups ==
  { Full,
    WithoutSetting("jid"), WithoutSetting("password"), WithoutSetting("server"),
    [Full EXCEPT !["password"] = Int_(1234)],
    [Full EXCEPT !["jid"] = Int_(1)],
    [Full EXCEPT !["server"] = Int_(7)],
    [WithoutSetting("server") EXCEPT !["jid"] = Text("@")],
    "port" :> Int_(5222) @@ Full,
    "port" :> Text("5222") @@ Full }

MCFileSystems ==
  LET disk(file, other) == DEFAULT_CONFIG :> file @@ "other.conf" :> other
  IN  { disk("xmpp" :> g, Missing) : g \in MCGroups }
        \cup { disk(Missing, "xmpp" :> Full @@ "work" :> g) : g \in MCGroups }
        \cup { disk(Malformed, Missing), disk(Missing, Malformed) }

\* The README's example as it stands, wherever the file is looked for.
ReadmeGroup == "port" :> Int_(5222) @@ Full
ReadmeLines == { <<O("d", "friend")>>, <<F("v"), O("a", "room")>> }
ReadmeFiles == { DEFAULT_CONFIG :> ("xmpp" :> ReadmeGroup) }

\* The documented default file holds what the user wants, the one the code
\* reads something else.
DefaultLines == ReadmeLines
DefaultFiles ==
  { DEFAULT_CONFIG :> ("xmpp" :> Full)
      @@ "~/.config/xmppsend.cfg" :> ("xmpp" :> [Full EXCEPT !["jid"] = Text("you@b")]) }

WordLines == { <<F("word")>>, <<F("word"), O("d", "friend")>> }
WordFiles == { DEFAULT_CONFIG :> ("xmpp" :> Full) }
=============================================================================
