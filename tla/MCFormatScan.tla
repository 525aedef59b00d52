---------------------------- MODULE MCFormatScan ----------------------------
(* Small instances of FormatScan.  The widths stand for 64, 32, 16, 8.     *)
EXTENDS FormatScan

CONSTANTS Alphabet, MaxLength

MCBits == [LONG |-> 9, INT |-> 7, SHORT |-> 5, BYTE |-> 3]
MCCallerFmt == [skipws |-> FALSE, base |-> 16]

\* Inside every type, cut by a byte, out of a short's range, out of every
\* signed one's but a long's, negative, out of all of them.
Spelled == { <<"3">>, <<"5">>, <<"2", "0">>, <<"-", "5">>, <<"0", "1", "0">>,
             <<"1", "1", "1">>, <<"7", "7", "7">>, <<"1", "f">> }
Decimal == {chars \in Spelled : \A i \in 1..Len(chars) : chars[i] # "f"}

Item(length, conv, chars) == [length |-> length, conv |-> conv, chars |-> chars]
IntLengths == { <<>>, <<"l">>, <<"l", "l">>, <<"h">>, <<"h", "h">> }
Decimals == {Item(l, conv, n) : l \in IntLengths, conv \in {"d", "u"}, n \in Decimal}
Based ==
  {Item(l, "o", n) : l \in IntLengths, n \in Decimal}
    \cup {Item(l, "x", n) : l \in IntLengths, n \in Spelled}
Others ==
  {Item(l, "f", n) : l \in {<<>>, <<"l">>, <<"l", "l">>}, n \in {<<"5">>, <<"-", "5">>}}
    \cup { Item(<<>>, "s", <<"a", "-", "1">>), Item(<<>>, "c", <<"a">>), Item(<<>>, "p", <<"1", "f">>),
           [lit |-> "a", chars |-> <<"a">>], [lit |-> Space, chars |-> <<>>] }
Items == Decimals \cup Based \cup Others

\* Every string up to a length as the format, a few texts.
Arbitrary(length) ==
  [format : UNION {[1..n -> Alphabet] : n \in 0..length},
   text : { <<>>, <<"1">>, <<"a">>, <<"a", "1", "a">>, <<"-">>, <<"1", Space, "%", Space, "a">> }]

\* Round trips, a decimal directive behind one with a base of its own left
\* out, and calls that nobody put together.
AllCalls ==
  {Call(<<a, b>>) : a \in Decimals \cup Others, b \in Items}
    \cup {Call(<<a, b>>) : a \in Based, b \in Based \cup Others}
    \cup Arbitrary(MaxLength)

BasedThenDecimal == {Call(<<Item(<<>>, "x", <<"1", "f">>), Item(<<>>, "d", <<"2", "0">>)>>)}
=============================================================================
