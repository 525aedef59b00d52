--------------------------- MODULE MCFormatPrint ----------------------------
(* Small instances of FormatPrint: formats put together from two pieces,   *)
(* and every string up to MaxLength over a few characters.                 *)
EXTENDS FormatPrint

CONSTANT MaxLength   \* bound: length of an arbitrary format

MCCallerStream == [DefaultStream EXCEPT !.base = 16, !.precision = 3]

Size(chars, args, value) == [chars |-> chars, args |-> args, value |-> value]
Star(n) == Size(<<"*">>, <<[type |-> "int", value |-> n]>>, n)
NoSize == Size(<<>>, <<>>, 0)
MCWidths == {NoSize, Size(<<"2">>, <<>>, 2), Size(<<"1", "0">>, <<>>, 10), Star(2), Star(-2)}
MCPrecisions == {NoSize, Size(<<"0">>, <<>>, 0), Size(<<"1", "2">>, <<>>, 12), Star(1), Star(-1)}
MCFlags == {<<>>, <<"-">>, <<"+", "0">>, <<" ">>, <<"#", "-">>}
MCLengths == {<<>>, <<"l">>, <<"l", "l">>, <<"h">>, <<"h", "h">>, <<"L">>}
MCConversions == {"d", "u", "x", "X", "o", "f", "E", "G", "s", "c", "z", "P"}

Directive(flags, width, precision, length, conv) ==
  [flags |-> flags, width |-> width, precision |-> precision, length |-> length, conv |-> conv]
Plain(length, conv) == Directive(<<>>, NoSize, NoSize, length, conv)

Rich == { Directive(f, w, p, l, c) :
            f \in MCFlags, w \in MCWidths, p \in MCPrecisions,
            l \in {<<>>, <<"l">>, <<"h", "h">>}, c \in {"d", "X", "f"} }
Spare == { Plain(l, c) : l \in MCLengths, c \in MCConversions }
TextPieces == { [lit |-> "a"], [lit |-> "0"] }

\* No floating-point directive behind one with `ll' or `L'.
LongDouble(piece) == IsDirective(piece) /\ FloatTypeOf(piece.length) = "LONGD"
Float(piece) == IsDirective(piece) /\ piece.conv \in FloatConv
Kept(one, two) == LongDouble(one) /\ Float(two) => LongDouble(two)

MCPieces ==
  { <<one, two>> \in Spare \X (Spare \cup TextPieces) : Kept(one, two) }
    \cup { <<one, two>> : one \in Rich, two \in TextPieces \cup {Plain(<<>>, "d"), Plain(<<>>, "E")} }
    \cup { <<one, two>> : one \in TextPieces \cup {Plain(<<>>, "G")}, two \in Rich }

\* What an argument that was not passed reads as.
MCGarbage == {-1, 0, 3}

\* Formats that nobody put together, with no argument passed.
RawChars == {"%", "-", "1", "*", ".", "l", "h", "d", "a", NUL}
Raw(n) == [format : UNION {[1..k -> RawChars] : k \in 0..n}, args : {<<>>}]

MCFormats == { Call(pieces) : pieces \in MCPieces } \cup Raw(MaxLength)

\* A count with `%lld', then a plain `%f'.
MCLongThenFloat == { Call(<<Plain(l, "d"), Plain(<<>>, "f")>>) : l \in MCLengths }
=============================================================================
