----------------------------- MODULE FormatScan -----------------------------
(***************************************************************************)
(* fmt::_istrscanf (src/format.cpp), behind strscanf: a scanf over an      *)
(* istream.  A step of the loop is one action, or two for a directive:     *)
(* its length modifier and its conversion.  Format and text are sequences  *)
(* of characters; what the istream extracts is modelled by its rules for   *)
(* white space, bases and ranges (no 0x prefix; of a float, the integral   *)
(* part).                                                                  *)
(***************************************************************************)
EXTENDS Integers, Sequences, SequencesExt

CONSTANTS
  Calls,        \* the calls considered: records [format, text]
  CallerFmt,    \* the settings [skipws, base] of the istream handed in
  Bits,         \* Bits[t]: width of the integer type t
  Garbage,      \* what an uninitialised char may hold
  Unwritten     \* a variable of the caller that nothing was stored into

IntType == {"LONG", "INT", "SHORT", "BYTE"}
FloatType == {"LONGD", "DOUBLE", "FLOAT"}

\* What nothing was stored into holds nothing that could be.
ASSUME ScanAssumption ==
  /\ \A cl \in Calls : cl.format \in Seq(STRING) /\ cl.text \in Seq(STRING)
  /\ Unwritten \notin STRING \cup Int \cup Seq(STRING)
  /\ \A t \in IntType : Bits[t] \in Nat \ {0}
  /\ Bits.BYTE <= Bits.SHORT /\ Bits.SHORT <= Bits.INT /\ Bits.INT <= Bits.LONG
  /\ CallerFmt \in [skipws : BOOLEAN, base : {0, 8, 10, 16}]

NUL == "NUL"
Space == " "

VARIABLES
  call,         \* the call
  fPtr,         \* position in the format
  phase,        \* "scan", "convert" inside a directive, "breakout", "done"
  fmt,          \* formatting state of the istream
  pos,          \* position in the text
  eof, fail,    \* eofbit and failbit
  c,            \* the local variable c
  int_type, float_type,
  targets,      \* what va_arg has been asked for: [type, value] each
  res           \* the number returned

typeVars == <<int_type, float_type>>
streamVars == <<pos, eof, fail>>
scanVars == <<call, fPtr, phase, fmt, streamVars, c, typeVars, targets, res>>

format == call.format
text == call.text

CharAt(i) == IF i <= Len(format) THEN format[i] ELSE NUL
Here == CharAt(fPtr)

\* The stream is told to skip white space; clearing all other flags leaves
\* it without a base.
ScanInit ==
  /\ call \in Calls
  /\ fPtr = 1
  /\ phase = "scan"
  /\ fmt = [skipws |-> TRUE, base |-> 0]
  /\ pos = 1
  /\ eof = FALSE
  /\ fail = FALSE
  /\ c \in Garbage
  /\ int_type = "INT"
  /\ float_type = "FLOAT"
  /\ targets = <<>>
  /\ res = 0

-----------------------------------------------------------------------------
(***************************************************************************)
(* Extraction from the stream.                                             *)
(***************************************************************************)
DigitChars == <<"0", "1", "2", "3", "4", "5", "6", "7", "8", "9", "a", "b", "c", "d", "e", "f">>
Digits(b) == {DigitChars[d] : d \in 1..b}
DigitOf(ch) == CHOOSE d \in 0..15 : DigitChars[d + 1] = ch

\* The number that a sequence of digits denotes in base b.
NumberOf(digits, b) ==
  LET upTo[n \in 0..Len(digits)] == IF n = 0 THEN 0 ELSE upTo[n - 1] * b + DigitOf(digits[n])
  IN  upTo[Len(digits)]

\* The first position from i on whose character is not one of chars.
EndOf(i, chars) ==
  CHOOSE j \in i..(Len(text) + 1) :
    /\ j <= Len(text) => text[j] \notin chars
    /\ \A k \in i..(j - 1) : text[k] \in chars

\* Where the next extraction begins; past the text if nothing is left.
Start == EndOf(pos, {Space})

Negative(i) == i <= Len(text) /\ text[i] = "-"

\* Without a base the stream decides on one by the first digit.
BaseAt(i, base) ==
  IF base # 0 THEN base ELSE IF i <= Len(text) /\ text[i] = "0" THEN 8 ELSE 10

\* An extraction: where it ends, whether it fails, and what it leaves in
\* the variable.  A stream that is at its end or has failed extracts nothing.
Nothing == [ok |-> FALSE, value |-> Unwritten, end |-> IF eof \/ fail THEN pos ELSE Start]
Extract(result) == IF eof \/ fail \/ Start > Len(text) THEN Nothing ELSE result

Pow2[n \in Nat] == IF n = 0 THEN 1 ELSE 2 * Pow2[n - 1]
Lowest(bits, signed) == IF signed THEN -Pow2[bits - 1] ELSE 0
Highest(bits, signed) == Pow2[IF signed THEN bits - 1 ELSE bits] - 1

\* A number out of range is an error and stores the limit; a negative one
\* for an unsigned type is not, and wraps.
Fit(n, bits, signed) ==
  LET m == IF signed \/ n > 0 THEN n ELSE -n
  IN  IF m > Highest(bits, signed) THEN [ok |-> FALSE, value |-> Highest(bits, signed)]
      ELSE IF signed /\ n < Lowest(bits, signed) THEN [ok |-> FALSE, value |-> Lowest(bits, signed)]
      ELSE [ok |-> TRUE, value |-> IF signed THEN n ELSE n % Pow2[bits]]

ReadInt(base, bits, signed) ==
  LET first == IF Negative(Start) THEN Start + 1 ELSE Start
      b     == BaseAt(first, base)
      end   == EndOf(first, Digits(b))
      n     == NumberOf(SubSeq(text, first, end - 1), b)
      v     == Fit(IF first # Start THEN -n ELSE n, bits, signed)
  IN  Extract(IF end = first THEN [ok |-> FALSE, value |-> 0, end |-> end]
              ELSE [ok |-> v.ok, value |-> v.value, end |-> end])

ReadFloat ==
  LET first == IF Negative(Start) THEN Start + 1 ELSE Start
      end   == EndOf(first, Digits(10))
      n     == NumberOf(SubSeq(text, first, end - 1), 10)
  IN  Extract([ok |-> end # first, value |-> IF first # Start THEN -n ELSE n, end |-> end])

ReadString ==
  LET end == EndOf(Start, {text[k] : k \in 1..Len(text)} \ {Space})
  IN  Extract([ok |-> TRUE, value |-> SubSeq(text, Start, end - 1), end |-> end])

\* A single character does not look at what follows it.
ReadChar == Extract([ok |-> TRUE, value |-> text[Start], end |-> Start + 1])

Advance(r, peeks) ==
  /\ pos' = r.end
  /\ eof' = (eof \/ (r.end > Len(text) /\ (peeks \/ ~r.ok)))
  /\ fail' = (fail \/ ~r.ok)
-----------------------------------------------------------------------------
(***************************************************************************)
(* The loop.                                                               *)
(***************************************************************************)
Keep == UNCHANGED <<call, typeVars, targets, res>>

\* White space in the format matches nothing and is not looked for.
FormatSpace ==
  /\ phase = "scan" /\ fPtr <= Len(format) /\ Here = Space
  /\ fPtr' = fPtr + 1
  /\ Keep /\ UNCHANGED <<phase, fmt, streamVars, c>>

\* A character of the format must be next in the text.  At the end of the
\* text nothing is read into c, and what c held before is compared.
Literal ==
  /\ phase = "scan" /\ fPtr <= Len(format) /\ Here \notin {Space, "%"}
  /\ c' = IF ReadChar.ok THEN ReadChar.value ELSE c
  /\ Advance(ReadChar, FALSE)
  /\ IF c' = Here THEN fPtr' = fPtr + 1 /\ UNCHANGED phase
                  ELSE phase' = "done" /\ UNCHANGED fPtr
  /\ Keep /\ UNCHANGED fmt

\* Mutant: a directive without a modifier keeps the types of the one before.
StartDirective_KeepsTypes ==
  /\ phase = "scan" /\ fPtr <= Len(format) /\ Here = "%"
  /\ phase' = "convert"
  /\ LET one     == CharAt(fPtr + 1)
         doubled == CharAt(fPtr + 2) = one
     IN  /\ int_type' = CASE one = "h" -> IF doubled THEN "BYTE" ELSE "SHORT"
                          [] one \in {"l", "L"} -> "LONG"
                          [] OTHER -> int_type
         /\ float_type' = CASE one = "l" -> IF doubled THEN "LONGD" ELSE "DOUBLE"
                            [] one = "L" -> "LONGD"
                            [] OTHER -> float_type
         /\ fPtr' = fPtr + (IF one \notin {"h", "l"} THEN 1 ELSE IF doubled THEN 3 ELSE 2)
  /\ UNCHANGED <<call, fmt, streamVars, c, targets, res>>

\* The length modifier.  `h' leaves float_type alone, `L' is not stepped over.
StartDirective ==
  /\ phase = "scan" /\ fPtr <= Len(format) /\ Here = "%"
  /\ phase' = "convert"
  /\ LET one     == CharAt(fPtr + 1)
         doubled == CharAt(fPtr + 2) = one
     IN  /\ int_type' = CASE one = "h" -> IF doubled THEN "BYTE" ELSE "SHORT"
                          [] one \in {"l", "L"} -> "LONG"
                          [] OTHER -> "INT"
         /\ float_type' = CASE one = "h" -> float_type
                            [] one = "l" -> IF doubled THEN "LONGD" ELSE "DOUBLE"
                            [] one = "L" -> "LONGD"
                            [] OTHER -> "FLOAT"
         /\ fPtr' = fPtr + (IF one \notin {"h", "l"} THEN 1 ELSE IF doubled THEN 3 ELSE 2)
  /\ UNCHANGED <<call, fmt, streamVars, c, targets, res>>

Signed == {"d", "i"}
IntConv == Signed \cup {"u", "o", "x", "X"}
FloatConv == {"f", "F", "e", "E", "g", "G"}
StringConv == {"s", "S"}
CharConv == {"c", "C"}
PointerConv == {"p", "P"}
Conversion == IntConv \cup FloatConv \cup StringConv \cup CharConv \cup PointerConv

BaseOf(conv, default) ==
  IF conv = "o" THEN 8 ELSE IF conv \in {"x", "X"} THEN 16 ELSE default

\* A byte is read as a short and cut.
Cut(v, signed) ==
  LET m == v % Pow2[Bits.BYTE]
  IN  IF signed /\ m > Highest(Bits.BYTE, TRUE) THEN m - Pow2[Bits.BYTE] ELSE m

\* What the directive's extraction gives for its variable.
Read(conv) ==
  LET signed == conv \in Signed
      base   == BaseOf(conv, fmt.base)
      short  == ReadInt(base, Bits.SHORT, signed)
  IN  CASE conv \in IntConv /\ int_type = "BYTE" ->
             IF short.ok THEN [short EXCEPT !.value = Cut(@, signed)] ELSE short
        [] conv \in IntConv /\ int_type # "BYTE" -> ReadInt(base, Bits[int_type], signed)
        [] conv \in FloatConv   -> ReadFloat
        [] conv \in StringConv  -> ReadString
        [] conv \in CharConv    -> ReadChar
        [] conv \in PointerConv -> ReadInt(16, Bits.LONG, FALSE)

\* The type of variable that va_arg is told to expect.
TargetType(conv) ==
  IF conv \in IntConv THEN <<int_type, conv \in Signed>>
  ELSE IF conv \in FloatConv THEN <<float_type>>
  ELSE IF conv \in StringConv THEN <<"string">>
  ELSE IF conv \in CharConv THEN <<"char">> ELSE <<"void*">>

\* Mutant: a variable that could not be read is counted all the same.
ConvertStep_CountsFailures ==
  /\ phase = "convert" /\ Here \in Conversion
  /\ fmt' = IF Here \in IntConv THEN [fmt EXCEPT !.base = BaseOf(Here, @)] ELSE fmt
  /\ Advance(Read(Here), Here \notin CharConv)
  /\ res' = res + 1
  /\ targets' = Append(targets, [type |-> TargetType(Here), value |-> Read(Here).value])
  /\ phase' = IF Read(Here).ok THEN "scan" ELSE "breakout"
  /\ fPtr' = fPtr + 1
  /\ UNCHANGED <<call, c, typeVars>>

\* A conversion: the base is set and stays, the variable is stored into, the
\* first failure ends the loop.  A byte's variable is asked for on success only.
ConvertStep ==
  /\ phase = "convert" /\ Here \in Conversion
  /\ LET r == Read(Here)
     IN  /\ fmt' = IF Here \in IntConv THEN [fmt EXCEPT !.base = BaseOf(Here, @)] ELSE fmt
         /\ Advance(r, Here \notin CharConv)
         /\ res' = IF r.ok THEN res + 1 ELSE res
         /\ targets' = IF ~r.ok /\ Here \in IntConv /\ int_type = "BYTE" THEN targets
                       ELSE Append(targets, [type |-> TargetType(Here), value |-> r.value])
         /\ phase' = IF r.ok THEN "scan" ELSE "breakout"
  /\ fPtr' = fPtr + 1
  /\ UNCHANGED <<call, c, typeVars>>

Percent ==
  /\ phase = "convert" /\ Here = "%"
  /\ c' = IF ReadChar.ok THEN ReadChar.value ELSE c
  /\ Advance(ReadChar, FALSE)
  /\ phase' = IF ReadChar.ok /\ c' = "%" THEN "scan" ELSE "breakout"
  /\ fPtr' = fPtr + 1
  /\ Keep /\ UNCHANGED fmt

\* Mutant: the terminator is skipped like any other character.
Unfinished_Skips ==
  /\ phase = "convert" /\ Here = NUL
  /\ phase' = "scan"
  /\ fPtr' = fPtr + 1
  /\ Keep /\ UNCHANGED <<fmt, streamVars, c>>

\* Mutant: the loop starts over at the `%' whose directive has no end.
Unfinished_Rereads ==
  /\ phase = "convert" /\ Here = NUL
  /\ phase' = "scan"
  /\ fPtr' = fPtr - 1
  /\ Keep /\ UNCHANGED <<fmt, streamVars, c>>

\* The format ends inside a directive, or holds a NUL there, which is then a
\* character to be matched.
Unfinished ==
  /\ phase = "convert" /\ Here = NUL
  /\ phase' = "scan"
  /\ Keep /\ UNCHANGED <<fPtr, fmt, streamVars, c>>

Unknown ==
  /\ phase = "convert" /\ Here \notin Conversion \cup {"%", NUL}
  /\ phase' = "done"
  /\ Keep /\ UNCHANGED <<fPtr, fmt, streamVars, c>>

\* The loop ends at the end of the format or by breakout; either way the
\* caller's settings come back.  The early returns leave them out.
Finish ==
  /\ \/ phase = "breakout"
     \/ phase = "scan" /\ fPtr = Len(format) + 1
  /\ phase' = "done"
  /\ fmt' = CallerFmt
  /\ Keep /\ UNCHANGED <<fPtr, streamVars, c>>

Scanned == phase = "done" /\ UNCHANGED scanVars

ScanNext ==
  \/ FormatSpace
  \/ Literal
  \/ StartDirective
  \/ ConvertStep
  \/ Percent
  \/ Unfinished
  \/ Unknown
  \/ Finish
  \/ Scanned

ScanSpec == ScanInit /\ [][ScanNext]_scanVars
-----------------------------------------------------------------------------
(***************************************************************************)
(* Reference: a call put together from items.  An item is a character      *)
(* [lit, chars] or a directive [length, conv, chars]; chars is what stands *)
(* for it in the text, with a blank in front.                              *)
(***************************************************************************)
IsDirective(item) == "conv" \in DOMAIN item

Render(item) ==
  IF IsDirective(item) THEN <<"%">> \o item.length \o <<item.conv>> ELSE <<item.lit>>

Call(items) ==
  [format |-> FlattenSeq([i \in 1..Len(items) |-> Render(items[i])]),
   text   |-> FlattenSeq([i \in 1..Len(items) |-> <<Space>> \o items[i].chars]),
   items  |-> items]

IntTypeOf(item) ==
  CASE item.length = <<>>         -> "INT"
    [] item.length = <<"h">>      -> "SHORT"
    [] item.length = <<"h", "h">> -> "BYTE"
    [] item.length \in {<<"l">>, <<"l", "l">>} -> "LONG"

FloatTypeOf(item) ==
  CASE item.length = <<>>         -> "FLOAT"
    [] item.length = <<"l">>      -> "DOUBLE"
    [] item.length = <<"l", "l">> -> "LONGD"

\* The number the text of an item denotes; digits of d, i and u that begin
\* with a zero are octal.
Denoted(item) ==
  LET minus  == item.chars[1] = "-"
      digits == IF minus THEN Tail(item.chars) ELSE item.chars
      base   == CASE item.conv = "o" -> 8
                  [] item.conv \in {"x", "X", "p", "P"} -> 16
                  [] item.conv \in FloatConv -> 10
                  [] OTHER -> IF digits[1] = "0" THEN 8 ELSE 10
  IN  IF minus THEN -NumberOf(digits, base) ELSE NumberOf(digits, base)

\* The integers a type of this width has.
Ints(bits, signed) ==
  IF signed THEN -Pow2[bits - 1]..(Pow2[bits - 1] - 1) ELSE 0..(Pow2[bits] - 1)

\* A type that is read holds the number itself, or its negative.
Readable(item) ==
  item.conv \in IntConv =>
    LET bits == Bits[IF IntTypeOf(item) = "BYTE" THEN "SHORT" ELSE IntTypeOf(item)]
    IN  \/ Denoted(item) \in Ints(bits, item.conv \in Signed)
        \/ item.conv \notin Signed /\ -Denoted(item) \in Ints(bits, FALSE)

\* v is the value of the item's type that the item denotes, modulo the type.
Means(item, v) ==
  CASE item.conv \in IntConv ->
         LET bits == Bits[IntTypeOf(item)]
         IN  /\ v \in Ints(bits, item.conv \in Signed)
             /\ (v - Denoted(item)) % Pow2[bits] = 0
    [] item.conv \in FloatConv \cup PointerConv -> v = Denoted(item)
    [] item.conv \in StringConv -> v = item.chars
    [] item.conv \in CharConv -> <<v>> = item.chars

TypeOfItem(item) ==
  CASE item.conv \in IntConv     -> <<IntTypeOf(item), item.conv \in Signed>>
    [] item.conv \in FloatConv   -> <<FloatTypeOf(item)>>
    [] item.conv \in StringConv  -> <<"string">>
    [] item.conv \in CharConv    -> <<"char">>
    [] item.conv \in PointerConv -> <<"void*">>

Directives == SelectSeq(call.items, IsDirective)

-----------------------------------------------------------------------------
(***************************************************************************)
(* Properties.                                                             *)
(***************************************************************************)

\* Whatever format and text: the iterator stays between the format's first
\* character and its terminator, the position inside the text, and va_arg is
\* asked for at most one variable more than the number returned counts, all
\* counted ones having been stored into.
ScanTypeOK ==
  /\ fPtr \in 1..(Len(format) + 1)
  /\ pos \in 1..(Len(text) + 1)
  /\ phase \in {"scan", "convert", "breakout", "done"}
  /\ int_type \in IntType /\ float_type \in FloatType
  /\ Len(targets) \in {res, res + 1}
  /\ \A i \in 1..res : targets[i].value # Unwritten

\* Every format is worked through: no directive sends the loop in circles,
\* each step takes it on, in the format or from a directive to its end.  So
\* it ends, as no state but a finished one is without a step.
DistanceLeft ==
  2 * (Len(format) + 1 - fPtr)
    + (CASE phase = "convert" -> 2 [] phase = "done" -> 0 [] OTHER -> 1)
ScanFinishes == [][DistanceLeft' < DistanceLeft]_scanVars

\* Once the stream has failed nothing is counted or stored any more: not
\* even if the stale c, which no extraction has set, happens to equal the
\* character of the format it is compared with.
FailureIsFinal ==
  [][ fail => /\ res' = res
              /\ \A i \in 1..Len(targets') :
                   i > Len(targets) => targets'[i].value = Unwritten ]_scanVars

\* A call put together from items is taken apart into the same: the number
\* returned is that of the directives before the first one whose number is
\* out of its type's range, each variable gets what its own item denotes,
\* and the caller's settings come back.
ScanReadsBack ==
  phase = "done" /\ "items" \in DOMAIN call =>
    /\ res = Cardinality({i \in 1..Len(Directives) : \A j \in 1..i : Readable(Directives[j])})
    /\ \A i \in 1..res :
         /\ targets[i].type = TypeOfItem(Directives[i])
         /\ Means(Directives[i], targets[i].value)
    /\ fmt = CallerFmt

\* format.cpp:484-486 heads a directive with "Default variable settings": a
\* directive reads a number in its own base, whatever came before it.
ScanDirectivesIndependent ==
  phase = "done" => \A i \in 1..res : Means(Directives[i], targets[i].value)
=============================================================================
