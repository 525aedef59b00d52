---------------------------- MODULE FormatPrint -----------------------------
(***************************************************************************)
(* fmt::_ostrformat (src/format.cpp), behind strformat, streamformat and   *)
(* strformat2: a printf over an ostream.  One action per stretch of a      *)
(* directive: flags, width, precision, length modifier, conversion.  A     *)
(* character is a string of length one; what is printed is the sequence of *)
(* fields with the settings the stream has for each, not their text.       *)
(***************************************************************************)
EXTENDS Integers, Sequences, SequencesExt

CONSTANTS
  Inputs,      \* the calls considered: records [format, args]
  CallerStream, \* the settings of the stream that is handed in
  Garbage      \* ints an argument that was not passed may read as

ASSUME PrintAssumption ==
  /\ \A in \in Inputs :
       /\ in.format \in Seq(STRING)
       /\ Len(in.args) \in Nat
       /\ \A k \in 1..Len(in.args) : in.args[k].type = "int" => in.args[k].value \in Int
  /\ Garbage \subseteq Int
  /\ CallerStream \in
       [left : BOOLEAN, showpos : BOOLEAN, alt : BOOLEAN, zero : BOOLEAN, upper : BOOLEAN,
        base : {8, 10, 16}, floatfield : {"general", "fixed", "scientific"},
        width : Nat, precision : Nat]

NUL == "NUL"
Digit == [c \in {"0", "1", "2"} |-> IF c = "0" THEN 0 ELSE IF c = "1" THEN 1 ELSE 2]
Flags == {"-", "+", "#", " ", "0"}
FormChars == Flags \cup DOMAIN Digit \cup {".", "*"}

VARIABLES
  input,      \* the call: its format and the arguments the caller passed
  fPtr, uPtr, \* positions in the format: next character, start of the directive
  phase,      \* what the loop body looks for next
  stream,     \* formatting state of the ostream
  int_type, float_type, printBlank,
  pulled,     \* the types va_arg has been asked for
  printed     \* what was written, each item with the settings it was written under

printVars == <<input, fPtr, uPtr, phase, stream, int_type, float_type, printBlank, pulled, printed>>
typeVars == <<int_type, float_type>>

format == input.format

\* *fPtr: past the last character std::string has a NUL.
CharAt(i) == IF i <= Len(format) THEN format[i] ELSE NUL
Here == CharAt(fPtr)

PrintInit ==
  /\ input \in Inputs
  /\ fPtr = 1
  /\ uPtr = 1
  /\ phase = "text"
  /\ stream = CallerStream
  /\ int_type = "INT"
  /\ float_type = "DOUBLE"
  /\ printBlank = FALSE
  /\ pulled = <<>>
  /\ printed = <<>>

\* Default variable settings.
DefaultStream ==
  [left |-> FALSE, showpos |-> FALSE, alt |-> FALSE, zero |-> FALSE, upper |-> FALSE,
   base |-> 10, floatfield |-> "general", width |-> 0, precision |-> 6]

\* The ints the next va_arg( ap, int ) may give: what was passed, if it was.
NextInts ==
  LET k == Len(pulled) + 1
  IN  IF k <= Len(input.args) /\ input.args[k].type = "int" THEN {input.args[k].value} ELSE Garbage

\* A character written as it is takes up the width that is set, as any
\* output does.
Literals(chars) ==
  [i \in 1..Len(chars) |-> [lit |-> chars[i], width |-> IF i = 1 THEN stream.width ELSE 0]]

PutLiterals(chars) ==
  /\ printed' = printed \o Literals(chars)
  /\ stream' = [stream EXCEPT !.width = 0]

-----------------------------------------------------------------------------
Text ==
  /\ phase = "text" /\ fPtr <= Len(format) /\ Here # "%"
  /\ PutLiterals(<<Here>>)
  /\ fPtr' = fPtr + 1
  /\ UNCHANGED <<input, uPtr, phase, typeVars, printBlank, pulled>>

\* Mutant: the settings of the directive before are still there.
StartDirective_KeepsStream ==
  /\ phase = "text" /\ Here = "%"
  /\ printBlank' = FALSE
  /\ fPtr' = fPtr + 1
  /\ uPtr' = fPtr + 1
  /\ phase' = IF CharAt(fPtr + 1) \in FormChars THEN "flags" ELSE "length"
  /\ UNCHANGED <<input, stream, typeVars, pulled, printed>>

\* Every directive starts from the defaults.
StartDirective ==
  /\ phase = "text" /\ Here = "%"
  /\ printBlank' = FALSE
  /\ stream' = DefaultStream
  /\ fPtr' = fPtr + 1
  /\ uPtr' = fPtr + 1
  /\ phase' = IF CharAt(fPtr + 1) \in FormChars THEN "flags" ELSE "length"
  /\ UNCHANGED <<input, typeVars, pulled, printed>>

WithFlag(c) ==
  [stream EXCEPT !.left = @ \/ c = "-", !.showpos = @ \/ c = "+",
                 !.alt = @ \/ c = "#", !.zero = @ \/ c = "0"]

Flag ==
  /\ phase = "flags" /\ Here \in Flags
  /\ stream' = WithFlag(Here)
  /\ printBlank' = (printBlank \/ Here = " ")
  /\ fPtr' = fPtr + 1
  /\ UNCHANGED <<input, uPtr, phase, typeVars, pulled, printed>>

\* The first position from i on that holds no digit, and the number before it.
DigitsEnd(i) ==
  CHOOSE j \in i..(Len(format) + 1) :
    CharAt(j) \notin DOMAIN Digit /\ \A k \in i..(j - 1) : CharAt(k) \in DOMAIN Digit
NumberAt(i) ==
  LET upTo[j \in i..DigitsEnd(i)] == IF j = i THEN 0 ELSE upTo[j - 1] * 10 + Digit[CharAt(j - 1)]
  IN  upTo[DigitsEnd(i)]

PullInt == pulled' = Append(pulled, "int")

\* A width, as digits or as an argument, also puts an end to the blank that
\* stands for a plus sign; a negative argument means left-adjusted.
Width ==
  /\ phase = "flags" /\ Here \notin Flags
  /\ phase' = "precision"
  /\ \/ /\ Here \in DOMAIN Digit
        /\ printBlank' = FALSE
        /\ stream' = [stream EXCEPT !.width = NumberAt(fPtr)]
        /\ fPtr' = DigitsEnd(fPtr)
        /\ UNCHANGED pulled
     \/ /\ Here = "*"
        /\ printBlank' = FALSE
        /\ \E v \in NextInts :
             stream' = [stream EXCEPT !.left = @ \/ v < 0, !.width = IF v < 0 THEN -v ELSE v]
        /\ PullInt
        /\ fPtr' = fPtr + 1
     \/ /\ Here \notin DOMAIN Digit \cup {"*"}
        /\ UNCHANGED <<printBlank, stream, fPtr, pulled>>
  /\ UNCHANGED <<input, uPtr, typeVars, printed>>

Precision ==
  /\ phase = "precision"
  /\ phase' = "length"
  /\ \/ /\ Here # "."
        /\ UNCHANGED <<stream, fPtr, pulled>>
     \/ /\ Here = "." /\ CharAt(fPtr + 1) \in DOMAIN Digit
        /\ stream' = [stream EXCEPT !.precision = NumberAt(fPtr + 1)]
        /\ fPtr' = DigitsEnd(fPtr + 1)
        /\ UNCHANGED pulled
     \/ /\ Here = "." /\ CharAt(fPtr + 1) = "*"
        /\ \E v \in NextInts :
             stream' = [stream EXCEPT !.precision = IF v < 0 THEN 0 ELSE v]
        /\ PullInt
        /\ fPtr' = fPtr + 2
     \/ /\ Here = "." /\ CharAt(fPtr + 1) \notin DOMAIN Digit \cup {"*"}
        /\ fPtr' = fPtr + 1
        /\ UNCHANGED <<stream, pulled>>
  /\ UNCHANGED <<input, uPtr, typeVars, printBlank, printed>>

\* `ll' and `L' also ask for a long double; nothing takes that back.
Length ==
  /\ phase = "length"
  /\ phase' = "convert"
  /\ LET doubled == CharAt(fPtr + 1) = Here
     IN  \/ /\ Here = "l"
            /\ int_type' = "LONG"
            /\ float_type' = IF doubled THEN "LONGD" ELSE float_type
            /\ fPtr' = fPtr + (IF doubled THEN 2 ELSE 1)
         \/ /\ Here = "h"
            /\ int_type' = IF doubled THEN "BYTE" ELSE "SHORT"
            /\ fPtr' = fPtr + (IF doubled THEN 2 ELSE 1)
            /\ UNCHANGED float_type
         \/ /\ Here = "L"
            /\ int_type' = "LONG" /\ float_type' = "LONGD"
            /\ fPtr' = fPtr + 1
         \/ /\ Here \notin {"l", "h", "L"}
            /\ int_type' = "INT"
            /\ UNCHANGED <<float_type, fPtr>>
  /\ UNCHANGED <<input, uPtr, stream, printBlank, pulled, printed>>

-----------------------------------------------------------------------------
(***************************************************************************)
(* Argument extraction and printing.                                       *)
(***************************************************************************)
Signed == {"d", "i"}
IntConv == Signed \cup {"u", "o", "x", "X"}
FloatConv == {"f", "F", "e", "E", "g", "G"}
OtherConv == {"z", "s", "S", "c", "C", "b", "B", "p", "P"}
Conversion == IntConv \cup FloatConv \cup OtherConv
UpperConv == {"X", "S", "F", "E", "G", "C", "B", "P"}

IntArg(type) == IF type = "LONG" THEN "long" ELSE "int"
FloatArg(type) == IF type = "LONGD" THEN "long double" ELSE "double"
OtherArg(c) ==
  CASE c = "z" -> "size_t"
    [] c \in {"s", "S"} -> "char*"
    [] c \in {"c", "C", "b", "B"} -> "int"
    [] c \in {"p", "P"} -> "void*"

BaseOf(c) == IF c = "o" THEN 8 ELSE IF c \in {"x", "X"} THEN 16 ELSE 10
FloatFieldOf(c) ==
  IF c \in {"f", "F"} THEN "fixed" ELSE IF c \in {"e", "E"} THEN "scientific" ELSE "general"

FieldStream(c) ==
  [stream EXCEPT !.upper = @ \/ c \in UpperConv, !.base = BaseOf(c), !.floatfield = FloatFieldOf(c)]

Convert ==
  /\ phase = "convert" /\ Here \in Conversion
  /\ LET type == IF Here \in IntConv THEN int_type ELSE IF Here \in FloatConv THEN float_type ELSE "-"
         arg  == IF Here \in IntConv THEN IntArg(int_type)
                 ELSE IF Here \in FloatConv THEN FloatArg(float_type)
                 ELSE OtherArg(Here)
     IN  /\ pulled' = Append(pulled, arg)
         /\ printed' = Append(printed,
              [conv |-> Here, type |-> type, stream |-> FieldStream(Here),
               blank |-> printBlank /\ Here \in Signed \cup FloatConv])
  /\ stream' = [FieldStream(Here) EXCEPT !.width = 0]
  /\ fPtr' = fPtr + 1
  /\ phase' = "text"
  /\ UNCHANGED <<input, uPtr, typeVars, printBlank>>

Percent ==
  /\ phase = "convert" /\ Here = "%"
  /\ PutLiterals(<<"%">>)
  /\ fPtr' = fPtr + 1
  /\ phase' = "text"
  /\ UNCHANGED <<input, uPtr, typeVars, printBlank, pulled>>

\* Mutant: the loop starts over at the `%' whose directive has no end.
Unfinished_Rereads ==
  /\ phase = "convert" /\ Here = NUL
  /\ phase' = "text"
  /\ fPtr' = uPtr - 1
  /\ UNCHANGED <<input, uPtr, stream, typeVars, printBlank, pulled, printed>>

\* Mutant: the terminator is skipped like any other character.
Unfinished_Skips ==
  /\ phase = "convert" /\ Here = NUL
  /\ phase' = "text"
  /\ fPtr' = fPtr + 1
  /\ UNCHANGED <<input, uPtr, stream, typeVars, printBlank, pulled, printed>>

\* The format ends inside a directive: `continue' without a step forward.  A
\* NUL inside the format is a character of the text from then on.
Unfinished ==
  /\ phase = "convert" /\ Here = NUL
  /\ phase' = "text"
  /\ UNCHANGED <<input, fPtr, uPtr, stream, typeVars, printBlank, pulled, printed>>

\* An unknown conversion is printed back with its `%'.
Unknown ==
  /\ phase = "convert" /\ Here \notin Conversion \cup {"%", NUL}
  /\ PutLiterals(<<"%">> \o SubSeq(format, uPtr, fPtr))
  /\ fPtr' = fPtr + 1
  /\ uPtr' = fPtr + 1
  /\ phase' = "text"
  /\ UNCHANGED <<input, typeVars, printBlank, pulled>>

\* out.copyfmt( old ).
Finish ==
  /\ phase = "text" /\ fPtr = Len(format) + 1
  /\ phase' = "done"
  /\ stream' = CallerStream
  /\ UNCHANGED <<input, fPtr, uPtr, typeVars, printBlank, pulled, printed>>

Printed == phase = "done" /\ UNCHANGED printVars

Step ==
  \/ Text
  \/ StartDirective
  \/ Flag
  \/ Width
  \/ Precision
  \/ Length
  \/ Convert
  \/ Percent
  \/ Unfinished
  \/ Unknown
  \/ Finish

PrintNext == Step \/ Printed

PrintSpec == PrintInit /\ [][PrintNext]_printVars /\ WF_printVars(Step)

-----------------------------------------------------------------------------
(***************************************************************************)
(* Reference: a format is a sequence of pieces, each a character of text   *)
(* or a directive [flags, width, precision, length, conv]; width and       *)
(* precision are given as the characters that denote them, the arguments   *)
(* they take and the number they mean.                                     *)
(***************************************************************************)
IsDirective(piece) == "conv" \in DOMAIN piece

Render(piece) ==
  IF IsDirective(piece)
  THEN <<"%">> \o piece.flags \o piece.width.chars
         \o (IF piece.precision.chars = <<>> THEN <<>> ELSE <<".">> \o piece.precision.chars)
         \o piece.length \o <<piece.conv>>
  ELSE <<piece.lit>>

IntTypeOf(length) ==
  CASE length \in {<<"l">>, <<"l", "l">>, <<"L">>} -> "LONG"
    [] length = <<"h">> -> "SHORT"
    [] length = <<"h", "h">> -> "BYTE"
    [] OTHER -> "INT"
FloatTypeOf(length) == IF length \in {<<"l", "l">>, <<"L">>} THEN "LONGD" ELSE "DOUBLE"

TypeOfPiece(piece) ==
  IF piece.conv \in IntConv THEN IntTypeOf(piece.length)
  ELSE IF piece.conv \in FloatConv THEN FloatTypeOf(piece.length) ELSE "-"

\* The arguments a caller passes for a piece.
ArgsOf(piece) ==
  IF ~IsDirective(piece) THEN <<>>
  ELSE piece.width.args \o piece.precision.args
         \o <<[type |-> IF piece.conv \in IntConv THEN IntArg(IntTypeOf(piece.length))
                        ELSE IF piece.conv \in FloatConv THEN FloatArg(FloatTypeOf(piece.length))
                        ELSE OtherArg(piece.conv),
               value |-> 0]>>

FlagSet(piece) == {piece.flags[i] : i \in 1..Len(piece.flags)}

FieldOf(piece) ==
  IF IsDirective(piece)
  THEN [conv |-> piece.conv, type |-> TypeOfPiece(piece),
        stream |-> [left |-> "-" \in FlagSet(piece) \/ piece.width.value < 0,
                    showpos |-> "+" \in FlagSet(piece),
                    alt |-> "#" \in FlagSet(piece),
                    zero |-> "0" \in FlagSet(piece),
                    upper |-> piece.conv \in UpperConv,
                    base |-> BaseOf(piece.conv),
                    floatfield |-> FloatFieldOf(piece.conv),
                    width |-> IF piece.width.value < 0 THEN -piece.width.value ELSE piece.width.value,
                    precision |-> IF piece.precision.chars = <<>> THEN 6
                                  ELSE IF piece.precision.value < 0 THEN 0
                                  ELSE piece.precision.value],
        blank |-> " " \in FlagSet(piece) /\ piece.width.chars = <<>>
                    /\ piece.conv \in Signed \cup FloatConv]
  ELSE [lit |-> piece.lit, width |-> 0]

RenderAll(pieces) == FlattenSeq([i \in 1..Len(pieces) |-> Render(pieces[i])])
ArgsOfAll(pieces) == FlattenSeq([i \in 1..Len(pieces) |-> ArgsOf(pieces[i])])
Call(pieces) ==
  [format |-> RenderAll(pieces), args |-> ArgsOfAll(pieces), pieces |-> pieces]

-----------------------------------------------------------------------------
(***************************************************************************)
(* Properties.                                                             *)
(***************************************************************************)

\* Whatever the format, however it breaks off, the two iterators stay
\* between its first character and its terminator, and the stream's numbers
\* stay natural.
PrintTypeOK ==
  /\ fPtr \in 1..(Len(format) + 1)
  /\ uPtr \in 1..(Len(format) + 1)
  /\ phase \in {"text", "flags", "precision", "length", "convert", "done"}
  /\ stream.width \in Nat /\ stream.precision \in Nat
  /\ int_type \in {"LONG", "INT", "SHORT", "BYTE"}
  /\ float_type \in {"LONGD", "DOUBLE"}

\* Every format is worked through: no directive sends the loop in circles.
Finishes == <>(phase = "done")

\* A format put together from pieces is taken apart into the same pieces:
\* each field is printed with the settings its directive names and no
\* others, and va_arg is asked for the arguments a caller passes.
ReadsBack ==
  phase = "done" /\ "pieces" \in DOMAIN input =>
    /\ printed = [i \in 1..Len(input.pieces) |-> FieldOf(input.pieces[i])]
    /\ pulled = [i \in 1..Len(input.args) |-> input.args[i].type]

\* format.cpp:137-139 says that a directive begins with the "Default
\* variable settings": what argument it reads does not depend on the
\* directives before it.
DirectivesIndependent ==
  phase = "done" => pulled = [i \in 1..Len(input.args) |-> input.args[i].type]
=============================================================================
