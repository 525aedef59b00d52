----------------------------- MODULE PrintProofs -----------------------------
(***************************************************************************)
(* Proofs about FormatPrint: whatever the format and whatever an argument  *)
(* that was not passed reads as, both iterators stay inside the format,    *)
(* the loop works it through, and the caller's stream gets its settings    *)
(* back.                                                                   *)
(***************************************************************************)
EXTENDS FormatPrint, WellFoundedInduction, TLAPS

\* A set of natural numbers has a least element.
LEMMA Least ==
  ASSUME NEW T \in SUBSET Nat, T # {}
  PROVE  \E x \in T : \A y \in T : x <= y
<1>1. \E x \in T : \A y \in T : ~ (<<y, x>> \in OpToRel(<, Nat))
  BY NatLessThanWellFounded, WFMin
<1>2. PICK x \in T : \A y \in T : ~ (<<y, x>> \in OpToRel(<, Nat))
  BY <1>1
<1>3. \A y \in T : ~ (y < x)
  BY <1>2 DEF OpToRel
<1> QED
  BY <1>3

LEMMA FormatType ==
  ASSUME input \in Inputs
  PROVE  format \in Seq(STRING)
BY PrintAssumption DEF format

\* Past the format there is the terminator, so what is something else is in it.
LEMMA CharInside ==
  ASSUME format \in Seq(STRING), NEW i \in Nat \ {0}, CharAt(i) # NUL
  PROVE  i \in 1..Len(format)
BY DEF CharAt

-----------------------------------------------------------------------------
(***************************************************************************)
(* Numbers in the format.                                                  *)
(***************************************************************************)
LEMMA DigitNat == DOMAIN Digit = {"0", "1", "2"} /\ \A ch \in DOMAIN Digit : Digit[ch] \in Nat
BY DEF Digit

\* Digits end somewhere, at the terminator at the latest.
LEMMA DigitsEndType ==
  ASSUME format \in Seq(STRING), NEW i \in 1..(Len(format) + 1)
  PROVE  /\ DigitsEnd(i) \in i..(Len(format) + 1)
         /\ \A k \in i..(DigitsEnd(i) - 1) : CharAt(k) \in DOMAIN Digit
<1> DEFINE n == Len(format)
           T == {j \in i..(n + 1) : CharAt(j) \notin DOMAIN Digit}
<1>1. n \in Nat /\ i \in 1..(n + 1)
  OBVIOUS
<1>2. CharAt(n + 1) \notin DOMAIN Digit
  BY <1>1, DigitNat DEF CharAt, NUL
<1> HIDE DEF n
<1>3. T \in SUBSET Nat /\ n + 1 \in T
  BY <1>1, <1>2
<1>4. PICK j \in T : \A y \in T : j <= y
  <2> HIDE DEF T
  <2> QED
    BY <1>3, Least
<1>5. j \in i..(n + 1) /\ CharAt(j) \notin DOMAIN Digit
  OBVIOUS
<1>6. \A k \in i..(j - 1) : CharAt(k) \in DOMAIN Digit
  <2> SUFFICES ASSUME NEW k \in i..(j - 1), CharAt(k) \notin DOMAIN Digit PROVE FALSE
    OBVIOUS
  <2>1. k \in T
    BY <1>1, <1>5
  <2> QED
    <3> HIDE DEF T
    <3> QED
      BY <1>1, <1>4, <1>5, <2>1
<1> USE DEF n
<1>7. \E e \in i..(Len(format) + 1) : /\ CharAt(e) \notin DOMAIN Digit
                                     /\ \A k \in i..(e - 1) : CharAt(k) \in DOMAIN Digit
  BY <1>5, <1>6
<1> QED
  BY <1>7 DEF DigitsEnd

\* f[j] is the number that the digits from i to before j denote, up to e.
Reads(f, ds, i, e) == \A j \in i..e : f[j] = IF j = i THEN 0 ELSE f[j - 1] * 10 + ds[j - 1]

\* Digits can be read one by one, however many there are.
LEMMA ReadingExists ==
  ASSUME NEW ds, NEW i \in Nat
  PROVE  \A n \in Nat : \E f : Reads(f, ds, i, i + n)
<1> DEFINE Bad == {n \in Nat : ~ \E f : Reads(f, ds, i, i + n)}
<1> SUFFICES ASSUME Bad # {} PROVE FALSE
  OBVIOUS
<1>1. PICK n \in Bad : \A y \in Bad : n <= y
  <2>1. Bad \in SUBSET Nat
    OBVIOUS
  <2> HIDE DEF Bad
  <2> QED
    BY <2>1, Least
<1>2. n \in Nat /\ ~ \E f : Reads(f, ds, i, i + n)
  OBVIOUS
<1>3. CASE n = 0
  <2>1. Reads([j \in i..i |-> 0], ds, i, i + n)
    BY <1>3 DEF Reads
  <2> QED
    BY <2>1, <1>2
<1>4. CASE n # 0
  <2>1. n - 1 \in Nat
    BY <1>2, <1>4
  <2>2. n - 1 \notin Bad
    <3> HIDE DEF Bad
    <3> QED
      BY <1>1, <1>2, <2>1
  <2>3. PICK g : Reads(g, ds, i, i + (n - 1))
    BY <2>1, <2>2
  <2> DEFINE f == [j \in i..(i + n) |-> IF j = i + n THEN g[j - 1] * 10 + ds[j - 1] ELSE g[j]]
  <2>4. Reads(f, ds, i, i + n)
    BY <2>3, <1>2, <1>4 DEF Reads
  <2> QED
    BY <2>4, <1>2
<1> QED
  BY <1>3, <1>4

\* A number in the format is a natural one.
LEMMA NumberAtType ==
  ASSUME format \in Seq(STRING), NEW i \in 1..(Len(format) + 1)
  PROVE  NumberAt(i) \in Nat
<1> DEFINE e == DigitsEnd(i)
           Eq(f) == f = [j \in i..e |-> IF j = i THEN 0 ELSE f[j - 1] * 10 + Digit[CharAt(j - 1)]]
           upTo == CHOOSE f : Eq(f)
           ds == [j \in i..(e - 1) |-> Digit[CharAt(j)]]
<1>1. i \in Nat /\ e \in Nat /\ e >= i
  BY DigitsEndType
<1>2. \A j \in i..(e - 1) : ds[j] = Digit[CharAt(j)] /\ ds[j] \in Nat
  BY DigitsEndType, DigitNat
<1> HIDE DEF e, ds
<1>3. \E f : Eq(f)
  <2>1. e - i \in Nat /\ i + (e - i) = e
    BY <1>1
  <2>2. PICK f : Reads(f, ds, i, e)
    BY <1>1, <2>1, ReadingExists
  <2> DEFINE g == [j \in i..e |-> f[j]]
  <2>3. \A j \in i..e : g[j] = IF j = i THEN 0 ELSE g[j - 1] * 10 + Digit[CharAt(j - 1)]
    BY <1>1, <1>2, <2>2 DEF Reads
  <2>4. Eq(g)
    BY <2>3
  <2> QED
    BY <2>4
<1>4. Eq(upTo)
  <2> HIDE DEF Eq
  <2> QED
    BY <1>3
<1>5. \A j \in i..e : upTo[j] = IF j = i THEN 0 ELSE upTo[j - 1] * 10 + Digit[CharAt(j - 1)]
  <2> HIDE DEF upTo
  <2> QED
    BY <1>4
<1>6. NumberAt(i) = upTo[e]
  BY DEF NumberAt, e
<1> HIDE DEF upTo
<1> DEFINE Bad == {j \in i..e : upTo[j] \notin Nat}
<1> SUFFICES ASSUME Bad # {} PROVE FALSE
  BY <1>1, <1>6
<1>7. PICK j \in Bad : \A y \in Bad : j <= y
  <2>1. Bad \in SUBSET Nat
    BY <1>1
  <2> HIDE DEF Bad
  <2> QED
    BY <2>1, Least
<1>8. j \in i..e /\ upTo[j] \notin Nat
  OBVIOUS
<1>9. j # i
  BY <1>5, <1>8
<1>10. j - 1 \in i..(e - 1) /\ j - 1 \in i..e
  BY <1>1, <1>8, <1>9
<1>11. j - 1 \notin Bad
  <2> HIDE DEF Bad
  <2> QED
    BY <1>1, <1>7, <1>8, <1>10
<1>12. upTo[j - 1] \in Nat
  BY <1>10, <1>11
<1>13. Digit[CharAt(j - 1)] \in Nat
  BY <1>2, <1>10
<1> QED
  BY <1>5, <1>8, <1>9, <1>12, <1>13

-----------------------------------------------------------------------------
(***************************************************************************)
(* The inductive invariant: PrintTypeOK, with the type of what va_arg has  *)
(* been asked for, on which the next int depends, and that inside a        *)
(* directive its `%' has been passed.                                      *)
(***************************************************************************)
Settings ==
  {"left", "showpos", "alt", "zero", "upper", "base", "floatfield", "width", "precision"}

\* A stream has its settings, and the two numbers among them are natural.
IsStream(s) == DOMAIN s = Settings /\ s.width \in Nat /\ s.precision \in Nat

ArgTypes == {"int", "long", "double", "long double", "size_t", "char*", "void*"}

PrintInv ==
  /\ input \in Inputs
  /\ fPtr \in 1..(Len(format) + 1)
  /\ uPtr \in 1..(Len(format) + 1)
  /\ phase \in {"text", "flags", "precision", "length", "convert", "done"}
  /\ IsStream(stream)
  /\ int_type \in {"LONG", "INT", "SHORT", "BYTE"}
  /\ float_type \in {"LONGD", "DOUBLE"}
  /\ pulled \in Seq(ArgTypes)
  /\ phase \in {"flags", "precision", "length", "convert"} => fPtr > 1

\* Where the loop is on a character of the format, there is one.
LEMMA HereInside ==
  ASSUME PrintInv, Here # NUL
  PROVE  fPtr \in 1..Len(format)
BY FormatType DEF PrintInv, Here, CharAt

LEMMA CallerIsStream == IsStream(CallerStream)
BY PrintAssumption DEF IsStream, Settings

LEMMA InitPrint == PrintInit => PrintInv
<1> SUFFICES ASSUME PrintInit PROVE PrintInv
  OBVIOUS
<1>1. format \in Seq(STRING)
  BY FormatType DEF PrintInit
<1> QED
  BY <1>1, CallerIsStream DEF PrintInit, PrintInv

\* An int from va_arg is an int.
LEMMA NextIntsType ==
  ASSUME PrintInv, NEW v \in NextInts
  PROVE  v \in Int
<1>1. Len(pulled) + 1 \in Nat \ {0}
  BY DEF PrintInv
<1> DEFINE k == Len(pulled) + 1
<1>2. CASE k <= Len(input.args) /\ input.args[k].type = "int"
  <2>1. input \in Inputs /\ Len(input.args) \in Nat
    BY PrintAssumption DEF PrintInv
  <2>2. k \in 1..Len(input.args)
    BY <1>1, <1>2, <2>1
  <2>3. input.args[k].value \in Int
    BY <1>2, <2>1, <2>2, PrintAssumption, Zenon
  <2>4. v = input.args[k].value
    BY <1>2 DEF NextInts
  <2> QED
    BY <2>3, <2>4
<1>3. CASE ~(k <= Len(input.args) /\ input.args[k].type = "int")
  <2>1. v \in Garbage
    BY <1>3 DEF NextInts
  <2> QED
    BY <2>1, PrintAssumption
<1> QED
  BY <1>2, <1>3

\* What a step that keeps to the directive must show for the invariant.
LEMMA StepInv ==
  ASSUME PrintInv, input' = input,
         fPtr' \in 1..(Len(format) + 1), uPtr' \in 1..(Len(format) + 1),
         phase' \in {"text", "flags", "precision", "length", "convert"},
         IsStream(stream'), pulled' \in Seq(ArgTypes),
         int_type' \in {"LONG", "INT", "SHORT", "BYTE"}, float_type' \in {"LONGD", "DOUBLE"},
         phase' # "text" => fPtr' > 1
  PROVE  PrintInv'
BY DEF PrintInv, format, IsStream, Settings

LEMMA TextInv == PrintInv /\ Text => PrintInv'
<1> SUFFICES ASSUME PrintInv, Text PROVE PrintInv'
  OBVIOUS
<1>1. format \in Seq(STRING)
  BY FormatType DEF PrintInv
<1>2. IsStream(stream')
  BY DEF PrintInv, Text, PutLiterals, IsStream, Settings
<1>3. fPtr' \in 1..(Len(format) + 1)
  BY <1>1 DEF PrintInv, Text
<1> QED
  BY <1>2, <1>3, StepInv DEF PrintInv, Text, typeVars

LEMMA StartDirectiveInv == PrintInv /\ StartDirective => PrintInv'
<1> SUFFICES ASSUME PrintInv, StartDirective PROVE PrintInv'
  OBVIOUS
<1>1. format \in Seq(STRING)
  BY FormatType DEF PrintInv
<1>2. fPtr \in 1..Len(format)
  BY HereInside DEF StartDirective, NUL
<1>3. fPtr' \in 1..(Len(format) + 1) /\ uPtr' \in 1..(Len(format) + 1) /\ fPtr' > 1
  BY <1>1, <1>2 DEF StartDirective
<1>4. IsStream(stream')
  BY DEF StartDirective, DefaultStream, IsStream, Settings
<1>5. phase' \in {"flags", "length"}
  BY DEF StartDirective
<1> QED
  BY <1>3, <1>4, <1>5, StepInv DEF PrintInv, StartDirective, typeVars

LEMMA FlagInv == PrintInv /\ Flag => PrintInv'
<1> SUFFICES ASSUME PrintInv, Flag PROVE PrintInv'
  OBVIOUS
<1>1. format \in Seq(STRING)
  BY FormatType DEF PrintInv
<1>2. fPtr \in 1..Len(format)
  BY HereInside DEF Flag, Flags, NUL
<1>3. fPtr' \in 1..(Len(format) + 1) /\ fPtr' > 1
  <2>1. fPtr' = fPtr + 1
    BY DEF Flag
  <2> QED
    BY <1>1, <1>2, <2>1
<1>4. IsStream(stream')
  <2>1. /\ DOMAIN stream' = DOMAIN stream
        /\ stream'.width = stream.width
        /\ stream'.precision = stream.precision
    BY DEF PrintInv, Flag, WithFlag, IsStream, Settings
  <2> QED
    BY <2>1 DEF PrintInv, IsStream
<1> QED
  BY <1>3, <1>4, StepInv DEF PrintInv, Flag, typeVars

LEMMA WidthInv == PrintInv /\ Width => PrintInv'
<1> SUFFICES ASSUME PrintInv, Width PROVE PrintInv'
  OBVIOUS
<1>1. format \in Seq(STRING) /\ fPtr \in 1..(Len(format) + 1) /\ fPtr > 1
  BY FormatType DEF PrintInv, Width
<1>2. IsStream(stream) /\ pulled \in Seq(ArgTypes)
  BY DEF PrintInv
<1>3. fPtr' \in 1..(Len(format) + 1) /\ fPtr' > 1 /\ IsStream(stream') /\ pulled' \in Seq(ArgTypes)
  <2>1. CASE Here \in DOMAIN Digit
    <3>1. /\ stream' = [stream EXCEPT !.width = NumberAt(fPtr)]
          /\ fPtr' = DigitsEnd(fPtr) /\ pulled' = pulled
      BY <2>1, DigitNat DEF Width
    <3>2. NumberAt(fPtr) \in Nat /\ DigitsEnd(fPtr) \in fPtr..(Len(format) + 1)
      BY <1>1, NumberAtType, DigitsEndType, Zenon
    <3> QED
      BY <1>1, <1>2, <3>1, <3>2 DEF IsStream, Settings
  <2>2. CASE Here = "*"
    <3>1. PICK v \in NextInts :
            stream' = [stream EXCEPT !.left = @ \/ v < 0, !.width = IF v < 0 THEN -v ELSE v]
      BY <2>2, DigitNat DEF Width
    <3>2. fPtr' = fPtr + 1 /\ pulled' = Append(pulled, "int")
      BY <2>2, DigitNat DEF Width, PullInt
    <3>3. fPtr \in 1..Len(format)
      BY <2>2, HereInside DEF NUL
    <3>4. v \in Int
      BY NextIntsType
    <3>5. (IF v < 0 THEN -v ELSE v) \in Nat
      BY <3>4
    <3>6. /\ DOMAIN stream' = DOMAIN stream
          /\ stream'.width = IF v < 0 THEN -v ELSE v
          /\ stream'.precision = stream.precision
      BY <1>2, <3>1 DEF IsStream, Settings
    <3>7. IsStream(stream')
      BY <1>2, <3>5, <3>6 DEF IsStream
    <3>8. pulled' \in Seq(ArgTypes)
      <4>1. "int" \in ArgTypes
        BY DEF ArgTypes
      <4> QED
        BY <1>2, <3>2, <4>1
    <3>9. fPtr' \in 1..(Len(format) + 1) /\ fPtr' > 1
      BY <1>1, <3>2, <3>3
    <3> QED
      BY <3>7, <3>8, <3>9
  <2>3. CASE Here \notin DOMAIN Digit \cup {"*"}
    BY <1>1, <1>2, <2>3 DEF Width
  <2> QED
    BY <2>1, <2>2, <2>3
<1> QED
  BY <1>3, StepInv DEF PrintInv, Width, typeVars

LEMMA PrecisionInv == PrintInv /\ Precision => PrintInv'
<1> SUFFICES ASSUME PrintInv, Precision PROVE PrintInv'
  OBVIOUS
<1>1. format \in Seq(STRING) /\ fPtr \in 1..(Len(format) + 1) /\ fPtr > 1
  BY FormatType DEF PrintInv, Precision
<1>2. IsStream(stream) /\ pulled \in Seq(ArgTypes)
  BY DEF PrintInv
<1>3. Here = "." => fPtr + 1 \in 1..(Len(format) + 1)
  BY <1>1, HereInside DEF NUL
<1>4. fPtr' \in 1..(Len(format) + 1) /\ fPtr' > 1 /\ IsStream(stream') /\ pulled' \in Seq(ArgTypes)
  <2>1. CASE Here # "."
    BY <1>1, <1>2, <2>1 DEF Precision
  <2>2. CASE Here = "." /\ CharAt(fPtr + 1) \in DOMAIN Digit
    <3>1. /\ stream' = [stream EXCEPT !.precision = NumberAt(fPtr + 1)]
          /\ fPtr' = DigitsEnd(fPtr + 1) /\ pulled' = pulled
      BY <2>2, DigitNat DEF Precision
    <3>2. /\ NumberAt(fPtr + 1) \in Nat
          /\ DigitsEnd(fPtr + 1) \in (fPtr + 1)..(Len(format) + 1)
      BY <1>1, <1>3, <2>2, NumberAtType, DigitsEndType, Zenon
    <3> QED
      BY <1>1, <1>2, <3>1, <3>2 DEF IsStream, Settings
  <2>3. CASE Here = "." /\ CharAt(fPtr + 1) = "*"
    <3>1. PICK v \in NextInts : stream' = [stream EXCEPT !.precision = IF v < 0 THEN 0 ELSE v]
      BY <2>3, DigitNat DEF Precision
    <3>2. fPtr' = fPtr + 2 /\ pulled' = Append(pulled, "int")
      BY <2>3, DigitNat DEF Precision, PullInt
    <3>3. fPtr + 1 \in 1..Len(format)
      BY <1>1, <2>3, CharInside DEF NUL
    <3>4. v \in Int
      BY NextIntsType
    <3>5. (IF v < 0 THEN 0 ELSE v) \in Nat
      BY <3>4
    <3>6. IsStream(stream')
      BY <1>2, <3>1, <3>5 DEF IsStream, Settings
    <3>7. pulled' \in Seq(ArgTypes)
      <4>1. "int" \in ArgTypes
        BY DEF ArgTypes
      <4> QED
        BY <1>2, <3>2, <4>1
    <3>8. fPtr' \in 1..(Len(format) + 1) /\ fPtr' > 1
      BY <1>1, <3>2, <3>3
    <3> QED
      BY <3>6, <3>7, <3>8
  <2>4. CASE Here = "." /\ CharAt(fPtr + 1) \notin DOMAIN Digit \cup {"*"}
    BY <1>1, <1>2, <1>3, <2>4 DEF Precision
  <2> QED
    BY <2>1, <2>2, <2>3, <2>4
<1> QED
  BY <1>4, StepInv DEF PrintInv, Precision, typeVars

LEMMA LengthInv == PrintInv /\ Length => PrintInv'
<1> SUFFICES ASSUME PrintInv, Length PROVE PrintInv'
  OBVIOUS
<1>1. format \in Seq(STRING) /\ fPtr \in 1..(Len(format) + 1) /\ fPtr > 1
  BY FormatType DEF PrintInv, Length
<1>2. int_type' \in {"LONG", "INT", "SHORT", "BYTE"} /\ float_type' \in {"LONGD", "DOUBLE"}
  BY DEF PrintInv, Length
<1>3. Here # NUL => fPtr + 1 \in 1..(Len(format) + 1)
  BY <1>1, HereInside
<1>4. Here # NUL /\ CharAt(fPtr + 1) = Here => fPtr + 2 \in 1..(Len(format) + 1)
  <2> SUFFICES ASSUME Here # NUL, CharAt(fPtr + 1) = Here PROVE fPtr + 2 \in 1..(Len(format) + 1)
    OBVIOUS
  <2>1. fPtr + 1 \in 1..Len(format)
    BY <1>1, CharInside
  <2> QED
    BY <1>1, <2>1
<1>5. fPtr' \in 1..(Len(format) + 1) /\ fPtr' > 1
  <2>1. CASE Here \notin {"l", "h", "L"}
    BY <1>1, <2>1 DEF Length
  <2>2. CASE Here \in {"l", "h", "L"}
    <3>1. \/ fPtr' = fPtr + 1
          \/ fPtr' = fPtr + 2 /\ CharAt(fPtr + 1) = Here
      BY <2>2 DEF Length
    <3>2. Here # NUL
      BY <2>2 DEF NUL
    <3> QED
      BY <1>1, <1>3, <1>4, <3>1, <3>2
  <2> QED
    BY <2>1, <2>2
<1> QED
  BY <1>2, <1>5, StepInv DEF PrintInv, Length

LEMMA ConvertInv == PrintInv /\ Convert => PrintInv'
<1> SUFFICES ASSUME PrintInv, Convert PROVE PrintInv'
  OBVIOUS
<1>1. format \in Seq(STRING)
  BY FormatType DEF PrintInv
<1>2. Here # NUL
  BY DEF Convert, Conversion, IntConv, Signed, FloatConv, OtherConv, NUL
<1>3. fPtr' \in 1..(Len(format) + 1) /\ phase' = "text"
  BY <1>1, <1>2, HereInside DEF Convert
<1>4. IsStream(stream')
  <2>1. /\ DOMAIN stream' = DOMAIN stream
        /\ stream'.width = 0
        /\ stream'.precision = stream.precision
    BY DEF PrintInv, Convert, FieldStream, IsStream, Settings
  <2> QED
    BY <2>1 DEF PrintInv, IsStream
<1>5. pulled' \in Seq(ArgTypes)
  <2> DEFINE arg == IF Here \in IntConv THEN IntArg(int_type)
                    ELSE IF Here \in FloatConv THEN FloatArg(float_type)
                    ELSE OtherArg(Here)
  <2>1. pulled' = Append(pulled, arg)
    BY DEF Convert
  <2>2. Here \in OtherConv => OtherArg(Here) \in ArgTypes
    BY DEF OtherConv, OtherArg, ArgTypes
  <2>3. IntArg(int_type) \in ArgTypes /\ FloatArg(float_type) \in ArgTypes
    BY DEF IntArg, FloatArg, ArgTypes
  <2>4. arg \in ArgTypes
    BY <2>2, <2>3 DEF Convert, Conversion
  <2> HIDE DEF arg
  <2> QED
    BY <2>1, <2>4 DEF PrintInv
<1> QED
  BY <1>3, <1>4, <1>5, StepInv DEF PrintInv, Convert, typeVars

LEMMA PercentInv == PrintInv /\ Percent => PrintInv'
<1> SUFFICES ASSUME PrintInv, Percent PROVE PrintInv'
  OBVIOUS
<1>1. format \in Seq(STRING)
  BY FormatType DEF PrintInv
<1>2. fPtr' \in 1..(Len(format) + 1)
  BY <1>1, HereInside DEF Percent, NUL
<1>3. IsStream(stream')
  BY DEF PrintInv, Percent, PutLiterals, IsStream, Settings
<1> QED
  BY <1>2, <1>3, StepInv DEF PrintInv, Percent, typeVars

LEMMA UnfinishedInv == PrintInv /\ Unfinished => PrintInv'
<1> SUFFICES ASSUME PrintInv, Unfinished PROVE PrintInv'
  OBVIOUS
<1> QED
  BY StepInv DEF PrintInv, Unfinished, typeVars

LEMMA UnknownInv == PrintInv /\ Unknown => PrintInv'
<1> SUFFICES ASSUME PrintInv, Unknown PROVE PrintInv'
  OBVIOUS
<1>1. format \in Seq(STRING)
  BY FormatType DEF PrintInv
<1>2. fPtr \in 1..Len(format)
  BY HereInside DEF Unknown
<1>3. fPtr' \in 1..(Len(format) + 1) /\ uPtr' \in 1..(Len(format) + 1)
  BY <1>1, <1>2 DEF Unknown
<1>4. IsStream(stream')
  BY DEF PrintInv, Unknown, PutLiterals, IsStream, Settings
<1> QED
  BY <1>3, <1>4, StepInv DEF PrintInv, Unknown, typeVars

LEMMA FinishInv == PrintInv /\ Finish => PrintInv'
<1> SUFFICES ASSUME PrintInv, Finish PROVE PrintInv'
  OBVIOUS
<1> QED
  BY CallerIsStream DEF PrintInv, Finish, typeVars, format, IsStream

LEMMA PrintStutterInv == PrintInv /\ UNCHANGED printVars => PrintInv'
BY DEF PrintInv, printVars, typeVars, format, IsStream

LEMMA PrintStepInv == PrintInv /\ [PrintNext]_printVars => PrintInv'
BY TextInv, StartDirectiveInv, FlagInv, WidthInv, PrecisionInv, LengthInv, ConvertInv, PercentInv,
   UnfinishedInv, UnknownInv, FinishInv, PrintStutterInv DEF PrintNext, Step, Printed

LEMMA PrintInvariant == PrintSpec => []PrintInv
BY InitPrint, PrintStepInv, PTL DEF PrintSpec

\* Whatever the format, and whatever an argument that was not passed reads
\* as, the iterators stay inside the format and the stream's width and
\* precision stay natural.
THEOREM PrintTypes == PrintSpec => []PrintTypeOK
<1>1. PrintInv => PrintTypeOK
  BY DEF PrintInv, PrintTypeOK, IsStream
<1> QED
  BY <1>1, PrintInvariant, PTL

-----------------------------------------------------------------------------
(***************************************************************************)
(* The loop goes on.                                                       *)
(***************************************************************************)

\* How far the loop is from its end: a character of the format takes it
\* through the phases of a directive at most once.
Rank ==
  CASE phase = "flags" -> 5 [] phase = "precision" -> 4 [] phase = "length" -> 3
    [] phase = "convert" -> 2 [] phase = "text" -> 1 [] phase = "done" -> 0
PrintDistance == 5 * (Len(format) + 1 - fPtr) + Rank

LEMMA RankType ==
  ASSUME PrintInv
  PROVE  /\ Rank \in 0..5
         /\ phase = "flags" => Rank = 5
         /\ phase = "precision" => Rank = 4
         /\ phase = "length" => Rank = 3
         /\ phase = "convert" => Rank = 2
         /\ phase = "text" => Rank = 1
         /\ phase = "done" => Rank = 0
BY DEF PrintInv, Rank

LEMMA InvPrintDistance == PrintInv => PrintDistance \in 0..(5 * Len(format) + 1)
<1> SUFFICES ASSUME PrintInv PROVE PrintDistance \in 0..(5 * Len(format) + 1)
  OBVIOUS
<1>1. Len(format) \in Nat /\ fPtr \in 1..(Len(format) + 1)
  BY FormatType DEF PrintInv
<1>2. Rank \in 0..5 /\ (Rank > 1 => fPtr > 1)
  BY RankType DEF PrintInv
<1> QED
  BY <1>1, <1>2 DEF PrintDistance

LEMMA StepDistance ==
  ASSUME PrintInv, PrintInv', Step
  PROVE  PrintDistance' < PrintDistance
<1>1. Len(format) \in Nat /\ fPtr \in Int /\ fPtr' \in Int /\ Len(format') = Len(format)
  <2>1. input' = input
    BY DEF Step, Text, StartDirective, Flag, Width, Precision, Length, Convert, Percent,
       Unfinished, Unknown, Finish
  <2>2. Len(format) \in Nat /\ fPtr \in Int
    BY FormatType DEF PrintInv
  <2>3. Len(format') = Len(format)
    BY <2>1 DEF format
  <2>4. fPtr' \in 1..(Len(format') + 1)
    BY DEF PrintInv
  <2> QED
    BY <2>2, <2>3, <2>4
<1>2. /\ Rank' \in 0..5
      /\ phase' = "flags" => Rank' = 5
      /\ phase' = "precision" => Rank' = 4
      /\ phase' = "length" => Rank' = 3
      /\ phase' = "convert" => Rank' = 2
      /\ phase' = "text" => Rank' = 1
      /\ phase' = "done" => Rank' = 0
  BY DEF PrintInv, Rank
<1>3. PrintInv => /\ Rank \in 0..5
                  /\ phase = "flags" => Rank = 5
                  /\ phase = "precision" => Rank = 4
                  /\ phase = "length" => Rank = 3
                  /\ phase = "convert" => Rank = 2
                  /\ phase = "text" => Rank = 1
                  /\ phase = "done" => Rank = 0
  BY RankType
<1>4. \/ fPtr' >= fPtr + 1 /\ Rank' <= Rank + 4
      \/ fPtr' >= fPtr /\ Rank' < Rank
  <2>1. CASE Text
    BY <1>1, <1>2, <1>3, <2>1 DEF Text
  <2>2. CASE StartDirective
    <3>1. fPtr' = fPtr + 1 /\ phase = "text"
      BY <2>2 DEF StartDirective
    <3> QED
      BY <1>1, <1>2, <1>3, <3>1
  <2>3. CASE Flag
    <3>1. fPtr' = fPtr + 1 /\ phase = "flags" /\ phase' = "flags"
      BY <2>3 DEF Flag
    <3> QED
      BY <1>1, <1>2, <1>3, <3>1
  <2>4. CASE Width
    <3>1. phase = "flags" /\ phase' = "precision"
      BY <2>4 DEF Width
    <3>2. DigitsEnd(fPtr) \in fPtr..(Len(format) + 1)
      BY FormatType, DigitsEndType, Zenon DEF PrintInv
    <3>3. fPtr' \in {fPtr, fPtr + 1, DigitsEnd(fPtr)}
      BY <2>4 DEF Width
    <3> QED
      BY <1>1, <1>2, <1>3, <3>1, <3>2, <3>3
  <2>5. CASE Precision
    <3>1. phase = "precision" /\ phase' = "length"
      BY <2>5 DEF Precision
    <3>2. CASE Here = "."
      <4>1. fPtr + 1 \in 1..(Len(format) + 1)
        BY <1>1, <3>2, HereInside DEF NUL
      <4>2. DigitsEnd(fPtr + 1) \in (fPtr + 1)..(Len(format) + 1)
        BY <4>1, FormatType, DigitsEndType, Zenon DEF PrintInv
      <4>3. fPtr' \in {fPtr + 1, fPtr + 2, DigitsEnd(fPtr + 1)}
        BY <2>5, <3>2 DEF Precision
      <4> QED
        BY <1>1, <1>2, <1>3, <3>1, <4>2, <4>3
    <3>3. CASE Here # "."
      BY <1>1, <1>2, <1>3, <2>5, <3>1, <3>3 DEF Precision
    <3> QED
      BY <3>2, <3>3
  <2>6. CASE Length
    <3>1. phase = "length" /\ phase' = "convert" /\ fPtr' \in {fPtr, fPtr + 1, fPtr + 2}
      BY <2>6 DEF Length
    <3> QED
      BY <1>1, <1>2, <1>3, <3>1
  <2>7. CASE Convert
    <3>1. phase = "convert" /\ phase' = "text" /\ fPtr' = fPtr + 1
      BY <2>7 DEF Convert
    <3> QED
      BY <1>1, <1>2, <1>3, <3>1
  <2>8. CASE Percent
    <3>1. phase = "convert" /\ phase' = "text" /\ fPtr' = fPtr + 1
      BY <2>8 DEF Percent
    <3> QED
      BY <1>1, <1>2, <1>3, <3>1
  <2>9. CASE Unfinished
    <3>1. phase = "convert" /\ phase' = "text" /\ fPtr' = fPtr
      BY <2>9 DEF Unfinished
    <3> QED
      BY <1>1, <1>2, <1>3, <3>1
  <2>10. CASE Unknown
    <3>1. phase = "convert" /\ phase' = "text" /\ fPtr' = fPtr + 1
      BY <2>10 DEF Unknown
    <3> QED
      BY <1>1, <1>2, <1>3, <3>1
  <2>11. CASE Finish
    <3>1. phase = "text" /\ phase' = "done" /\ fPtr' = fPtr
      BY <2>11 DEF Finish
    <3> QED
      BY <1>1, <1>2, <1>3, <3>1
  <2> QED
    BY <2>1, <2>2, <2>3, <2>4, <2>5, <2>6, <2>7, <2>8, <2>9, <2>10, <2>11 DEF Step
<1>5. PrintDistance' = 5 * (Len(format) + 1 - fPtr') + Rank'
  BY <1>1 DEF PrintDistance
<1>6. PrintDistance = 5 * (Len(format) + 1 - fPtr) + Rank
  BY DEF PrintDistance
<1>7. \A n, f, g, r, q \in Int :
        (g >= f + 1 /\ q <= r + 4) \/ (g >= f /\ q < r)
          => 5 * (n + 1 - g) + q < 5 * (n + 1 - f) + r
  OBVIOUS
<1>8. Rank \in Int /\ Rank' \in Int /\ Len(format) \in Int
  BY <1>1, <1>2, <1>3
<1> QED
  BY <1>1, <1>4, <1>5, <1>6, <1>7, <1>8

\* Whatever the format and the arguments: every step of the loop takes it on,
\* so no directive sends it in circles.  That it then ends, if it only keeps
\* running, is Finishes.
THEOREM PrintWorksThrough == PrintSpec => [][PrintDistance' < PrintDistance]_printVars
<1>1. PrintInv /\ PrintInv' /\ [PrintNext]_printVars => [PrintDistance' < PrintDistance]_printVars
  BY StepDistance DEF PrintNext, Printed
<1> QED
  BY <1>1, PrintInvariant, PTL DEF PrintSpec

\* And there is an end to it: no call takes more steps than its format has
\* characters, five times, and one.
THEOREM PrintBounded == PrintSpec => [](PrintDistance \in 0..(5 * Len(format) + 1))
BY PrintInvariant, InvPrintDistance, PTL
=============================================================================
