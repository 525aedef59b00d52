----------------------------- MODULE ScanProofs -----------------------------
(***************************************************************************)
(* Proofs about FormatScan: whatever the format and the text, the loop     *)
(* stays inside both, works the format through, counts only what it has    *)
(* stored, and stores nothing once the text has failed.                    *)
(*                                                                         *)
(* What an extraction gives rests on the number that digits denote being   *)
(* one: the recursive functions of FormatScan are shown to exist and to    *)
(* have numbers as values by taking a least argument where they do not.    *)
(***************************************************************************)
EXTENDS FormatScan, WellFoundedInduction, SequenceTheorems, TLAPS

\* A set of natural numbers has a least element.
LEMMA Least ==
  ASSUME NEW T \in SUBSET Nat, T # {}
  PROVE  \E x \in T : \A y \in T : x <= y
<1>1. IsWellFoundedOn(OpToRel(<, Nat), Nat)
  BY NatLessThanWellFounded
<1>2. \E x \in T : \A y \in T : ~ (<<y, x>> \in OpToRel(<, Nat))
  BY <1>1, WFMin
<1>3. PICK x \in T : \A y \in T : ~ (<<y, x>> \in OpToRel(<, Nat))
  BY <1>2
<1>4. \A y \in T : ~ (y < x)
  BY <1>3 DEF OpToRel
<1> QED
  BY <1>4

-----------------------------------------------------------------------------
(***************************************************************************)
(* The two recursive functions.                                            *)
(***************************************************************************)

\* f doubles at every step up to n.
Doubles(f, n) == \A k \in 0..n : f[k] = IF k = 0 THEN 1 ELSE 2 * f[k - 1]

\* As far as one likes, there is a function that doubles.
LEMMA DoublingExists == \A n \in Nat : \E f : Doubles(f, n)
<1> DEFINE Bad == {n \in Nat : ~ \E f : Doubles(f, n)}
<1> SUFFICES ASSUME Bad # {} PROVE FALSE
  OBVIOUS
<1>1. PICK n \in Bad : \A y \in Bad : n <= y
  <2>1. Bad \in SUBSET Nat
    OBVIOUS
  <2> HIDE DEF Bad
  <2> QED
    BY <2>1, Least
<1>2. n \in Nat /\ ~ \E f : Doubles(f, n)
  OBVIOUS
<1>3. CASE n = 0
  <2>1. Doubles([k \in 0..0 |-> 1], n)
    BY <1>3 DEF Doubles
  <2> QED
    BY <2>1, <1>2
<1>4. CASE n # 0
  <2>1. n - 1 \in Nat
    BY <1>2, <1>4
  <2>2. n - 1 \notin Bad
    <3> HIDE DEF Bad
    <3> QED
      BY <1>1, <1>2, <2>1
  <2>3. PICK g : Doubles(g, n - 1)
    BY <2>1, <2>2
  <2> DEFINE f == [k \in 0..n |-> IF k = n THEN 2 * g[n - 1] ELSE g[k]]
  <2>4. Doubles(f, n)
    BY <2>3, <1>2, <1>4 DEF Doubles
  <2> QED
    BY <2>4, <1>2
<1> QED
  BY <1>3, <1>4

\* Two such functions agree.
LEMMA DoublingUnique ==
  ASSUME NEW f, NEW g, NEW n \in Nat, Doubles(f, n), Doubles(g, n)
  PROVE  f[n] = g[n]
<1> DEFINE Bad == {k \in 0..n : f[k] # g[k]}
<1> SUFFICES ASSUME Bad # {} PROVE FALSE
  OBVIOUS
<1>1. PICK k \in Bad : \A y \in Bad : k <= y
  <2>1. Bad \in SUBSET Nat
    OBVIOUS
  <2> HIDE DEF Bad
  <2> QED
    BY <2>1, Least
<1>2. k \in 0..n /\ f[k] # g[k]
  OBVIOUS
<1>3. k # 0
  BY <1>2 DEF Doubles
<1>4. k - 1 \in 0..n
  BY <1>2, <1>3
<1>5. k - 1 \notin Bad
  <2> HIDE DEF Bad
  <2> QED
    BY <1>1, <1>2, <1>4
<1>6. f[k - 1] = g[k - 1]
  BY <1>4, <1>5
<1> QED
  BY <1>2, <1>3, <1>6 DEF Doubles

\* A power of two is a number, and a positive one.
LEMMA Pow2Type == \A n \in Nat : Pow2[n] \in Nat \ {0}
<1> DEFINE Upto(n) == CHOOSE f : Doubles(f, n)
           F == [n \in Nat |-> Upto(n)[n]]
<1>1. \A n \in Nat : Doubles(Upto(n), n)
  BY DoublingExists
<1>2. \A n \in Nat : F[n] = IF n = 0 THEN 1 ELSE 2 * F[n - 1]
  <2> SUFFICES ASSUME NEW n \in Nat PROVE F[n] = IF n = 0 THEN 1 ELSE 2 * F[n - 1]
    OBVIOUS
  <2>1. CASE n = 0
    BY <1>1, <2>1 DEF Doubles
  <2>2. CASE n # 0
    <3>1. n - 1 \in Nat
      BY <2>2
    <3>2. Doubles(Upto(n), n - 1) /\ Upto(n)[n] = 2 * Upto(n)[n - 1]
      <4>1. Doubles(Upto(n), n)
        BY <1>1
      <4> HIDE DEF Upto
      <4> QED
        BY <4>1, <2>2 DEF Doubles
    <3>3. Doubles(Upto(n - 1), n - 1)
      BY <1>1, <3>1
    <3>4. Upto(n)[n - 1] = Upto(n - 1)[n - 1]
      <4> HIDE DEF Upto
      <4> QED
        BY <3>1, <3>2, <3>3, DoublingUnique
    <3> QED
      <4> HIDE DEF Upto
      <4> QED
        BY <3>1, <3>2, <3>4, <2>2
  <2> QED
    BY <2>1, <2>2
<1>3. F = [n \in Nat |-> IF n = 0 THEN 1 ELSE 2 * F[n - 1]]
  <2> HIDE DEF Upto
  <2>1. F = [n \in Nat |-> F[n]]
    OBVIOUS
  <2> QED
    BY <1>2, <2>1
<1>4. Pow2 = [n \in Nat |-> IF n = 0 THEN 1 ELSE 2 * Pow2[n - 1]]
  <2> HIDE DEF F
  <2> QED
    BY <1>3 DEF Pow2
<1>5. \A n \in Nat : Pow2[n] = IF n = 0 THEN 1 ELSE 2 * Pow2[n - 1]
  BY <1>4
<1> DEFINE Bad == {n \in Nat : Pow2[n] \notin Nat \ {0}}
<1> SUFFICES ASSUME Bad # {} PROVE FALSE
  OBVIOUS
<1>6. PICK n \in Bad : \A y \in Bad : n <= y
  <2>1. Bad \in SUBSET Nat
    OBVIOUS
  <2> HIDE DEF Bad
  <2> QED
    BY <2>1, Least
<1>7. n \in Nat /\ Pow2[n] \notin Nat \ {0}
  OBVIOUS
<1>8. n # 0
  BY <1>5, <1>7
<1>9. n - 1 \in Nat
  BY <1>7, <1>8
<1>10. n - 1 \notin Bad
  <2> HIDE DEF Bad
  <2> QED
    BY <1>6, <1>7, <1>9
<1>11. Pow2[n - 1] \in Nat \ {0}
  BY <1>9, <1>10
<1> QED
  BY <1>5, <1>7, <1>8, <1>11

\* A digit of base 16 or less denotes a number below 16.
LEMMA DigitType ==
  ASSUME NEW b \in 0..16, NEW ch \in Digits(b)
  PROVE  DigitOf(ch) \in 0..15
<1>1. PICK d \in 1..b : ch = DigitChars[d]
  BY DEF Digits
<1>2. d - 1 \in 0..15 /\ DigitChars[(d - 1) + 1] = ch
  BY <1>1
<1> QED
  BY <1>2 DEF DigitOf

\* f[k] is the number that the first k of the digits denote, up to n.
Reads(f, digits, b, n) ==
  \A k \in 0..n : f[k] = IF k = 0 THEN 0 ELSE f[k - 1] * b + DigitOf(digits[k])

\* Digits can be read one by one, however many there are.
LEMMA ReadingExists ==
  ASSUME NEW digits, NEW b
  PROVE  \A n \in Nat : \E f : Reads(f, digits, b, n)
<1> DEFINE Bad == {n \in Nat : ~ \E f : Reads(f, digits, b, n)}
<1> SUFFICES ASSUME Bad # {} PROVE FALSE
  OBVIOUS
<1>1. PICK n \in Bad : \A y \in Bad : n <= y
  <2>1. Bad \in SUBSET Nat
    OBVIOUS
  <2> HIDE DEF Bad
  <2> QED
    BY <2>1, Least
<1>2. n \in Nat /\ ~ \E f : Reads(f, digits, b, n)
  OBVIOUS
<1>3. CASE n = 0
  <2>1. Reads([k \in 0..0 |-> 0], digits, b, n)
    BY <1>3 DEF Reads
  <2> QED
    BY <2>1, <1>2
<1>4. CASE n # 0
  <2>1. n - 1 \in Nat
    BY <1>2, <1>4
  <2>2. n - 1 \notin Bad
    <3> HIDE DEF Bad
    <3> QED
      BY <1>1, <1>2, <2>1
  <2>3. PICK g : Reads(g, digits, b, n - 1)
    BY <2>1, <2>2
  <2> DEFINE f == [k \in 0..n |-> IF k = n THEN g[n - 1] * b + DigitOf(digits[n]) ELSE g[k]]
  <2>4. Reads(f, digits, b, n)
    BY <2>3, <1>2, <1>4 DEF Reads
  <2> QED
    BY <2>4, <1>2
<1> QED
  BY <1>3, <1>4

\* What digits denote in a base is a number.
LEMMA NumberOfType ==
  ASSUME NEW b \in 0..16, NEW digits \in Seq(STRING),
         \A i \in 1..Len(digits) : digits[i] \in Digits(b)
  PROVE  NumberOf(digits, b) \in Int
<1> DEFINE n == Len(digits)
           Eq(f) == f = [k \in 0..n |-> IF k = 0 THEN 0 ELSE f[k - 1] * b + DigitOf(digits[k])]
           upTo == CHOOSE f : Eq(f)
<1>1. n \in Nat
  OBVIOUS
<1>2. \E f : Eq(f)
  <2>1. PICK f : Reads(f, digits, b, n)
    BY <1>1, ReadingExists
  <2> DEFINE g == [k \in 0..n |-> f[k]]
  <2> HIDE DEF n
  <2>2. \A k \in 0..n : g[k] = IF k = 0 THEN 0 ELSE g[k - 1] * b + DigitOf(digits[k])
    BY <1>1, <2>1 DEF Reads
  <2>3. Eq(g)
    BY <2>2
  <2> QED
    BY <2>3
<1>3. Eq(upTo)
  <2> HIDE DEF Eq
  <2> QED
    BY <1>2
<1>4. \A k \in 0..n : upTo[k] = IF k = 0 THEN 0 ELSE upTo[k - 1] * b + DigitOf(digits[k])
  <2> HIDE DEF upTo, n
  <2> QED
    BY <1>3
<1>5. NumberOf(digits, b) = upTo[n]
  BY DEF NumberOf
<1> HIDE DEF upTo
<1> DEFINE Bad == {k \in 0..n : upTo[k] \notin Int}
<1> SUFFICES ASSUME Bad # {} PROVE FALSE
  BY <1>1, <1>5
<1>6. PICK k \in Bad : \A y \in Bad : k <= y
  <2>1. Bad \in SUBSET Nat
    BY <1>1
  <2> HIDE DEF Bad
  <2> QED
    BY <2>1, Least
<1>7. k \in 0..n /\ upTo[k] \notin Int
  OBVIOUS
<1>8. k # 0
  BY <1>4, <1>7
<1>9. k - 1 \in 0..n
  BY <1>1, <1>7, <1>8
<1>10. k - 1 \notin Bad
  <2> HIDE DEF Bad
  <2> QED
    BY <1>6, <1>7, <1>9
<1>11. upTo[k - 1] \in Int
  BY <1>9, <1>10
<1>12. DigitOf(digits[k]) \in Int
  <2>1. digits[k] \in Digits(b)
    BY <1>1, <1>7, <1>8
  <2>2. DigitOf(digits[k]) \in 0..15
    BY <2>1, DigitType
  <2> QED
    BY <2>2
<1> QED
  BY <1>4, <1>7, <1>8, <1>11, <1>12

-----------------------------------------------------------------------------
(***************************************************************************)
(* What an extraction gives.                                               *)
(***************************************************************************)

\* What a variable of the caller may be given.
Values == STRING \cup Int \cup Seq(STRING)

\* Format and text are sequences of characters.
LEMMA CallType ==
  ASSUME call \in Calls
  PROVE  format \in Seq(STRING) /\ text \in Seq(STRING)
BY ScanAssumption DEF format, text

\* Whatever is looked for ends somewhere, past the text at the latest.
LEMMA EndOfType ==
  ASSUME text \in Seq(STRING), NEW i \in 1..(Len(text) + 1), NEW chars
  PROVE  /\ EndOf(i, chars) \in i..(Len(text) + 1)
         /\ \A k \in i..(EndOf(i, chars) - 1) : text[k] \in chars
<1> DEFINE n == Len(text)
           T == {j \in i..(n + 1) : j <= n => text[j] \notin chars}
<1>1. n \in Nat /\ i \in 1..(n + 1)
  OBVIOUS
<1> HIDE DEF n
<1>2. T \in SUBSET Nat
  BY <1>1
<1>3. n + 1 \in T
  BY <1>1
<1>4. PICK j \in T : \A y \in T : j <= y
  <2> HIDE DEF T
  <2> QED
    BY <1>2, <1>3, Least
<1>5. j \in i..(n + 1) /\ (j <= n => text[j] \notin chars)
  OBVIOUS
<1>6. \A k \in i..(j - 1) : text[k] \in chars
  <2> SUFFICES ASSUME NEW k \in i..(j - 1), text[k] \notin chars PROVE FALSE
    OBVIOUS
  <2>1. k \in T
    BY <1>1, <1>5
  <2> QED
    <3> HIDE DEF T
    <3> QED
      BY <1>1, <1>4, <1>5, <2>1
<1> USE DEF n
<1>7. \E e \in i..(Len(text) + 1) : /\ e <= Len(text) => text[e] \notin chars
                                   /\ \A k \in i..(e - 1) : text[k] \in chars
  BY <1>5, <1>6
<1> QED
  BY <1>7 DEF EndOf

\* The next extraction begins where the last one ended or behind.
LEMMA StartType ==
  ASSUME call \in Calls, pos \in 1..(Len(text) + 1)
  PROVE  Start \in 1..(Len(text) + 1)
<1>1. text \in Seq(STRING)
  BY CallType
<1>2. Start \in pos..(Len(text) + 1)
  BY <1>1, EndOfType, Zenon DEF Start
<1> QED
  BY <1>1, <1>2

\* What may come of an extraction: it ends inside the text, gives a value if
\* it succeeds, and nothing at all of a stream that has failed before.
Outcome(r) ==
  /\ DOMAIN r = {"ok", "value", "end"}
  /\ r.end \in 1..(Len(text) + 1)
  /\ r.value \in Values \cup {Unwritten}
  /\ r.ok => r.value \in Values
  /\ fail => ~r.ok /\ r.value = Unwritten

LEMMA ExtractType ==
  ASSUME call \in Calls, pos \in 1..(Len(text) + 1), NEW r,
         DOMAIN r = {"ok", "value", "end"},
         Start <= Len(text) => r.end \in 1..(Len(text) + 1) /\ r.value \in Values
  PROVE  Outcome(Extract(r))
<1>1. Start \in 1..(Len(text) + 1) /\ Len(text) \in Nat
  BY StartType, CallType
<1>2. CASE eof \/ fail \/ Start > Len(text)
  BY <1>1, <1>2 DEF Extract, Nothing, Outcome
<1>3. CASE ~(eof \/ fail \/ Start > Len(text))
  BY <1>1, <1>3 DEF Extract, Outcome
<1> QED
  BY <1>2, <1>3

\* The limits of a type are numbers.
LEMMA LimitsType ==
  ASSUME NEW bits \in Nat \ {0}, NEW signed \in BOOLEAN
  PROVE  Lowest(bits, signed) \in Int /\ Highest(bits, signed) \in Int
<1>1. Pow2[bits] \in Nat /\ Pow2[bits - 1] \in Nat
  BY Pow2Type
<1> QED
  BY <1>1 DEF Lowest, Highest

\* What is stored of a number is a number.
LEMMA FitType ==
  ASSUME NEW n \in Int, NEW bits \in Nat \ {0}, NEW signed \in BOOLEAN
  PROVE  Fit(n, bits, signed).value \in Int
<1>1. Lowest(bits, signed) \in Int /\ Highest(bits, signed) \in Int
  BY LimitsType
<1>2. Pow2[bits] \in Nat \ {0}
  BY Pow2Type
<1>3. n % Pow2[bits] \in Int
  BY <1>2
<1> QED
  BY <1>1, <1>3 DEF Fit

LEMMA CutType ==
  ASSUME NEW v \in Int, NEW signed \in BOOLEAN
  PROVE  Cut(v, signed) \in Int
<1>1. Bits.BYTE \in Nat \ {0}
  BY ScanAssumption DEF IntType
<1>2. Pow2[Bits.BYTE] \in Nat \ {0}
  BY <1>1, Pow2Type
<1>3. v % Pow2[Bits.BYTE] \in Int
  BY <1>2
<1>4. \/ Cut(v, signed) = v % Pow2[Bits.BYTE]
      \/ Cut(v, signed) = (v % Pow2[Bits.BYTE]) - Pow2[Bits.BYTE]
  BY Zenon DEF Cut
<1> QED
  BY <1>2, <1>3, <1>4

\* A base that a stream decides on is one that has digits.
LEMMA BaseType ==
  ASSUME NEW i, NEW base \in {0, 8, 10, 16}
  PROVE  BaseAt(i, base) \in {8, 10, 16}
BY DEF BaseAt

\* The characters from one that begins a number to the end of its digits
\* denote a number.
LEMMA DigitsType ==
  ASSUME text \in Seq(STRING), NEW i \in 1..(Len(text) + 1), NEW b \in 0..16,
         NEW e, e = EndOf(i, Digits(b))
  PROVE  /\ e \in i..(Len(text) + 1)
         /\ NumberOf(SubSeq(text, i, e - 1), b) \in Int
<1> DEFINE n == Len(text)
           ds == SubSeq(text, i, e - 1)
<1>1. n \in Nat /\ i \in 1..(n + 1)
  OBVIOUS
<1>2. e \in i..(n + 1) /\ \A k \in i..(e - 1) : text[k] \in Digits(b)
  BY EndOfType, Zenon
<1>3. /\ ds \in Seq(STRING)
      /\ Len(ds) = IF i <= e - 1 THEN e - i ELSE 0
      /\ \A k \in 1..Len(ds) : ds[k] = text[i + k - 1]
  <2>1. \A k \in i..(e - 1) : k \in 1..n
    BY <1>1, <1>2
  <2> QED
    BY <1>1, <1>2, <2>1, SubSeqProperties
<1>4. \A k \in 1..Len(ds) : ds[k] \in Digits(b)
  <2> SUFFICES ASSUME NEW k \in 1..Len(ds) PROVE ds[k] \in Digits(b)
    OBVIOUS
  <2>1. i + k - 1 \in i..(e - 1)
    <3> HIDE DEF ds, n
    <3> QED
      BY <1>1, <1>2, <1>3
  <2> HIDE DEF ds
  <2> QED
    BY <1>2, <1>3, <2>1
<1> HIDE DEF ds
<1>5. NumberOf(ds, b) \in Int
  BY <1>3, <1>4, NumberOfType
<1> QED
  BY <1>2, <1>5 DEF ds

\* A sign is stepped over, if there is one.
LEMMA SignType ==
  ASSUME text \in Seq(STRING), NEW s \in 1..(Len(text) + 1)
  PROVE  (IF Negative(s) THEN s + 1 ELSE s) \in 1..(Len(text) + 1)
<1>1. Len(text) \in Nat
  OBVIOUS
<1> QED
  BY <1>1 DEF Negative

\* What reading an integer may come to.
LEMMA ReadIntType ==
  ASSUME call \in Calls, pos \in 1..(Len(text) + 1),
         NEW base \in {0, 8, 10, 16}, NEW bits \in Nat \ {0}, NEW signed \in BOOLEAN
  PROVE  /\ Outcome(ReadInt(base, bits, signed))
         /\ ReadInt(base, bits, signed).ok => ReadInt(base, bits, signed).value \in Int
<1> DEFINE first == IF Negative(Start) THEN Start + 1 ELSE Start
           b     == BaseAt(first, base)
           end   == EndOf(first, Digits(b))
           n     == NumberOf(SubSeq(text, first, end - 1), b)
           v     == Fit(IF first # Start THEN -n ELSE n, bits, signed)
           r     == IF end = first THEN [ok |-> FALSE, value |-> 0, end |-> end]
                    ELSE [ok |-> v.ok, value |-> v.value, end |-> end]
<1>1. text \in Seq(STRING) /\ Len(text) \in Nat
  BY CallType
<1>2. Start \in 1..(Len(text) + 1)
  BY StartType
<1>3. first \in 1..(Len(text) + 1)
  BY <1>1, <1>2, SignType, Zenon
<1>4. b \in {8, 10, 16}
  BY BaseType, Zenon
<1>5. end \in first..(Len(text) + 1) /\ n \in Int
  <2> HIDE DEF b, first
  <2>1. b \in 0..16
    BY <1>4
  <2> QED
    BY <1>1, <1>3, <2>1, DigitsType, Zenon
<1>6. v.value \in Int
  <2> HIDE DEF n, first
  <2> DEFINE m == IF first # Start THEN -n ELSE n
  <2>1. m \in Int
    BY <1>5
  <2> HIDE DEF m
  <2>2. Fit(m, bits, signed).value \in Int
    BY <2>1, FitType, Zenon
  <2> QED
    BY <2>2 DEF m
<1>7. DOMAIN r = {"ok", "value", "end"} /\ r.end \in 1..(Len(text) + 1) /\ r.value \in Values
  <2> HIDE DEF v, end, first
  <2> QED
    BY <1>1, <1>3, <1>5, <1>6 DEF Values
<1>8. Outcome(Extract(r))
  <2> HIDE DEF r
  <2> QED
    BY <1>7, ExtractType, Zenon
<1>9. r.value \in Int
  <2> HIDE DEF v, end, first
  <2> QED
    BY <1>6
<1>10. Extract(r).ok => Extract(r).value \in Int
  <2> HIDE DEF r
  <2> QED
    BY <1>9 DEF Extract, Nothing
<1> QED
  BY <1>8, <1>10 DEF ReadInt

LEMMA ReadFloatType ==
  ASSUME call \in Calls, pos \in 1..(Len(text) + 1)
  PROVE  Outcome(ReadFloat)
<1> DEFINE first == IF Negative(Start) THEN Start + 1 ELSE Start
           end   == EndOf(first, Digits(10))
           n     == NumberOf(SubSeq(text, first, end - 1), 10)
           r     == [ok |-> end # first, value |-> IF first # Start THEN -n ELSE n, end |-> end]
<1>1. text \in Seq(STRING) /\ Len(text) \in Nat
  BY CallType
<1>2. Start \in 1..(Len(text) + 1)
  BY StartType
<1>3. first \in 1..(Len(text) + 1)
  BY <1>1, <1>2, SignType, Zenon
<1>4. end \in first..(Len(text) + 1) /\ n \in Int
  <2> HIDE DEF first
  <2>1. 10 \in 0..16
    OBVIOUS
  <2> QED
    BY <1>1, <1>3, <2>1, DigitsType, Zenon
<1>5. DOMAIN r = {"ok", "value", "end"} /\ r.end \in 1..(Len(text) + 1) /\ r.value \in Values
  <2> HIDE DEF n, end, first
  <2> QED
    BY <1>1, <1>3, <1>4 DEF Values
<1>6. Outcome(Extract(r))
  <2> HIDE DEF r
  <2> QED
    BY <1>5, ExtractType, Zenon
<1> QED
  BY <1>6 DEF ReadFloat

LEMMA ReadStringType ==
  ASSUME call \in Calls, pos \in 1..(Len(text) + 1)
  PROVE  Outcome(ReadString)
<1> DEFINE chars == {text[k] : k \in 1..Len(text)} \ {Space}
           end   == EndOf(Start, chars)
           r     == [ok |-> TRUE, value |-> SubSeq(text, Start, end - 1), end |-> end]
<1>1. text \in Seq(STRING) /\ Len(text) \in Nat
  BY CallType
<1>2. Start \in 1..(Len(text) + 1)
  BY StartType
<1>3. end \in Start..(Len(text) + 1)
  <2> HIDE DEF chars
  <2> QED
    BY <1>1, <1>2, EndOfType, Zenon
<1>4. SubSeq(text, Start, end - 1) \in Seq(STRING)
  <2> HIDE DEF end
  <2>1. Start \in Int /\ end - 1 \in Int /\ \A k \in Start..(end - 1) : text[k] \in STRING
    BY <1>1, <1>2, <1>3
  <2> QED
    BY <2>1, SubSeqProperties, Zenon
<1>5. DOMAIN r = {"ok", "value", "end"} /\ r.end \in 1..(Len(text) + 1) /\ r.value \in Values
  <2> HIDE DEF end
  <2> QED
    BY <1>1, <1>2, <1>3, <1>4 DEF Values
<1>6. Outcome(Extract(r))
  <2> HIDE DEF r
  <2> QED
    BY <1>5, ExtractType, Zenon
<1> QED
  BY <1>6 DEF ReadString

LEMMA ReadCharType ==
  ASSUME call \in Calls, pos \in 1..(Len(text) + 1)
  PROVE  Outcome(ReadChar)
<1> DEFINE r == [ok |-> TRUE, value |-> text[Start], end |-> Start + 1]
<1>1. text \in Seq(STRING) /\ Len(text) \in Nat
  BY CallType
<1>2. Start \in 1..(Len(text) + 1)
  BY StartType
<1>3. /\ DOMAIN r = {"ok", "value", "end"}
      /\ Start <= Len(text) => r.end \in 1..(Len(text) + 1) /\ r.value \in Values
  BY <1>1, <1>2 DEF Values
<1>4. Outcome(Extract(r))
  <2> HIDE DEF r
  <2> QED
    BY <1>3, ExtractType, Zenon
<1> QED
  BY <1>4 DEF ReadChar

\* What a conversion's extraction may come to.
LEMMA ReadType ==
  ASSUME call \in Calls, pos \in 1..(Len(text) + 1), int_type \in IntType,
         fmt.base \in {0, 8, 10, 16}, NEW conv \in Conversion
  PROVE  Outcome(Read(conv))
<1> DEFINE signed == conv \in Signed
           base   == BaseOf(conv, fmt.base)
           short  == ReadInt(base, Bits.SHORT, signed)
<1>1. signed \in BOOLEAN
  OBVIOUS
<1>2. base \in {0, 8, 10, 16}
  BY DEF BaseOf
<1>3. Bits[int_type] \in Nat \ {0} /\ Bits.SHORT \in Nat \ {0} /\ Bits.LONG \in Nat \ {0}
  BY ScanAssumption DEF IntType
<1>4. Outcome(short) /\ (short.ok => short.value \in Int)
  <2> HIDE DEF signed, base
  <2> QED
    BY <1>1, <1>2, <1>3, ReadIntType
<1>5. /\ conv \in FloatConv => conv \notin IntConv
      /\ conv \in StringConv => conv \notin IntConv \cup FloatConv
      /\ conv \in CharConv => conv \notin IntConv \cup FloatConv \cup StringConv
      /\ conv \in PointerConv => conv \notin IntConv \cup FloatConv \cup StringConv \cup CharConv
  BY DEF IntConv, Signed, FloatConv, StringConv, CharConv, PointerConv
<1>6. CASE conv \in IntConv /\ int_type = "BYTE"
  <2>1. Read(conv) = IF short.ok THEN [short EXCEPT !.value = Cut(short.value, signed)] ELSE short
    BY <1>5, <1>6 DEF Read
  <2>2. short.ok => Cut(short.value, signed) \in Int
    <3> HIDE DEF short, signed
    <3> QED
      BY <1>1, <1>4, CutType
  <2> HIDE DEF short, signed
  <2> QED
    BY <1>4, <2>1, <2>2 DEF Outcome, Values
<1>7. CASE conv \in IntConv /\ int_type # "BYTE"
  <2>1. Read(conv) = ReadInt(base, Bits[int_type], signed)
    BY <1>5, <1>7 DEF Read
  <2> HIDE DEF signed, base
  <2> QED
    BY <1>1, <1>2, <1>3, <2>1, ReadIntType
<1>8. CASE conv \in FloatConv
  <2>1. Read(conv) = ReadFloat
    BY <1>5, <1>8 DEF Read
  <2> QED
    BY <2>1, ReadFloatType
<1>9. CASE conv \in StringConv
  <2>1. Read(conv) = ReadString
    BY <1>5, <1>9 DEF Read
  <2> QED
    BY <2>1, ReadStringType
<1>10. CASE conv \in CharConv
  <2>1. Read(conv) = ReadChar
    BY <1>5, <1>10 DEF Read
  <2> QED
    BY <2>1, ReadCharType
<1>11. CASE conv \in PointerConv
  <2>1. Read(conv) = ReadInt(16, Bits.LONG, FALSE)
    BY <1>5, <1>11 DEF Read
  <2> QED
    BY <1>3, <2>1, ReadIntType
<1> QED
  BY <1>6, <1>7, <1>8, <1>9, <1>10, <1>11 DEF Conversion

-----------------------------------------------------------------------------
(***************************************************************************)
(* The inductive invariant: ScanTypeOK, and why it stays so.  The stream   *)
(* always has one of its bases, and inside the loop nothing has been asked *)
(* of va_arg that is not counted: a failure leaves the loop.               *)
(***************************************************************************)

\* What va_arg may have been asked for, and what was stored.
Tags == (IntType \X BOOLEAN) \cup {<<t>> : t \in FloatType \cup {"string", "char", "void*"}}
Stored == [type : Tags, value : Values \cup {Unwritten}]

ScanInv ==
  /\ call \in Calls
  /\ fPtr \in 1..(Len(format) + 1)
  /\ pos \in 1..(Len(text) + 1)
  /\ phase \in {"scan", "convert", "breakout", "done"}
  /\ int_type \in IntType /\ float_type \in FloatType
  /\ fmt \in [skipws : BOOLEAN, base : {0, 8, 10, 16}]
  /\ targets \in Seq(Stored)
  /\ res \in Nat
  /\ Len(targets) \in {res, res + 1}
  /\ phase \in {"scan", "convert"} => Len(targets) = res
  /\ \A i \in 1..res : targets[i].value \in Values
  /\ phase = "convert" => fPtr > 1

\* Where the loop is on a character of the format, there is one.
LEMMA HereType ==
  ASSUME ScanInv, Here # NUL
  PROVE  fPtr <= Len(format)
BY CallType DEF ScanInv, Here, CharAt

LEMMA InitScan == ScanInit => ScanInv
<1> SUFFICES ASSUME ScanInit PROVE ScanInv
  OBVIOUS
<1>1. format \in Seq(STRING) /\ text \in Seq(STRING)
  BY CallType DEF ScanInit
<1> QED
  BY <1>1 DEF ScanInit, ScanInv, IntType, FloatType

\* Nothing is stored or counted, and the loop goes on inside the format.
LEMMA KeepInv ==
  ASSUME ScanInv, Keep,
         fPtr' \in 1..(Len(format) + 1), pos' \in 1..(Len(text) + 1),
         phase' \in {"scan", "breakout", "done"},
         fmt' \in [skipws : BOOLEAN, base : {0, 8, 10, 16}],
         phase' = "scan" => phase \in {"scan", "convert"}
  PROVE  ScanInv'
BY DEF ScanInv, Keep, typeVars, format, text

LEMMA FormatSpaceInv == ScanInv /\ FormatSpace => ScanInv'
<1> SUFFICES ASSUME ScanInv, FormatSpace PROVE ScanInv'
  OBVIOUS
<1>1. format \in Seq(STRING)
  BY CallType DEF ScanInv
<1>2. fPtr' \in 1..(Len(format) + 1)
  BY <1>1 DEF ScanInv, FormatSpace
<1> QED
  BY <1>2, KeepInv DEF ScanInv, FormatSpace, streamVars

LEMMA LiteralInv == ScanInv /\ Literal => ScanInv'
<1> SUFFICES ASSUME ScanInv, Literal PROVE ScanInv'
  OBVIOUS
<1>1. format \in Seq(STRING)
  BY CallType DEF ScanInv
<1>2. Outcome(ReadChar)
  BY ReadCharType DEF ScanInv
<1>3. pos' \in 1..(Len(text) + 1)
  BY <1>2 DEF Literal, Advance, Outcome
<1>4. fPtr' \in 1..(Len(format) + 1) /\ phase' \in {"scan", "done"}
  BY <1>1 DEF ScanInv, Literal
<1> QED
  BY <1>3, <1>4, KeepInv DEF ScanInv, Literal

LEMMA StartDirectiveInv == ScanInv /\ StartDirective => ScanInv'
<1> SUFFICES ASSUME ScanInv, StartDirective PROVE ScanInv'
  OBVIOUS
<1>1. format \in Seq(STRING) /\ text' = text /\ format' = format
  BY CallType DEF ScanInv, StartDirective, format, text
<1>2. fPtr' \in 1..(Len(format) + 1)
  BY <1>1 DEF ScanInv, StartDirective, CharAt, NUL
<1>5. fPtr' > 1
  BY <1>1 DEF ScanInv, StartDirective
<1>3. int_type' \in IntType
  BY DEF ScanInv, StartDirective, IntType
<1>4. float_type' \in FloatType
  BY DEF ScanInv, StartDirective, FloatType
<1> QED
  BY <1>1, <1>2, <1>3, <1>4, <1>5 DEF ScanInv, StartDirective, streamVars

\* What a directive asks va_arg for.
LEMMA TagType ==
  ASSUME int_type \in IntType, float_type \in FloatType, NEW conv
  PROVE  TargetType(conv) \in Tags
<1>1. \A a \in IntType, b \in BOOLEAN : <<a, b>> \in Tags
  BY DEF Tags
<1>2. \A a \in FloatType \cup {"string", "char", "void*"} : <<a>> \in Tags
  BY DEF Tags
<1>3. CASE conv \in IntConv
  <2>1. TargetType(conv) = <<int_type, conv \in Signed>>
    BY <1>3, Zenon DEF TargetType
  <2>2. (conv \in Signed) \in BOOLEAN
    OBVIOUS
  <2> QED
    BY <1>1, <2>1, <2>2, Zenon
<1>4. CASE conv \notin IntConv
  <2>1. \E a \in FloatType \cup {"string", "char", "void*"} : TargetType(conv) = <<a>>
    BY <1>4 DEF TargetType
  <2> QED
    BY <1>2, <2>1
<1> QED
  BY <1>3, <1>4

LEMMA ConvertStepInv == ScanInv /\ ConvertStep => ScanInv'
<1> SUFFICES ASSUME ScanInv, ConvertStep PROVE ScanInv'
  OBVIOUS
<1> DEFINE r == Read(Here)
           t == [type |-> TargetType(Here), value |-> r.value]
<1>1. format \in Seq(STRING) /\ text' = text /\ format' = format
  BY CallType DEF ScanInv, ConvertStep, format, text
<1>2. Here \in Conversion
  BY DEF ConvertStep
<1>3. Outcome(r)
  BY <1>2, ReadType, Zenon DEF ScanInv
<1>4. fPtr \in 1..Len(format)
  BY <1>1, <1>2, HereType DEF ScanInv, Conversion, IntConv, Signed, FloatConv, StringConv,
     CharConv, PointerConv, NUL
<1>5. t \in Stored
  BY <1>3, TagType DEF ScanInv, Stored, Outcome
<1>6. fmt' \in [skipws : BOOLEAN, base : {0, 8, 10, 16}]
  BY DEF ScanInv, ConvertStep, BaseOf
<1>7. pos' \in 1..(Len(text) + 1)
  BY <1>3 DEF ConvertStep, Advance, Outcome
<1>8. Len(targets) = res
  BY DEF ScanInv, ConvertStep
<1>9. CASE r.ok
  <2>1. res' = res + 1 /\ targets' = Append(targets, t) /\ phase' = "scan"
    BY <1>9 DEF ConvertStep
  <2>2. targets \in Seq(Stored) /\ res \in Nat /\ \A i \in 1..res : targets[i].value \in Values
    BY DEF ScanInv
  <2>3. t.value \in Values
    BY <1>3, <1>9 DEF Outcome
  <2> HIDE DEF t
  <2>4. /\ targets' \in Seq(Stored)
        /\ Len(targets') = res'
        /\ \A i \in 1..res' : targets'[i].value \in Values
    BY <1>5, <1>8, <2>1, <2>2, <2>3
  <2> QED
    BY <1>1, <1>4, <1>6, <1>7, <2>1, <2>2, <2>4 DEF ScanInv, ConvertStep, typeVars
<1>10. CASE ~r.ok
  <2>1. res' = res /\ targets' \in {targets, Append(targets, t)} /\ phase' = "breakout"
    BY <1>10 DEF ConvertStep
  <2>2. targets \in Seq(Stored) /\ res \in Nat /\ \A i \in 1..res : targets[i].value \in Values
    BY DEF ScanInv
  <2> HIDE DEF t
  <2>3. /\ targets' \in Seq(Stored)
        /\ Len(targets') \in {res', res' + 1}
        /\ \A i \in 1..res' : targets'[i].value \in Values
    BY <1>5, <1>8, <2>1, <2>2
  <2> QED
    BY <1>1, <1>4, <1>6, <1>7, <2>1, <2>2, <2>3 DEF ScanInv, ConvertStep, typeVars
<1> QED
  BY <1>9, <1>10

LEMMA PercentInv == ScanInv /\ Percent => ScanInv'
<1> SUFFICES ASSUME ScanInv, Percent PROVE ScanInv'
  OBVIOUS
<1>1. format \in Seq(STRING)
  BY CallType DEF ScanInv
<1>2. Outcome(ReadChar)
  BY ReadCharType DEF ScanInv
<1>3. pos' \in 1..(Len(text) + 1)
  BY <1>2 DEF Percent, Advance, Outcome
<1>4. fPtr' \in 1..(Len(format) + 1) /\ phase' \in {"scan", "breakout"}
  BY <1>1, HereType DEF ScanInv, Percent, NUL
<1> QED
  BY <1>3, <1>4, KeepInv DEF ScanInv, Percent

LEMMA UnfinishedInv == ScanInv /\ Unfinished => ScanInv'
<1> SUFFICES ASSUME ScanInv, Unfinished PROVE ScanInv'
  OBVIOUS
<1> QED
  BY KeepInv DEF ScanInv, Unfinished, streamVars

LEMMA UnknownInv == ScanInv /\ Unknown => ScanInv'
<1> SUFFICES ASSUME ScanInv, Unknown PROVE ScanInv'
  OBVIOUS
<1> QED
  BY KeepInv DEF ScanInv, Unknown, streamVars

LEMMA FinishInv == ScanInv /\ Finish => ScanInv'
<1> SUFFICES ASSUME ScanInv, Finish PROVE ScanInv'
  OBVIOUS
<1> QED
  BY KeepInv, ScanAssumption DEF ScanInv, Finish, streamVars

LEMMA ScanStutterInv == ScanInv /\ UNCHANGED scanVars => ScanInv'
BY DEF ScanInv, scanVars, streamVars, typeVars, format, text

LEMMA ScanStepInv == ScanInv /\ [ScanNext]_scanVars => ScanInv'
BY FormatSpaceInv, LiteralInv, StartDirectiveInv, ConvertStepInv, PercentInv, UnfinishedInv,
   UnknownInv, FinishInv, ScanStutterInv DEF ScanNext, Scanned

LEMMA ScanInvariant == ScanSpec => []ScanInv
BY InitScan, ScanStepInv, PTL DEF ScanSpec

LEMMA ScanInvTypes == ScanInv => ScanTypeOK
<1>1. Unwritten \notin Values
  BY ScanAssumption DEF Values
<1> QED
  BY <1>1 DEF ScanInv, ScanTypeOK

\* Whatever the format and the text, and whatever the widths of the types:
\* the loop stays inside the format and the text, and the number returned
\* counts variables that have been stored into, at most one more having been
\* asked for.
THEOREM ScanTypes == ScanSpec => []ScanTypeOK
BY ScanInvariant, ScanInvTypes, PTL

-----------------------------------------------------------------------------
(***************************************************************************)
(* The loop ends.                                                          *)
(***************************************************************************)

LEMMA ScanStepFinishes ==
  ASSUME ScanInv, ScanNext, scanVars' # scanVars
  PROVE  DistanceLeft' < DistanceLeft
<1>1. Len(format) \in Nat /\ fPtr \in Int
  BY CallType DEF ScanInv
<1>2. CASE FormatSpace
  BY <1>1, <1>2 DEF FormatSpace, Keep, format, DistanceLeft
<1>3. CASE Literal
  BY <1>1, <1>3 DEF Literal, Keep, format, DistanceLeft
<1>4. CASE StartDirective
  <2>1. fPtr' \in {fPtr + 1, fPtr + 2, fPtr + 3} /\ Len(format') = Len(format)
    BY <1>1, <1>4 DEF StartDirective, format
  <2>2. DistanceLeft = 2 * (Len(format) + 1 - fPtr) + 1
    BY <1>4 DEF StartDirective, DistanceLeft
  <2>3. DistanceLeft' = 2 * (Len(format') + 1 - fPtr') + 2
    BY <1>4 DEF StartDirective, DistanceLeft
  <2> QED
    BY <1>1, <2>1, <2>2, <2>3
<1>5. CASE ConvertStep
  <2>1. fPtr' = fPtr + 1 /\ Len(format') = Len(format) /\ phase' \in {"scan", "breakout"}
    BY <1>5 DEF ConvertStep, format
  <2>2. DistanceLeft = 2 * (Len(format) + 1 - fPtr) + 2
    BY <1>5 DEF ConvertStep, DistanceLeft
  <2>3. DistanceLeft' = 2 * (Len(format') + 1 - fPtr') + 1
    BY <2>1 DEF DistanceLeft
  <2> QED
    BY <1>1, <2>1, <2>2, <2>3
<1>6. CASE Percent
  <2>1. fPtr' = fPtr + 1 /\ Len(format') = Len(format) /\ phase' \in {"scan", "breakout"}
    BY <1>6 DEF Percent, Keep, format
  <2>2. DistanceLeft = 2 * (Len(format) + 1 - fPtr) + 2
    BY <1>6 DEF Percent, DistanceLeft
  <2>3. DistanceLeft' = 2 * (Len(format') + 1 - fPtr') + 1
    BY <2>1 DEF DistanceLeft
  <2> QED
    BY <1>1, <2>1, <2>2, <2>3
<1>7. CASE Unfinished
  BY <1>1, <1>7 DEF Unfinished, Keep, format, DistanceLeft
<1>8. CASE Unknown
  BY <1>1, <1>8 DEF Unknown, Keep, format, DistanceLeft
<1>9. CASE Finish
  BY <1>1, <1>9 DEF Finish, Keep, format, DistanceLeft
<1>10. CASE Scanned
  BY <1>10 DEF Scanned
<1> QED
  BY <1>2, <1>3, <1>4, <1>5, <1>6, <1>7, <1>8, <1>9, <1>10 DEF ScanNext

LEMMA InvDistance == ScanInv => DistanceLeft \in 0..(2 * Len(format) + 1)
<1> SUFFICES ASSUME ScanInv PROVE DistanceLeft \in 0..(2 * Len(format) + 1)
  OBVIOUS
<1>1. Len(format) \in Nat /\ fPtr \in 1..(Len(format) + 1)
  BY CallType DEF ScanInv
<1>2. phase = "convert" => fPtr > 1
  BY DEF ScanInv
<1>3. phase \in {"scan", "breakout"} => DistanceLeft = 2 * (Len(format) + 1 - fPtr) + 1
  BY DEF DistanceLeft
<1>4. phase = "convert" => DistanceLeft = 2 * (Len(format) + 1 - fPtr) + 2
  BY DEF DistanceLeft
<1>5. phase = "done" => DistanceLeft = 2 * (Len(format) + 1 - fPtr)
  BY <1>1 DEF DistanceLeft
<1>6. phase \in {"scan", "convert", "breakout", "done"}
  BY DEF ScanInv
<1> QED
  BY <1>1, <1>2, <1>3, <1>4, <1>5, <1>6

\* Whatever the format: every step of the loop takes it on, so that no
\* directive is gone through twice.
THEOREM ScanWorksThrough == ScanSpec => ScanFinishes
<1>1. ScanInv /\ [ScanNext]_scanVars => [DistanceLeft' < DistanceLeft]_scanVars
  BY ScanStepFinishes
<1> QED
  BY <1>1, ScanInvariant, PTL DEF ScanSpec, ScanFinishes

\* And there is an end to it: no call takes more steps than its format has
\* characters, twice, and one.
THEOREM ScanBounded == ScanSpec => [](DistanceLeft \in 0..(2 * Len(format) + 1))
BY ScanInvariant, InvDistance, PTL

-----------------------------------------------------------------------------
(***************************************************************************)
(* A failure is final.                                                     *)
(***************************************************************************)

LEMMA ScanStepFinal ==
  ASSUME ScanInv, ScanNext, fail
  PROVE  /\ res' = res
         /\ \A i \in 1..Len(targets') : i > Len(targets) => targets'[i].value = Unwritten
<1>1. targets \in Seq(Stored) /\ Len(targets) \in Nat
  BY DEF ScanInv
<1>2. CASE ConvertStep
  <2> DEFINE r == Read(Here)
             t == [type |-> TargetType(Here), value |-> r.value]
  <2>1. Outcome(r)
    BY <1>2, ReadType, Zenon DEF ScanInv, ConvertStep
  <2>2. ~r.ok /\ r.value = Unwritten
    BY <2>1 DEF Outcome
  <2>3. res' = res /\ targets' \in {targets, Append(targets, t)}
    BY <1>2, <2>2 DEF ConvertStep
  <2>4. t.value = Unwritten
    BY <2>2
  <2> HIDE DEF t
  <2> QED
    BY <1>1, <2>3, <2>4
<1>3. CASE ~ConvertStep
  <2>1. res' = res /\ targets' = targets
    BY <1>3 DEF ScanNext, FormatSpace, Literal, StartDirective, Percent, Unfinished, Unknown,
       Finish, Scanned, scanVars, Keep
  <2> QED
    BY <1>1, <2>1
<1> QED
  BY <1>2, <1>3

\* Whatever the format and the text: once an extraction has failed no
\* variable is counted or stored into any more, and that the stale c may
\* equal the character of the format it is compared with changes nothing.
THEOREM FailedForGood == ScanSpec => FailureIsFinal
<1>1. ScanInv /\ [ScanNext]_scanVars =>
        [ fail => /\ res' = res
                  /\ \A i \in 1..Len(targets') :
                       i > Len(targets) => targets'[i].value = Unwritten ]_scanVars
  BY ScanStepFinal
<1> QED
  BY <1>1, ScanInvariant, PTL DEF ScanSpec, FailureIsFinal
=============================================================================
