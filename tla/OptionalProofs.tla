--------------------------- MODULE OptionalProofs ---------------------------
(***************************************************************************)
(* What Optional promises, for any objects and values.                     *)
(***************************************************************************)
EXTENDS Optional, TLAPS

\* A container that counts as defined holds the value it was last given.
Sound ==
  /\ defined \subseteq Object
  /\ value \in [Object -> Value \cup {Junk, Nobody}]
  /\ stored \in [Object -> Value \cup {Nobody}]
  /\ \A o \in defined : value[o] = stored[o] /\ value[o] \in Value

OptionalInv == Sound /\ ReadsWhatWasStored

LEMMA KindsDiffer ==
  /\ \A by : Done(by).kind = "done"
  /\ \A code : Threw(code).kind = "threw"
  /\ \A o, v : Returned(o, v) = [kind |-> "returned", of |-> o, value |-> v]
BY DEF Done, Threw, Returned

\* A failed operation returns nothing and moves nothing.
LEMMA FailSound ==
  ASSUME OptionalInv, NEW code, Fail(code)
  PROVE  OptionalInv' /\ outcome'.kind = "threw" /\ UNCHANGED <<defined, value, stored>>
<1>1. outcome'.kind = "threw" /\ UNCHANGED <<defined, value, stored>>
  BY KindsDiffer DEF Fail
<1>. QED BY <1>1 DEF OptionalInv, Sound, ReadsWhatWasStored

\* A write of a value keeps the container's record of it.
LEMMA StoreSound ==
  ASSUME OptionalInv, NEW o \in Object, NEW v \in Value, NEW by, Store(o, v, by)
  PROVE  /\ OptionalInv'
         /\ outcome' = Done(by) /\ outcome'.kind = "done"
         /\ \A q \in Object \ {o} : value'[q] = value[q] /\ (q \in defined' <=> q \in defined)
<1>1. outcome' = Done(by) /\ outcome'.kind = "done"
  BY KindsDiffer DEF Store
<1>2. Sound'
  BY OptionalAssumption DEF Store, OptionalInv, Sound
<1>3. \A q \in Object \ {o} : value'[q] = value[q] /\ (q \in defined' <=> q \in defined)
  BY DEF Store, OptionalInv, Sound
<1>. QED BY <1>1, <1>2, <1>3 DEF OptionalInv, ReadsWhatWasStored

\* A read gives out the value and leaves it where it is.
LEMMA GiveSound ==
  ASSUME OptionalInv, NEW o \in defined, Give(o)
  PROVE  OptionalInv' /\ outcome'.kind = "returned" /\ UNCHANGED <<defined, value, stored>>
<1>1. outcome' = [kind |-> "returned", of |-> o, value |-> value[o]]
  BY KindsDiffer DEF Give
<1>2. UNCHANGED <<defined, value, stored>>
  BY DEF Give
<1>. QED BY <1>1, <1>2 DEF OptionalInv, Sound, ReadsWhatWasStored

\* What a step may do to a value in a strong container: replace it by a reset
\* or through a reference that somebody holds.
Replaced(o) == outcome' = Done("reset") \/ (o \in held /\ outcome' = Done("reference"))

\* What the next step of any kind may do: keep the invariant, and leave a
\* strong container that is defined its value, but for those two ways.
Keeps ==
  /\ OptionalInv'
  /\ \A q \in Strong \cap defined : q \in defined' /\ value'[q] # value[q] => Replaced(q)

LEMMA FailKeeps ==
  ASSUME OptionalInv, NEW code, Fail(code) PROVE Keeps
BY FailSound DEF Keeps

LEMMA GiveKeeps ==
  ASSUME OptionalInv, NEW o \in defined, Give(o) PROVE Keeps
BY GiveSound DEF Keeps

\* A write is harmless where the container is weak, undefined, or reset.
LEMMA StoreKeeps ==
  ASSUME OptionalInv, NEW o \in Object, NEW v \in Value, NEW by, Store(o, v, by),
         o \notin Strong \cap defined \/ by = "reset"
  PROVE  Keeps
<1>1. /\ OptionalInv'
      /\ outcome' = Done(by) /\ outcome'.kind = "done"
      /\ \A q \in Object \ {o} : value'[q] = value[q] /\ (q \in defined' <=> q \in defined)
  BY StoreSound
<1>2. Strong \subseteq Object
  BY DEF Object
<1>. QED BY <1>1, <1>2 DEF Keeps, Replaced

\* What a step that gives no answer has to show.
LEMMA DoneKeeps ==
  ASSUME NEW by, outcome' = Done(by), Sound',
         by = "reset" \/ \A q \in Strong \cap defined : q \in defined' => value'[q] = value[q]
  PROVE  Keeps
<1>1. outcome'.kind = "done"
  BY KindsDiffer
<1>. QED BY <1>1 DEF Keeps, Replaced, OptionalInv, ReadsWhatWasStored

\* An object that is defined exists.
LEMMA DefinedExists ==
  ASSUME OptionalInv, NEW o \in defined PROVE Exists(o)
BY OptionalAssumption DEF OptionalInv, Sound, Exists

\* A container with the type optional alone is a strong one, and conversely.
LEMMA StrongTypes ==
  ASSUME NEW o \in Strong PROVE Types(o) = {"optional"}
BY OptionalAssumption DEF Types

LEMMA WritesKeep ==
  ASSUME OptionalInv, NEW o \in Object, Writes(o)
  PROVE  Keeps
<1>1. ASSUME NEW v \in Value, NEW type \in Types(o), SetValue(o, type, v)
      PROVE  Keeps
  <2>1. CASE Fail(EXCPT_GENERAL) BY <2>1, FailKeeps
  <2>2. CASE Store(o, v, "assign") /\ ~(type = "optional" /\ o \in defined)
    BY <2>2, StoreKeeps, StrongTypes
  <2>. QED BY <1>1, <2>1, <2>2 DEF SetValue
<1>2. ASSUME NEW v \in Value, NEW type \in Types(o), AssignValue(o, type, v)
      PROVE  Keeps
  <2>1. CASE Fail(EXCPT_ACCESS) BY <2>1, FailKeeps
  <2>2. CASE Store(o, v, "assign") /\ ~(type = "optional" /\ o \in defined)
    BY <2>2, StoreKeeps, StrongTypes
  <2>. QED BY <1>2, <2>1, <2>2 DEF AssignValue
<1>3. ASSUME NEW v \in Value, ConstructFrom(o, v)
      PROVE  Keeps
  BY <1>3, StoreKeeps, DefinedExists DEF ConstructFrom
<1>4. ASSUME NEW v \in Value, ResetTo(o, v)
      PROVE  Keeps
  BY <1>4, StoreKeeps DEF ResetTo
<1>5. ASSUME NEW p \in Object, ConstructCopy(o, p)
      PROVE  Keeps
  <2>1. CASE p \in defined
    <3>1. value[p] \in Value
      BY <2>1 DEF OptionalInv, Sound
    <3>. QED BY <1>5, <2>1, <3>1, StoreKeeps, DefinedExists DEF ConstructCopy
  <2>2. CASE p \notin defined
    BY <1>5, <2>2, FailKeeps DEF ConstructCopy
  <2>. QED BY <2>1, <2>2
<1>6. ASSUME NEW p \in Object, NEW type \in Types(o), NEW from \in Types(p), AssignObject(o, type, p, from)
      PROVE  Keeps
  <2>. DEFINE once == type = "optional" \/ from = "weak_optional"
  <2>1. CASE Fail(EXCPT_ACCESS) BY <2>1, FailKeeps
  <2>2. CASE outcome' = Done("assign") /\ UNCHANGED <<defined, value, stored, held>>
    <3>1. Sound'
      BY <2>2 DEF OptionalInv, Sound
    <3>. QED BY <2>2, <3>1, DoneKeeps
  <2>3. CASE p \in defined /\ Store(o, value[p], "assign") /\ ~(once /\ o \in defined)
    <3>1. value[p] \in Value
      BY <2>3 DEF OptionalInv, Sound
    <3>2. o \notin Strong \cap defined
      BY <2>3, StrongTypes
    <3>. QED BY <2>3, <3>1, <3>2, StoreKeeps
  <2>4. CASE Fail(EXCPT_GENERAL) BY <2>4, FailKeeps
  <2>. QED BY <1>6, <2>1, <2>2, <2>3, <2>4 DEF AssignObject
<1>. QED BY <1>1, <1>2, <1>3, <1>4, <1>5, <1>6 DEF Writes

\* A write through a reference reaches one container, and what it holds if it
\* is defined; it defines nothing.
LEMMA WriteThroughKeeps ==
  ASSUME OptionalInv, NEW o \in Object, NEW v \in Value, WriteThrough(o, v)
  PROVE  Keeps
<1>1. outcome' = Done("reference") /\ outcome'.kind = "done"
  BY KindsDiffer DEF WriteThrough
<1>2. Sound'
  BY DEF WriteThrough, OptionalInv, Sound
<1>3. \A q \in Object \ {o} : value'[q] = value[q]
  BY DEF WriteThrough, OptionalInv, Sound
<1>4. o \in held
  BY DEF WriteThrough
<1>5. Strong \subseteq Object
  BY DEF Object
<1>. QED BY <1>1, <1>2, <1>3, <1>4, <1>5 DEF Keeps, Replaced, OptionalInv, ReadsWhatWasStored

LEMMA StepKeeps ==
  ASSUME OptionalInv, NEW o \in Object,
         \/ Construct(o) \/ Destroy(o) \/ Writes(o) \/ Reset(o)
         \/ Get(o) \/ Access(o) \/ GetOrDefault(o)
         \/ \E v \in Value : WriteThrough(o, v)
  PROVE  Keeps
<1>1. CASE Construct(o)
  <2>1. o \notin defined
    BY <1>1, DefinedExists DEF Construct
  <2>2. Sound'
    BY <1>1, <2>1 DEF Construct, OptionalInv, Sound
  <2>3. \A q \in Strong \cap defined : value'[q] = value[q]
    BY <1>1, <2>1 DEF Construct, OptionalInv, Sound
  <2>. QED BY <1>1, <2>2, <2>3, DoneKeeps DEF Construct
<1>2. CASE Destroy(o)
  <2>1. Sound'
    BY <1>2 DEF Destroy, OptionalInv, Sound
  <2>2. \A q \in Strong \cap defined : q \in defined' => value'[q] = value[q]
    BY <1>2 DEF Destroy, OptionalInv, Sound
  <2>. QED BY <1>2, <2>1, <2>2, DoneKeeps DEF Destroy
<1>3. CASE Writes(o) BY <1>3, WritesKeep
<1>4. CASE Reset(o)
  <2>1. Sound'
    BY <1>4 DEF Reset, OptionalInv, Sound
  <2>. QED BY <1>4, <2>1, DoneKeeps DEF Reset
<1>5. CASE Get(o) BY <1>5, FailKeeps, GiveKeeps DEF Get
<1>6. CASE Access(o) BY <1>6, FailKeeps, GiveKeeps DEF Access
<1>7. CASE GetOrDefault(o)
  <2>1. CASE o \in defined BY <1>7, <2>1, GiveKeeps DEF GetOrDefault
  <2>2. CASE o \notin defined
    <3>1. outcome' = Done("default") /\ UNCHANGED <<defined, value, stored, held>>
      BY <1>7, <2>2 DEF GetOrDefault
    <3>2. Sound'
      BY <3>1 DEF OptionalInv, Sound
    <3>. QED BY <3>1, <3>2, DoneKeeps
  <2>. QED BY <2>1, <2>2
<1>8. ASSUME NEW v \in Value, WriteThrough(o, v) PROVE Keeps
  BY <1>8, WriteThroughKeeps
<1>. QED BY <1>1, <1>2, <1>3, <1>4, <1>5, <1>6, <1>7, <1>8

LEMMA OptionalStart == OptionalInit => OptionalInv
BY KindsDiffer DEF OptionalInit, OptionalInv, Sound, ReadsWhatWasStored

LEMMA OptionalInductive == OptionalInv /\ [OptionalNext]_optionalVars => OptionalInv'
<1>1. ASSUME OptionalInv, OptionalNext PROVE OptionalInv'
  BY <1>1, StepKeeps DEF OptionalNext, Keeps
<1>2. ASSUME OptionalInv, UNCHANGED optionalVars PROVE OptionalInv'
  BY <1>2 DEF optionalVars, OptionalInv, Sound, ReadsWhatWasStored
<1>. QED BY <1>1, <1>2

\* Whoever reads a container gets what was stored in it, or an exception.
THEOREM ReadsSound == OptionalSpec => []ReadsWhatWasStored
<1>1. OptionalInv => ReadsWhatWasStored
  BY DEF OptionalInv
<1>. QED BY <1>1, OptionalStart, OptionalInductive, PTL DEF OptionalSpec

\* A value in an optional is replaced by a reset or through a reference the
\* container has given out, and by nothing else.
THEOREM NeverReplaced == OptionalSpec => WriteOnce
<1>1. ASSUME OptionalInv, [OptionalNext]_optionalVars
      PROVE  [ \A o \in Strong \cap defined :
                 o \in defined' /\ value'[o] # value[o] =>
                   \/ outcome' = Done("reset")
                   \/ o \in held /\ outcome' = Done("reference") ]_optionalVars
  BY <1>1, StepKeeps DEF OptionalNext, Keeps, Replaced
<1>. QED BY <1>1, OptionalStart, OptionalInductive, PTL DEF OptionalSpec, WriteOnce
=============================================================================
