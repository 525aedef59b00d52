------------------------------ MODULE Optional ------------------------------
(***************************************************************************)
(* opt::optional and opt::weak_optional (src/optional.h): a container of   *)
(* one value, a flag that says whether the value counts, and an exception  *)
(* for each operation that comes at the wrong time.  No method is virtual, *)
(* so what an operation does depends on the type it is called through: a   *)
(* weak_optional is also an optional.                                      *)
(***************************************************************************)
EXTENDS Naturals

CONSTANTS
  Strong,     \* objects of type optional
  Weak,       \* objects of type weak_optional
  Value,      \* the values a caller stores
  Junk,       \* what _value holds before anything was stored
  Nobody      \* no value: no object there, nothing stored

Object == Strong \cup Weak
EXCPT_GENERAL == 1
EXCPT_ACCESS == 20

ASSUME OptionalAssumption ==
  /\ Strong \cap Weak = {}
  /\ Junk \notin Value /\ Nobody \notin Value \cup {Junk}

VARIABLES
  defined,    \* the objects whose _defined is set
  value,      \* value[o]: _value, Nobody if o does not exist
  outcome,    \* which operation was last, and how it ended
  stored,     \* history: what o was last told to hold since it was built or reset
  held        \* the containers whose value somebody holds a reference to

optionalVars == <<defined, value, outcome, stored, held>>

Exists(o) == value[o] # Nobody
Types(o) == IF o \in Weak THEN {"optional", "weak_optional"} ELSE {"optional"}

Done(by) == [kind |-> "done", by |-> by]
Threw(code) == [kind |-> "threw", code |-> code]
Returned(o, v) == [kind |-> "returned", of |-> o, value |-> v]

OptionalInit ==
  /\ defined = {}
  /\ value = [o \in Object |-> Nobody]
  /\ outcome = Done("construct")
  /\ stored = [o \in Object |-> Nobody]
  /\ held = {}

Fail(code) == outcome' = Threw(code) /\ UNCHANGED <<defined, value, stored, held>>

Store(o, v, by) ==
  /\ value' = [value EXCEPT ![o] = v]
  /\ defined' = defined \cup {o}
  /\ stored' = [stored EXCEPT ![o] = v]
  /\ outcome' = Done(by)
  /\ UNCHANGED held

-----------------------------------------------------------------------------
(* Construction and destruction.                                           *)
Construct(o) ==
  /\ ~Exists(o)
  /\ value' = [value EXCEPT ![o] = Junk]
  /\ outcome' = Done("construct")
  /\ UNCHANGED <<defined, stored, held>>

ConstructFrom(o, v) == ~Exists(o) /\ Store(o, v, "construct")

\* A copy of an undefined container is not an undefined container: get()
\* throws, and there is no object.
ConstructCopy(o, p) ==
  /\ ~Exists(o) /\ Exists(p)
  /\ IF p \in defined THEN Store(o, value[p], "construct") ELSE Fail(EXCPT_GENERAL)

Destroy(o) ==
  /\ Exists(o)
  /\ value' = [value EXCEPT ![o] = Nobody]
  /\ defined' = defined \ {o}
  /\ stored' = [stored EXCEPT ![o] = Nobody]
  /\ held' = held \ {o}
  /\ outcome' = Done("destroy")

-----------------------------------------------------------------------------
(* Writing.                                                                *)
SetValue(o, type, v) ==
  /\ Exists(o) /\ type \in Types(o)
  /\ IF type = "optional" /\ o \in defined THEN Fail(EXCPT_GENERAL) ELSE Store(o, v, "assign")

AssignValue(o, type, v) ==
  /\ Exists(o) /\ type \in Types(o)
  /\ IF type = "optional" /\ o \in defined THEN Fail(EXCPT_ACCESS) ELSE Store(o, v, "assign")

\* Mutant: any assignment from an object replaces the value.
AssignObject_Replaces(o, type, p, from) ==
  /\ Exists(o) /\ Exists(p) /\ type \in Types(o) /\ from \in Types(p)
  /\ \/ o = p /\ outcome' = Done("assign") /\ UNCHANGED <<defined, value, stored, held>>
     \/ o # p /\ p \in defined /\ Store(o, value[p], "assign")
     \/ o # p /\ p \notin defined /\ Fail(EXCPT_GENERAL)

\* o = p, as objects of these types.  weak_optional takes an optional again
\* and again, but the assignment from another weak_optional is the one the
\* compiler makes, and that calls optional's: it works once.  Only that one
\* looks at _defined before it finds that it assigns an object to itself.
AssignObject(o, type, p, from) ==
  /\ Exists(o) /\ Exists(p) /\ type \in Types(o) /\ from \in Types(p)
  /\ LET once == type = "optional" \/ from = "weak_optional"
     IN  \/ once /\ o \in defined /\ Fail(EXCPT_ACCESS)
         \/ /\ ~(once /\ o \in defined)
            /\ \/ o = p /\ outcome' = Done("assign") /\ UNCHANGED <<defined, value, stored, held>>
               \/ o # p /\ p \in defined /\ Store(o, value[p], "assign")
               \/ o # p /\ p \notin defined /\ Fail(EXCPT_GENERAL)

\* reset() clears the flag and leaves the value where it is, and whoever holds
\* a reference to it keeps that.
Reset(o) ==
  /\ Exists(o)
  /\ defined' = defined \ {o}
  /\ stored' = [stored EXCEPT ![o] = Nobody]
  /\ outcome' = Done("reset")
  /\ UNCHANGED <<value, held>>

ResetTo(o, v) == Exists(o) /\ Store(o, v, "reset")

-----------------------------------------------------------------------------
(* Reading, and writing through what was read.                             *)

\* The value is given out, by members that are not const as a reference or a
\* pointer, which the caller may keep; const ones and the conversion to _Tp
\* give nothing to write through.
Give(o) ==
  /\ outcome' = Returned(o, value[o])
  /\ held' \in {held, held \cup {o}}
  /\ UNCHANGED <<defined, value, stored>>

\* get(), and operator<<, which calls it.
Get(o) ==
  /\ Exists(o)
  /\ IF o \in defined THEN Give(o) ELSE Fail(EXCPT_GENERAL)

\* Mutant: the flag is not looked at.
Access_Unchecked(o) == Exists(o) /\ Give(o)

\* The operators * and -> and the conversions.
Access(o) ==
  /\ Exists(o)
  /\ IF o \in defined THEN Give(o) ELSE Fail(EXCPT_ACCESS)

\* The default is the caller's own object: it says nothing about o, and what
\* is written to it does not reach o.
GetOrDefault(o) ==
  /\ Exists(o)
  /\ IF o \in defined THEN Give(o)
     ELSE outcome' = Done("default") /\ UNCHANGED <<defined, value, stored, held>>

\* *o = v, o.get() = v, or the same through a reference kept from before.  It
\* goes past the flag: a container reset since then is not defined by it.
WriteThrough(o, v) ==
  /\ o \in held
  /\ value' = [value EXCEPT ![o] = v]
  /\ stored' = IF o \in defined THEN [stored EXCEPT ![o] = v] ELSE stored
  /\ outcome' = Done("reference")
  /\ UNCHANGED <<defined, held>>

Writes(o) ==
  \/ \E v \in Value, type \in Types(o) : SetValue(o, type, v) \/ AssignValue(o, type, v)
  \/ \E v \in Value : ConstructFrom(o, v) \/ ResetTo(o, v)
  \/ \E p \in Object : ConstructCopy(o, p)
  \/ \E p \in Object : \E type \in Types(o), from \in Types(p) : AssignObject(o, type, p, from)

OptionalNext ==
  \E o \in Object :
    \/ Construct(o)
    \/ Destroy(o)
    \/ Writes(o)
    \/ Reset(o)
    \/ Get(o)
    \/ Access(o)
    \/ GetOrDefault(o)
    \/ \E v \in Value : WriteThrough(o, v)

OptionalSpec == OptionalInit /\ [][OptionalNext]_optionalVars

-----------------------------------------------------------------------------
(***************************************************************************)
(* Properties.                                                             *)
(***************************************************************************)

\* What a container gives out was stored in it, by an operation that did not
\* throw or through a reference while it was defined, since it was built or
\* last reset: neither the stale value that reset() leaves behind, nor what
\* was written there through an old reference, nor what the memory held
\* before is ever read.
ReadsWhatWasStored ==
  outcome.kind = "returned" => outcome.value = stored[outcome.of] /\ outcome.value \in Value

\* Whatever it is assigned, through whatever chain of copies and types, an
\* optional never replaces a value it has: that takes a reset, or somebody
\* who was given a reference to the value and writes through it.
WriteOnce ==
  [][ \A o \in Strong \cap defined :
        o \in defined' /\ value'[o] # value[o] =>
          \/ outcome' = Done("reset")
          \/ o \in held /\ outcome' = Done("reference") ]_optionalVars
=============================================================================
