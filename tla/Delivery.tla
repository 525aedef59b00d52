------------------------------ MODULE Delivery ------------------------------
(***************************************************************************)
(* What xmppsend promises its caller, without streams, rooms or threads:   *)
(* a set of JIDs is owed the text; one after the other they are settled    *)
(* (the text was sent to them, or an error named them); and the exit code  *)
(* says "success" only once all of them are.                               *)
(***************************************************************************)
CONSTANT Bares    \* the JIDs that can be owed something

VARIABLES
  owed,           \* who is to get the text; never changes
  settled,        \* who has got it, or has been complained about
  outcome         \* "running", then how the process ended

deliveryVars == <<owed, settled, outcome>>

Init ==
  /\ owed \subseteq Bares
  /\ settled = {}
  /\ outcome = "running"

Settle(b) ==
  /\ outcome = "running"
  /\ b \in owed \ settled
  /\ settled' = settled \cup {b}
  /\ UNCHANGED <<owed, outcome>>

End(how) ==
  /\ outcome = "running"
  /\ outcome' = how
  /\ UNCHANGED <<owed, settled>>

\* Exit code 0.
Succeed == owed \subseteq settled /\ End("success")

\* Exit code other than 0; possible at any time.
Fail == End("failure")

\* There never was a session, and nothing was done.
NeverStart == settled = {} /\ End("unstarted")

Next ==
  \/ \E b \in Bares : Settle(b)
  \/ Succeed
  \/ Fail
  \/ NeverStart

Spec == Init /\ [][Next]_deliveryVars
=============================================================================
