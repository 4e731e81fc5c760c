--------------------------- MODULE AlertLifecycle ---------------------------
(***************************************************************************)
(* What the README promises of a price alert, without tasks, lists or ids: *)
(* the user arms it once, and it leaves the armed state by firing once or  *)
(* by being removed.  One tick may fire several alerts.                    *)
(***************************************************************************)
EXTENDS Naturals

CONSTANT Alert

VARIABLES
  entered,  \* the alerts the user has entered so far
  armed,    \* those that have neither fired nor been removed
  fires     \* how many times each has fired

vars == <<entered, armed, fires>>

Init ==
  /\ entered \in SUBSET Alert
  /\ armed = entered
  /\ fires = [a \in Alert |-> 0]

Arm(a) ==
  /\ a \notin entered
  /\ entered' = entered \cup {a}
  /\ armed' = armed \cup {a}
  /\ UNCHANGED fires

Fire(hit) ==
  /\ hit # {} /\ hit \subseteq armed
  /\ armed' = armed \ hit
  /\ fires' = [a \in Alert |-> fires[a] + (IF a \in hit THEN 1 ELSE 0)]
  /\ UNCHANGED entered

Remove(a) ==
  /\ a \in armed
  /\ armed' = armed \ {a}
  /\ UNCHANGED <<entered, fires>>

Next ==
  \/ \E a \in Alert : Arm(a) \/ Remove(a)
  \/ \E hit \in SUBSET Alert : Fire(hit)

Spec == Init /\ [][Next]_vars
=============================================================================
