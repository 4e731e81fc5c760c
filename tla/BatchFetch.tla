----------------------------- MODULE BatchFetch -----------------------------
(***************************************************************************)
(* What fetch_and_store promises its callers: every requested ticker comes *)
(* to exactly one outcome, in any order, and the call returns only when    *)
(* all of them have.                                                       *)
(***************************************************************************)
CONSTANT Task

VARIABLES outcome, returned

Outcome == {"pending", "none", "stored", "failed"}

Init ==
  /\ outcome = [t \in Task |-> "pending"]
  /\ returned = FALSE

Resolve(t, o) ==
  /\ outcome[t] = "pending"
  /\ o \in Outcome \ {"pending"}
  /\ outcome' = [outcome EXCEPT ![t] = o]
  /\ UNCHANGED returned

Return ==
  /\ ~returned
  /\ \A t \in Task : outcome[t] # "pending"
  /\ returned' = TRUE
  /\ UNCHANGED outcome

Next == Return \/ \E t \in Task, o \in Outcome : Resolve(t, o)

Spec == Init /\ [][Next]_<<outcome, returned>>
=============================================================================
