------------------------------ MODULE MCAlerts ------------------------------
(***************************************************************************)
(* A small instance of Alerts for TLC.  The alerts high and low watch one  *)
(* ticker from either side, so that one price fires either of them or      *)
(* both.                                                                   *)
(*                                                                         *)
(* A behaviour is of one of two regimes.  In the free one handlers run     *)
(* while tasks are in flight, writes fail and the program restarts; in the *)
(* serial one the user and the stream let the tasks finish, and nothing    *)
(* but restarts goes wrong.                                                *)
(***************************************************************************)
EXTENDS Alerts

CONSTANTS high, low, aapl

MCAlert == {high, low}
MCTicker == {aapl}
MCTickerOf == [a \in Alert |-> aapl]
MCAboveAlerts == {high}
\* Price 1 hits low, 2 hits both, 3 hits high.
MCThresholdOf == [a \in Alert |-> 2]
MCPrice == {1, 2, 3}

VARIABLE regime

Serial == INSTANCE Alerts WITH
  Overlapping <- FALSE, Faults <- Faults \ {"db_error"}

MCInit == Init /\ regime \in {"free", "serial"}

MCNext ==
  \/ regime = "free" /\ Next /\ UNCHANGED regime
  \/ regime = "serial" /\ Serial!Next /\ UNCHANGED regime

MCSpec == MCInit /\ [][MCNext]_<<vars, regime>> /\ Fairness

\* The serial regime implements the promised life of an alert, across restarts
\* too: armed once, and fired or removed once.  The free regime maps to a
\* behaviour in which no alert is entered.
Promise == INSTANCE AlertLifecycle WITH
  entered <- IF regime = "serial" THEN submitted ELSE {},
  armed   <- IF regime = "serial" THEN Armed ELSE {},
  fires   <- IF regime = "serial" THEN fires ELSE NoTask

SerialImplementsLifecycle == Promise!Spec

\* In the serial regime the list in memory is, at rest, the active rows of the
\* table: the optimistic entries and the reloads add up.
SerialListIsTable == regime = "serial" => AtRestListIsTable
=============================================================================
