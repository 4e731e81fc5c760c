---------------------------- MODULE MCLiveStream ----------------------------
(***************************************************************************)
(* LiveStream for TLC: two symbols and up to four streams in a session.   *)
(*                                                                         *)
(* A behaviour is of one of two regimes.  In the free one views change     *)
(* while a stream is starting, starts fail and the server hangs up; in the *)
(* calm one a handler resubscribes only when nothing is starting, nothing  *)
(* fails, and dropping a handle closes nothing.                            *)
(***************************************************************************)
EXTENDS LiveStream, TLC

CONSTANTS aapl, msft

MCSymbol == {aapl, msft}

VARIABLE regime

Calm == INSTANCE LiveStream WITH
  Overlapping <- FALSE, DropStops <- FALSE, Faults <- {}

MCInit == Init /\ regime \in {"free", "calm"}

MCNext ==
  \/ regime = "free" /\ Next /\ UNCHANGED regime
  \/ regime = "calm" /\ Calm!Next /\ UNCHANGED regime

MCSpec == MCInit /\ [][MCNext]_<<vars, regime>> /\ Fairness

\* Every open stream is the one in hand or on its way there, to be stopped with
\* it (StreamStarted); in the calm regime the one in hand carries, whenever
\* nothing is starting, exactly the symbols subscribed last (update_stream).
StreamInHand ==
  /\ NoOrphan
  /\ regime = "calm" => LiveCoversSubscribed

\* In the calm regime the session ends or comes to such a stream.
CalmCoveredInTheEnd == regime = "free" \/ CoveredInTheEnd
=============================================================================
