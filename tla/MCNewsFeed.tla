----------------------------- MODULE MCNewsFeed -----------------------------
(***************************************************************************)
(* NewsFeed and Watchlist for TLC: three tickers of which the feed takes   *)
(* two, and one headline that two of them carry.                           *)
(*                                                                         *)
(* A behaviour is of one of two regimes.  In the free one tickers are      *)
(* toggled before the startup load has arrived and again while a write is  *)
(* outstanding, and a refresh overtakes the fetches of the one before; in  *)
(* the patient one neither happens.                                        *)
(***************************************************************************)
EXTENDS NewsFeed

MCHeadlines == <<{"a", "shared"}, {"b", "shared"}, {"c"}>>

VARIABLE regime

Patiently == INSTANCE NewsFeed WITH Overlapping <- FALSE, Patient <- TRUE

MCInit == Init /\ regime \in {"free", "patient"}

MCNext ==
  \/ regime = "free" /\ Next /\ UNCHANGED regime
  \/ regime = "patient" /\ Patiently!Next /\ UNCHANGED regime

MCSpec == MCInit /\ [][MCNext]_<<vars, regime>> /\ Fairness

\* In the patient regime memory and table differ only in the tickers being
\* written, the feed holds headlines of the latest refresh only, and the page
\* does not say that there are none before every answer has arrived.
PatientPromise ==
  regime = "patient" => OnlyWritesDiffer /\ FeedFromLatestRefresh /\ EmptyIsFinal
=============================================================================
