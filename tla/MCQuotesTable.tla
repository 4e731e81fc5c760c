---------------------------- MODULE MCQuotesTable ----------------------------
(***************************************************************************)
(* QuotesTable for TLC: three tickers on pages of one, two or three rows,  *)
(* a sort by ticker and one by price, whose order moves with the prices, a *)
(* query that matches one row and one ticker that may be held.             *)
(*                                                                         *)
(* A behaviour is of one of two regimes.  In the free one quotes are       *)
(* fetched, reloads overlap and fail, and the watchlist may be shown       *)
(* before it is loaded; in the calm one none of this happens.              *)
(***************************************************************************)
EXTENDS QuotesTable

MCSortedBy == [ticker |-> {<<"A", "B", "C">>},
               price  |-> {<<"C", "B", "A">>, <<"B", "C", "A">>}]
MCSorts    == {"ticker", "price"}
MCMatching == [b |-> {"B"}, none |-> {"A", "B", "C"}]

VARIABLE regime

Calmly == INSTANCE QuotesTable WITH Calm <- TRUE

MCInit == Init /\ regime \in {"free", "calm"}

MCNext ==
  \/ regime = "free" /\ Next /\ UNCHANGED regime
  \/ regime = "calm" /\ Calmly!Next /\ UNCHANGED regime

MCSpec == MCInit /\ [][MCNext]_<<vars, regime>>

\* In the calm regime every visible and every held ticker is live unless a
\* query is being typed, the table shows what the search and the watchlist let
\* through, and the order of the rows at rest is one that was read for the
\* column and the direction in the header.
CalmView == regime = "calm" => LiveUnlessTyping /\ ViewIsFiltered /\ HeaderNamesOrder
=============================================================================
