--------------------------- MODULE MCStockModals ----------------------------
(***************************************************************************)
(* StockModals for TLC: two stocks, one panel of the info modal and the    *)
(* chart.  One stock has three expirations and the other has no options,   *)
(* so that a late chain can be shorter than the index left by another.     *)
(*                                                                         *)
(* A behaviour is of one of two regimes: in the free one keys overlap with *)
(* fetches, and fetches fail; in the calm one a key is pressed when all    *)
(* answers have arrived, and none fails.                                   *)
(***************************************************************************)
EXTENDS StockModals, TLC

CONSTANTS aapl, brk, analysis

MCTicker == {aapl, brk}
MCInfo == {analysis}
MCExpirations == aapl :> 3 @@ brk :> 0

VARIABLE regime

Calm == INSTANCE StockModals WITH Overlapping <- FALSE, Failures <- FALSE

MCInit == ModalInit /\ regime \in {"free", "calm"}

MCNext ==
  \/ regime = "free" /\ ModalNext /\ UNCHANGED regime
  \/ regime = "calm" /\ Calm!ModalNext /\ UNCHANGED regime

MCSpec == MCInit /\ [][MCNext]_<<modalVars, regime>> /\ ModalFairness

\* In either regime the earnings modal shows the figures of the selected stock;
\* in the calm one the info modal never holds another stock's data, and the
\* contracts on screen are those of the selected expiry, with the spot price of
\* their own underlying.
ShownIsSelected ==
  /\ EarningsOfStock
  /\ regime = "calm" => PanelMatchesStock /\ ShowsSelectedExpiry /\ PricedByUnderlying
=============================================================================
