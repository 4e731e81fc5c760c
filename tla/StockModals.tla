---------------------------- MODULE StockModals -----------------------------
(***************************************************************************)
(* The four modals of a stock together: info and chart (StockPanels),      *)
(* options (OptionsModal) and earnings (EarningsModal).  They share the    *)
(* selected stock and the one overlay on screen, so that each of them may  *)
(* change the stock under the answers the others wait for.                 *)
(*                                                                         *)
(* Answers come back through one queue of the event loop.  Here each modal *)
(* has a queue of its own: their answers touch different state, and the    *)
(* one queue is among the orders the three allow.                          *)
(***************************************************************************)
EXTENDS StockPanels

CONSTANTS
  NoChain,      \* stands for no chain
  Expirations,  \* how many expirations each ticker has
  MaxPresses    \* bound on the keys that open a modal or turn its expiry

VARIABLES
  chain, selected, asked, fetching, chains, chainFailed,  \* OptionsModal
  ticker, earnings, loading, asking, reports,             \* EarningsModal
  presses                                                 \* keys so far

optionVars == <<chain, selected, asked, fetching, chains, chainFailed>>
earningsVars == <<ticker, earnings, loading, asking, reports>>
modalVars == <<vars, optionVars, earningsVars, presses>>

Options == INSTANCE OptionsModal WITH queue <- chains, failed <- chainFailed
Earnings == INSTANCE EarningsModal WITH
  data <- earnings, running <- asking, queue <- reports

ASSUME ModalsAssumption ==
  /\ Options!OptionsAssumption
  /\ Earnings!EarningsAssumption
  /\ MaxPresses \in Nat

ModalInit ==
  /\ Init /\ Options!Init /\ Earnings!Init
  /\ presses = 0

\* Nothing is outstanding for any modal.
AllAtRest ==
  AtRest /\ Options!AtRest /\ reports = <<>> /\ \A t \in Ticker : asking[t] = 0

\* A key is pressed; unless keys and fetches overlap, after all has arrived.
Press ==
  /\ Overlapping \/ AllAtRest
  /\ presses < MaxPresses
  /\ presses' = presses + 1

\* `s` and Enter.
OpenPanels(t) ==
  /\ Press
  /\ OpenInfo(t) \/ OpenChart(t)
  /\ UNCHANGED <<optionVars, earningsVars>>

\* `x`.
OpenOptions(t) ==
  /\ Press
  /\ Options!OpenOptions(t)
  /\ UNCHANGED <<data, inflight, running, queue, failed, earningsVars>>

\* `e`.
OpenEarnings(t) ==
  /\ Press
  /\ overlay = "none"
  /\ stock' = t
  /\ overlay' = "earnings"
  /\ Earnings!Open(t)
  /\ UNCHANGED <<data, inflight, running, queue, failed, optionVars>>

\* `h` and `l` in the options modal.
CycleExpiry(d) ==
  /\ Press
  /\ Options!CycleExpiry(d)
  /\ UNCHANGED <<data, inflight, running, queue, failed, earningsVars>>

\* The fetches of each modal, and their answers.
PanelTasks ==
  /\ (\E k \in Key : Answer(k) \/ Fail(k)) \/ Deliver
  /\ UNCHANGED <<optionVars, earningsVars, presses>>

OptionTasks ==
  /\ (\E t \in Ticker : Options!Answer(t) \/ Options!Fail(t)) \/ Options!OptionChainReady
  /\ UNCHANGED <<vars, earningsVars, presses>>

EarningsTasks ==
  /\ (\E t \in Ticker : Earnings!Answer(t)) \/ Earnings!Deliver
  /\ UNCHANGED <<vars, optionVars, presses>>

ModalNext ==
  \/ \E t \in Ticker : OpenPanels(t) \/ OpenOptions(t) \/ OpenEarnings(t)
  \/ \E d \in {-1, 1} : CycleExpiry(d)
  \/ Close /\ UNCHANGED <<optionVars, earningsVars, presses>>
  \/ PanelTasks \/ OptionTasks \/ EarningsTasks

\* Requests end one way or the other; the loop drains its queue.
ModalFairness == Fairness /\ Options!Fairness /\ Earnings!Fairness

ModalSpec == ModalInit /\ [][ModalNext]_modalVars

-----------------------------------------------------------------------------
(***************************************************************************)
(* Properties                                                              *)
(***************************************************************************)

\* Type invariant of the modals, and the range of the one index they keep: it
\* never points past the expirations of the chain on screen, whatever chain
\* arrives after it was set.
ModalTypeOK ==
  /\ TypeOK /\ Options!TypeOK /\ Earnings!TypeOK
  /\ Options!SelectedInRange
  /\ presses \in 0..MaxPresses

\* No request is made twice at the same time, and an info panel that shows
\* "loading" waits for a request that runs, or for its answer (Inflight).
FetchesAreClaimed == OneFetchPerKey /\ LoadingIsPending

\* selected_expiry is the "index into the chain's expirations currently shown
\* in the modal": the contracts on screen are those of that expiry.
ShowsSelectedExpiry == Options!ShowsSelectedExpiry

\* The chain on screen is priced with its own underlying, whichever stock the
\* other modals have selected since it was asked for.
PricedByUnderlying == Options!PricedByUnderlying

\* Whatever is late, the earnings modal shows the selected stock's figures.
EarningsOfStock ==
  overlay = "earnings" => ticker = stock /\ earnings \in {NoTicker, stock}

\* What a modal waits for arrives, unless its fetch fails or the user turns to
\* something else: each panel of the info modal, the chain of the options modal
\* and the figures of the earnings modal.
ModalsFill == PanelsFill /\ Options!ChainArrives /\ Earnings!LoadingEnds
=============================================================================
