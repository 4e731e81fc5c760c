---------------------------- MODULE OptionsModal ----------------------------
(***************************************************************************)
(* The options modal: stock_modal.option_chain, selected_expiry and the    *)
(* fetches of chains.  All fetches for one symbol share one Inflight key,  *)
(* whichever expiry they ask for.                                          *)
(*                                                                         *)
(* A chain is modelled by its underlying, the expiry its contracts are     *)
(* for, and the stock whose price was written into underlying_price.  The  *)
(* provider is external: a symbol has a fixed number of expirations, and   *)
(* the chain fetched without an expiry is that of the first one.           *)
(***************************************************************************)
EXTENDS Integers, Sequences

CONSTANTS
  Ticker,       \* the tickers that can be selected
  NoTicker,     \* stands for no stock
  NoChain,      \* stands for no chain
  Expirations,  \* how many expirations each ticker has
  MaxPending,   \* bound on the answers waiting in the loop's queue
  Failures,     \* whether a fetch may fail
  Overlapping   \* whether the user may act while a fetch is outstanding

Reply == {r \in [ticker : Ticker, expiry : Nat] :
            r.expiry = 0 \/ r.expiry < Expirations[r.ticker]}
Chain == {c \in [ticker : Ticker, expiry : Nat, spot : Ticker \cup {NoTicker}] :
            c.expiry = 0 \/ c.expiry < Expirations[c.ticker]}

\* What the constants have to satisfy.
OptionsAssumption ==
  /\ NoTicker \notin Ticker
  /\ Expirations \in [Ticker -> Nat]
  /\ NoChain \notin Chain
  /\ MaxPending \in Nat
  /\ Failures \in BOOLEAN /\ Overlapping \in BOOLEAN

Idle == -1

VARIABLES
  stock,     \* stock_modal.stock
  overlay,   \* App.overlay
  chain,     \* option_chain, NoChain for None
  selected,  \* selected_expiry, counted from 0
  asked,     \* history: the ticker of the latest chain asked for
  fetching,  \* the expiry being fetched for each ticker, Idle for none
  queue,     \* chains on their way to the loop
  failed     \* history: the tickers whose latest fetch failed

vars == <<stock, overlay, chain, selected, asked, fetching, queue, failed>>

AtRest == queue = <<>> /\ \A t \in Ticker : fetching[t] = Idle
MayAct == (Overlapping \/ AtRest) /\ Len(queue) < MaxPending

AtMost(a, b) == IF a < b THEN a ELSE b

\* The last index of a list of n expirations, 0 when it is empty.
LastIndex(n) == IF n = 0 THEN 0 ELSE n - 1

Init ==
  /\ stock = NoTicker
  /\ overlay = "none"
  /\ chain = NoChain
  /\ selected = 0
  /\ asked = NoTicker
  /\ fetching = [t \in Ticker |-> Idle]
  /\ queue = <<>>
  /\ failed = {}

(***************************************************************************)
(* The user                                                                *)
(***************************************************************************)

\* spawn_option_chain, spawn_option_chain_for_expiry: refused while a fetch
\* for the symbol runs, whatever its expiry.
Fetch(t, e) ==
  /\ asked' = t
  /\ IF fetching[t] = Idle
     THEN fetching' = [fetching EXCEPT ![t] = e] /\ failed' = failed \ {t}
     ELSE UNCHANGED <<fetching, failed>>

\* Whether the chain at hand belongs to t.
HasChain(t) == chain # NoChain /\ chain.ticker = t

\* `x`: a chain of this stock is kept and gets its price again; otherwise the
\* chain is emptied, the index reset and the first expiry fetched.
OpenOptions(t) ==
  /\ overlay = "none" /\ MayAct
  /\ stock' = t
  /\ overlay' = "options"
  /\ \/ /\ HasChain(t)
        /\ chain' = [chain EXCEPT !.spot = t]
        /\ UNCHANGED <<selected, asked, fetching, failed>>
     \/ /\ ~HasChain(t)
        /\ chain' = NoChain
        /\ selected' = 0
        /\ Fetch(t, 0)
  /\ UNCHANGED queue

\* `s`, `e`, or Enter: another modal selects a stock.  Enter opens the chart
\* over any modal.
OpenOther(t) ==
  /\ MayAct
  /\ stock' = t
  /\ overlay' \in {"info", "chart", "earnings"}
  /\ UNCHANGED <<chain, selected, asked, fetching, queue, failed>>

Close ==
  /\ overlay # "none"
  /\ overlay' = "none"
  /\ UNCHANGED <<stock, chain, selected, asked, fetching, queue, failed>>

\* `h` and `l`: the next index, unless it is clamped to the present one; the
\* chain is emptied and that expiry of the chain's underlying fetched.
CycleExpiry(d) ==
  LET n == Expirations[chain.ticker]
      next == AtMost(IF selected + d < 0 THEN 0 ELSE selected + d, n - 1)
  IN
  /\ overlay = "options" /\ MayAct
  /\ chain # NoChain /\ n > 0
  /\ next # selected
  /\ selected' = next
  /\ chain' = NoChain
  /\ Fetch(chain.ticker, next)
  /\ UNCHANGED <<stock, overlay, queue>>

(***************************************************************************)
(* The fetch tasks and their answers                                       *)
(***************************************************************************)

Answer(t) ==
  /\ fetching[t] # Idle
  /\ queue' = Append(queue, [ticker |-> t, expiry |-> fetching[t]])
  /\ fetching' = [fetching EXCEPT ![t] = Idle]
  /\ UNCHANGED <<stock, overlay, chain, selected, asked, failed>>

Fail(t) ==
  /\ Failures
  /\ fetching[t] # Idle
  /\ fetching' = [fetching EXCEPT ![t] = Idle]
  /\ failed' = failed \cup {t}
  /\ UNCHANGED <<stock, overlay, chain, selected, asked, queue>>

\* Mutant of OptionChainReady: the index is not clamped.
OptionChainReady_NoClamp ==
  /\ queue # <<>>
  /\ LET r == Head(queue) IN
     chain' = [ticker |-> r.ticker, expiry |-> r.expiry, spot |-> stock]
  /\ queue' = Tail(queue)
  /\ UNCHANGED <<stock, overlay, selected, asked, fetching, failed>>

\* The chain is stored with the price of the selected stock, whichever symbol
\* and expiry it is for; the index is clamped to its expirations.
OptionChainReady ==
  /\ queue # <<>>
  /\ LET r == Head(queue) IN
     /\ chain' = [ticker |-> r.ticker, expiry |-> r.expiry, spot |-> stock]
     /\ selected' = AtMost(selected, LastIndex(Expirations[r.ticker]))
  /\ queue' = Tail(queue)
  /\ UNCHANGED <<stock, overlay, asked, fetching, failed>>

Next ==
  \/ \E t \in Ticker : OpenOptions(t) \/ OpenOther(t) \/ Answer(t) \/ Fail(t)
  \/ \E d \in {-1, 1} : CycleExpiry(d)
  \/ Close
  \/ OptionChainReady

\* A request ends one way or the other; the loop drains its queue.
Fairness == (\A t \in Ticker : WF_vars(Answer(t))) /\ WF_vars(OptionChainReady)

Spec == Init /\ [][Next]_vars
FairSpec == Spec /\ Fairness

-----------------------------------------------------------------------------
(***************************************************************************)
(* Properties                                                              *)
(***************************************************************************)

\* Type invariant of the modal and its fetches.
TypeOK ==
  /\ stock \in Ticker \cup {NoTicker}
  /\ overlay \in {"none", "info", "chart", "options", "earnings"}
  /\ chain \in Chain \cup {NoChain}
  /\ selected \in Nat
  /\ asked \in Ticker \cup {NoTicker}
  /\ \A t \in Ticker :
       fetching[t] = Idle \/ [ticker |-> t, expiry |-> fetching[t]] \in Reply
  /\ queue \in Seq(Reply)
  /\ failed \subseteq Ticker

\* The index never points past the expirations of the chain on screen, whatever
\* chain arrives after it was set.
SelectedInRange ==
  chain # NoChain => selected <= LastIndex(Expirations[chain.ticker])

\* selected_expiry is the "index into the chain's expirations currently shown
\* in the modal": the contracts on screen are those of that expiry.
ShowsSelectedExpiry == chain # NoChain => chain.expiry = selected

\* The chain of the options modal is priced with its own underlying: the spot
\* its analytics use is that of the chain's symbol (underlying_price).
PricedByUnderlying ==
  overlay = "options" /\ chain # NoChain => chain.spot = chain.ticker

\* An options modal shows a chain in the end, unless its fetch fails or the
\* user closes it.
ChainArrives ==
  (overlay = "options" /\ chain = NoChain)
    ~> (overlay # "options" \/ chain # NoChain \/ asked \in failed)
=============================================================================
