--------------------------- MODULE EarningsModal ----------------------------
(***************************************************************************)
(* The earnings modal: its ticker, its data and its loading flag.  Its     *)
(* fetch does not pass through Inflight, so several may run for one        *)
(* ticker; an answer carries its ticker and is ignored when the modal has  *)
(* moved on.                                                               *)
(***************************************************************************)
EXTENDS Integers, Sequences

CONSTANTS
  Ticker,      \* the tickers that can be selected
  NoTicker,    \* stands for None
  MaxPending,  \* bound on the fetches and answers outstanding for one ticker
  Failures     \* whether a fetch may fail

\* What the constants have to satisfy.
EarningsAssumption ==
  /\ NoTicker \notin Ticker
  /\ MaxPending \in Nat
  /\ Failures \in BOOLEAN

VARIABLES
  ticker,   \* earnings_modal.ticker
  data,     \* the ticker its data belongs to, NoTicker for None
  loading,  \* earnings_modal.loading
  running,  \* how many fetches run for each ticker
  queue     \* EarningsReady and EarningsFailed events on their way

vars == <<ticker, data, loading, running, queue>>

Event == [ticker : Ticker, ok : BOOLEAN]

Queued(t) == \E i \in DOMAIN queue : queue[i].ticker = t

Init ==
  /\ ticker = NoTicker
  /\ data = NoTicker
  /\ loading = FALSE
  /\ running = [t \in Ticker |-> 0]
  /\ queue = <<>>

\* `e`: data of t is kept; otherwise it is emptied and fetched.
Open(t) ==
  /\ running[t] + Len(queue) < MaxPending
  /\ ticker' = t
  /\ \/ data = t /\ UNCHANGED <<data, loading, running>>
     \/ /\ data # t
        /\ data' = NoTicker
        /\ loading' = TRUE
        /\ running' = [running EXCEPT ![t] = @ + 1]
  /\ UNCHANGED queue

\* A fetch ends, with the earnings or with an error.
Answer(t) ==
  /\ running[t] > 0
  /\ \E ok \in BOOLEAN :
       /\ ok \/ Failures
       /\ queue' = Append(queue, [ticker |-> t, ok |-> ok])
  /\ running' = [running EXCEPT ![t] = @ - 1]
  /\ UNCHANGED <<ticker, data, loading>>

\* Mutant of Deliver: an error leaves the flag.
Deliver_ErrorLeavesFlag ==
  /\ queue # <<>>
  /\ LET e == Head(queue) IN
     IF e.ok /\ e.ticker = ticker THEN loading' = FALSE /\ data' = ticker
     ELSE UNCHANGED <<loading, data>>
  /\ queue' = Tail(queue)
  /\ UNCHANGED <<ticker, running>>

\* EarningsReady, EarningsFailed: only the modal's own ticker counts; an error
\* is reported and leaves the data alone.
Deliver ==
  /\ queue # <<>>
  /\ LET e == Head(queue) IN
     \/ /\ e.ticker = ticker
        /\ loading' = FALSE
        /\ data' = IF e.ok THEN ticker ELSE data
     \/ e.ticker # ticker /\ UNCHANGED <<loading, data>>
  /\ queue' = Tail(queue)
  /\ UNCHANGED <<ticker, running>>

Next == (\E t \in Ticker : Open(t) \/ Answer(t)) \/ Deliver

\* A request ends one way or the other; the loop drains its queue.
Fairness == (\A t \in Ticker : WF_vars(Answer(t))) /\ WF_vars(Deliver)

Spec == Init /\ [][Next]_vars
FairSpec == Spec /\ Fairness

-----------------------------------------------------------------------------
(***************************************************************************)
(* Properties                                                              *)
(***************************************************************************)

\* Type invariant of the modal and its fetches.
TypeOK ==
  /\ ticker \in Ticker \cup {NoTicker}
  /\ data \in Ticker \cup {NoTicker}
  /\ loading \in BOOLEAN
  /\ running \in [Ticker -> Nat]
  /\ queue \in Seq(Event)

\* A modal that loads stops loading, or the user turns to another stock.
LoadingEnds == \A t \in Ticker : (loading /\ ticker = t) ~> (~loading \/ ticker # t)
=============================================================================
