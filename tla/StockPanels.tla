---------------------------- MODULE StockPanels -----------------------------
(***************************************************************************)
(* The info and chart modals (App.stock_modal) and the background fetches  *)
(* that fill them.  A key press selects a stock and starts the fetches the *)
(* modal lacks; Inflight refuses a second fetch of the same kind and       *)
(* symbol; answers come back through the loop's queue, in any order.       *)
(*                                                                         *)
(* A panel's content is modelled by the ticker it was fetched for.  The    *)
(* selected row is any ticker: it moves with the table, modal or not.      *)
(***************************************************************************)
EXTENDS Integers, Sequences

CONSTANTS
  Ticker,       \* the tickers that can be selected
  NoTicker,     \* stands for None
  InfoPanel,    \* the panels of the info modal: analysis, statistics, news
  Chart,        \* the chart modal's panel
  MaxPending,   \* bound on fetches and answers outstanding at once
  Failures,     \* whether a fetch may fail
  Overlapping   \* whether a modal may be opened while a fetch is outstanding

ASSUME PanelsAssumption ==
  /\ NoTicker \notin Ticker
  /\ Chart \notin InfoPanel
  /\ MaxPending \in Nat
  /\ Failures \in BOOLEAN /\ Overlapping \in BOOLEAN

Panel == InfoPanel \cup {Chart}
Key == Panel \X Ticker
Overlays == {"none", "info", "chart", "options", "earnings"}

VARIABLES
  stock,     \* stock_modal.stock
  overlay,   \* App.overlay
  data,      \* the ticker each panel's content belongs to, NoTicker for None
  inflight,  \* the keys of Inflight
  running,   \* how many fetch tasks run for each key
  queue,     \* answers on their way to the loop
  failed     \* history: the keys whose latest fetch failed

vars == <<stock, overlay, data, inflight, running, queue, failed>>

Outstanding == {k \in Key : running[k] > 0}
AtRest == Outstanding = {} /\ queue = <<>>

\* draw_stock_modal: a section of the info modal says that it is loading until
\* it has something to show.
SectionLoading(p) == data[p] = NoTicker

Init ==
  /\ stock = NoTicker
  /\ overlay = "none"
  /\ data = [p \in Panel |-> NoTicker]
  /\ inflight = {}
  /\ running = [k \in Key |-> 0]
  /\ queue = <<>>
  /\ failed = {}

(***************************************************************************)
(* spawn_client_fetch, once for each wanted key                            *)
(***************************************************************************)

\* Mutant of Fetch: begin does not look at the keys already claimed.
Fetch_Unguarded(wanted) ==
  /\ inflight' = inflight \cup wanted
  /\ running' = [k \in Key |-> running[k] + IF k \in wanted THEN 1 ELSE 0]
  /\ failed' = failed \ wanted

\* Inflight.begin claims each key that is not claimed yet and its task starts;
\* a claimed key is left to the task that holds it.
Fetch(wanted) ==
  LET begun == wanted \ inflight IN
  /\ inflight' = inflight \cup begun
  /\ running' = [k \in Key |-> running[k] + IF k \in begun THEN 1 ELSE 0]
  /\ failed' = failed \ begun

\* The user opens a modal on t.
Opens(t) ==
  /\ Overlapping \/ AtRest
  /\ Len(queue) < MaxPending
  /\ stock' = t

\* Mutant of OpenInfo: a panel loaded for another stock counts as loaded.
OpenInfo_AnyLoaded(t) ==
  LET missing == {p \in InfoPanel : data[p] = NoTicker} IN
  /\ overlay \in {"none", "info", "chart"}
  /\ Opens(t)
  /\ overlay' = "info"
  /\ Fetch({<<p, t>> : p \in missing})
  /\ UNCHANGED <<data, queue>>

\* `s`: each panel that does not belong to t is emptied and fetched.
OpenInfo(t) ==
  LET missing == {p \in InfoPanel : data[p] # t} IN
  /\ overlay \in {"none", "info", "chart"}
  /\ Opens(t)
  /\ overlay' = "info"
  /\ data' = [p \in Panel |-> IF p \in missing THEN NoTicker ELSE data[p]]
  /\ Fetch({<<p, t>> : p \in missing})
  /\ UNCHANGED queue

\* Enter, over any modal: the candles are fetched; those shown stay.
OpenChart(t) ==
  /\ Opens(t)
  /\ overlay' = "chart"
  /\ Fetch({<<Chart, t>>})
  /\ UNCHANGED <<data, queue>>

\* `x` or `e`: another modal takes over the selected stock.
OpenOther(t) ==
  /\ overlay = "none"
  /\ Opens(t)
  /\ overlay' \in {"options", "earnings"}
  /\ UNCHANGED <<data, inflight, running, queue, failed>>

Close ==
  /\ overlay # "none"
  /\ overlay' = "none"
  /\ UNCHANGED <<stock, data, inflight, running, queue, failed>>

(***************************************************************************)
(* The fetch tasks and their answers                                       *)
(***************************************************************************)

\* The task ends: its guard releases the key.
Ends(k) ==
  /\ running[k] > 0
  /\ running' = [running EXCEPT ![k] = @ - 1]
  /\ inflight' = inflight \ {k}

\* The fetch succeeds and its event is sent.
Answer(k) ==
  /\ Ends(k)
  /\ queue' = Append(queue, k)
  /\ UNCHANGED <<stock, overlay, data, failed>>

\* The fetch fails: the error is reported and the panel stays as it is.
Fail(k) ==
  /\ Failures
  /\ Ends(k)
  /\ failed' = failed \cup {k}
  /\ UNCHANGED <<stock, overlay, data, queue>>

\* StockAnalysisReady, StockStatisticsReady, StockNewsReady, ChartDataReady:
\* the content is stored, whichever stock the modal shows.
Deliver ==
  /\ queue # <<>>
  /\ LET k == Head(queue) IN data' = [data EXCEPT ![k[1]] = k[2]]
  /\ queue' = Tail(queue)
  /\ UNCHANGED <<stock, overlay, inflight, running, failed>>

Next ==
  \/ \E t \in Ticker : OpenInfo(t) \/ OpenChart(t) \/ OpenOther(t)
  \/ Close
  \/ \E k \in Key : Answer(k) \/ Fail(k)
  \/ Deliver

\* A request ends one way or the other; the loop drains its queue.
Fairness ==
  /\ \A k \in Key : WF_vars(Answer(k))
  /\ WF_vars(Deliver)

Spec == Init /\ [][Next]_vars
FairSpec == Spec /\ Fairness

-----------------------------------------------------------------------------
(***************************************************************************)
(* Properties                                                              *)
(***************************************************************************)

Queued(k) == \E i \in DOMAIN queue : queue[i] = k

\* Type invariant of the modal and its fetches.
TypeOK ==
  /\ stock \in Ticker \cup {NoTicker}
  /\ overlay \in Overlays
  /\ data \in [Panel -> Ticker \cup {NoTicker}]
  /\ inflight \subseteq Key
  /\ running \in [Key -> Nat]
  /\ queue \in Seq(Key)
  /\ failed \subseteq Key

\* However often modals are opened and closed, no request is made twice at the
\* same time, and a key is claimed exactly while its request runs (Inflight).
OneFetchPerKey ==
  \A k \in Key : running[k] = IF k \in inflight THEN 1 ELSE 0

\* An info panel that shows "loading" is waiting for something: a fetch runs
\* for it or its answer is on the way, unless that fetch failed.
LoadingIsPending ==
  overlay = "info" =>
    \A p \in InfoPanel : SectionLoading(p) =>
      \/ <<p, stock>> \in Outstanding
      \/ Queued(<<p, stock>>)
      \/ <<p, stock>> \in failed

\* The info modal shows the selected stock: no panel holds the data of
\* another one (AppEvent's "loaded for the selected stock").
PanelMatchesStock ==
  overlay = "info" => \A p \in InfoPanel : data[p] \in {NoTicker, stock}

\* An empty panel of an open info modal is filled in the end, unless its fetch
\* fails or the user turns to something else.
PanelsFill ==
  \A p \in InfoPanel, t \in Ticker :
    (overlay = "info" /\ stock = t /\ SectionLoading(p))
      ~> (overlay # "info" \/ stock # t \/ ~SectionLoading(p)
            \/ <<p, t>> \in failed)
=============================================================================
