-------------------------- MODULE PortfolioHistory --------------------------
(***************************************************************************)
(* The history of the portfolio's daily totals: samples of a running       *)
(* interface, the copy of the history its modal shows, the load at         *)
(* startup, and the final write when the interface is closed.              *)
(*                                                                         *)
(* The totals of a set of holdings are the prices they were computed from; *)
(* 0 stands for a holding without a price.  What makes a price known is    *)
(* the module QuoteHistory.                                                *)
(***************************************************************************)
EXTENDS QuoteHistory

CONSTANTS
  Held,        \* the tickers held, in the table throughout
  Midnight,    \* the last time of the first day
  None,        \* no row for a day
  MaxSessions  \* bound on the starts of the interface

ASSUME PortfolioHistoryAssumption ==
  /\ Held \subseteq Ticker
  /\ Midnight \in Nat /\ MaxSessions \in Nat \ {0}
  /\ None \notin [Held -> Time]

VARIABLES
  hist,     \* the portfolio_value_history table
  modal,    \* portfolio_modal.history
  load,     \* where the startup load of the history is
  listed,   \* the history it has read
  live,     \* has_live_prices
  holding,  \* whether the holdings have been loaded
  sampled,  \* the time of the latest sample
  samples,  \* spawn_history_sample tasks that have not written
  phase,    \* where the interface is
  final,    \* the totals of the final write
  session,  \* starts of the interface
  last,     \* history: the totals recorded last for each day
  faulted   \* history: a write of totals was lost

historyVars == <<hist, modal, load, listed, live, holding, sampled, samples,
                 phase, final, session, last, faulted>>
vars == <<quoteVars, historyVars>>

Days == {1, 2}
Today == IF clock <= Midnight THEN 1 ELSE 2
Totals == [Held -> Time]
Rows == [Days -> Totals \cup {None}]
Empty == [d \in Days |-> None]

\* portfolio_positions, value_position: the prices of the holdings.
Valued(prices) == [t \in Held |-> prices[t]]

\* Mutant of Persistable: holdings without a price count as nothing.
Persistable_Partial(totals) == \E t \in Held : totals[t] # 0

\* persistable_totals: not without holdings, nor with one that has no price.
Persistable(totals) == Held # {} /\ \A t \in Held : totals[t] # 0

\* persistable_totals_now.
PersistableNow == live /\ holding /\ Persistable(Valued(shown))

HistoryInit ==
  /\ hist = Empty /\ modal = Empty /\ last = Empty
  /\ load = "reading" /\ listed = Empty
  /\ live = FALSE /\ holding = FALSE
  /\ sampled = 0 /\ samples = {}
  /\ phase = "running" /\ final = None
  /\ session = 1 /\ faulted = FALSE

Init == QuoteInit /\ HistoryInit

Running == phase = "running"

-----------------------------------------------------------------------------
(***************************************************************************)
(* While the interface runs                                                *)
(***************************************************************************)
\* A live price arrives: by the stream, or in answer to a fetch.
LivePrice ==
  /\ Running
  /\ \/ \E t \in Ticker : QuoteTick(t)
     \/ \E f \in fetches : FetchCompleted(f)
  /\ live' = TRUE
  /\ UNCHANGED <<hist, modal, load, listed, holding, sampled, samples, phase, final,
                 session, last, faulted>>

\* Everything else that moves prices.
PricesMove ==
  /\ \/ Running /\ (ReloadReads \/ PageLoaded \/ RecordSnapshots)
     \/ Running /\ \E t \in Ticker, m \in 1..clock : FetchStored(t, m)
     \/ /\ phase # "ended"
        /\ \E s \in snaps : SnapStore(s) \/ SnapStoreFails(s) \/ SnapPrune(s) \/ SnapPruneFails(s)
  /\ UNCHANGED historyVars

\* PortfolioLoaded.
HoldingsLoaded ==
  /\ "samples" \in Parts
  /\ Running /\ ~holding
  /\ holding' = TRUE
  /\ UNCHANGED <<quoteVars, hist, modal, load, listed, live, sampled, samples, phase,
                 final, session, last, faulted>>

\* Mutant of RecordHistorySample: the day's row is only added, not replaced.
RecordHistorySample_FirstOnly ==
  /\ "samples" \in Parts
  /\ Running /\ sampled < clock
  /\ PersistableNow
  /\ Overlapping \/ (samples = {} /\ load = "done")
  /\ sampled' = clock
  /\ modal' = [modal EXCEPT ![Today] = IF @ = None THEN Valued(shown) ELSE @]
  /\ samples' = samples \cup {[day |-> Today, totals |-> Valued(shown), at |-> clock]}
  /\ last' = [last EXCEPT ![Today] = Valued(shown)]
  /\ UNCHANGED <<quoteVars, hist, load, listed, live, holding, phase, final, session, faulted>>

\* record_history_sample, when history_age has run out: the modal's row for
\* today is replaced or added and a task writes the table.  Without totals
\* nothing happens and the next tick tries again.
RecordHistorySample ==
  /\ "samples" \in Parts
  /\ Running /\ sampled < clock
  /\ PersistableNow
  /\ Overlapping \/ (samples = {} /\ load = "done")
  /\ sampled' = clock
  /\ modal' = [modal EXCEPT ![Today] = Valued(shown)]
  /\ samples' = samples \cup {[day |-> Today, totals |-> Valued(shown), at |-> clock]}
  /\ last' = [last EXCEPT ![Today] = Valued(shown)]
  /\ UNCHANGED <<quoteVars, hist, load, listed, live, holding, phase, final, session, faulted>>

\* upsert_day: one row per day, the row written last stays.
UpsertDay(d, totals) == hist' = [hist EXCEPT ![d] = totals]

\* A sample's task runs; if the statement fails a line is logged.
SampleWrites(w) ==
  /\ phase # "ended"
  /\ samples' = samples \ {w}
  /\ \/ UpsertDay(w.day, w.totals) /\ UNCHANGED faulted
     \/ UNCHANGED hist /\ faulted' = TRUE
  /\ UNCHANGED <<quoteVars, modal, load, listed, live, holding, sampled, phase, final,
                 session, last>>

\* spawn_load_portfolio_history reads the table,
HistoryRead ==
  /\ "samples" \in Parts
  /\ Running /\ load = "reading"
  /\ load' = "read"
  /\ listed' = hist
  /\ UNCHANGED <<quoteVars, hist, modal, live, holding, sampled, samples, phase, final,
                 session, last, faulted>>

\* and PortfolioHistoryLoaded replaces what the modal has, samples included.
HistoryLoaded ==
  /\ Running /\ load = "read"
  /\ load' = "done"
  /\ modal' = listed
  /\ UNCHANGED <<quoteVars, hist, listed, live, holding, sampled, samples, phase, final,
                 session, last, faulted>>

\* PortfolioHistoryFailed: the modal stops loading, an error is shown.
HistoryFailed ==
  /\ "samples" \in Parts
  /\ Running /\ load = "reading"
  /\ load' = "done"
  /\ faulted' = TRUE
  /\ UNCHANGED <<quoteVars, hist, modal, listed, live, holding, sampled, samples, phase,
                 final, session, last>>

-----------------------------------------------------------------------------
(***************************************************************************)
(* Shutdown                                                                *)
(***************************************************************************)
\* The event loop ends.  With totals to persist a final write is awaited;
\* tasks go on meanwhile, events are no longer handled.
LeaveLoop ==
  /\ Running
  /\ Overlapping \/ (Idle /\ samples = {})
  /\ IF PersistableNow
     THEN /\ phase' = "final"
          /\ final' = [day |-> Today, totals |-> Valued(shown)]
          /\ last' = [last EXCEPT ![Today] = Valued(shown)]
     ELSE phase' = "ended" /\ UNCHANGED <<final, last>>
  /\ faulted' = (faulted \/ (phase' = "ended" /\ samples # {}))
  /\ UNCHANGED <<quoteVars, hist, modal, load, listed, live, holding, sampled, samples, session>>

\* The final write is done.
FinalWrite ==
  /\ phase = "final"
  /\ UpsertDay(final.day, final.totals)
  /\ phase' = "ended"
  /\ faulted' = (faulted \/ samples # {})
  /\ UNCHANGED <<quoteVars, modal, load, listed, live, holding, sampled, samples, final,
                 session, last>>

\* Mutant of FinalTimesOut: the wait is bounded only where nothing is written.
FinalTimesOut_Unbounded ==
  /\ phase = "final" /\ final = None
  /\ phase' = "ended" /\ faulted' = TRUE
  /\ UNCHANGED <<quoteVars, hist, modal, load, listed, live, holding, sampled, samples,
                 final, session, last>>

\* It fails, or SHUTDOWN_WRITE_TIMEOUT ends the wait, with the statement sent
\* or not.
FinalTimesOut ==
  /\ phase = "final"
  /\ UNCHANGED hist \/ UpsertDay(final.day, final.totals)
  /\ phase' = "ended" /\ faulted' = TRUE
  /\ UNCHANGED <<quoteVars, modal, load, listed, live, holding, sampled, samples, final,
                 session, last>>

\* The interface is killed.
Killed ==
  /\ phase # "ended"
  /\ phase' = "ended"
  /\ faulted' = (faulted \/ samples # {} \/ phase = "final")
  /\ UNCHANGED <<quoteVars, hist, modal, load, listed, live, holding, sampled, samples,
                 final, session, last>>

\* It is started: the tables are what they were, nothing else is.
StartInterface ==
  /\ phase = "ended" /\ session < MaxSessions
  /\ session' = session + 1
  /\ phase' = "running" /\ final' = None
  /\ modal' = Empty /\ load' = "reading" /\ listed' = Empty
  /\ live' = FALSE /\ holding' = FALSE
  /\ sampled' = 0 /\ samples' = {}
  /\ shown' = [t \in Ticker |-> 0]
  /\ snaps' = {} /\ snapped' = clock /\ fetches' = {} /\ asked' = 0 /\ reload' = NoReload
  /\ UNCHANGED <<clock, quotes, unpruned, hist, last, faulted>>

-----------------------------------------------------------------------------
\* Time passes for both processes.
TimePasses == Advance /\ UNCHANGED historyVars

HistoryNext ==
  \/ LivePrice \/ PricesMove \/ HoldingsLoaded
  \/ RecordHistorySample
  \/ \E w \in samples : SampleWrites(w)
  \/ HistoryRead \/ HistoryLoaded \/ HistoryFailed
  \/ LeaveLoop \/ FinalWrite \/ FinalTimesOut \/ Killed \/ StartInterface
  \/ TimePasses

-----------------------------------------------------------------------------
(***************************************************************************)
(* Properties                                                              *)
(***************************************************************************)
HistoryTypeOK ==
  /\ {hist, modal, listed, last} \subseteq Rows
  /\ load \in {"reading", "read", "done"}
  /\ live \in BOOLEAN /\ holding \in BOOLEAN /\ faulted \in BOOLEAN
  /\ sampled \in Time
  /\ samples \subseteq [day : Days, totals : Totals, at : Time]
  /\ phase \in {"running", "final", "ended"}
  /\ final \in [day : Days, totals : Totals] \cup {None}
  /\ session \in 1..MaxSessions

\* No day is ever recorded with totals that leave a holding out
\* (persistable_totals, "safe to persist").
WholeTotals == \A d \in Days : hist[d] # None => \A t \in Held : hist[d][t] # 0

\* With no write outstanding and none lost, each day's row holds the totals
\* recorded last ("the last sample of the day wins", db/portfolio_history.rs).
LastSampleWins == samples = {} /\ phase # "final" /\ ~faulted => hist = last

\* The modal then shows what the table holds.
ModalIsTable ==
  Running /\ load = "done" /\ samples = {} /\ ~faulted => modal = hist
=============================================================================
