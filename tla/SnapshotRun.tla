---------------------------- MODULE SnapshotRun -----------------------------
(***************************************************************************)
(* The scheduled snapshot, `assetui snapshot`: a process of its own over   *)
(* the same tables as the interface.  It fetches and stores a quote for    *)
(* every ticker tracked, prunes each, reads the latest rows back and       *)
(* records the day's totals.  It may be killed between any two statements  *)
(* and is then run again.  (How fetch_and_store runs its tasks is the      *)
(* module FetchPipeline; here each ticker comes to its outcome.)           *)
(***************************************************************************)
EXTENDS PortfolioHistory

CONSTANT MaxRuns  \* bound on the runs

ASSUME SnapshotRunAssumption == MaxRuns \in Nat

VARIABLES
  step,     \* where the run is
  todo,     \* tickers of this step
  day,      \* the day it was started on
  read,     \* the prices read back
  runs      \* runs started

runVars == <<step, todo, day, read, runs>>
allVars == <<vars, runVars>>

SnapInit ==
  /\ Init
  /\ step = "idle" /\ todo = {} /\ day = 1 /\ read = [t \in Ticker |-> 0]
  /\ runs = 0

\* Scheduled; the watchlist and the holdings are read.  (With nothing tracked
\* the run ends here; in the instances something is.)
RunStarts ==
  /\ "run" \in Parts
  /\ step = "idle" /\ runs < MaxRuns
  /\ Overlapping \/ phase = "ended"
  /\ runs' = runs + 1
  /\ step' = "fetch" /\ todo' = Ticker
  /\ day' = Today
  /\ UNCHANGED <<vars, read>>

\* One ticker of the batch: its quote is stored, or it fails and is warned of.
RunFetches(t) ==
  /\ step = "fetch" /\ t \in todo
  /\ \/ \E m \in 1..clock : Store(t, [at |-> m, seen |-> m])
     \/ UNCHANGED <<quotes, unpruned>>
  /\ todo' = IF todo = {t} THEN Ticker ELSE todo \ {t}
  /\ step' = IF todo = {t} THEN "prune" ELSE step
  /\ UNCHANGED <<clock, shown, snaps, snapped, fetches, asked, reload, historyVars,
                 day, read, runs>>

\* The tickers are pruned in order; a failure is warned of.
RunPrunes ==
  LET t == CHOOSE u \in todo : \A v \in todo : u <= v IN
  /\ step = "prune"
  /\ Prune(t) \/ UNCHANGED <<quotes, unpruned>>
  /\ todo' = todo \ {t}
  /\ step' = IF todo = {t} THEN "read" ELSE step
  /\ UNCHANGED <<clock, shown, snaps, snapped, fetches, asked, reload, historyVars,
                 day, read, runs>>

\* fetch_latest_for_tickers.
RunReads ==
  /\ step = "read"
  /\ read' = [t \in Ticker |-> LatestSeen(t)]
  /\ step' = "record"
  /\ UNCHANGED <<vars, todo, day, runs>>

\* record_history_day: the day's totals, when every holding has a price.
RunRecords ==
  /\ step = "record"
  /\ IF Persistable(Valued(read))
     THEN UpsertDay(day, Valued(read)) /\ last' = [last EXCEPT ![day] = Valued(read)]
     ELSE UNCHANGED <<hist, last>>
  /\ step' = "idle" /\ todo' = {}
  /\ UNCHANGED <<quoteVars, modal, load, listed, live, holding, sampled, samples, phase,
                 final, session, faulted, day, read, runs>>

\* A query fails, and with it the run; or it is killed.
RunStops ==
  /\ step # "idle"
  /\ step' = "idle" /\ todo' = {}
  /\ UNCHANGED <<vars, day, read, runs>>

RunStep ==
  \/ \E t \in Ticker : RunFetches(t)
  \/ RunPrunes \/ RunReads \/ RunRecords

SnapNext ==
  \/ /\ HistoryNext /\ UNCHANGED runVars
     /\ Overlapping \/ step = "idle" \/ phase' = "ended"
  \/ RunStarts \/ RunStep \/ RunStops

\* The runtime polls the task that waits for the timer; nothing is assumed of
\* the database.
SnapFairness == WF_allVars(FinalTimesOut /\ UNCHANGED runVars)

SnapSpec == SnapInit /\ [][SnapNext]_allVars /\ SnapFairness

-----------------------------------------------------------------------------
\* Types of the three parts.
TypeOK ==
  /\ QuoteTypeOK /\ HistoryTypeOK
  /\ step \in {"idle", "fetch", "prune", "read", "record"}
  /\ todo \subseteq Ticker /\ day \in Days /\ read \in Prices /\ runs \in 0..MaxRuns
=============================================================================
