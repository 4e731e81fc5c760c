----------------------------- MODULE Watchlist ------------------------------
(***************************************************************************)
(* The watchlist: the set in memory that the table, the `W` filter and the *)
(* news feed read, and the watchlist table behind it.  Memory is loaded    *)
(* from the table once, at startup; a toggle changes memory at once and    *)
(* leaves the table to a task.                                             *)
(***************************************************************************)
EXTENDS Integers, FiniteSets

CONSTANTS
  Ticker,      \* the tickers, as numbers in the order of their names
  MaxToggles,  \* bound on the toggles of one session
  Overlapping  \* whether a ticker may be toggled before the load has arrived
               \* or while a write for it is outstanding

ASSUME WatchlistAssumption ==
  /\ Ticker \subseteq Nat /\ IsFiniteSet(Ticker)
  /\ MaxToggles \in Nat
  /\ Overlapping \in BOOLEAN

VARIABLES
  watch,    \* db_display.watchlist
  table,    \* the rows of the watchlist table
  writes,   \* save and remove tasks that have not run their statement
  toggles,  \* how many toggles this session has made
  load,     \* where the startup load is
  list,     \* the tickers the load has read
  faulted   \* history: a write or the load has failed in this session

watchVars == <<watch, table, writes, toggles, load, list, faulted>>

Write == [save : BOOLEAN, ticker : Ticker, n : 1..MaxToggles]

WatchInit ==
  /\ watch = {} /\ table = {}
  /\ writes = {}
  /\ toggles = 0
  /\ load = "reading"
  /\ list = {}
  /\ faulted = FALSE

\* `w` on the selected row: memory is flipped and a task spawned to follow.
Toggle(t) ==
  /\ toggles < MaxToggles
  /\ toggles' = toggles + 1
  /\ Overlapping \/ (load = "done" /\ \A w \in writes : w.ticker # t)
  /\ watch' = IF t \in watch THEN watch \ {t} ELSE watch \cup {t}
  /\ writes' = writes \cup {[save |-> t \notin watch, ticker |-> t, n |-> toggles + 1]}
  /\ UNCHANGED <<table, load, list, faulted>>

\* add_to_watchlist and remove_from_watchlist run; the tasks are in no order.
WriteRuns(w) ==
  /\ w \in writes
  /\ writes' = writes \ {w}
  /\ table' = IF w.save THEN table \cup {w.ticker} ELSE table \ {w.ticker}
  /\ UNCHANGED <<watch, toggles, load, list, faulted>>

\* The statement fails: an error is reported, and memory stays as it is.
WriteFails(w) ==
  /\ w \in writes
  /\ writes' = writes \ {w}
  /\ faulted' = TRUE
  /\ UNCHANGED <<watch, table, toggles, load, list>>

\* fetch_watchlist reads the table and the task sends WatchlistLoaded.
ReadTable ==
  /\ load = "reading"
  /\ load' = "read"
  /\ list' = table
  /\ UNCHANGED <<watch, table, writes, toggles, faulted>>

\* fetch_watchlist fails: an error is reported; the watchlist stays empty.
LoadFails ==
  /\ load = "reading"
  /\ load' = "done"
  /\ faulted' = TRUE
  /\ UNCHANGED <<watch, table, writes, toggles, list>>

\* WatchlistLoaded: memory becomes the list, whatever was toggled meanwhile.
WatchlistLoaded ==
  /\ load = "read"
  /\ load' = "done"
  /\ watch' = list
  /\ UNCHANGED <<table, writes, toggles, list, faulted>>

\* The process ends, by `q` or by a crash, and is started again: tasks that
\* have not run are gone, the table is as it was.
Restart ==
  /\ watch' = {}
  /\ writes' = {}
  /\ toggles' = 0
  /\ load' = "reading"
  /\ list' = {}
  /\ faulted' = FALSE
  /\ UNCHANGED table

WatchNext ==
  \/ \E t \in Ticker : Toggle(t)
  \/ \E w \in writes : WriteRuns(w) \/ WriteFails(w)
  \/ ReadTable \/ LoadFails \/ WatchlistLoaded
  \/ Restart

WatchSpec == WatchInit /\ [][WatchNext]_watchVars

-----------------------------------------------------------------------------
(***************************************************************************)
(* Properties                                                              *)
(***************************************************************************)

\* Type invariant of the watchlist.
WatchTypeOK ==
  /\ watch \subseteq Ticker /\ table \subseteq Ticker
  /\ writes \subseteq Write
  /\ toggles \in 0..MaxToggles
  /\ load \in {"reading", "read", "done"}
  /\ list \subseteq Ticker
  /\ faulted \in BOOLEAN

\* While writes are outstanding, memory and table differ only in the tickers
\* being written: nothing else is forgotten or made up (spawn_save_to_watchlist,
\* spawn_remove_from_watchlist).
OnlyWritesDiffer ==
  load = "done" /\ ~faulted =>
    \A t \in Ticker :
      \/ (t \in watch) = (t \in table)
      \/ \E w \in writes : w.ticker = t /\ w.save = (t \in watch)
=============================================================================
