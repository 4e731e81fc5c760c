--------------------------- MODULE MCSnapshotRun ----------------------------
(***************************************************************************)
(* SnapshotRun with PortfolioHistory and QuoteHistory for TLC: two         *)
(* tickers, both held, and two rows retained.                              *)
(*                                                                         *)
(* The quotes table and the history are looked at one at a time, which is  *)
(* what keeps the instance small.  In the free regimes the interface and   *)
(* the scheduled run work on the tables at the same time, and fetches,     *)
(* reloads, snapshots and samples overlap; in the calm one the run is      *)
(* scheduled while the interface is closed, and each of the others waits   *)
(* for those before it.                                                    *)
(***************************************************************************)
EXTENDS SnapshotRun

VARIABLE regime

\* The quotes table under the interface; the totals under both processes; the
\* same, calmly.
Quotes == INSTANCE SnapshotRun
  WITH Parts <- {"snapshots"}, MaxSessions <- 1
Daily == INSTANCE SnapshotRun
  WITH Parts <- {"samples", "run"}, MaxSessions <- 1, MaxClock <- 2
Calmly == INSTANCE SnapshotRun
  WITH Parts <- {"samples", "run"}, Overlapping <- FALSE, MaxClock <- 2

MCInit == SnapInit /\ regime \in {"prices", "daily", "calm"}

MCNext ==
  /\ UNCHANGED regime
  /\ \/ regime = "prices" /\ Quotes!SnapNext
     \/ regime = "daily" /\ Daily!SnapNext
     \/ regime = "calm" /\ Calmly!SnapNext

MCSpec == MCInit /\ [][MCNext]_<<allVars, regime>> /\ SnapFairness

\* In the calm regime history, modal and the totals recorded last agree ("the
\* last sample of the day wins", upsert_day).
CalmHistory == regime = "calm" => LastSampleWins /\ ModalIsTable

\* Closing the interface ends, also when the database hangs
\* (SHUTDOWN_WRITE_TIMEOUT, tui/run.rs:62).
Quits == phase = "final" ~> phase = "ended"
=============================================================================
