----------------------------- MODULE MCHoldings -----------------------------
(***************************************************************************)
(* Holdings for TLC: two tickers and two lots.  In the free regime edits   *)
(* overlap and queries fail; in the serial one the user waits for an edit  *)
(* to settle before the next, and only writes fail.                        *)
(***************************************************************************)
EXTENDS Holdings

VARIABLE regime

Serially == INSTANCE Holdings WITH Overlapping <- FALSE

MCInit == Init /\ regime \in {"free", "serial"}

MCNext ==
  \/ regime = "free" /\ Next /\ UNCHANGED regime
  \/ regime = "serial" /\ Serially!Next /\ UNCHANGED regime

MCSpec == MCInit /\ [][MCNext]_<<vars, regime>> /\ Fairness

\* In the serial regime memory at rest is the table, also after a write that
\* failed behind an entry already shown, and every edit settles: memory and
\* table agree again and again, whatever fails and whenever the program is
\* restarted (reload_portfolio, which spawn_upsert_holding and
\* spawn_remove_holding call whether the write has worked or not).
SerialSettles ==
  regime = "serial" => []MemoryIsTable /\ []<>(Book(holdings) = rows)
=============================================================================
