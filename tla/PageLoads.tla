------------------------------ MODULE PageLoads -----------------------------
(***************************************************************************)
(* What the Sectors and the Optimizer page load when they are entered, and *)
(* again on `r` (tui/app.rs, tui/app/tasks.rs, sectors.rs).                *)
(*                                                                         *)
(* A refresh of the sectors runs one query per sector; each sends one      *)
(* answer, an empty one when it has failed.  The optimizer fetches the     *)
(* history of every holding it saw when it started, then hands what has    *)
(* come to a computation in another thread.                                *)
(***************************************************************************)
EXTENDS Naturals, FiniteSets, FiniteSetsExt

CONSTANTS
  Sector,        \* the sectors queried
  MaxHoldings,   \* holdings a user has at most
  MaxRuns        \* runs of one page's load that are outstanding at once

ASSUME LoadsAssumption ==
  /\ IsFiniteSet(Sector) /\ Sector # {}
  /\ MaxHoldings \in Nat /\ MaxRuns \in Nat \ {0}

SECTOR_COUNT == Cardinality(Sector)

VARIABLES
  sectors,      \* App.sectors: requested, loading
  groups,       \* sectors.map: per sector "absent", "tiles" or "empty"
  queries,      \* per sector, queries whose answer has not been handled
  optimizer,    \* App.optimizer: requested, loading, result (whether there is one), error
  nholdings,    \* App.holdings.len(): how many holdings the user has
  fetches,      \* fetches outstanding, by the number of holdings captured
  computes,     \* computations outstanding, by the number of histories given
  refreshed     \* history: whether `r` was pressed on the Sectors page

loadVars == <<sectors, groups, queries, optimizer, nholdings, fetches,
              computes, refreshed>>

Count == 0..MaxHoldings
Runs == MapThenSumSet(LAMBDA n : fetches[n] + computes[n], Count)
Running == \E n \in Count : fetches[n] > 0 \/ computes[n] > 0
Asking  == \E s \in Sector : queries[s] > 0

LoadTypeOK ==
  /\ sectors \in [requested : BOOLEAN, loading : BOOLEAN]
  /\ groups \in [Sector -> {"absent", "tiles", "empty"}]
  /\ queries \in [Sector -> 0..MaxRuns]
  /\ optimizer \in [requested : BOOLEAN, loading : BOOLEAN, result : BOOLEAN,
                    error : BOOLEAN]
  /\ nholdings \in Count
  /\ fetches \in [Count -> Nat] /\ computes \in [Count -> Nat]
  /\ refreshed \in BOOLEAN

LoadInit ==
  /\ sectors = [requested |-> FALSE, loading |-> FALSE]
  /\ groups = [s \in Sector |-> "absent"]
  /\ queries = [s \in Sector |-> 0]
  /\ optimizer = [requested |-> FALSE, loading |-> FALSE, result |-> FALSE,
                  error |-> FALSE]
  /\ nholdings \in Count
  /\ fetches = [n \in Count |-> 0] /\ computes = [n \in Count |-> 0]
  /\ refreshed = FALSE

sectorVars == <<sectors, groups, queries, refreshed>>
optimizerVars == <<optimizer, nholdings, fetches, computes>>

(***************************************************************************)
(* The Sectors page.                                                       *)
(***************************************************************************)
spawn_sector_map ==
  /\ \A s \in Sector : queries[s] < MaxRuns
  /\ queries' = [s \in Sector |-> queries[s] + 1]

\* on_page_entered: the first visit loads.
EnterSectors ==
  /\ IF sectors.requested
       THEN UNCHANGED <<sectors, queries>>
       ELSE /\ sectors' = [requested |-> TRUE, loading |-> TRUE]
            /\ spawn_sector_map
  /\ UNCHANGED <<groups, refreshed, optimizerVars>>

\* `r` (handle_sectors_key).
RefreshSectors ==
  /\ sectors' = [sectors EXCEPT !.loading = TRUE]
  /\ spawn_sector_map
  /\ refreshed' = TRUE
  /\ UNCHANGED <<groups, optimizerVars>>

SectorDataReady(s, tiles) ==
  /\ queries[s] > 0
  /\ queries' = [queries EXCEPT ![s] = @ - 1]
  /\ groups' = [groups EXCEPT ![s] = tiles]
  /\ sectors' = [sectors EXCEPT !.loading =
                   @ /\ \E x \in Sector : groups'[x] = "absent"]
  /\ UNCHANGED <<refreshed, optimizerVars>>

(***************************************************************************)
(* The Optimizer page.                                                     *)
(***************************************************************************)
\* spawn_optimizer_data: the holdings of this moment.
spawn_optimizer_data ==
  /\ Runs < MaxRuns
  /\ fetches' = [fetches EXCEPT ![nholdings] = @ + 1]

StartOptimizer ==
  /\ optimizer' = [optimizer EXCEPT !.requested = TRUE, !.loading = TRUE]
  /\ spawn_optimizer_data
  /\ UNCHANGED <<nholdings, computes, sectorVars>>

EnterOptimizer ==
  IF optimizer.requested THEN UNCHANGED loadVars ELSE StartOptimizer

\* `r` lowers requested and enters the page again (handle_optimizer_key).
RefreshOptimizer == StartOptimizer

\* OptimizerDataReady: some of the histories have come; the rest was logged.
OptimizerDataReady(n, m) ==
  /\ fetches[n] > 0 /\ m <= n
  /\ fetches' = [fetches EXCEPT ![n] = @ - 1]
  /\ computes' = [computes EXCEPT ![m] = @ + 1]
  /\ UNCHANGED <<optimizer, nholdings, sectorVars>>

\* OptimizerComputed: a result needs two usable histories (aligned_returns),
\* and may be missing all the same.
OptimizerComputed(m, result) ==
  /\ computes[m] > 0 /\ (result => m >= 2)
  /\ computes' = [computes EXCEPT ![m] = @ - 1]
  /\ optimizer' = [optimizer EXCEPT !.loading = FALSE, !.result = result,
                                    !.error = ~result /\ m < 2]
  /\ UNCHANGED <<nholdings, fetches, sectorVars>>

\* Holdings are edited on another page.
EditHoldings(n) ==
  /\ nholdings' = n /\ n # nholdings
  /\ UNCHANGED <<optimizer, fetches, computes, sectorVars>>

\* What the page shows in place of panels (draw_optimizer_page).
OptimizerNote ==
  CASE optimizer.loading -> "Optimizing"
    [] ~optimizer.loading /\ optimizer.result -> "panels"
    [] ~optimizer.loading /\ ~optimizer.result ->
         IF optimizer.error \/ nholdings < 2 THEN "add holdings" ELSE "too short"

\* What the Sectors page shows without groups (draw_sectors_page).
SectorsNote ==
  CASE \E s \in Sector : groups[s] # "absent" -> "map"
    [] (\A s \in Sector : groups[s] = "absent") /\ sectors.loading -> "loading"
    [] OTHER -> "press r"

Answer ==
  \/ \E s \in Sector, tiles \in {"tiles", "empty"} : SectorDataReady(s, tiles)
  \/ \E n \in Count, m \in Count : OptimizerDataReady(n, m)
  \/ \E m \in Count, result \in BOOLEAN : OptimizerComputed(m, result)

(***************************************************************************)
(* Properties.                                                             *)
(***************************************************************************)
\* A page that says it is loading has something under way that will end it:
\* for the sectors, a query of every sector not yet on the map (SectorState:
\* "True while at least one sector query is outstanding", which holds in this
\* direction always and in the other until the first `r`).
LoadingIsCovered ==
  /\ sectors.loading /\ (\E s \in Sector : groups[s] = "absent") =>
       \A s \in Sector : groups[s] = "absent" => queries[s] > 0
  /\ sectors.loading => Asking
  /\ ~refreshed /\ Asking => sectors.loading
  /\ optimizer.loading => Running

\* One run at a time: the Optimizer page says it is loading exactly while a
\* fetch or the computation that follows it is in flight (OptimizerPageState).
OneRunIsShown == Running => optimizer.loading

=============================================================================
