------------------------------- MODULE Pages --------------------------------
(***************************************************************************)
(* The pages: the routing of keys together with what entering a page, and  *)
(* `r` on it, loads.                                                       *)
(***************************************************************************)
EXTENDS Navigation, PageLoads

CONSTANT Impatient  \* whether `r` may be pressed while the page is loading

pageVars == <<navVars, loadVars>>

PagesInit == NavInit /\ LoadInit

\* goto_page with on_page_entered.  News loads its feed: NewsFeed.
EnterPage ==
  /\ Visit
  /\ CASE picker = "Sectors" -> EnterSectors
       [] picker = "Optimizer" -> EnterOptimizer
       [] OTHER -> UNCHANGED loadVars

\* `r` on the pages that load.
PressR ==
  /\ Taker = "page" /\ ~leaving /\ ~should_quit
  /\ \/ page = "Sectors" /\ (Impatient \/ ~Asking) /\ RefreshSectors
     \/ page = "Optimizer" /\ (Impatient \/ ~Running) /\ RefreshOptimizer
  /\ UNCHANGED navVars

Keys == (Leave \/ \E k \in Key : Press(k)) /\ UNCHANGED loadVars

Answers == ~should_quit /\ Answer /\ UNCHANGED navVars

Edits == ~should_quit /\ (\E n \in Count : EditHoldings(n)) /\ UNCHANGED navVars

PagesNext == Keys \/ EnterPage \/ PressR \/ Answers \/ Edits

PagesTypeOK == NavTypeOK /\ LoadTypeOK

\* Every request of the provider answers or fails, every computation ends, and
\* the loop, while it runs, takes what has been sent.
LoadFairness ==
  /\ \A s \in Sector : WF_pageVars(
       ~should_quit /\ UNCHANGED navVars
         /\ \E tiles \in {"tiles", "empty"} : SectorDataReady(s, tiles))
  /\ \A n \in Count : WF_pageVars(
       ~should_quit /\ UNCHANGED navVars
         /\ \E m \in Count : OptimizerDataReady(n, m))
  /\ \A m \in Count : WF_pageVars(
       ~should_quit /\ UNCHANGED navVars
         /\ \E result \in BOOLEAN : OptimizerComputed(m, result))

PagesFairness == NavFairness /\ LoadFairness

(***************************************************************************)
(* Properties.                                                             *)
(***************************************************************************)
\* Loading ends on both pages unless the user quits, also when queries and
\* histories fail: the Sectors page shows its map, whatever of it has come
\* (spawn_sector_map sends an empty answer for a failed query), and the
\* Optimizer page its panels or the reason why there are none.
LoadsEnd ==
  /\ sectors.loading ~> should_quit \/ (~sectors.loading /\ SectorsNote = "map")
  /\ optimizer.loading ~> should_quit \/ OptimizerNote # "Optimizing"
=============================================================================
