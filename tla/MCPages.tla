------------------------------ MODULE MCPages -------------------------------
(***************************************************************************)
(* The pages for TLC.  The layers and the two loads share nothing but the  *)
(* page, so four regimes explore them in turn: keys (every key, each page  *)
(* loads on its first visit), sectors and optimizer (one page's load with  *)
(* `r` at any moment, the user travelling with the picker), and calm (the  *)
(* optimizer with `r` pressed between runs only).                          *)
(***************************************************************************)
EXTENDS Pages

VARIABLE regime

Calm == INSTANCE Pages WITH Impatient <- FALSE

MCInit ==
  /\ PagesInit
  /\ regime \in {"keys", "sectors", "optimizer", "calm"}
  /\ regime \in {"keys", "sectors"} => nholdings = MaxHoldings

\* The keys of the picker, and q.
Travel == (\E k \in {"Tab", "j", "q"} : Press(k)) /\ UNCHANGED loadVars

MCNext ==
  /\ UNCHANGED regime
  /\ \/ regime = "keys" /\ (Keys \/ EnterPage \/ Answers)
     \/ regime = "sectors" /\ UNCHANGED optimizerVars
                           /\ (Travel \/ EnterPage \/ PressR \/ Answers)
     \/ regime = "optimizer" /\ UNCHANGED sectorVars
                           /\ (Travel \/ EnterPage \/ PressR \/ Answers \/ Edits)
     \/ regime = "calm" /\ UNCHANGED sectorVars
                           /\ (Travel \/ EnterPage \/ Calm!PressR \/ Answers \/ Edits)

MCSpec == MCInit /\ [][MCNext]_<<pageVars, regime>> /\ PagesFairness

\* Keys reach the layer the user sees and the status bar names, one modal is
\* open at a time, a page that says it is loading is, and in the calm regime
\* the Optimizer page says so whenever it is.
PagesTellTheTruth ==
  /\ PagesTypeOK /\ OneModal
  /\ VisibleTakesKeys /\ StatusIsHonest
  /\ LoadingIsCovered
  /\ regime = "calm" => OneRunIsShown

\* Loading ends, and whoever wants to leave can.
PagesEnd == LoadsEnd /\ CanLeave
=============================================================================
