------------------------------ MODULE MCFigures -----------------------------
(***************************************************************************)
(* The computations for TLC.  A behaviour is about one figure, and what it *)
(* is given is chosen or grows: the three that loop (treemap, optimizer,   *)
(* solver) are machines and share the variables below, the others are      *)
(* compared with what they should be for every given that is reached.      *)
(***************************************************************************)
EXTENDS Screens

CONSTANTS
  Width, Height,  \* sides of the treemap in cells
  Points, Premiums, IV_MAX_ITERATIONS,  \* of the solver's grid
  TRADING_DAYS, MIN_RETURN_SAMPLES,
  MaxRows, MaxCloses, MaxRoom, MaxFields, MaxTiles, MaxDays

ASSUME FiguresAssumption ==
  /\ None \notin Int /\ None \notin Int \X Int /\ None \notin Seq(Int)
  /\ None \notin {"no holdings", "no alerts", "awaiting prices", "loading history",
                  "no history yet", "not enough history yet", "loading", "no options",
                  "too narrow"}
  /\ {Width, Height} \subseteq Nat \ {0}
  /\ {Points, Premiums, IV_MAX_ITERATIONS, TRADING_DAYS, MIN_RETURN_SAMPLES} \subseteq Nat
  /\ {MaxRows, MaxCloses, MaxRoom, MaxFields, MaxTiles, MaxDays} \subseteq Nat

VARIABLES figure, given, step, work, first, second, guess, status

machine == <<step, work, first, second, guess, status>>
figureVars == <<figure, given, machine>>

Tree == INSTANCE Treemap WITH
  Weights <- UNION {[1..n -> {0, 1, 2, 5}] : n \in 0..3},
  weights <- given, i <- step, rest <- work, tiles <- first, cells <- second

Opt == INSTANCE Optimizer WITH
  Returns <- [1..2 -> [1..3 -> {-1, 0, 2}]] \cup [1..3 -> [1..3 -> {0, 1}]],
  RiskFree <- <<1, 2>>,
  returns <- given, a <- work, col <- step, outcome <- status

Solver == INSTANCE ImpliedVolatility WITH
  contract <- given, priced_at <- work, lo <- first, hi <- second, sigma <- guess,
  rounds <- step, outcome <- status

Options == INSTANCE BlackScholes
Chart == INSTANCE Indicators

(***************************************************************************)
(* What the figures are given.                                             *)
(***************************************************************************)
Row == [ticker : {"a", "b"}, price : {None, 1, 3}, previous_close : {None, 2},
        volume : {None, 1}]

Alerts == <<[ticker |-> "a", threshold |-> 2], [ticker |-> "b", threshold |-> 4]>>
Holdings == <<[ticker |-> "a", shares |-> 2, avg_cost |-> 2],
              [ticker |-> "b", shares |-> 1, avg_cost |-> 0]>>
Tick == [price : {None, 4}, previous_close : {None, 1}, volume : {None, 0, 2}]

Field == [kind : {"word", "not finite"}, value : {0}] \cup [kind : {"number"}, value : {-1, 0, 2}]

Stock == {[ticker |-> None, market_cap |-> 1, day_pct |-> 1]} \cup
         [ticker : {"t"}, market_cap : {None, NotFinite}, day_pct : {1}] \cup
         [ticker : {"t"}, market_cap : {1, 2}, day_pct : {-4, 1}]

Letters == {"a", "A", "b"}
Texts(n) == UNION {[1..m -> Letters] : m \in 0..n}

Greek == [s : {<<1, 1>>, <<3, 2>>}, k : {<<1, 1>>, <<2, 1>>}, sqrt_t : {<<1, 2>>, <<1, 1>>},
          r : {<<0, 1>>, <<1, 10>>}, q : {<<0, 1>>, <<1, 20>>}, sigma : {<<1, 4>>},
          disc_q : {<<1, 1>>, <<3, 4>>}, disc_r : {<<1, 2>>}, pdf_d1 : {<<1, 3>>},
          n1 : {<<1, 2>>, <<3, 4>>}, n2 : {<<1, 4>>, <<1, 2>>}]

Contract == [kind : {"Call", "Put"}, day : {1, 2}, strike : {1, 2}]

Histories == {<<[ticker |-> "a", closes |-> x], [ticker |-> "b", closes |-> y],
                [ticker |-> "c", closes |-> z]>> :
                x, y, z \in SUBSET {<<d, d + 1>> : d \in 1..MaxDays}}

\* What each figure that is given a growing list adds to it, and how far.
Grows == [rows |-> Row, closes |-> {1, 2, 4}, typed |-> Field, stocks |-> Stock,
          letters |-> Letters, chain |-> Contract, room |-> {0}]
UpTo == [rows |-> MaxRows, closes |-> MaxCloses, typed |-> MaxFields, stocks |-> MaxTiles,
         letters |-> 4, chain |-> 3, room |-> MaxRoom]

(***************************************************************************)
(* Behaviour.                                                              *)
(***************************************************************************)
FiguresInit ==
  \/ figure = "treemap" /\ Tree!Init /\ guess = None /\ status = None
  \/ figure = "optimizer" /\ Opt!Init /\ first = None /\ second = None /\ guess = None
  \/ figure = "solver" /\ Solver!Init
  \/ /\ figure \in DOMAIN Grows \cup {"greeks", "histories"}
     /\ given \in IF figure = "greeks" THEN Greek
                  ELSE IF figure = "histories" THEN Histories ELSE {<<>>}
     /\ step = None /\ work = None /\ first = None /\ second = None /\ guess = None
     /\ status = None

Grow ==
  /\ figure \in DOMAIN Grows
  /\ Len(given) < UpTo[figure]
  /\ \E x \in Grows[figure] : given' = Append(given, x)
  /\ UNCHANGED machine

FiguresNext ==
  /\ UNCHANGED figure
  /\ \/ figure = "treemap" /\ Tree!Next /\ UNCHANGED <<guess, status>>
     \/ figure = "optimizer" /\ Opt!Next /\ UNCHANGED <<first, second, guess>>
     \/ figure = "solver" /\ Solver!Next
     \/ Grow

FiguresSpec == FiguresInit /\ [][FiguresNext]_figureVars

(***************************************************************************)
(* Properties.                                                             *)
(***************************************************************************)
\* The treemap tiles its area, and what is drawn of it and in every other panel
\* fits the room there is and shows what matters most.
LayoutsFit ==
  /\ figure = "treemap" => Tree!Tiling /\ Tree!CellsInside
  /\ figure = "room" =>
       /\ \A count \in 0..5 : \A cursor \in 0..6 : RoomIsShared(Len(given), count, cursor)
       /\ \A buckets \in {<<1, 0, 2, 0, 0>>, <<3, 3, 1, 0, 5>>, <<0, 0, 0, 0, 0>>} :
          \A mean, current \in {None, 0, 10, 17, 20, 30} :
            BarsFit(buckets, Len(given), 10, 20, mean, current)
  /\ figure = "stocks" =>
       \A limit \in 0..3 :
         TilesAreTheGreatest([n \in DOMAIN given |->
           [ticker |-> given[n].ticker, market_cap |-> given[n].market_cap,
            day_pct |-> given[n].day_pct, at |-> n]], limit)
  /\ figure = "chain" =>
       \A selected \in 1..3 : \A width \in {43, 44} :
         ChainIsSorted([expirations |-> <<2, 1>>, contracts |-> given], selected, width)

\* The solver keeps the volatility it seeks, the price and the Greeks satisfy
\* the equation they come from, and the elimination ends in the inverse that
\* makes the best portfolios.
MathematicsHolds ==
  /\ figure = "solver" => Solver!RootStaysInBracket /\ Solver!FiguresAreSound
  /\ figure = "greeks" =>
       Options!Parity(given) /\ \A kind \in {"Call", "Put"} : Options!Equation(given, kind)
  /\ figure = "optimizer" =>
       /\ Opt!InverseGrows /\ Opt!PortfoliosAreBest
       /\ Opt!WeightsAddUp([k \in DOMAIN given |-> Whole(given[k][1] * given[k][1])])
  /\ figure = "histories" => Opt!SeriesAlign(given)
  /\ figure = "closes" =>
       /\ \A period \in {0, 2, 3} : Chart!AveragesAreMeans(given, period)
       /\ \A period \in {0, 2, 3} : Chart!StrengthIsBounded(given, period)

\* What the Market page and the modals compute is what its inputs say: each cube
\* of the rows and the breadth of the movers, totals of their positions, ticks,
\* rows, sparklines and charts of their series, earnings and the history of theirs,
\* and entries and searches accept no more and no less than they should.
FiguresAgree ==
  /\ figure = "rows" =>
       /\ CubesAgree(given, Alerts, Holdings, 7)
       /\ TotalsAddUp(Holdings, given)
       /\ \A i \in DOMAIN given : \A tick \in Tick : TicksOnlyAdd(given[i], tick)
       /\ \A i \in DOMAIN given : \A series \in {<<>>, <<1>>, <<1, 3>>, <<2, 2>>, <<3, 1, 2>>} :
            RowsAreConsistent(given[i], series)
  /\ figure = "closes" =>
       /\ \A cap \in {0, 3} : SparksFollow(given, 3, cap)
       /\ ChartsHoldTheirData([n \in DOMAIN given |->
            [low |-> given[n] - (n % 2), close |-> given[n], high |-> given[n] + (n % 3)]])
       /\ HistoryIsShown([n \in DOMAIN given |-> [value |-> given[n], basis |-> n % 3]])
       /\ RevenueBarsCompare([n \in DOMAIN given |-> IF given[n] = 2 THEN None ELSE given[n]])
       /\ \A keep \in {0, 2} : \A estimate, actual \in {None, NotFinite, -2, 0, 3} :
            EarningsAreNewest(given, keep, estimate, actual, 2)
  /\ figure = "typed" => EntriesAreSound(given)
  /\ figure = "letters" => \A query \in Texts(2) : SearchIsComplete(given, query)
=============================================================================
