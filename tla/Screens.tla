------------------------------- MODULE Screens ------------------------------
(***************************************************************************)
(* What modals, panels and lists show of their data, and how they share    *)
(* the room there is (tui/draw.rs, tui/components/, sectors.rs,            *)
(* earnings.rs).  A panel is the message in it or the record of its        *)
(* content; sizes are in cells.                                            *)
(***************************************************************************)
EXTENDS Dashboard

CONSTANT NotFinite  \* stands for infinite numbers and for no number

Atmost(n, limit) == IF n < limit THEN n ELSE limit
Atleast(n, limit) == IF n > limit THEN n ELSE limit

(***************************************************************************)
(* The information modal.                                                  *)
(***************************************************************************)
\* The arrow and the amount beside the price.
price_line(row) ==
  IF Pct_of(row) = None THEN None
  ELSE [arrow |-> direction(Whole(row.price - row.previous_close), <<1, 1000>>),
        amount |-> Size(Whole(row.price - row.previous_close)), pct |-> Pct_of(row)]

\* Cells of the five ratings' segments in the consensus bar, which ends at the
\* rounded share of the ratings so far.
push_consensus_lines(buckets, width) ==
  LET upto(n) == SumOf([i \in 1..n |-> Whole(buckets[i])])
      bar_width == Atmost(Atleast(width, 10), 48)
      end(n) == Rounded(Times(Over(upto(n), upto(Len(buckets))), Whole(bar_width)))
  IN  IF upto(Len(buckets)) = Zero THEN <<>>
      ELSE [n \in DOMAIN buckets |-> end(n) - IF n = 1 THEN 0 ELSE end(n - 1)]

\* The cell of a price on a track between the targets.
Position(v, low, high, track) ==
  Atleast(0, Atmost(Rounded(Frac(Atleast(v - low, 0) * (track - 1), high - low)), track - 1))

\* target_gauge with its guards in push_target_lines: marks by cell, counted
\* from 0; the current price is put on last.  labels is the room of the two.
target_gauge(low, high, mean, current, width, labels) ==
  LET track == width - labels - 2
  IN  IF low = None \/ high = None \/ low >= high \/ track < 8 THEN None
      ELSE [track |-> track,
            mean |-> IF mean = None \/ (current # None /\ Position(current, low, high, track)
                                                          = Position(mean, low, high, track))
                       THEN None ELSE Position(mean, low, high, track),
            current |-> IF current = None THEN None ELSE Position(current, low, high, track)]

\* How far the price is from the mean target, in percent.
ToMean(mean, current) ==
  IF mean = None \/ current = None \/ current <= 0 THEN None
  ELSE Times(Frac(mean - current, current), Whole(100))

(***************************************************************************)
(* The chart modal.                                                        *)
(***************************************************************************)
\* Heights of the sub-panels in height cells.
ChartPanels(show_volume, show_rsi, height) ==
  LET volume_h == IF show_volume /\ height >= 14 THEN 7 ELSE 0
      rsi_h == IF show_rsi /\ height >= 14 + volume_h THEN 8 ELSE 0
  IN  [volume |-> volume_h, rsi |-> rsi_h, price |-> height - volume_h - rsi_h]

volume_series(volumes) ==
  [i \in DOMAIN volumes |-> IF positive_volume(volumes[i]) = None THEN 0 ELSE volumes[i]]

range_of(lows, highs) ==
  IF lows = <<>> \/ highs = <<>> THEN None ELSE [lo |-> Lowest(lows), hi |-> Highest(highs)]

\* The band the vertical axis shows, before the same padding on both sides.
PriceAxis(closes, range) ==
  [lo |-> Atmost(Lowest(closes), range.lo), hi |-> Atleast(Highest(closes), range.hi)]

\* draw_stock_chart; a candle is a record of low, close and high.
StockChart(candles) ==
  LET closes == [i \in DOMAIN candles |-> candles[i].close]
      lows == [i \in DOMAIN candles |-> candles[i].low]
      highs == [i \in DOMAIN candles |-> candles[i].high]
      change == closes[Len(closes)] - closes[1]
      rises(i) == i = 1 \/ closes[i] >= closes[i - 1]
  IN  IF candles = <<>> THEN "No chart data"
      ELSE [trend_up |-> change >= 0,
            pct |-> IF closes[1] # 0 THEN Times(Frac(change, closes[1]), Whole(100)) ELSE Zero,
            up |-> {i \in DOMAIN closes : rises(i)},
            down |-> {i \in DOMAIN closes : ~rises(i)},
            axis |-> PriceAxis(closes, range_of(lows, highs)),
            labels |-> <<1, Len(candles) \div 2 + 1, Len(candles)>>]

\* Bounds of the frontier's axes, padded by a tenth or a hundredth.
padded_axis_bounds(values) ==
  IF values = <<>> THEN <<Zero, One>>
  ELSE LET lo == Whole(Lowest(values))
           hi == Whole(Highest(values))
           pad == Greatest(Times(Minus(hi, lo), <<1, 10>>), <<1, 100>>)
       IN  <<Minus(lo, pad), Plus(hi, pad)>>

(***************************************************************************)
(* The options modal.  A contract is a record of kind, day and strike.     *)
(***************************************************************************)
\* The strikes of an expiry's contracts of one kind, rising.
contracts_for_expiry(expirations, contracts, index, kind) ==
  IF index \notin DOMAIN expirations THEN <<>>
  ELSE LET out == {i \in DOMAIN contracts :
                     contracts[i].kind = kind /\ contracts[i].day = expirations[index]}
           before(j, i) == \/ contracts[j].strike < contracts[i].strike
                           \/ contracts[j].strike = contracts[i].strike /\ j < i
           place(i) == Cardinality({j \in out : j = i \/ before(j, i)})
       IN  [n \in 1..Cardinality(out) |-> contracts[CHOOSE i \in out : place(i) = n].strike]

OptionColumns(width) ==
  5 + (IF width >= 46 THEN 2 ELSE 0) + (IF width >= 96 THEN 6 ELSE 0)

OptionsScreen(chain, selected, width) ==
  LET message == IF chain = None THEN "loading"
                 ELSE IF chain.expirations = <<>> THEN "no options"
                 ELSE IF width < 44 THEN "too narrow" ELSE None
      idx == Atmost(selected, Len(chain.expirations))
      side(kind) == contracts_for_expiry(chain.expirations, chain.contracts, idx, kind)
  IN  [message |-> message,
       expiry |-> IF message = None THEN chain.expirations[idx] ELSE None,
       calls |-> IF message = None THEN side("Call") ELSE <<>>,
       puts |-> IF message = None THEN side("Put") ELSE <<>>,
       columns |-> OptionColumns(width \div 2)]

(***************************************************************************)
(* The earnings modal.                                                     *)
(***************************************************************************)
surprise_pct(estimate, actual) ==
  IF None \in {estimate, actual} \/ NotFinite \in {estimate, actual} \/ estimate = 0 THEN None
  ELSE Times(Over(Whole(actual - estimate), Size(Whole(estimate))), Whole(100))

next_report_date(dates, now) ==
  LET some == {dates[i] : i \in {j \in DOMAIN dates : dates[j] >= now}}
  IN  IF some = {} THEN None ELSE CHOOSE d \in some : \A e \in some : d <= e

\* The last quarters the provider lists, the newest first (fetch_earnings).
Newest(quarters, keep) ==
  LET some == Last_n(quarters, keep)
  IN  [n \in DOMAIN some |-> some[Len(some) - n + 1]]

\* A screen is the message in it and, with none, its content.
EarningsScreen(eps, revenue, loading) ==
  LET known == {i \in DOMAIN revenue : revenue[i] # None}
      top == CHOOSE m \in {0} \cup {revenue[i] : i \in known} :
               m >= 0 /\ \A i \in known : revenue[i] <= m
      nothing == eps = <<>> /\ revenue = <<>>
  IN  [message |-> IF ~nothing THEN None
                   ELSE IF loading THEN "loading earnings" ELSE "no earnings data",
       eps |-> [i \in DOMAIN eps |-> surprise_pct(eps[i].estimate, eps[i].actual)],
       revenue |-> [i \in DOMAIN revenue |->
         IF revenue[i] = None THEN 0 ELSE bar_cells(Whole(revenue[i]), Whole(top), 12)]]

(***************************************************************************)
(* The portfolio modal.  A history is a sequence of value and cost basis.  *)
(***************************************************************************)
PortfolioScreen(history, loading) ==
  LET values == [i \in DOMAIN history |-> history[i].value]
      basis == [i \in DOMAIN history |-> history[i].basis]
      enough == Len(history) >= 2
  IN  [message |-> IF enough THEN None ELSE IF loading THEN "loading history"
                   ELSE IF history = <<>> THEN "no history yet" ELSE "not enough history yet",
       return |-> IF enough THEN series_return(values, basis[Len(basis)]) ELSE None,
       axis |-> IF enough THEN [lo |-> Lowest(values \o basis), hi |-> Highest(values \o basis)]
                ELSE None]

(***************************************************************************)
(* Lists with a cursor: the News page, the sections of the Manage page and *)
(* the log.                                                                *)
(***************************************************************************)
\* The first and the last row drawn, and the one highlighted; rows count from
\* 0 as the cursor does.
NewsWindow(count, cursor, inner) ==
  LET selected == Atmost(cursor, count - 1)
      height == Atleast(inner, 1)
      start == IF selected >= height THEN selected + 1 - height ELSE 0
  IN  [selected |-> selected, first |-> start, last |-> Atmost(start + height, count) - 1]

\* A section of the Manage page: its list, its cursor when it has the focus,
\* and its last line, which the entry takes from the totals, if it has any.
ManageList(count, cursor, focused, input, totals) ==
  [list |-> IF count = 0 THEN "press a to add" ELSE "table",
   selected |-> IF focused /\ count > 0 THEN Atmost(cursor, count - 1) ELSE None,
   bottom |-> IF input THEN "entry" ELSE IF totals /\ count > 0 THEN "totals" ELSE "none"]

\* The last lines of the log that fit.
LogLines(logs, height) == Last_n(logs, Atleast(height - 2, 0))

(***************************************************************************)
(* The Sectors page.                                                       *)
(***************************************************************************)
\* A tile of what the provider lists of a stock.
make_tile(raw) ==
  IF raw.ticker = None \/ raw.market_cap \in {None, NotFinite} \/ raw.day_pct \in {None, NotFinite}
    THEN None
    ELSE [market_cap |-> raw.market_cap, day_pct |-> raw.day_pct, at |-> raw.at]

\* The greatest tiles, equals in the order they came; tiles is a function of
\* their places in the provider's list.
rank_tiles(tiles, limit) ==
  LET before(j, i) == \/ tiles[j].market_cap > tiles[i].market_cap
                      \/ tiles[j].market_cap = tiles[i].market_cap /\ j < i
      rank(i) == Cardinality({j \in DOMAIN tiles : j = i \/ before(j, i)})
      shown == {i \in DOMAIN tiles : rank(i) <= limit}
  IN  [n \in 1..Cardinality(shown) |-> tiles[CHOOSE i \in shown : rank(i) = n]]

\* How far the colour of a day change is from neutral, of 1.
heat_color(day_pct) ==
  LET frac == Greatest(Whole(-1), Least(Over(day_pct, Whole(3)), One))
  IN  [to |-> IF AtMost(Zero, frac) THEN "up" ELSE "down", amount |-> Size(frac)]

\* What a tile of width and height has room for.
TileText(width, height) ==
  IF width < 4 \/ height < 1 THEN <<>>
  ELSE IF height >= 2 THEN <<"ticker", "pct">> ELSE <<"ticker">>

(***************************************************************************)
(* Properties.                                                             *)
(***************************************************************************)
\* A bar shares out exactly its cells, no rating takes a cell without a vote,
\* and a mark lies on the track: at its end for a target or beyond, and there only
\* within half a cell of the target.
BarsFit(buckets, width, low, high, mean, current) ==
  LET bar == push_consensus_lines(buckets, width)
      gauge == target_gauge(low, high, mean, current, width, 4)
  IN  /\ bar # <<>> =>
           /\ SumOf([n \in DOMAIN bar |-> Whole(bar[n])])
                = Whole(Atmost(Atleast(width, 10), 48))
           /\ \A n \in DOMAIN bar : bar[n] >= 0 /\ (buckets[n] = 0 => bar[n] = 0)
      /\ gauge # None =>
           /\ \A mark \in {gauge.mean, gauge.current} \ {None} : mark \in 0..(gauge.track - 1)
           /\ current # None /\ current >= high => gauge.current = gauge.track - 1
           /\ current # None /\ current <= low => gauge.current = 0
           /\ gauge.current = gauge.track - 1 =>
                2 * (high - current) * (gauge.track - 1) <= high - low
           /\ gauge.current = 0 => 2 * (current - low) * (gauge.track - 1) <= high - low

\* Whatever sub-panels are asked for, those drawn leave the price its six
\* cells, and the log, the news and the Manage page draw the row that is
\* selected and waste no room.
RoomIsShared(height, count, cursor) ==
  /\ \A volume, rsi \in BOOLEAN :
       LET panels == ChartPanels(volume, rsi, height)
       IN  panels.volume + panels.rsi > 0 => panels.price >= 6
  /\ count > 0 =>
       LET w == NewsWindow(count, cursor, height)
       IN  /\ w.first <= w.selected /\ w.selected <= w.last
           /\ w.last - w.first + 1 = Atmost(Atleast(height, 1), count)
           /\ cursor < count => w.selected = cursor
  /\ LET section == ManageList(count, cursor, TRUE, FALSE, TRUE)
     IN  section.selected = None <=> section.list = "press a to add"
  /\ LET lines == LogLines([n \in 1..count |-> n], height)
     IN  Len(lines) = Atmost(count, Atleast(height - 2, 0))
           /\ (lines # <<>> => lines[Len(lines)] = count)

\* Every line of a chart lies in its axis, points are up or down, the trend is
\* that of the percentage, and the dates under it are in order.
ChartsHoldTheirData(candles) ==
  LET chart == StockChart(candles)
      closes == [i \in DOMAIN candles |-> candles[i].close]
      bounds == padded_axis_bounds(closes)
  IN  candles # <<>> =>
        /\ \A i \in DOMAIN candles :
             {candles[i].low, candles[i].close, candles[i].high}
               \subseteq chart.axis.lo..chart.axis.hi
        /\ chart.up \cup chart.down = DOMAIN closes /\ chart.up \cap chart.down = {}
        /\ chart.trend_up <=> AtMost(Zero, chart.pct)
        /\ chart.labels[1] <= chart.labels[2] /\ chart.labels[2] <= chart.labels[3]
        /\ \A i \in DOMAIN closes :
             Less(bounds[1], Whole(closes[i])) /\ Less(Whole(closes[i]), bounds[2])

\* The modal of earnings shows the newest quarters, the newest first; a beat is
\* positive also of an estimate below zero; and the next report is not over.
EarningsAreNewest(quarters, keep, estimate, actual, now) ==
  LET shown == Newest(quarters, keep)
      surprise == surprise_pct(estimate, actual)
      report == next_report_date(quarters, now)
  IN  /\ Len(shown) = Atmost(keep, Len(quarters))
      /\ \A n \in DOMAIN shown : shown[n] = quarters[Len(quarters) - n + 1]
      /\ surprise # None => (Less(Zero, surprise) <=> actual > estimate)
      /\ report # None => now <= report
                          /\ \A i \in DOMAIN quarters : ~(quarters[i] \in now..(report - 1))

\* The greatest revenue, above zero, fills its bar and no other is longer; a
\* quarter the provider has no figure of has none.
RevenueBarsCompare(revenue) ==
  LET screen == EarningsScreen(<<>>, revenue, FALSE)
      bar == screen.revenue
  IN  revenue = <<>> \/
        /\ screen.message = None
        /\ \A i \in DOMAIN revenue : bar[i] \in 0..12 /\ (revenue[i] = None => bar[i] = 0)
        /\ \A i \in DOMAIN revenue :
             /\ revenue[i] # None /\ revenue[i] > 0
             /\ \A j \in DOMAIN revenue : revenue[j] = None \/ revenue[j] <= revenue[i]
             => bar[i] = 12

\* The portfolio modal shows the return of the last sample against the cost
\* basis of that day, and both lines lie in its axis.
HistoryIsShown(history) ==
  \A loading \in BOOLEAN :
    LET screen == PortfolioScreen(history, loading)
        last == history[Len(history)]
    IN  /\ screen.message = None <=> Len(history) > 1
        /\ screen.message = None =>
             /\ screen.return.latest_value = last.value
             /\ screen.return.total_pnl = last.value - last.basis
             /\ \A i \in DOMAIN history :
                  {history[i].value, history[i].basis} \subseteq screen.axis.lo..screen.axis.hi

\* The signs of a row agree: without a flash the colour is that of the arrow in
\* the modal and of the percentage, and the trend's that of its ends.
RowsAreConsistent(row, series) ==
  LET drawn == QuoteRow(row, {}, <<>>, None, series)
      line == price_line(row)
  IN  /\ line # None => line.arrow = drawn.color /\ line.pct = drawn.pct
      /\ drawn.pct # None => drawn.color = direction(drawn.pct, Zero)
      /\ drawn.trend_color = "Up" =>
           drawn.trend[1] <= drawn.trend[Len(drawn.trend)]
      /\ drawn.trend_color = "dim" <=> drawn.trend = <<>>

\* Contracts of the shown expiry, each in its table, strikes rising.
ChainIsSorted(chain, selected, width) ==
  LET screen == OptionsScreen(chain, selected, width)
      count(kind, day) ==
        Cardinality({i \in DOMAIN chain.contracts :
          chain.contracts[i].kind = kind /\ chain.contracts[i].day = day})
  IN  screen.message = None =>
        /\ Len(screen.calls) = count("Call", screen.expiry)
        /\ Len(screen.puts) = count("Put", screen.expiry)
        /\ \A side \in {screen.calls, screen.puts} :
             \A i, j \in DOMAIN side : i < j => side[i] <= side[j]

\* No stock left out of the map is greater than one in it, equals keep the
\* provider's order, and every tile has a size and a colour.
TilesAreTheGreatest(raws, limit) ==
  LET some == {i \in DOMAIN raws : make_tile(raws[i]) # None}
      tiles == [i \in some |-> make_tile(raws[i])]
      shown == rank_tiles(tiles, limit)
      kept == {shown[n].at : n \in DOMAIN shown}
  IN  /\ Len(shown) = Atmost(limit, Cardinality(some))
      /\ \A m, n \in DOMAIN shown : m < n =>
           \/ shown[m].market_cap > shown[n].market_cap
           \/ shown[m].market_cap = shown[n].market_cap /\ shown[m].at < shown[n].at
      /\ \A i \in DOMAIN tiles : tiles[i].at \notin kept =>
           \A n \in DOMAIN shown : tiles[i].market_cap <= shown[n].market_cap
      /\ \A n \in DOMAIN shown : AtMost(heat_color(Whole(shown[n].day_pct)).amount, One)
=============================================================================
