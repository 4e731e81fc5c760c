------------------------------ MODULE Dashboard -----------------------------
(***************************************************************************)
(* What the Market page makes of the quotes: the cubes of the dashboard,   *)
(* the decorations of the table's rows and the fuzzy search (tui/draw.rs,  *)
(* search.rs, models/quote.rs, app.rs).  A row is a record of ticker, name,*)
(* price, previous_close and volume; all but the ticker may be None.       *)
(* Percentages are exact; colours and bars stand for themselves, wording   *)
(* for the message it is.                                                  *)
(***************************************************************************)
EXTENDS PortfolioFigures, FiniteSets

Extent(a) == Size(a)

(***************************************************************************)
(* Quotes and ticks.                                                       *)
(***************************************************************************)
day_change_pct(price, previous_close) ==
  IF price = None \/ previous_close = None \/ previous_close = 0 THEN None
  ELSE Times(Frac(price - previous_close, previous_close), Whole(100))

Pct_of(row) == day_change_pct(row.price, row.previous_close)

positive_volume(volume) == IF volume # None /\ volume > 0 THEN volume ELSE None

Or(new, old) == IF new # None THEN new ELSE old

\* QuoteTick::apply on the first row of the ticker; a volume of zero is none.
apply(tick, row) ==
  [row EXCEPT !.price = Or(tick.price, @), !.previous_close = Or(tick.previous_close, @),
              !.volume = Or(positive_volume(tick.volume), @)]

\* The move a tick makes the row flash with (record_flash).
record_flash(tick, row) ==
  IF tick.price = None \/ row.price = None THEN None ELSE tick.price - row.price

\* The points of a ticker's sparkline after one more; a cap of 0 is none.
append_spark_point(points, price, cap) ==
  LET all == Append(points, price)
      start == IF cap > 0 /\ Len(all) > cap THEN Len(all) - cap + 1 ELSE 1
  IN  SubSeq(all, start, Len(all))

(***************************************************************************)
(* Rankings.                                                               *)
(***************************************************************************)
direction(delta, eps) == IF Less(eps, delta) THEN "Up"
                         ELSE IF Less(delta, Minus(Zero, eps)) THEN "Down" ELSE "Neutral"

\* Indices of the rows with a day change, the highest first, in the order of
\* the rows where they are equal; at most limit of them.
ranked_movers(rows, limit) ==
  LET some == {i \in DOMAIN rows : Pct_of(rows[i]) # None}
      before(i, j) == \/ Less(Pct_of(rows[j]), Pct_of(rows[i]))
                      \/ Pct_of(rows[j]) = Pct_of(rows[i]) /\ i < j
      rank(i) == Cardinality({j \in some : j = i \/ before(j, i)})
      shown == {i \in some : rank(i) <= limit}
  IN  [n \in 1..Cardinality(shown) |-> CHOOSE i \in shown : rank(i) = n]

bar_cells(pct, max_pct, width) ==
  IF width = 0 \/ AtMost(max_pct, Zero) THEN 0
  ELSE Rounded(Times(Least(Over(Extent(pct), max_pct), One), Whole(width)))

\* Mutant: an alert's distance keeps its sign.
distance_pct_Signed(price, threshold) == Times(Frac(price - threshold, threshold), Whole(100))

distance_pct(price, threshold) ==
  Times(Extent(Frac(price - threshold, threshold)), Whole(100))

\* The first of the alerts nearest to their thresholds, or None.
nearest_alert(alerts, rows) ==
  LET price(i) == resolve_price(alerts[i].ticker, rows).price
      some == {i \in DOMAIN alerts : price(i) # None /\ alerts[i].threshold # 0}
      far(i) == distance_pct(price(i), alerts[i].threshold)
      near == {i \in some : \A j \in some : AtMost(far(i), far(j))}
  IN  IF some = {} THEN None ELSE CHOOSE i \in near : \A j \in near : i <= j

day_breadth(rows) ==
  LET some == {i \in DOMAIN rows : Pct_of(rows[i]) # None}
  IN  <<Cardinality({i \in some : Less(Zero, Pct_of(rows[i]))}),
        Cardinality({i \in some : Less(Pct_of(rows[i]), Zero)})>>

breadth_bar(adv, dec, width) ==
  IF width = 0 \/ adv + dec = 0 THEN <<0, 0>>
  ELSE LET up == (adv * width) \div (adv + dec) IN <<up, width - up>>

\* The last of the rows with the highest volume, or None.
most_active(rows) ==
  LET some == {i \in DOMAIN rows : positive_volume(rows[i].volume) # None}
      top == {i \in some : \A j \in some : rows[j].volume <= rows[i].volume}
  IN  IF some = {} THEN None ELSE CHOOSE i \in top : \A j \in top : j <= i

(***************************************************************************)
(* Cubes: the figures shown, or None for a cube with its message in it.    *)
(***************************************************************************)
portfolio_cube(holdings, rows) ==
  LET positions == portfolio_positions(holdings, rows)
  IN  [message |-> IF holdings = <<>> THEN "no holdings"
                   ELSE IF \A k \in DOMAIN positions : positions[k].market_value = None
                     THEN "awaiting prices" ELSE None,
       totals |-> summarize(positions)]

\* The movers with their bars; pct holds their percentages.
Bars(movers, pct, width) ==
  LET max_pct == CHOOSE p \in {Extent(pct[n]) : n \in DOMAIN pct} :
                   \A n \in DOMAIN pct : AtMost(Extent(pct[n]), p)
  IN  [n \in DOMAIN movers |-> [row |-> movers[n], bar |-> bar_cells(pct[n], max_pct, width)]]

movers_cube(rows, width) ==
  LET movers == ranked_movers(rows, 3)
  IN  IF movers = <<>> THEN None
      ELSE Bars(movers, [n \in DOMAIN movers |-> Pct_of(rows[movers[n]])], width)

alerts_cube(alerts, rows) ==
  [count |-> Len(alerts), nearest |-> nearest_alert(alerts, rows),
   message |-> IF alerts = <<>> THEN "no alerts"
               ELSE IF nearest_alert(alerts, rows) = None THEN "awaiting prices" ELSE None]

breadth_cube(rows, width) ==
  LET counts == day_breadth(rows)
  IN  IF counts = <<0, 0>> THEN None
      ELSE breadth_bar(counts[1], counts[2], width)

(***************************************************************************)
(* Sparklines.                                                             *)
(***************************************************************************)
Lowest(s) == CHOOSE x \in {s[i] : i \in DOMAIN s} : \A i \in DOMAIN s : x <= s[i]
Highest(s) == CHOOSE x \in {s[i] : i \in DOMAIN s} : \A i \in DOMAIN s : s[i] <= x

\* Values as steps of a band from the lowest to the highest, flat ones at 0.
Scaled(s, steps) ==
  LET span == Highest(s) - Lowest(s)
  IN  [i \in DOMAIN s |-> IF span = 0 THEN 0
                          ELSE Rounded(Frac((s[i] - Lowest(s)) * steps, span))]

spark_series(values) == IF values = <<>> THEN <<>> ELSE Scaled(values, 100)

Last_n(s, width) == SubSeq(s, IF Len(s) > width THEN Len(s) - width + 1 ELSE 1, Len(s))

spark_text(values, width) ==
  IF Len(Last_n(values, width)) < 2 THEN <<>> ELSE Scaled(Last_n(values, width), 7)

(***************************************************************************)
(* Rows of the table.                                                      *)
(***************************************************************************)
\* The colour of a price: that of a flash that is not over, else of the day.
price_change_color(row, flash) ==
  LET diff == IF flash # None THEN flash
              ELSE IF row.price # None /\ row.previous_close # None
                     THEN row.price - row.previous_close ELSE None
  IN  IF diff = None THEN "Neutral" ELSE direction(Whole(diff), <<1, 1000>>)

\* What a row is drawn with; series is the ticker's sparkline.
QuoteRow(row, watchlist, alerts, flash, series) ==
  LET shown == Last_n(series, 12)
  IN  [star |-> row.ticker \in watchlist,
       bell |-> \E i \in DOMAIN alerts : alerts[i].ticker = row.ticker,
       color |-> price_change_color(row, flash),
       pct |-> Pct_of(row),
       trend |-> spark_text(series, 12),
       trend_color |-> IF Len(shown) < 2 THEN "dim"
                       ELSE direction(Whole(shown[Len(shown)] - shown[1]), Zero)]

(***************************************************************************)
(* The fuzzy search.  A text is a sequence of letters and Lower gives the  *)
(* lower case of a letter.                                                 *)
(***************************************************************************)
Lower(ch) == IF ch = "A" THEN "a" ELSE IF ch = "B" THEN "b" ELSE ch

\* Where the letters of needle are first met in haystack, in order, or None;
\* found[i] is what the first i letters of haystack have given.
subseq_match_ci(haystack, needle) ==
  LET found[i \in 0..Len(haystack)] ==
        IF i = 0 THEN <<>>
        ELSE LET positions == found[i - 1]
                 next == Len(positions) + 1
             IN  IF next <= Len(needle) /\ Lower(haystack[i]) = Lower(needle[next])
                   THEN Append(positions, i) ELSE positions
      all == found[Len(haystack)]
  IN  IF needle = <<>> \/ Len(all) < Len(needle) THEN None ELSE all

matches_query(fields, query) ==
  query = <<>> \/ \E text \in fields : subseq_match_ci(text, query) # None

\* The letters a cell highlights.
fuzzy_cell(text, query, active) ==
  IF active /\ query # <<>> /\ subseq_match_ci(text, query) # None
    THEN LET positions == subseq_match_ci(text, query)
         IN  {positions[i] : i \in DOMAIN positions}
    ELSE {}

(***************************************************************************)
(* Properties.                                                             *)
(***************************************************************************)
\* No quote left out of the movers rose more (or fell less) than one shown, those
\* shown are in that order, and none is shown just when no quote has a day
\* change; no bar is longer than its room, and one is full unless none of those
\* shown moved (movers_cube).
MoversAgree(pct, movers, bars, width) ==
  /\ movers = <<>> <=> \A i \in DOMAIN pct : pct[i] = None
  /\ \A i \in DOMAIN pct, n \in DOMAIN movers :
       \/ pct[i] = None \/ \E m \in DOMAIN movers : movers[m] = i
       \/ AtMost(pct[i], pct[movers[n]])
  /\ \A m, n \in DOMAIN movers : m < n => AtMost(pct[movers[n]], pct[movers[m]])
  /\ movers # <<>> =>
       /\ \A n \in DOMAIN movers : bars[n].bar <= width
       /\ (\E n \in DOMAIN movers : pct[movers[n]] # Zero)
            => \E n \in DOMAIN movers : bars[n].bar = width

\* The breadth is left out just when no quote moved.  Its two sides fill the bar
\* otherwise, a side no quote is on has nothing of it, and there are movers.  Where
\* it is left out the movers may still be shown, which is where the two cubes
\* disagree: quotes that are flat, with bars of nothing (breadth_cube, movers_cube).
BreadthAgrees(pct, counts, bar, movers, bars, width) ==
  /\ bar = None <=> \A i \in DOMAIN pct : pct[i] \in {None, Zero}
  /\ bar = None => \A n \in DOMAIN movers : pct[movers[n]] = Zero /\ bars[n].bar = 0
  /\ bar # None =>
       /\ bar[1] + bar[2] = width
       /\ movers # <<>>
       /\ \A side \in 1..2 : counts[side] = 0 => bar[side] = 0

\* No alert with a price is nearer to its threshold than the one named; alerts
\* wait for prices just when there are some and none has a price, and one is named
\* just when there is no message (alerts_cube).
AlertsAgree(alerts, price, cube) ==
  LET away(i) == Extent(Frac(price[i] - alerts[i].threshold, alerts[i].threshold))
  IN  /\ cube.nearest # None =>
           \A i \in DOMAIN alerts : price[i] # None => AtMost(away(cube.nearest), away(i))
      /\ cube.message = "awaiting prices" <=>
           alerts # <<>> /\ \A i \in DOMAIN alerts : price[i] = None
      /\ cube.nearest # None <=> cube.message = None

\* The portfolio waits for prices just when it has holdings and none of them has
\* a price in the table, and then there are no totals to store (portfolio_cube,
\* persistable_totals).
PortfolioAgrees(holdings, rows, cube) ==
  /\ cube.message = "awaiting prices" <=>
       /\ holdings # <<>>
       /\ \A k \in DOMAIN holdings : resolve_price(holdings[k].ticker, rows).price = None
  /\ cube.message = "awaiting prices" =>
       persistable_totals(portfolio_positions(holdings, rows)) = None

\* No volume is higher than that of the most active quote, and there is none just
\* when no quote has a volume above zero (most_active).
MostActiveAgrees(rows, top) ==
  /\ top = None <=> \A i \in DOMAIN rows : positive_volume(rows[i].volume) = None
  /\ top # None =>
       \A i \in DOMAIN rows : rows[i].volume # None => rows[i].volume <= rows[top].volume

\* Each cube against the rows of the table, and the breadth against the movers.
CubesAgree(rows, alerts, holdings, width) ==
  \A movers \in {ranked_movers(rows, 3)}, bars \in {movers_cube(rows, width)},
     pct \in {[i \in DOMAIN rows |-> Pct_of(rows[i])]} :
    /\ MoversAgree(pct, movers, bars, width)
    /\ BreadthAgrees(pct, day_breadth(rows), breadth_cube(rows, width), movers, bars, width)
    /\ AlertsAgree(alerts, [i \in DOMAIN alerts |-> resolve_price(alerts[i].ticker, rows).price],
                   alerts_cube(alerts, rows))
    /\ PortfolioAgrees(holdings, rows, portfolio_cube(holdings, rows))
    /\ MostActiveAgrees(rows, most_active(rows))

\* A tick changes what it carries and erases nothing: what was known of a row
\* stays known, and a flash is the price's own move.
TicksOnlyAdd(row, tick) ==
  LET after == apply(tick, row)
  IN  /\ \A f \in {"price", "previous_close", "volume"} :
           row[f] # None => after[f] # None
      /\ tick.volume = 0 => after.volume = row.volume
      /\ record_flash(tick, row) # None => after.price = row.price + record_flash(tick, row)

\* Sparklines keep the order of values, use the whole band unless they are flat
\* and hold the last of what was appended.
SparksFollow(values, width, cap) ==
  LET bars == spark_text(values, width)
      shown == Last_n(values, width)
      kept[i \in 0..Len(values)] ==
        IF i = 0 THEN <<>> ELSE append_spark_point(kept[i - 1], values[i], cap)
  IN  /\ \A i, j \in DOMAIN bars : shown[i] <= shown[j] => bars[i] <= bars[j]
      /\ \A i \in DOMAIN bars : bars[i] \in 0..7
      /\ bars # <<>> /\ (\E i, j \in DOMAIN shown : shown[i] # shown[j])
           => {0, 7} \subseteq {bars[i] : i \in DOMAIN bars}
      /\ kept[Len(values)] = IF cap = 0 THEN values ELSE Last_n(values, cap)

\* A text is found just when the query can be read in it from left to right,
\* and then as many letters are highlighted as the query has.
SearchIsComplete(text, query) ==
  LET readable == \E where \in [DOMAIN query -> DOMAIN text] :
        /\ \A i, j \in DOMAIN query : i < j => where[i] < where[j]
        /\ \A i \in DOMAIN query : Lower(text[where[i]]) = Lower(query[i])
  IN  /\ matches_query({text}, query) <=> readable
      /\ readable => Cardinality(fuzzy_cell(text, query, TRUE)) = Len(query)
=============================================================================
