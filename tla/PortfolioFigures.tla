-------------------------- MODULE PortfolioFigures --------------------------
(***************************************************************************)
(* Profit and loss (portfolio.rs): what the Manage page, the dashboard,    *)
(* the portfolio modal and the scheduled snapshot show and store.  A price *)
(* or a previous close may be None; figures are exact.                     *)
(***************************************************************************)
EXTENDS Integers, Sequences, Fractions

CONSTANT None

(***************************************************************************)
(* What the user types.                                                    *)
(***************************************************************************)
\* A field is a record of kind ("word", "number" or "not finite", for what f64
\* parses as infinite or no number) and value.
parse_holding_input(fields) ==
  LET finite(f) == fields[f].kind = "number"
      error == IF Len(fields) # 2 THEN "WrongFieldCount"
               ELSE IF \E f \in {1, 2} : fields[f].kind = "word" THEN "InvalidNumber"
               ELSE IF ~finite(1) \/ fields[1].value <= 0 THEN "NonPositiveShares"
               ELSE IF ~finite(2) \/ fields[2].value < 0 THEN "NegativeCost"
               ELSE "none"
  IN  [error |-> error,
       shares |-> IF error = "none" THEN fields[1].value ELSE None,
       avg_cost |-> IF error = "none" THEN fields[2].value ELSE None]

\* The first field is the ticker.
parse_holding_entry(fields) ==
  IF Len(fields) < 2 THEN [error |-> "WrongFieldCount", shares |-> None, avg_cost |-> None]
  ELSE parse_holding_input(Tail(fields))

\* An alert's entry: a ticker, the operator typed, or None, and the field after it.
parse_alert_entry(fields, operator) ==
  IF Len(fields) # 2 \/ operator = None THEN "MissingOperator"
  ELSE IF fields[2].kind = "word" THEN "InvalidNumber"
  ELSE IF fields[2].kind # "number" \/ fields[2].value <= 0 THEN "NonPositive"
  ELSE "none"

(***************************************************************************)
(* Positions.                                                              *)
(***************************************************************************)
\* The price and the previous close in the first row of the ticker.
resolve_price(ticker, rows) ==
  LET found == {i \in DOMAIN rows : rows[i].ticker = ticker}
      row == rows[CHOOSE i \in found : \A j \in found : i <= j]
  IN  IF found = {} THEN [price |-> None, previous_close |-> None]
      ELSE [price |-> row.price, previous_close |-> row.previous_close]

value_position(h, price, previous_close) ==
  LET priced == price # None
      gain == IF priced THEN price - h.avg_cost ELSE None
  IN  [holding |-> h,
       market_value |-> IF priced THEN h.shares * price ELSE None,
       unrealized_pnl |-> IF priced THEN h.shares * gain ELSE None,
       unrealized_pnl_pct |->
         IF priced /\ h.avg_cost # 0
           THEN Times(Frac(gain, h.avg_cost), Whole(100)) ELSE None,
       day_change |->
         IF priced /\ previous_close # None THEN h.shares * (price - previous_close) ELSE None]

portfolio_positions(holdings, rows) ==
  [k \in DOMAIN holdings |->
     LET found == resolve_price(holdings[k].ticker, rows)
     IN  value_position(holdings[k], found.price, found.previous_close)]

\* The sum of the figures that are known.
Known(figures) ==
  SumOf([k \in DOMAIN figures |-> IF figures[k] = None THEN Zero ELSE Whole(figures[k])])[1]

Pct(part, whole) == IF whole # 0 THEN Times(Frac(part, whole), Whole(100)) ELSE None

summarize(positions) ==
  LET cost(p) == p.holding.shares * p.holding.avg_cost
      total_cost == Known([k \in DOMAIN positions |-> cost(positions[k])])
      total_pnl == Known([k \in DOMAIN positions |-> positions[k].unrealized_pnl])
  IN  [total_cost |-> total_cost,
       total_market_value |-> Known([k \in DOMAIN positions |-> positions[k].market_value]),
       total_pnl |-> total_pnl,
       total_pnl_pct |-> Pct(total_pnl, total_cost),
       total_day_change |-> Known([k \in DOMAIN positions |-> positions[k].day_change])]

persistable_totals(positions) ==
  IF positions = <<>> \/ \E k \in DOMAIN positions : positions[k].market_value = None
    THEN None
    ELSE LET summary == summarize(positions)
         IN  <<summary.total_market_value, summary.total_cost>>

\* The return of the stored samples against a cost basis.
series_return(series, cost_basis) ==
  LET latest == IF series = <<>> THEN 0 ELSE series[Len(series)]
  IN  [latest_value |-> latest, total_pnl |-> latest - cost_basis,
       total_pnl_pct |-> Pct(latest - cost_basis, cost_basis)]

(***************************************************************************)
(* Properties.                                                             *)
(***************************************************************************)
\* The totals add up: each position adds its own figures, and nothing where one
\* is not known.  The day's change is today's less yesterday's value of the
\* positions that have both, and profit is value less cost of those with a price;
\* totals are stored just when all have one, and then the modal's return of the
\* stored value is the dashboard's profit.
TotalsAddUp(holdings, rows) ==
  LET positions == portfolio_positions(holdings, rows)
      s == summarize(positions)
      unpriced == {k \in DOMAIN positions : positions[k].market_value = None}
      missing == Known([k \in DOMAIN holdings |->
        IF k \in unpriced THEN holdings[k].shares * holdings[k].avg_cost ELSE 0])
      stored == persistable_totals(positions)
      upto(n) == summarize(SubSeq(positions, 1, n))
      Adds(after, before, added) == after = before + (IF added = None THEN 0 ELSE added)
      known == {k \in DOMAIN positions : positions[k].day_change # None}
      worth(field) == Known([k \in DOMAIN holdings |->
        IF k \in known THEN holdings[k].shares * resolve_price(holdings[k].ticker, rows)[field]
        ELSE 0])
  IN  /\ \A n \in DOMAIN positions :
           LET p == positions[n]
               before == upto(n - 1)
               after == upto(n)
           IN  /\ Adds(after.total_cost, before.total_cost, p.holding.shares * p.holding.avg_cost)
               /\ Adds(after.total_market_value, before.total_market_value, p.market_value)
               /\ Adds(after.total_pnl, before.total_pnl, p.unrealized_pnl)
               /\ Adds(after.total_day_change, before.total_day_change, p.day_change)
      /\ s.total_day_change = worth("price") - worth("previous_close")
      /\ s.total_pnl = s.total_market_value - s.total_cost + missing
      /\ stored # None =>
           /\ missing = 0
           /\ series_return(<<0, stored[1]>>, stored[2])
                = [latest_value |-> s.total_market_value, total_pnl |-> s.total_pnl,
                   total_pnl_pct |-> s.total_pnl_pct]
      /\ stored = None <=> holdings = <<>> \/ unpriced # {}

\* Whatever is typed, a holding that is accepted has shares and a cost that is
\* not negative, an alert a threshold above zero, and no entry is both.
EntriesAreSound(fields) ==
  LET h == parse_holding_entry(fields)
  IN  /\ h.error = "none" => h.shares > 0 /\ h.avg_cost >= 0 /\ Len(fields) = 3
      /\ \A operator \in {None, ">", "<"} :
           parse_alert_entry(fields, operator) = "none" =>
             /\ operator # None /\ fields[2].value > 0
             /\ h.error # "none"
=============================================================================
