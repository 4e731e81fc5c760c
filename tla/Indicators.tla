------------------------------ MODULE Indicators ----------------------------
(***************************************************************************)
(* The chart's moving averages and relative strength index (indicators.rs) *)
(* over closes, as the code computes them, running, and as defined.        *)
(***************************************************************************)
EXTENDS Integers, Sequences, Fractions

CONSTANT None

\* The sum of the last period closes, kept as it runs.
Running(values, period) ==
  LET sum[i \in 0..Len(values)] ==
        IF i = 0 THEN 0
        ELSE sum[i - 1] + values[i] - IF i > period THEN values[i - period] ELSE 0
  IN  sum

sma(values, period) ==
  [i \in 1..Len(values) |->
     IF period # 0 /\ i >= period THEN Frac(Running(values, period)[i], period) ELSE None]

Up(values, i) == IF values[i] >= values[i - 1] THEN values[i] - values[i - 1] ELSE 0
Down(values, i) == IF values[i] >= values[i - 1] THEN 0 ELSE values[i - 1] - values[i]

rsi_from(avg_gain, avg_loss) ==
  IF avg_loss = Zero THEN Whole(100)
  ELSE Minus(Whole(100), Over(Whole(100), Plus(One, Over(avg_gain, avg_loss))))

\* Wilder's average of moves: the mean of the first period of them, then each
\* new one counts for one of period.
Smoothed(moves, period, count) ==
  LET avg[i \in (period + 1)..count] ==
        IF i = period + 1
          THEN Over(SumOf([j \in 2..i |-> Whole(moves[j])]), Whole(period))
          ELSE Over(Plus(Times(avg[i - 1], Whole(period - 1)), Whole(moves[i])), Whole(period))
  IN  avg

rsi(values, period) ==
  LET count == Len(values)
      gains == Smoothed([j \in 2..count |-> Up(values, j)], period, count)
      losses == Smoothed([j \in 2..count |-> Down(values, j)], period, count)
  IN  [i \in 1..count |->
         IF period = 0 \/ i <= period THEN None ELSE rsi_from(gains[i], losses[i])]

(***************************************************************************)
(* Properties.                                                             *)
(***************************************************************************)
\* The running average is the mean of the last closes, at every close.
AveragesAreMeans(values, period) ==
  \A i \in DOMAIN values :
    sma(values, period)[i] =
      IF period = 0 \/ i < period THEN None
      ELSE Over(SumOf([j \in (i - period + 1)..i |-> Whole(values[j])]), Whole(period))

\* The index lies between 0 and 100, is 100 exactly as long as no close has
\* fallen, and a mirrored series has the mirrored index.
StrengthIsBounded(values, period) ==
  \A i \in DOMAIN values :
    LET r == rsi(values, period)[i]
        mirrored == rsi([j \in DOMAIN values |-> -values[j]], period)[i]
        fell == \E j \in 2..i : values[j] < values[j - 1]
        rose == \E j \in 2..i : values[j] > values[j - 1]
    IN  r = None \/
          /\ AtMost(Zero, r) /\ AtMost(r, Whole(100))
          /\ r = Whole(100) <=> ~fell
          /\ fell /\ rose => Plus(r, mirrored) = Whole(100)
=============================================================================
