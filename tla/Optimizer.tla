------------------------------ MODULE Optimizer -----------------------------
(***************************************************************************)
(* The mathematics of the Optimizer page (optimizer.rs), exactly: which    *)
(* closes are compared, means and covariances, the inversion by Gauss and  *)
(* Jordan, one column per step, and the two portfolios made from it.       *)
(*                                                                         *)
(* Logarithms, roots (risk, Sharpe ratio, correlation) and the random      *)
(* cloud are left out; "below 1e-12" is zero.                              *)
(***************************************************************************)
EXTENDS Integers, Sequences, FiniteSets, Fractions

CONSTANTS
  Returns,             \* the lists of return series considered
  TRADING_DAYS,
  MIN_RETURN_SAMPLES,
  RiskFree             \* the risk-free rate

VARIABLES
  returns,  \* of the assets, a sequence of sequences of integers
  a,        \* the matrix and to its right what began as the unit matrix
  col,      \* the column to eliminate
  outcome   \* "eliminating", "inverse" or "None"

vars == <<returns, a, col, outcome>>

(***************************************************************************)
(* Which closes are compared.  A history is a set of <<day, close>>.       *)
(***************************************************************************)
Days(history) == {entry[1] : entry \in history}

\* The histories with enough closes, in their order.
usable(histories) ==
  LET kept[n \in 0..Len(histories)] ==
        IF n = 0 THEN <<>>
        ELSE IF Cardinality(histories[n].closes) > MIN_RETURN_SAMPLES
               THEN Append(kept[n - 1], histories[n]) ELSE kept[n - 1]
  IN  kept[Len(histories)]

\* The days every usable ticker has.
common(some) ==
  {d \in UNION {Days(some[k].closes) : k \in DOMAIN some} :
     \A k \in DOMAIN some : d \in Days(some[k].closes)}

\* The tickers and, for each, the closes its returns are computed from.
aligned_returns(histories) ==
  LET some == usable(histories)
      dates == common(some)
  IN  IF Len(some) < 2 \/ Cardinality(dates) <= MIN_RETURN_SAMPLES
        THEN [tickers |-> <<>>, closes |-> <<>>]
        ELSE [tickers |-> [k \in DOMAIN some |-> some[k].ticker],
              closes |-> [k \in DOMAIN some |-> {e \in some[k].closes : e[1] \in dates}]]

(***************************************************************************)
(* Means and covariances.                                                  *)
(***************************************************************************)
Mean(r) == Over(SumOf([t \in DOMAIN r |-> Whole(r[t])]), Whole(Len(r)))

mean_returns(rs) ==
  [k \in DOMAIN rs |->
     IF rs[k] = <<>> THEN Zero ELSE Times(Mean(rs[k]), Whole(TRADING_DAYS))]

covariance_matrix(rs) ==
  LET samples == Len(rs[1])
      off(k, t) == Minus(Whole(rs[k][t]), Mean(rs[k]))
      s(j, k) == SumOf([t \in 1..samples |-> Times(off(j, t), off(k, t))])
  IN  [j \in DOMAIN rs |-> [k \in DOMAIN rs |->
         IF samples < 2 THEN Zero
         ELSE Times(Over(s(j, k), Whole(samples - 1)), Whole(TRADING_DAYS))]]

(***************************************************************************)
(* invert: one column per step.                                            *)
(***************************************************************************)
mat == covariance_matrix(returns)
k == Len(returns)
Left(row) == SubSeq(row, 1, k)
Right(row) == SubSeq(row, k + 1, 2 * k)
Unit(r) == [c \in 1..k |-> IF c = r THEN One ELSE Zero]

Init ==
  /\ returns \in Returns
  /\ a = [r \in 1..k |-> mat[r] \o Unit(r)]
  /\ col = 1
  /\ outcome = IF k = 0 THEN "inverse" ELSE "eliminating"

\* The first of the rows from col down with the largest entry in the column.
Pivot ==
  CHOOSE p \in col..k :
    /\ \A r \in col..k : AtMost(Size(a[r][col]), Size(a[p][col]))
    /\ \A r \in col..(p - 1) : Less(Size(a[r][col]), Size(a[p][col]))

Swapped(m) == [m EXCEPT ![col] = m[Pivot], ![Pivot] = m[col]]

\* The pivot's row divided by the pivot, and every other row less so much of it
\* that its entry in the column is zero.
Eliminated(m) ==
  LET row == [c \in 1..(2 * k) |-> Over(m[col][c], m[col][col])]
  IN  [r \in 1..k |->
         IF r = col THEN row
         ELSE [c \in 1..(2 * k) |-> Minus(m[r][c], Times(m[r][col], row[c]))]]

Eliminate ==
  /\ outcome = "eliminating"
  /\ IF a[Pivot][col] = Zero
       THEN outcome' = "None" /\ UNCHANGED <<a, col>>
       ELSE /\ a' = Eliminated(Swapped(a))
            /\ col' = col + 1
            /\ outcome' = IF col = k THEN "inverse" ELSE outcome
  /\ UNCHANGED returns

Next == Eliminate

inv == [r \in 1..k |-> Right(a[r])]

(***************************************************************************)
(* The portfolios.                                                         *)
(***************************************************************************)
Dot(v, w) == SumOf([c \in DOMAIN v |-> Times(v[c], w[c])])
mat_vec(m, v) == [r \in DOMAIN m |-> Dot(m[r], v)]

\* The weights made of z, or <<>> when they add up to nothing.
Scaled(z) == IF SumOf(z) = Zero THEN <<>> ELSE [c \in DOMAIN z |-> Over(z[c], SumOf(z))]

min_variance == Scaled(mat_vec(inv, [c \in 1..k |-> One]))

excess == [c \in 1..k |-> Minus(mean_returns(returns)[c], RiskFree)]
tangency == Scaled(mat_vec(inv, excess))

\* portfolio_stats before the roots.
Return(w) == Dot(w, mean_returns(returns))
Variance(w) == Dot(w, mat_vec(mat, w))

\* The weights of the holdings as they are, from their market values.
current_weights(mvs) ==
  IF Less(Zero, SumOf(mvs)) THEN Scaled(mvs)
  ELSE [c \in DOMAIN mvs |-> Over(One, Whole(Len(mvs)))]

(***************************************************************************)
(* Properties.                                                             *)
(***************************************************************************)
\* At every column the right half times the covariance matrix is the left half,
\* whose first columns are those of the unit matrix: at the end the right half
\* is the inverse (invert).
InverseGrows ==
  /\ \A r \in 1..k : \A c \in 1..k :
       a[r][c] = SumOf([m \in 1..k |-> Times(a[r][k + m], mat[m][c])])
  /\ \A r \in 1..k : \A c \in 1..(col - 1) : a[r][c] = Unit(r)[c]
  /\ outcome = "inverse" => col = k + 1

\* No other weights that add up to one have a smaller variance than those of
\* min_variance, and none with the return of tangency one smaller than it: the
\* tests try shifts of whole and half units between any two assets.
Shifted(w, up, down, by) == [w EXCEPT ![up] = Plus(@, by), ![down] = Minus(@, by)]

PortfoliosAreBest ==
  outcome = "inverse" =>
    /\ min_variance # <<>> =>
         /\ SumOf(min_variance) = One
         /\ \A up, down \in 1..k : \A by \in {One, <<1, 2>>} :
              up # down => AtMost(Variance(min_variance),
                                  Variance(Shifted(min_variance, up, down, by)))
    /\ tangency # <<>> =>
         /\ SumOf(tangency) = One
         \* The first-order condition: covariance with it is in proportion to
         \* excess return.
         /\ \A c, d \in 1..k :
              Times(mat_vec(mat, tangency)[c], excess[d])
                = Times(mat_vec(mat, tangency)[d], excess[c])

\* The weights of the holdings add up to one, also when none has a value.
WeightsAddUp(mvs) == SumOf(current_weights(mvs)) = One

\* All series compared run over the same days: those on which every ticker with
\* enough closes has one, so that no ticker left out for too few shortens them
\* (aligned_returns).
SeriesAlign(histories) ==
  LET result == aligned_returns(histories)
      long == {j \in DOMAIN histories : Cardinality(histories[j].closes) > MIN_RETURN_SAMPLES}
      shared == {d \in UNION {Days(histories[j].closes) : j \in long} :
                   \A j \in long : d \in Days(histories[j].closes)}
  IN  /\ \A i \in DOMAIN result.closes : Days(result.closes[i]) = shared
      /\ \A i \in DOMAIN result.closes : Cardinality(result.closes[i]) > MIN_RETURN_SAMPLES
      /\ result.tickers # <<>> => Len(result.tickers) = Cardinality(long)
=============================================================================
