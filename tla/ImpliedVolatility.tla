-------------------------- MODULE ImpliedVolatility -------------------------
(***************************************************************************)
(* The analytics of an option contract (models/options.rs) and the solver  *)
(* that finds the volatility its market price implies (black_scholes.rs):  *)
(* Newton's method kept inside a bracket that bisection narrows.           *)
(*                                                                         *)
(* Volatilities are the points 0..Points of a grid, the solver's interval  *)
(* between its tolerance and 5; the price at each is an arbitrary function *)
(* that does not fall, as Black-Scholes prices do not, from the lower      *)
(* bound up; Premiums is the upper bound, which the highest volatility     *)
(* need not reach.  The first guess, a clamped estimate, is any point, and *)
(* so is where Newton's step lands: f64 may answer with no number.         *)
(***************************************************************************)
EXTENDS Integers

CONSTANTS
  Points,             \* the highest point of the grid
  Premiums,           \* the highest premium
  IV_MAX_ITERATIONS,
  None

VARIABLES
  contract,  \* bid, ask, last, implied_volatility, t: years left, and the spot
  priced_at, \* the premium at each volatility
  lo, hi,    \* the bracket
  sigma,     \* the volatility tried next
  rounds,    \* iterations made
  outcome    \* "solving", "found", "did not converge", "no price", "invalid", "out of bounds" or "given"

vars == <<contract, priced_at, lo, hi, sigma, rounds, outcome>>

Sigma == 0..Points

\* contract_market_price: the middle of bid and ask (twice it, to stay with
\* integers), else the last price.
contract_market_price(c) ==
  IF c.bid # None /\ c.ask # None THEN c.bid + c.ask
  ELSE IF c.last # None THEN 2 * c.last ELSE None

Market == contract_market_price(contract)
diff(s) == 2 * priced_at[s] - Market

\* BlackScholesInputs::new refuses what is not above zero.
ValidInputs(c) == c.spot > 0 /\ c.t > 0

\* OptionContract::analytics up to the solver's loop, and the checks before it.
Init ==
  /\ contract \in [bid : {None, 0, 2}, ask : {None, 4}, last : {None, 1, Premiums + 1},
                   iv : {None, 0, 1}, t : {0, 1}, spot : {None, 1}]
  /\ priced_at \in {p \in [Sigma -> 0..Premiums] :
                      \A s \in 1..Points : p[s - 1] <= p[s]}
  /\ lo = 0 /\ hi = Points /\ rounds = 0
  /\ sigma \in Sigma
  /\ outcome =
       IF contract.spot = None THEN "no price"
       ELSE IF contract.iv # None /\ contract.iv > 0
              THEN IF ValidInputs(contract) THEN "given" ELSE "invalid"
       ELSE IF Market = None THEN "no price"
       ELSE IF ~ValidInputs(contract) THEN "invalid"
       ELSE IF Market < 2 * priced_at[0] \/ Market > 2 * Premiums THEN "out of bounds"
       ELSE "solving"

\* The half of the bracket the root lies in.
Bracket(s) ==
  IF diff(s) > 0 THEN hi' = s /\ lo' = lo ELSE lo' = s /\ hi' = hi

\* Mutant: the bracket is not there for Newton's step.
Improved_Unbracketed(next, low, high) ==
  IF next \in Sigma THEN next ELSE (low + high) \div 2

\* Newton's step if it stays strictly inside the bracket, else its middle.
Improved(next, low, high) ==
  IF low < next /\ next < high THEN next ELSE (low + high) \div 2

\* One iteration; next is where Newton's step lands, or beyond the grid when
\* the vega is too small or the quotient no number.
Iterate(next) ==
  /\ outcome = "solving" /\ rounds < IV_MAX_ITERATIONS /\ diff(sigma) # 0
  /\ Bracket(sigma)
  /\ sigma' = Improved(next, lo', hi')
  /\ rounds' = rounds + 1
  /\ UNCHANGED <<contract, priced_at, outcome>>

Converge ==
  /\ outcome = "solving" /\ rounds < IV_MAX_ITERATIONS /\ diff(sigma) = 0
  /\ outcome' = "found"
  /\ UNCHANGED <<contract, priced_at, lo, hi, sigma, rounds>>

GiveUp ==
  /\ outcome = "solving" /\ rounds = IV_MAX_ITERATIONS
  /\ outcome' = "did not converge"
  /\ UNCHANGED <<contract, priced_at, lo, hi, sigma, rounds>>

Next == Converge \/ GiveUp \/ \E next \in -1..(Points + 1) : Iterate(next)

(***************************************************************************)
(* Properties.                                                             *)
(***************************************************************************)
\* A volatility that prices the contract at its market price is never cut off
\* by the bracket, whatever Newton's method does, and the one tried next lies
\* in the bracket (implied_volatility).
RootStaysInBracket ==
  outcome = "solving" =>
    /\ lo <= sigma /\ sigma <= hi
    /\ \A s \in Sigma : diff(s) = 0 => lo <= s /\ s <= hi

\* Every option's figures rest on a positive spot and a contract that has not
\* expired, and a volatility found reproduces the market price.
FiguresAreSound ==
  /\ outcome \in {"given", "found", "solving"} => contract.spot # None /\ contract.t > 0
  /\ outcome = "found" => Market # None /\ 2 * priced_at[sigma] = Market
=============================================================================
