----------------------------- MODULE BlackScholes ---------------------------
(***************************************************************************)
(* The Black-Scholes-Merton price and Greeks of black_scholes.rs.  Roots,  *)
(* exponentials and the normal distribution are left open: inputs carry,   *)
(* with s, k, r, q and sigma, any values of the discounts disc_q and       *)
(* disc_r, of the root of t, of the normal density at d1 (pdf_d1) and of   *)
(* the cumulative distribution at d1 and d2 (n1, n2).  norm_cdf(-x) is     *)
(* 1 - norm_cdf(x): erf takes the sign of x off and puts it back on.       *)
(***************************************************************************)
EXTENDS Integers, Sequences, Fractions

norm_cdf(n, sign) == IF sign > 0 THEN n ELSE Minus(One, n)

Product(s) == LET p[m \in 0..Len(s)] == IF m = 0 THEN One ELSE Times(p[m - 1], s[m])
              IN  p[Len(s)]

Years(i) == Times(i.sqrt_t, i.sqrt_t)
Negative(a) == Minus(Zero, a)

price(i, kind) ==
  LET spot(sign) == Product(<<i.s, i.disc_q, norm_cdf(i.n1, sign)>>)
      strike(sign) == Product(<<i.k, i.disc_r, norm_cdf(i.n2, sign)>>)
  IN  IF kind = "Call" THEN Minus(spot(1), strike(1)) ELSE Minus(strike(-1), spot(-1))

\* Call and put differ in the sign of the terms and of the arguments of
\* norm_cdf; the decay of theta, gamma and vega are theirs in common.
greeks(i, kind) ==
  LET sign == IF kind = "Call" THEN 1 ELSE -1
      decay == Negative(Over(Product(<<i.s, i.disc_q, i.pdf_d1, i.sigma>>),
                             Times(Whole(2), i.sqrt_t)))
      carry == Product(<<i.r, i.k, i.disc_r, norm_cdf(i.n2, sign)>>)
      yield == Product(<<i.q, i.s, i.disc_q, norm_cdf(i.n1, sign)>>)
  IN  [delta |-> Product(<<Whole(sign), i.disc_q, norm_cdf(i.n1, sign)>>),
       gamma |-> Over(Times(i.disc_q, i.pdf_d1), Product(<<i.s, i.sigma, i.sqrt_t>>)),
       vega |-> Product(<<i.s, i.disc_q, i.pdf_d1, i.sqrt_t>>),
       theta |-> Plus(decay, Times(Whole(sign), Minus(yield, carry))),
       rho |-> Product(<<Whole(sign), i.k, Years(i), i.disc_r, norm_cdf(i.n2, sign)>>)]

(***************************************************************************)
(* Properties.                                                             *)
(***************************************************************************)
\* A call less a put is the discounted forward, in the price and in the three
\* Greeks that tell them apart (put-call parity).
Parity(i) ==
  LET call == greeks(i, "Call")
      put == greeks(i, "Put")
      spot == Times(i.s, i.disc_q)
      strike == Times(i.k, i.disc_r)
  IN  /\ Minus(price(i, "Call"), price(i, "Put")) = Minus(spot, strike)
      /\ Minus(call.delta, put.delta) = i.disc_q
      /\ Minus(call.rho, put.rho) = Times(Years(i), strike)
      /\ Minus(call.theta, put.theta) = Minus(Times(i.q, spot), Times(i.r, strike))

\* The Greeks of either kind and its price satisfy the Black-Scholes equation:
\* theta + (r - q) s delta + sigma^2 s^2 gamma / 2 = r price.  A wrong sign or
\* factor in any of the formulas breaks it.
Equation(i, kind) ==
  LET g == greeks(i, kind)
      drift == Product(<<Minus(i.r, i.q), i.s, g.delta>>)
      convexity == Over(Product(<<i.sigma, i.sigma, i.s, i.s, g.gamma>>), Whole(2))
  IN  /\ Plus(g.theta, Plus(drift, convexity)) = Times(i.r, price(i, kind))
      /\ g.vega = Product(<<i.s, i.s, i.sigma, Years(i), g.gamma>>)
=============================================================================
