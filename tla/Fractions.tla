------------------------------ MODULE Fractions -----------------------------
(***************************************************************************)
(* Fractions in lowest terms, <<numerator, positive denominator>>: what the*)
(* formulas of the program compute, without the rounding of its f64.       *)
(***************************************************************************)
EXTENDS Integers, Sequences, Folds

\* Euclid's algorithm: gcd[b][a] divides a and b.
gcd[b \in Nat] == [a \in Nat |-> IF b = 0 THEN a ELSE gcd[a % b][b]]

Magnitude(n) == IF n < 0 THEN -n ELSE n

Reduced(n, d, g) == <<n \div g, d \div g>>

Frac(n, d) ==
  LET s == IF d < 0 THEN -1 ELSE 1
  IN  Reduced(s * n, s * d, gcd[Magnitude(d)][Magnitude(n)])

Whole(n) == <<n, 1>>
Zero == Whole(0)
One == Whole(1)

Plus(a, b) == Frac(a[1] * b[2] + b[1] * a[2], a[2] * b[2])
Minus(a, b) == Frac(a[1] * b[2] - b[1] * a[2], a[2] * b[2])
Times(a, b) == Frac(a[1] * b[1], a[2] * b[2])
Over(a, b) == Frac(a[1] * b[2], a[2] * b[1])
Size(a) == <<Magnitude(a[1]), a[2]>>

Less(a, b) == a[1] * b[2] < b[1] * a[2]
AtMost(a, b) == a[1] * b[2] <= b[1] * a[2]
Least(a, b) == IF Less(b, a) THEN b ELSE a
Greatest(a, b) == IF Less(a, b) THEN b ELSE a

\* The nearest integer of a fraction that is not negative, halves up (f64::round).
Rounded(a) == (2 * a[1] + a[2]) \div (2 * a[2])

\* The sum of the values of a function, of a sequence for one.
SumOf(f) ==
  MapThenFoldSet(Plus, Zero, LAMBDA x : f[x], LAMBDA T : CHOOSE x \in T : TRUE, DOMAIN f)
=============================================================================
