-------------------------- MODULE MathematicsProofs -------------------------
(***************************************************************************)
(* Proofs about options, indicators and portfolios, in the arithmetic of   *)
(* fractions: parity and the equation of Black and Scholes, averages and   *)
(* the strength index, the elimination that inverts the covariance matrix  *)
(* of any number of assets, and the portfolios made from the inverse.  The *)
(* last part is about the live stream of prices.                           *)
(***************************************************************************)
EXTENDS FiguresProofs, MCLiveStream

-----------------------------------------------------------------------------
(***************************************************************************)
(* Options                                                                 *)
(***************************************************************************)
LEMMA UnitLaws ==
  ASSUME NEW f \in Fraction
  PROVE  /\ Times(One, f) = f /\ Times(f, One) = f
         /\ Times(Whole(-1), f) = Minus(Zero, f) /\ Times(Whole(1), f) = f
<1> DEFINE p == f[1]  q == f[2]
<1>1. p \in Int /\ q \in Int \ {0} /\ Is(f, p, q) /\ Is(One, 1, 1) /\ Is(Zero, 0, 1)
      /\ Is(Whole(-1), -1, 1) /\ Whole(1) = One
  <2>1. Is(Whole(-1), -1, 1)
    <3>1. -1 \in Int OBVIOUS
    <3>2. QED BY ONLY <3>1, WholeIs
  <2>2. Whole(1) = One BY DEF One
  <2>3. QED BY <2>1, <2>2, FractionIs, IsOwn, Numbers
<1> HIDE DEF p, q
<1>2. Is(Times(One, f), 1 * p, 1 * q) /\ Is(Times(f, One), p * 1, q * 1)
      /\ Is(Times(Whole(-1), f), (-1) * p, 1 * q) /\ Is(Minus(Zero, f), 0 * q - p * 1, 1 * q)
  BY <1>1, IsTimes, IsPlus
<1>3. (1 * p) * q = p * (1 * q) /\ (p * 1) * q = p * (q * 1)
      /\ ((-1) * p) * (1 * q) = (0 * q - p * 1) * (1 * q)
  BY <1>1
<1>4. QED BY <1>1, <1>2, <1>3, IsSame

LEMMA OptionsGcd == Options!gcd = gcd
BY DEF Options!gcd, gcd

LEMMA OptionsOps ==
  ASSUME NEW a, NEW b
  PROVE  /\ Options!Plus(a, b) = Plus(a, b) /\ Options!Minus(a, b) = Minus(a, b)
         /\ Options!Times(a, b) = Times(a, b) /\ Options!Over(a, b) = Over(a, b)
         /\ Options!Whole(a) = Whole(a) /\ Options!Zero = Zero /\ Options!One = One
<1>1. \A n, d : Options!Frac(n, d) = Frac(n, d)
  BY OptionsGcd DEF Options!Frac, Frac, Options!Reduced, Reduced, Options!Magnitude, Magnitude
<1>2. QED
  BY <1>1 DEF Options!Plus, Plus, Options!Minus, Minus, Options!Times, Times, Options!Over, Over,
              Options!Whole, Whole, Options!Zero, Zero, Options!One, One

\* A product multiplies from the left.
LEMMA ProductExists ==
  ASSUME NEW s \in Seq(Fraction)
  PROVE  \E p \in [0..Len(s) -> Fraction] :
           /\ Options!Product(s) = p[Len(s)] /\ p[0] = One
           /\ \A m \in 1..Len(s) : p[m] = Times(p[m - 1], s[m])
<1> DEFINE n == Len(s)
           Rec(p) == p = [m \in 0..n |-> IF m = 0 THEN Options!One ELSE Options!Times(p[m - 1], s[m])]
           chosen == CHOOSE p : Rec(p)
           F == [i \in 1..n |-> [f \in Fraction |-> Times(f, s[i])]]
<1>1. n \in Nat /\ (\A i \in 1..n : s[i] \in Fraction) /\ One \in Fraction BY SeqIs, Numbers
<1>2. F \in [1..n -> [Fraction -> Fraction]] BY <1>1, FieldTypes
<1>3. PICK p : Follows(p, n, Fraction, One, F)
  <2> HIDE DEF n, F
  <2>1. QED BY <1>1, <1>2, RecursionExists
<1>4. p \in [0..n -> Fraction] /\ p[0] = One /\ \A i \in 1..n : p[i] = F[i][p[i - 1]]
  BY <1>3 DEF Follows
<1>5. ASSUME NEW i \in 1..n PROVE p[i] = Times(p[i - 1], s[i])
  <2>1. i - 1 \in 0..n BY <1>1
  <2>2. p[i - 1] \in Fraction BY <2>1, <1>4
  <2>3. QED BY <2>2, <1>4
<1> HIDE DEF F
<1>6. p = [m \in 0..n |-> IF m = 0 THEN Options!One ELSE Options!Times(p[m - 1], s[m])]
  <2>1. \A m \in 0..n : p[m] = IF m = 0 THEN Options!One ELSE Options!Times(p[m - 1], s[m])
    <3> SUFFICES ASSUME NEW m \in 0..n
                 PROVE  p[m] = IF m = 0 THEN Options!One ELSE Options!Times(p[m - 1], s[m])
      OBVIOUS
    <3>1. m = 0 \/ m \in 1..n BY <1>1
    <3>2. QED BY <3>1, <1>4, <1>5, OptionsOps
  <2>2. QED BY <2>1, <1>4
<1>7. Rec(chosen) BY <1>6
<1> HIDE DEF chosen
<1>8. /\ chosen[0] = One /\ \A m \in 1..n : chosen[m] = Times(chosen[m - 1], s[m])
      /\ chosen = [m \in 0..n |-> chosen[m]]
  <2>1. ASSUME NEW m \in 0..n
        PROVE  chosen[m] = IF m = 0 THEN One ELSE Times(chosen[m - 1], s[m])
    BY <1>7, OptionsOps
  <2>2. 0 \in 0..n /\ \A m \in 1..n : m \in 0..n /\ m # 0 BY <1>1
  <2>3. chosen = [m \in 0..n |-> chosen[m]] BY <1>7
  <2>4. QED BY <2>1, <2>2, <2>3
<1>9. \A m \in 0..n : chosen[m] \in Fraction
  <2> DEFINE Good == {m \in 0..n : chosen[m] \in Fraction}
  <2>1. 0 \in Good BY <1>1, <1>8
  <2>2. ASSUME NEW m \in 1..n, m - 1 \in Good PROVE m \in Good
    <3>1. m \in 0..n BY <1>1
    <3>2. QED BY <3>1, <2>2, <1>1, <1>8, FieldTypes
  <2> HIDE DEF Good
  <2>3. 0..n \subseteq Good BY <2>1, <2>2, <1>1, UptoInduction
  <2>4. QED BY <2>3 DEF Good
<1>10. chosen \in [0..n -> Fraction] BY <1>8, <1>9
<1>11. Options!Product(s) = chosen[n]
  BY DEF Options!Product, chosen
<1>12. QED BY <1>8, <1>10, <1>11

LEMMA ProductOf3 ==
  ASSUME NEW a \in Fraction, NEW b \in Fraction, NEW c \in Fraction
  PROVE  Options!Product(<<a, b, c>>) = Times(Times(a, b), c)
<1> DEFINE s == <<a, b, c>>
<1>0. Times(One, a) = a BY UnitLaws
<1>1. s \in Seq(Fraction) /\ Len(s) = 3 /\ s[1] = a /\ s[2] = b /\ s[3] = c OBVIOUS
<1> HIDE DEF s
<1>2. PICK p \in [0..3 -> Fraction] :
        /\ Options!Product(s) = p[3] /\ p[0] = One
        /\ \A m \in 1..3 : p[m] = Times(p[m - 1], s[m])
  BY <1>1, ProductExists
<1>3. p[1] = Times(p[0], s[1]) /\ p[2] = Times(p[1], s[2]) /\ p[3] = Times(p[2], s[3])
  BY <1>2
<1>4. QED BY <1>0, <1>1, <1>2, <1>3 DEF s

LEMMA ProductOf4 ==
  ASSUME NEW a \in Fraction, NEW b \in Fraction, NEW c \in Fraction, NEW d \in Fraction
  PROVE  Options!Product(<<a, b, c, d>>) = Times(Times(Times(a, b), c), d)
<1> DEFINE s == <<a, b, c, d>>
<1>0. Times(One, a) = a BY UnitLaws
<1>1. s \in Seq(Fraction) /\ Len(s) = 4 /\ s[1] = a /\ s[2] = b /\ s[3] = c /\ s[4] = d OBVIOUS
<1> HIDE DEF s
<1>2. PICK p \in [0..4 -> Fraction] :
        /\ Options!Product(s) = p[4] /\ p[0] = One
        /\ \A m \in 1..4 : p[m] = Times(p[m - 1], s[m])
  BY <1>1, ProductExists
<1>3. /\ p[1] = Times(p[0], s[1]) /\ p[2] = Times(p[1], s[2]) /\ p[3] = Times(p[2], s[3])
      /\ p[4] = Times(p[3], s[4])
  BY <1>2
<1>4. QED BY <1>0, <1>1, <1>2, <1>3 DEF s

LEMMA ProductOf5 ==
  ASSUME NEW a \in Fraction, NEW b \in Fraction, NEW c \in Fraction, NEW d \in Fraction,
         NEW e \in Fraction
  PROVE  Options!Product(<<a, b, c, d, e>>) = Times(Times(Times(Times(a, b), c), d), e)
<1> DEFINE s == <<a, b, c, d, e>>
<1>0. Times(One, a) = a BY UnitLaws
<1>1. /\ s \in Seq(Fraction) /\ Len(s) = 5 /\ s[1] = a /\ s[2] = b /\ s[3] = c /\ s[4] = d
      /\ s[5] = e
  OBVIOUS
<1> HIDE DEF s
<1>2. PICK p \in [0..5 -> Fraction] :
        /\ Options!Product(s) = p[5] /\ p[0] = One
        /\ \A m \in 1..5 : p[m] = Times(p[m - 1], s[m])
  BY <1>1, ProductExists
<1>3. /\ p[1] = Times(p[0], s[1]) /\ p[2] = Times(p[1], s[2]) /\ p[3] = Times(p[2], s[3])
      /\ p[4] = Times(p[3], s[4]) /\ p[5] = Times(p[4], s[5])
  BY <1>2
<1>4. QED BY <1>0, <1>1, <1>2, <1>3 DEF s

\* Over a common denominator sums are sums of numerators.
LEMMA IsTogether ==
  ASSUME NEW f, NEW n, NEW d, Is(f, n, d), NEW g, NEW m, Is(g, m, d)
  PROVE  Is(Plus(f, g), n + m, d) /\ Is(Minus(f, g), n - m, d)
<1>1. n \in Int /\ m \in Int /\ d \in Int \ {0} BY DEF Is
<1>2. Is(Plus(f, g), n * d + m * d, d * d) /\ Is(Minus(f, g), n * d - m * d, d * d) BY IsPlus
<1>3. /\ (n * d + m * d) * d = (n + m) * (d * d) /\ (n * d - m * d) * d = (n - m) * (d * d)
      /\ n + m \in Int /\ n - m \in Int
  BY <1>1
<1>4. QED BY <1>1, <1>2, <1>3, IsScaled

LEMMA SameValue ==
  ASSUME NEW f, NEW g, NEW n, NEW d, Is(f, n, d), Is(g, n, d)
  PROVE  f = g
BY IsSame

\* Five fractions have a common denominator.
OneDenominator(a, b, c, e, f) ==
  \E d \in Int \ {0} : \E k, l, m, n, o \in Int :
    Is(a, k, d) /\ Is(b, l, d) /\ Is(c, m, d) /\ Is(e, n, d) /\ Is(f, o, d)

LEMMA Together ==
  ASSUME NEW a \in Fraction, NEW b \in Fraction, NEW c \in Fraction, NEW e \in Fraction,
         NEW f \in Fraction
  PROVE  OneDenominator(a, b, c, e, f)
<1> DEFINE p == a[1]  q == b[1]  r == c[1]  s == e[1]  t == f[1]
           P == a[2]  Q == b[2]  R == c[2]  S == e[2]  T == f[2]
<1>1. /\ p \in Int /\ q \in Int /\ r \in Int /\ s \in Int /\ t \in Int
      /\ P \in Int \ {0} /\ Q \in Int \ {0} /\ R \in Int \ {0} /\ S \in Int \ {0} /\ T \in Int \ {0}
      /\ Is(a, p, P) /\ Is(b, q, Q) /\ Is(c, r, R) /\ Is(e, s, S) /\ Is(f, t, T)
  BY FractionIs, IsOwn
<1> HIDE DEF p, q, r, s, t, P, Q, R, S, T
<1> DEFINE d == P * Q * R * S * T
           k == p * Q * R * S * T  l == q * P * R * S * T  m == r * P * Q * S * T
           n == s * P * Q * R * T  o == t * P * Q * R * S
<1>2. d \in Int \ {0}
  <2>1. P * Q \in Int \ {0} BY <1>1
  <2>2. (P * Q) * R \in Int \ {0} BY <2>1, <1>1
  <2>3. ((P * Q) * R) * S \in Int \ {0} BY <2>2, <1>1
  <2>4. QED BY <2>3, <1>1
<1>3. k \in Int /\ l \in Int /\ m \in Int /\ n \in Int /\ o \in Int BY <1>1
<1>4. k * P = p * d /\ l * Q = q * d /\ m * R = r * d /\ n * S = s * d /\ o * T = t * d BY <1>1
<1> HIDE DEF d, k, l, m, n, o
<1>5. p * d = k * P /\ q * d = l * Q /\ r * d = m * R /\ s * d = n * S /\ t * d = o * T BY <1>4
<1>6. Is(a, k, d) /\ Is(b, l, d) /\ Is(c, m, d) /\ Is(e, n, d) /\ Is(f, o, d)
  BY <1>1, <1>2, <1>3, <1>5, IsScaled
<1>7. QED BY <1>2, <1>3, <1>6 DEF OneDenominator

\* What parity and the equation come to, once their products are multiplied out.
LEMMA Balance ==
  ASSUME NEW a \in Fraction, NEW b \in Fraction, NEW u \in Fraction, NEW v \in Fraction,
         NEW w \in Fraction
  PROVE  /\ Minus(Minus(u, v), Minus(Minus(b, v), Minus(a, u))) = Minus(a, b)
         /\ Minus(u, Minus(Zero, Minus(a, u))) = a
         /\ Minus(Plus(w, Minus(u, v)), Plus(w, Minus(Zero, Minus(Minus(a, u), Minus(b, v)))))
              = Minus(a, b)
         /\ Plus(Plus(Minus(Zero, w), Minus(u, v)), Plus(Minus(a, u), w)) = Minus(a, v)
         /\ Plus(Plus(Minus(Zero, w), Minus(Zero, Minus(u, v))),
                 Plus(Minus(Zero, Minus(a, u)), w)) = Minus(v, a)
<1>1. PICK d \in Int \ {0} : \E k, l, m, n, o \in Int :
        Is(a, k, d) /\ Is(b, l, d) /\ Is(u, m, d) /\ Is(v, n, d) /\ Is(w, o, d)
  <2>1. a \in Fraction /\ b \in Fraction /\ u \in Fraction /\ v \in Fraction /\ w \in Fraction
    OBVIOUS
  <2>2. OneDenominator(a, b, u, v, w) BY ONLY <2>1, Together
  <2>3. QED BY <2>2 DEF OneDenominator
<1>2. PICK k \in Int, l \in Int, m \in Int, n \in Int, o \in Int :
        Is(a, k, d) /\ Is(b, l, d) /\ Is(u, m, d) /\ Is(v, n, d) /\ Is(w, o, d)
  BY <1>1
<1>z. Is(Zero, 0, d)
  <2>1. 0 * d = 0 * 1 OBVIOUS
  <2>2. QED BY <2>1, Numbers, IsScaled
<1>3. /\ Is(Minus(u, v), m - n, d) /\ Is(Minus(b, v), l - n, d) /\ Is(Minus(a, u), k - m, d)
      /\ Is(Minus(a, b), k - l, d) /\ Is(Minus(a, v), k - n, d) /\ Is(Minus(v, a), n - k, d)
      /\ Is(Minus(Zero, w), 0 - o, d)
  BY <1>2, <1>z, IsTogether
<1>4. /\ Is(Minus(Minus(b, v), Minus(a, u)), (l - n) - (k - m), d)
      /\ Is(Minus(Zero, Minus(a, u)), 0 - (k - m), d)
      /\ Is(Minus(Zero, Minus(u, v)), 0 - (m - n), d)
      /\ Is(Minus(Minus(a, u), Minus(b, v)), (k - m) - (l - n), d)
  BY <1>3, <1>z, IsTogether
<1>5. Minus(Minus(u, v), Minus(Minus(b, v), Minus(a, u))) = Minus(a, b)
  <2>1. Is(Minus(Minus(u, v), Minus(Minus(b, v), Minus(a, u))), (m - n) - ((l - n) - (k - m)), d)
    BY <1>3, <1>4, IsTogether
  <2>2. (m - n) - ((l - n) - (k - m)) = k - l OBVIOUS
  <2>3. QED BY <2>1, <2>2, <1>3, SameValue
<1>6. Minus(u, Minus(Zero, Minus(a, u))) = a
  <2>1. Is(Minus(u, Minus(Zero, Minus(a, u))), m - (0 - (k - m)), d) BY <1>2, <1>4, IsTogether
  <2>2. m - (0 - (k - m)) = k OBVIOUS
  <2>3. QED BY <2>1, <2>2, <1>2, SameValue
<1>7. Minus(Plus(w, Minus(u, v)), Plus(w, Minus(Zero, Minus(Minus(a, u), Minus(b, v)))))
        = Minus(a, b)
  <2>1. Is(Minus(Zero, Minus(Minus(a, u), Minus(b, v))), 0 - ((k - m) - (l - n)), d)
    BY <1>z, <1>4, IsTogether
  <2>2. /\ Is(Plus(w, Minus(u, v)), o + (m - n), d)
        /\ Is(Plus(w, Minus(Zero, Minus(Minus(a, u), Minus(b, v)))), o + (0 - ((k - m) - (l - n))), d)
    BY <2>1, <1>2, <1>3, IsTogether
  <2>3. Is(Minus(Plus(w, Minus(u, v)), Plus(w, Minus(Zero, Minus(Minus(a, u), Minus(b, v))))),
           (o + (m - n)) - (o + (0 - ((k - m) - (l - n)))), d)
    BY <2>2, IsTogether
  <2>4. (o + (m - n)) - (o + (0 - ((k - m) - (l - n)))) = k - l OBVIOUS
  <2>5. QED BY <2>3, <2>4, <1>3, SameValue
<1>8. Plus(Plus(Minus(Zero, w), Minus(u, v)), Plus(Minus(a, u), w)) = Minus(a, v)
  <2>1. /\ Is(Plus(Minus(Zero, w), Minus(u, v)), (0 - o) + (m - n), d)
        /\ Is(Plus(Minus(a, u), w), (k - m) + o, d)
    BY <1>2, <1>3, IsTogether
  <2>2. Is(Plus(Plus(Minus(Zero, w), Minus(u, v)), Plus(Minus(a, u), w)),
           ((0 - o) + (m - n)) + ((k - m) + o), d)
    BY <2>1, IsTogether
  <2>3. ((0 - o) + (m - n)) + ((k - m) + o) = k - n OBVIOUS
  <2>4. QED BY <2>2, <2>3, <1>3, SameValue
<1>9. Plus(Plus(Minus(Zero, w), Minus(Zero, Minus(u, v))), Plus(Minus(Zero, Minus(a, u)), w))
        = Minus(v, a)
  <2>1. /\ Is(Plus(Minus(Zero, w), Minus(Zero, Minus(u, v))), (0 - o) + (0 - (m - n)), d)
        /\ Is(Plus(Minus(Zero, Minus(a, u)), w), (0 - (k - m)) + o, d)
    BY <1>2, <1>3, <1>4, IsTogether
  <2>2. Is(Plus(Plus(Minus(Zero, w), Minus(Zero, Minus(u, v))), Plus(Minus(Zero, Minus(a, u)), w)),
           ((0 - o) + (0 - (m - n))) + ((0 - (k - m)) + o), d)
    BY <2>1, IsTogether
  <2>3. ((0 - o) + (0 - (m - n))) + ((0 - (k - m)) + o) = n - k OBVIOUS
  <2>4. QED BY <2>2, <2>3, <1>3, SameValue
<1>10. QED BY <1>5, <1>6, <1>7, <1>8, <1>9

\* A factor less than one by x takes x times the rest away.
LEMMA Complement ==
  ASSUME NEW a \in Fraction, NEW x \in Fraction
  PROVE  Times(a, Minus(One, x)) = Minus(a, Times(a, x))
BY TimesLaws, UnitLaws, Numbers

\* Products in another order.
LEMMA Shuffles ==
  ASSUME NEW a \in Fraction, NEW b \in Fraction, NEW c \in Fraction, NEW e \in Fraction
  PROVE  /\ Times(Times(Times(a, b), c), e) = Times(a, Times(b, Times(c, e)))
         /\ Times(Times(a, b), Times(c, e)) = Times(Times(Times(b, c), e), a)
         /\ Times(Times(Times(Times(Times(a, a), b), b), c), e)
              = Times(Times(a, b), Times(c, Times(Times(b, a), e)))
         /\ Times(Times(Times(Times(b, b), a), Times(e, e)), c)
              = Times(Times(b, e), Times(c, Times(Times(b, a), e)))
         /\ Times(Times(a, b), Times(c, e)) = Times(Times(Times(a, c), e), b)
<1> DEFINE p == a[1]  q == a[2]  r == b[1]  s == b[2]  u == c[1]  v == c[2]  x == e[1]  y == e[2]
<1>1. /\ p \in Int /\ q \in Int /\ r \in Int /\ s \in Int /\ u \in Int /\ v \in Int
      /\ x \in Int /\ y \in Int
      /\ Is(a, p, q) /\ Is(b, r, s) /\ Is(c, u, v) /\ Is(e, x, y)
  BY FractionIs, IsOwn
<1> HIDE DEF p, q, r, s, u, v, x, y
<1>2. /\ Is(Times(a, b), p * r, q * s) /\ Is(Times(c, e), u * x, v * y)
      /\ Is(Times(b, c), r * u, s * v) /\ Is(Times(a, a), p * p, q * q)
      /\ Is(Times(b, a), r * p, s * q) /\ Is(Times(b, b), r * r, s * s)
      /\ Is(Times(e, e), x * x, y * y) /\ Is(Times(b, e), r * x, s * y)
      /\ Is(Times(a, c), p * u, q * v)
  BY <1>1, IsTimes
<1>3. /\ Is(Times(Times(a, b), c), (p * r) * u, (q * s) * v)
      /\ Is(Times(b, Times(c, e)), r * (u * x), s * (v * y))
      /\ Is(Times(Times(b, c), e), (r * u) * x, (s * v) * y)
      /\ Is(Times(Times(a, c), e), (p * u) * x, (q * v) * y)
      /\ Is(Times(Times(a, a), b), (p * p) * r, (q * q) * s)
      /\ Is(Times(Times(b, a), e), (r * p) * x, (s * q) * y)
      /\ Is(Times(Times(b, b), a), (r * r) * p, (s * s) * q)
  BY <1>1, <1>2, IsTimes
<1>4. /\ Is(Times(Times(Times(a, a), b), b), ((p * p) * r) * r, ((q * q) * s) * s)
      /\ Is(Times(c, Times(Times(b, a), e)), u * ((r * p) * x), v * ((s * q) * y))
      /\ Is(Times(Times(Times(b, b), a), Times(e, e)), ((r * r) * p) * (x * x), ((s * s) * q) * (y * y))
  BY <1>1, <1>2, <1>3, IsTimes
<1>5. Times(Times(Times(a, b), c), e) = Times(a, Times(b, Times(c, e)))
  <2>1. /\ Is(Times(Times(Times(a, b), c), e), ((p * r) * u) * x, ((q * s) * v) * y)
        /\ Is(Times(a, Times(b, Times(c, e))), p * (r * (u * x)), q * (s * (v * y)))
    BY <1>1, <1>3, IsTimes
  <2>2. ((p * r) * u) * x = p * (r * (u * x)) /\ ((q * s) * v) * y = q * (s * (v * y)) BY <1>1
  <2>3. QED BY <2>1, <2>2, SameValue
<1>6. Times(Times(a, b), Times(c, e)) = Times(Times(Times(b, c), e), a)
  <2>1. /\ Is(Times(Times(a, b), Times(c, e)), (p * r) * (u * x), (q * s) * (v * y))
        /\ Is(Times(Times(Times(b, c), e), a), ((r * u) * x) * p, ((s * v) * y) * q)
    BY <1>1, <1>2, <1>3, IsTimes
  <2>2. (p * r) * (u * x) = ((r * u) * x) * p /\ (q * s) * (v * y) = ((s * v) * y) * q BY <1>1
  <2>3. QED BY <2>1, <2>2, SameValue
<1>7. Times(Times(Times(Times(Times(a, a), b), b), c), e)
        = Times(Times(a, b), Times(c, Times(Times(b, a), e)))
  <2>1. Is(Times(Times(Times(Times(a, a), b), b), c), (((p * p) * r) * r) * u, (((q * q) * s) * s) * v)
    BY <1>1, <1>4, IsTimes
  <2>2. /\ Is(Times(Times(Times(Times(Times(a, a), b), b), c), e),
              ((((p * p) * r) * r) * u) * x, ((((q * q) * s) * s) * v) * y)
        /\ Is(Times(Times(a, b), Times(c, Times(Times(b, a), e))),
              (p * r) * (u * ((r * p) * x)), (q * s) * (v * ((s * q) * y)))
    BY <1>1, <1>2, <1>4, <2>1, IsTimes
  <2>3. /\ ((((p * p) * r) * r) * u) * x = (p * r) * (u * ((r * p) * x))
        /\ ((((q * q) * s) * s) * v) * y = (q * s) * (v * ((s * q) * y))
    BY <1>1
  <2>4. QED BY <2>2, <2>3, SameValue
<1>8. Times(Times(Times(Times(b, b), a), Times(e, e)), c)
        = Times(Times(b, e), Times(c, Times(Times(b, a), e)))
  <2>1. /\ Is(Times(Times(Times(Times(b, b), a), Times(e, e)), c),
              (((r * r) * p) * (x * x)) * u, (((s * s) * q) * (y * y)) * v)
        /\ Is(Times(Times(b, e), Times(c, Times(Times(b, a), e))),
              (r * x) * (u * ((r * p) * x)), (s * y) * (v * ((s * q) * y)))
    BY <1>1, <1>2, <1>4, IsTimes
  <2>2. /\ (((r * r) * p) * (x * x)) * u = (r * x) * (u * ((r * p) * x))
        /\ (((s * s) * q) * (y * y)) * v = (s * y) * (v * ((s * q) * y))
    BY <1>1
  <2>3. QED BY <2>1, <2>2, SameValue
<1>9. Times(Times(a, b), Times(c, e)) = Times(Times(Times(a, c), e), b)
  <2>1. /\ Is(Times(Times(a, b), Times(c, e)), (p * r) * (u * x), (q * s) * (v * y))
        /\ Is(Times(Times(Times(a, c), e), b), ((p * u) * x) * r, ((q * v) * y) * s)
    BY <1>1, <1>2, <1>3, IsTimes
  <2>2. (p * r) * (u * x) = ((p * u) * x) * r /\ (q * s) * (v * y) = ((q * v) * y) * s BY <1>1
  <2>3. QED BY <2>1, <2>2, SameValue
<1>10. QED BY <1>5, <1>6, <1>7, <1>8, <1>9

\* A product of four grouped from the right.
LEMMA Regroup ==
  ASSUME NEW a \in Fraction, NEW b \in Fraction, NEW c \in Fraction, NEW e \in Fraction
  PROVE  Times(Times(Times(a, b), c), e) = Times(a, Times(b, Times(c, e)))
<1>1. Times(c, e) \in Fraction /\ Times(a, b) \in Fraction BY FieldTypes
<1>2. Times(Times(Times(a, b), c), e) = Times(Times(a, b), Times(c, e)) BY <1>1, TimesLaws
<1>3. Times(Times(a, b), Times(c, e)) = Times(a, Times(b, Times(c, e))) BY <1>1, TimesLaws
<1>4. QED BY <1>2, <1>3

\* What multiplied by g is f is f over g; a product is zero with a factor only.
LEMMA OverIs ==
  ASSUME NEW f \in Fraction, NEW g \in Fraction, NEW h \in Fraction, g # Zero, Times(h, g) = f
  PROVE  h = Over(f, g)
<1> DEFINE p == f[1]  q == f[2]  r == g[1]  s == g[2]  u == h[1]  v == h[2]
<1>1. /\ p \in Int /\ q \in Int \ {0} /\ r \in Int \ {0} /\ s \in Int \ {0} /\ u \in Int
      /\ v \in Int \ {0} /\ Is(f, p, q) /\ Is(g, r, s) /\ Is(h, u, v)
  <2>1. g[1] # 0 BY FieldTypes
  <2>2. QED BY <2>1, FractionIs, IsOwn
<1> HIDE DEF p, q, r, s, u, v
<1>2. Is(Times(h, g), u * r, v * s) BY <1>1, IsTimes
<1>3. Is(Over(Times(h, g), g), (u * r) * s, (v * s) * r) BY <1>1, <1>2, IsTimes
<1>4. ((u * r) * s) * v = u * ((v * s) * r) BY <1>1
<1>5. QED BY <1>1, <1>3, <1>4, IsSame

LEMMA ProductZero ==
  ASSUME NEW f \in Fraction, NEW g \in Fraction, f # Zero, g # Zero
  PROVE  Times(f, g) # Zero
<1> DEFINE p == f[1]  q == f[2]  r == g[1]  s == g[2]
<1>1. /\ p \in Int \ {0} /\ q \in Int \ {0} /\ r \in Int \ {0} /\ s \in Int \ {0}
      /\ Is(f, p, q) /\ Is(g, r, s)
  <2>1. f[1] # 0 /\ g[1] # 0 BY FieldTypes
  <2>2. QED BY <2>1, FractionIs, IsOwn
<1> HIDE DEF p, q, r, s
<1>2. Is(Times(f, g), p * r, q * s) BY <1>1, IsTimes
<1>3. p * r # 0 BY <1>1
<1>4. SUFFICES ASSUME Times(f, g) = Zero PROVE FALSE OBVIOUS
<1>5. Is(Zero, p * r, q * s) BY <1>2, <1>4
<1>6. Zero[1] = 0 /\ Zero[2] = 1 BY DEF Zero, Whole
<1>7. 0 * (q * s) = (p * r) * 1 BY <1>5, <1>6 DEF Is
<1>8. QED BY <1>1, <1>3, <1>7

\* What the formulas of a contract are given: fractions, of which the price of
\* the stock, the volatility and the root of the time are not zero.
Terms ==
  {i \in [s : Fraction, k : Fraction, sqrt_t : Fraction, r : Fraction, q : Fraction,
          sigma : Fraction, disc_q : Fraction, disc_r : Fraction, pdf_d1 : Fraction,
          n1 : Fraction, n2 : Fraction] :
     i.s # Zero /\ i.sigma # Zero /\ i.sqrt_t # Zero}

LEMMA TermsAre ==
  ASSUME NEW i \in Terms
  PROVE  /\ i.s \in Fraction /\ i.k \in Fraction /\ i.sqrt_t \in Fraction /\ i.r \in Fraction
         /\ i.q \in Fraction /\ i.sigma \in Fraction /\ i.disc_q \in Fraction
         /\ i.disc_r \in Fraction /\ i.pdf_d1 \in Fraction /\ i.n1 \in Fraction /\ i.n2 \in Fraction
         /\ i.s # Zero /\ i.sigma # Zero /\ i.sqrt_t # Zero
BY DEF Terms

\* What is discounted: the spot, the strike, and what they yield and cost.
Spot(i, n) == Times(i.s, Times(i.disc_q, n))
Strike(i, n) == Times(i.k, Times(i.disc_r, n))
Decay(i) == Over(Times(Times(Times(i.s, i.disc_q), i.pdf_d1), i.sigma), Times(Whole(2), i.sqrt_t))

LEMMA TermTypes ==
  ASSUME NEW i \in Terms, NEW n \in Fraction
  PROVE  /\ Spot(i, n) \in Fraction /\ Strike(i, n) \in Fraction
         /\ Times(i.q, Spot(i, n)) \in Fraction /\ Times(i.r, Spot(i, n)) \in Fraction
         /\ Times(i.r, Strike(i, n)) \in Fraction
         /\ Times(Whole(2), i.sqrt_t) \in Fraction \ {Zero} /\ Decay(i) \in Fraction
         /\ Times(i.disc_q, n) \in Fraction /\ Minus(One, n) \in Fraction
<1>1. Times(i.disc_q, n) \in Fraction /\ Times(i.disc_r, n) \in Fraction
      /\ Minus(One, n) \in Fraction
  BY TermsAre, FieldTypes, Numbers
<1>2. Spot(i, n) \in Fraction /\ Strike(i, n) \in Fraction
  BY <1>1, TermsAre, FieldTypes DEF Spot, Strike
<1>3. Whole(2) \in Fraction /\ Whole(2) # Zero
  <2>1. 2 \in Int OBVIOUS
  <2>2. QED BY <2>1, WholeIs DEF Zero, Whole
<1>4. Times(Whole(2), i.sqrt_t) \in Fraction \ {Zero}
  BY <1>3, TermsAre, FieldTypes, ProductZero
<1>5. Times(Times(Times(i.s, i.disc_q), i.pdf_d1), i.sigma) \in Fraction
  BY TermsAre, FieldTypes
<1>6. Decay(i) \in Fraction BY <1>4, <1>5, FieldTypes DEF Decay
<1>7. QED BY <1>1, <1>2, <1>4, <1>6, TermsAre, FieldTypes

LEMMA PriceIs ==
  ASSUME NEW i \in Terms
  PROVE  /\ Options!price(i, "Call") = Minus(Spot(i, i.n1), Strike(i, i.n2))
         /\ Options!price(i, "Put")
              = Minus(Strike(i, Minus(One, i.n2)), Spot(i, Minus(One, i.n1)))
<1>1. \A n \in Fraction : Options!norm_cdf(n, 1) = n /\ Options!norm_cdf(n, -1) = Minus(One, n)
  BY OptionsOps DEF Options!norm_cdf
<1>2. ASSUME NEW n \in Fraction
      PROVE  /\ Options!Product(<<i.s, i.disc_q, n>>) = Spot(i, n)
             /\ Options!Product(<<i.k, i.disc_r, n>>) = Strike(i, n)
  <2>1. /\ i.s \in Fraction /\ i.disc_q \in Fraction /\ i.k \in Fraction /\ i.disc_r \in Fraction
    BY TermsAre
  <2>2. /\ Options!Product(<<i.s, i.disc_q, n>>) = Times(Times(i.s, i.disc_q), n)
        /\ Options!Product(<<i.k, i.disc_r, n>>) = Times(Times(i.k, i.disc_r), n)
    BY <2>1, ProductOf3
  <2>3. QED BY <2>1, <2>2, TimesLaws DEF Spot, Strike
<1>3. i.n1 \in Fraction /\ i.n2 \in Fraction /\ Minus(One, i.n1) \in Fraction
      /\ Minus(One, i.n2) \in Fraction
  BY TermsAre, TermTypes
<1>4. /\ Options!price(i, "Call")
           = Options!Minus(Options!Product(<<i.s, i.disc_q, Options!norm_cdf(i.n1, 1)>>),
                           Options!Product(<<i.k, i.disc_r, Options!norm_cdf(i.n2, 1)>>))
      /\ Options!price(i, "Put")
           = Options!Minus(Options!Product(<<i.k, i.disc_r, Options!norm_cdf(i.n2, -1)>>),
                           Options!Product(<<i.s, i.disc_q, Options!norm_cdf(i.n1, -1)>>))
  BY DEF Options!price
<1>5. /\ Options!norm_cdf(i.n1, 1) = i.n1 /\ Options!norm_cdf(i.n2, 1) = i.n2
      /\ Options!norm_cdf(i.n1, -1) = Minus(One, i.n1)
      /\ Options!norm_cdf(i.n2, -1) = Minus(One, i.n2)
  BY ONLY <1>1, <1>3
<1>6. /\ Options!Product(<<i.s, i.disc_q, i.n1>>) = Spot(i, i.n1)
      /\ Options!Product(<<i.k, i.disc_r, i.n2>>) = Strike(i, i.n2)
      /\ Options!Product(<<i.k, i.disc_r, Minus(One, i.n2)>>) = Strike(i, Minus(One, i.n2))
      /\ Options!Product(<<i.s, i.disc_q, Minus(One, i.n1)>>) = Spot(i, Minus(One, i.n1))
  BY ONLY <1>2, <1>3
<1>7. \A a, b : Options!Minus(a, b) = Minus(a, b) BY OptionsOps
<1>8. QED BY ONLY <1>4, <1>5, <1>6, <1>7

LEMMA GreeksAre ==
  ASSUME NEW i \in Terms
  PROVE  /\ Options!greeks(i, "Call").delta = Times(i.disc_q, i.n1)
         /\ Options!greeks(i, "Put").delta = Minus(Zero, Times(i.disc_q, Minus(One, i.n1)))
         /\ Options!greeks(i, "Call").theta
              = Plus(Minus(Zero, Decay(i)),
                     Minus(Times(i.q, Spot(i, i.n1)), Times(i.r, Strike(i, i.n2))))
         /\ Options!greeks(i, "Put").theta
              = Plus(Minus(Zero, Decay(i)),
                     Minus(Zero, Minus(Times(i.q, Spot(i, Minus(One, i.n1))),
                                       Times(i.r, Strike(i, Minus(One, i.n2))))))
         /\ Options!greeks(i, "Call").rho
              = Times(Times(i.sqrt_t, i.sqrt_t), Strike(i, i.n2))
         /\ Options!greeks(i, "Put").rho
              = Minus(Zero, Times(Times(i.sqrt_t, i.sqrt_t), Strike(i, Minus(One, i.n2))))
<1> DEFINE y == Times(i.sqrt_t, i.sqrt_t)  m1 == Minus(One, i.n1)  m2 == Minus(One, i.n2)
<1>1. \A n \in Fraction : Options!norm_cdf(n, 1) = n /\ Options!norm_cdf(n, -1) = Minus(One, n)
  BY OptionsOps DEF Options!norm_cdf
<1>2. /\ i.n1 \in Fraction /\ i.n2 \in Fraction /\ m1 \in Fraction /\ m2 \in Fraction
      /\ y \in Fraction
  BY TermsAre, TermTypes, FieldTypes
<1>3. Whole(1) \in Fraction /\ Whole(-1) \in Fraction
  <2>1. 1 \in Int /\ -1 \in Int OBVIOUS
  <2>2. QED BY ONLY <2>1, WholeIs
<1>4. ASSUME NEW n \in Fraction
      PROVE  /\ Options!Product(<<i.q, i.s, i.disc_q, n>>) = Times(i.q, Spot(i, n))
             /\ Options!Product(<<i.r, i.k, i.disc_r, n>>) = Times(i.r, Strike(i, n))
  <2>1. /\ i.s \in Fraction /\ i.disc_q \in Fraction /\ i.k \in Fraction /\ i.disc_r \in Fraction
        /\ i.q \in Fraction /\ i.r \in Fraction
    BY TermsAre
  <2>2. /\ Options!Product(<<i.q, i.s, i.disc_q, n>>) = Times(Times(Times(i.q, i.s), i.disc_q), n)
        /\ Options!Product(<<i.r, i.k, i.disc_r, n>>) = Times(Times(Times(i.r, i.k), i.disc_r), n)
    BY <2>1, ProductOf4
  <2>3. /\ Times(Times(Times(i.q, i.s), i.disc_q), n) = Times(i.q, Spot(i, n))
        /\ Times(Times(Times(i.r, i.k), i.disc_r), n) = Times(i.r, Strike(i, n))
    <3>1. n \in Fraction OBVIOUS
    <3>a. i.q \in Fraction /\ i.s \in Fraction /\ i.disc_q \in Fraction BY <2>1
    <3>b. i.r \in Fraction /\ i.k \in Fraction /\ i.disc_r \in Fraction BY <2>1
    <3>2. Times(Times(Times(i.q, i.s), i.disc_q), n) = Times(i.q, Times(i.s, Times(i.disc_q, n)))
      BY ONLY <3>a, <3>1, Regroup
    <3>3. Times(Times(Times(i.r, i.k), i.disc_r), n) = Times(i.r, Times(i.k, Times(i.disc_r, n)))
      BY ONLY <3>b, <3>1, Regroup
    <3>4. QED BY <3>2, <3>3 DEF Spot, Strike
  <2>4. QED BY <2>2, <2>3
<1>5. ASSUME NEW n \in Fraction, NEW u \in {1, -1}
      PROVE  /\ Options!Product(<<Whole(u), i.disc_q, n>>) = Times(Whole(u), Times(i.disc_q, n))
             /\ Options!Product(<<Whole(u), i.k, y, i.disc_r, n>>)
                  = Times(Whole(u), Times(y, Strike(i, n)))
  <2>0. i.disc_q \in Fraction /\ i.k \in Fraction /\ i.disc_r \in Fraction BY TermsAre
  <2>1. Whole(u) \in Fraction BY <1>3
  <2>2. Options!Product(<<Whole(u), i.disc_q, n>>) = Times(Whole(u), Times(i.disc_q, n))
    <3>1. Options!Product(<<Whole(u), i.disc_q, n>>) = Times(Times(Whole(u), i.disc_q), n)
      BY <2>0, <2>1, ProductOf3
    <3>2. QED BY <3>1, <2>0, <2>1, TimesLaws
  <2>3. Options!Product(<<Whole(u), i.k, y, i.disc_r, n>>)
          = Times(Times(Times(Times(Whole(u), i.k), y), i.disc_r), n)
    <3> HIDE DEF y
    <3>1. QED BY <2>0, <2>1, <1>2, ProductOf5
  <2>4. Times(Times(Times(Times(Whole(u), i.k), y), i.disc_r), n)
          = Times(Times(Whole(u), i.k), Times(y, Times(i.disc_r, n)))
    <3>1. Times(Whole(u), i.k) \in Fraction BY <2>1, TermsAre, FieldTypes
    <3> DEFINE w == Times(Whole(u), i.k)
    <3> HIDE DEF w, y
    <3>2. w \in Fraction BY <3>1 DEF w
    <3>3. y \in Fraction /\ i.disc_r \in Fraction /\ n \in Fraction BY <2>0, <1>2 
    <3>4. Times(Times(Times(w, y), i.disc_r), n) = Times(w, Times(y, Times(i.disc_r, n)))
      BY ONLY <3>2, <3>3, Regroup
    <3>5. QED BY <3>4 DEF w
  <2>5. Times(i.disc_r, n) \in Fraction BY TermsAre, FieldTypes
  <2>6. Times(y, Times(i.disc_r, n)) \in Fraction BY <2>5, <1>2, FieldTypes
  <2>7. Times(Times(Whole(u), i.k), Times(y, Times(i.disc_r, n)))
          = Times(Whole(u), Times(i.k, Times(y, Times(i.disc_r, n))))
    BY <2>1, <2>6, TermsAre, TimesLaws
  <2>8. Times(i.k, Times(y, Times(i.disc_r, n))) = Times(y, Times(i.k, Times(i.disc_r, n)))
    <3>1. Times(i.k, Times(y, Times(i.disc_r, n))) = Times(Times(i.k, y), Times(i.disc_r, n))
      BY <2>5, <1>2, TermsAre, TimesLaws
    <3>2. Times(i.k, y) = Times(y, i.k) BY <1>2, TermsAre, TimesLaws
    <3>3. Times(Times(y, i.k), Times(i.disc_r, n)) = Times(y, Times(i.k, Times(i.disc_r, n)))
      BY <2>5, <1>2, TermsAre, TimesLaws
    <3>4. QED BY <3>1, <3>2, <3>3
  <2>9. QED BY <2>2, <2>3, <2>4, <2>7, <2>8 DEF Strike
<1>6. Options!Negative(Options!Over(Options!Product(<<i.s, i.disc_q, i.pdf_d1, i.sigma>>),
                                    Options!Times(Options!Whole(2), i.sqrt_t)))
        = Minus(Zero, Decay(i))
  <2>1. Options!Product(<<i.s, i.disc_q, i.pdf_d1, i.sigma>>)
          = Times(Times(Times(i.s, i.disc_q), i.pdf_d1), i.sigma)
    <3>1. i.s \in Fraction /\ i.disc_q \in Fraction /\ i.pdf_d1 \in Fraction /\ i.sigma \in Fraction
      BY TermsAre
    <3>2. QED BY <3>1, ProductOf4
  <2>2. QED BY <2>1, OptionsOps DEF Options!Negative, Decay
<1>7. ASSUME NEW f \in Fraction
      PROVE  Times(Whole(1), f) = f /\ Times(Whole(-1), f) = Minus(Zero, f)
  BY UnitLaws
<1>8. /\ Times(i.disc_q, i.n1) \in Fraction /\ Times(i.disc_q, m1) \in Fraction
      /\ Times(y, Strike(i, i.n2)) \in Fraction /\ Times(y, Strike(i, m2)) \in Fraction
      /\ Minus(Times(i.q, Spot(i, i.n1)), Times(i.r, Strike(i, i.n2))) \in Fraction
      /\ Minus(Times(i.q, Spot(i, m1)), Times(i.r, Strike(i, m2))) \in Fraction
  <2>1. ASSUME NEW n \in Fraction, NEW m \in Fraction
        PROVE  /\ Times(i.disc_q, n) \in Fraction /\ Times(y, Strike(i, n)) \in Fraction
               /\ Minus(Times(i.q, Spot(i, m)), Times(i.r, Strike(i, n))) \in Fraction
    BY <1>2, TermTypes, FieldTypes
  <2>2. QED BY <2>1, <1>2
<1>9. Options!Years(i) = y BY OptionsOps DEF Options!Years
<1> HIDE DEF y, m1, m2
<1>10. /\ Options!norm_cdf(i.n1, 1) = i.n1 /\ Options!norm_cdf(i.n2, 1) = i.n2
       /\ Options!norm_cdf(i.n1, -1) = m1 /\ Options!norm_cdf(i.n2, -1) = m2
  BY <1>1, <1>2 DEF m1, m2
<1>11. /\ Options!greeks(i, "Call").delta
            = Options!Product(<<Options!Whole(1), i.disc_q, Options!norm_cdf(i.n1, 1)>>)
       /\ Options!greeks(i, "Put").delta
            = Options!Product(<<Options!Whole(-1), i.disc_q, Options!norm_cdf(i.n1, -1)>>)
       /\ Options!greeks(i, "Call").rho
            = Options!Product(<<Options!Whole(1), i.k, Options!Years(i), i.disc_r,
                                Options!norm_cdf(i.n2, 1)>>)
       /\ Options!greeks(i, "Put").rho
            = Options!Product(<<Options!Whole(-1), i.k, Options!Years(i), i.disc_r,
                                Options!norm_cdf(i.n2, -1)>>)
  BY DEF Options!greeks
<1>12. /\ Options!greeks(i, "Call").theta
            = Options!Plus(
                Options!Negative(Options!Over(
                  Options!Product(<<i.s, i.disc_q, i.pdf_d1, i.sigma>>),
                  Options!Times(Options!Whole(2), i.sqrt_t))),
                Options!Times(Options!Whole(1), Options!Minus(
                  Options!Product(<<i.q, i.s, i.disc_q, Options!norm_cdf(i.n1, 1)>>),
                  Options!Product(<<i.r, i.k, i.disc_r, Options!norm_cdf(i.n2, 1)>>))))
       /\ Options!greeks(i, "Put").theta
            = Options!Plus(
                Options!Negative(Options!Over(
                  Options!Product(<<i.s, i.disc_q, i.pdf_d1, i.sigma>>),
                  Options!Times(Options!Whole(2), i.sqrt_t))),
                Options!Times(Options!Whole(-1), Options!Minus(
                  Options!Product(<<i.q, i.s, i.disc_q, Options!norm_cdf(i.n1, -1)>>),
                  Options!Product(<<i.r, i.k, i.disc_r, Options!norm_cdf(i.n2, -1)>>))))
  BY DEF Options!greeks
<1>13. 1 \in {1, -1} /\ -1 \in {1, -1} OBVIOUS
<1>14. /\ Options!greeks(i, "Call").delta = Times(i.disc_q, i.n1)
       /\ Options!greeks(i, "Put").delta = Minus(Zero, Times(i.disc_q, m1))
  <2>1. /\ Options!Product(<<Whole(1), i.disc_q, i.n1>>) = Times(Whole(1), Times(i.disc_q, i.n1))
        /\ Options!Product(<<Whole(-1), i.disc_q, m1>>) = Times(Whole(-1), Times(i.disc_q, m1))
    BY <1>2, <1>5, <1>13
  <2>2. QED BY <2>1, <1>7, <1>8, <1>10, <1>11, OptionsOps
<1>15. /\ Options!greeks(i, "Call").rho = Times(y, Strike(i, i.n2))
       /\ Options!greeks(i, "Put").rho = Minus(Zero, Times(y, Strike(i, m2)))
  <2>1. /\ Options!Product(<<Whole(1), i.k, y, i.disc_r, i.n2>>)
             = Times(Whole(1), Times(y, Strike(i, i.n2)))
        /\ Options!Product(<<Whole(-1), i.k, y, i.disc_r, m2>>)
             = Times(Whole(-1), Times(y, Strike(i, m2)))
    BY <1>2, <1>5, <1>13
  <2>2. QED BY <2>1, <1>7, <1>8, <1>9, <1>10, <1>11, OptionsOps
<1>16. /\ Options!greeks(i, "Call").theta
            = Plus(Minus(Zero, Decay(i)),
                   Minus(Times(i.q, Spot(i, i.n1)), Times(i.r, Strike(i, i.n2))))
       /\ Options!greeks(i, "Put").theta
            = Plus(Minus(Zero, Decay(i)),
                   Minus(Zero, Minus(Times(i.q, Spot(i, m1)), Times(i.r, Strike(i, m2)))))
  <2>1. /\ Options!Product(<<i.q, i.s, i.disc_q, i.n1>>) = Times(i.q, Spot(i, i.n1))
        /\ Options!Product(<<i.r, i.k, i.disc_r, i.n2>>) = Times(i.r, Strike(i, i.n2))
        /\ Options!Product(<<i.q, i.s, i.disc_q, m1>>) = Times(i.q, Spot(i, m1))
        /\ Options!Product(<<i.r, i.k, i.disc_r, m2>>) = Times(i.r, Strike(i, m2))
    BY <1>2, <1>4
  <2>2. /\ Times(Whole(1), Minus(Times(i.q, Spot(i, i.n1)), Times(i.r, Strike(i, i.n2))))
             = Minus(Times(i.q, Spot(i, i.n1)), Times(i.r, Strike(i, i.n2)))
        /\ Times(Whole(-1), Minus(Times(i.q, Spot(i, m1)), Times(i.r, Strike(i, m2))))
             = Minus(Zero, Minus(Times(i.q, Spot(i, m1)), Times(i.r, Strike(i, m2))))
    BY <1>7, <1>8
  <2>3. QED BY <2>1, <2>2, <1>6, <1>10, <1>12, OptionsOps
<1>17. QED BY <1>14, <1>15, <1>16 DEF y, m1, m2

LEMMA Shuffle2 ==
  ASSUME NEW a \in Fraction, NEW b \in Fraction, NEW c \in Fraction, NEW e \in Fraction
  PROVE  Times(Times(a, b), Times(c, e)) = Times(Times(Times(b, c), e), a)
BY Shuffles

LEMMA Shuffle3 ==
  ASSUME NEW a \in Fraction, NEW b \in Fraction, NEW c \in Fraction, NEW e \in Fraction
  PROVE  Times(Times(Times(Times(Times(a, a), b), b), c), e)
           = Times(Times(a, b), Times(c, Times(Times(b, a), e)))
BY Shuffles

LEMMA Shuffle4 ==
  ASSUME NEW a \in Fraction, NEW b \in Fraction, NEW c \in Fraction, NEW e \in Fraction
  PROVE  Times(Times(Times(Times(b, b), a), Times(e, e)), c)
           = Times(Times(b, e), Times(c, Times(Times(b, a), e)))
BY Shuffles

LEMMA Shuffle5 ==
  ASSUME NEW a \in Fraction, NEW b \in Fraction, NEW c \in Fraction, NEW e \in Fraction
  PROVE  Times(Times(a, b), Times(c, e)) = Times(Times(Times(a, c), e), b)
BY Shuffles

\* Gamma and vega are the same for both kinds: the convexity is the decay, and
\* vega is gamma by the price squared, the volatility and the time.
LEMMA GammaIs ==
  ASSUME NEW i \in Terms, NEW kind
  PROVE  /\ Options!greeks(i, kind).gamma \in Fraction
         /\ Options!Over(Options!Product(<<i.sigma, i.sigma, i.s, i.s,
                                           Options!greeks(i, kind).gamma>>), Options!Whole(2))
              = Decay(i)
         /\ Options!greeks(i, kind).vega
              = Options!Product(<<i.s, i.s, i.sigma, Options!Years(i),
                                  Options!greeks(i, kind).gamma>>)
<1> DEFINE s == i.s  g == i.sigma  t == i.sqrt_t  dq == i.disc_q  f == i.pdf_d1
           P == Times(Times(s, g), t)  D == Times(dq, f)  G == Over(D, P)
           X == Times(Times(Times(Times(g, g), s), s), G)
           E == Times(Times(Times(s, dq), f), g)  two == Whole(2)
<1>1. /\ s \in Fraction /\ g \in Fraction /\ t \in Fraction /\ dq \in Fraction /\ f \in Fraction
      /\ s # Zero /\ g # Zero /\ t # Zero
  BY TermsAre
<1>2. two \in Fraction /\ two # Zero
  <2>1. 2 \in Int OBVIOUS
  <2>2. QED BY <2>1, WholeIs DEF Zero, Whole
<1>3. Options!greeks(i, kind).gamma
        = Options!Over(Options!Times(i.disc_q, i.pdf_d1),
                       Options!Product(<<i.s, i.sigma, i.sqrt_t>>))
  BY DEF Options!greeks
<1>4. Options!greeks(i, kind).vega = Options!Product(<<i.s, i.disc_q, i.pdf_d1, i.sqrt_t>>)
  BY DEF Options!greeks
<1>5. Options!greeks(i, kind).gamma = G
  <2>1. Options!Product(<<i.s, i.sigma, i.sqrt_t>>) = P BY <1>1, ProductOf3
  <2>2. QED BY <2>1, <1>3, OptionsOps
<1>6. Options!greeks(i, kind).vega = Times(Times(Times(s, dq), f), t)
  BY <1>1, <1>4, ProductOf4
<1>7. Options!Years(i) = Times(t, t) BY OptionsOps DEF Options!Years
<1> HIDE DEF s, g, t, dq, f
<1>8. Times(s, g) \in Fraction /\ Times(s, g) # Zero BY <1>1, FieldTypes, ProductZero
<1>9. P \in Fraction /\ P # Zero BY <1>1, <1>8, FieldTypes, ProductZero
<1>10. D \in Fraction BY <1>1, FieldTypes
<1> HIDE DEF P, D
<1>11. G \in Fraction BY <1>9, <1>10, FieldTypes
<1>12. Times(G, P) = D
  <2>1. Times(P, G) = D BY <1>9, <1>10, OverLaws
  <2>2. QED BY <2>1, <1>9, <1>11, TimesLaws
<1> HIDE DEF G
<1>13. X \in Fraction /\ E \in Fraction BY <1>1, <1>11, FieldTypes
<1>14. Options!Product(<<g, g, s, s, G>>) = X
  BY ONLY <1>1, <1>11, ProductOf5 DEF X
<1>15. Times(X, t) = E
  <2>1. Times(Times(Times(Times(Times(g, g), s), s), G), t)
          = Times(Times(g, s), Times(G, Times(Times(s, g), t)))
    BY ONLY <1>1, <1>11, Shuffle3
  <2>2. Times(Times(g, s), Times(dq, f)) = Times(Times(Times(s, dq), f), g)
    BY ONLY <1>1, Shuffle2
  <2>3. QED BY <2>1, <2>2, <1>12 DEF P, D
<1> HIDE DEF X, E, two
<1>16. Over(X, two) = Over(E, Times(two, t))
  <2>1. Over(X, two) \in Fraction BY <1>2, <1>13, FieldTypes
  <2>2. Times(two, Over(X, two)) = X BY <1>2, <1>13, OverLaws
  <2>3. Times(Over(X, two), two) = X BY <2>1, <2>2, <1>2, TimesLaws
  <2>4. Times(Over(X, two), Times(two, t)) = Times(Times(Over(X, two), two), t)
    BY <2>1, <1>1, <1>2, TimesLaws
  <2>5. Times(Over(X, two), Times(two, t)) = E BY <2>3, <2>4, <1>15
  <2>6. Times(two, t) \in Fraction /\ Times(two, t) # Zero
    BY <1>1, <1>2, FieldTypes, ProductZero
  <2> DEFINE h == Over(X, two)  b == Times(two, t)
  <2>7. h \in Fraction /\ b \in Fraction /\ b # Zero /\ Times(h, b) = E BY <2>1, <2>5, <2>6
  <2> HIDE DEF h, b
  <2>8. h = Over(E, b) BY ONLY <2>7, <1>13, OverIs
  <2>9. QED BY <2>8 DEF h, b
<1>17. Options!Product(<<s, s, g, Times(t, t), G>>) = Times(Times(Times(s, dq), f), t)
  <2>0. Times(t, t) \in Fraction BY <1>1, FieldTypes
  <2>1. Options!Product(<<s, s, g, Times(t, t), G>>)
          = Times(Times(Times(Times(s, s), g), Times(t, t)), G)
    BY ONLY <2>0, <1>1, <1>11, ProductOf5
  <2>2. Times(Times(Times(Times(s, s), g), Times(t, t)), G)
          = Times(Times(s, t), Times(G, Times(Times(s, g), t)))
    BY ONLY <1>1, <1>11, Shuffle4
  <2>3. Times(Times(s, t), Times(dq, f)) = Times(Times(Times(s, dq), f), t)
    BY ONLY <1>1, Shuffle5
  <2>4. QED BY <2>1, <2>2, <2>3, <1>12 DEF P, D
<1>18. Decay(i) = Over(E, Times(two, t)) BY DEF Decay, E, two, s, g, t, dq, f
<1>19. /\ Options!greeks(i, kind).gamma \in Fraction
       /\ Options!greeks(i, kind).vega
            = Options!Product(<<i.s, i.s, i.sigma, Options!Years(i),
                                Options!greeks(i, kind).gamma>>)
  BY <1>5, <1>6, <1>7, <1>11, <1>17 DEF s, g, t
<1>20. Options!Product(<<i.sigma, i.sigma, i.s, i.s, Options!greeks(i, kind).gamma>>) = X
  BY <1>5, <1>14 DEF s, g
<1>21. Options!Over(X, Options!Whole(2)) = Decay(i) BY <1>16, <1>18, OptionsOps DEF two
<1>22. QED BY <1>19, <1>20, <1>21

LEMMA BalanceOfFive ==
  ASSUME NEW a \in Fraction, NEW b \in Fraction, NEW e \in Fraction, NEW f \in Fraction,
         NEW w \in Fraction
  PROVE  Minus(Plus(w, Minus(e, f)), Plus(w, Minus(Zero, Minus(Minus(a, e), Minus(b, f)))))
           = Minus(a, b)
BY Balance

LEMMA BalanceOfThree ==
  ASSUME NEW a \in Fraction, NEW e \in Fraction, NEW f \in Fraction, NEW w \in Fraction
  PROVE  /\ Plus(Plus(Minus(Zero, w), Minus(e, f)), Plus(Minus(a, e), w)) = Minus(a, f)
         /\ Plus(Plus(Minus(Zero, w), Minus(Zero, Minus(e, f))), Plus(Minus(Zero, Minus(a, e)), w))
              = Minus(f, a)
BY Balance

\* What is multiplied out: the discounted spot and strike, split by a weight
\* and by what the weight leaves.
LEMMA Splits ==
  ASSUME NEW i \in Terms, NEW n \in Fraction
  PROVE  /\ Spot(i, Minus(One, n)) = Minus(Times(i.s, i.disc_q), Spot(i, n))
         /\ Strike(i, Minus(One, n)) = Minus(Times(i.k, i.disc_r), Strike(i, n))
         /\ Times(i.disc_q, Minus(One, n)) = Minus(i.disc_q, Times(i.disc_q, n))
<1>1. /\ i.s \in Fraction /\ i.disc_q \in Fraction /\ i.k \in Fraction /\ i.disc_r \in Fraction
  BY TermsAre
<1>2. ASSUME NEW a \in Fraction, NEW b \in Fraction
      PROVE  Times(a, Times(b, Minus(One, n))) = Minus(Times(a, b), Times(a, Times(b, n)))
  <2>1. Times(b, Minus(One, n)) = Minus(b, Times(b, n)) BY Complement
  <2>2. Times(b, n) \in Fraction BY FieldTypes
  <2>3. QED BY <2>1, <2>2, TimesLaws
<1>3. QED BY <1>1, <1>2, Complement DEF Spot, Strike

\* What a Greek comes to for either kind: the drift it makes.
LEMMA DriftIs ==
  ASSUME NEW i \in Terms, NEW n \in Fraction
  PROVE  /\ Options!Product(<<Minus(i.r, i.q), i.s, Times(i.disc_q, n)>>)
              = Minus(Times(i.r, Spot(i, n)), Times(i.q, Spot(i, n)))
         /\ Options!Product(<<Minus(i.r, i.q), i.s, Minus(Zero, Times(i.disc_q, n))>>)
              = Minus(Zero, Minus(Times(i.r, Spot(i, n)), Times(i.q, Spot(i, n))))
<1> DEFINE d == Minus(i.r, i.q)  x == Times(i.disc_q, n)  s == i.s
<1>1. /\ d \in Fraction /\ x \in Fraction /\ s \in Fraction /\ i.r \in Fraction /\ i.q \in Fraction
      /\ Spot(i, n) \in Fraction /\ Spot(i, n) = Times(s, x)
  BY TermsAre, TermTypes, FieldTypes DEF Spot
<1>2. Minus(Zero, x) \in Fraction BY <1>1, FieldTypes, Numbers
<1>3. Times(d, Spot(i, n)) = Minus(Times(i.r, Spot(i, n)), Times(i.q, Spot(i, n)))
  <2> DEFINE u == Spot(i, n)
  <2>1. u \in Fraction BY <1>1
  <2> HIDE DEF u
  <2>2. Times(d, u) = Times(u, d) /\ Times(u, i.r) = Times(i.r, u) /\ Times(u, i.q) = Times(i.q, u)
    BY <1>1, <2>1, TimesLaws
  <2>3. Times(u, d) = Minus(Times(u, i.r), Times(u, i.q)) BY <1>1, <2>1, TimesLaws
  <2>4. QED BY <2>2, <2>3 DEF u
<1> HIDE DEF d, x, s
<1>4. Options!Product(<<d, s, x>>) = Times(d, Times(s, x))
  <2>1. Options!Product(<<d, s, x>>) = Times(Times(d, s), x) BY ONLY <1>1, ProductOf3
  <2>2. QED BY <2>1, <1>1, TimesLaws
<1>5. Options!Product(<<d, s, Minus(Zero, x)>>) = Minus(Zero, Times(d, Times(s, x)))
  <2>1. Options!Product(<<d, s, Minus(Zero, x)>>) = Times(Times(d, s), Minus(Zero, x))
    BY ONLY <1>1, <1>2, ProductOf3
  <2>2. Times(d, s) \in Fraction BY <1>1, FieldTypes
  <2>3. Times(Times(d, s), Minus(Zero, x)) = Minus(Times(Times(d, s), Zero), Times(Times(d, s), x))
    BY <2>2, <1>1, Numbers, TimesLaws
  <2>4. Times(Times(d, s), Zero) = Zero BY <2>2, TimesLaws
  <2>5. Times(Times(d, s), x) = Times(d, Times(s, x)) BY <1>1, TimesLaws
  <2>6. QED BY <2>1, <2>3, <2>4, <2>5
<1>6. QED BY <1>1, <1>3, <1>4, <1>5 DEF d, x, s

\* Put-call parity: for every contract a call less a put is the discounted
\* forward, and the Greeks that tell the two apart differ as it does.
THEOREM ParityOfEveryContract ==
  ASSUME NEW i \in Terms
  PROVE  Options!Parity(i)
<1> DEFINE A == Times(i.s, i.disc_q)  B == Times(i.k, i.disc_r)  y == Times(i.sqrt_t, i.sqrt_t)
           u == Spot(i, i.n1)  v == Strike(i, i.n2)  m1 == Minus(One, i.n1)  m2 == Minus(One, i.n2)
           x == Times(i.disc_q, i.n1)  w == Minus(Zero, Decay(i))  dq == i.disc_q
           call == Options!greeks(i, "Call")  put == Options!greeks(i, "Put")
<1>1. /\ A \in Fraction /\ B \in Fraction /\ y \in Fraction /\ u \in Fraction /\ v \in Fraction
      /\ x \in Fraction /\ w \in Fraction /\ dq \in Fraction /\ i.q \in Fraction /\ i.r \in Fraction
  <2>1. i.n1 \in Fraction /\ i.n2 \in Fraction BY TermsAre
  <2>2. u \in Fraction /\ v \in Fraction /\ x \in Fraction /\ Decay(i) \in Fraction
    BY <2>1, TermTypes
  <2>3. A \in Fraction /\ B \in Fraction /\ y \in Fraction BY TermsAre, FieldTypes
  <2>4. w \in Fraction BY <2>2, Numbers, FieldTypes
  <2>5. QED BY <2>2, <2>3, <2>4, TermsAre
<1>2. /\ Spot(i, m1) = Minus(A, u) /\ Strike(i, m2) = Minus(B, v) /\ Times(dq, m1) = Minus(dq, x)
  BY TermsAre, Splits
<1>3. /\ Options!price(i, "Call") = Minus(u, v)
      /\ Options!price(i, "Put") = Minus(Strike(i, m2), Spot(i, m1))
  BY PriceIs
<1>4. /\ call.delta = x /\ put.delta = Minus(Zero, Times(dq, m1))
      /\ call.theta = Plus(w, Minus(Times(i.q, u), Times(i.r, v)))
      /\ put.theta = Plus(w, Minus(Zero, Minus(Times(i.q, Spot(i, m1)), Times(i.r, Strike(i, m2)))))
      /\ call.rho = Times(y, v) /\ put.rho = Minus(Zero, Times(y, Strike(i, m2)))
  BY GreeksAre
<1>5. Options!Parity(i) <=>
        /\ Minus(Options!price(i, "Call"), Options!price(i, "Put")) = Minus(A, B)
        /\ Minus(call.delta, put.delta) = dq
        /\ Minus(call.rho, put.rho) = Times(y, B)
        /\ Minus(call.theta, put.theta) = Minus(Times(i.q, A), Times(i.r, B))
  BY OptionsOps DEF Options!Parity, Options!Years
<1> HIDE DEF A, B, y, u, v, m1, m2, x, w, dq, call, put
<1>6. Minus(Options!price(i, "Call"), Options!price(i, "Put")) = Minus(A, B)
  <2>1. Minus(Minus(u, v), Minus(Minus(B, v), Minus(A, u))) = Minus(A, B)
    BY <1>1, Balance
  <2>2. QED BY <2>1, <1>2, <1>3
<1>7. Minus(call.delta, put.delta) = dq
  <2>1. Minus(x, Minus(Zero, Minus(dq, x))) = dq BY <1>1, Balance
  <2>2. QED BY <2>1, <1>2, <1>4
<1>8. Minus(call.rho, put.rho) = Times(y, B)
  <2>1. Times(y, v) \in Fraction /\ Times(y, B) \in Fraction BY <1>1, FieldTypes
  <2>2. Minus(Times(y, v), Minus(Zero, Minus(Times(y, B), Times(y, v)))) = Times(y, B)
    BY <2>1, Balance
  <2>3. Times(y, Minus(B, v)) = Minus(Times(y, B), Times(y, v)) BY <1>1, TimesLaws
  <2>4. QED BY <2>2, <2>3, <1>2, <1>4
<1>9. Minus(call.theta, put.theta) = Minus(Times(i.q, A), Times(i.r, B))
  <2> DEFINE a == Times(i.q, A)  b == Times(i.r, B)  e == Times(i.q, u)  f == Times(i.r, v)
  <2>1. a \in Fraction /\ b \in Fraction /\ e \in Fraction /\ f \in Fraction BY <1>1, FieldTypes
  <2>2. Times(i.q, Minus(A, u)) = Minus(a, e) /\ Times(i.r, Minus(B, v)) = Minus(b, f)
    BY <1>1, TimesLaws
  <2>3. call.theta = Plus(w, Minus(e, f)) BY <1>4
  <2>4. put.theta = Plus(w, Minus(Zero, Minus(Minus(a, e), Minus(b, f)))) BY <1>2, <1>4, <2>2
  <2> HIDE DEF a, b, e, f
  <2>5. Minus(Plus(w, Minus(e, f)), Plus(w, Minus(Zero, Minus(Minus(a, e), Minus(b, f)))))
          = Minus(a, b)
    <3>1. w \in Fraction BY <1>1
    <3>2. QED BY ONLY <2>1, <3>1, BalanceOfFive
  <2>6. QED BY <2>3, <2>4, <2>5 DEF a, b
<1>10. QED BY <1>5, <1>6, <1>7, <1>8, <1>9

\* The Black-Scholes equation: for every contract and either kind, the price
\* and the Greeks the program computes satisfy it, and vega is gamma by the
\* square of the price, the volatility and the time.
THEOREM GreeksSolveTheEquation ==
  ASSUME NEW i \in Terms, NEW kind \in {"Call", "Put"}
  PROVE  Options!Equation(i, kind)
<1> DEFINE g == Options!greeks(i, kind)  W == Decay(i)
           drift == Options!Product(<<Minus(i.r, i.q), i.s, g.delta>>)
           m1 == Minus(One, i.n1)  m2 == Minus(One, i.n2)
<1>1. /\ i.n1 \in Fraction /\ i.n2 \in Fraction /\ m1 \in Fraction /\ m2 \in Fraction
      /\ i.q \in Fraction /\ i.r \in Fraction /\ W \in Fraction
  BY TermsAre, TermTypes
<1>2. Options!Equation(i, kind) <=>
        /\ Plus(g.theta, Plus(drift, W)) = Times(i.r, Options!price(i, kind))
        /\ g.vega = Options!Product(<<i.s, i.s, i.sigma, Options!Years(i), g.gamma>>)
  <2>1. Options!Over(Options!Product(<<i.sigma, i.sigma, i.s, i.s, g.gamma>>), Options!Whole(2)) = W
    BY GammaIs
  <2>2. Options!Product(<<Options!Minus(i.r, i.q), i.s, g.delta>>) = drift BY OptionsOps
  <2>3. Options!Equation(i, kind) <=>
        /\ Options!Plus(g.theta, Options!Plus(
             Options!Product(<<Options!Minus(i.r, i.q), i.s, g.delta>>),
             Options!Over(Options!Product(<<i.sigma, i.sigma, i.s, i.s, g.gamma>>),
                          Options!Whole(2))))
             = Options!Times(i.r, Options!price(i, kind))
        /\ g.vega = Options!Product(<<i.s, i.s, i.sigma, Options!Years(i), g.gamma>>)
    BY DEF Options!Equation
  <2> HIDE DEF g, W, drift
  <2>4. QED BY <2>1, <2>2, <2>3, OptionsOps
<1>3. g.vega = Options!Product(<<i.s, i.s, i.sigma, Options!Years(i), g.gamma>>) BY GammaIs
<1>4. CASE kind = "Call"
  <2> DEFINE a == Times(i.r, Spot(i, i.n1))  e == Times(i.q, Spot(i, i.n1))
             f == Times(i.r, Strike(i, i.n2))
  <2>1. a \in Fraction /\ e \in Fraction /\ f \in Fraction BY <1>1, TermTypes
  <2>2. g.theta = Plus(Minus(Zero, W), Minus(e, f)) /\ g.delta = Times(i.disc_q, i.n1)
    BY <1>4, GreeksAre
  <2>3. drift = Minus(a, e) BY <1>1, <2>2, DriftIs
  <2>4. Times(i.r, Options!price(i, kind)) = Minus(a, f)
    <3>1. Spot(i, i.n1) \in Fraction /\ Strike(i, i.n2) \in Fraction BY <1>1, TermTypes
    <3>2. QED BY <3>1, <1>1, <1>4, PriceIs, TimesLaws
  <2> HIDE DEF a, e, f, W, drift, g
  <2>5. Plus(Plus(Minus(Zero, W), Minus(e, f)), Plus(Minus(a, e), W)) = Minus(a, f)
    BY ONLY <1>1, <2>1, BalanceOfThree
  <2>6. QED BY <1>2, <1>3, <2>2, <2>3, <2>4, <2>5
<1>5. CASE kind = "Put"
  <2> DEFINE a == Times(i.r, Spot(i, m1))  e == Times(i.q, Spot(i, m1))
             f == Times(i.r, Strike(i, m2))
  <2>1. a \in Fraction /\ e \in Fraction /\ f \in Fraction BY <1>1, TermTypes
  <2>2. /\ g.theta = Plus(Minus(Zero, W), Minus(Zero, Minus(e, f)))
        /\ g.delta = Minus(Zero, Times(i.disc_q, m1))
    BY <1>5, GreeksAre
  <2>3. drift = Minus(Zero, Minus(a, e)) BY <1>1, <2>2, DriftIs
  <2>4. Times(i.r, Options!price(i, kind)) = Minus(f, a)
    <3>1. Spot(i, m1) \in Fraction /\ Strike(i, m2) \in Fraction BY <1>1, TermTypes
    <3>2. Options!price(i, kind) = Minus(Strike(i, m2), Spot(i, m1)) BY <1>5, PriceIs
    <3>3. QED BY <3>1, <3>2, <1>1, TimesLaws
  <2> HIDE DEF a, e, f, W, drift, g
  <2>5. Plus(Plus(Minus(Zero, W), Minus(Zero, Minus(e, f))), Plus(Minus(Zero, Minus(a, e)), W))
          = Minus(f, a)
    BY ONLY <1>1, <2>1, BalanceOfThree
  <2>6. QED BY <1>2, <1>3, <2>2, <2>3, <2>4, <2>5
<1>6. QED BY <1>4, <1>5

-----------------------------------------------------------------------------
(***************************************************************************)
(* The chart                                                               *)
(***************************************************************************)
LEMMA ChartOps ==
  ASSUME NEW a, NEW b
  PROVE  /\ Chart!Plus(a, b) = Plus(a, b) /\ Chart!Minus(a, b) = Minus(a, b)
         /\ Chart!Times(a, b) = Times(a, b) /\ Chart!Over(a, b) = Over(a, b)
         /\ Chart!Frac(a, b) = Frac(a, b) /\ (Chart!AtMost(a, b) <=> AtMost(a, b))
         /\ Chart!Whole(a) = Whole(a) /\ Chart!Zero = Zero /\ Chart!One = One
<1>0. Chart!gcd = gcd BY DEF Chart!gcd, gcd
<1>1. \A n, d : Chart!Frac(n, d) = Frac(n, d)
  BY <1>0 DEF Chart!Frac, Frac, Chart!Reduced, Reduced, Chart!Magnitude, Magnitude
<1>2. QED
  BY <1>1 DEF Chart!Plus, Plus, Chart!Minus, Minus, Chart!Times, Times, Chart!Over, Over,
              Chart!AtMost, AtMost, Chart!Whole, Whole, Chart!Zero, Zero, Chart!One, One

LEMMA ChartSum ==
  ASSUME NEW f
  PROVE  Chart!SumOf(f) = SumOf(f)
<1>1. \A a, b : Chart!Plus(a, b) = Plus(a, b) BY ChartOps
<1>2. Chart!Zero = Zero BY ChartOps
<1>3. QED
  BY <1>1, <1>2 DEF Chart!SumOf, SumOf, Chart!MapThenFoldSet, MapThenFoldSet

Wholes(values) == [j \in DOMAIN values |-> Whole(values[j])]

\* A sum of integers over a stretch is a difference of two first sums.
LEMMA StretchFirst ==
  ASSUME NEW values \in Seq(Int), NEW i \in 0..Len(values), NEW j \in 0..i
  PROVE  /\ Stretch(Wholes(values), j + 1, i) = Whole(First(values, i) - First(values, j))
         /\ First(values, i) \in Int /\ First(values, j) \in Int
<1> DEFINE n == Len(values)  W == Wholes(values)
<1>1. n \in Nat /\ DOMAIN values = 1..n /\ \A k \in 1..n : values[k] \in Int BY SeqIs
<1>2. values \in [1..n -> Int] BY <1>1
<1>3. W \in [1..n -> Fraction] /\ \A k \in 1..n : W[k] = Whole(values[k])
  BY <1>1, WholeIs DEF Wholes
<1> HIDE DEF n, W
<1>4. /\ First(values, 0) = 0 /\ \A k \in 0..n : First(values, k) \in Int
      /\ \A k \in 1..n : First(values, k) = First(values, k - 1) + values[k]
  BY <1>1, <1>2, FirstSums
<1>0. i \in 0..n /\ j \in 0..n BY <1>1 DEF n
<1> DEFINE Good == {k \in 0..(i - j) :
                     Stretch(W, j + 1, j + k) = Whole(First(values, j + k) - First(values, j))}
<1>5. 0 \in Good
  <2>1. j + 1 \in Int /\ j + 0 \in Int /\ j + 1 >= 1 /\ j + 0 <= n /\ j + 0 < j + 1 /\ j + 0 = j
    BY <1>1, <1>0
  <2>2. Stretch(W, j + 1, j + 0) = Zero BY <1>1, <1>3, <2>1, StretchIs
  <2>3. First(values, j + 0) - First(values, j) = 0 BY <2>1, <1>0, <1>4
  <2>4. QED BY <2>2, <2>3, <1>0 DEF Zero
<1>6. ASSUME NEW k \in 1..(i - j), k - 1 \in Good PROVE k \in Good
  <2> DEFINE m == j + k
  <2>1. /\ m \in 1..n /\ m \in Int /\ m - 1 = j + (k - 1) /\ j + 1 \in Int /\ j + 1 >= 1
        /\ j + 1 <= m /\ m <= n /\ m - 1 \in 0..n /\ k \in 0..(i - j)
    BY <1>0, <1>1
  <2> HIDE DEF m
  <2>2. Stretch(W, j + 1, m) = Plus(Stretch(W, j + 1, m - 1), W[m])
    BY <1>1, <1>3, <2>1, StretchIs
  <2>3. Stretch(W, j + 1, m - 1) = Whole(First(values, m - 1) - First(values, j))
    BY <1>6, <2>1
  <2> DEFINE x == First(values, m - 1)  y == First(values, j)  v == values[m]
  <2>4. x \in Int /\ y \in Int /\ v \in Int /\ First(values, m) = x + v /\ W[m] = Whole(v)
    BY <1>0, <1>1, <1>3, <1>4, <2>1
  <2> HIDE DEF x, y, v
  <2>5. Plus(Whole(x - y), Whole(v)) = Whole((x - y) + v) /\ (x - y) + v = (x + v) - y
    <3>1. x - y \in Int BY <2>4
    <3>2. QED BY <3>1, <2>4, WholeOrder
  <2>6. Stretch(W, j + 1, m) = Whole(First(values, m) - y) BY <2>2, <2>3, <2>4, <2>5 DEF x, y
  <2>7. QED BY <2>1, <2>6 DEF m, y
<1>7. i - j \in Nat /\ i - j \in 0..(i - j) /\ j + (i - j) = i BY <1>0
<1>8. i - j \in Good
  <2> HIDE DEF Good
  <2>1. 0..(i - j) \subseteq Good BY <1>5, <1>6, <1>7, UptoInduction
  <2>2. QED BY <2>1, <1>7
<1>9. QED BY <1>0, <1>4, <1>7, <1>8 DEF W

\* The running sum is the sum of the last closes, period of them at most.
LEMMA RunningIs ==
  ASSUME NEW values \in Seq(Int), NEW period \in Nat
  PROVE  \A i \in 0..Len(values) :
           Chart!Running(values, period)[i]
             = First(values, i) - IF i > period THEN First(values, i - period) ELSE 0
<1> DEFINE n == Len(values)
           Rec(g) == g = [i \in 0..n |->
                            IF i = 0 THEN 0
                            ELSE g[i - 1] + values[i] - IF i > period THEN values[i - period] ELSE 0]
           sum == CHOOSE g : Rec(g)
           F == [i \in 1..n |-> [x \in Int |->
                   x + values[i] - IF i > period THEN values[i - period] ELSE 0]]
<1>1. n \in Nat /\ values \in [1..n -> Int] /\ 0 \in Int BY SeqIs
<1>2. F \in [1..n -> [Int -> Int]]
  <2> SUFFICES ASSUME NEW i \in 1..n, NEW x \in Int
               PROVE  x + values[i] - (IF i > period THEN values[i - period] ELSE 0) \in Int
    OBVIOUS
  <2>1. values[i] \in Int BY <1>1
  <2>2. i > period => i - period \in 1..n BY <1>1
  <2>3. i > period => values[i - period] \in Int BY <1>1, <2>2
  <2>4. QED BY <2>1, <2>3
<1>3. \A i \in 1..n, x \in Int :
        F[i][x] = x + values[i] - IF i > period THEN values[i - period] ELSE 0
  OBVIOUS
<1> HIDE DEF F
<1>4. PICK g \in [0..n -> Int] : g[0] = 0 /\ \A i \in 1..n : g[i] = F[i][g[i - 1]]
  <2> HIDE DEF n
  <2>1. \E g : Follows(g, n, Int, 0, F) BY <1>1, <1>2, RecursionExists
  <2>2. QED BY <2>1 DEF Follows
<1>5. ASSUME NEW i \in 0..n
      PROVE  g[i] = IF i = 0 THEN 0
                    ELSE g[i - 1] + values[i] - IF i > period THEN values[i - period] ELSE 0
  <2>1. CASE i = 0 BY <1>4, <2>1
  <2>2. CASE i # 0
    <3>1. i \in 1..n /\ i - 1 \in 0..n BY <1>1, <2>2
    <3>2. g[i - 1] \in Int BY <3>1
    <3>3. QED BY <1>3, <1>4, <2>2, <3>1, <3>2
  <2>3. QED BY <2>1, <2>2
<1>6. Rec(g)
  <2>1. g = [i \in 0..n |-> g[i]] OBVIOUS
  <2>2. QED BY <1>5, <2>1
<1>7. Rec(sum) BY <1>6
<1>8. Chart!Running(values, period) = sum BY DEF Chart!Running
<1> HIDE DEF sum
<1>9. /\ First(values, 0) = 0 /\ \A k \in 0..n : First(values, k) \in Int
      /\ \A k \in 1..n : First(values, k) = First(values, k - 1) + values[k]
  <2> HIDE DEF n
  <2>1. QED BY <1>1, FirstSums
<1> DEFINE Last(i) == First(values, i) - IF i > period THEN First(values, i - period) ELSE 0
           Good == {i \in 0..n : sum[i] = Last(i)}
<1>10. 0 \in Good
  <2>1. 0 \in 0..n BY <1>1
  <2>2. sum[0] = 0 BY <1>7, <2>1
  <2>3. QED BY <2>1, <2>2, <1>9
<1>11. ASSUME NEW i \in 1..n, i - 1 \in Good PROVE i \in Good
  <2>1. i \in 0..n /\ i # 0 /\ i - 1 \in 0..n BY <1>1
  <2>2. sum[i] = sum[i - 1] + values[i] - IF i > period THEN values[i - period] ELSE 0
    BY <1>7, <2>1
  <2>3. sum[i - 1] = First(values, i - 1)
                       - IF i - 1 > period THEN First(values, i - 1 - period) ELSE 0
    BY <1>11
  <2>4. First(values, i) = First(values, i - 1) + values[i] /\ values[i] \in Int
        /\ First(values, i - 1) \in Int
    BY <1>1, <1>9, <2>1
  <2>5. CASE i > period
    <3>1. i - period \in 1..n /\ i - period \in 0..n /\ i - 1 - period \in 0..n
          /\ i - 1 - period = (i - period) - 1
      BY <1>1, <2>5
    <3>2. /\ First(values, i - period) = First(values, i - 1 - period) + values[i - period]
          /\ values[i - period] \in Int /\ First(values, i - 1 - period) \in Int
      BY <1>1, <1>9, <3>1
    <3>3. i - 1 = period => First(values, i - 1 - period) = 0
      <4>1. i - 1 = period => i - 1 - period = 0 OBVIOUS
      <4>2. QED BY <4>1, <1>9
    <3>4. sum[i - 1] = First(values, i - 1) - First(values, i - 1 - period)
      <4>1. CASE i - 1 > period BY <2>3, <4>1
      <4>2. CASE ~(i - 1 > period)
        <5>1. i - 1 = period BY <2>5, <4>2
        <5>2. QED BY <2>3, <4>2, <5>1, <3>3, <2>4
      <4>3. QED BY <4>1, <4>2
    <3>5. QED BY <2>1, <2>2, <2>4, <2>5, <3>2, <3>4
  <2>6. CASE ~(i > period)
    <3>1. ~(i - 1 > period) BY <2>6
    <3>2. QED BY <2>1, <2>2, <2>3, <2>4, <2>6, <3>1
  <2>7. QED BY <2>5, <2>6
<1>12. 0..n \subseteq Good
  <2> HIDE DEF Good, n
  <2>1. QED BY <1>1, <1>10, <1>11, UptoInduction
<1>13. QED BY <1>8, <1>12

\* Whatever the closes and the period, the average that is kept as it runs is
\* the mean of the last closes (sma).
THEOREM AllAveragesMeans ==
  ASSUME NEW values \in Seq(Int), NEW period \in Nat
  PROVE  Chart!AveragesAreMeans(values, period)
<1> DEFINE n == Len(values)
<1>1. n \in Nat /\ DOMAIN values = 1..n /\ \A k \in 1..n : values[k] \in Int BY SeqIs
<1> SUFFICES ASSUME NEW i \in 1..n
             PROVE  Chart!sma(values, period)[i] =
                      IF period = 0 \/ i < period THEN None
                      ELSE Chart!Over(Chart!SumOf([j \in (i - period + 1)..i |->
                                                     Chart!Whole(values[j])]),
                                      Chart!Whole(period))
  BY <1>1 DEF Chart!AveragesAreMeans
<1>2. Chart!sma(values, period)[i] =
        IF period # 0 /\ i >= period
          THEN Chart!Frac(Chart!Running(values, period)[i], period) ELSE None
  BY DEF Chart!sma
<1>3. CASE period = 0 \/ i < period
  <2>1. ~(period # 0 /\ i >= period) BY <1>1, <1>3
  <2>2. QED BY <1>2, <1>3, <2>1
<1>4. CASE ~(period = 0 \/ i < period)
  <2>1. period # 0 /\ i >= period /\ i \in 0..n /\ i - period \in 0..i /\ period \in Int \ {0}
    BY <1>1, <1>4
  <2> DEFINE W == Wholes(values)  d == First(values, i) - First(values, i - period)
  <2>2. /\ Stretch(W, i - period + 1, i) = Whole(d)
        /\ First(values, i) \in Int /\ First(values, i - period) \in Int
    BY <2>1, StretchFirst
  <2>3. Chart!Running(values, period)[i] = d
    <3>1. Chart!Running(values, period)[i]
            = First(values, i) - IF i > period THEN First(values, i - period) ELSE 0
      BY <2>1, RunningIs
    <3>2. i = period => First(values, i - period) = 0
      <4>1. values \in [1..n -> Int] BY <1>1
      <4>2. First(values, 0) = 0 BY <1>1, <4>1, FirstSums
      <4>3. i = period => i - period = 0 OBVIOUS
      <4>4. QED BY <4>2, <4>3
    <3>3. CASE i > period BY <3>1, <3>3
    <3>4. CASE i = period
      <4>1. ~(i > period) BY <3>4
      <4>2. QED BY <3>1, <3>2, <3>4, <4>1, <2>2
    <3>5. QED BY <3>3, <3>4, <2>1, <1>1
  <2>4. d \in Int BY <2>2
  <2>5. [j \in (i - period + 1)..i |-> Chart!Whole(values[j])]
          = [j \in (i - period + 1)..i |-> W[j]]
    <3>1. ASSUME NEW j \in (i - period + 1)..i PROVE Chart!Whole(values[j]) = W[j]
      <4>1. j \in 1..n BY <1>1, <2>1
      <4>2. W[j] = Whole(values[j]) BY <1>1, <4>1 DEF Wholes
      <4>3. QED BY <4>2, ChartOps
    <3>2. QED BY <3>1
  <2>6. Chart!SumOf([j \in (i - period + 1)..i |-> Chart!Whole(values[j])]) = Whole(d)
    BY <2>2, <2>5, ChartSum DEF Stretch
  <2> HIDE DEF d, W
  <2>7. Frac(d, period) = Over(Whole(d), Whole(period))
    <3>1. d * 1 = d /\ 1 * period = period BY <2>1, <2>4
    <3>2. QED BY <3>1 DEF Over, Whole
  <2>8. QED BY <1>2, <1>4, <2>1, <2>3, <2>6, <2>7, ChartOps
<1>5. QED BY <1>3, <1>4

LEMMA StretchNext ==
  ASSUME NEW lo \in Int, NEW hi \in Int, NEW h \in [lo..hi -> Fraction], NEW b \in lo..hi
  PROVE  Stretch(h, lo, b) = Plus(Stretch(h, lo, b - 1), h[b])
<1>1. b \in Int /\ lo <= b /\ b <= hi /\ lo >= lo OBVIOUS
<1>2. QED BY <1>1, StretchIs

\* What is not negative and adds up to zero is zero.
LEMMA ZeroLaws ==
  ASSUME NEW f \in Fraction, NEW g \in Fraction
  PROVE  /\ AtMost(Zero, f) /\ AtMost(Zero, g) => (Plus(f, g) = Zero <=> f = Zero /\ g = Zero)
         /\ g # Zero => (Times(f, g) = Zero <=> f = Zero) /\ (Over(f, g) = Zero <=> f = Zero)
<1>0. Zero \in Fraction BY Numbers
<1>1. ASSUME AtMost(Zero, f), AtMost(Zero, g), Plus(f, g) = Zero PROVE f = Zero /\ g = Zero
  <2>1. AtMost(f, Plus(f, g)) /\ AtMost(g, Plus(g, f)) BY <1>0, <1>1, PlusOrder
  <2>2. Plus(g, f) = Plus(f, g) BY PlusLaws
  <2>3. AtMost(f, Zero) /\ AtMost(g, Zero) BY <1>1, <2>1, <2>2
  <2>4. ~Less(Zero, f) /\ ~Less(Zero, g) BY <1>0, <2>3, OrderLaws
  <2>5. QED BY <1>0, <1>1, <2>4, OrderLaws
<1>2. Plus(Zero, Zero) = Zero BY <1>0, PlusLaws
<1>3. ASSUME g # Zero PROVE Times(f, g) = Zero <=> f = Zero
  <2>1. Times(Zero, g) = Times(g, Zero) /\ Times(g, Zero) = Zero BY <1>0, TimesLaws
  <2>2. f # Zero => Times(f, g) # Zero BY <1>3, ProductZero
  <2>3. QED BY <2>1, <2>2
<1>4. ASSUME g # Zero PROVE Over(f, g) = Zero <=> f = Zero
  <2>1. Over(f, g) \in Fraction /\ Times(Over(f, g), g) = f BY <1>4, FieldTypes, OverLaws
  <2> DEFINE h == Over(f, g)
  <2> HIDE DEF h
  <2>2. h # Zero => Times(h, g) # Zero BY <1>4, <2>1, ProductZero DEF h
  <2>3. Times(Zero, g) = Times(g, Zero) /\ Times(g, Zero) = Zero BY <1>0, TimesLaws
  <2>4. QED BY <2>1, <2>2, <2>3 DEF h
<1>5. QED BY <1>1, <1>2, <1>3, <1>4

\* Wilder's average as it runs.
Averages(avg, moves, period, count) ==
  /\ avg \in [(period + 1)..count -> Fraction]
  /\ \A i \in (period + 1)..count :
       avg[i] = IF i = period + 1 THEN Over(Stretch(Wholes(moves), 2, i), Whole(period))
                ELSE Over(Plus(Times(avg[i - 1], Whole(period - 1)), Whole(moves[i])),
                          Whole(period))

LEMMA SmoothedIs ==
  ASSUME NEW count \in Nat, NEW moves \in [2..count -> Nat], NEW period \in Nat \ {0}
  PROVE  Averages(Chart!Smoothed(moves, period, count), moves, period, count)
<1> DEFINE W == Wholes(moves)  base == period + 1  n == count - base  P == Whole(period)
           opening == Over(Stretch(W, 2, base), P)
           Raw(g, i) == IF i = base
                        THEN Chart!Over(Chart!SumOf([j \in 2..i |-> Chart!Whole(moves[j])]),
                                        Chart!Whole(period))
                        ELSE Chart!Over(Chart!Plus(Chart!Times(g[i - 1], Chart!Whole(period - 1)),
                                                   Chart!Whole(moves[i])), Chart!Whole(period))
           Rec(g) == g = [i \in (period + 1)..count |->
                            IF i = period + 1
                            THEN Chart!Over(Chart!SumOf([j \in 2..i |-> Chart!Whole(moves[j])]),
                                            Chart!Whole(period))
                            ELSE Chart!Over(Chart!Plus(Chart!Times(g[i - 1], Chart!Whole(period - 1)),
                                                       Chart!Whole(moves[i])), Chart!Whole(period))]
           avg == CHOOSE g : Rec(g)
           New(x, i) == Over(Plus(Times(x, Whole(period - 1)), Whole(moves[i])), P)
<1>0. base \in Int /\ base >= 2 /\ period \in Int /\ period - 1 \in Int /\ count \in Int
  OBVIOUS
<1>1. /\ P \in Fraction /\ P # Zero /\ Whole(period - 1) \in Fraction
      /\ W \in [2..count -> Fraction] /\ \A i \in 2..count : W[i] = Whole(moves[i])
  <2>1. P \in Fraction /\ Whole(period - 1) \in Fraction BY <1>0, WholeIs
  <2>2. P # Zero BY DEF Zero, Whole
  <2>3. ASSUME NEW i \in 2..count PROVE Whole(moves[i]) \in Fraction
    <3>1. moves[i] \in Int OBVIOUS
    <3>2. QED BY <3>1, WholeIs
  <2>4. QED BY <2>1, <2>2, <2>3 DEF Wholes
<1>2. ASSUME NEW g, NEW i \in base..count
      PROVE  Raw(g, i) = IF i = base THEN opening ELSE New(g[i - 1], i)
  <2>1. i = base => [j \in 2..i |-> Chart!Whole(moves[j])] = [j \in 2..base |-> W[j]]
    <3>1. \A j \in 2..i : j \in 2..count /\ Chart!Whole(moves[j]) = W[j]
      <4>1. \A j \in 2..i : j \in 2..count BY <1>0
      <4> HIDE DEF W
      <4>2. QED BY <4>1, <1>1, ChartOps
    <3>2. QED BY <3>1
  <2>2. i = base => Raw(g, i) = opening
    <3> HIDE DEF W
    <3>1. QED BY <2>1, ChartSum, ChartOps DEF Stretch
  <2>3. i # base => Raw(g, i) = New(g[i - 1], i)
    <3> DEFINE x == g[i - 1]  y == Whole(period - 1)  m == Whole(moves[i])
    <3>1. Chart!Whole(period - 1) = y /\ Chart!Whole(moves[i]) = m /\ Chart!Whole(period) = P
      BY ChartOps
    <3>2. i # base => Raw(g, i) = Chart!Over(Chart!Plus(Chart!Times(x, y), m), P) BY <3>1
    <3> HIDE DEF x, y, m, P
    <3>3. Chart!Over(Chart!Plus(Chart!Times(x, y), m), P) = Over(Plus(Times(x, y), m), P)
      BY ChartOps
    <3>4. QED BY <3>2, <3>3 DEF x, y, m
  <2>4. QED BY <2>2, <2>3
<1>3. \A g : Rec(g) <=> g = [i \in base..count |-> Raw(g, i)]
  OBVIOUS
<1>4. base <= count => opening \in Fraction
  <2> SUFFICES ASSUME base <= count PROVE opening \in Fraction
    OBVIOUS
  <2>1. Stretch(W, 2, base) \in Fraction
    <3> HIDE DEF W
    <3>1. QED BY <1>0, <1>1, StretchIs
  <2>2. QED BY <2>1, <1>1, FieldTypes
<1>5. ASSUME NEW x \in Fraction, NEW i \in 2..count PROVE New(x, i) \in Fraction
  <2>1. Whole(moves[i]) \in Fraction BY <1>1
  <2>2. QED BY <2>1, <1>1, FieldTypes
<1> HIDE DEF Raw, New, opening, P, W
<1>6. \E g : g \in [base..count -> Fraction] /\ Rec(g)
  <2>1. CASE ~(base <= count)
    <3> DEFINE g == [i \in base..count |-> Zero]
    <3>1. \A i \in base..count : FALSE BY <2>1, <1>0
    <3>2. g \in [base..count -> Fraction] /\ g = [i \in base..count |-> Raw(g, i)] BY <3>1
    <3>3. QED BY <3>2, <1>3
  <2>2. CASE base <= count
    <3> DEFINE F == [k \in 1..n |-> [x \in Fraction |-> New(x, base + k)]]
    <3>1. n \in Nat /\ \A k \in 1..n : base + k \in 2..count BY <2>2, <1>0
    <3>2. F \in [1..n -> [Fraction -> Fraction]] BY <3>1, <1>5
    <3>3. \A k \in 1..n, x \in Fraction : F[k][x] = New(x, base + k) OBVIOUS
    <3> HIDE DEF F
    <3>4. PICK h \in [0..n -> Fraction] : h[0] = opening /\ \A k \in 1..n : h[k] = F[k][h[k - 1]]
      <4> HIDE DEF n
      <4>1. \E h : Follows(h, n, Fraction, opening, F) BY <1>4, <2>2, <3>1, <3>2, RecursionExists
      <4>2. QED BY <4>1 DEF Follows
    <3> DEFINE g == [i \in base..count |-> h[i - base]]
    <3>5. g \in [base..count -> Fraction]
      <4>1. \A i \in base..count : i - base \in 0..n BY <1>0
      <4>2. QED BY <4>1
    <3>6. ASSUME NEW i \in base..count PROVE g[i] = Raw(g, i)
      <4>1. CASE i = base
        <5>1. i - base = 0 BY <4>1, <1>0
        <5>2. g[i] = opening BY <3>4, <5>1
        <5>3. QED BY <4>1, <5>2, <1>2
      <4>2. CASE i # base
        <5>1. /\ i - base \in 1..n /\ i - 1 \in base..count /\ (i - 1) - base = (i - base) - 1
              /\ (i - base) - 1 \in 0..n /\ base + (i - base) = i
          BY <4>2, <1>0
        <5>2. g[i] = h[i - base] /\ g[i - 1] = h[(i - base) - 1] BY <5>1
        <5>3. h[(i - base) - 1] \in Fraction BY <5>1
        <5>4. g[i] = New(g[i - 1], i) BY <3>3, <3>4, <5>1, <5>2, <5>3
        <5>5. QED BY <4>2, <5>4, <1>2
      <4>3. QED BY <4>1, <4>2
    <3>7. g = [i \in base..count |-> g[i]] OBVIOUS
    <3> HIDE DEF g
    <3>8. g = [i \in base..count |-> Raw(g, i)] BY <3>6, <3>7
    <3>9. QED BY <3>5, <3>8, <1>3
  <2>3. QED BY <2>1, <2>2
<1>7. Rec(avg) BY <1>6
<1>8. Chart!Smoothed(moves, period, count) = avg BY DEF Chart!Smoothed
<1> HIDE DEF avg, Rec
<1>9. avg = [i \in base..count |-> Raw(avg, i)] BY <1>3, <1>7
<1>10. \A i \in base..count : avg[i] = IF i = base THEN opening ELSE New(avg[i - 1], i)
  BY <1>2, <1>9
<1>11. avg \in [base..count -> Fraction]
  <2>1. CASE ~(base <= count)
    <3>1. \A i \in base..count : FALSE BY <2>1, <1>0
    <3>2. QED BY <3>1, <1>9
  <2>2. CASE base <= count
    <3> DEFINE Good == {k \in 0..n : avg[base + k] \in Fraction}
    <3>1. n \in Nat BY <2>2, <1>0
    <3>2. 0 \in Good
      <4>1. base + 0 = base /\ base \in base..count /\ 0 \in 0..n BY <2>2, <1>0
      <4>2. QED BY <4>1, <1>4, <1>10, <2>2
    <3>3. ASSUME NEW k \in 1..n, k - 1 \in Good PROVE k \in Good
      <4>1. /\ base + k \in base..count /\ base + k \in 2..count /\ base + k # base
            /\ (base + k) - 1 = base + (k - 1) /\ k \in 0..n
        BY <2>2, <1>0
      <4>2. avg[base + k] = New(avg[(base + k) - 1], base + k) BY <4>1, <1>10
      <4>3. QED BY <3>3, <4>1, <4>2, <1>5
    <3>4. 0..n \subseteq Good
      <4> HIDE DEF Good, n
      <4>1. QED BY <3>1, <3>2, <3>3, UptoInduction
    <3>5. ASSUME NEW i \in base..count PROVE avg[i] \in Fraction
      <4>1. i - base \in 0..n /\ base + (i - base) = i BY <1>0
      <4>2. QED BY <3>4, <4>1
    <3>6. QED BY <3>5, <1>9
  <2>3. QED BY <2>1, <2>2
<1>12. QED BY <1>8, <1>10, <1>11 DEF Averages, opening, New, P, W

CountsMoves(avg, moves, period, count) ==
  \A i \in (period + 1)..count :
    /\ avg[i] \in Fraction /\ AtMost(Zero, avg[i])
    /\ avg[i] = Zero <=> \A j \in 2..i : moves[j] = 0

\* The average is not negative and, of periods beyond one, zero as long as no
\* move has counted.
LEMMA AveragesSign ==
  ASSUME NEW count \in Nat, NEW moves \in [2..count -> Nat], NEW period \in Nat \ {0, 1},
         NEW avg, Averages(avg, moves, period, count)
  PROVE  CountsMoves(avg, moves, period, count)
<1> DEFINE W == Wholes(moves)  base == period + 1  n == count - base  P == Whole(period)
           Q == Whole(period - 1)
           None0(i) == \A j \in 2..i : moves[j] = 0
           Fine(f, i) == f \in Fraction /\ AtMost(Zero, f) /\ (f = Zero <=> None0(i))
<1>0. base \in Int /\ base >= 3 /\ period \in Int /\ period - 1 \in Int /\ period - 1 > 0
      /\ count \in Int /\ period > 0
  OBVIOUS
<1>z. Zero \in Fraction /\ AtMost(Zero, Zero) BY Numbers, OrderLaws
<1>1. /\ P \in Fraction /\ Less(Zero, P) /\ P # Zero /\ Q \in Fraction /\ Q # Zero
      /\ AtMost(Zero, Q)
  <2>1. P \in Fraction /\ Q \in Fraction BY <1>0, WholeIs
  <2>2. P # Zero /\ Q # Zero BY <1>0 DEF Zero, Whole
  <2>3. P[1] = period /\ Q[1] = period - 1 BY DEF Whole
  <2>4. QED BY <1>0, <2>1, <2>2, <2>3, SignLaws
<1>2. /\ W \in [2..count -> Fraction]
      /\ \A i \in 2..count : /\ W[i] = Whole(moves[i]) /\ Whole(moves[i]) \in Fraction
                             /\ AtMost(Zero, Whole(moves[i]))
                             /\ Whole(moves[i]) = Zero <=> moves[i] = 0
  <2>1. ASSUME NEW i \in 2..count
        PROVE  Whole(moves[i]) \in Fraction /\ AtMost(Zero, Whole(moves[i]))
               /\ (Whole(moves[i]) = Zero <=> moves[i] = 0)
    <3>1. moves[i] \in Int /\ moves[i] >= 0 /\ 0 \in Int OBVIOUS
    <3>2. Whole(moves[i]) \in Fraction /\ Whole(moves[i])[1] = moves[i]
      BY <3>1, WholeIs DEF Whole
    <3>3. Whole(moves[i]) = Zero <=> moves[i] = 0 BY <3>1, WholeOrder DEF Zero
    <3>4. QED BY <3>1, <3>2, <3>3, SignLaws
  <2>2. QED BY <2>1 DEF Wholes
<1>3. ASSUME NEW i \in 2..count, NEW f \in Fraction, Fine(f, i - 1)
      PROVE  /\ Fine(Plus(f, Whole(moves[i])), i)
             /\ Fine(Over(Plus(Times(f, Q), Whole(moves[i])), P), i)
  <2> DEFINE m == Whole(moves[i])
  <2>1. None0(i) <=> None0(i - 1) /\ moves[i] = 0
    <3>1. \A j \in 2..i : j = i \/ j \in 2..(i - 1) BY <1>0
    <3>2. i \in 2..i /\ \A j \in 2..(i - 1) : j \in 2..i BY <1>0
    <3>3. QED BY <3>1, <3>2
  <2>2. m \in Fraction /\ AtMost(Zero, m) /\ (m = Zero <=> moves[i] = 0) BY <1>2
  <2>3. AtMost(Zero, f) /\ (f = Zero <=> None0(i - 1)) BY <1>3
  <2> HIDE DEF m, None0, P, Q
  <2>4. Fine(Plus(f, m), i) BY <2>1, <2>2, <2>3, FieldTypes, SignLaws, ZeroLaws
  <2>5. /\ Times(f, Q) \in Fraction /\ AtMost(Zero, Times(f, Q))
        /\ Times(f, Q) = Zero <=> None0(i - 1)
    BY <1>1, <2>3, FieldTypes, SignLaws, ZeroLaws
  <2> DEFINE s == Plus(Times(f, Q), m)
  <2>6. s \in Fraction /\ AtMost(Zero, s) /\ (s = Zero <=> None0(i))
    BY <2>1, <2>2, <2>5, FieldTypes, SignLaws, ZeroLaws
  <2> HIDE DEF s
  <2>7. Fine(Over(s, P), i) BY <1>1, <2>6, FieldTypes, SignLaws, ZeroLaws
  <2>8. QED BY <2>4, <2>7 DEF m, s
<1> SUFFICES ASSUME base <= count
             PROVE  \A i \in base..count : Fine(avg[i], i)
  <2>1. CASE base <= count BY <2>1 DEF CountsMoves
  <2>2. CASE ~(base <= count)
    <3>1. \A i \in base..count : FALSE BY <2>2, <1>0
    <3>2. QED BY <3>1 DEF CountsMoves
  <2>3. QED BY <2>1, <2>2
<1>4. avg \in [base..count -> Fraction]
      /\ \A i \in base..count :
           avg[i] = IF i = base THEN Over(Stretch(W, 2, i), P)
                    ELSE Over(Plus(Times(avg[i - 1], Q), Whole(moves[i])), P)
  BY DEF Averages
<1>5. Fine(Stretch(W, 2, base), base)
  <2> DEFINE Good == {k \in 0..period : Fine(Stretch(W, 2, 1 + k), 1 + k)}
  <2>1. 0 \in Good
    <3>1. 1 + 0 \in Int /\ 1 + 0 < 2 /\ 1 + 0 <= count /\ 2 \in Int BY <1>0
    <3>2. Stretch(W, 2, 1 + 0) = Zero
      <4> HIDE DEF W
      <4>1. QED BY <3>1, <1>0, <1>2, StretchIs
    <3>3. None0(1 + 0) BY <3>1
    <3>4. 0 \in 0..period BY <1>0
    <3> HIDE DEF None0, W
    <3>5. QED BY <3>2, <3>3, <3>4, <1>z
  <2>2. ASSUME NEW k \in 1..period, k - 1 \in Good PROVE k \in Good
    <3> DEFINE i == 1 + k
    <3>1. i \in 2..count /\ i \in Int /\ i - 1 = 1 + (k - 1) /\ 2 <= i /\ i <= count
          /\ k \in 0..period
      BY <1>0
    <3>2. Fine(Stretch(W, 2, i - 1), i - 1) BY <2>2, <3>1
    <3>3. Stretch(W, 2, i) = Plus(Stretch(W, 2, i - 1), W[i])
      <4> HIDE DEF W, i
      <4>1. 2 \in Int /\ 2 >= 2 /\ count \in Int /\ W \in [2..count -> Fraction] BY <1>0, <1>2
      <4>2. i \in 2..count BY <3>1
      <4>3. QED BY ONLY <4>1, <4>2, StretchNext
    <3>4. W[i] = Whole(moves[i]) BY <1>2, <3>1
    <3>5. Stretch(W, 2, i - 1) \in Fraction BY <3>2
    <3> HIDE DEF i, W, Fine
    <3>6. Fine(Stretch(W, 2, i), i) BY <1>3, <3>1, <3>2, <3>3, <3>4, <3>5
    <3>7. QED BY <3>1, <3>6 DEF i
  <2>3. 0..period \subseteq Good
    <3> HIDE DEF Good
    <3>1. QED BY <2>1, <2>2, UptoInduction
  <2>4. period \in Good /\ 1 + period = base BY <2>3, <1>0
  <2> HIDE DEF Fine
  <2>5. QED BY <2>4
<1> HIDE DEF None0, W, P, Q
<1> DEFINE Fits == {k \in 0..n : Fine(avg[base + k], base + k)}
<1>6. 0 \in Fits
  <2>1. base + 0 = base /\ base \in base..count /\ 0 \in 0..n BY <1>0
  <2>2. avg[base] = Over(Stretch(W, 2, base), P) BY <1>4, <2>1
  <2>3. Fine(Over(Stretch(W, 2, base), P), base)
    BY <1>1, <1>5, FieldTypes, SignLaws, ZeroLaws
  <2>4. QED BY <2>1, <2>2, <2>3
<1>7. ASSUME NEW k \in 1..n, k - 1 \in Fits PROVE k \in Fits
  <2> DEFINE i == base + k
  <2>1. i \in 2..count /\ i \in base..count /\ i # base /\ i - 1 = base + (k - 1) /\ k \in 0..n
    BY <1>0
  <2>2. Fine(avg[i - 1], i - 1) BY <1>7, <2>1
  <2>3. avg[i] = Over(Plus(Times(avg[i - 1], Q), Whole(moves[i])), P) BY <1>4, <2>1
  <2>4. Fine(avg[i], i)
    <3>1. avg[i - 1] \in Fraction BY <2>2
    <3> HIDE DEF Fine, i
    <3>2. QED BY <1>3, <2>1, <2>2, <2>3, <3>1
  <2>5. QED BY <2>1, <2>4
<1>8. n \in Nat BY <1>0
<1>9. 0..n \subseteq Fits
  <2> HIDE DEF Fits, n
  <2>1. QED BY <1>6, <1>7, <1>8, UptoInduction
<1>10. ASSUME NEW i \in base..count PROVE Fine(avg[i], i)
  <2>1. i - base \in 0..n /\ base + (i - base) = i BY <1>0
  <2>2. i - base \in Fits BY <1>9, <2>1
  <2>3. Fine(avg[base + (i - base)], base + (i - base)) BY <2>2
  <2>4. QED BY <2>1, <2>3
<1>11. QED BY <1>10 DEF CountsMoves

\* The index of an average gain and an average loss: below 100 with a loss, and
\* what is missing to 100 is the index of the two the other way round.
LEMMA StrengthIs ==
  ASSUME NEW G \in Fraction, NEW L \in Fraction, AtMost(Zero, G), AtMost(Zero, L), L # Zero
  PROVE  LET r == Chart!rsi_from(G, L)
         IN  /\ r \in Fraction /\ AtMost(Zero, r) /\ AtMost(r, Whole(100)) /\ r # Whole(100)
             /\ G # Zero => Plus(r, Chart!rsi_from(L, G)) = Whole(100)
<1> DEFINE p == G[1]  q == G[2]  u == L[1]  v == L[2]
           of(a, b) == Minus(Whole(100), Over(Whole(100), Plus(One, Over(a, b))))
<1>1. /\ p \in Int /\ q \in Int /\ q > 0 /\ Is(G, p, q) /\ p >= 0
      /\ u \in Int /\ v \in Int /\ v > 0 /\ Is(L, u, v) /\ u > 0
      /\ G # Zero => p > 0
  <2>1. p >= 0 /\ u >= 0 BY SignLaws
  <2>2. u # 0 /\ (G # Zero => p # 0) BY FieldTypes
  <2>3. p \in Int /\ q \in Int /\ q > 0 /\ u \in Int /\ v \in Int /\ v > 0 BY FractionIs
  <2>4. QED BY <2>1, <2>2, <2>3, IsOwn
<1>2. ASSUME NEW a, NEW b, b # Zero PROVE Chart!rsi_from(a, b) = of(a, b)
  <2>1. Chart!rsi_from(a, b) =
          Chart!Minus(Chart!Whole(100),
            Chart!Over(Chart!Whole(100), Chart!Plus(Chart!One, Chart!Over(a, b))))
    BY <1>2, ChartOps DEF Chart!rsi_from
  <2>2. Chart!Plus(Chart!One, Chart!Over(a, b)) = Plus(One, Over(a, b)) BY ChartOps
  <2>3. Chart!Whole(100) = Whole(100) BY ChartOps
  <2> DEFINE x == Plus(One, Over(a, b))  h == Whole(100)
  <2> HIDE DEF x, h
  <2>4. Chart!Minus(h, Chart!Over(h, x)) = Minus(h, Over(h, x)) BY ChartOps
  <2>5. QED BY <2>1, <2>2, <2>3, <2>4 DEF x, h
<1> HIDE DEF p, q, u, v
<1>3. ASSUME NEW a, NEW b, NEW k \in Int, NEW l \in Int, NEW m \in Int, NEW n \in Int,
             Is(a, k, l), Is(b, m, n), k >= 0, l > 0, m > 0, n > 0
      PROVE  Is(of(a, b), 100 * (k * n), l * m + k * n)
  <2> DEFINE x == l * m  y == k * n
  <2>1. x \in Int /\ x > 0 /\ y \in Int /\ y >= 0
    <3>1. l * m \in Int /\ l * m > 0 BY <1>3
    <3>2. k * n \in Int /\ k * n >= 0 BY <1>3
    <3>3. QED BY <3>1, <3>2
  <2>2. Is(Over(a, b), y, x) BY <1>3, IsTimes
  <2> HIDE DEF x, y
  <2>3. Is(One, 1, 1) /\ Is(Whole(100), 100, 1)
    <3>1. 100 \in Int OBVIOUS
    <3>2. QED BY <3>1, WholeIs, Numbers
  <2>4. Is(Plus(One, Over(a, b)), 1 * x + y * 1, 1 * x) BY <2>2, <2>3, IsPlus
  <2>5. Is(Plus(One, Over(a, b)), x + y, x)
    <3>1. 1 * x + y * 1 = x + y /\ 1 * x = x BY <2>1
    <3>2. QED BY <2>4, <3>1
  <2>6. Is(Over(Whole(100), Plus(One, Over(a, b))), 100 * x, 1 * (x + y))
    <3>1. x + y # 0 BY <2>1
    <3>2. QED BY <2>3, <2>5, <3>1, IsTimes
  <2>7. Is(Over(Whole(100), Plus(One, Over(a, b))), 100 * x, x + y)
    <3>1. 1 * (x + y) = x + y BY <2>1
    <3>2. QED BY <2>6, <3>1
  <2>8. Is(of(a, b), 100 * (x + y) - (100 * x) * 1, 1 * (x + y)) BY <2>3, <2>7, IsPlus
  <2>9. 100 * (x + y) - (100 * x) * 1 = 100 * y /\ 1 * (x + y) = x + y BY <2>1
  <2> HIDE DEF of
  <2>10. QED BY <2>8, <2>9 DEF x, y
<1> HIDE DEF of
<1> DEFINE r == of(G, L)  x == q * u  y == p * v
<1>4. Is(r, 100 * y, x + y) BY <1>1, <1>3
<1>5. x \in Int /\ x > 0 /\ y \in Int /\ y >= 0
  <2>1. q * u \in Int /\ q * u > 0 BY <1>1
  <2>2. p * v \in Int /\ p * v >= 0 BY <1>1
  <2>3. QED BY <2>1, <2>2
<1>6. G # Zero => Is(of(L, G), 100 * x, x + y)
  <2> SUFFICES ASSUME G # Zero PROVE Is(of(L, G), 100 * x, x + y)
    OBVIOUS
  <2>1. Is(of(L, G), 100 * (u * q), v * p + u * q) BY <1>1, <1>3
  <2>2. u * q = x /\ v * p + u * q = x + y BY <1>1
  <2>3. QED BY <2>1, <2>2
<1> HIDE DEF x, y, r
<1>7. Is(Whole(100), 100, 1) /\ Whole(100) \in Fraction /\ Is(Zero, 0, 1)
  <2>1. 100 \in Int OBVIOUS
  <2>2. QED BY <2>1, WholeIs, Numbers
<1>8. r \in Fraction BY <1>4 DEF Is
<1>9. AtMost(Zero, r) /\ AtMost(r, Whole(100))
  <2>1. 0 * (x + y) <= (100 * y) * 1 /\ (100 * y) * 1 <= 100 * (x + y) /\ x + y > 0 BY <1>5
  <2>2. QED BY <1>4, <1>7, <2>1, IsOrder
<1>10. r # Whole(100)
  <2>1. (100 * y) * 1 < 100 * (x + y) /\ x + y > 0 BY <1>5
  <2>2. Less(r, Whole(100)) BY <1>4, <1>7, <2>1, IsOrder
  <2>3. QED BY <1>7, <2>2, OrderLaws
<1>11. ASSUME G # Zero PROVE Plus(r, of(L, G)) = Whole(100)
  <2>1. Is(Plus(r, of(L, G)), 100 * y + 100 * x, x + y) BY <1>4, <1>6, <1>11, IsTogether
  <2>2. (100 * y + 100 * x) * 1 = 100 * (x + y) BY <1>5
  <2>3. QED BY <1>7, <2>1, <2>2, IsSame
<1>12. r = Chart!rsi_from(G, L) /\ (G # Zero => of(L, G) = Chart!rsi_from(L, G))
  BY <1>2 DEF r
<1>13. QED BY <1>8, <1>9, <1>10, <1>11, <1>12

\* Moves up and down, and those of the mirrored closes.
LEMMA MovesAre ==
  ASSUME NEW values \in Seq(Int)
  PROVE  LET count == Len(values)
             mirror == [j \in DOMAIN values |-> -values[j]]
             ups == [j \in 2..count |-> Chart!Up(values, j)]
             downs == [j \in 2..count |-> Chart!Down(values, j)]
         IN  /\ count \in Nat /\ ups \in [2..count -> Nat] /\ downs \in [2..count -> Nat]
             /\ \A j \in 2..count : /\ ups[j] = 0 <=> ~(values[j] > values[j - 1])
                                    /\ downs[j] = 0 <=> ~(values[j] < values[j - 1])
             /\ Len(mirror) = count
             /\ [j \in 2..count |-> Chart!Up(mirror, j)] = downs
             /\ [j \in 2..count |-> Chart!Down(mirror, j)] = ups
<1> DEFINE count == Len(values)  mirror == [j \in DOMAIN values |-> -values[j]]
<1>1. count \in Nat /\ DOMAIN values = 1..count /\ \A k \in 1..count : values[k] \in Int BY SeqIs
<1>2. mirror \in [1..count -> Int] BY <1>1
<1>3. Len(mirror) = count BY <1>1, <1>2, ListIs
<1>4. ASSUME NEW j \in 2..count
      PROVE  /\ Chart!Up(values, j) \in Nat /\ Chart!Down(values, j) \in Nat
             /\ Chart!Up(values, j) = 0 <=> ~(values[j] > values[j - 1])
             /\ Chart!Down(values, j) = 0 <=> ~(values[j] < values[j - 1])
             /\ Chart!Up(mirror, j) = Chart!Down(values, j)
             /\ Chart!Down(mirror, j) = Chart!Up(values, j)
  <2>1. j \in 1..count /\ j - 1 \in 1..count BY <1>1
  <2>2. values[j] \in Int /\ values[j - 1] \in Int /\ mirror[j] = -values[j]
        /\ mirror[j - 1] = -values[j - 1]
    BY <1>1, <2>1
  <2> HIDE DEF mirror
  <2>3. QED BY <2>2 DEF Chart!Up, Chart!Down
<1>5. [j \in 2..count |-> Chart!Up(mirror, j)] = [j \in 2..count |-> Chart!Down(values, j)]
      /\ [j \in 2..count |-> Chart!Down(mirror, j)] = [j \in 2..count |-> Chart!Up(values, j)]
  <2> HIDE DEF mirror, count
  <2>1. QED BY <1>4
<1>6. QED BY <1>1, <1>3, <1>4, <1>5

\* Whatever the closes, the index of a period of two or more lies between 0 and
\* 100, is 100 exactly as long as no close has fallen, and that of the mirrored
\* closes is what it lacks to 100 (rsi; of a period of one only the last move
\* counts).
THEOREM AllStrengthBounded ==
  ASSUME NEW values \in Seq(Int), NEW period \in Nat \ {1}
  PROVE  Chart!StrengthIsBounded(values, period)
<1> DEFINE count == Len(values)
           mirror == [j \in DOMAIN values |-> -values[j]]
           ups == [j \in 2..count |-> Chart!Up(values, j)]
           downs == [j \in 2..count |-> Chart!Down(values, j)]
           gains == Chart!Smoothed(ups, period, count)
           losses == Chart!Smoothed(downs, period, count)
<1>1. /\ count \in Nat /\ ups \in [2..count -> Nat] /\ downs \in [2..count -> Nat]
      /\ \A j \in 2..count : /\ ups[j] = 0 <=> ~(values[j] > values[j - 1])
                             /\ downs[j] = 0 <=> ~(values[j] < values[j - 1])
      /\ Len(mirror) = count
      /\ [j \in 2..count |-> Chart!Up(mirror, j)] = downs
      /\ [j \in 2..count |-> Chart!Down(mirror, j)] = ups
  BY MovesAre
<1>2. DOMAIN values = 1..count BY SeqIs
<1> SUFFICES ASSUME NEW i \in 1..count
             PROVE  LET r == Chart!rsi(values, period)[i]
                        mirrored == Chart!rsi(mirror, period)[i]
                        fell == \E j \in 2..i : values[j] < values[j - 1]
                        rose == \E j \in 2..i : values[j] > values[j - 1]
                    IN  r = None \/
                          /\ Chart!AtMost(Chart!Zero, r) /\ Chart!AtMost(r, Chart!Whole(100))
                          /\ r = Chart!Whole(100) <=> ~fell
                          /\ fell /\ rose => Chart!Plus(r, mirrored) = Chart!Whole(100)
  BY <1>2 DEF Chart!StrengthIsBounded
<1>3. Chart!rsi(values, period)[i] =
        IF period = 0 \/ i <= period THEN None ELSE Chart!rsi_from(gains[i], losses[i])
  BY DEF Chart!rsi
<1>4. Chart!rsi(mirror, period)[i] =
        IF period = 0 \/ i <= period THEN None ELSE Chart!rsi_from(losses[i], gains[i])
  <2>1. Chart!rsi(mirror, period) =
          [k \in 1..Len(mirror) |->
             IF period = 0 \/ k <= period THEN None
             ELSE Chart!rsi_from(
                    Chart!Smoothed([j \in 2..Len(mirror) |-> Chart!Up(mirror, j)], period, Len(mirror))[k],
                    Chart!Smoothed([j \in 2..Len(mirror) |-> Chart!Down(mirror, j)], period, Len(mirror))[k])]
    BY DEF Chart!rsi
  <2> HIDE DEF mirror, count, ups, downs
  <2>2. QED BY <1>1, <2>1
<1>5. CASE period = 0 \/ i <= period BY <1>3, <1>5
<1>6. CASE ~(period = 0 \/ i <= period)
  <2> DEFINE G == gains[i]  L == losses[i]
             fell == \E j \in 2..i : values[j] < values[j - 1]
             rose == \E j \in 2..i : values[j] > values[j - 1]
  <2>1. period \in Nat \ {0, 1} /\ i \in (period + 1)..count /\ \A j \in 2..i : j \in 2..count
    BY <1>1, <1>6
  <2>2. Averages(gains, ups, period, count) /\ Averages(losses, downs, period, count)
    <3> HIDE DEF ups, downs, count
    <3>1. period \in Nat \ {0} BY <2>1
    <3>2. QED BY <1>1, <3>1, SmoothedIs
  <2>3. /\ G \in Fraction /\ AtMost(Zero, G) /\ (G = Zero <=> \A j \in 2..i : ups[j] = 0)
        /\ L \in Fraction /\ AtMost(Zero, L) /\ (L = Zero <=> \A j \in 2..i : downs[j] = 0)
    <3> HIDE DEF ups, downs, count, gains, losses
    <3>0. count \in Nat /\ ups \in [2..count -> Nat] /\ downs \in [2..count -> Nat]
          /\ period \in Nat \ {0, 1}
      BY <1>1, <2>1
    <3>1. CountsMoves(gains, ups, period, count) BY ONLY <3>0, <2>2, AveragesSign
    <3>2. CountsMoves(losses, downs, period, count) BY ONLY <3>0, <2>2, AveragesSign
    <3>3. QED BY <2>1, <3>1, <3>2 DEF CountsMoves
  <2>4. (G = Zero <=> ~rose) /\ (L = Zero <=> ~fell)
    <3> HIDE DEF ups, downs, gains, losses
    <3>1. QED BY <1>1, <2>1, <2>3
  <2>5. Chart!rsi(values, period)[i] = Chart!rsi_from(G, L)
        /\ Chart!rsi(mirror, period)[i] = Chart!rsi_from(L, G)
    BY <1>3, <1>4, <1>6
  <2> HIDE DEF G, L
  <2>6. Chart!Whole(100) = Whole(100) /\ Chart!Zero = Zero BY ChartOps
  <2>7. CASE ~fell
    <3>1. Chart!rsi_from(G, L) = Whole(100) BY <2>4, <2>6, <2>7 DEF Chart!rsi_from
    <3>2. AtMost(Zero, Whole(100)) /\ AtMost(Whole(100), Whole(100))
      <4>1. /\ Zero[1] = 0 /\ Zero[2] = 1 /\ Whole(100)[1] = 100 /\ Whole(100)[2] = 1
            /\ 0 * 1 <= 100 * 1 /\ 100 * 1 <= 100 * 1
        BY DEF Zero, Whole
      <4>2. QED BY <4>1 DEF AtMost
    <3>3. QED BY <2>5, <2>6, <2>7, <3>1, <3>2, ChartOps
  <2>8. CASE fell
    <3> DEFINE r == Chart!rsi_from(G, L)
    <3>1. /\ r \in Fraction /\ AtMost(Zero, r) /\ AtMost(r, Whole(100)) /\ r # Whole(100)
          /\ G # Zero => Plus(r, Chart!rsi_from(L, G)) = Whole(100)
      BY <2>3, <2>4, <2>8, StrengthIs
    <3> HIDE DEF r
    <3>2. /\ Chart!AtMost(Zero, r) /\ Chart!AtMost(r, Whole(100)) /\ r # Whole(100)
          /\ rose => Chart!Plus(r, Chart!rsi_from(L, G)) = Whole(100)
      BY <2>4, <3>1, ChartOps
    <3>3. Chart!rsi(values, period)[i] = r BY <2>5 DEF r
    <3> HIDE DEF mirror, ups, downs, gains, losses, count
    <3>4. QED BY <2>5, <2>6, <2>8, <3>2, <3>3
  <2>9. QED BY <2>7, <2>8
<1>7. QED BY <1>5, <1>6

-----------------------------------------------------------------------------
(***************************************************************************)
(* Sums of vectors                                                         *)
(***************************************************************************)
Vectors(n) == [1..n -> Fraction]

LEMMA SumIs ==
  ASSUME NEW n \in Nat, NEW f \in Vectors(n)
  PROVE  /\ SumOf(f) \in Fraction /\ SumOf(f) = Stretch(f, 1, n)
         /\ Stretch(f, 1, 0) = Zero
         /\ \A i \in 0..n : Stretch(f, 1, i) \in Fraction
         /\ \A i \in 1..n : Stretch(f, 1, i) = Plus(Stretch(f, 1, i - 1), f[i]) /\ f[i] \in Fraction
<1>1. f \in [1..n -> Fraction] /\ 1 \in Int /\ n \in Int /\ 1 >= 1 BY DEF Vectors
<1>2. f = [k \in 1..n |-> f[k]] BY <1>1
<1>3. SumOf(f) = Stretch(f, 1, n) BY <1>2 DEF Stretch
<1>4. ASSUME NEW i \in 0..n PROVE Stretch(f, 1, i) \in Fraction
  <2>1. i \in Int /\ i <= n OBVIOUS
  <2>2. QED BY <1>1, <2>1, StretchIs
<1>5. Stretch(f, 1, 0) = Zero
  <2>1. 0 \in Int /\ 0 < 1 /\ 0 <= n OBVIOUS
  <2>2. QED BY <1>1, <2>1, StretchIs
<1>6. n \in 0..n OBVIOUS
<1>7. ASSUME NEW i \in 1..n
      PROVE  Stretch(f, 1, i) = Plus(Stretch(f, 1, i - 1), f[i]) /\ f[i] \in Fraction
  <2>1. f[i] \in Fraction BY <1>1
  <2>2. QED BY ONLY <1>1, <1>7, <2>1, StretchNext
<1>8. QED BY <1>3, <1>4, <1>5, <1>6, <1>7

\* Sums are linear.
LEMMA SumPlus ==
  ASSUME NEW n \in Nat, NEW f \in Vectors(n), NEW g \in Vectors(n), NEW h \in Vectors(n),
         \A i \in 1..n : h[i] = Plus(f[i], g[i])
  PROVE  SumOf(h) = Plus(SumOf(f), SumOf(g))
<1> DEFINE Good == {i \in 0..n : Stretch(h, 1, i) = Plus(Stretch(f, 1, i), Stretch(g, 1, i))}
<1>1. 0 \in Good
  <2>1. Plus(Zero, Zero) = Zero BY Numbers, PlusLaws
  <2>2. QED BY <2>1, SumIs
<1>2. ASSUME NEW i \in 1..n, i - 1 \in Good PROVE i \in Good
  <2> DEFINE a == Stretch(f, 1, i - 1)  b == Stretch(g, 1, i - 1)  x == f[i]  y == g[i]
  <2>1. i - 1 \in 0..n /\ i \in 0..n OBVIOUS
  <2>2. a \in Fraction /\ b \in Fraction /\ x \in Fraction /\ y \in Fraction BY <2>1, SumIs
  <2>3. /\ Stretch(f, 1, i) = Plus(a, x) /\ Stretch(g, 1, i) = Plus(b, y)
        /\ Stretch(h, 1, i) = Plus(Plus(a, b), Plus(x, y))
    <3>1. Stretch(h, 1, i) = Plus(Stretch(h, 1, i - 1), h[i]) BY SumIs
    <3>2. QED BY <1>2, <3>1, SumIs
  <2> HIDE DEF a, b, x, y
  <2>4. Plus(Plus(a, b), Plus(x, y)) = Plus(Plus(a, x), Plus(b, y))
    <3>1. Plus(x, y) \in Fraction /\ Plus(b, y) \in Fraction BY <2>2, FieldTypes
    <3>2. Plus(Plus(a, b), Plus(x, y)) = Plus(a, Plus(b, Plus(x, y))) BY <2>2, <3>1, PlusLaws
    <3>3. Plus(b, Plus(x, y)) = Plus(x, Plus(b, y))
      <4>1. Plus(b, Plus(x, y)) = Plus(Plus(b, x), y) BY <2>2, PlusLaws
      <4>2. Plus(b, x) = Plus(x, b) BY <2>2, PlusLaws
      <4>3. Plus(Plus(x, b), y) = Plus(x, Plus(b, y)) BY <2>2, PlusLaws
      <4>4. QED BY <4>1, <4>2, <4>3
    <3>4. Plus(a, Plus(x, Plus(b, y))) = Plus(Plus(a, x), Plus(b, y)) BY <2>2, <3>1, PlusLaws
    <3>5. QED BY <3>2, <3>3, <3>4
  <2>5. QED BY <2>1, <2>3, <2>4
<1>3. 0..n \subseteq Good
  <2> HIDE DEF Good
  <2>1. QED BY <1>1, <1>2, UptoInduction
<1>4. n \in Good BY <1>3
<1>5. QED BY <1>4, SumIs

LEMMA SumTimes ==
  ASSUME NEW n \in Nat, NEW f \in Vectors(n), NEW h \in Vectors(n), NEW c \in Fraction,
         \A i \in 1..n : h[i] = Times(c, f[i])
  PROVE  SumOf(h) = Times(c, SumOf(f))
<1>1. /\ 1 \in Int /\ n \in Int /\ f \in [1..n -> Fraction] /\ h \in [1..n -> Fraction]
      /\ 1 - 1 <= n /\ n <= n
  BY DEF Vectors
<1>2. Stretch(h, 1, n) = Times(c, Stretch(f, 1, n)) BY <1>1, StretchScaled
<1>3. QED BY <1>2, SumIs

\* A sum in which one value at most is not zero is that value.
LEMMA SumOfOne ==
  ASSUME NEW n \in Nat, NEW f \in Vectors(n), NEW j \in 1..n,
         \A i \in 1..n : i # j => f[i] = Zero
  PROVE  SumOf(f) = f[j]
<1> DEFINE Good == {i \in 0..n : Stretch(f, 1, i) = IF i < j THEN Zero ELSE f[j]}
<1>1. 0 \in Good BY SumIs
<1>2. ASSUME NEW i \in 1..n, i - 1 \in Good PROVE i \in Good
  <2>1. i \in 0..n /\ f[i] \in Fraction /\ f[j] \in Fraction
        /\ Stretch(f, 1, i) = Plus(Stretch(f, 1, i - 1), f[i])
    BY SumIs
  <2>2. Stretch(f, 1, i - 1) = IF i - 1 < j THEN Zero ELSE f[j] BY <1>2
  <2>3. Plus(Zero, Zero) = Zero /\ Plus(Zero, f[j]) = f[j] /\ Plus(f[j], Zero) = f[j]
    BY <2>1, Numbers, PlusLaws
  <2>4. QED BY <2>1, <2>2, <2>3
<1>3. 0..n \subseteq Good
  <2> HIDE DEF Good
  <2>1. QED BY <1>1, <1>2, UptoInduction
<1>4. n \in Good BY <1>3
<1>5. QED BY <1>4, SumIs

LEMMA SumOfNone ==
  ASSUME NEW n \in Nat, NEW f \in Vectors(n), \A i \in 1..n : f[i] = Zero
  PROVE  SumOf(f) = Zero
<1>1. CASE n = 0 BY <1>1, SumIs
<1>2. CASE n # 0
  <2>1. n \in 1..n BY <1>2
  <2>2. QED BY <2>1, SumOfOne
<1>3. QED BY <1>1, <1>2

LEMMA SumSign ==
  ASSUME NEW n \in Nat, NEW f \in Vectors(n), \A i \in 1..n : AtMost(Zero, f[i])
  PROVE  AtMost(Zero, SumOf(f))
<1>1. f \in [1..n -> Fraction] /\ NotNegative(f) BY DEF Vectors, NotNegative
<1>2. 1 \in Int /\ n \in Int /\ 1 >= 1 /\ n <= n OBVIOUS
<1>3. AtMost(Zero, Stretch(f, 1, n)) BY <1>1, <1>2, StretchSign
<1>4. QED BY <1>3, SumIs

\* Rows and columns of a table add up to the same.
Tables(n, m) == [1..n -> [1..m -> Fraction]]
RowSums(A, n, m) == [i \in 1..n |-> SumOf([j \in 1..m |-> A[i][j]])]
ColumnSums(A, n, m) == [j \in 1..m |-> SumOf([i \in 1..n |-> A[i][j]])]

LEMMA SumsMeet ==
  ASSUME NEW n \in Nat, NEW m \in Nat, NEW A \in Tables(n, m)
  PROVE  SumOf(RowSums(A, n, m)) = SumOf(ColumnSums(A, n, m))
<1> DEFINE C(i) == [j \in 1..m |-> Stretch([l \in 1..n |-> A[l][j]], 1, i)]
           R == RowSums(A, n, m)
           Good == {i \in 0..n : Stretch(R, 1, i) = SumOf(C(i))}
<1>1. ASSUME NEW j \in 1..m PROVE [l \in 1..n |-> A[l][j]] \in Vectors(n)
  BY DEF Vectors, Tables
<1>2. ASSUME NEW i \in 1..n
      PROVE  /\ [j \in 1..m |-> A[i][j]] \in Vectors(m)
             /\ SumOf([j \in 1..m |-> A[i][j]]) \in Fraction
  <2>1. [j \in 1..m |-> A[i][j]] \in Vectors(m) BY DEF Vectors, Tables
  <2>2. QED BY <2>1, SumIs
<1>3. R \in Vectors(n) /\ \A i \in 1..n : R[i] = SumOf([j \in 1..m |-> A[i][j]])
  BY <1>2 DEF Vectors, RowSums
<1> HIDE DEF R
<1>4. ASSUME NEW i \in 0..n
      PROVE  C(i) \in Vectors(m) /\ \A j \in 1..m : C(i)[j] = Stretch([l \in 1..n |-> A[l][j]], 1, i)
  <2>1. \A j \in 1..m : Stretch([l \in 1..n |-> A[l][j]], 1, i) \in Fraction BY <1>1, SumIs
  <2>2. QED BY <2>1 DEF Vectors
<1>5. 0 \in Good
  <2>1. 0 \in 0..n OBVIOUS
  <2>2. \A j \in 1..m : C(0)[j] = Zero BY <1>1, <1>4, <2>1, SumIs
  <2>3. C(0) \in Vectors(m) BY <1>4, <2>1
  <2> HIDE DEF C
  <2>4. SumOf(C(0)) = Zero BY <2>2, <2>3, SumOfNone
  <2>5. QED BY <1>3, <2>1, <2>4, SumIs
<1>6. ASSUME NEW i \in 1..n, i - 1 \in Good PROVE i \in Good
  <2>1. i - 1 \in 0..n /\ i \in 0..n OBVIOUS
  <2> DEFINE a == [j \in 1..m |-> A[i][j]]
  <2>2. a \in Vectors(m) /\ R[i] = SumOf(a) BY <1>2, <1>3
  <2>3. ASSUME NEW j \in 1..m PROVE C(i)[j] = Plus(C(i - 1)[j], a[j])
    <3> DEFINE f == [l \in 1..n |-> A[l][j]]
    <3>1. f \in Vectors(n) /\ f[i] = a[j] BY <1>1
    <3>2. C(i)[j] = Stretch(f, 1, i) /\ C(i - 1)[j] = Stretch(f, 1, i - 1) BY <1>4, <2>1
    <3> HIDE DEF f, C, a
    <3>3. Stretch(f, 1, i) = Plus(Stretch(f, 1, i - 1), f[i]) BY <3>1, SumIs
    <3>4. QED BY <3>1, <3>2, <3>3
  <2>4. C(i) \in Vectors(m) /\ C(i - 1) \in Vectors(m) BY <1>4, <2>1
  <2> HIDE DEF C, a
  <2>5. SumOf(C(i)) = Plus(SumOf(C(i - 1)), SumOf(a)) BY <2>2, <2>3, <2>4, SumPlus
  <2>6. Stretch(R, 1, i) = Plus(Stretch(R, 1, i - 1), R[i]) BY <1>3, SumIs
  <2>7. QED BY <1>6, <2>1, <2>2, <2>5, <2>6
<1>7. 0..n \subseteq Good
  <2> HIDE DEF Good
  <2>1. QED BY <1>5, <1>6, UptoInduction
<1>8. n \in 0..n /\ n \in Good BY <1>7
<1>9. C(n) = ColumnSums(A, n, m)
  <2>1. \A j \in 1..m : Stretch([l \in 1..n |-> A[l][j]], 1, n) = SumOf([l \in 1..n |-> A[l][j]])
    BY <1>1, SumIs
  <2>2. QED BY <2>1 DEF ColumnSums
<1>10. SumOf(R) = Stretch(R, 1, n) BY <1>3, SumIs
<1>11. QED BY <1>8, <1>9, <1>10 DEF R

-----------------------------------------------------------------------------
(***************************************************************************)
(* Vectors and matrices                                                    *)
(***************************************************************************)
Inner(v, w, n) == SumOf([c \in 1..n |-> Times(v[c], w[c])])
UnitVector(r, n) == [c \in 1..n |-> IF c = r THEN One ELSE Zero]
Column(A, c, n) == [r \in 1..n |-> A[r][c]]
AlmostOne(r, c) == IF c = r THEN One ELSE Zero

LEMMA InnerIs ==
  ASSUME NEW n \in Nat, NEW v \in Vectors(n), NEW w \in Vectors(n)
  PROVE  /\ [c \in 1..n |-> Times(v[c], w[c])] \in Vectors(n)
         /\ Inner(v, w, n) \in Fraction /\ Inner(v, w, n) = Inner(w, v, n)
<1>1. \A c \in 1..n : v[c] \in Fraction /\ w[c] \in Fraction BY DEF Vectors
<1>2. \A c \in 1..n : Times(v[c], w[c]) \in Fraction /\ Times(v[c], w[c]) = Times(w[c], v[c])
  BY <1>1, FieldTypes, TimesLaws
<1>3. [c \in 1..n |-> Times(v[c], w[c])] \in Vectors(n) BY <1>2 DEF Vectors
<1>4. [c \in 1..n |-> Times(v[c], w[c])] = [c \in 1..n |-> Times(w[c], v[c])] BY <1>2
<1>5. QED BY <1>3, <1>4, SumIs DEF Inner

LEMMA InnerLinear ==
  ASSUME NEW n \in Nat, NEW v \in Vectors(n), NEW x \in Vectors(n), NEW y \in Vectors(n),
         NEW b \in Fraction, NEW w \in Vectors(n),
         \A c \in 1..n : w[c] = Plus(x[c], Times(b, y[c]))
  PROVE  Inner(v, w, n) = Plus(Inner(v, x, n), Times(b, Inner(v, y, n)))
<1> DEFINE f == [c \in 1..n |-> Times(v[c], x[c])]  g == [c \in 1..n |-> Times(v[c], y[c])]
           h == [c \in 1..n |-> Times(v[c], w[c])]  k == [c \in 1..n |-> Times(b, g[c])]
<1>1. f \in Vectors(n) /\ g \in Vectors(n) /\ h \in Vectors(n) BY InnerIs
<1>2. k \in Vectors(n)
  <2>1. \A c \in 1..n : g[c] \in Fraction BY <1>1 DEF Vectors
  <2>2. \A c \in 1..n : Times(b, g[c]) \in Fraction BY <2>1, FieldTypes
  <2>3. QED BY <2>2 DEF Vectors
<1>3. ASSUME NEW c \in 1..n PROVE h[c] = Plus(f[c], k[c])
  <2> DEFINE p == v[c]  q == x[c]  r == y[c]
  <2>1. p \in Fraction /\ q \in Fraction /\ r \in Fraction BY DEF Vectors
  <2>2. h[c] = Times(p, Plus(q, Times(b, r))) /\ f[c] = Times(p, q)
        /\ k[c] = Times(b, Times(p, r))
    OBVIOUS
  <2> HIDE DEF p, q, r
  <2>3. Times(b, r) \in Fraction BY <2>1, FieldTypes
  <2>4. Times(p, Plus(q, Times(b, r))) = Plus(Times(p, q), Times(p, Times(b, r)))
    BY <2>1, <2>3, TimesLaws
  <2>5. Times(p, Times(b, r)) = Times(Times(p, b), r) /\ Times(p, b) = Times(b, p)
        /\ Times(b, Times(p, r)) = Times(Times(b, p), r)
    BY <2>1, TimesLaws
  <2> HIDE DEF f, h, k
  <2>6. QED BY <2>2, <2>4, <2>5
<1> HIDE DEF f, g, h, k
<1>4. SumOf(h) = Plus(SumOf(f), SumOf(k)) BY <1>1, <1>2, <1>3, SumPlus
<1>5. SumOf(k) = Times(b, SumOf(g))
  <2>1. \A c \in 1..n : k[c] = Times(b, g[c]) BY DEF k
  <2>2. QED BY <1>1, <1>2, <2>1, SumTimes
<1>6. QED BY <1>4, <1>5 DEF Inner, f, g, h

LEMMA InnerUnit ==
  ASSUME NEW n \in Nat, NEW v \in Vectors(n), NEW r \in 1..n
  PROVE  /\ UnitVector(r, n) \in Vectors(n)
         /\ Inner(v, UnitVector(r, n), n) = v[r] /\ Inner(UnitVector(r, n), v, n) = v[r]
<1> DEFINE e == UnitVector(r, n)  f == [c \in 1..n |-> Times(v[c], e[c])]
<1>1. e \in Vectors(n) BY Numbers DEF UnitVector, Vectors
<1>2. \A c \in 1..n : v[c] \in Fraction BY DEF Vectors
<1>3. e[r] = One /\ \A c \in 1..n : c # r => e[c] = Zero BY DEF UnitVector
<1> HIDE DEF e
<1>4. f \in Vectors(n) BY <1>1, InnerIs
<1>5. ASSUME NEW c \in 1..n, c # r PROVE f[c] = Zero
  <2>1. Times(v[c], Zero) = Zero BY <1>2, TimesLaws
  <2>2. QED BY <1>3, <1>5, <2>1
<1>6. f[r] = v[r] BY <1>2, <1>3, UnitLaws
<1>7. SumOf(f) = v[r]
  <2> HIDE DEF f
  <2>1. QED BY <1>4, <1>5, <1>6, SumOfOne
<1>8. Inner(v, e, n) = v[r] BY <1>7 DEF Inner
<1>9. Inner(e, v, n) = Inner(v, e, n) BY <1>1, InnerIs
<1>10. QED BY <1>1, <1>8, <1>9 DEF e

\* The product of a row, a matrix and a column, from either end.
LEMMA Through ==
  ASSUME NEW n \in Nat, NEW v \in Vectors(n), NEW B \in Tables(n, n), NEW x \in Vectors(n)
  PROVE  Inner(v, [i \in 1..n |-> Inner(B[i], x, n)], n)
           = Inner([j \in 1..n |-> Inner(v, Column(B, j, n), n)], x, n)
<1> DEFINE T == [i \in 1..n |-> [j \in 1..n |-> Times(v[i], Times(B[i][j], x[j]))]]
<1>1. ASSUME NEW i \in 1..n, NEW j \in 1..n
      PROVE  /\ v[i] \in Fraction /\ B[i][j] \in Fraction /\ x[j] \in Fraction
             /\ Times(B[i][j], x[j]) \in Fraction
             /\ Times(v[i], Times(B[i][j], x[j])) \in Fraction
             /\ Times(v[i], Times(B[i][j], x[j])) = Times(x[j], Times(v[i], B[i][j]))
  <2> DEFINE p == v[i]  q == B[i][j]  r == x[j]
  <2>1. p \in Fraction /\ q \in Fraction /\ r \in Fraction BY DEF Vectors, Tables
  <2> HIDE DEF p, q, r
  <2>2. Times(q, r) \in Fraction /\ Times(p, Times(q, r)) \in Fraction /\ Times(p, q) \in Fraction
    BY <2>1, FieldTypes
  <2>3. Times(p, Times(q, r)) = Times(Times(p, q), r) BY <2>1, TimesLaws
  <2>4. Times(Times(p, q), r) = Times(r, Times(p, q)) BY <2>1, <2>2, TimesLaws
  <2>5. QED BY <2>1, <2>2, <2>3, <2>4 DEF p, q, r
<1>2. T \in Tables(n, n) BY <1>1 DEF Tables
<1>3. ASSUME NEW i \in 1..n
      PROVE  /\ B[i] \in Vectors(n) /\ Column(B, i, n) \in Vectors(n)
             /\ Inner(B[i], x, n) \in Fraction /\ Inner(v, Column(B, i, n), n) \in Fraction
  <2>1. B[i] \in Vectors(n) /\ Column(B, i, n) \in Vectors(n) BY <1>1 DEF Vectors, Tables, Column
  <2>2. QED BY <2>1, InnerIs
<1>4. ASSUME NEW i \in 1..n
      PROVE  SumOf([j \in 1..n |-> T[i][j]]) = Times(v[i], Inner(B[i], x, n))
  <2> DEFINE f == [j \in 1..n |-> Times(B[i][j], x[j])]  h == [j \in 1..n |-> T[i][j]]
  <2>1. f \in Vectors(n) /\ h \in Vectors(n) BY <1>1 DEF Vectors
  <2>2. \A j \in 1..n : h[j] = Times(v[i], f[j]) OBVIOUS
  <2>3. v[i] \in Fraction BY DEF Vectors
  <2> HIDE DEF f, h
  <2>4. SumOf(h) = Times(v[i], SumOf(f)) BY <2>1, <2>2, <2>3, SumTimes
  <2>5. QED BY <2>4 DEF f, h, Inner
<1>5. ASSUME NEW j \in 1..n
      PROVE  SumOf([i \in 1..n |-> T[i][j]]) = Times(Inner(v, Column(B, j, n), n), x[j])
  <2> DEFINE f == [i \in 1..n |-> Times(v[i], Column(B, j, n)[i])]  h == [i \in 1..n |-> T[i][j]]
  <2>1. f \in Vectors(n) BY <1>3, InnerIs
  <2>2. h \in Vectors(n) BY <1>1 DEF Vectors
  <2>3. \A i \in 1..n : h[i] = Times(x[j], f[i]) BY <1>1 DEF Column
  <2>4. x[j] \in Fraction BY DEF Vectors
  <2> HIDE DEF f, h
  <2>5. SumOf(h) = Times(x[j], SumOf(f)) BY <2>1, <2>2, <2>3, <2>4, SumTimes
  <2>6. SumOf(f) \in Fraction BY <2>1, SumIs
  <2>7. Times(x[j], SumOf(f)) = Times(SumOf(f), x[j]) BY <2>4, <2>6, TimesLaws
  <2>8. QED BY <2>5, <2>7 DEF f, h, Inner
<1> HIDE DEF T
<1>6. SumOf(RowSums(T, n, n)) = SumOf(ColumnSums(T, n, n)) BY <1>2, SumsMeet
<1>7. Inner(v, [i \in 1..n |-> Inner(B[i], x, n)], n) = SumOf(RowSums(T, n, n))
  <2>1. [i \in 1..n |-> Times(v[i], [l \in 1..n |-> Inner(B[l], x, n)][i])] = RowSums(T, n, n)
    BY <1>4 DEF RowSums
  <2>2. QED BY <2>1 DEF Inner
<1>8. Inner([j \in 1..n |-> Inner(v, Column(B, j, n), n)], x, n) = SumOf(ColumnSums(T, n, n))
  <2>1. [j \in 1..n |-> Times([l \in 1..n |-> Inner(v, Column(B, l, n), n)][j], x[j])]
          = ColumnSums(T, n, n)
    BY <1>5 DEF ColumnSums
  <2> DEFINE y == [l \in 1..n |-> Inner(v, Column(B, l, n), n)]
  <2> HIDE DEF y
  <2>2. [j \in 1..n |-> Times(y[j], x[j])] = ColumnSums(T, n, n) BY <2>1 DEF y
  <2>3. Inner(y, x, n) = SumOf(ColumnSums(T, n, n)) BY <2>2 DEF Inner
  <2>4. QED BY <2>3 DEF y
<1>9. QED BY <1>6, <1>7, <1>8

\* V takes C to the unit matrix.
Inverts(V, C, n) ==
  \A r, c \in 1..n : Inner(V[r], Column(C, c, n), n) = AlmostOne(r, c)

Symmetric(C, n) == \A r, c \in 1..n : C[r][c] = C[c][r]

LEMMA ColumnIs ==
  ASSUME NEW n \in Nat, NEW C \in Tables(n, n)
  PROVE  /\ \A c \in 1..n : C[c] \in Vectors(n) /\ Column(C, c, n) \in Vectors(n)
         /\ \A r, c \in 1..n : C[r][c] \in Fraction
         /\ Symmetric(C, n) => \A c \in 1..n : Column(C, c, n) = C[c]
<1>1. \A r, c \in 1..n : C[r][c] \in Fraction BY DEF Tables
<1>2. \A c \in 1..n : C[c] \in Vectors(n) /\ Column(C, c, n) \in Vectors(n)
  BY <1>1 DEF Tables, Vectors, Column
<1>3. ASSUME Symmetric(C, n), NEW c \in 1..n PROVE Column(C, c, n) = C[c]
  <2>1. \A r \in 1..n : C[r][c] = C[c][r] BY <1>3 DEF Symmetric
  <2>2. C[c] = [r \in 1..n |-> C[c][r]] BY <1>2 DEF Vectors
  <2>3. QED BY <2>1, <2>2 DEF Column
<1>4. QED BY <1>1, <1>2, <1>3

\* The inverse of a symmetric matrix is symmetric and takes it to the unit
\* matrix from the other side too.
LEMMA InverseTurns ==
  ASSUME NEW n \in Nat, NEW C \in Tables(n, n), NEW V \in Tables(n, n),
         Symmetric(C, n), Inverts(V, C, n)
  PROVE  Symmetric(V, n) /\ Inverts(C, V, n)
<1>1. \A c \in 1..n : C[c] \in Vectors(n) /\ V[c] \in Vectors(n) /\ Column(C, c, n) = C[c]
      /\ Column(V, c, n) \in Vectors(n)
  BY ColumnIs
<1>2. ASSUME NEW r \in 1..n, NEW c \in 1..n PROVE Inner(C[c], V[r], n) = AlmostOne(r, c)
  <2>1. Inner(V[r], C[c], n) = AlmostOne(r, c) BY <1>1 DEF Inverts
  <2>2. V[r] \in Vectors(n) /\ C[c] \in Vectors(n) BY <1>1
  <2>3. QED BY <2>1, <2>2, InnerIs
<1>3. ASSUME NEW r \in 1..n, NEW s \in 1..n PROVE V[r][s] = V[s][r]
  <2> DEFINE v == V[r]  x == V[s]
  <2>1. v \in Vectors(n) /\ x \in Vectors(n) BY <1>1
  <2>2. [m \in 1..n |-> Inner(C[m], x, n)] = UnitVector(s, n)
    BY <1>2 DEF UnitVector, AlmostOne
  <2>3. [j \in 1..n |-> Inner(v, Column(C, j, n), n)] = UnitVector(r, n)
    BY <1>1 DEF UnitVector, AlmostOne, Inverts
  <2> HIDE DEF v, x
  <2>4. Inner(v, [m \in 1..n |-> Inner(C[m], x, n)], n)
          = Inner([j \in 1..n |-> Inner(v, Column(C, j, n), n)], x, n)
    BY <2>1, Through
  <2>5. Inner(v, UnitVector(s, n), n) = v[s] /\ Inner(UnitVector(r, n), x, n) = x[r]
    BY <2>1, InnerUnit
  <2>6. v[s] = x[r] BY <2>2, <2>3, <2>4, <2>5
  <2>7. QED BY <2>6 DEF v, x
<1>4. Symmetric(V, n) BY <1>3 DEF Symmetric
<1>5. \A c \in 1..n : Column(V, c, n) = V[c] BY <1>4, ColumnIs
<1>6. QED BY <1>2, <1>4, <1>5 DEF Inverts, AlmostOne

\* What the inverse makes of x, the matrix takes back to x.
LEMMA InverseSolves ==
  ASSUME NEW n \in Nat, NEW C \in Tables(n, n), NEW V \in Tables(n, n), Inverts(C, V, n),
         NEW x \in Vectors(n), NEW c \in 1..n
  PROVE  Inner(C[c], [m \in 1..n |-> Inner(V[m], x, n)], n) = x[c]
<1>1. C[c] \in Vectors(n) BY ColumnIs
<1>2. [j \in 1..n |-> Inner(C[c], Column(V, j, n), n)] = UnitVector(c, n)
  BY DEF Inverts, UnitVector, AlmostOne
<1>3. Inner(C[c], [m \in 1..n |-> Inner(V[m], x, n)], n)
        = Inner([j \in 1..n |-> Inner(C[c], Column(V, j, n), n)], x, n)
  BY <1>1, Through
<1>4. Inner(UnitVector(c, n), x, n) = x[c] BY InnerUnit
<1>5. QED BY <1>2, <1>3, <1>4

\* One more of one asset and one less of another.
Shift(up, down, n) ==
  [c \in 1..n |-> IF c = up THEN One ELSE IF c = down THEN Minus(Zero, One) ELSE Zero]

LEMMA NegativeIs ==
  ASSUME NEW f \in Fraction, NEW g \in Fraction
  PROVE  /\ Whole(-1) \in Fraction
         /\ Plus(f, Times(Whole(-1), g)) = Minus(f, g)
         /\ Times(Whole(-1), One) = Minus(Zero, One) /\ Times(Whole(-1), Zero) = Zero
         /\ AtMost(Zero, Times(f, f))
<1>1. Whole(-1) \in Fraction
  <2>1. -1 \in Int OBVIOUS
  <2>2. QED BY ONLY <2>1, WholeIs
<1>2. Times(Whole(-1), g) = Minus(Zero, g) BY UnitLaws
<1>3. Plus(f, Minus(Zero, g)) = Minus(f, g)
  <2> DEFINE p == f[1]  q == f[2]  r == g[1]  s == g[2]
  <2>1. p \in Int /\ q \in Int \ {0} /\ r \in Int /\ s \in Int \ {0} /\ Is(f, p, q) /\ Is(g, r, s)
        /\ Is(Zero, 0, 1)
    BY FractionIs, IsOwn, Numbers
  <2> HIDE DEF p, q, r, s
  <2>2. Is(Minus(Zero, g), 0 * s - r * 1, 1 * s) /\ Is(Minus(f, g), p * s - r * q, q * s)
    BY <2>1, IsPlus
  <2>3. 0 * s - r * 1 = 0 - r /\ 1 * s = s BY <2>1
  <2>4. Is(Minus(Zero, g), 0 - r, s) BY <2>2, <2>3
  <2>5. Is(Plus(f, Minus(Zero, g)), p * s + (0 - r) * q, q * s) BY <2>1, <2>4, IsPlus
  <2>6. p * s + (0 - r) * q = p * s - r * q BY <2>1
  <2>7. QED BY <2>2, <2>5, <2>6, SameValue
<1>4. Times(Whole(-1), One) = Minus(Zero, One) /\ Times(Whole(-1), Zero) = Zero
  BY <1>1, Numbers, UnitLaws, TimesLaws
<1>5. AtMost(Zero, Times(f, f))
  <2> DEFINE p == f[1]  q == f[2]
  <2>1. p \in Int /\ q \in Int /\ q > 0 /\ Is(f, p, q) /\ Is(Zero, 0, 1)
    BY FractionIs, IsOwn, Numbers
  <2> HIDE DEF p, q
  <2>2. Is(Times(f, f), p * p, q * q) BY <2>1, IsTimes
  <2>3. q * q > 0 /\ p * p >= 0
    <3>1. q * q > 0 BY <2>1
    <3>2. CASE p >= 0 BY <2>1, <3>1, <3>2
    <3>3. CASE p < 0 BY <2>1, <3>1, <3>3
    <3>4. QED BY <2>1, <3>2, <3>3
  <2>4. 0 * (q * q) <= (p * p) * 1 BY <2>1, <2>3
  <2>5. QED BY <2>1, <2>2, <2>3, <2>4, IsOrder
<1>6. QED BY <1>1, <1>2, <1>3, <1>4, <1>5

LEMMA ShiftIs ==
  ASSUME NEW n \in Nat, NEW v \in Vectors(n), NEW up \in 1..n, NEW down \in 1..n, up # down
  PROVE  /\ Shift(up, down, n) \in Vectors(n)
         /\ Inner(v, Shift(up, down, n), n) = Minus(v[up], v[down])
<1> DEFINE x == UnitVector(up, n)  y == UnitVector(down, n)  w == Shift(up, down, n)
           b == Whole(-1)
<1>1. x \in Vectors(n) /\ y \in Vectors(n) /\ v[up] \in Fraction /\ v[down] \in Fraction
  BY InnerUnit DEF Vectors
<1>2. b \in Fraction /\ Minus(Zero, One) \in Fraction BY Numbers, NegativeIs, FieldTypes
<1>3. w \in Vectors(n) BY <1>2, Numbers DEF Shift, Vectors
<1>4. ASSUME NEW c \in 1..n PROVE w[c] = Plus(x[c], Times(b, y[c]))
  <2>1. /\ w[c] = IF c = up THEN One ELSE IF c = down THEN Minus(Zero, One) ELSE Zero
        /\ x[c] = (IF c = up THEN One ELSE Zero) /\ y[c] = IF c = down THEN One ELSE Zero
    BY DEF Shift, UnitVector
  <2>2. Times(b, One) = Minus(Zero, One) /\ Times(b, Zero) = Zero BY Numbers, NegativeIs
  <2>3. Plus(One, Zero) = One /\ Plus(Zero, Minus(Zero, One)) = Minus(Zero, One)
        /\ Plus(Zero, Zero) = Zero
    BY <1>2, Numbers, PlusLaws
  <2> HIDE DEF x, y, w, b
  <2>4. CASE c = up BY <2>1, <2>2, <2>3, <2>4
  <2>5. CASE c = down BY <2>1, <2>2, <2>3, <2>5
  <2>6. CASE c # up /\ c # down BY <2>1, <2>2, <2>3, <2>6
  <2>7. QED BY <2>4, <2>5, <2>6
<1>5. Inner(v, x, n) = v[up] /\ Inner(v, y, n) = v[down] BY InnerUnit
<1> HIDE DEF x, y, w, b
<1>6. Inner(v, w, n) = Plus(Inner(v, x, n), Times(b, Inner(v, y, n)))
  BY <1>1, <1>2, <1>3, <1>4, InnerLinear
<1>7. Plus(v[up], Times(b, v[down])) = Minus(v[up], v[down]) BY <1>1, NegativeIs DEF b
<1>8. QED BY <1>3, <1>5, <1>6, <1>7 DEF w

-----------------------------------------------------------------------------
(***************************************************************************)
(* Portfolios                                                              *)
(***************************************************************************)
Image(C, w, n) == [i \in 1..n |-> Inner(C[i], w, n)]

LEMMA ImageIs ==
  ASSUME NEW n \in Nat, NEW C \in Tables(n, n), NEW w \in Vectors(n)
  PROVE  /\ Image(C, w, n) \in Vectors(n)
         /\ \A i \in 1..n : Image(C, w, n)[i] = Inner(C[i], w, n) /\ C[i] \in Vectors(n)
<1>1. \A i \in 1..n : C[i] \in Vectors(n) BY ColumnIs
<1>2. \A i \in 1..n : Inner(C[i], w, n) \in Fraction BY <1>1, InnerIs
<1>3. QED BY <1>1, <1>2 DEF Image, Vectors

LEMMA InnerIn ==
  ASSUME NEW n \in Nat, NEW v \in Vectors(n), NEW w \in Vectors(n)
  PROVE  Inner(v, w, n) \in Fraction /\ Inner(v, w, n) = Inner(w, v, n)
BY InnerIs

\* What shifting weights does to the covariances with them.
Slope(C, up, down, n) == [i \in 1..n |-> Minus(C[i][up], C[i][down])]

\* The weights whose covariance with every asset is the same: no shift from one
\* asset to another lessens the variance.
LEMMA Best ==
  ASSUME NEW n \in Nat, NEW C \in Tables(n, n), Symmetric(C, n), NEW w \in Vectors(n),
         NEW m \in Fraction, \A c \in 1..n : Inner(C[c], w, n) = m,
         NEW up \in 1..n, NEW down \in 1..n, up # down, NEW by \in Fraction,
         AtMost(Zero, Minus(Slope(C, up, down, n)[up], Slope(C, up, down, n)[down])),
         NEW x \in Vectors(n), \A c \in 1..n : x[c] = Plus(w[c], Times(by, Shift(up, down, n)[c]))
  PROVE  AtMost(Inner(w, Image(C, w, n), n), Inner(x, Image(C, x, n), n))
<1> DEFINE e == Shift(up, down, n)  g == Slope(C, up, down, n)  q == Image(C, w, n)
           y == Image(C, x, n)  G == Minus(g[up], g[down])  b == Whole(-1)
<1>1. /\ \A i \in 1..n : C[i] \in Vectors(n)
      /\ \A i \in 1..n : \A j \in 1..n : C[i][j] \in Fraction
      /\ e \in Vectors(n)
  BY ColumnIs, ShiftIs
<1>2. ASSUME NEW i \in 1..n
      PROVE  g[i] \in Fraction /\ g[i] = Minus(C[i][up], C[i][down]) /\ Inner(C[i], e, n) = g[i]
  <2>1. g[i] = Minus(C[i][up], C[i][down]) BY DEF Slope
  <2>2. C[i] \in Vectors(n) BY <1>1
  <2>3. Inner(C[i], e, n) = Minus(C[i][up], C[i][down]) BY <2>2, ShiftIs
  <2>4. C[i][up] \in Fraction /\ C[i][down] \in Fraction BY <1>1
  <2>5. QED BY <2>1, <2>3, <2>4, FieldTypes
<1>3. g \in Vectors(n) BY <1>2 DEF Vectors, Slope
<1>4. q \in Vectors(n) /\ \A i \in 1..n : q[i] = m BY ImageIs
<1>5. y \in Vectors(n) /\ \A i \in 1..n : y[i] = Inner(C[i], x, n) BY ImageIs
<1> HIDE DEF e, g, q, y
<1>6. \A c \in 1..n : x[c] = Plus(w[c], Times(by, e[c])) BY DEF e
<1>7. ASSUME NEW i \in 1..n PROVE y[i] = Plus(q[i], Times(by, g[i]))
  <2> DEFINE v == C[i]
  <2>1. v \in Vectors(n) BY <1>1
  <2>2. y[i] = Inner(v, x, n) /\ Inner(v, e, n) = g[i] /\ Inner(v, w, n) = m /\ q[i] = m
    BY <1>2, <1>4, <1>5
  <2> HIDE DEF v
  <2>3. Inner(v, x, n) = Plus(Inner(v, w, n), Times(by, Inner(v, e, n)))
    BY <1>1, <1>6, <2>1, InnerLinear
  <2>4. QED BY <2>2, <2>3
<1>8. Inner(x, y, n) = Plus(Inner(x, q, n), Times(by, Inner(x, g, n)))
  BY <1>3, <1>4, <1>5, <1>7, InnerLinear
<1>9. Inner(q, x, n) = Plus(Inner(q, w, n), Times(by, Inner(q, e, n)))
  BY <1>1, <1>4, <1>6, InnerLinear
<1>10. Inner(g, x, n) = Plus(Inner(g, w, n), Times(by, Inner(g, e, n)))
  BY <1>1, <1>3, <1>6, InnerLinear
<1>11. Inner(q, e, n) = Zero /\ Inner(g, e, n) = G
  <2>1. Inner(q, e, n) = Minus(q[up], q[down]) BY <1>4, ShiftIs DEF e
  <2>2. Minus(m, m) = Zero BY PlusOrder
  <2>3. QED BY <1>3, <1>4, <2>1, <2>2, ShiftIs DEF e
<1>12. Inner(w, g, n) = Zero
  <2> DEFINE r == C[up]  s == C[down]
  <2>1. r \in Vectors(n) /\ s \in Vectors(n) /\ Inner(r, w, n) = m /\ Inner(s, w, n) = m BY <1>1
  <2>2. b \in Fraction BY Numbers, NegativeIs
  <2>3. ASSUME NEW i \in 1..n PROVE g[i] = Plus(r[i], Times(b, s[i]))
    <3>1. C[i][up] = r[i] /\ C[i][down] = s[i] BY DEF Symmetric
    <3>2. g[i] = Minus(r[i], s[i]) BY <1>2, <3>1
    <3>3. r[i] \in Fraction /\ s[i] \in Fraction BY <2>1 DEF Vectors
    <3> HIDE DEF r, s
    <3>4. Plus(r[i], Times(b, s[i])) = Minus(r[i], s[i]) BY <3>3, NegativeIs
    <3>5. QED BY <3>2, <3>4
  <2> HIDE DEF r, s, b
  <2>4. Inner(w, g, n) = Plus(Inner(w, r, n), Times(b, Inner(w, s, n)))
    BY <1>3, <2>1, <2>2, <2>3, InnerLinear
  <2>5. Inner(w, r, n) = m /\ Inner(w, s, n) = m BY <2>1, InnerIn
  <2>6. Plus(m, Times(b, m)) = Minus(m, m) /\ Minus(m, m) = Zero BY NegativeIs, PlusOrder DEF b
  <2>7. QED BY <2>4, <2>5, <2>6
<1> DEFINE V == Inner(w, q, n)
<1>13. G \in Fraction /\ V \in Fraction /\ Times(by, Zero) = Zero
  <2>1. g[up] \in Fraction /\ g[down] \in Fraction BY <1>2
  <2>2. QED BY <1>4, <2>1, FieldTypes, InnerIn, TimesLaws
<1>14. Inner(x, q, n) = V
  <2>1. Inner(x, q, n) = Inner(q, x, n) /\ Inner(q, w, n) = V BY <1>4, InnerIn
  <2>2. Plus(V, Zero) = V BY <1>13, PlusLaws
  <2>3. QED BY <1>9, <1>11, <1>13, <2>1, <2>2
<1>15. Inner(x, g, n) = Times(by, G)
  <2>1. Inner(x, g, n) = Inner(g, x, n) /\ Inner(g, w, n) = Inner(w, g, n) BY <1>3, InnerIn
  <2>2. Times(by, G) \in Fraction BY <1>13, FieldTypes
  <2>3. Plus(Zero, Times(by, G)) = Times(by, G) BY <2>2, PlusLaws
  <2>4. QED BY <1>10, <1>11, <1>12, <2>1, <2>3
<1>16. AtMost(Zero, Times(by, Times(by, G)))
  <2>1. AtMost(Zero, G) BY DEF g
  <2> HIDE DEF G
  <2>2. Times(by, Times(by, G)) = Times(Times(by, by), G) BY <1>13, TimesLaws
  <2>3. AtMost(Zero, Times(by, by)) /\ Times(by, by) \in Fraction BY FieldTypes, NegativeIs
  <2>4. QED BY <1>13, <2>1, <2>2, <2>3, SignLaws
<1> HIDE DEF V, G
<1>17. Times(by, Times(by, G)) \in Fraction BY <1>13, FieldTypes
<1>18. AtMost(V, Plus(V, Times(by, Times(by, G)))) BY <1>13, <1>16, <1>17, PlusOrder
<1>19. QED BY <1>8, <1>14, <1>15, <1>18 DEF V, q, y

-----------------------------------------------------------------------------
\* No shift from one asset to another has a negative variance.
Rising(C, n) ==
  \A up, down \in 1..n :
    AtMost(Zero, Minus(Slope(C, up, down, n)[up], Slope(C, up, down, n)[down]))

\* A vector with itself is not negative.
LEMMA InnerSign ==
  ASSUME NEW n \in Nat, NEW v \in Vectors(n)
  PROVE  AtMost(Zero, Inner(v, v, n))
<1>1. \A c \in 1..n : v[c] \in Fraction BY DEF Vectors
<1>2. [c \in 1..n |-> Times(v[c], v[c])] \in Vectors(n) BY InnerIs
<1>3. \A c \in 1..n : AtMost(Zero, Times(v[c], v[c])) BY <1>1, NegativeIs
<1>4. QED BY <1>2, <1>3, SumSign DEF Inner

\* Products of the series with each other make a matrix like that.
LEMMA CrossIs ==
  ASSUME NEW n \in Nat, NEW m \in Nat, NEW o \in Tables(n, m), NEW u \in Fraction, AtMost(Zero, u),
         NEW C \in Tables(n, n), \A j, l \in 1..n : C[j][l] = Times(u, Inner(o[j], o[l], m))
  PROVE  Symmetric(C, n) /\ Rising(C, n)
<1>1. \A j \in 1..n : o[j] \in Vectors(m) BY DEF Tables, Vectors
<1>2. Symmetric(C, n)
  <2>1. \A j, l \in 1..n : Inner(o[j], o[l], m) = Inner(o[l], o[j], m) BY <1>1, InnerIn
  <2>2. QED BY <2>1 DEF Symmetric
<1>3. ASSUME NEW up \in 1..n, NEW down \in 1..n
      PROVE  AtMost(Zero, Minus(Slope(C, up, down, n)[up], Slope(C, up, down, n)[down]))
  <2> DEFINE x == o[up]  y == o[down]  b == Whole(-1)  d == [t \in 1..m |-> Plus(x[t], Times(b, y[t]))]
             xx == Inner(x, x, m)  xy == Inner(x, y, m)  yx == Inner(y, x, m)  yy == Inner(y, y, m)
  <2>1. x \in Vectors(m) /\ y \in Vectors(m) BY <1>1
  <2>2. b \in Fraction BY Numbers, NegativeIs
  <2>3. Slope(C, up, down, n)[up] = Minus(Times(u, xx), Times(u, xy))
        /\ Slope(C, up, down, n)[down] = Minus(Times(u, yx), Times(u, yy))
    BY DEF Slope
  <2> HIDE DEF x, y, b
  <2>4. d \in Vectors(m)
    <3>1. \A t \in 1..m : x[t] \in Fraction /\ y[t] \in Fraction BY <2>1 DEF Vectors
    <3>2. \A t \in 1..m : Plus(x[t], Times(b, y[t])) \in Fraction BY <3>1, <2>2, FieldTypes
    <3>3. QED BY <3>2 DEF Vectors
  <2>5. \A t \in 1..m : d[t] = Plus(x[t], Times(b, y[t])) OBVIOUS
  <2> HIDE DEF d
  <2>6. xx \in Fraction /\ xy \in Fraction /\ yx \in Fraction /\ yy \in Fraction
    BY <2>1, InnerIn
  <2>7. Inner(x, d, m) = Plus(xx, Times(b, xy)) BY <2>1, <2>2, <2>4, <2>5, InnerLinear
  <2>8. Inner(y, d, m) = Plus(yx, Times(b, yy)) BY <2>1, <2>2, <2>4, <2>5, InnerLinear
  <2>9. Inner(d, d, m) = Plus(Inner(d, x, m), Times(b, Inner(d, y, m)))
    BY <2>1, <2>2, <2>4, <2>5, InnerLinear
  <2>10. Inner(d, x, m) = Inner(x, d, m) /\ Inner(d, y, m) = Inner(y, d, m)
    BY <2>1, <2>4, InnerIn
  <2> HIDE DEF xx, xy, yx, yy
  <2>11. Inner(x, d, m) = Minus(xx, xy) /\ Inner(y, d, m) = Minus(yx, yy)
    BY <2>6, <2>7, <2>8, NegativeIs DEF b
  <2>12. Minus(xx, xy) \in Fraction /\ Minus(yx, yy) \in Fraction BY <2>6, FieldTypes
  <2>13. Inner(d, d, m) = Minus(Minus(xx, xy), Minus(yx, yy))
    BY <2>9, <2>10, <2>11, <2>12, NegativeIs DEF b
  <2>14. Minus(Times(u, xx), Times(u, xy)) = Times(u, Minus(xx, xy))
         /\ Minus(Times(u, yx), Times(u, yy)) = Times(u, Minus(yx, yy))
    BY <2>6, TimesLaws
  <2>15. Minus(Times(u, Minus(xx, xy)), Times(u, Minus(yx, yy)))
           = Times(u, Minus(Minus(xx, xy), Minus(yx, yy)))
    BY <2>12, TimesLaws
  <2>16. Inner(d, d, m) \in Fraction /\ AtMost(Zero, Inner(d, d, m)) BY <2>4, InnerIn, InnerSign
  <2>17. AtMost(Zero, Times(u, Inner(d, d, m))) BY <2>16, SignLaws
  <2>18. QED BY <2>3, <2>13, <2>14, <2>15, <2>17
<1>4. QED BY <1>2, <1>3 DEF Rising

-----------------------------------------------------------------------------
(***************************************************************************)
(* The optimizer                                                           *)
(***************************************************************************)
LEMMA OptOps ==
  ASSUME NEW a, NEW b
  PROVE  /\ Opt!Plus(a, b) = Plus(a, b) /\ Opt!Minus(a, b) = Minus(a, b)
         /\ Opt!Times(a, b) = Times(a, b) /\ Opt!Over(a, b) = Over(a, b)
         /\ (Opt!AtMost(a, b) <=> AtMost(a, b)) /\ (Opt!Less(a, b) <=> Less(a, b))
         /\ Opt!Size(a) = Size(a)
         /\ Opt!Whole(a) = Whole(a) /\ Opt!Zero = Zero /\ Opt!One = One
<1>0. Opt!gcd = gcd BY DEF Opt!gcd, gcd
<1>1. \A n, d : Opt!Frac(n, d) = Frac(n, d)
  BY <1>0 DEF Opt!Frac, Frac, Opt!Reduced, Reduced, Opt!Magnitude, Magnitude
<1>2. QED
  BY <1>1 DEF Opt!Plus, Plus, Opt!Minus, Minus, Opt!Times, Times, Opt!Over, Over,
              Opt!AtMost, AtMost, Opt!Less, Less, Opt!Size, Size, Opt!Magnitude, Magnitude,
              Opt!Whole, Whole, Opt!Zero, Zero, Opt!One, One

LEMMA OptSum ==
  ASSUME NEW f
  PROVE  Opt!SumOf(f) = SumOf(f)
<1>1. \A a, b : Opt!Plus(a, b) = Plus(a, b) BY OptOps
<1>2. Opt!Zero = Zero BY OptOps
<1>3. QED
  BY <1>1, <1>2 DEF Opt!SumOf, SumOf, Opt!MapThenFoldSet, MapThenFoldSet

\* What the optimizer is given: of n assets m returns each.
Series(n, m) == [1..n -> [1..m -> Int]]

AreSeries(rs, n, m) ==
  /\ rs \in Seq([1..m -> Int]) /\ Len(rs) = n /\ DOMAIN rs = 1..n
  /\ \A j \in 1..n : /\ rs[j] \in Seq(Int) /\ Len(rs[j]) = m /\ DOMAIN rs[j] = 1..m
                     /\ (rs[j] = <<>> <=> m = 0)

LEMMA SeriesIs ==
  ASSUME NEW n \in Nat, NEW m \in Nat, NEW rs \in Series(n, m)
  PROVE  AreSeries(rs, n, m)
<1>1. rs \in [1..n -> [1..m -> Int]] BY DEF Series
<1>2. rs \in Seq([1..m -> Int]) /\ Len(rs) = n /\ DOMAIN rs = 1..n BY <1>1, ListIs
<1>3. ASSUME NEW j \in 1..n
      PROVE  /\ rs[j] \in Seq(Int) /\ Len(rs[j]) = m /\ DOMAIN rs[j] = 1..m
             /\ (rs[j] = <<>> <=> m = 0)
  <2>1. rs[j] \in [1..m -> Int] BY <1>1
  <2>2. rs[j] \in Seq(Int) /\ Len(rs[j]) = m /\ DOMAIN rs[j] = 1..m BY <2>1, ListIs
  <2>3. rs[j] # <<>> <=> Len(rs[j]) > 0 BY <2>2, SeqIs
  <2>4. QED BY <2>2, <2>3
<1>4. QED BY <1>2, <1>3 DEF AreSeries

LEMMA MeanIs ==
  ASSUME NEW n \in Nat, NEW m \in Nat, NEW rs \in Series(n, m), NEW j \in 1..n, m # 0
  PROVE  Opt!Mean(rs[j]) \in Fraction
<1> DEFINE f == [t \in 1..m |-> Whole(rs[j][t])]
<1>1. \A t \in 1..m : rs[j][t] \in Int BY DEF Series
<1>2. f \in Vectors(m) BY <1>1, WholeIs DEF Vectors
<1>3. SumOf(f) \in Fraction
  <2> HIDE DEF f
  <2>1. QED BY <1>2, SumIs
<1>4. Whole(m) \in Fraction /\ Whole(m) # Zero
  <2>1. m \in Int /\ 0 \in Int OBVIOUS
  <2>2. QED BY <2>1, WholeIs, WholeOrder DEF Zero
<1>5. [t \in DOMAIN rs[j] |-> Opt!Whole(rs[j][t])] = f /\ Len(rs[j]) = m
  <2>1. DOMAIN rs[j] = 1..m /\ Len(rs[j]) = m
    <3>1. AreSeries(rs, n, m) BY SeriesIs
    <3>2. QED BY <3>1 DEF AreSeries
  <2>2. \A x : Opt!Whole(x) = Whole(x) BY OptOps
  <2>3. QED BY <2>1, <2>2
<1>6. Opt!Mean(rs[j]) = Over(SumOf(f), Whole(m))
  <2>1. Opt!Mean(rs[j]) = Opt!Over(Opt!SumOf(f), Opt!Whole(Len(rs[j])))
    BY <1>5 DEF Opt!Mean
  <2> HIDE DEF f
  <2>2. Opt!SumOf(f) = SumOf(f) /\ Opt!Whole(Len(rs[j])) = Whole(m) BY <1>5, OptOps, OptSum
  <2>3. Opt!Over(SumOf(f), Whole(m)) = Over(SumOf(f), Whole(m)) BY OptOps
  <2>4. QED BY <2>1, <2>2, <2>3
<1>7. QED BY <1>3, <1>4, <1>6, FieldTypes

LEMMA MeansAre ==
  ASSUME NEW n \in Nat, NEW m \in Nat, NEW rs \in Series(n, m)
  PROVE  Opt!mean_returns(rs) \in Vectors(n)
<1>1. TRADING_DAYS \in Nat
  <2>1. {Points, Premiums, IV_MAX_ITERATIONS, TRADING_DAYS, MIN_RETURN_SAMPLES} \subseteq Nat
    BY FiguresAssumption
  <2>2. QED BY <2>1
<1>0. DOMAIN rs = 1..n /\ \A j \in 1..n : (rs[j] = <<>> <=> m = 0)
  <2>1. AreSeries(rs, n, m) BY SeriesIs
  <2>2. QED BY <2>1 DEF AreSeries
<1>2. ASSUME NEW j \in 1..n
      PROVE  (IF rs[j] = <<>> THEN Opt!Zero ELSE Opt!Times(Opt!Mean(rs[j]), Opt!Whole(TRADING_DAYS)))
               \in Fraction
  <2>1. CASE m = 0
    <3>1. rs[j] = <<>> /\ Opt!Zero = Zero BY <1>0, <2>1, OptOps
    <3>2. QED BY <3>1, Numbers
  <2>2. CASE m # 0
    <3>1. Opt!Mean(rs[j]) \in Fraction BY <2>2, MeanIs
    <3>2. TRADING_DAYS \in Int BY <1>1
    <3>3. Whole(TRADING_DAYS) \in Fraction BY <3>2, WholeIs
    <3>4. Times(Opt!Mean(rs[j]), Whole(TRADING_DAYS)) \in Fraction BY <3>1, <3>3, FieldTypes
    <3>5. Opt!Times(Opt!Mean(rs[j]), Opt!Whole(TRADING_DAYS))
            = Times(Opt!Mean(rs[j]), Whole(TRADING_DAYS))
      BY OptOps
    <3>6. rs[j] # <<>> BY <1>0, <2>2
    <3>7. QED BY <3>4, <3>5, <3>6
  <2>3. QED BY <2>1, <2>2
<1>3. QED BY <1>0, <1>2 DEF Opt!mean_returns, Vectors

-----------------------------------------------------------------------------
LEMMA ScaleIs ==
  ASSUME NEW x \in Fraction, NEW t \in Nat, NEW d \in Nat \ {0}
  PROVE  /\ Over(Whole(t), Whole(d)) \in Fraction /\ AtMost(Zero, Over(Whole(t), Whole(d)))
         /\ Times(Over(x, Whole(d)), Whole(t)) = Times(Over(Whole(t), Whole(d)), x)
<1>0. t \in Int /\ d \in Int /\ d # 0 /\ 0 \in Int OBVIOUS
<1>1. Whole(t) \in Fraction /\ Is(Whole(t), t, 1) /\ Whole(d) \in Fraction /\ Is(Whole(d), d, 1)
  BY <1>0, WholeIs
<1>2. Whole(d) # Zero /\ Less(Zero, Whole(d)) /\ AtMost(Zero, Whole(t))
  BY <1>0, WholeOrder DEF Zero
<1>3. Over(Whole(t), Whole(d)) \in Fraction /\ AtMost(Zero, Over(Whole(t), Whole(d)))
  BY <1>1, <1>2, FieldTypes, SignLaws
<1>4. Times(Over(x, Whole(d)), Whole(t)) = Times(Over(Whole(t), Whole(d)), x)
  <2> DEFINE p == x[1]  q == x[2]
  <2>1. p \in Int /\ q \in Int \ {0} /\ Is(x, p, q) BY FractionIs, IsOwn
  <2> HIDE DEF p, q
  <2>2. Is(Over(x, Whole(d)), p * 1, q * d) /\ Is(Over(Whole(t), Whole(d)), t * 1, 1 * d)
    BY <1>0, <1>1, <2>1, IsTimes
  <2>3. Is(Times(Over(x, Whole(d)), Whole(t)), (p * 1) * t, (q * d) * 1)
        /\ Is(Times(Over(Whole(t), Whole(d)), x), (t * 1) * p, (1 * d) * q)
    BY <1>1, <2>1, <2>2, IsTimes
  <2>4. (p * 1) * t = (t * 1) * p /\ (q * d) * 1 = (1 * d) * q BY <1>0, <2>1
  <2>5. QED BY <2>3, <2>4, SameValue
<1>5. QED BY <1>3, <1>4

Offsets(rs, n, m) == [j \in 1..n |-> [t \in 1..m |-> Minus(Whole(rs[j][t]), Opt!Mean(rs[j]))]]

LEMMA CovarianceIs ==
  ASSUME NEW n \in Nat \ {0}, NEW m \in Nat, NEW rs \in Series(n, m)
  PROVE  /\ Opt!covariance_matrix(rs) \in Tables(n, n)
         /\ Symmetric(Opt!covariance_matrix(rs), n) /\ Rising(Opt!covariance_matrix(rs), n)
<1> DEFINE C == Opt!covariance_matrix(rs)
<1>0. DOMAIN rs = 1..n /\ Len(rs[1]) = m
  <2>1. AreSeries(rs, n, m) BY SeriesIs
  <2>2. 1 \in 1..n OBVIOUS
  <2>3. QED BY <2>1, <2>2 DEF AreSeries
<1>1. CASE m < 2
  <2> DEFINE O == [j \in 1..n |-> [t \in 1..m |-> Zero]]
  <2>1. C = [j \in 1..n |-> [l \in 1..n |-> Zero]]
    <3>1. Opt!Zero = Zero BY OptOps
    <3>2. QED BY <1>0, <1>1, <3>1 DEF Opt!covariance_matrix
  <2>2. C \in Tables(n, n) /\ O \in Tables(n, m) BY <2>1, Numbers DEF Tables
  <2>3. ASSUME NEW j \in 1..n, NEW l \in 1..n PROVE C[j][l] = Times(Zero, Inner(O[j], O[l], m))
    <3>1. O[j] \in Vectors(m) /\ O[l] \in Vectors(m) BY Numbers DEF Vectors
    <3> HIDE DEF O
    <3>2. Inner(O[j], O[l], m) \in Fraction BY <3>1, InnerIn
    <3>3. Times(Inner(O[j], O[l], m), Zero) = Zero
          /\ Times(Zero, Inner(O[j], O[l], m)) = Times(Inner(O[j], O[l], m), Zero)
      BY <3>2, Numbers, TimesLaws
    <3>4. QED BY <2>1, <3>3
  <2>4. AtMost(Zero, Zero) BY Numbers, OrderLaws
  <2> HIDE DEF C, O
  <2>5. Symmetric(C, n) /\ Rising(C, n) BY <2>2, <2>3, <2>4, Numbers, CrossIs
  <2>6. QED BY <2>2, <2>5 DEF C
<1>2. CASE m >= 2
  <2> DEFINE O == Offsets(rs, n, m)  u == Over(Whole(TRADING_DAYS), Whole(m - 1))
             product(j, l) == SumOf([t \in 1..m |-> Times(O[j][t], O[l][t])])
  <2>1. O \in Tables(n, m)
    <3>1. ASSUME NEW j \in 1..n, NEW t \in 1..m
          PROVE  Minus(Whole(rs[j][t]), Opt!Mean(rs[j])) \in Fraction
      <4>1. rs[j][t] \in Int BY DEF Series
      <4>2. Whole(rs[j][t]) \in Fraction BY <4>1, WholeIs
      <4>3. Opt!Mean(rs[j]) \in Fraction BY <1>2, MeanIs
      <4>4. QED BY <4>2, <4>3, FieldTypes
    <3>2. QED BY <3>1 DEF Offsets, Tables
  <2>2. \A j \in 1..n : O[j] \in Vectors(m) BY <2>1 DEF Tables, Vectors
  <2>3. \A j, l \in 1..n : product(j, l) = Inner(O[j], O[l], m) /\ product(j, l) \in Fraction
    <3> HIDE DEF O
    <3>1. \A j, l \in 1..n : product(j, l) = Inner(O[j], O[l], m) BY DEF Inner
    <3>2. \A j, l \in 1..n : Inner(O[j], O[l], m) \in Fraction BY <2>2, InnerIn
    <3>3. QED BY <3>1, <3>2
  <2>4. TRADING_DAYS \in Nat
    <3>1. {Points, Premiums, IV_MAX_ITERATIONS, TRADING_DAYS, MIN_RETURN_SAMPLES} \subseteq Nat
      BY FiguresAssumption
    <3>2. QED BY <3>1
  <2>5. m - 1 \in Nat \ {0} BY <1>2
  <2>6. u \in Fraction /\ AtMost(Zero, u) BY <2>4, <2>5, Numbers, ScaleIs
  <2>7. C = [j \in 1..n |-> [l \in 1..n |->
               Times(Over(product(j, l), Whole(m - 1)), Whole(TRADING_DAYS))]]
    <3>1. ASSUME NEW j \in 1..n, NEW l \in 1..n
          PROVE  [t \in 1..m |-> Opt!Times(Opt!Minus(Opt!Whole(rs[j][t]), Opt!Mean(rs[j])),
                                           Opt!Minus(Opt!Whole(rs[l][t]), Opt!Mean(rs[l])))]
                   = [t \in 1..m |-> Times(O[j][t], O[l][t])]
      <4>1. \A a, b : Opt!Times(a, b) = Times(a, b) /\ Opt!Minus(a, b) = Minus(a, b)
                      /\ Opt!Whole(a) = Whole(a)
        BY OptOps
      <4>2. \A t \in 1..m : O[j][t] = Minus(Whole(rs[j][t]), Opt!Mean(rs[j]))
                            /\ O[l][t] = Minus(Whole(rs[l][t]), Opt!Mean(rs[l]))
        BY DEF Offsets
      <4>3. QED BY <4>1, <4>2
    <3>2. \A a, b : Opt!Times(a, b) = Times(a, b) /\ Opt!Over(a, b) = Over(a, b)
                    /\ Opt!Whole(a) = Whole(a) /\ Opt!SumOf(a) = SumOf(a)
      BY OptOps, OptSum
    <3>3. ~(m < 2) BY <1>2
    <3>4. C = [j \in 1..n |-> [l \in 1..n |->
                 Opt!Times(Opt!Over(Opt!SumOf(
                   [t \in 1..m |-> Opt!Times(Opt!Minus(Opt!Whole(rs[j][t]), Opt!Mean(rs[j])),
                                           Opt!Minus(Opt!Whole(rs[l][t]), Opt!Mean(rs[l])))]),
                   Opt!Whole(m - 1)), Opt!Whole(TRADING_DAYS))]]
      <4> HIDE DEF O, u
      <4>1. QED BY <1>0, <3>3 DEF Opt!covariance_matrix
    <3> HIDE DEF O, u, C
    <3>5. ASSUME NEW j \in 1..n, NEW l \in 1..n
          PROVE  Opt!Times(Opt!Over(Opt!SumOf(
                   [t \in 1..m |-> Opt!Times(Opt!Minus(Opt!Whole(rs[j][t]), Opt!Mean(rs[j])),
                                           Opt!Minus(Opt!Whole(rs[l][t]), Opt!Mean(rs[l])))]),
                   Opt!Whole(m - 1)), Opt!Whole(TRADING_DAYS))
                   = Times(Over(product(j, l), Whole(m - 1)), Whole(TRADING_DAYS))
      <4> DEFINE f == [t \in 1..m |-> Opt!Times(Opt!Minus(Opt!Whole(rs[j][t]), Opt!Mean(rs[j])),
                                           Opt!Minus(Opt!Whole(rs[l][t]), Opt!Mean(rs[l])))]
      <4>1. Opt!SumOf(f) = product(j, l)
        <5>1. f = [t \in 1..m |-> Times(O[j][t], O[l][t])] BY <3>1
        <5> HIDE DEF f
        <5>2. QED BY <3>2, <5>1
      <4> HIDE DEF f, product
      <4>2. Opt!Times(Opt!Over(Opt!SumOf(f), Opt!Whole(m - 1)), Opt!Whole(TRADING_DAYS))
              = Times(Over(product(j, l), Whole(m - 1)), Whole(TRADING_DAYS))
        BY <3>2, <4>1
      <4>3. QED BY <4>2 DEF f
    <3> HIDE DEF product
    <3>6. QED BY <3>4, <3>5
  <2> HIDE DEF C, O
  <2>8. ASSUME NEW j \in 1..n, NEW l \in 1..n
        PROVE  C[j][l] \in Fraction /\ C[j][l] = Times(u, Inner(O[j], O[l], m))
    <3> DEFINE x == Inner(O[j], O[l], m)
    <3>1. x \in Fraction /\ C[j][l] = Times(Over(x, Whole(m - 1)), Whole(TRADING_DAYS))
      BY <2>3, <2>7
    <3> HIDE DEF x
    <3>2. Times(Over(x, Whole(m - 1)), Whole(TRADING_DAYS)) = Times(u, x)
      BY <3>1, <2>4, <2>5, ScaleIs
    <3>3. Times(u, x) \in Fraction BY <2>6, <3>1, FieldTypes
    <3>4. QED BY <3>1, <3>2, <3>3 DEF x
  <2> HIDE DEF u, product
  <2>9. C \in Tables(n, n)
    <3>1. C \in [1..n -> [1..n -> Fraction]]
      <4>1. \A j \in 1..n : C[j] \in [1..n -> Fraction] BY <2>7, <2>8
      <4>2. QED BY <2>7, <4>1
    <3>2. QED BY <3>1 DEF Tables
  <2>10. Symmetric(C, n) /\ Rising(C, n) BY <2>1, <2>6, <2>8, <2>9, CrossIs
  <2>11. QED BY <2>9, <2>10 DEF C
<1>3. QED BY <1>1, <1>2

-----------------------------------------------------------------------------
(***************************************************************************)
(* The elimination                                                         *)
(***************************************************************************)
\* A row whose left half is its right half times C.
Keeps(v, C, n) ==
  \A c \in 1..n : v[c] = Inner([l \in 1..n |-> v[n + l]], Column(C, c, n), n)

Rows(n) == [1..(2 * n) -> Fraction]

LEMMA HalfIs ==
  ASSUME NEW n \in Nat, NEW v \in Rows(n)
  PROVE  /\ [l \in 1..n |-> v[n + l]] \in Vectors(n)
         /\ \A c \in 1..(2 * n) : v[c] \in Fraction
         /\ \A c \in 1..n : c \in 1..(2 * n) /\ n + c \in 1..(2 * n)
<1>1. \A c \in 1..(2 * n) : v[c] \in Fraction BY DEF Rows
<1>2. \A c \in 1..n : c \in 1..(2 * n) /\ n + c \in 1..(2 * n) OBVIOUS
<1>3. \A l \in 1..n : v[n + l] \in Fraction BY <1>1, <1>2
<1>4. QED BY <1>1, <1>2, <1>3 DEF Vectors

LEMMA ZeroKeeps ==
  ASSUME NEW n \in Nat, NEW C \in Tables(n, n)
  PROVE  [c \in 1..(2 * n) |-> Zero] \in Rows(n) /\ Keeps([c \in 1..(2 * n) |-> Zero], C, n)
<1> DEFINE z == [c \in 1..(2 * n) |-> Zero]  h == [l \in 1..n |-> z[n + l]]
<1>1. z \in Rows(n) BY Numbers DEF Rows
<1>2. \A l \in 1..n : l \in 1..(2 * n) /\ n + l \in 1..(2 * n) OBVIOUS
<1>3. h \in Vectors(n) /\ \A l \in 1..n : h[l] = Zero BY <1>2, Numbers DEF Vectors
<1> HIDE DEF h
<1>4. ASSUME NEW c \in 1..n PROVE Inner(h, Column(C, c, n), n) = Zero
  <2> DEFINE w == Column(C, c, n)  f == [l \in 1..n |-> Times(h[l], w[l])]
  <2>1. w \in Vectors(n) BY ColumnIs
  <2> HIDE DEF w
  <2>2. f \in Vectors(n) BY <1>3, <2>1, InnerIs
  <2>3. ASSUME NEW l \in 1..n PROVE f[l] = Zero
    <3>1. w[l] \in Fraction BY <2>1 DEF Vectors
    <3>2. Times(w[l], Zero) = Zero /\ Times(Zero, w[l]) = Times(w[l], Zero)
      BY <3>1, Numbers, TimesLaws
    <3>3. QED BY <1>3, <3>2
  <2> HIDE DEF f
  <2>4. SumOf(f) = Zero BY <2>2, <2>3, SumOfNone
  <2>5. QED BY <2>4 DEF f, w, Inner
<1>5. \A c \in 1..n : z[c] = Zero BY <1>2
<1> HIDE DEF z
<1>6. Keeps(z, C, n) BY <1>4, <1>5 DEF Keeps, h
<1>7. QED BY <1>1, <1>6 DEF z

\* A row plus a multiple of another keeps that.
LEMMA RowCombines ==
  ASSUME NEW n \in Nat, NEW C \in Tables(n, n), NEW x \in Rows(n), NEW y \in Rows(n),
         NEW v \in Rows(n), NEW b \in Fraction, Keeps(x, C, n), Keeps(y, C, n),
         \A c \in 1..(2 * n) : v[c] = Plus(x[c], Times(b, y[c]))
  PROVE  Keeps(v, C, n)
<1> SUFFICES ASSUME NEW c \in 1..n
             PROVE  v[c] = Inner([l \in 1..n |-> v[n + l]], Column(C, c, n), n)
  BY DEF Keeps
<1> DEFINE w == Column(C, c, n)  X == [l \in 1..n |-> x[n + l]]  Y == [l \in 1..n |-> y[n + l]]
           V == [l \in 1..n |-> v[n + l]]
<1>1. w \in Vectors(n) BY ColumnIs
<1>2. X \in Vectors(n) /\ Y \in Vectors(n) /\ V \in Vectors(n) BY HalfIs
<1>3. x[c] = Inner(X, w, n) /\ y[c] = Inner(Y, w, n) BY DEF Keeps
<1>4. \A l \in 1..n : V[l] = Plus(X[l], Times(b, Y[l]))
  <2>1. \A l \in 1..n : n + l \in 1..(2 * n) OBVIOUS
  <2>2. QED BY <2>1
<1>5. v[c] = Plus(x[c], Times(b, y[c]))
  <2>1. c \in 1..(2 * n) OBVIOUS
  <2>2. QED BY <2>1
<1> HIDE DEF w, X, Y, V
<1>6. Inner(w, V, n) = Plus(Inner(w, X, n), Times(b, Inner(w, Y, n)))
  BY <1>1, <1>2, <1>4, InnerLinear
<1>7. Inner(w, V, n) = Inner(V, w, n) /\ Inner(w, X, n) = Inner(X, w, n)
      /\ Inner(w, Y, n) = Inner(Y, w, n)
  BY <1>1, <1>2, InnerIn
<1>8. QED BY <1>3, <1>5, <1>6, <1>7 DEF w, V

LEMMA MagnitudeIs ==
  ASSUME NEW f \in Fraction
  PROVE  Size(f) \in Fraction
<1>1. /\ f[1] \in Int /\ f[2] \in Int /\ f[2] > 0 BY FractionIs
<1>2. PICK x, y \in Int : f[1] * x + f[2] * y = 1 BY FractionIs
<1>3. Magnitude(f[1]) \in Int /\ \E z \in Int : Magnitude(f[1]) * z + f[2] * y = 1
  <2>1. CASE f[1] < 0
    <3>1. Magnitude(f[1]) = -f[1] /\ (-f[1]) * (-x) = f[1] * x /\ -x \in Int
      BY <1>1, <1>2, <2>1 DEF Magnitude
    <3>2. (-f[1]) * (-x) + f[2] * y = 1 BY <1>2, <3>1
    <3>3. QED BY <1>1, <3>1, <3>2
  <2>2. CASE ~(f[1] < 0) BY <1>1, <1>2, <2>2 DEF Magnitude
  <2>3. QED BY <2>1, <2>2
<1>4. QED BY <1>1, <1>2, <1>3 DEF Size, Fraction

IsPivot(A, n, at, p) ==
  /\ p \in at..n
  /\ \A r \in at..n : AtMost(Size(A[r][at]), Size(A[p][at]))
  /\ \A r \in at..(p - 1) : Less(Size(A[r][at]), Size(A[p][at]))

LEMMA PivotExists ==
  ASSUME NEW n \in Nat, NEW A \in [1..n -> Rows(n)], NEW at \in 1..n
  PROVE  \E p : IsPivot(A, n, at, p)
<1> DEFINE s(r) == Size(A[r][at])
           R == {q \in (at..n) \X (at..n) : AtMost(s(q[2]), s(q[1]))}
           Top == {p \in at..n : \A r \in at..n : AtMost(s(r), s(p))}
<1>1. ASSUME NEW r \in at..n PROVE s(r) \in Fraction
  <2>1. r \in 1..n /\ at \in 1..(2 * n) OBVIOUS
  <2>2. A[r] \in Rows(n) BY <2>1
  <2>3. A[r][at] \in Fraction BY <2>1, <2>2 DEF Rows
  <2>4. QED BY <2>3, MagnitudeIs
<1> HIDE DEF s
<1>2. IsFiniteSet(at..n) /\ at \in at..n BY FS_Interval
<1>3. \E p \in at..n : \A r \in at..n : <<p, r>> \in R
  <2>1. \A x, y \in at..n : <<x, y>> \in R \/ <<y, x>> \in R
    <3> SUFFICES ASSUME NEW x \in at..n, NEW y \in at..n PROVE <<x, y>> \in R \/ <<y, x>> \in R
      OBVIOUS
    <3>1. s(x) \in Fraction /\ s(y) \in Fraction BY <1>1
    <3>2. AtMost(s(y), s(x)) \/ AtMost(s(x), s(y)) BY <3>1, OrderLaws
    <3>3. QED BY <3>2
  <2>2. \A x, y, z \in at..n : <<x, y>> \in R /\ <<y, z>> \in R => <<x, z>> \in R
    <3> SUFFICES ASSUME NEW x \in at..n, NEW y \in at..n, NEW z \in at..n,
                        <<x, y>> \in R, <<y, z>> \in R
                 PROVE  <<x, z>> \in R
      OBVIOUS
    <3>1. s(x) \in Fraction /\ s(y) \in Fraction /\ s(z) \in Fraction BY <1>1
    <3>2. AtMost(s(z), s(x)) BY <3>1, OrderLaws
    <3>3. QED BY <3>2
  <2> HIDE DEF R
  <2>3. QED BY <1>2, <2>1, <2>2, LeastExists
<1>4. PICK p \in Top : \A q \in Top : p <= q
  <2>0. \A p \in at..n : p \in Nat OBVIOUS
  <2>3. PICK p \in at..n : \A r \in at..n : <<p, r>> \in R BY <1>3
  <2>4. \A r \in at..n : AtMost(s(r), s(p)) BY <2>3
  <2>1. Top \in SUBSET Nat /\ Top # {} BY <2>0, <2>4
  <2> HIDE DEF Top
  <2>2. QED BY <2>1, NatMin
<1>5. ASSUME NEW r \in at..(p - 1) PROVE Less(s(r), s(p))
  <2>1. r \in at..n /\ r \notin Top BY <1>4
  <2>2. PICK q \in at..n : ~AtMost(s(q), s(r)) BY <2>1
  <2>3. s(r) \in Fraction /\ s(p) \in Fraction /\ s(q) \in Fraction BY <1>1, <2>1
  <2>4. AtMost(s(q), s(p)) BY <1>4
  <2>5. Less(s(r), s(q)) BY <2>2, <2>3, OrderLaws
  <2>6. QED BY <2>3, <2>4, <2>5, OrderLaws
<1>6. IsPivot(A, n, at, p) BY <1>4, <1>5 DEF IsPivot, s
<1>7. QED BY <1>6

-----------------------------------------------------------------------------
\* The state of the elimination before a column.
Grown(A, C, n, at) ==
  /\ \A r \in 1..n : Keeps(A[r], C, n)
  /\ \A r \in 1..n : \A c \in 1..(at - 1) : A[r][c] = AlmostOne(r, c)

Exchange(A, at, p) == [A EXCEPT ![at] = A[p], ![p] = A[at]]

LEMMA ExchangeGrown ==
  ASSUME NEW n \in Nat, NEW C \in Tables(n, n), NEW A \in [1..n -> Rows(n)], NEW at \in 1..n,
         NEW p \in at..n, Grown(A, C, n, at)
  PROVE  /\ Exchange(A, at, p) \in [1..n -> Rows(n)] /\ Grown(Exchange(A, at, p), C, n, at)
         /\ Exchange(A, at, p)[at] = A[p]
<1> DEFINE M == Exchange(A, at, p)
<1>0. p \in 1..n OBVIOUS
<1>1. M \in [1..n -> Rows(n)] /\ M[at] = A[p] BY <1>0 DEF Exchange
<1>2. ASSUME NEW r \in 1..n
      PROVE  \E s \in 1..n : M[r] = A[s] /\ (r < at => s = r) /\ (r >= at => s >= at)
  <2>1. CASE r = at BY <1>0, <1>1, <2>1
  <2>2. CASE r = p /\ r # at
    <3>1. M[r] = A[at] BY <1>0, <2>2 DEF Exchange
    <3>2. QED BY <2>2, <3>1
  <2>3. CASE r # p /\ r # at
    <3>1. M[r] = A[r] BY <2>3 DEF Exchange
    <3>2. QED BY <3>1
  <2>4. QED BY <2>1, <2>2, <2>3
<1> HIDE DEF M
<1>3. \A r \in 1..n : Keeps(M[r], C, n) BY <1>2 DEF Grown
<1>4. ASSUME NEW r \in 1..n, NEW c \in 1..(at - 1) PROVE M[r][c] = AlmostOne(r, c)
  <2>1. PICK s \in 1..n : M[r] = A[s] /\ (r < at => s = r) /\ (r >= at => s >= at) BY <1>2
  <2>2. A[s][c] = AlmostOne(s, c) BY DEF Grown
  <2>3. AlmostOne(s, c) = AlmostOne(r, c)
    <3>1. CASE r < at BY <2>1, <3>1
    <3>2. CASE r >= at
      <4>1. c # s /\ c # r BY <2>1, <3>2
      <4>2. QED BY <4>1 DEF AlmostOne
    <3>3. QED BY <3>1, <3>2
  <2>4. QED BY <2>1, <2>2, <2>3
<1>5. QED BY <1>1, <1>3, <1>4 DEF Grown, M

Sweep(M, at, n) ==
  LET row == [c \in 1..(2 * n) |-> Over(M[at][c], M[at][at])]
  IN  [r \in 1..n |->
         IF r = at THEN row
         ELSE [c \in 1..(2 * n) |-> Minus(M[r][c], Times(M[r][at], row[c]))]]

LEMMA SweepGrown ==
  ASSUME NEW n \in Nat, NEW C \in Tables(n, n), NEW M \in [1..n -> Rows(n)], NEW at \in 1..n,
         Grown(M, C, n, at), M[at][at] # Zero
  PROVE  Sweep(M, at, n) \in [1..n -> Rows(n)] /\ Grown(Sweep(M, at, n), C, n, at + 1)
<1> DEFINE B == Sweep(M, at, n)  piv == M[at][at]  u == Over(One, piv)
           row == [c \in 1..(2 * n) |-> Over(M[at][c], piv)]  z == [c \in 1..(2 * n) |-> Zero]
<1>0. at \in 1..(2 * n) OBVIOUS
<1>1. \A r \in 1..n : M[r] \in Rows(n) /\ \A c \in 1..(2 * n) : M[r][c] \in Fraction
  BY DEF Rows
<1>2. piv \in Fraction /\ u \in Fraction /\ piv # Zero BY <1>0, <1>1, Numbers, FieldTypes
<1> HIDE DEF piv
<1>3. ASSUME NEW f \in Fraction PROVE Over(f, piv) \in Fraction /\ Over(f, piv) = Times(u, f)
  <2>1. Over(f, piv) \in Fraction /\ Times(u, f) \in Fraction BY <1>2, FieldTypes
  <2>2. Times(Times(u, f), piv) = f
    <3>1. Times(f, Times(u, piv)) = f
      <4>1. Times(u, piv) = One BY <1>2, Numbers, OverLaws
      <4>2. QED BY <4>1, UnitLaws
    <3> HIDE DEF u
    <3>2. Times(u, f) = Times(f, u) BY <1>2, TimesLaws
    <3>3. Times(f, Times(u, piv)) = Times(Times(f, u), piv) BY <1>2, TimesLaws
    <3>4. QED BY <3>1, <3>2, <3>3
  <2> HIDE DEF u
  <2>3. Times(u, f) = Over(f, piv) BY <1>2, <2>1, <2>2, OverIs
  <2>4. QED BY <2>1, <2>3
<1>4. \A c \in 1..(2 * n) : row[c] \in Fraction /\ row[c] = Times(u, M[at][c]) BY <1>1, <1>3
<1>5. row \in Rows(n) BY <1>4 DEF Rows
<1>6. B[at] = row /\ DOMAIN B = 1..n BY DEF Sweep, piv
<1>7. ASSUME NEW r \in 1..n, r # at
      PROVE  B[r] = [c \in 1..(2 * n) |-> Minus(M[r][c], Times(M[r][at], row[c]))]
  BY <1>7 DEF Sweep, piv
<1>8. z \in Rows(n) /\ Keeps(z, C, n) BY ZeroKeeps
<1>9. Keeps(row, C, n)
  <2>1. \A c \in 1..(2 * n) : row[c] = Plus(z[c], Times(u, M[at][c]))
    <3> SUFFICES ASSUME NEW c \in 1..(2 * n) PROVE row[c] = Plus(z[c], Times(u, M[at][c]))
      OBVIOUS
    <3>1. Times(u, M[at][c]) \in Fraction /\ z[c] = Zero BY <1>4
    <3>2. Plus(Zero, Times(u, M[at][c])) = Times(u, M[at][c]) BY <3>1, PlusLaws
    <3>3. QED BY <1>4, <3>1, <3>2
  <2> DEFINE y == M[at]
  <2>2. y \in Rows(n) /\ Keeps(y, C, n) BY <1>1 DEF Grown
  <2>3. \A c \in 1..(2 * n) : row[c] = Plus(z[c], Times(u, y[c])) BY <2>1
  <2> HIDE DEF row, z, u, y
  <2>4. QED BY <1>2, <1>5, <1>8, <2>2, <2>3, RowCombines
<1> HIDE DEF z
<1>10. ASSUME NEW c \in 1..at PROVE row[c] = AlmostOne(at, c) /\ c \in 1..(2 * n)
  <2>0. c \in 1..(2 * n) OBVIOUS
  <2>1. CASE c = at
    <3>1. Over(piv, piv) = One BY <1>2, OverLaws
    <3>2. row[c] = Over(piv, piv) BY <2>0, <2>1 DEF piv
    <3>3. QED BY <2>0, <2>1, <3>1, <3>2 DEF AlmostOne
  <2>2. CASE c # at
    <3>1. c \in 1..(at - 1) BY <2>2
    <3>2. M[at][c] = AlmostOne(at, c) BY <3>1 DEF Grown
    <3>3. M[at][c] = Zero BY <2>2, <3>2 DEF AlmostOne
    <3>4. row[c] = Times(u, Zero) BY <1>4, <2>0, <3>3
    <3>5. Times(u, Zero) = Zero BY <1>2, TimesLaws
    <3>6. QED BY <2>0, <2>2, <3>4, <3>5 DEF AlmostOne
  <2>3. QED BY <2>1, <2>2
<1> HIDE DEF row, B
<1>11. ASSUME NEW r \in 1..n
       PROVE  B[r] \in Rows(n) /\ Keeps(B[r], C, n) /\ \A c \in 1..at : B[r][c] = AlmostOne(r, c)
  <2>1. CASE r = at BY <1>5, <1>6, <1>9, <1>10, <2>1
  <2>2. CASE r # at
    <3> DEFINE x == M[r]  f == x[at]  b == Times(Whole(-1), f)  v == B[r]
    <3>1. x \in Rows(n) /\ Keeps(x, C, n) BY <1>1 DEF Grown
    <3>2. f \in Fraction /\ Whole(-1) \in Fraction /\ b \in Fraction
      BY <1>0, <1>1, Numbers, NegativeIs, FieldTypes
    <3>3. \A c \in 1..(2 * n) : v[c] = Minus(x[c], Times(f, row[c])) BY <1>7, <2>2
    <3>4. \A c \in 1..(2 * n) : x[c] \in Fraction /\ row[c] \in Fraction
                                 /\ Times(f, row[c]) \in Fraction
      BY <1>1, <1>5, <3>2, FieldTypes DEF Rows
    <3>5. v \in Rows(n)
      <4>1. \A c \in 1..(2 * n) : Minus(x[c], Times(f, row[c])) \in Fraction
        BY <3>4, FieldTypes
      <4>2. v = [c \in 1..(2 * n) |-> Minus(x[c], Times(f, row[c]))] BY <1>7, <2>2
      <4> HIDE DEF x, f, b, v
      <4>3. QED BY <4>1, <4>2 DEF Rows
    <3> HIDE DEF v
    <3>6. ASSUME NEW c \in 1..(2 * n) PROVE v[c] = Plus(x[c], Times(b, row[c]))
      <4> DEFINE g == x[c]  h == row[c]
      <4>1. g \in Fraction /\ h \in Fraction /\ Times(f, h) \in Fraction
            /\ v[c] = Minus(g, Times(f, h))
        BY <3>3, <3>4
      <4> HIDE DEF g, h, f
      <4>2. Times(b, h) = Times(Whole(-1), Times(f, h)) BY <3>2, <4>1, TimesLaws
      <4>3. Plus(g, Times(Whole(-1), Times(f, h))) = Minus(g, Times(f, h)) BY <4>1, NegativeIs
      <4>4. QED BY <4>1, <4>2, <4>3 DEF g, h
    <3>7. Keeps(v, C, n)
      <4> HIDE DEF x, f, b
      <4>1. QED BY <1>5, <1>9, <3>1, <3>2, <3>5, <3>6, RowCombines
    <3>8. ASSUME NEW c \in 1..at PROVE v[c] = AlmostOne(r, c)
      <4>1. c \in 1..(2 * n) /\ row[c] = AlmostOne(at, c) BY <1>10
      <4>2. CASE c = at
        <5>1. row[c] = One /\ AlmostOne(r, c) = Zero /\ x[c] = f BY <2>2, <4>1, <4>2 DEF AlmostOne
        <5>2. v[c] = Minus(f, Times(f, One)) BY <3>3, <4>1, <5>1
        <5> HIDE DEF f, x
        <5>3. Times(f, One) = f /\ Minus(f, f) = Zero BY <3>2, UnitLaws, PlusOrder
        <5>4. QED BY <5>1, <5>2, <5>3
      <4>3. CASE c # at
        <5>1. c \in 1..(at - 1) BY <4>3
        <5>2. x[c] = AlmostOne(r, c) BY <5>1 DEF Grown
        <5>3. row[c] = Zero BY <4>1, <4>3 DEF AlmostOne
        <5>4. v[c] = Minus(x[c], Times(f, Zero)) BY <3>3, <4>1, <5>3
        <5>5. x[c] \in Fraction BY <3>4, <4>1
        <5> HIDE DEF f, x
        <5>6. Times(f, Zero) = Zero /\ Minus(x[c], Zero) = x[c] BY <3>2, <5>5, TimesLaws, PlusOrder
        <5>7. QED BY <5>2, <5>4, <5>6
      <4>4. QED BY <4>2, <4>3
    <3>9. QED BY <3>5, <3>7, <3>8 DEF v
  <2>3. QED BY <2>1, <2>2
<1>12. B \in [1..n -> Rows(n)]
  <2>1. B = [r \in 1..n |-> B[r]] BY DEF B, Sweep
  <2>2. QED BY <1>11, <2>1
<1>13. Grown(B, C, n, at + 1)
  <2>1. (at + 1) - 1 = at OBVIOUS
  <2>2. QED BY <1>11, <2>1 DEF Grown
<1>14. QED BY <1>12, <1>13 DEF B

-----------------------------------------------------------------------------
OptInv ==
  /\ \E m \in Nat \ {0} : given \in Series(Len(given), m)
  /\ Len(given) \in Nat \ {0}
  /\ step \in 1..(Len(given) + 1)
  /\ work \in [1..Len(given) -> Rows(Len(given))]
  /\ Grown(work, Opt!mat, Len(given), step)
  /\ status = "eliminating" => step \in 1..Len(given)
  /\ status = "inverse" => step = Len(given) + 1

LEMMA RowIsJoined ==
  ASSUME NEW n \in Nat, NEW v \in Vectors(n), NEW w \in Vectors(n)
  PROVE  /\ v \o w \in Rows(n)
         /\ \A c \in 1..n : (v \o w)[c] = v[c] /\ (v \o w)[n + c] = w[c]
<1>1. v \in Seq(Fraction) /\ Len(v) = n /\ w \in Seq(Fraction) /\ Len(w) = n
  <2>1. v \in [1..n -> Fraction] /\ w \in [1..n -> Fraction] BY DEF Vectors
  <2>2. QED BY <2>1, ListIs
<1>2. v \o w \in Seq(Fraction) /\ Len(v \o w) = 2 * n BY <1>1
<1>3. v \o w \in [1..(2 * n) -> Fraction] BY <1>2, SeqIs
<1>4. \A c \in 1..n : (v \o w)[c] = v[c] /\ (v \o w)[n + c] = w[c] BY <1>1
<1>5. QED BY <1>3, <1>4 DEF Rows

\* What begins as the unit matrix at the right keeps the matrix at the left.
LEMMA JoinKeeps ==
  ASSUME NEW n \in Nat, NEW C \in Tables(n, n), NEW r \in 1..n
  PROVE  C[r] \o UnitVector(r, n) \in Rows(n) /\ Keeps(C[r] \o UnitVector(r, n), C, n)
<1> DEFINE v == C[r]  e == UnitVector(r, n)  j == v \o e
<1>1. v \in Vectors(n) BY ColumnIs
<1>2. e \in Vectors(n) BY <1>1, InnerUnit
<1>3. j \in Rows(n) /\ \A c \in 1..n : j[c] = v[c] /\ j[n + c] = e[c]
  <2> HIDE DEF v, e
  <2>1. QED BY <1>1, <1>2, RowIsJoined
<1>4. ASSUME NEW c \in 1..n PROVE j[c] = Inner([l \in 1..n |-> j[n + l]], Column(C, c, n), n)
  <2>1. [l \in 1..n |-> j[n + l]] = e
    <3>1. e = [l \in 1..n |-> e[l]] BY <1>2 DEF Vectors
    <3> HIDE DEF e, j
    <3>2. QED BY <1>3, <3>1
  <2>2. Column(C, c, n) \in Vectors(n) BY ColumnIs
  <2>3. Inner(e, Column(C, c, n), n) = Column(C, c, n)[r] BY <2>2, InnerUnit
  <2>4. Column(C, c, n)[r] = v[c] BY DEF Column
  <2>5. QED BY <1>3, <2>1, <2>3, <2>4
<1>5. QED BY <1>3, <1>4 DEF Keeps

LEMMA MatrixIs ==
  ASSUME Len(given) \in Nat \ {0}, \E m \in Nat \ {0} : given \in Series(Len(given), m)
  PROVE  /\ Opt!mat \in Tables(Len(given), Len(given))
         /\ Symmetric(Opt!mat, Len(given)) /\ Rising(Opt!mat, Len(given))
<1>1. PICK m \in Nat \ {0} : given \in Series(Len(given), m) OBVIOUS
<1>2. QED BY <1>1, CovarianceIs DEF Opt!mat

LEMMA OptStarts == Opt!Init => OptInv
<1> SUFFICES ASSUME Opt!Init PROVE OptInv
  OBVIOUS
<1> DEFINE n == Len(given)
<1>1. n \in Nat \ {0} /\ \E m \in Nat \ {0} : given \in Series(n, m)
  <2>1. CASE given \in [1..2 -> [1..3 -> {-1, 0, 2}]]
    <3>1. given \in [1..2 -> [1..3 -> Int]] BY <2>1
    <3>2. given \in Series(2, 3) /\ 2 \in Nat /\ 3 \in Nat \ {0} BY <3>1 DEF Series
    <3>3. n = 2 BY <3>1, <3>2, ListIs
    <3>4. QED BY <3>2, <3>3
  <2>2. CASE given \in [1..3 -> [1..3 -> {0, 1}]]
    <3>1. given \in [1..3 -> [1..3 -> Int]] BY <2>2
    <3>2. given \in Series(3, 3) /\ 3 \in Nat \ {0} BY <3>1 DEF Series
    <3>3. n = 3 BY <3>1, <3>2, ListIs
    <3>4. QED BY <3>2, <3>3
  <2>3. QED BY <2>1, <2>2 DEF Opt!Init
<1> DEFINE C == Opt!mat
<1>2. C \in Tables(n, n) BY <1>1, MatrixIs
<1>3. step = 1 /\ (status = "eliminating" \/ status = "inverse") /\ status # "inverse"
  <2>1. Opt!k = n BY DEF Opt!k
  <2>2. QED BY <1>1, <2>1 DEF Opt!Init
<1>4. work = [r \in 1..n |-> C[r] \o UnitVector(r, n)]
  <2>1. Opt!k = n BY DEF Opt!k
  <2>2. \A r : Opt!Unit(r) = UnitVector(r, n)
    BY <2>1, OptOps DEF Opt!Unit, UnitVector
  <2>3. work = [r \in 1..Opt!k |-> Opt!mat[r] \o Opt!Unit(r)] BY DEF Opt!Init
  <2>4. QED BY <2>1, <2>2, <2>3
<1> HIDE DEF C, n
<1>5. \A r \in 1..n : work[r] \in Rows(n) /\ Keeps(work[r], C, n) BY <1>1, <1>2, <1>4, JoinKeeps
<1>6. work \in [1..n -> Rows(n)] BY <1>4, <1>5
<1>7. Grown(work, C, n, step) BY <1>3, <1>5 DEF Grown
<1>8. step \in 1..(n + 1) /\ step \in 1..n BY <1>1, <1>3
<1>9. QED BY <1>1, <1>3, <1>6, <1>7, <1>8 DEF OptInv, C, n

LEMMA OptPivot ==
  ASSUME OptInv, step \in 1..Len(given)
  PROVE  Opt!Pivot \in step..Len(given)
<1> DEFINE n == Len(given)
<1>1. n \in Nat /\ work \in [1..n -> Rows(n)] /\ step \in 1..n BY DEF OptInv
<1>2. PICK p : IsPivot(work, n, step, p)
  <2> HIDE DEF n
  <2>1. QED BY <1>1, PivotExists
<1>3. Opt!k = n BY DEF Opt!k
<1>4. /\ p \in step..Opt!k
      /\ \A r \in step..Opt!k : Opt!AtMost(Opt!Size(work[r][step]), Opt!Size(work[p][step]))
      /\ \A r \in step..(p - 1) : Opt!Less(Opt!Size(work[r][step]), Opt!Size(work[p][step]))
  <2>1. \A a, b : /\ (Opt!AtMost(a, b) <=> AtMost(a, b)) /\ (Opt!Less(a, b) <=> Less(a, b))
                  /\ Opt!Size(a) = Size(a)
    BY OptOps
  <2>2. QED BY <1>2, <1>3, <2>1 DEF IsPivot
<1>5. Opt!Pivot \in step..Opt!k BY <1>4 DEF Opt!Pivot
<1>6. QED BY <1>3, <1>5

LEMMA OptSteps == OptInv /\ Opt!Next => OptInv'
<1> SUFFICES ASSUME OptInv, Opt!Next PROVE OptInv'
  OBVIOUS
<1> DEFINE n == Len(given)  C == Opt!mat  p == Opt!Pivot
<1>1. given' = given /\ status = "eliminating" BY DEF Opt!Next, Opt!Eliminate
<1>2. (Opt!mat)' = C BY <1>1 DEF Opt!mat, Opt!covariance_matrix, Opt!Mean
<1>3. /\ n \in Nat \ {0} /\ \E m \in Nat \ {0} : given \in Series(n, m)
      /\ step \in 1..n /\ work \in [1..n -> Rows(n)] /\ Grown(work, C, n, step)
  BY <1>1 DEF OptInv
<1>4. C \in Tables(n, n) BY <1>3, MatrixIs
<1>5. p \in step..n BY <1>3, OptPivot
<1>6. CASE work[p][step] = Opt!Zero
  <2>1. status' = "None" /\ work' = work /\ step' = step
    BY <1>6 DEF Opt!Next, Opt!Eliminate
  <2>2. status' # "eliminating" /\ status' # "inverse" BY <2>1
  <2>3. step \in 1..(n + 1) BY <1>3
  <2>4. QED BY <1>1, <1>2, <1>3, <2>1, <2>2, <2>3 DEF OptInv
<1>7. CASE work[p][step] # Opt!Zero
  <2> DEFINE M == Exchange(work, step, p)
  <2>1. /\ work' = Opt!Eliminated(Opt!Swapped(work)) /\ step' = step + 1
        /\ status' = IF step = Opt!k THEN "inverse" ELSE status
    BY <1>7 DEF Opt!Next, Opt!Eliminate
  <2>2. Opt!k = n BY DEF Opt!k
  <2>3. Opt!Swapped(work) = M BY DEF Opt!Swapped, Exchange
  <2>4. \A m : Opt!Eliminated(m) = Sweep(m, step, n)
    <3>1. \A a, b : /\ Opt!Over(a, b) = Over(a, b) /\ Opt!Minus(a, b) = Minus(a, b)
                    /\ Opt!Times(a, b) = Times(a, b)
      BY OptOps
    <3> HIDE DEF n
    <3>2. QED BY <2>2, <3>1 DEF Opt!Eliminated, Sweep
  <2>5. work[p][step] # Zero BY <1>7, OptOps
  <2> HIDE DEF n, C, p
  <2>6. M \in [1..n -> Rows(n)] /\ Grown(M, C, n, step) /\ M[step] = work[p]
    BY <1>3, <1>4, <1>5, ExchangeGrown
  <2>7. M[step][step] # Zero BY <2>5, <2>6
  <2> HIDE DEF M
  <2>8. Sweep(M, step, n) \in [1..n -> Rows(n)] /\ Grown(Sweep(M, step, n), C, n, step + 1)
    BY <1>3, <1>4, <2>6, <2>7, SweepGrown
  <2>9. work' = Sweep(M, step, n) BY <2>1, <2>3, <2>4
  <2>10. step' \in 1..(n + 1) /\ (status' = "eliminating" => step' \in 1..n)
         /\ (status' = "inverse" => step' = n + 1)
    <3>1. status' = IF step = n THEN "inverse" ELSE "eliminating" BY <1>1, <2>1, <2>2
    <3>2. QED BY <1>3, <2>1, <3>1
  <2>11. /\ given' = given /\ Len(given') = n /\ (Opt!mat)' = C
    BY <1>1, <1>2 DEF n
  <2>12. Grown(work', C, n, step') /\ work' \in [1..n -> Rows(n)] BY <2>1, <2>8, <2>9
  <2>13. QED BY <1>3, <2>10, <2>11, <2>12 DEF OptInv
<1>8. QED BY <1>6, <1>7

LEMMA OptGrows == OptInv => Opt!InverseGrows
<1> SUFFICES ASSUME OptInv PROVE Opt!InverseGrows
  OBVIOUS
<1> DEFINE n == Len(given)
<1>1. Opt!k = n /\ n \in Nat \ {0} BY DEF Opt!k, OptInv
<1>2. Grown(work, Opt!mat, n, step) /\ (status = "inverse" => step = n + 1) BY DEF OptInv
<1> HIDE DEF n
<1>3. ASSUME NEW r \in 1..n, NEW c \in 1..n
      PROVE  work[r][c] = Opt!SumOf([m \in 1..n |-> Opt!Times(work[r][n + m], Opt!mat[m][c])])
  <2>1. work[r][c] = Inner([l \in 1..n |-> work[r][n + l]], Column(Opt!mat, c, n), n)
    BY <1>2 DEF Grown, Keeps
  <2>2. \A a, b : Opt!Times(a, b) = Times(a, b) BY OptOps
  <2>3. [m \in 1..n |-> Opt!Times(work[r][n + m], Opt!mat[m][c])]
          = [m \in 1..n |-> Times([l \in 1..n |-> work[r][n + l]][m], Column(Opt!mat, c, n)[m])]
    BY <2>2 DEF Column
  <2>4. Opt!SumOf([m \in 1..n |-> Opt!Times(work[r][n + m], Opt!mat[m][c])])
          = SumOf([m \in 1..n |-> Times([l \in 1..n |-> work[r][n + l]][m], Column(Opt!mat, c, n)[m])])
    BY <2>3, OptSum
  <2>5. QED BY <2>1, <2>4 DEF Inner
<1>4. ASSUME NEW r \in 1..n, NEW c \in 1..(step - 1) PROVE work[r][c] = Opt!Unit(r)[c]
  <2>1. work[r][c] = AlmostOne(r, c) BY <1>2 DEF Grown
  <2>2. c \in 1..n
    <3>1. step \in 1..(n + 1) BY DEF OptInv, n
    <3>2. QED BY <1>1, <3>1
  <2>3. Opt!Unit(r)[c] = IF c = r THEN Opt!One ELSE Opt!Zero BY <1>1, <2>2 DEF Opt!Unit
  <2>4. QED BY <2>1, <2>3, OptOps DEF AlmostOne
<1> DEFINE K == Opt!k
<1>5. \A r \in 1..K : \A c \in 1..K :
        work[r][c] = Opt!SumOf([m \in 1..K |-> Opt!Times(work[r][K + m], Opt!mat[m][c])])
  <2>1. K = n BY <1>1
  <2> HIDE DEF K
  <2>2. QED BY ONLY <1>3, <2>1
<1>6. (\A r \in 1..K : \A c \in 1..(step - 1) : work[r][c] = Opt!Unit(r)[c])
      /\ (status = "inverse" => step = K + 1)
  <2> HIDE DEF K
  <2>1. K = n BY <1>1 DEF K
  <2>2. QED BY <1>2, <1>4, <2>1
<1>7. QED BY ONLY <1>5, <1>6 DEF Opt!InverseGrows

-----------------------------------------------------------------------------
LEMMA OverOne ==
  ASSUME NEW f \in Fraction, NEW g \in Fraction, g # Zero
  PROVE  /\ Over(One, g) \in Fraction /\ Over(f, g) \in Fraction
         /\ Over(f, g) = Times(Over(One, g), f) /\ Times(Over(One, g), g) = One
<1> DEFINE u == Over(One, g)
<1>1. u \in Fraction /\ Times(u, g) = One BY Numbers, FieldTypes, OverLaws
<1> HIDE DEF u
<1>2. Over(f, g) \in Fraction /\ Times(u, f) \in Fraction BY <1>1, FieldTypes
<1>3. Times(Times(u, f), g) = f
  <2>1. Times(u, f) = Times(f, u) /\ Times(f, Times(u, g)) = Times(Times(f, u), g)
    BY <1>1, TimesLaws
  <2>2. Times(f, One) = f BY UnitLaws
  <2>3. QED BY <1>1, <2>1, <2>2
<1>4. Times(u, f) = Over(f, g) BY <1>2, <1>3, OverIs
<1>5. QED BY <1>1, <1>2, <1>4 DEF u

\* Weights scaled to add up to one.
IsScaling(w, z, n) ==
  /\ w \in Vectors(n) /\ SumOf(w) = One
  /\ \E u \in Fraction : \A c \in 1..n : w[c] = Times(u, z[c])

LEMMA ScalingIs ==
  ASSUME NEW n \in Nat, NEW z \in Vectors(n)
  PROVE  /\ SumOf(z) = Zero => Opt!Scaled(z) = <<>>
         /\ SumOf(z) # Zero => IsScaling(Opt!Scaled(z), z, n)
<1> DEFINE S == SumOf(z)  w == [c \in 1..n |-> Over(z[c], S)]
<1>0. Opt!SumOf(z) = S /\ Opt!Zero = Zero BY OptOps, OptSum
<1>1. S \in Fraction /\ DOMAIN z = 1..n /\ \A c \in 1..n : z[c] \in Fraction
  BY SumIs DEF Vectors
<1>2. S = Zero => Opt!Scaled(z) = <<>> BY <1>0 DEF Opt!Scaled
<1>3. ASSUME S # Zero PROVE IsScaling(Opt!Scaled(z), z, n)
  <2>1. Opt!Scaled(z) = w
    <3>1. \A a, b : Opt!Over(a, b) = Over(a, b) BY OptOps
    <3> HIDE DEF S
    <3>2. QED BY <1>0, <1>1, <1>3, <3>1 DEF Opt!Scaled
  <2> DEFINE u == Over(One, S)
  <2> HIDE DEF S
  <2>2. u \in Fraction /\ Times(u, S) = One BY <1>1, <1>3, OverOne
  <2>3. \A c \in 1..n : w[c] \in Fraction /\ w[c] = Times(u, z[c])
    <3> SUFFICES ASSUME NEW c \in 1..n PROVE w[c] \in Fraction /\ w[c] = Times(u, z[c])
      OBVIOUS
    <3>1. z[c] \in Fraction BY <1>1
    <3>2. Over(z[c], S) \in Fraction /\ Over(z[c], S) = Times(Over(One, S), z[c])
      BY <1>1, <1>3, <3>1, OverOne
    <3>3. QED BY <3>2
  <2>4. w \in Vectors(n) BY <2>3 DEF Vectors
  <2> HIDE DEF w, u
  <2>5. SumOf(w) = Times(u, SumOf(z)) BY <2>2, <2>3, <2>4, SumTimes
  <2>6. SumOf(w) = One BY <2>2, <2>5 DEF S
  <2>7. QED BY <2>1, <2>2, <2>3, <2>4, <2>6 DEF IsScaling
<1>4. QED BY <1>2, <1>3

\* The sum of ones counts them.
LEMMA SumOfOnes ==
  ASSUME NEW n \in Nat, NEW f \in Vectors(n), \A c \in 1..n : f[c] = One
  PROVE  SumOf(f) = Whole(n)
<1> DEFINE Good == {i \in 0..n : Stretch(f, 1, i) = Whole(i)}
<1>1. 0 \in Good BY SumIs DEF Zero
<1>2. ASSUME NEW i \in 1..n, i - 1 \in Good PROVE i \in Good
  <2>1. Stretch(f, 1, i) = Plus(Stretch(f, 1, i - 1), f[i]) BY SumIs
  <2>2. Stretch(f, 1, i) = Plus(Whole(i - 1), Whole(1)) BY <1>2, <2>1 DEF One
  <2>3. i - 1 \in Int /\ 1 \in Int /\ (i - 1) + 1 = i /\ i \in 0..n OBVIOUS
  <2>4. Plus(Whole(i - 1), Whole(1)) = Whole((i - 1) + 1) BY <2>3, WholeOrder
  <2>5. QED BY <2>2, <2>3, <2>4
<1>3. 0..n \subseteq Good
  <2> HIDE DEF Good
  <2>1. QED BY <1>1, <1>2, UptoInduction
<1>4. n \in Good BY <1>3
<1>5. QED BY <1>4, SumIs

\* The weights of the holdings add up to one, whatever their market values, also
\* when none has a value (current_weights).
THEOREM AllWeightsAddUp ==
  ASSUME NEW mvs \in Seq(Fraction), mvs # <<>>
  PROVE  Opt!WeightsAddUp(mvs)
<1> DEFINE n == Len(mvs)
<1>1. n \in Nat \ {0} /\ DOMAIN mvs = 1..n /\ mvs \in Vectors(n) BY SeqIs DEF Vectors
<1>2. Opt!SumOf(mvs) = SumOf(mvs) /\ (Opt!Less(Opt!Zero, SumOf(mvs)) <=> Less(Zero, SumOf(mvs)))
      /\ Opt!One = One
  BY OptOps, OptSum
<1> HIDE DEF n
<1>3. SumOf(mvs) \in Fraction BY <1>1, SumIs
<1>4. CASE Less(Zero, SumOf(mvs))
  <2>1. SumOf(mvs) # Zero BY <1>3, <1>4, SignLaws
  <2>2. IsScaling(Opt!Scaled(mvs), mvs, n) BY <1>1, <2>1, ScalingIs
  <2>3. Opt!current_weights(mvs) = Opt!Scaled(mvs) BY <1>2, <1>4 DEF Opt!current_weights
  <2>4. SumOf(Opt!Scaled(mvs)) = One BY <2>2 DEF IsScaling
  <2>5. Opt!SumOf(Opt!Scaled(mvs)) = SumOf(Opt!Scaled(mvs)) BY OptSum
  <2>6. QED BY <1>2, <2>3, <2>4, <2>5 DEF Opt!WeightsAddUp
<1>5. CASE ~Less(Zero, SumOf(mvs))
  <2> DEFINE u == Over(One, Whole(n))  w == [c \in 1..n |-> u]  f == [c \in 1..n |-> One]
  <2>1. Opt!current_weights(mvs) = w
    <3>1. Opt!Over(Opt!One, Opt!Whole(Len(mvs))) = u
      <4>1. \A a, b : Opt!Over(a, b) = Over(a, b) /\ Opt!Whole(a) = Whole(a) BY OptOps
      <4>2. QED BY <1>2, <4>1 DEF n
    <3> HIDE DEF u
    <3>2. QED BY <1>1, <1>2, <1>5, <3>1 DEF Opt!current_weights
  <2>2. Whole(n) \in Fraction /\ Whole(n) # Zero
    <3>1. n \in Int /\ 0 \in Int BY <1>1
    <3>2. QED BY <1>1, <3>1, WholeIs, WholeOrder DEF Zero
  <2>3. u \in Fraction /\ Times(u, Whole(n)) = One BY <2>2, Numbers, OverOne
  <2> HIDE DEF u
  <2>4. w \in Vectors(n) /\ f \in Vectors(n) /\ \A c \in 1..n : w[c] = Times(u, f[c]) /\ f[c] = One
    <3>1. Times(u, One) = u BY <2>3, UnitLaws
    <3>2. QED BY <2>3, <3>1, Numbers DEF Vectors
  <2> HIDE DEF w, f
  <2>5. SumOf(f) = Whole(n) BY <1>1, <2>4, SumOfOnes
  <2>6. SumOf(w) = Times(u, SumOf(f)) BY <1>1, <2>3, <2>4, SumTimes
  <2>7. Opt!SumOf(w) = SumOf(w) BY OptSum
  <2>8. QED BY <1>2, <2>1, <2>3, <2>5, <2>6, <2>7 DEF Opt!WeightsAddUp
<1>6. QED BY <1>4, <1>5

-----------------------------------------------------------------------------
\* What multiplies vectors in the optimizer.
LEMMA OptDot ==
  ASSUME NEW n \in Nat, NEW v \in Vectors(n), NEW w
  PROVE  Opt!Dot(v, w) = Inner(v, w, n)
<1>1. \A a, b : Opt!Times(a, b) = Times(a, b) BY OptOps
<1>2. DOMAIN v = 1..n BY DEF Vectors
<1>3. [c \in DOMAIN v |-> Opt!Times(v[c], w[c])] = [c \in 1..n |-> Times(v[c], w[c])]
  BY <1>1, <1>2
<1>4. QED BY <1>3, OptSum DEF Opt!Dot, Inner

LEMMA OptImage ==
  ASSUME NEW n \in Nat, NEW M \in Tables(n, n), NEW w
  PROVE  Opt!mat_vec(M, w) = Image(M, w, n)
<1>1. DOMAIN M = 1..n BY DEF Tables
<1>2. \A i \in 1..n : M[i] \in Vectors(n) BY ColumnIs
<1>3. \A i \in 1..n : Opt!Dot(M[i], w) = Inner(M[i], w, n) BY <1>2, OptDot
<1>4. QED BY <1>1, <1>3 DEF Opt!mat_vec, Image

LEMMA OptVariance ==
  ASSUME NEW n \in Nat, Opt!mat \in Tables(n, n), NEW w \in Vectors(n)
  PROVE  Opt!Variance(w) = Inner(w, Image(Opt!mat, w, n), n)
<1> DEFINE C == Opt!mat
<1>1. C \in Tables(n, n) OBVIOUS
<1>2. Opt!Variance(w) = Opt!Dot(w, Opt!mat_vec(C, w)) BY DEF Opt!Variance
<1> HIDE DEF C
<1>3. Opt!mat_vec(C, w) = Image(C, w, n) BY <1>1, OptImage
<1>4. Opt!Dot(w, Image(C, w, n)) = Inner(w, Image(C, w, n), n) BY OptDot
<1>5. QED BY <1>2, <1>3, <1>4 DEF C

\* The right half of the rows, at the end.
Halves(A, n) == [r \in 1..n |-> [l \in 1..n |-> A[r][n + l]]]

LEMMA InverseIs ==
  ASSUME OptInv
  PROVE  /\ Opt!inv = Halves(work, Len(given)) /\ Opt!inv \in Tables(Len(given), Len(given))
         /\ status = "inverse" => Inverts(Opt!inv, Opt!mat, Len(given))
<1> DEFINE n == Len(given)  V == Halves(work, n)
<1>1. n \in Nat /\ work \in [1..n -> Rows(n)] /\ Opt!k = n BY DEF OptInv, Opt!k
<1> HIDE DEF n
<1>2. ASSUME NEW r \in 1..n
      PROVE  V[r] = SubSeq(work[r], n + 1, 2 * n) /\ V[r] \in [1..n -> Fraction]
  <2> DEFINE v == work[r]
  <2>1. v \in Rows(n) BY <1>1
  <2>2. v \in Seq(Fraction) /\ Len(v) = 2 * n
    <3>1. v \in [1..(2 * n) -> Fraction] /\ 2 * n \in Nat BY <1>1, <2>1 DEF Rows
    <3> HIDE DEF v
    <3>2. QED BY <3>1, ListIs
  <2>3. V[r] = [l \in 1..n |-> v[n + l]] BY DEF Halves
  <2> HIDE DEF v
  <2>4. [l \in 1..n |-> v[n + l]] \in [1..n -> Fraction]
    <3>1. [l \in 1..n |-> v[n + l]] \in Vectors(n) BY <1>1, <2>1, HalfIs
    <3>2. QED BY <3>1 DEF Vectors
  <2> DEFINE h == [l \in 1..n |-> v[n + l]]  s == SubSeq(v, n + 1, Len(v))
  <2>5. h \in Seq(Fraction) /\ Len(h) = n BY <1>1, <2>4, ListIs
  <2>6. /\ s \in Seq(Fraction) /\ Len(s) = Len(v) - (n + 1) + 1
        /\ \A j \in 1..(Len(v) - (n + 1) + 1) : s[j] = v[(n + 1) + j - 1]
    <3>1. n + 1 \in Nat /\ n + 1 >= 1 /\ n + 1 <= Len(v) + 1 BY <1>1, <2>2
    <3>2. QED BY <2>2, <3>1, SubSeqIs
  <2>7. Len(v) - (n + 1) + 1 = n /\ \A j \in 1..n : (n + 1) + j - 1 = n + j BY <1>1, <2>2
  <2>8. Len(s) = n /\ \A j \in 1..n : s[j] = h[j] BY <2>6, <2>7
  <2> HIDE DEF h, s
  <2>9. h = s BY <2>5, <2>6, <2>8, SeqSame
  <2>10. QED BY <2>2, <2>3, <2>4, <2>9 DEF h, s, v
<1>3. Opt!inv = V
  <2>1. Opt!inv = [r \in 1..n |-> SubSeq(work[r], n + 1, 2 * n)]
    BY <1>1 DEF Opt!inv, Opt!Right
  <2>2. V = [r \in 1..n |-> V[r]] BY DEF Halves
  <2>3. QED BY <1>2, <2>1, <2>2
<1>4. V \in Tables(n, n)
  <2>1. V = [r \in 1..n |-> V[r]] BY DEF Halves
  <2>2. QED BY <1>2, <2>1 DEF Tables
<1>5. ASSUME status = "inverse" PROVE Inverts(V, Opt!mat, n)
  <2>1. Grown(work, Opt!mat, n, n + 1) BY <1>5 DEF OptInv, n
  <2>2. ASSUME NEW r \in 1..n, NEW c \in 1..n
        PROVE  Inner(V[r], Column(Opt!mat, c, n), n) = AlmostOne(r, c)
    <3>1. (n + 1) - 1 = n BY <1>1
    <3>2. work[r][c] = AlmostOne(r, c) BY <2>1, <3>1 DEF Grown
    <3>3. work[r][c] = Inner([l \in 1..n |-> work[r][n + l]], Column(Opt!mat, c, n), n)
      BY <2>1 DEF Grown, Keeps
    <3>4. V[r] = [l \in 1..n |-> work[r][n + l]] BY DEF Halves
    <3>5. QED BY <3>2, <3>3, <3>4
  <2>3. QED BY <2>2 DEF Inverts
<1>6. QED BY <1>3, <1>4, <1>5 DEF n

\* What a matrix takes to x, scaled, it takes to a multiple of x.
LEMMA ScalingImage ==
  ASSUME NEW n \in Nat, NEW C \in Tables(n, n), NEW z \in Vectors(n), NEW x \in Vectors(n),
         \A c \in 1..n : Inner(C[c], z, n) = x[c],
         NEW w \in Vectors(n), NEW u \in Fraction, \A c \in 1..n : w[c] = Times(u, z[c])
  PROVE  \A c \in 1..n : Inner(C[c], w, n) = Times(u, x[c])
<1> SUFFICES ASSUME NEW c \in 1..n PROVE Inner(C[c], w, n) = Times(u, x[c])
  OBVIOUS
<1> DEFINE v == C[c]  f == [l \in 1..n |-> Times(v[l], z[l])]  h == [l \in 1..n |-> Times(v[l], w[l])]
<1>1. v \in Vectors(n) BY ColumnIs
<1>2. Inner(v, z, n) = x[c] OBVIOUS
<1> HIDE DEF v
<1>3. f \in Vectors(n) /\ h \in Vectors(n) BY <1>1, InnerIs
<1>4. ASSUME NEW l \in 1..n PROVE h[l] = Times(u, f[l])
  <2> DEFINE p == v[l]  q == z[l]
  <2>1. p \in Fraction /\ q \in Fraction BY <1>1 DEF Vectors
  <2>2. h[l] = Times(p, Times(u, q)) /\ f[l] = Times(p, q) OBVIOUS
  <2> HIDE DEF p, q, f, h
  <2>3. Times(p, Times(u, q)) = Times(Times(p, u), q) /\ Times(p, u) = Times(u, p)
        /\ Times(u, Times(p, q)) = Times(Times(u, p), q)
    BY <2>1, TimesLaws
  <2>4. QED BY <2>2, <2>3
<1> HIDE DEF f, h
<1>5. SumOf(h) = Times(u, SumOf(f)) BY <1>3, <1>4, SumTimes
<1>6. QED BY <1>2, <1>5 DEF Inner, f, h, v

\* A shift of weights is a multiple of one from asset to asset.
LEMMA ShiftedIs ==
  ASSUME NEW n \in Nat, NEW w \in Vectors(n), NEW up \in 1..n, NEW down \in 1..n, up # down,
         NEW by \in Fraction
  PROVE  /\ Opt!Shifted(w, up, down, by) \in Vectors(n)
         /\ \A c \in 1..n : Opt!Shifted(w, up, down, by)[c]
                              = Plus(w[c], Times(by, Shift(up, down, n)[c]))
<1> DEFINE x == [w EXCEPT ![up] = Plus(w[up], by), ![down] = Minus(w[down], by)]
<1>1. Opt!Shifted(w, up, down, by) = x
  <2>1. \A a, b : Opt!Plus(a, b) = Plus(a, b) /\ Opt!Minus(a, b) = Minus(a, b) BY OptOps
  <2>2. QED BY <2>1 DEF Opt!Shifted, Vectors
<1>2. \A c \in 1..n : w[c] \in Fraction BY DEF Vectors
<1>3. Plus(w[up], by) \in Fraction /\ Minus(w[down], by) \in Fraction BY <1>2, FieldTypes
<1>4. x \in Vectors(n) BY <1>3 DEF Vectors
<1>5. x[up] = Plus(w[up], by) /\ x[down] = Minus(w[down], by)
      /\ \A c \in 1..n : c # up /\ c # down => x[c] = w[c]
  BY DEF Vectors
<1>6. Times(by, One) = by /\ Times(by, Zero) = Zero BY UnitLaws, Numbers, TimesLaws
<1>7. Plus(w[down], Times(by, Minus(Zero, One))) = Minus(w[down], by)
  <2>1. Whole(-1) \in Fraction /\ Times(Whole(-1), One) = Minus(Zero, One)
        /\ Plus(w[down], Times(Whole(-1), by)) = Minus(w[down], by)
    BY <1>2, NegativeIs
  <2>2. Times(Whole(-1), One) = Whole(-1) BY <2>1, UnitLaws
  <2>3. Times(by, Whole(-1)) = Times(Whole(-1), by) BY <2>1, TimesLaws
  <2>4. QED BY <2>1, <2>2, <2>3
<1> HIDE DEF x
<1>8. ASSUME NEW c \in 1..n PROVE x[c] = Plus(w[c], Times(by, Shift(up, down, n)[c]))
  <2> DEFINE e == Shift(up, down, n)[c]
  <2>1. e = IF c = up THEN One ELSE IF c = down THEN Minus(Zero, One) ELSE Zero BY DEF Shift
  <2> SUFFICES x[c] = Plus(w[c], Times(by, e)) OBVIOUS
  <2> HIDE DEF e
  <2>2. CASE c = up BY <1>5, <1>6, <2>1, <2>2
  <2>3. CASE c = down BY <1>5, <1>7, <2>1, <2>3
  <2>4. CASE c # up /\ c # down
    <3>1. Plus(w[c], Zero) = w[c] BY <1>2, PlusLaws
    <3>2. QED BY <1>5, <1>6, <2>1, <2>4, <3>1
  <2>5. QED BY <2>2, <2>3, <2>4
<1>9. QED BY <1>1, <1>4, <1>8

-----------------------------------------------------------------------------
HalfOne == <<1, 2>>

LEMMA HalfIsOne == HalfOne \in Fraction
<1>1. HalfOne[1] = 1 /\ HalfOne[2] = 2 /\ HalfOne \in Int \X (Nat \ {0}) BY DEF HalfOne
<1>2. HalfOne[1] * (-1) + HalfOne[2] * 1 = 1 /\ -1 \in Int /\ 1 \in Int BY <1>1
<1>3. QED BY <1>1, <1>2 DEF Fraction

\* The portfolio the inverse makes of x and what the matrix takes it to.
LEMMA PortfolioIs ==
  ASSUME OptInv, status = "inverse", NEW x \in Vectors(Len(given)),
         Opt!Scaled(Opt!mat_vec(Opt!inv, x)) # <<>>
  PROVE  LET w == Opt!Scaled(Opt!mat_vec(Opt!inv, x))
         IN  /\ w \in Vectors(Len(given)) /\ SumOf(w) = One
             /\ \E u \in Fraction :
                  \A c \in 1..Len(given) : Inner(Opt!mat[c], w, Len(given)) = Times(u, x[c])
<1> DEFINE n == Len(given)  C == Opt!mat  V == Opt!inv  z == Image(V, x, n)
           w == Opt!Scaled(Opt!mat_vec(V, x))
<1>1. n \in Nat /\ C \in Tables(n, n) /\ Symmetric(C, n) /\ V \in Tables(n, n) /\ Inverts(V, C, n)
  BY MatrixIs, InverseIs DEF OptInv
<1> HIDE DEF n, C, V
<1>2. Inverts(C, V, n) BY <1>1, InverseTurns
<1>3. Opt!mat_vec(V, x) = z BY <1>1, OptImage
<1>4. x \in Vectors(n) BY DEF n
<1>5. z \in Vectors(n) BY <1>1, <1>4, ImageIs
<1>6. \A c \in 1..n : Inner(C[c], z, n) = x[c]
  <2>1. z = [m \in 1..n |-> Inner(V[m], x, n)] BY DEF Image
  <2> HIDE DEF z
  <2>2. QED BY <1>1, <1>2, <1>4, <2>1, InverseSolves
<1> HIDE DEF z
<1>7. IsScaling(w, z, n)
  <2>1. w = Opt!Scaled(z) /\ w # <<>> BY <1>3 DEF V
  <2>2. SumOf(z) # Zero BY <1>1, <1>5, <2>1, ScalingIs
  <2>3. QED BY <1>1, <1>5, <2>1, <2>2, ScalingIs
<1> HIDE DEF w
<1>8. w \in Vectors(n) /\ SumOf(w) = One BY <1>7 DEF IsScaling
<1>9. PICK u \in Fraction : \A c \in 1..n : w[c] = Times(u, z[c]) BY <1>7 DEF IsScaling
<1>10. \A c \in 1..n : Inner(C[c], w, n) = Times(u, x[c])
  <2>1. n \in Nat /\ C \in Tables(n, n) /\ z \in Vectors(n) /\ x \in Vectors(n)
        /\ w \in Vectors(n) /\ u \in Fraction
    BY <1>1, <1>4, <1>5, <1>8
  <2>2. \A c \in 1..n : w[c] = Times(u, z[c]) BY <1>9
  <2>3. QED BY ONLY <1>6, <2>1, <2>2, ScalingImage
<1>11. QED BY <1>8, <1>10 DEF w, n, C, V

LEMMA LeastVariance ==
  ASSUME OptInv, status = "inverse", Opt!min_variance # <<>>
  PROVE  /\ Opt!SumOf(Opt!min_variance) = Opt!One
         /\ \A up, down \in 1..Opt!k : \A by \in {Opt!One, <<1, 2>>} :
              up # down => Opt!AtMost(Opt!Variance(Opt!min_variance),
                                      Opt!Variance(Opt!Shifted(Opt!min_variance, up, down, by)))
<1> DEFINE n == Len(given)  C == Opt!mat  w == Opt!min_variance  x == [c \in 1..n |-> One]
<1>1. n \in Nat /\ C \in Tables(n, n) /\ Symmetric(C, n) /\ Rising(C, n) /\ Opt!k = n
  BY MatrixIs DEF OptInv, Opt!k
<1>2. x \in Vectors(n) BY Numbers DEF Vectors
<1>3. w = Opt!Scaled(Opt!mat_vec(Opt!inv, x))
  <2>1. [c \in 1..Opt!k |-> Opt!One] = x BY <1>1, OptOps
  <2> HIDE DEF x
  <2>2. QED BY <2>1 DEF Opt!min_variance
<1>4. PICK u \in Fraction : \A c \in 1..n : Inner(C[c], w, n) = Times(u, x[c])
  <2> HIDE DEF x, w
  <2>1. w # <<>> BY DEF w
  <2>2. QED BY <1>2, <1>3, <2>1, PortfolioIs
<1>5. w \in Vectors(n) /\ SumOf(w) = One
  <2> HIDE DEF x, w
  <2>1. w # <<>> BY DEF w
  <2>2. QED BY <1>2, <1>3, <2>1, PortfolioIs
<1>6. \A c \in 1..n : Inner(C[c], w, n) = u
  <2>1. Times(u, One) = u BY UnitLaws
  <2>2. QED BY <1>4, <2>1
<1> HIDE DEF n, C, w, x
<1>7. Opt!SumOf(w) = Opt!One BY <1>5, OptOps, OptSum
<1>8. ASSUME NEW up \in 1..n, NEW down \in 1..n, NEW by \in {One, <<1, 2>>}, up # down
      PROVE  Opt!AtMost(Opt!Variance(w), Opt!Variance(Opt!Shifted(w, up, down, by)))
  <2> DEFINE y == Opt!Shifted(w, up, down, by)
  <2>1. by \in Fraction BY Numbers, HalfIsOne DEF HalfOne
  <2>2. y \in Vectors(n) /\ \A c \in 1..n : y[c] = Plus(w[c], Times(by, Shift(up, down, n)[c]))
    BY <1>1, <1>5, <1>8, <2>1, ShiftedIs
  <2> HIDE DEF y
  <2>3. AtMost(Zero, Minus(Slope(C, up, down, n)[up], Slope(C, up, down, n)[down]))
    BY <1>1 DEF Rising
  <2>4. AtMost(Inner(w, Image(C, w, n), n), Inner(y, Image(C, y, n), n))
    BY <1>1, <1>5, <1>6, <1>8, <2>1, <2>2, <2>3, Best
  <2>5. Opt!Variance(w) = Inner(w, Image(C, w, n), n)
        /\ Opt!Variance(y) = Inner(y, Image(C, y, n), n)
    BY <1>1, <1>5, <2>2, OptVariance DEF C
  <2>6. Opt!AtMost(Opt!Variance(w), Opt!Variance(y)) <=> AtMost(Opt!Variance(w), Opt!Variance(y))
    BY OptOps
  <2>7. QED BY <2>4, <2>5, <2>6 DEF y
<1>9. Opt!One = One BY OptOps
<1>10. QED BY <1>1, <1>7, <1>8, <1>9 DEF w

LEMMA ExcessIs ==
  ASSUME OptInv
  PROVE  Opt!excess \in Vectors(Len(given)) /\ Opt!k = Len(given)
<1> DEFINE n == Len(given)  mu == Opt!mean_returns(given)
<1>1. n \in Nat /\ Opt!k = n BY DEF OptInv, Opt!k
<1>2. PICK m \in Nat \ {0} : given \in Series(n, m) BY DEF OptInv
<1>3. mu \in Vectors(n)
  <2>1. m \in Nat OBVIOUS
  <2> HIDE DEF n
  <2>2. QED BY <1>1, <1>2, <2>1, MeansAre
<1> HIDE DEF n, mu
<1>4. \A c \in 1..n : mu[c] \in Fraction BY <1>3 DEF Vectors
<1>5. \A c \in 1..n : Minus(mu[c], HalfOne) \in Fraction BY <1>4, HalfIsOne, FieldTypes
<1>6. \A a, b : Opt!Minus(a, b) = Minus(a, b) BY OptOps
<1>7. Opt!excess = [c \in 1..n |-> Minus(mu[c], HalfOne)]
  BY <1>1, <1>6 DEF Opt!excess, mu, HalfOne
<1>8. QED BY <1>1, <1>5, <1>7 DEF Vectors, n

LEMMA TangencyHolds ==
  ASSUME OptInv, status = "inverse", Opt!tangency # <<>>
  PROVE  /\ Opt!SumOf(Opt!tangency) = Opt!One
         /\ \A c, d \in 1..Opt!k :
              Opt!Times(Opt!mat_vec(Opt!mat, Opt!tangency)[c], Opt!excess[d])
                = Opt!Times(Opt!mat_vec(Opt!mat, Opt!tangency)[d], Opt!excess[c])
<1> DEFINE n == Len(given)  C == Opt!mat  w == Opt!tangency  x == Opt!excess
<1>1. n \in Nat /\ C \in Tables(n, n) /\ Opt!k = n
  BY MatrixIs DEF OptInv, Opt!k
<1>2. x \in Vectors(n) BY ExcessIs
<1>3. w = Opt!Scaled(Opt!mat_vec(Opt!inv, x)) BY DEF Opt!tangency
<1> HIDE DEF x, w
<1>4. w # <<>> BY DEF w
<1>5. w \in Vectors(n) /\ SumOf(w) = One BY <1>2, <1>3, <1>4, PortfolioIs
<1>6. PICK u \in Fraction : \A c \in 1..n : Inner(C[c], w, n) = Times(u, x[c])
  BY <1>2, <1>3, <1>4, PortfolioIs
<1> HIDE DEF n, C
<1>7. Opt!SumOf(w) = Opt!One BY <1>5, OptOps, OptSum
<1>8. Opt!mat_vec(C, w) = Image(C, w, n) BY <1>1, OptImage
<1>9. ASSUME NEW c \in 1..n, NEW d \in 1..n
      PROVE  Opt!Times(Opt!mat_vec(C, w)[c], x[d]) = Opt!Times(Opt!mat_vec(C, w)[d], x[c])
  <2> DEFINE p == x[c]  q == x[d]
  <2>1. p \in Fraction /\ q \in Fraction BY <1>2 DEF Vectors
  <2>2. Opt!mat_vec(C, w)[c] = Times(u, p) /\ Opt!mat_vec(C, w)[d] = Times(u, q)
    BY <1>6, <1>8 DEF Image
  <2> HIDE DEF p, q
  <2>3. Times(u, Times(p, q)) = Times(Times(u, p), q) /\ Times(p, q) = Times(q, p)
        /\ Times(u, Times(q, p)) = Times(Times(u, q), p)
    BY <2>1, TimesLaws
  <2>4. \A a, b : Opt!Times(a, b) = Times(a, b) BY OptOps
  <2>5. Opt!Times(Opt!mat_vec(C, w)[c], q) = Opt!Times(Opt!mat_vec(C, w)[d], p)
    BY <2>2, <2>3, <2>4
  <2>6. QED BY <2>5 DEF p, q
<1>10. QED BY <1>1, <1>7, <1>9 DEF n, C, w, x

\* Whatever the returns of however many assets, the elimination ends in the
\* inverse, or in none, and what it makes of it is best: no shift between two
\* assets lessens the variance of min_variance, and tangency has covariances in
\* proportion to excess returns.
LEMMA PortfoliosBest == OptInv => Opt!PortfoliosAreBest
BY LeastVariance, TangencyHolds DEF Opt!PortfoliosAreBest

\* The optimizer counts with the same operators.
LEMMA OptCounts == \A X : Opt!Cardinality(X) = Cardinality(X)
BY DEF Opt!Cardinality, Cardinality

-----------------------------------------------------------------------------
\* Which of the histories are long enough.
LongOf(histories, n) ==
  {j \in 1..n : Cardinality(histories[j].closes) > MIN_RETURN_SAMPLES}

\* A list of just the histories at the places in A.
ListOf(q, histories, A) ==
  /\ \A i \in DOMAIN q : \E j \in A : q[i] = histories[j]
  /\ \A j \in A : \E i \in DOMAIN q : q[i] = histories[j]

LEMMA ListGrows ==
  ASSUME NEW S, NEW q \in Seq(S), NEW histories, NEW A, ListOf(q, histories, A),
         NEW m, histories[m] \in S
  PROVE  ListOf(Append(q, histories[m]), histories, A \cup {m})
<1> DEFINE n == Len(q)  r == Append(q, histories[m])
<1>1. n \in Nat /\ DOMAIN q = 1..n BY SeqIs
<1>2. /\ DOMAIN r = 1..(n + 1) /\ r[n + 1] = histories[m]
      /\ \A i \in 1..n : r[i] = q[i]
  OBVIOUS
<1>3. \A i : i \in 1..(n + 1) <=> i \in 1..n \/ i = n + 1 BY <1>1
<1> HIDE DEF n, r
<1>4. \A i \in DOMAIN r : \E j \in A \cup {m} : r[i] = histories[j]
  <2> SUFFICES ASSUME NEW i \in DOMAIN r PROVE \E j \in A \cup {m} : r[i] = histories[j]
    OBVIOUS
  <2>1. CASE i \in 1..n BY <1>1, <1>2, <2>1 DEF ListOf
  <2>2. CASE i = n + 1 BY <1>2, <2>2
  <2>3. QED BY <1>2, <1>3, <2>1, <2>2
<1>5. \A j \in A \cup {m} : \E i \in DOMAIN r : r[i] = histories[j]
  <2> SUFFICES ASSUME NEW j \in A \cup {m} PROVE \E i \in DOMAIN r : r[i] = histories[j]
    OBVIOUS
  <2>1. CASE j \in A
    <3>1. PICK i \in 1..n : q[i] = histories[j] BY <1>1, <2>1 DEF ListOf
    <3>2. i \in DOMAIN r /\ r[i] = histories[j] BY <1>2, <1>3, <3>1
    <3>3. QED BY <3>2
  <2>2. CASE j = m
    <3>1. n + 1 \in DOMAIN r BY <1>2, <1>3
    <3>2. QED BY <1>2, <2>2, <3>1
  <2>3. QED BY <2>1, <2>2
<1>6. QED BY <1>4, <1>5 DEF ListOf, r

LEMMA UsableIs ==
  ASSUME NEW S, NEW histories \in Seq(S)
  PROVE  /\ Opt!usable(histories) \in Seq(S)
         /\ ListOf(Opt!usable(histories), histories, LongOf(histories, Len(histories)))
         /\ Len(Opt!usable(histories)) = Cardinality(LongOf(histories, Len(histories)))
<1> DEFINE n == Len(histories)
           long(m) == Opt!Cardinality(histories[m].closes) > MIN_RETURN_SAMPLES
           Rec(p) == p = [m \in 0..n |->
                            IF m = 0 THEN <<>>
                            ELSE IF Opt!Cardinality(histories[m].closes) > MIN_RETURN_SAMPLES
                                   THEN Append(p[m - 1], histories[m]) ELSE p[m - 1]]
           chosen == CHOOSE p : Rec(p)
           F == [i \in 1..n |-> [q \in Seq(S) |-> IF long(i) THEN Append(q, histories[i]) ELSE q]]
<1>1. n \in Nat /\ (\A i \in 1..n : histories[i] \in S) /\ <<>> \in Seq(S) BY SeqIs
<1>2. F \in [1..n -> [Seq(S) -> Seq(S)]]
  <2> HIDE DEF long
  <2>1. \A i \in 1..n : \A q \in Seq(S) : (IF long(i) THEN Append(q, histories[i]) ELSE q) \in Seq(S)
    BY <1>1
  <2>2. QED BY <2>1
<1>3. PICK p : Follows(p, n, Seq(S), <<>>, F)
  <2> HIDE DEF n, F
  <2>1. QED BY <1>1, <1>2, RecursionExists
<1>4. p \in [0..n -> Seq(S)] /\ p[0] = <<>> /\ \A i \in 1..n : p[i] = F[i][p[i - 1]]
  BY <1>3 DEF Follows
<1>5. ASSUME NEW i \in 1..n
      PROVE  p[i] = IF long(i) THEN Append(p[i - 1], histories[i]) ELSE p[i - 1]
  <2>1. i - 1 \in 0..n BY <1>1
  <2>2. p[i - 1] \in Seq(S) BY <2>1, <1>4
  <2> HIDE DEF long
  <2>3. QED BY <2>2, <1>4
<1> HIDE DEF F
<1>6. p = [m \in 0..n |-> IF m = 0 THEN <<>>
                           ELSE IF long(m) THEN Append(p[m - 1], histories[m]) ELSE p[m - 1]]
  <2> HIDE DEF long
  <2>1. \A m \in 0..n : p[m] = IF m = 0 THEN <<>>
                                ELSE IF long(m) THEN Append(p[m - 1], histories[m]) ELSE p[m - 1]
    <3> SUFFICES ASSUME NEW m \in 0..n
                 PROVE  p[m] = IF m = 0 THEN <<>>
                               ELSE IF long(m) THEN Append(p[m - 1], histories[m]) ELSE p[m - 1]
      OBVIOUS
    <3>1. m = 0 \/ m \in 1..n BY <1>1
    <3>2. QED BY <3>1, <1>4, <1>5
  <2>2. QED BY <2>1, <1>4
<1>7. Rec(chosen) BY <1>6
<1>8. Opt!usable(histories) = chosen[n] BY DEF Opt!usable, chosen
<1> HIDE DEF chosen
<1>9. /\ chosen[0] = <<>>
      /\ \A m \in 1..n : chosen[m] = IF long(m) THEN Append(chosen[m - 1], histories[m])
                                     ELSE chosen[m - 1]
  <2>1. 0 \in 0..n /\ \A m \in 1..n : m \in 0..n /\ m # 0 BY <1>1
  <2>2. QED BY <1>7, <2>1
<1> HIDE DEF Rec
<1> DEFINE L(m) == LongOf(histories, m)
           Good == {m \in 0..n : /\ chosen[m] \in Seq(S) /\ IsFiniteSet(L(m))
                                 /\ Len(chosen[m]) = Cardinality(L(m))
                                 /\ ListOf(chosen[m], histories, L(m))}
<1>10. 0 \in Good
  <2>1. L(0) = {} BY DEF LongOf
  <2>2. IsFiniteSet({}) /\ Cardinality({}) = 0 BY FS_EmptySet
  <2>3. Len(<<>>) = 0 /\ 0 \in 0..n BY <1>1
  <2>4. chosen[0] \in Seq(S) /\ Len(chosen[0]) = 0 BY <1>1, <1>9, <2>3
  <2>5. ListOf(chosen[0], histories, {})
    <3>1. DOMAIN <<>> = {} OBVIOUS
    <3>2. QED BY <1>9, <3>1 DEF ListOf
  <2> HIDE DEF L
  <2>6. QED BY <2>1, <2>2, <2>3, <2>4, <2>5
<1>11. ASSUME NEW m \in 1..n, m - 1 \in Good PROVE m \in Good
  <2>0. m \in 0..n /\ histories[m] \in S BY <1>1
  <2>1. IsFiniteSet(L(m - 1)) /\ chosen[m - 1] \in Seq(S)
        /\ Len(chosen[m - 1]) = Cardinality(L(m - 1))
        /\ ListOf(chosen[m - 1], histories, L(m - 1))
    BY <1>11
  <2>2. m \notin L(m - 1) BY DEF LongOf
  <2>3. CASE long(m)
    <3>1. L(m) = L(m - 1) \cup {m}
      <4>1. \A j : j \in 1..m <=> j \in 1..(m - 1) \/ j = m BY <1>1
      <4>2. QED BY <2>3, <4>1, OptCounts DEF LongOf
    <3> HIDE DEF L
    <3>2. IsFiniteSet(L(m)) /\ Cardinality(L(m)) = Cardinality(L(m - 1)) + 1
      <4> DEFINE X == L(m - 1)
      <4>1. IsFiniteSet(X) /\ m \notin X BY <2>1, <2>2
      <4> HIDE DEF X
      <4>2. IsFiniteSet(X \cup {m}) /\ Cardinality(X \cup {m}) = Cardinality(X) + 1
        BY <4>1, FS_AddElement
      <4>3. QED BY <3>1, <4>2 DEF X
    <3>3. chosen[m] = Append(chosen[m - 1], histories[m]) BY <1>9, <2>3
    <3>4. chosen[m] \in Seq(S) /\ Len(chosen[m]) = Len(chosen[m - 1]) + 1
      BY <2>0, <2>1, <3>3
    <3>5. ListOf(chosen[m], histories, L(m))
      <4> DEFINE X == L(m - 1)  q == chosen[m - 1]
      <4>1. q \in Seq(S) /\ ListOf(q, histories, X) /\ histories[m] \in S BY <2>0, <2>1
      <4> HIDE DEF X, q
      <4>2. ListOf(Append(q, histories[m]), histories, X \cup {m}) BY <4>1, ListGrows
      <4>3. QED BY <3>1, <3>3, <4>2 DEF X, q
    <3>6. QED BY <2>0, <2>1, <3>2, <3>4, <3>5
  <2>4. CASE ~long(m)
    <3>1. L(m) = L(m - 1)
      <4>1. \A j : j \in 1..m <=> j \in 1..(m - 1) \/ j = m BY <1>1
      <4>2. QED BY <2>4, <4>1, OptCounts DEF LongOf
    <3>2. chosen[m] = chosen[m - 1] BY <1>9, <2>4
    <3>3. QED BY <2>0, <2>1, <3>1, <3>2
  <2>5. QED BY <2>3, <2>4
<1>12. n \in Good
  <2> HIDE DEF Good
  <2>1. 0..n \subseteq Good BY <1>1, <1>10, <1>11, UptoInduction
  <2>2. QED BY <1>1, <2>1
<1>13. QED BY <1>8, <1>12

\* Whatever the histories of the holdings, the series compared are those of every
\* ticker with enough closes and run over just the days all of these have, which
\* are enough: no ticker left out shortens them (aligned_returns).
THEOREM AllSeriesAlign ==
  ASSUME NEW E, IsFiniteSet(E), NEW T, NEW histories \in Seq([ticker : T, closes : SUBSET E])
  PROVE  Opt!SeriesAlign(histories)
<1> DEFINE S == [ticker : T, closes : SUBSET E]  some == Opt!usable(histories)
           dates == Opt!common(some)  result == Opt!aligned_returns(histories)
           long == {j \in DOMAIN histories : Cardinality(histories[j].closes) > MIN_RETURN_SAMPLES}
           kept(i) == {e \in some[i].closes : e[1] \in dates}
<1>0. MIN_RETURN_SAMPLES \in Nat
  <2>1. {Points, Premiums, IV_MAX_ITERATIONS, TRADING_DAYS, MIN_RETURN_SAMPLES} \subseteq Nat
    BY FiguresAssumption
  <2>2. QED BY <2>1
<1>1. some \in Seq(S) /\ Len(some) = Cardinality(long) /\ ListOf(some, histories, long)
  <2>1. histories \in Seq(S) OBVIOUS
  <2>2. long = LongOf(histories, Len(histories)) BY <2>1, SeqIs DEF LongOf
  <2> HIDE DEF S, long
  <2>3. QED BY <2>1, <2>2, UsableIs
<1>2. DOMAIN some = 1..Len(some) /\ Len(some) \in Nat
      /\ \A i \in 1..Len(some) : some[i] \in S /\ some[i].closes \in SUBSET E
  <2> HIDE DEF some
  <2>1. DOMAIN some = 1..Len(some) /\ Len(some) \in Nat /\ \A i \in 1..Len(some) : some[i] \in S
    BY <1>1, SeqIs
  <2>2. QED BY <2>1
<1> DEFINE none == Len(some) < 2 \/ Cardinality(dates) <= MIN_RETURN_SAMPLES
<1>3. /\ none => result.tickers = <<>> /\ result.closes = <<>>
      /\ ~none => /\ result.tickers = [i \in DOMAIN some |-> some[i].ticker]
                  /\ result.closes = [i \in DOMAIN some |-> kept(i)]
  <2>1. result = IF none THEN [tickers |-> <<>>, closes |-> <<>>]
                 ELSE [tickers |-> [i \in DOMAIN some |-> some[i].ticker],
                       closes |-> [i \in DOMAIN some |-> kept(i)]]
    BY OptCounts DEF Opt!aligned_returns
  <2> HIDE DEF none, some, result, kept
  <2>2. QED BY <2>1
<1>4. \A d : d \in dates <=>
        /\ \E i \in DOMAIN some : d \in Opt!Days(some[i].closes)
        /\ \A i \in DOMAIN some : d \in Opt!Days(some[i].closes)
  <2> HIDE DEF some
  <2>1. QED BY DEF Opt!common
<1> DEFINE shared == {d \in UNION {Opt!Days(histories[j].closes) : j \in long} :
                        \A j \in long : d \in Opt!Days(histories[j].closes)}
<1>5. dates = shared
  <2> DEFINE has(d, j) == d \in Opt!Days(histories[j].closes)
  <2>1. \A d : d \in shared <=> (\E j \in long : has(d, j)) /\ \A j \in long : has(d, j)
    OBVIOUS
  <2> HIDE DEF shared, dates, long, some
  <2>2. ASSUME NEW d
        PROVE  /\ (\E i \in DOMAIN some : d \in Opt!Days(some[i].closes))
                    <=> \E j \in long : has(d, j)
               /\ (\A i \in DOMAIN some : d \in Opt!Days(some[i].closes))
                    <=> \A j \in long : has(d, j)
    <3>1. /\ \A i \in DOMAIN some : \E j \in long : some[i] = histories[j]
          /\ \A j \in long : \E i \in DOMAIN some : some[i] = histories[j]
      BY <1>1 DEF ListOf
    <3> DEFINE in(h) == d \in Opt!Days(h.closes)
    <3>2. \A j : has(d, j) <=> in(histories[j]) OBVIOUS
    <3> HIDE DEF has, in
    <3>3. /\ (\E i \in DOMAIN some : in(some[i])) <=> \E j \in long : has(d, j)
          /\ (\A i \in DOMAIN some : in(some[i])) <=> \A j \in long : has(d, j)
      BY <3>1, <3>2
    <3>4. QED BY <3>3 DEF in
  <2> HIDE DEF has
  <2>3. \A d : d \in dates <=> d \in shared BY <1>4, <2>1, <2>2
  <2>4. dates = shared
    <3>1. dates \subseteq shared /\ shared \subseteq dates BY <2>3
    <3>2. QED BY <3>1
  <2>5. QED BY <2>4
<1> HIDE DEF some, dates, result, long, shared
<1>6. ASSUME NEW i \in DOMAIN some
      PROVE  Opt!Days(kept(i)) = dates /\ IsFiniteSet(kept(i)) /\ IsFiniteSet(dates)
             /\ Cardinality(dates) <= Cardinality(kept(i))
             /\ Cardinality(dates) \in Nat /\ Cardinality(kept(i)) \in Nat
  <2>1. kept(i) \in SUBSET E BY <1>2
  <2>2. IsFiniteSet(kept(i))
    <3> HIDE DEF kept
    <3>1. QED BY <2>1, FS_Subset
  <2>3. \A e \in kept(i) : e[1] \in dates OBVIOUS
  <2>4. \A d \in dates : \E e \in kept(i) : e[1] = d
    <3> SUFFICES ASSUME NEW d \in dates PROVE \E e \in kept(i) : e[1] = d
      OBVIOUS
    <3>1. d \in Opt!Days(some[i].closes) BY <1>4
    <3>2. PICK e \in some[i].closes : e[1] = d BY <3>1 DEF Opt!Days
    <3>3. e \in kept(i) BY <3>2
    <3>4. QED BY <3>2, <3>3
  <2> HIDE DEF kept
  <2>5. Opt!Days(kept(i)) = dates BY <2>3, <2>4 DEF Opt!Days
  <2> DEFINE f == [e \in kept(i) |-> e[1]]
  <2>6. f \in Surjection(kept(i), dates)
    <3>1. f \in [kept(i) -> dates] BY <2>3
    <3>2. \A d \in dates : \E e \in kept(i) : f[e] = d BY <2>4
    <3> HIDE DEF f
    <3>3. QED BY <3>1, <3>2 DEF Surjection
  <2> HIDE DEF f
  <2>7. IsFiniteSet(dates) /\ Cardinality(dates) <= Cardinality(kept(i))
    BY <2>2, <2>6, FS_Surjection
  <2>8. QED BY <2>2, <2>5, <2>7, FS_CardinalityType
<1>7. CASE none
  <2>1. result.tickers = <<>> /\ result.closes = <<>> /\ DOMAIN <<>> = {} BY <1>3, <1>7
  <2>2. QED BY <2>1, OptCounts DEF Opt!SeriesAlign, result
<1>8. CASE ~none
  <2> HIDE DEF kept
  <2>1. result.tickers = [i \in DOMAIN some |-> some[i].ticker]
        /\ result.closes = [i \in DOMAIN some |-> kept(i)]
    BY <1>3, <1>8
  <2>2. \A i \in DOMAIN result.closes : Opt!Days(result.closes[i]) = shared
    BY <1>6, <1>5, <2>1
  <2>3. \A i \in DOMAIN result.closes : Cardinality(result.closes[i]) > MIN_RETURN_SAMPLES
    <3> SUFFICES ASSUME NEW i \in DOMAIN some PROVE Cardinality(kept(i)) > MIN_RETURN_SAMPLES
      BY <2>1
    <3>1. ~(Cardinality(dates) <= MIN_RETURN_SAMPLES) BY <1>8
    <3> HIDE DEF none
    <3>2. QED BY <1>0, <1>6, <3>1
  <2>4. Len(result.tickers) = Cardinality(long)
    <3> DEFINE names == [i \in 1..Len(some) |-> some[i].ticker]
    <3>1. names \in [1..Len(some) -> T] BY <1>2
    <3>2. names = result.tickers BY <1>2, <2>1
    <3> HIDE DEF names
    <3>3. Len(names) = Len(some) BY <1>2, <3>1, ListIs
    <3>4. QED BY <1>1, <3>2, <3>3
  <2>5. QED BY <2>2, <2>3, <2>4, OptCounts DEF Opt!SeriesAlign, result, long, shared
<1>9. QED BY <1>7, <1>8

-----------------------------------------------------------------------------
(***************************************************************************)
(* Every figure                                                            *)
(***************************************************************************)
\* A fraction whose numbers differ by one, or one of which is one, is reduced.
LEMMA LowestTerms ==
  ASSUME NEW n \in Nat, NEW d \in Nat \ {0}, n = 1 \/ d = 1 \/ d = n + 1 \/ n = d + 1
  PROVE  <<n, d>> \in Fraction
<1> DEFINE f == <<n, d>>
<1>1. f[1] = n /\ f[2] = d /\ f \in Int \X (Nat \ {0}) OBVIOUS
<1>2. \E x, y \in Int : n * x + d * y = 1
  <2>1. CASE n = 1
    <3>1. n * 1 + d * 0 = 1 /\ 1 \in Int /\ 0 \in Int BY <2>1
    <3>2. QED BY <3>1
  <2>2. CASE d = 1
    <3>1. n * 0 + d * 1 = 1 /\ 1 \in Int /\ 0 \in Int BY <2>2
    <3>2. QED BY <3>1
  <2>3. CASE d = n + 1
    <3>1. n * (-1) + d * 1 = 1 /\ -1 \in Int /\ 1 \in Int BY <2>3
    <3>2. QED BY <3>1
  <2>4. CASE n = d + 1
    <3>1. n * 1 + d * (-1) = 1 /\ -1 \in Int /\ 1 \in Int BY <2>4
    <3>2. QED BY <3>1
  <2>5. QED BY <2>1, <2>2, <2>3, <2>4
<1> HIDE DEF f
<1>3. f \in Fraction BY <1>1, <1>2 DEF Fraction
<1>4. QED BY <1>3 DEF f

LEMMA GreekTerms == Greek \subseteq Terms
<1>1. /\ <<1, 1>> \in Fraction /\ <<3, 2>> \in Fraction /\ <<2, 1>> \in Fraction
      /\ <<1, 2>> \in Fraction /\ <<0, 1>> \in Fraction /\ <<1, 10>> \in Fraction
      /\ <<1, 20>> \in Fraction /\ <<1, 4>> \in Fraction /\ <<3, 4>> \in Fraction
      /\ <<1, 3>> \in Fraction
  BY LowestTerms
<1>2. Zero = <<0, 1>> BY DEF Zero, Whole
<1>3. ASSUME NEW i \in Greek PROVE i \in Terms
  <2>1. /\ i.s \in Fraction /\ i.k \in Fraction /\ i.sqrt_t \in Fraction /\ i.r \in Fraction
        /\ i.q \in Fraction /\ i.sigma \in Fraction /\ i.disc_q \in Fraction
        /\ i.disc_r \in Fraction /\ i.pdf_d1 \in Fraction /\ i.n1 \in Fraction
        /\ i.n2 \in Fraction
    BY <1>1 DEF Greek
  <2>2. /\ i.s \in {<<1, 1>>, <<3, 2>>} /\ i.sigma \in {<<1, 4>>}
        /\ i.sqrt_t \in {<<1, 2>>, <<1, 1>>}
    BY DEF Greek
  <2>3. i.s # Zero /\ i.sigma # Zero /\ i.sqrt_t # Zero BY <1>2, <2>2
  <2>4. i = [s |-> i.s, k |-> i.k, sqrt_t |-> i.sqrt_t, r |-> i.r, q |-> i.q,
             sigma |-> i.sigma, disc_q |-> i.disc_q, disc_r |-> i.disc_r,
             pdf_d1 |-> i.pdf_d1, n1 |-> i.n1, n2 |-> i.n2]
    BY DEF Greek
  <2>5. i \in [s : Fraction, k : Fraction, sqrt_t : Fraction, r : Fraction, q : Fraction,
               sigma : Fraction, disc_q : Fraction, disc_r : Fraction, pdf_d1 : Fraction,
               n1 : Fraction, n2 : Fraction]
    BY <2>1, <2>4
  <2>6. QED BY <2>3, <2>5 DEF Terms
<1>4. QED BY <1>3

LEMMA HistoriesAlign ==
  ASSUME given \in Histories
  PROVE  Opt!SeriesAlign(given)
<1> DEFINE E == {<<d, d + 1>> : d \in 1..MaxDays}  T == {"a", "b", "c"}
           S == [ticker : T, closes : SUBSET E]
<1>1. IsFiniteSet(E)
  <2>1. {MaxRows, MaxCloses, MaxRoom, MaxFields, MaxTiles, MaxDays} \subseteq Nat
    BY FiguresAssumption
  <2>2. MaxDays \in Nat /\ 1 \in Int /\ MaxDays \in Int BY <2>1
  <2>3. IsFiniteSet(1..MaxDays) BY <2>2, FS_Interval
  <2> DEFINE f == [d \in 1..MaxDays |-> <<d, d + 1>>]
  <2>4. f \in Surjection(1..MaxDays, E) BY DEF Surjection
  <2> HIDE DEF f, E
  <2>5. QED BY <2>3, <2>4, FS_Surjection
<1>2. PICK x \in SUBSET E, y \in SUBSET E, z \in SUBSET E :
        given = <<[ticker |-> "a", closes |-> x], [ticker |-> "b", closes |-> y],
                  [ticker |-> "c", closes |-> z]>>
  BY DEF Histories
<1>3. given \in Seq(S)
  <2> HIDE DEF E
  <2>1. [ticker |-> "a", closes |-> x] \in S /\ [ticker |-> "b", closes |-> y] \in S
        /\ [ticker |-> "c", closes |-> z] \in S
    OBVIOUS
  <2> HIDE DEF S
  <2>2. QED BY <1>2, <2>1
<1> HIDE DEF E, T
<1>4. QED BY <1>1, <1>3, AllSeriesAlign

LEMMA ClosesMeasured ==
  ASSUME given \in Seq({1, 2, 4}), NEW period \in {0, 2, 3}
  PROVE  Chart!AveragesAreMeans(given, period) /\ Chart!StrengthIsBounded(given, period)
<1>1. given \in Seq(Int)
  <2>1. {1, 2, 4} \subseteq Int OBVIOUS
  <2>2. QED BY <2>1, SeqWider
<1>2. period \in Nat /\ period \in Nat \ {1} OBVIOUS
<1>3. QED BY <1>1, <1>2, AllAveragesMeans, AllStrengthBounded

LEMMA HoldingsWeighed ==
  ASSUME OptInv
  PROVE  Opt!WeightsAddUp([k \in DOMAIN given |-> Whole(given[k][1] * given[k][1])])
<1> DEFINE n == Len(given)  mvs == [k \in DOMAIN given |-> Whole(given[k][1] * given[k][1])]
<1>1. n \in Nat \ {0} BY DEF OptInv
<1>2. PICK m \in Nat \ {0} : given \in Series(n, m) BY DEF OptInv
<1> HIDE DEF n
<1>3. DOMAIN given = 1..n /\ \A c \in 1..n : given[c][1] \in Int
  <2>1. \A c \in 1..n : given[c] \in [1..m -> Int] BY <1>2 DEF Series
  <2>2. 1 \in 1..m OBVIOUS
  <2>3. QED BY <1>2, <2>1, <2>2 DEF Series
<1>4. \A c \in 1..n : Whole(given[c][1] * given[c][1]) \in Fraction
  <2>1. \A c \in 1..n : given[c][1] * given[c][1] \in Int BY <1>3
  <2>2. QED BY <2>1, WholeIs
<1>5. mvs \in [1..n -> Fraction] BY <1>3, <1>4
<1> HIDE DEF mvs
<1>6. mvs \in Seq(Fraction) /\ Len(mvs) = n BY <1>1, <1>5, ListIs
<1>7. mvs # <<>> BY <1>1, <1>6
<1>8. Opt!WeightsAddUp(mvs) BY <1>6, <1>7, AllWeightsAddUp
<1>9. QED BY <1>8 DEF mvs

\* What the figures keep, whichever of them a behaviour is about.
MathInv ==
  /\ FiguresInv
  /\ figure = "solver" => SolverInv
  /\ figure = "optimizer" => OptInv
  /\ figure = "greeks" => given \in Greek
  /\ figure = "histories" => given \in Histories

LEMMA MathStart == FiguresInit => MathInv
<1> SUFFICES ASSUME FiguresInit PROVE MathInv
  OBVIOUS
<1>1. FiguresInv BY FiguresStart
<1>2. CASE figure = "treemap" BY <1>1, <1>2 DEF MathInv
<1>3. CASE figure = "optimizer" /\ Opt!Init
  <2>1. OptInv BY <1>3, OptStarts
  <2>2. QED BY <1>1, <1>3, <2>1 DEF MathInv
<1>4. CASE figure = "solver" /\ Solver!Init
  <2>1. SolverInv BY <1>4, SolverStarts
  <2>2. QED BY <1>1, <1>4, <2>1 DEF MathInv
<1>5. CASE /\ figure \in DOMAIN Grows \cup {"greeks", "histories"}
           /\ given \in IF figure = "greeks" THEN Greek
                        ELSE IF figure = "histories" THEN Histories ELSE {<<>>}
  <2>1. figure # "solver" /\ figure # "optimizer" BY <1>5, GrowsIs
  <2>2. figure = "greeks" => given \in Greek BY <1>5
  <2>3. figure = "histories" => given \in Histories BY <1>5
  <2>4. QED BY <1>1, <2>1, <2>2, <2>3 DEF MathInv
<1>6. QED BY <1>2, <1>3, <1>4, <1>5 DEF FiguresInit

LEMMA MathSame ==
  ASSUME UNCHANGED figureVars
  PROVE  (SolverInv => SolverInv') /\ (OptInv => OptInv')
<1>1. /\ given' = given /\ step' = step /\ work' = work /\ first' = first
      /\ second' = second /\ guess' = guess /\ status' = status
  BY DEF figureVars, machine
<1>2. (Solver!Market)' = Solver!Market /\ \A s : (Solver!diff(s))' = Solver!diff(s)
  BY <1>1 DEF Solver!Market, Solver!contract_market_price, Solver!diff
<1>3. SolverInv => SolverInv' BY <1>1, <1>2 DEF SolverInv
<1>4. (Opt!mat)' = Opt!mat BY <1>1 DEF Opt!mat
<1>5. OptInv => OptInv'
  <2> SUFFICES ASSUME OptInv PROVE OptInv'
    OBVIOUS
  <2>1. Grown(work, Opt!mat, Len(given), step) BY DEF OptInv
  <2>2. Grown(work', (Opt!mat)', Len(given'), step') BY <1>1, <1>4, <2>1
  <2>3. QED BY <1>1, <2>2 DEF OptInv
<1>6. QED BY <1>3, <1>5

LEMMA MathStep == MathInv /\ [FiguresNext]_figureVars => MathInv'
<1> SUFFICES ASSUME MathInv, [FiguresNext]_figureVars PROVE MathInv'
  OBVIOUS
<1>1. FiguresInv' BY FiguresStep DEF MathInv
<1>2. CASE UNCHANGED figureVars
  <2>1. figure' = figure /\ given' = given BY <1>2 DEF figureVars
  <2>2. QED BY <1>1, <1>2, <2>1, MathSame DEF MathInv
<1>3. CASE figure' = figure /\ figure = "treemap" BY <1>1, <1>3 DEF MathInv
<1>4. CASE figure' = figure /\ figure = "optimizer" /\ Opt!Next
  <2>1. OptInv' BY <1>4, OptSteps DEF MathInv
  <2>2. QED BY <1>1, <1>4, <2>1 DEF MathInv
<1>5. CASE figure' = figure /\ figure = "solver" /\ Solver!Next
  <2>1. SolverInv' BY <1>5, SolverSteps DEF MathInv
  <2>2. QED BY <1>1, <1>5, <2>1 DEF MathInv
<1>6. CASE figure' = figure /\ Grow
  <2>1. figure \in DOMAIN Grows BY <1>6 DEF Grow
  <2>2. figure \notin {"solver", "optimizer", "greeks", "histories"} BY <2>1, GrowsIs
  <2>3. QED BY <1>1, <1>6, <2>2 DEF MathInv
<1>7. QED BY <1>2, <1>3, <1>4, <1>5, <1>6 DEF FiguresNext

LEMMA MathHolds == MathInv => MathematicsHolds
<1> SUFFICES ASSUME MathInv PROVE MathematicsHolds
  OBVIOUS
<1>1. ASSUME figure = "solver" PROVE Solver!RootStaysInBracket /\ Solver!FiguresAreSound
  BY <1>1, SolverHolds DEF MathInv
<1>2. ASSUME figure = "greeks"
      PROVE  Options!Parity(given) /\ \A kind \in {"Call", "Put"} : Options!Equation(given, kind)
  <2>1. given \in Terms BY <1>2, GreekTerms DEF MathInv
  <2>2. QED BY <2>1, ParityOfEveryContract, GreeksSolveTheEquation
<1>3. ASSUME figure = "optimizer"
      PROVE  /\ Opt!InverseGrows /\ Opt!PortfoliosAreBest
             /\ Opt!WeightsAddUp([k \in DOMAIN given |-> Whole(given[k][1] * given[k][1])])
  <2>1. OptInv BY <1>3 DEF MathInv
  <2>2. QED BY <2>1, OptGrows, PortfoliosBest, HoldingsWeighed
<1>4. ASSUME figure = "histories" PROVE Opt!SeriesAlign(given)
  BY <1>4, HistoriesAlign DEF MathInv
<1>5. ASSUME figure = "closes"
      PROVE  /\ \A period \in {0, 2, 3} : Chart!AveragesAreMeans(given, period)
             /\ \A period \in {0, 2, 3} : Chart!StrengthIsBounded(given, period)
  <2>1. given \in Seq({1, 2, 4}) BY <1>5, GrowsIs DEF MathInv, FiguresInv
  <2>2. QED BY <2>1, ClosesMeasured
<1>6. QED BY <1>1, <1>2, <1>3, <1>4, <1>5 DEF MathematicsHolds

\* In every state of the computations the solver's bracket holds its root, the
\* Greeks satisfy the equation and the parity they come from, the elimination
\* grows the inverse that makes the best portfolios, the series compared align
\* and the indicators are the means and shares they are named for
\* (black_scholes.rs, optimizer.rs, indicators.rs).
THEOREM FiguresMathematicsHolds == FiguresSpec => []MathematicsHolds
<1>1. QED BY MathStart, MathStep, MathHolds, PTL DEF FiguresSpec

-----------------------------------------------------------------------------
(***************************************************************************)
(* LiveStream in both regimes of MCLiveStream, for any set of symbols and  *)
(* any number of streams in a session.  The prices that the figures are    *)
(* made of arrive on it; it shares no state with them.                     *)
(***************************************************************************)
\* Streams are numbered from one, so that NoConn is none of them, and the next
\* stream has a number while the bound is not reached.
LEMMA Numbering ==
  /\ Conn \subseteq Nat /\ NoConn \notin Conn
  /\ \A n \in 0..MaxConns : n < MaxConns => n + 1 \in Conn /\ n + 1 \in 0..MaxConns
BY StreamAssumption DEF Conn, NoConn

-----------------------------------------------------------------------------
(***************************************************************************)
(* Types                                                                   *)
(***************************************************************************)
LEMMA TypeInit == Init => TypeOK
<1>1. <<>> \in Seq(Conn) OBVIOUS
<1>2. 0 \in 0..MaxConns BY StreamAssumption
<1>3. QED BY <1>1, <1>2 DEF Init, TypeOK, Phase

\* Closing a connection leaves every stream in a phase.
LEMMA CloseType ==
  ASSUME NEW h, NEW ph \in [Conn -> Phase]
  PROVE  Close(h, ph) \in [Conn -> Phase]
BY DEF Close, Phase

LEMMA TypeStep == TypeOK /\ [Next]_vars => TypeOK'
<1> SUFFICES ASSUME TypeOK, [Next]_vars PROVE TypeOK'
  OBVIOUS
<1> USE DEF TypeOK
<1>1. ASSUME NEW w \in SUBSET Symbol, ChangeView(w) PROVE TypeOK'
  <2>1. CASE w = subscribed /\ UNCHANGED <<subscribed, handle, spawned, symbols, phase>>
    BY <1>1, <2>1 DEF ChangeView
  <2>2. CASE w # subscribed /\ Resubscribe(w)
    <3>1. Close(handle, phase) \in [Conn -> Phase]
      BY CloseType
    <3>2. phase' \in [Conn -> Phase]
      BY <2>2, <3>1, Numbering DEF Resubscribe, Phase
    <3>3. QED BY <1>1, <2>2, <3>2, Numbering DEF ChangeView, Resubscribe
  <2>3. QED BY <1>1, <2>1, <2>2 DEF ChangeView, Resubscribe
<1>2. ASSUME NEW w \in SUBSET Symbol, DriftView(w) PROVE TypeOK'
  BY <1>2 DEF DriftView
<1>3. CASE StreamStarted
  <2>1. Close(handle, phase) \in [Conn -> Phase]
    BY CloseType
  <2>2. QED BY <1>3, <2>1 DEF StreamStarted
<1>4. CASE Quit
  <2>1. <<>> \in Seq(Conn) OBVIOUS
  <2>2. QED BY <1>4, <2>1 DEF Quit, Phase
<1>5. ASSUME NEW c \in Conn, Connected(c) PROVE TypeOK'
  <2>1. Append(queue, c) \in Seq(Conn) OBVIOUS
  <2>2. QED BY <1>5, <2>1 DEF Connected, Phase
<1>6. ASSUME NEW c \in Conn, StartFails(c) PROVE TypeOK'
  BY <1>6 DEF StartFails, Phase
<1>7. ASSUME NEW c \in Conn, ServerEnds(c) PROVE TypeOK'
  BY <1>7 DEF ServerEnds, Phase
<1>8. CASE UNCHANGED vars
  BY <1>8 DEF vars
<1>9. QED
  BY <1>1, <1>2, <1>3, <1>4, <1>5, <1>6, <1>7, <1>8 DEF Next

\* A calm step is a step of LiveStream but for the three constants it fixes,
\* and those do not matter to the types.
LEMMA CalmTypeStep == TypeOK /\ Calm!Next => TypeOK'
<1> SUFFICES ASSUME TypeOK, Calm!Next PROVE TypeOK'
  OBVIOUS
<1> USE DEF TypeOK
<1>1. ASSUME NEW w \in SUBSET Symbol, Calm!ChangeView(w) PROVE TypeOK'
  <2>1. CASE w = subscribed /\ UNCHANGED <<subscribed, handle, spawned, symbols, phase>>
    BY <1>1, <2>1 DEF Calm!ChangeView
  <2>2. CASE w # subscribed /\ Calm!Resubscribe(w)
    <3>1. Close(handle, phase) \in [Conn -> Phase]
      BY CloseType
    <3>2. phase' \in [Conn -> Phase]
      BY <2>2, <3>1, Numbering DEF Calm!Resubscribe, Calm!Close, Calm!Conn, Close, Conn, Phase
    <3>3. QED BY <1>1, <2>2, <3>2, Numbering DEF NoConn, Calm!ChangeView, Calm!Resubscribe, Calm!NoConn
  <2>3. QED BY <1>1, <2>1, <2>2 DEF Calm!ChangeView, Calm!Resubscribe
<1>2. ASSUME NEW w \in SUBSET Symbol, Calm!DriftView(w) PROVE TypeOK'
  BY <1>2 DEF Calm!DriftView
<1>3. CASE Calm!StreamStarted
  BY <1>3 DEF Calm!StreamStarted
<1>4. CASE Calm!Quit
  <2>1. <<>> \in Seq(Conn) OBVIOUS
  <2>2. QED BY <1>4, <2>1 DEF Calm!Quit, Calm!Conn, Calm!NoConn, Conn, NoConn, Phase
<1>5. ASSUME NEW c \in Conn, Calm!Connected(c) PROVE TypeOK'
  <2>1. Append(queue, c) \in Seq(Conn) OBVIOUS
  <2>2. QED BY <1>5, <2>1 DEF Calm!Connected, Phase
<1>6. QED
  BY <1>1, <1>2, <1>3, <1>4, <1>5
  DEF Calm!Next, Calm!StartFails, Calm!ServerEnds, Calm!Conn, Conn

-----------------------------------------------------------------------------
(***************************************************************************)
(* Streams in hand                                                         *)
(***************************************************************************)

\* Only the streams spawned so far are in use.
UsedAreSpawned == \A c \in Conn : phase[c] # "unused" => c \in 1..spawned

\* In the calm regime only the stream spawned last is live, and it is in one
\* place: starting, with its handle on the way, or in hand.  It carries the
\* symbols subscribed last; with nothing to carry there is none.
LastIsStarting ==
  \A c \in Conn : phase[c] = "starting" =>
    c = spawned /\ symbols[c] = subscribed /\ queue = <<>> /\ handle = NoConn
LastIsQueued ==
  queue # <<>> =>
    /\ spawned \in Conn /\ queue = <<spawned>> /\ handle = NoConn
    /\ phase[spawned] = "open" /\ symbols[spawned] = subscribed /\ subscribed # {}
LastIsInHand ==
  handle # NoConn =>
    handle = spawned /\ phase[handle] = "open" /\ symbols[handle] = subscribed
    /\ subscribed # {}
LastIsOpen ==
  \A c \in Conn : phase[c] = "open" => c = spawned /\ (c = handle \/ queue = <<c>>)
LastIsLive == running /\ AtRest /\ subscribed # {} => handle # NoConn

CalmInv ==
  /\ ~faulted
  /\ LastIsStarting /\ LastIsQueued /\ LastIsInHand /\ LastIsOpen /\ LastIsLive

\* The inductive invariant of the two regimes.
Inv ==
  /\ TypeOK /\ UsedAreSpawned /\ NoOrphan
  /\ regime \in {"free", "calm"}
  /\ regime = "calm" => CalmInv

LEMMA InvInit == MCInit => Inv
<1> SUFFICES ASSUME MCInit PROVE Inv
  OBVIOUS
<1>1. TypeOK BY TypeInit DEF MCInit
<1>2. UsedAreSpawned /\ NoOrphan
  BY DEF MCInit, Init, UsedAreSpawned, NoOrphan
<1>3. CalmInv
  BY DEF MCInit, Init, CalmInv, LastIsStarting, LastIsQueued, LastIsInHand,
         LastIsOpen, LastIsLive
<1>4. QED BY <1>1, <1>2, <1>3 DEF Inv, MCInit

\* Nothing but a spawn puts a stream in use, in either regime.
LEMMA UsedStep ==
  ASSUME TypeOK, UsedAreSpawned, [Next]_vars \/ Calm!Next
  PROVE  UsedAreSpawned'
<1> USE DEF TypeOK, UsedAreSpawned
<1>1. CASE UNCHANGED vars
  BY <1>1 DEF vars
<1>2. ASSUME NEW w, w # subscribed, Resubscribe(w) \/ Calm!Resubscribe(w)
      PROVE  UsedAreSpawned'
  <2>1. spawned + 1 \in Conn /\ spawned' = spawned + 1
    BY <1>2, Numbering DEF Resubscribe, Calm!Resubscribe
  <2>2. \A c \in Conn \ {spawned + 1} : phase'[c] # "unused" => phase[c] # "unused"
    BY <1>2, <2>1
    DEF Resubscribe, Close, Conn, Calm!Resubscribe, Calm!Close, Calm!Conn
  <2>3. QED BY <2>1, <2>2
<1>3. ASSUME NEW w, ChangeView(w) \/ Calm!ChangeView(w) PROVE UsedAreSpawned'
  <2>1. CASE UNCHANGED <<phase, spawned>> BY <2>1
  <2>2. CASE ~UNCHANGED <<phase, spawned>>
    BY <1>2, <1>3, <2>2 DEF ChangeView, Calm!ChangeView, Resubscribe, Calm!Resubscribe
  <2>3. QED BY <2>1, <2>2
<1>4. ASSUME NEW w, DriftView(w) \/ Calm!DriftView(w) PROVE UsedAreSpawned'
  BY <1>4 DEF DriftView, Calm!DriftView
<1>5. CASE StreamStarted \/ Calm!StreamStarted
  BY <1>5 DEF StreamStarted, Calm!StreamStarted, Close
<1>6. CASE Quit \/ Calm!Quit
  <2>1. \A c \in Conn : phase'[c] # "unused" => phase[c] # "unused"
    BY <1>6 DEF Quit, Calm!Quit, Calm!Conn, Conn
  <2>2. spawned' = spawned BY <1>6 DEF Quit, Calm!Quit
  <2>3. QED BY <2>1, <2>2
<1>7. ASSUME NEW c \in Conn, Connected(c) \/ Calm!Connected(c) PROVE UsedAreSpawned'
  BY <1>7 DEF Connected, Calm!Connected
<1>8. ASSUME NEW c \in Conn, StartFails(c) \/ ServerEnds(c) PROVE UsedAreSpawned'
  BY <1>8 DEF StartFails, ServerEnds
<1>9. QED
  BY <1>1, <1>3, <1>4, <1>5, <1>6, <1>7, <1>8
  DEF Next, Calm!Next, Calm!StartFails, Calm!ServerEnds, Calm!Conn, Conn

\* In the free regime an orphan would come of a handle that is overwritten:
\* its connection is closed with it.
LEMMA FreeStep ==
  ASSUME DropStops, TypeOK, NoOrphan, [Next]_vars
  PROVE  NoOrphan'
<1> USE DEF TypeOK, NoOrphan
<1>1. ASSUME NEW w \in SUBSET Symbol, ChangeView(w) PROVE NoOrphan'
  <2>1. CASE UNCHANGED <<handle, phase>>
    BY <1>1, <2>1 DEF ChangeView
  <2>2. CASE ~UNCHANGED <<handle, phase>>
    <3>1. /\ handle' = NoConn /\ queue' = queue
          /\ \A c \in Conn : phase'[c] = "open" => phase[c] = "open" /\ c # handle
      BY <1>1, <2>2, Numbering DEF ChangeView, Resubscribe, Close
    <3>2. QED BY <3>1
  <2>3. QED BY <2>1, <2>2
<1>2. ASSUME NEW w \in SUBSET Symbol, DriftView(w) PROVE NoOrphan'
  BY <1>2 DEF DriftView
<1>3. CASE StreamStarted
  <2> SUFFICES ASSUME NEW c \in Conn, phase'[c] = "open", c # handle'
               PROVE  \E i \in DOMAIN queue' : queue'[i] = c
    OBVIOUS
  <2>1. phase[c] = "open" /\ c # handle
    BY <1>3 DEF StreamStarted, Close
  <2>2. PICK i \in DOMAIN queue : queue[i] = c
    BY <2>1
  <2>3. i \in 2..Len(queue)
    BY <1>3, <2>2 DEF StreamStarted
  <2>4. i - 1 \in DOMAIN queue' /\ queue'[i - 1] = c
    BY <1>3, <2>2, <2>3 DEF StreamStarted
  <2>5. QED BY <2>4
<1>4. CASE Quit
  BY <1>4 DEF Quit
<1>5. ASSUME NEW c \in Conn, Connected(c) PROVE NoOrphan'
  <2>1. CASE symbols[c] = {}
    BY <1>5, <2>1 DEF Connected
  <2>2. CASE symbols[c] # {}
    <3>1. DOMAIN queue' = 1..(Len(queue) + 1) /\ DOMAIN queue = 1..Len(queue)
      BY <1>5, <2>2 DEF Connected
    <3>2. queue'[Len(queue) + 1] = c /\ \A i \in DOMAIN queue : queue'[i] = queue[i]
      BY <1>5, <2>2 DEF Connected
    <3>3. Len(queue) + 1 \in DOMAIN queue' /\ DOMAIN queue \subseteq DOMAIN queue'
      BY <3>1
    <3>4. \A d \in Conn : phase'[d] = "open" => d = c \/ phase[d] = "open"
      BY <1>5, <2>2 DEF Connected
    <3>5. handle' = handle
      BY <1>5 DEF Connected
    <3>6. QED BY <3>2, <3>3, <3>4, <3>5
  <2>3. QED BY <2>1, <2>2
<1>6. ASSUME NEW c \in Conn, StartFails(c) \/ ServerEnds(c) PROVE NoOrphan'
  BY <1>6 DEF StartFails, ServerEnds
<1>7. CASE UNCHANGED vars
  BY <1>7 DEF vars
<1>8. QED
  BY <1>1, <1>2, <1>3, <1>4, <1>5, <1>6, <1>7 DEF Next

\* In the calm regime nothing is overwritten: a stream is spawned only when
\* there is none under way, and it finds no handle when it arrives.
LEMMA CalmStep ==
  ASSUME TypeOK, UsedAreSpawned, CalmInv, Calm!Next
  PROVE  CalmInv'
<1> USE DEF TypeOK, UsedAreSpawned, CalmInv, LastIsStarting, LastIsQueued,
            LastIsInHand, LastIsOpen, LastIsLive, AtRest, Starting
<1>1. ASSUME NEW w \in SUBSET Symbol, Calm!ChangeView(w) PROVE CalmInv'
  <2>1. CASE w = subscribed
    BY <1>1, <2>1 DEF Calm!ChangeView, Calm!Resubscribe
  <2>2. CASE w # subscribed
    <3>1. queue = <<>> /\ \A c \in Conn : phase[c] # "starting"
      BY <1>1 DEF Calm!ChangeView, Calm!AtRest, Calm!Starting, Calm!Conn, Conn
    <3>2. /\ spawned + 1 \in Conn /\ spawned' = spawned + 1 /\ handle' = NoConn
          /\ subscribed' = w /\ queue' = <<>> /\ ~faulted'
          /\ symbols'[spawned + 1] = w
      BY <1>1, <2>2, <3>1, Numbering
      DEF Calm!ChangeView, Calm!Resubscribe, Calm!NoConn, NoConn
    <3>3. /\ phase'[spawned + 1] = "starting"
          /\ \A c \in Conn \ {spawned + 1} : phase'[c] \notin {"starting", "open"}
      BY <1>1, <2>2, <3>1, <3>2
      DEF Calm!ChangeView, Calm!Resubscribe, Calm!Close, Calm!Conn, Conn
    <3>4. QED BY <3>2, <3>3
  <2>3. QED BY <2>1, <2>2
<1>2. ASSUME NEW w \in SUBSET Symbol, Calm!DriftView(w) PROVE CalmInv'
  BY <1>2 DEF Calm!DriftView
<1>3. CASE Calm!StreamStarted
  <2>1. queue = <<spawned>> /\ spawned \in Conn
    BY <1>3 DEF Calm!StreamStarted
  <2>2. handle' = spawned /\ queue' = <<>> /\ phase' = phase
    BY <1>3, <2>1 DEF Calm!StreamStarted
  <2>3. QED BY <1>3, <2>1, <2>2, Numbering DEF Calm!StreamStarted
<1>4. CASE Calm!Quit
  BY <1>4 DEF Calm!Quit, Calm!Conn, Conn, Calm!NoConn, NoConn
<1>5. ASSUME NEW c \in Conn, Calm!Connected(c) PROVE CalmInv'
  <2>1. c = spawned /\ symbols[c] = subscribed /\ queue = <<>> /\ handle = NoConn
    BY <1>5 DEF Calm!Connected
  <2>2. CASE symbols[c] = {}
    BY <1>5, <2>1, <2>2 DEF Calm!Connected
  <2>3. CASE symbols[c] # {}
    <3>1. queue' = <<c>> /\ phase' = [phase EXCEPT ![c] = "open"]
      BY <1>5, <2>1, <2>3 DEF Calm!Connected
    <3>2. QED BY <1>5, <2>1, <2>3, <3>1 DEF Calm!Connected
  <2>4. QED BY <2>2, <2>3
<1>6. QED
  BY <1>1, <1>2, <1>3, <1>4, <1>5
  DEF Calm!Next, Calm!StartFails, Calm!ServerEnds, Calm!Conn, Conn

LEMMA CalmHasNoOrphan == CalmInv => NoOrphan
BY DEF CalmInv, LastIsOpen, NoOrphan

LEMMA CalmCovers == CalmInv => LiveCoversSubscribed
BY DEF CalmInv, LastIsInHand, LastIsLive, LiveCoversSubscribed

LEMMA InvStep ==
  ASSUME DropStops, Inv, [MCNext]_<<vars, regime>>
  PROVE  Inv'
<1>1. CASE regime = "free" /\ Next /\ UNCHANGED regime
  BY <1>1, TypeStep, UsedStep, FreeStep DEF Inv
<1>2. CASE regime = "calm" /\ Calm!Next /\ UNCHANGED regime
  <2>1. TypeOK' /\ UsedAreSpawned' BY <1>2, CalmTypeStep, UsedStep DEF Inv
  <2>2. CalmInv' BY <1>2, CalmStep DEF Inv
  <2>3. NoOrphan' BY <2>2, CalmHasNoOrphan, PTL
  <2>4. QED BY <1>2, <2>1, <2>2, <2>3 DEF Inv
<1>3. CASE UNCHANGED <<vars, regime>>
  <2>1. [Next]_vars BY <1>3
  <2>2. TypeOK' /\ UsedAreSpawned' /\ NoOrphan'
    BY <2>1, TypeStep, UsedStep, FreeStep DEF Inv
  <2>3. CalmInv => CalmInv'
    BY <1>3 DEF vars, CalmInv, LastIsStarting, LastIsQueued, LastIsInHand,
      LastIsOpen, LastIsLive, AtRest, Starting
  <2>4. QED BY <1>3, <2>2, <2>3 DEF Inv
<1>4. QED BY <1>1, <1>2, <1>3 DEF MCNext

\* Every state of a session has the declared types, whatever the library does
\* with a dropped handle.
THEOREM TypeCorrect == MCSpec => []TypeOK
<1>1. MCInit => TypeOK BY TypeInit DEF MCInit
<1>2. TypeOK /\ [MCNext]_<<vars, regime>> => TypeOK'
  <2>1. UNCHANGED <<vars, regime>> => [Next]_vars OBVIOUS
  <2>2. QED BY <2>1, TypeStep, CalmTypeStep DEF MCNext
<1>3. QED BY <1>1, <1>2, PTL DEF MCSpec

\* The calm regime keeps to one live stream at a time (resubscribe_stream,
\* AppEvent::StreamStarted), with dropped handles closing nothing.
THEOREM CalmKeepsOneStream == Calm!Spec => [](CalmInv /\ LiveCoversSubscribed)
<1>1. Calm!Init => Init
  BY DEF Calm!Init, Init, Calm!NoConn, NoConn, Calm!Conn, Conn
<1>2. Init => TypeOK /\ UsedAreSpawned /\ CalmInv
  BY TypeInit DEF Init, UsedAreSpawned, CalmInv, LastIsStarting, LastIsQueued,
    LastIsInHand, LastIsOpen, LastIsLive
<1>3. TypeOK /\ UsedAreSpawned /\ CalmInv /\ [Calm!Next]_Calm!vars
        => (TypeOK /\ UsedAreSpawned /\ CalmInv)'
  <2>1. [Calm!Next]_Calm!vars => Calm!Next \/ UNCHANGED vars
    BY DEF Calm!vars, vars
  <2>2. TypeOK /\ UsedAreSpawned /\ CalmInv /\ UNCHANGED vars
          => (TypeOK /\ UsedAreSpawned /\ CalmInv)'
    BY DEF vars, TypeOK, UsedAreSpawned, CalmInv, LastIsStarting, LastIsQueued,
      LastIsInHand, LastIsOpen, LastIsLive, AtRest, Starting
  <2>3. QED BY <2>1, <2>2, CalmTypeStep, UsedStep, CalmStep
<1>4. CalmInv => LiveCoversSubscribed
  BY CalmCovers
<1>5. QED BY <1>1, <1>2, <1>3, <1>4, PTL DEF Calm!Spec

\* No open connection is out of reach of the next resubscribe or quit, and in
\* the calm regime the stream in hand covers the symbols subscribed last; the
\* first needs the library to close a connection whose handle is dropped.
THEOREM StreamInHandHolds ==
  ASSUME DropStops PROVE MCSpec => []StreamInHand
<1>1. Inv => StreamInHand
  BY CalmCovers DEF Inv, StreamInHand
<1>2. MCInit => Inv BY InvInit
<1>3. Inv /\ [MCNext]_<<vars, regime>> => Inv' BY InvStep
<1>4. QED BY <1>1, <1>2, <1>3, PTL DEF MCSpec
=============================================================================
