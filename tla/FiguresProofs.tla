---------------------------- MODULE FiguresProofs ---------------------------
(***************************************************************************)
(* Proofs about the figures made of quotes, holdings, candles, earnings    *)
(* and options, for lists of any length and rooms of any size: what the    *)
(* panels show agrees and fits, and the solver keeps its root.             *)
(***************************************************************************)
EXTENDS MCFigures, FiniteSetTheorems, WellFoundedInduction, TLAPS

-----------------------------------------------------------------------------
(***************************************************************************)
(* Least numbers                                                           *)
(***************************************************************************)
LEMMA NatMin ==
  ASSUME NEW S \in SUBSET Nat, S # {}
  PROVE  \E m \in S : \A n \in S : m <= n
<1>1. PICK m \in S : \A n \in S : ~(<<n, m>> \in OpToRel(<, Nat))
  BY NatLessThanWellFounded, WFMin, Zenon
<1>2. \A n \in S : ~(n < m)
  BY <1>1 DEF OpToRel
<1>3. QED BY <1>2


-----------------------------------------------------------------------------
(***************************************************************************)
(* Euclid's algorithm                                                      *)
(***************************************************************************)
\* g follows the recursion of gcd up to k.
IsGcd(g, k) ==
  g = [b \in 0..k |-> [a \in Nat |-> IF b = 0 THEN a ELSE g[a % b][b]]]

LEMMA GcdValues ==
  ASSUME NEW g, NEW k \in Nat, IsGcd(g, k), NEW b \in 0..k
  PROVE  g[b] = [a \in Nat |-> IF b = 0 THEN a ELSE g[a % b][b]]
BY DEF IsGcd

LEMMA GcdUnique ==
  ASSUME NEW k \in Nat, NEW m \in 0..k, NEW g, NEW h, IsGcd(g, k), IsGcd(h, m),
         NEW b \in 0..m
  PROVE  g[b] = h[b]
<1> DEFINE Bad == {n \in 0..m : g[n] # h[n]}
<1>1. SUFFICES ASSUME Bad # {} PROVE FALSE
  OBVIOUS
<1>2. PICK n \in Bad : \A i \in Bad : n <= i
  <2>1. Bad \in SUBSET Nat OBVIOUS
  <2> HIDE DEF Bad
  <2>2. QED BY <1>1, <2>1, NatMin
<1>n. n \in 0..k /\ m \in Nat /\ n \in 0..m OBVIOUS
<1>3. g[n] = [a \in Nat |-> IF n = 0 THEN a ELSE g[a % n][n]]
  BY <1>n, GcdValues
<1>4. h[n] = [a \in Nat |-> IF n = 0 THEN a ELSE h[a % n][n]]
  BY <1>n, GcdValues
<1>5. ASSUME NEW a \in Nat, n # 0 PROVE g[a % n] = h[a % n]
  <2>1. a % n \in 0..(n - 1) BY <1>5
  <2>2. QED BY <2>1, <1>2
<1>6. g[n] = h[n] BY <1>3, <1>4, <1>5
<1>7. QED BY <1>6

LEMMA GcdExists ==
  ASSUME NEW k \in Nat
  PROVE  \E g : IsGcd(g, k)
<1> DEFINE Bad == {m \in Nat : ~\E g : IsGcd(g, m)}
<1>1. SUFFICES ASSUME Bad # {} PROVE FALSE
  OBVIOUS
<1>2. PICK m \in Bad : \A i \in Bad : m <= i
  BY <1>1, NatMin
<1>3. PICK g : m = 0 \/ IsGcd(g, m - 1)
  BY <1>2
<1> DEFINE top == [a \in Nat |-> IF m = 0 THEN a ELSE g[a % m][m]]
<1>f. PICK f : f = [b \in 0..m |-> IF b = m THEN top ELSE g[b]]
  OBVIOUS
<1>4. \A b \in 0..m : f[b] = [a \in Nat |-> IF b = 0 THEN a ELSE f[a % b][b]]
  <2> SUFFICES ASSUME NEW b \in 0..m
               PROVE  f[b] = [a \in Nat |-> IF b = 0 THEN a ELSE f[a % b][b]]
    OBVIOUS
  <2>1. ASSUME NEW a \in Nat, b # 0 PROVE a % b \in 0..(m - 1) /\ f[a % b] = g[a % b]
    <3>1. a % b \in 0..(b - 1) BY <2>1
    <3>2. a % b \in 0..(m - 1) BY <3>1
    <3> HIDE DEF top
    <3>3. QED BY <3>2, <1>f
  <2>2. f[b] = [a \in Nat |-> IF b = 0 THEN a ELSE g[a % b][b]]
    <3>1. CASE b = m BY <3>1, <1>f
    <3>2. CASE b # m
      <4>1. m - 1 \in Nat /\ b \in 0..(m - 1) BY <3>2
      <4>2. f[b] = g[b]
        <5> HIDE DEF top
        <5>1. QED BY <4>1, <1>f
      <4>3. QED BY <4>1, <4>2, <1>3, GcdValues
    <3>3. QED BY <3>1, <3>2
  <2>3. QED BY <2>1, <2>2
<1>5. f = [b \in 0..m |-> f[b]] BY <1>f
<1>6. IsGcd(f, m)
  BY <1>4, <1>5 DEF IsGcd
<1>7. QED BY <1>6

LEMMA GcdIs ==
  ASSUME NEW b \in Nat, NEW a \in Nat
  PROVE  gcd[b][a] = IF b = 0 THEN a ELSE gcd[a % b][b]
<1> DEFINE pick(k) == CHOOSE g : IsGcd(g, k)
<1>1. \A k \in Nat : IsGcd(pick(k), k)
  BY GcdExists
<1>2. PICK G : G = [k \in Nat |-> pick(k)[k]]
  OBVIOUS
<1> HIDE DEF pick
<1>3. G = [k \in Nat |-> [i \in Nat |-> IF k = 0 THEN i ELSE G[i % k][k]]]
  <2>1. ASSUME NEW k \in Nat
        PROVE  G[k] = [i \in Nat |-> IF k = 0 THEN i ELSE G[i % k][k]]
    <3>1. G[k] = pick(k)[k] BY <1>2
    <3>2. pick(k)[k] = [i \in Nat |-> IF k = 0 THEN i ELSE pick(k)[i % k][k]]
      <4>1. k \in 0..k OBVIOUS
      <4>2. QED BY <1>1, <4>1, GcdValues
    <3>3. ASSUME NEW i \in Nat, k # 0 PROVE G[i % k] = pick(k)[i % k]
      <4>1. i % k \in 0..(k - 1) BY <3>3
      <4>2. i % k \in Nat /\ i % k \in 0..k /\ i % k \in 0..(i % k) BY <4>1
      <4>3. G[i % k] = pick(i % k)[i % k] BY <1>2, <4>2
      <4>4. pick(k)[i % k] = pick(i % k)[i % k]
        BY <1>1, <4>2, GcdUnique
      <4>5. QED BY <4>3, <4>4
    <3>4. QED BY <3>1, <3>2, <3>3
  <2>2. QED BY <1>2, <2>1
<1>4. \E g : g = [k \in Nat |-> [i \in Nat |-> IF k = 0 THEN i ELSE g[i % k][k]]]
  BY <1>3
<1>5. gcd = [k \in Nat |-> [i \in Nat |-> IF k = 0 THEN i ELSE gcd[i % k][k]]]
  BY <1>4 DEF gcd
<1>6. QED BY <1>5

\* It divides both, and is a combination of both (Bezout).
LEMMA GcdDivides ==
  ASSUME NEW b \in Nat, NEW a \in Nat
  PROVE  /\ gcd[b][a] \in Nat
         /\ a # 0 \/ b # 0 => gcd[b][a] # 0
         /\ \E x, y \in Nat : a = gcd[b][a] * x /\ b = gcd[b][a] * y
         /\ \E x, y \in Int : gcd[b][a] = a * x + b * y
<1> DEFINE Good(n) ==
      \A i \in Nat :
         /\ gcd[n][i] \in Nat
         /\ i # 0 \/ n # 0 => gcd[n][i] # 0
         /\ \E x, y \in Nat : i = gcd[n][i] * x /\ n = gcd[n][i] * y
         /\ \E x, y \in Int : gcd[n][i] = i * x + n * y
<1> DEFINE Bad == {n \in Nat : ~Good(n)}
<1>1. SUFFICES ASSUME Bad # {} PROVE FALSE
  OBVIOUS
<1>2. PICK n \in Bad : \A i \in Bad : n <= i
  <2>1. Bad \in SUBSET Nat OBVIOUS
  <2> HIDE DEF Bad
  <2>2. QED BY <1>1, <2>1, NatMin
<1>3. Good(n)
  <2> SUFFICES ASSUME NEW i \in Nat
               PROVE  /\ gcd[n][i] \in Nat
                      /\ i # 0 \/ n # 0 => gcd[n][i] # 0
                      /\ \E x, y \in Nat : i = gcd[n][i] * x /\ n = gcd[n][i] * y
                      /\ \E x, y \in Int : gcd[n][i] = i * x + n * y
    OBVIOUS
  <2>1. CASE n = 0
    <3>1. gcd[n][i] = i BY <2>1, GcdIs
    <3>2. 1 \in Nat /\ 0 \in Nat /\ i = i * 1 /\ n = i * 0 /\ i = i * 1 + n * 0 BY <2>1
    <3>3. \E x, y \in Nat : i = i * x /\ n = i * y BY <3>2
    <3>4. \E x, y \in Int : i = i * x + n * y BY <3>2
    <3>5. QED BY <2>1, <3>1, <3>3, <3>4
  <2>2. CASE n # 0
    <3> DEFINE r == i % n  q == i \div n
    <3>1. q \in Int /\ r \in 0..(n - 1) /\ i = n * q + r
      BY <2>2
    <3>2. gcd[n][i] = gcd[r][n] BY <2>2, GcdIs
    <3> HIDE DEF r, q
    <3>3. Good(r)
      <4>1. r \in Nat /\ ~(n <= r) BY <3>1
      <4> HIDE DEF Good
      <4>2. QED BY <4>1, <1>2
    <3> DEFINE g == gcd[r][n]
    <3>4. g \in Nat /\ g # 0 BY <3>3, <2>2
    <3>5. PICK x \in Nat, y \in Nat : n = g * x /\ r = g * y BY <3>3
    <3>6. PICK u \in Int, v \in Int : g = n * u + r * v BY <3>3
    <3> HIDE DEF g
    <3>7. i = g * (x * q + y)
      <4>1. n * q = g * (x * q) BY <3>1, <3>4, <3>5
      <4>2. QED BY <3>1, <3>4, <3>5, <4>1
    <3>8. x * q + y \in Nat
      <4>1. x * q + y \in Int BY <3>1
      <4>2. SUFFICES ASSUME x * q + y < 0 PROVE FALSE BY <4>1
      <4> DEFINE k == -1 - (x * q + y)
      <4>3. k \in Nat /\ x * q + y = -1 - k BY <4>1, <4>2
      <4> HIDE DEF k
      <4>4. g * (x * q + y) = -g - g * k /\ g * k \in Nat BY <3>4, <4>3
      <4>5. QED BY <4>4, <3>7, <3>4
    <3>9. g = i * v + n * (u - q * v)
      <4>1. r = i - n * q BY <3>1
      <4>2. r * v = i * v - n * (q * v) BY <4>1, <3>1, <3>6
      <4>3. n * (u - q * v) = n * u - n * (q * v) BY <3>1, <3>6
      <4>4. QED BY <4>2, <4>3, <3>6, <3>1
    <3>10. v \in Int /\ u - q * v \in Int BY <3>1, <3>6
    <3>11. gcd[n][i] = g BY <3>2 DEF g
    <3>12. QED BY <3>4, <3>5, <3>7, <3>8, <3>9, <3>10, <3>11
  <2>3. QED BY <2>1, <2>2
<1>4. QED BY <1>3

-----------------------------------------------------------------------------
(***************************************************************************)
(* Fractions.  One that is in lowest terms is the only one with its value, *)
(* so that equations between values are equations between fractions.       *)
(***************************************************************************)
Fraction == {f \in Int \X (Nat \ {0}) : \E x, y \in Int : f[1] * x + f[2] * y = 1}

LEMMA FractionIs ==
  ASSUME NEW f \in Fraction
  PROVE  /\ f[1] \in Int /\ f[2] \in Int /\ f[2] > 0
         /\ f = <<f[1], f[2]>>
         /\ \E x, y \in Int : f[1] * x + f[2] * y = 1
BY DEF Fraction

LEMMA Cancel ==
  ASSUME NEW a \in Int, NEW b \in Int, NEW c \in Int \ {0}, a * c = b * c
  PROVE  a = b
<1>1. (a - b) * c = 0 OBVIOUS
<1>2. SUFFICES ASSUME a - b # 0 PROVE FALSE OBVIOUS
<1>3. QED BY <1>1, <1>2

LEMMA CancelLess ==
  ASSUME NEW a \in Int, NEW b \in Int, NEW c \in Int, c > 0
  PROVE  /\ a * c < b * c <=> a < b
         /\ a * c <= b * c <=> a <= b
<1>1. ASSUME NEW m \in Int, NEW n \in Int, m < n PROVE m * c < n * c
  <2> DEFINE k == n - m
  <2>1. k \in Nat /\ k > 0 /\ n = m + k BY <1>1
  <2> HIDE DEF k
  <2>2. n * c = m * c + k * c BY <2>1
  <2>3. k * c > 0 BY <2>1
  <2>4. m * c \in Int /\ k * c \in Int BY <2>1
  <2>5. QED BY <2>2, <2>3, <2>4
<1>2. a * c \in Int /\ b * c \in Int OBVIOUS
<1>3. CASE a < b BY <1>1, <1>2, <1>3
<1>4. CASE b < a BY <1>1, <1>2, <1>4
<1>5. CASE a = b BY <1>5, <1>2
<1>6. QED BY <1>3, <1>4, <1>5

\* Two fractions of the same value are the same.
LEMMA SameFraction ==
  ASSUME NEW f \in Fraction, NEW g \in Fraction, f[1] * g[2] = g[1] * f[2]
  PROVE  f = g
<1> DEFINE p == f[1]  q == f[2]  m == g[1]  n == g[2]
<1>1. /\ p \in Int /\ q \in Int /\ q > 0 /\ f = <<p, q>>
      /\ m \in Int /\ n \in Int /\ n > 0 /\ g = <<m, n>>
      /\ p * n = m * q
  BY FractionIs
<1>2. PICK x \in Int, y \in Int : p * x + q * y = 1 BY FractionIs
<1>3. PICK u \in Int, v \in Int : m * u + n * v = 1 BY FractionIs
<1> HIDE DEF p, q, m, n
<1>4. n = q * (m * x + n * y)
  <2>1. n * (p * x + q * y) = n BY <1>1, <1>2
  <2>2. n * (p * x + q * y) = (p * n) * x + q * (n * y) BY <1>1, <1>2
  <2>3. (m * q) * x = q * (m * x) BY <1>1, <1>2
  <2>4. q * (m * x + n * y) = q * (m * x) + q * (n * y) BY <1>1, <1>2
  <2>5. QED BY <2>1, <2>2, <2>3, <2>4, <1>1
<1>5. q = n * (p * u + q * v)
  <2>1. q * (m * u + n * v) = q BY <1>1, <1>3
  <2>2. q * (m * u + n * v) = (m * q) * u + n * (q * v) BY <1>1, <1>3
  <2>3. (p * n) * u = n * (p * u) BY <1>1, <1>3
  <2>4. n * (p * u + q * v) = n * (p * u) + n * (q * v) BY <1>1, <1>3
  <2>5. QED BY <2>1, <2>2, <2>3, <2>4, <1>1
<1>6. ASSUME NEW a \in Int, NEW b \in Int, NEW c \in Int, a > 0, b > 0, a = b * c
      PROVE  a >= b
  <2>1. c > 0
    <3>1. SUFFICES ASSUME c <= 0 PROVE FALSE BY <1>6
    <3>2. b * c <= 0 BY <1>6, <3>1
    <3>3. QED BY <3>2, <1>6
  <2>2. c >= 1 BY <2>1, <1>6
  <2>3. b * c >= b BY <2>2, <1>6
  <2>4. QED BY <2>3, <1>6
<1>7. n >= q
  <2>1. m * x + n * y \in Int BY <1>1, <1>2
  <2>2. QED BY <1>6, <2>1, <1>4, <1>1
<1>8. q >= n
  <2>1. p * u + q * v \in Int BY <1>1, <1>3
  <2>2. QED BY <1>6, <2>1, <1>5, <1>1
<1>9. n = q BY <1>7, <1>8, <1>1
<1>10. p = m BY <1>9, <1>1, Cancel
<1>11. QED BY <1>9, <1>10, <1>1

LEMMA DivExact ==
  ASSUME NEW g \in Nat \ {0}, NEW z \in Int
  PROVE  (g * z) \div g = z
<1> DEFINE q == (g * z) \div g  r == (g * z) % g
<1>1. g * z \in Int OBVIOUS
<1>2. q \in Int /\ r \in 0..(g - 1) /\ g * z = g * q + r
  BY <1>1
<1> HIDE DEF q, r
<1>3. r = g * (z - q) BY <1>2
<1>4. z - q = 0
  <2>1. SUFFICES ASSUME z - q # 0 PROVE FALSE BY <1>2
  <2>2. CASE z - q >= 1
    <3>1. g * (z - q) >= g BY <2>2, <1>2
    <3>2. QED BY <3>1, <1>3, <1>2
  <2>3. CASE z - q <= -1
    <3>1. g * (z - q) <= -g BY <2>3, <1>2
    <3>2. QED BY <3>1, <1>3, <1>2
  <2>4. QED BY <2>1, <2>2, <2>3, <1>2
<1>5. QED BY <1>4, <1>2 DEF q

\* A fraction has the value it is made of.
LEMMA FracIs ==
  ASSUME NEW n \in Int, NEW d \in Int \ {0}
  PROVE  /\ Frac(n, d) \in Fraction
         /\ Frac(n, d)[1] * d = n * Frac(n, d)[2]
<1> DEFINE a == Magnitude(n)  b == Magnitude(d)  g == gcd[b][a]
           s == IF d < 0 THEN -1 ELSE 1
<1>1. a \in Nat /\ b \in Nat /\ b # 0 /\ s \in {-1, 1} /\ s * d = b
  BY DEF Magnitude
<1>2. g \in Nat \ {0} /\ (\E x, y \in Nat : a = g * x /\ b = g * y)
      /\ \E x, y \in Int : g = a * x + b * y
  BY <1>1, GcdDivides
<1>3. PICK x \in Nat, y \in Nat : a = g * x /\ b = g * y BY <1>2
<1>4. PICK u \in Int, v \in Int : g = a * u + b * v BY <1>2
<1>5. Frac(n, d) = <<(s * n) \div g, (s * d) \div g>>
  BY DEF Frac, Reduced
<1>6. \E t \in {-1, 1} : s * n = t * a /\ n = s * t * a
  <2>1. n = a \/ n = -a BY DEF Magnitude
  <2> HIDE DEF a
  <2>2. CASE n = a BY <2>2, <1>1
  <2>3. CASE n = -a BY <2>3, <1>1
  <2>4. QED BY <2>1, <2>2, <2>3
<1>7. PICK t \in {-1, 1} : s * n = t * a BY <1>6
<1>8. s * d = b /\ s * s = 1 BY <1>1
<1> HIDE DEF a, b, g, s
<1>9. s * n = g * (t * x) BY <1>7, <1>3, <1>2
<1>10. Frac(n, d) = <<t * x, y>>
  <2>1. (s * n) \div g = t * x
    <3>1. t * x \in Int OBVIOUS
    <3>2. QED BY <1>9, <1>2, <3>1, DivExact
  <2>2. (s * d) \div g = y
    <3>1. y \in Int OBVIOUS
    <3>2. QED BY <1>3, <1>8, <1>2, <3>1, DivExact
  <2>3. QED BY <1>5, <2>1, <2>2
<1>11. y # 0 BY <1>1, <1>2, <1>3
<1>12. (t * x) * (t * u) + y * v = 1
  <2>1. x * u + y * v = 1
    <3>1. a * u = (x * u) * g BY <1>2, <1>3, <1>4
    <3>2. b * v = (y * v) * g BY <1>2, <1>3, <1>4
    <3>3. (x * u + y * v) * g = (x * u) * g + (y * v) * g BY <1>2
    <3>4. x * u + y * v \in Int /\ 1 * g = g /\ g \in Int \ {0} BY <1>2
    <3>5. (x * u + y * v) * g = 1 * g BY <3>1, <3>2, <3>3, <3>4, <1>4
    <3>6. QED BY <3>4, <3>5, Cancel
  <2>2. CASE t = 1 BY <2>1, <2>2
  <2>3. CASE t = -1
    <3>1. (t * x) * (t * u) = x * u BY <2>3
    <3>2. QED BY <2>1, <3>1
  <2>4. QED BY <2>2, <2>3
<1>13. (t * x) * d = n * y
  <2>1. s * ((t * x) * d) = (t * x) * b BY <1>1, <1>8
  <2>2. s * (n * y) = (g * (t * x)) * y BY <1>1, <1>9
  <2>3. (t * x) * b = (g * (t * x)) * y BY <1>3, <1>2
  <2>4. s * ((t * x) * d) = s * (n * y) BY <2>1, <2>2, <2>3
  <2>5. (t * x) * d \in Int /\ n * y \in Int OBVIOUS
  <2>6. QED BY <2>4, <2>5, <1>1
<1>14. t * x \in Int /\ t * u \in Int BY <1>4
<1>15. Frac(n, d) \in Fraction
  <2> DEFINE f == <<t * x, y>>
  <2>1. f \in Int \X (Nat \ {0}) BY <1>11, <1>14
  <2>2. f[1] * (t * u) + f[2] * v = 1 BY <1>12
  <2>3. f \in Fraction BY <2>1, <2>2, <1>14, <1>4 DEF Fraction
  <2>4. QED BY <2>3, <1>10
<1>16. QED BY <1>15, <1>10, <1>13

\* f is the fraction with the value n / d.
Is(f, n, d) ==
  f \in Fraction /\ n \in Int /\ d \in Int \ {0} /\ f[1] * d = n * f[2]

LEMMA IsFrac ==
  ASSUME NEW n \in Int, NEW d \in Int \ {0}
  PROVE  Is(Frac(n, d), n, d)
BY FracIs DEF Is

LEMMA IsOwn ==
  ASSUME NEW f \in Fraction
  PROVE  Is(f, f[1], f[2])
BY FractionIs DEF Is

\* The value may be written in any way.
LEMMA IsScaled ==
  ASSUME NEW f, NEW a, NEW b, Is(f, a, b), NEW n \in Int, NEW d \in Int \ {0}, a * d = n * b
  PROVE  Is(f, n, d)
<1> DEFINE p == f[1]  q == f[2]
<1>1. p \in Int /\ q \in Int /\ a \in Int /\ b \in Int /\ b # 0 /\ p * b = a * q
  BY FractionIs DEF Is
<1> HIDE DEF p, q
<1>2. (p * d) * b = (n * q) * b
  <2>1. (p * d) * b = (p * b) * d BY <1>1
  <2>2. (a * q) * d = (a * d) * q BY <1>1
  <2>3. (n * b) * q = (n * q) * b BY <1>1
  <2>4. QED BY <2>1, <2>2, <2>3, <1>1
<1>3. p * d = n * q
  <2>1. p * d \in Int /\ n * q \in Int BY <1>1
  <2>2. QED BY <2>1, <1>2, <1>1, Cancel
<1>4. QED BY <1>3 DEF Is, p, q

LEMMA IsSame ==
  ASSUME NEW f, NEW n, NEW d, Is(f, n, d), NEW g, NEW m, NEW e, Is(g, m, e), n * e = m * d
  PROVE  f = g
<1>1. Is(f, m, e) BY IsScaled DEF Is
<1> DEFINE p == f[1]  q == f[2]  r == g[1]  s == g[2]
<1>2. /\ p \in Int /\ q \in Int /\ r \in Int /\ s \in Int /\ e \in Int /\ e # 0 /\ m \in Int
      /\ p * e = m * q /\ r * e = m * s
  BY <1>1, FractionIs DEF Is
<1> HIDE DEF p, q, r, s
<1>3. (p * s) * e = (r * q) * e
  <2>1. (p * s) * e = (p * e) * s BY <1>2
  <2>2. (r * q) * e = (r * e) * q BY <1>2
  <2>3. (m * q) * s = (m * s) * q BY <1>2
  <2>4. QED BY <2>1, <2>2, <2>3, <1>2
<1>4. p * s = r * q
  <2>1. p * s \in Int /\ r * q \in Int BY <1>2
  <2>2. QED BY <2>1, <1>3, <1>2, Cancel
<1>5. QED BY <1>4, SameFraction DEF Is, p, q, r, s

LEMMA IsOrder ==
  ASSUME NEW f, NEW n, NEW d, Is(f, n, d), NEW g, NEW m, NEW e, Is(g, m, e), d > 0, e > 0
  PROVE  /\ Less(f, g) <=> n * e < m * d
         /\ AtMost(f, g) <=> n * e <= m * d
<1> DEFINE p == f[1]  q == f[2]  r == g[1]  s == g[2]
<1>1. /\ p \in Int /\ q \in Int /\ q > 0 /\ r \in Int /\ s \in Int /\ s > 0
      /\ d \in Int /\ e \in Int /\ m \in Int /\ n \in Int
      /\ p * d = n * q /\ r * e = m * s
      /\ Less(f, g) = (p * s < r * q) /\ AtMost(f, g) = (p * s <= r * q)
  BY FractionIs DEF Is, Less, AtMost
<1> HIDE DEF p, q, r, s
<1>2. (p * s) * (d * e) = (n * e) * (q * s)
  <2>1. (p * s) * (d * e) = (p * d) * (s * e) BY <1>1
  <2>2. (n * q) * (s * e) = (n * e) * (q * s) BY <1>1
  <2>3. QED BY <2>1, <2>2, <1>1
<1>3. (r * q) * (d * e) = (m * d) * (q * s)
  <2>1. (r * q) * (d * e) = (r * e) * (q * d) BY <1>1
  <2>2. (m * s) * (q * d) = (m * d) * (q * s) BY <1>1
  <2>3. QED BY <2>1, <2>2, <1>1
<1>4. d * e \in Int /\ d * e > 0 /\ q * s \in Int /\ q * s > 0 BY <1>1
<1>5. p * s \in Int /\ r * q \in Int /\ n * e \in Int /\ m * d \in Int BY <1>1
<1>6. /\ (p * s) * (d * e) < (r * q) * (d * e) <=> p * s < r * q
      /\ (p * s) * (d * e) <= (r * q) * (d * e) <=> p * s <= r * q
      /\ (n * e) * (q * s) < (m * d) * (q * s) <=> n * e < m * d
      /\ (n * e) * (q * s) <= (m * d) * (q * s) <=> n * e <= m * d
  BY <1>4, <1>5, CancelLess
<1>7. QED BY <1>1, <1>2, <1>3, <1>6

LEMMA IsPlus ==
  ASSUME NEW f, NEW n, NEW d, Is(f, n, d), NEW g, NEW m, NEW e, Is(g, m, e)
  PROVE  Is(Plus(f, g), n * e + m * d, d * e) /\ Is(Minus(f, g), n * e - m * d, d * e)
<1> DEFINE p == f[1]  q == f[2]  r == g[1]  s == g[2]
<1>1. /\ p \in Int /\ q \in Int /\ q > 0 /\ r \in Int /\ s \in Int /\ s > 0
      /\ d \in Int /\ e \in Int /\ m \in Int /\ n \in Int /\ d # 0 /\ e # 0
      /\ p * d = n * q /\ r * e = m * s
      /\ Plus(f, g) = Frac(p * s + r * q, q * s) /\ Minus(f, g) = Frac(p * s - r * q, q * s)
  BY FractionIs DEF Is, Plus, Minus
<1> HIDE DEF p, q, r, s
<1>2. /\ q * s \in Int \ {0} /\ d * e \in Int \ {0}
      /\ p * s + r * q \in Int /\ p * s - r * q \in Int
      /\ n * e + m * d \in Int /\ n * e - m * d \in Int
  BY <1>1
<1>3. (p * s) * (d * e) = (n * e) * (q * s)
  <2>1. (p * s) * (d * e) = (p * d) * (s * e) BY <1>1
  <2>2. (n * q) * (s * e) = (n * e) * (q * s) BY <1>1
  <2>3. QED BY <2>1, <2>2, <1>1
<1>4. (r * q) * (d * e) = (m * d) * (q * s)
  <2>1. (r * q) * (d * e) = (r * e) * (q * d) BY <1>1
  <2>2. (m * s) * (q * d) = (m * d) * (q * s) BY <1>1
  <2>3. QED BY <2>1, <2>2, <1>1
<1>5. /\ (p * s + r * q) * (d * e) = (p * s) * (d * e) + (r * q) * (d * e)
      /\ (p * s - r * q) * (d * e) = (p * s) * (d * e) - (r * q) * (d * e)
      /\ (n * e + m * d) * (q * s) = (n * e) * (q * s) + (m * d) * (q * s)
      /\ (n * e - m * d) * (q * s) = (n * e) * (q * s) - (m * d) * (q * s)
  BY <1>1
<1>6. /\ (p * s + r * q) * (d * e) = (n * e + m * d) * (q * s)
      /\ (p * s - r * q) * (d * e) = (n * e - m * d) * (q * s)
  BY <1>3, <1>4, <1>5
<1>7. Is(Plus(f, g), p * s + r * q, q * s) /\ Is(Minus(f, g), p * s - r * q, q * s)
  BY <1>1, <1>2, IsFrac
<1>8. QED BY <1>2, <1>6, <1>7, IsScaled

LEMMA IsTimes ==
  ASSUME NEW f, NEW n, NEW d, Is(f, n, d), NEW g, NEW m, NEW e, Is(g, m, e)
  PROVE  /\ Is(Times(f, g), n * m, d * e)
         /\ m # 0 => Is(Over(f, g), n * e, d * m)
<1> DEFINE p == f[1]  q == f[2]  r == g[1]  s == g[2]
<1>1. /\ p \in Int /\ q \in Int /\ q > 0 /\ r \in Int /\ s \in Int /\ s > 0
      /\ d \in Int /\ e \in Int /\ m \in Int /\ n \in Int /\ d # 0 /\ e # 0
      /\ p * d = n * q /\ r * e = m * s
      /\ Times(f, g) = Frac(p * r, q * s) /\ Over(f, g) = Frac(p * s, q * r)
  BY FractionIs DEF Is, Times, Over
<1> HIDE DEF p, q, r, s
<1>2. /\ q * s \in Int \ {0} /\ d * e \in Int \ {0}
      /\ p * r \in Int /\ n * m \in Int /\ p * s \in Int /\ n * e \in Int
  BY <1>1
<1>3. (p * r) * (d * e) = (n * m) * (q * s)
  <2>1. (p * r) * (d * e) = (p * d) * (r * e) BY <1>1
  <2>2. (n * q) * (m * s) = (n * m) * (q * s) BY <1>1
  <2>3. QED BY <2>1, <2>2, <1>1
<1>4. Is(Times(f, g), n * m, d * e)
  <2>1. Is(Times(f, g), p * r, q * s) BY <1>1, <1>2, IsFrac
  <2>2. QED BY <1>2, <1>3, <2>1, IsScaled
<1>5. ASSUME m # 0 PROVE Is(Over(f, g), n * e, d * m)
  <2>1. r # 0
    <3>1. SUFFICES ASSUME r = 0 PROVE FALSE OBVIOUS
    <3>2. m * s = 0 BY <3>1, <1>1
    <3>3. QED BY <3>2, <1>5, <1>1
  <2>2. q * r \in Int \ {0} /\ d * m \in Int \ {0} BY <2>1, <1>1, <1>5
  <2>3. (p * s) * (d * m) = (n * e) * (q * r)
    <3>1. (p * s) * (d * m) = (p * d) * (m * s) BY <1>1
    <3>2. (n * q) * (r * e) = (n * e) * (q * r) BY <1>1
    <3>3. QED BY <3>1, <3>2, <1>1
  <2>4. Is(Over(f, g), p * s, q * r) BY <1>1, <1>2, <2>2, IsFrac
  <2>5. QED BY <1>2, <2>2, <2>3, <2>4, IsScaled
<1>6. QED BY <1>4, <1>5

LEMMA WholeIs ==
  ASSUME NEW n \in Int
  PROVE  Whole(n) \in Fraction /\ Is(Whole(n), n, 1)
<1>1. <<n, 1>> \in Int \X (Nat \ {0}) OBVIOUS
<1>2. <<n, 1>>[1] * 0 + <<n, 1>>[2] * 1 = 1 OBVIOUS
<1>3. <<n, 1>> \in Fraction BY <1>1, <1>2 DEF Fraction
<1>4. QED BY <1>3 DEF Whole, Is

LEMMA Numbers == Zero \in Fraction /\ One \in Fraction /\ Is(Zero, 0, 1) /\ Is(One, 1, 1)
BY WholeIs DEF Zero, One

LEMMA WholeOrder ==
  ASSUME NEW m \in Int, NEW n \in Int
  PROVE  /\ Less(Whole(m), Whole(n)) <=> m < n
         /\ AtMost(Whole(m), Whole(n)) <=> m <= n
         /\ Whole(m) = Whole(n) <=> m = n
         /\ Plus(Whole(m), Whole(n)) = Whole(m + n)
         /\ Minus(Whole(m), Whole(n)) = Whole(m - n)
         /\ Times(Whole(m), Whole(n)) = Whole(m * n)
<1>1. Is(Whole(m), m, 1) /\ Is(Whole(n), n, 1) BY WholeIs
<1>2. Whole(m) = Whole(n) <=> m = n BY DEF Whole
<1>3. /\ Less(Whole(m), Whole(n)) <=> m < n
      /\ AtMost(Whole(m), Whole(n)) <=> m <= n
  BY DEF Less, AtMost, Whole
<1>4. Plus(Whole(m), Whole(n)) = Whole(m + n)
  <2>1. Is(Plus(Whole(m), Whole(n)), m * 1 + n * 1, 1 * 1) BY <1>1, IsPlus
  <2>2. m + n \in Int /\ Is(Whole(m + n), m + n, 1) BY WholeIs
  <2>3. QED BY <2>1, <2>2, IsSame
<1>5. Minus(Whole(m), Whole(n)) = Whole(m - n)
  <2>1. Is(Minus(Whole(m), Whole(n)), m * 1 - n * 1, 1 * 1) BY <1>1, IsPlus
  <2>2. m - n \in Int /\ Is(Whole(m - n), m - n, 1) BY WholeIs
  <2>3. QED BY <2>1, <2>2, IsSame
<1>6. Times(Whole(m), Whole(n)) = Whole(m * n)
  <2>1. Is(Times(Whole(m), Whole(n)), m * n, 1 * 1) BY <1>1, IsTimes
  <2>2. m * n \in Int /\ Is(Whole(m * n), m * n, 1) BY WholeIs
  <2>3. QED BY <2>1, <2>2, IsSame
<1>7. QED BY <1>2, <1>3, <1>4, <1>5, <1>6

LEMMA FieldTypes ==
  ASSUME NEW f \in Fraction, NEW g \in Fraction
  PROVE  /\ Plus(f, g) \in Fraction /\ Minus(f, g) \in Fraction /\ Times(f, g) \in Fraction
         /\ f # Zero <=> f[1] # 0
         /\ g # Zero => Over(f, g) \in Fraction
<1>1. Is(f, f[1], f[2]) /\ Is(g, g[1], g[2]) BY IsOwn
<1>2. \A h \in Fraction : h # Zero <=> h[1] # 0
  <2> SUFFICES ASSUME NEW h \in Fraction PROVE h # Zero <=> h[1] # 0
    OBVIOUS
  <2>1. h[1] = 0 => h = Zero
    <3>1. Zero[1] = 0 /\ Zero[2] = 1 BY DEF Zero, Whole
    <3>2. h[1] = 0 => h[1] * Zero[2] = Zero[1] * h[2] BY <3>1, FractionIs
    <3>3. QED BY <3>2, Numbers, SameFraction
  <2>2. QED BY <2>1 DEF Zero, Whole
<1>3. Plus(f, g) \in Fraction /\ Minus(f, g) \in Fraction /\ Times(f, g) \in Fraction
  <2>1. /\ Is(Plus(f, g), f[1] * g[2] + g[1] * f[2], f[2] * g[2])
        /\ Is(Minus(f, g), f[1] * g[2] - g[1] * f[2], f[2] * g[2])
        /\ Is(Times(f, g), f[1] * g[1], f[2] * g[2])
    BY <1>1, IsPlus, IsTimes
  <2>2. QED BY <2>1 DEF Is
<1>4. ASSUME g # Zero PROVE Over(f, g) \in Fraction
  <2>1. g[1] # 0 BY <1>2, <1>4
  <2>2. Is(Over(f, g), f[1] * g[2], f[2] * g[1]) BY <1>1, <2>1, IsTimes
  <2>3. QED BY <2>2 DEF Is
<1>5. QED BY <1>2, <1>3, <1>4

LEMMA PlusLaws ==
  ASSUME NEW f \in Fraction, NEW g \in Fraction, NEW h \in Fraction
  PROVE  /\ Plus(f, g) = Plus(g, f)
         /\ Plus(f, Plus(g, h)) = Plus(Plus(f, g), h)
         /\ Plus(Zero, f) = f /\ Plus(f, Zero) = f
         /\ Plus(Minus(f, g), g) = f /\ Minus(Plus(f, g), g) = f
<1> DEFINE p == f[1]  q == f[2]  r == g[1]  s == g[2]  u == h[1]  v == h[2]
<1>1. /\ p \in Int /\ q \in Int \ {0} /\ r \in Int /\ s \in Int \ {0} /\ u \in Int /\ v \in Int \ {0}
      /\ Is(f, p, q) /\ Is(g, r, s) /\ Is(h, u, v)
  BY FractionIs, IsOwn
<1> HIDE DEF p, q, r, s, u, v
<1>2. Plus(f, g) = Plus(g, f)
  <2>1. Is(Plus(f, g), p * s + r * q, q * s) /\ Is(Plus(g, f), r * q + p * s, s * q)
    BY <1>1, IsPlus
  <2>2. (p * s + r * q) * (s * q) = (r * q + p * s) * (q * s) BY <1>1
  <2>3. QED BY <2>1, <2>2, IsSame
<1>3. Plus(f, Plus(g, h)) = Plus(Plus(f, g), h)
  <2>1. Is(Plus(f, g), p * s + r * q, q * s) /\ Is(Plus(g, h), r * v + u * s, s * v)
    BY <1>1, IsPlus
  <2>2. /\ Is(Plus(f, Plus(g, h)), p * (s * v) + (r * v + u * s) * q, q * (s * v))
        /\ Is(Plus(Plus(f, g), h), (p * s + r * q) * v + u * (q * s), (q * s) * v)
    BY <2>1, <1>1, IsPlus
  <2>3. /\ q * (s * v) = (q * s) * v
        /\ p * (s * v) + (r * v + u * s) * q = (p * s + r * q) * v + u * (q * s)
    BY <1>1
  <2>4. QED BY <2>2, <2>3, IsSame
<1>4. Plus(Zero, f) = f
  <2>1. Is(Plus(Zero, f), 0 * q + p * 1, 1 * q) BY <1>1, Numbers, IsPlus
  <2>2. (0 * q + p * 1) * q = p * (1 * q) BY <1>1
  <2>3. QED BY <2>1, <2>2, <1>1, IsSame
<1>5. Plus(f, Zero) = f
  <2>1. Is(Plus(f, Zero), p * 1 + 0 * q, q * 1) BY <1>1, Numbers, IsPlus
  <2>2. (p * 1 + 0 * q) * q = p * (q * 1) BY <1>1
  <2>3. QED BY <2>1, <2>2, <1>1, IsSame
<1>6. Plus(Minus(f, g), g) = f
  <2>1. Is(Minus(f, g), p * s - r * q, q * s) BY <1>1, IsPlus
  <2>2. Is(Plus(Minus(f, g), g), (p * s - r * q) * s + r * (q * s), (q * s) * s)
    BY <2>1, <1>1, IsPlus
  <2>3. ((p * s - r * q) * s + r * (q * s)) * q = p * ((q * s) * s) BY <1>1
  <2>4. QED BY <2>2, <2>3, <1>1, IsSame
<1>7. Minus(Plus(f, g), g) = f
  <2>1. Is(Plus(f, g), p * s + r * q, q * s) BY <1>1, IsPlus
  <2>2. Is(Minus(Plus(f, g), g), (p * s + r * q) * s - r * (q * s), (q * s) * s)
    BY <2>1, <1>1, IsPlus
  <2>3. ((p * s + r * q) * s - r * (q * s)) * q = p * ((q * s) * s) BY <1>1
  <2>4. QED BY <2>2, <2>3, <1>1, IsSame
<1>8. QED BY <1>2, <1>3, <1>4, <1>5, <1>6, <1>7

LEMMA OrderLaws ==
  ASSUME NEW f \in Fraction, NEW g \in Fraction, NEW h \in Fraction
  PROVE  /\ Less(f, g) <=> ~AtMost(g, f)
         /\ AtMost(f, g) <=> Less(f, g) \/ f = g
         /\ ~Less(f, f) /\ ~(Less(f, g) /\ Less(g, f))
         /\ AtMost(f, g) /\ AtMost(g, h) => AtMost(f, h)
         /\ Less(f, g) /\ AtMost(g, h) => Less(f, h)
         /\ AtMost(f, g) /\ Less(g, h) => Less(f, h)
<1> DEFINE p == f[1]  q == f[2]  r == g[1]  s == g[2]  u == h[1]  v == h[2]
<1>1. /\ p \in Int /\ q \in Int /\ r \in Int /\ s \in Int /\ u \in Int /\ v \in Int
      /\ q > 0 /\ s > 0 /\ v > 0
      /\ p * s = r * q => f = g
      /\ f = g => p = r /\ q = s
      /\ (Less(f, g) <=> p * s < r * q) /\ (AtMost(f, g) <=> p * s <= r * q)
      /\ (Less(g, f) <=> r * q < p * s) /\ (AtMost(g, f) <=> r * q <= p * s)
      /\ (Less(g, h) <=> r * v < u * s) /\ (AtMost(g, h) <=> r * v <= u * s)
      /\ (Less(f, h) <=> p * v < u * q) /\ (AtMost(f, h) <=> p * v <= u * q)
      /\ (Less(f, f) <=> p * q < p * q)
  BY FractionIs, SameFraction DEF Less, AtMost
<1> HIDE DEF p, q, r, s, u, v
<1>2. /\ p * s \in Int /\ r * q \in Int /\ r * v \in Int /\ u * s \in Int /\ p * v \in Int
      /\ u * q \in Int /\ p * q \in Int
  BY <1>1
<1>3. /\ (p * s) * v = (p * v) * s /\ (r * q) * v = (r * v) * q /\ (u * s) * q = (u * q) * s
  BY <1>1
<1>4. /\ (p * s) * v < (r * q) * v <=> p * s < r * q
      /\ (p * s) * v <= (r * q) * v <=> p * s <= r * q
      /\ (r * v) * q < (u * s) * q <=> r * v < u * s
      /\ (r * v) * q <= (u * s) * q <=> r * v <= u * s
      /\ (p * v) * s < (u * q) * s <=> p * v < u * q
      /\ (p * v) * s <= (u * q) * s <=> p * v <= u * q
  BY <1>1, <1>2, CancelLess
<1>5. (p * v) * s \in Int /\ (r * v) * q \in Int /\ (u * q) * s \in Int BY <1>1
<1>6. p = r /\ q = s => p * s = r * q BY <1>1
<1>7. /\ Less(f, g) <=> ~AtMost(g, f)
      /\ AtMost(f, g) <=> Less(f, g) \/ f = g
      /\ ~Less(f, f) /\ ~(Less(f, g) /\ Less(g, f))
  <2>1. Less(f, g) <=> ~AtMost(g, f) BY <1>1, <1>2
  <2>2. f = g <=> p * s = r * q BY <1>1, <1>6
  <2>3. p * s <= r * q <=> p * s < r * q \/ p * s = r * q BY <1>2
  <2>4. AtMost(f, g) <=> Less(f, g) \/ f = g BY <2>2, <2>3, <1>1
  <2>5. ~Less(f, f) /\ ~(Less(f, g) /\ Less(g, f)) BY <1>1, <1>2
  <2>6. QED BY <2>1, <2>4, <2>5
<1>8. /\ AtMost(f, g) /\ AtMost(g, h) => AtMost(f, h)
      /\ Less(f, g) /\ AtMost(g, h) => Less(f, h)
      /\ AtMost(f, g) /\ Less(g, h) => Less(f, h)
  BY <1>1, <1>3, <1>4, <1>5
<1>9. QED BY <1>7, <1>8

-----------------------------------------------------------------------------
(***************************************************************************)
(* Sums.  SumOf is a recursive function on the subsets of a domain; it     *)
(* exists because it does on those of at most k elements, for every k, and *)
(* any element may be taken off first.                                     *)
(***************************************************************************)
Chosen(s) == CHOOSE x \in s : TRUE

Small(A, k) == {s \in SUBSET A : Cardinality(s) <= k}

\* g follows the recursion of the sum on the subsets of at most k elements.
IsFold(g, f, A, k) ==
  g = [s \in Small(A, k) |->
         IF s = {} THEN Zero ELSE Plus(f[Chosen(s)], g[s \ {Chosen(s)}])]

LEMMA ChosenIs ==
  ASSUME NEW A, IsFiniteSet(A), NEW s \in SUBSET A, s # {}
  PROVE  /\ Chosen(s) \in s
         /\ s \ {Chosen(s)} \in SUBSET A
         /\ Cardinality(s) \in Nat \ {0}
         /\ \A x \in s : Cardinality(s \ {x}) = Cardinality(s) - 1
<1>1. Chosen(s) \in s BY DEF Chosen
<1>2. IsFiniteSet(s) BY FS_Subset
<1>3. Cardinality(s) \in Nat /\ Cardinality(s) # 0
  BY <1>2, FS_CardinalityType, FS_EmptySet
<1>4. \A x \in s : Cardinality(s \ {x}) = Cardinality(s) - 1
  BY <1>2, FS_RemoveElement
<1>5. QED BY <1>1, <1>3, <1>4

LEMMA FoldValue ==
  ASSUME NEW A, NEW f, NEW k, NEW g, IsFold(g, f, A, k), NEW s \in Small(A, k)
  PROVE  /\ s = {} => g[s] = Zero
         /\ s # {} => g[s] = Plus(f[Chosen(s)], g[s \ {Chosen(s)}])
BY DEF IsFold

LEMMA FoldExists ==
  ASSUME NEW A, IsFiniteSet(A), NEW f, NEW k \in Nat
  PROVE  \E g : IsFold(g, f, A, k)
<1> DEFINE Bad == {m \in Nat : ~\E g : IsFold(g, f, A, m)}
<1>1. SUFFICES ASSUME Bad # {} PROVE FALSE
  OBVIOUS
<1>s. Bad \in SUBSET Nat
  OBVIOUS
<1>2. PICK m \in Bad : \A n \in Bad : m <= n
  <2> HIDE DEF Bad
  <2>1. QED BY <1>1, <1>s, NatMin
<1>3. m # 0
  <2> DEFINE g == [s \in Small(A, 0) |-> Zero]
  <2>1. ASSUME NEW s \in Small(A, 0) PROVE s = {}
    <3>1. s \in SUBSET A /\ Cardinality(s) <= 0 BY DEF Small
    <3>2. s # {} => Cardinality(s) \in Nat \ {0} BY <3>1, ChosenIs
    <3>3. QED BY <3>1, <3>2
  <2>2. g = [s \in Small(A, 0) |->
               IF s = {} THEN Zero ELSE Plus(f[Chosen(s)], g[s \ {Chosen(s)}])]
    BY <2>1
  <2>3. IsFold(g, f, A, 0) BY <2>2 DEF IsFold
  <2>4. QED BY <2>3
<1>4. PICK g : IsFold(g, f, A, m - 1)
  BY <1>2, <1>3
<1>5. PICK h : h = [s \in Small(A, m) |->
                      IF s = {} THEN Zero ELSE Plus(f[Chosen(s)], g[s \ {Chosen(s)}])]
  OBVIOUS
<1>6. ASSUME NEW s \in Small(A, m), s # {}
      PROVE  s \ {Chosen(s)} \in Small(A, m - 1) /\ s \ {Chosen(s)} \in Small(A, m)
  BY <1>6, <1>2, ChosenIs DEF Small
<1>7. ASSUME NEW s \in Small(A, m - 1) PROVE h[s] = g[s]
  <2>1. s \in Small(A, m)
    <3>1. IsFiniteSet(s) /\ Cardinality(s) \in Nat
      BY FS_Subset, FS_CardinalityType DEF Small
    <3>2. QED BY <3>1, <1>2 DEF Small
  <2>2. QED BY <1>4, <1>5, <2>1, FoldValue
<1>8. \A s \in Small(A, m) :
        h[s] = IF s = {} THEN Zero ELSE Plus(f[Chosen(s)], h[s \ {Chosen(s)}])
  BY <1>5, <1>6, <1>7
<1>9. IsFold(h, f, A, m)
  BY <1>5, <1>8 DEF IsFold
<1>10. QED BY <1>9

\* The sums over all subsets of A, as a function that follows the recursion.
Folds(g, f, A) ==
  /\ g[{}] = Zero
  /\ \A s \in SUBSET A : s # {} => g[s] = Plus(f[Chosen(s)], g[s \ {Chosen(s)}])

LEMMA SumFolds ==
  ASSUME NEW f, IsFiniteSet(DOMAIN f)
  PROVE  \E g : SumOf(f) = g[DOMAIN f] /\ Folds(g, f, DOMAIN f)
<1> DEFINE A == DOMAIN f  n == Cardinality(A)
<1>1. n \in Nat BY FS_CardinalityType
<1>2. Small(A, n) = SUBSET A
  BY FS_Subset DEF Small
<1>3. \E g : IsFold(g, f, A, n) /\ SumOf(f) = g[A]
  <2> DEFINE g == CHOOSE g : IsFold(g, f, A, n)
  <2>1. IsFold(g, f, A, n)
    BY <1>1, FoldExists
  <2>2. SumOf(f) = g[A]
    BY <1>2 DEF SumOf, MapThenFoldSet, IsFold, Chosen
  <2>3. QED BY <2>1, <2>2
<1>4. PICK g : IsFold(g, f, A, n) /\ SumOf(f) = g[A]
  BY <1>3
<1>5. ASSUME NEW s \in SUBSET A
      PROVE  /\ s = {} => g[s] = Zero
             /\ s # {} => g[s] = Plus(f[Chosen(s)], g[s \ {Chosen(s)}])
  <2> HIDE DEF A, n
  <2>1. s \in Small(A, n) BY <1>2
  <2>2. QED BY <1>4, <2>1, FoldValue
<1>6. Folds(g, f, A) BY <1>5 DEF Folds
<1>7. QED BY <1>4, <1>6

\* Among the subsets in a set of subsets there is one that is smallest.
LEMMA SmallestIs ==
  ASSUME NEW A, IsFiniteSet(A), NEW Bad \in SUBSET SUBSET A, Bad # {}
  PROVE  \E s \in Bad : \A t \in Bad : Cardinality(s) <= Cardinality(t)
<1> DEFINE Sizes == {Cardinality(s) : s \in Bad}
<1>1. Sizes \in SUBSET Nat /\ Sizes # {}
  BY FS_Subset, FS_CardinalityType
<1>2. PICK m \in Sizes : \A n \in Sizes : m <= n
  <2> HIDE DEF Sizes
  <2>1. QED BY <1>1, NatMin
<1>3. QED BY <1>2

\* Any element may be the first.
LEMMA FoldSplit ==
  ASSUME NEW A, IsFiniteSet(A), NEW f \in [A -> Fraction], NEW g, Folds(g, f, A),
         NEW t \in SUBSET A
  PROVE  g[t] \in Fraction /\ \A x \in t : g[t] = Plus(f[x], g[t \ {x}])
<1> DEFINE Good(s) == g[s] \in Fraction /\ \A x \in s : g[s] = Plus(f[x], g[s \ {x}])
           Bad == {s \in SUBSET A : ~Good(s)}
<1>1. SUFFICES ASSUME Bad # {} PROVE FALSE
  OBVIOUS
<1>2. PICK s \in Bad : \A r \in Bad : Cardinality(s) <= Cardinality(r)
  <2>1. Bad \in SUBSET SUBSET A OBVIOUS
  <2> HIDE DEF Bad
  <2>2. QED BY <1>1, <2>1, SmallestIs
<1>3. s # {}
  <2>1. Good({}) BY Numbers DEF Folds
  <2>2. QED BY <1>2, <2>1
<1> DEFINE c == Chosen(s)
<1>4. c \in s /\ c \in A /\ Cardinality(s) \in Nat \ {0} /\ g[s] = Plus(f[c], g[s \ {c}])
  BY <1>2, <1>3, ChosenIs DEF Folds
<1> HIDE DEF c
<1>5. ASSUME NEW x \in s PROVE Good(s \ {x})
  <2>1. s \ {x} \in SUBSET A BY <1>2
  <2>2. Cardinality(s \ {x}) = Cardinality(s) - 1 BY <1>2, <1>3, ChosenIs
  <2>3. ~(Cardinality(s) <= Cardinality(s \ {x})) BY <2>2, <1>4
  <2> HIDE DEF Good
  <2>4. QED BY <2>1, <2>3, <1>2
<1>6. g[s] \in Fraction
  <2>1. g[s \ {c}] \in Fraction /\ f[c] \in Fraction BY <1>4, <1>5
  <2>2. QED BY <2>1, <1>4, FieldTypes
<1>7. ASSUME NEW x \in s PROVE g[s] = Plus(f[x], g[s \ {x}])
  <2>1. CASE x = c BY <2>1, <1>4
  <2>2. CASE x # c
    <3> DEFINE r == (s \ {c}) \ {x}
    <3>1. r = (s \ {x}) \ {c} /\ x \in s \ {c} /\ c \in s \ {x} BY <2>2, <1>4
    <3>2. Good(s \ {c}) /\ Good(s \ {x}) BY <1>4, <1>5
    <3>3. g[s \ {c}] = Plus(f[x], g[r]) /\ g[s \ {x}] = Plus(f[c], g[r])
      BY <3>1, <3>2
    <3>4. g[r] \in Fraction
      <4>1. r \in SUBSET A /\ Cardinality(r) = Cardinality(s) - 2
        <5>1. Cardinality(s \ {c}) = Cardinality(s) - 1 BY <1>2, <1>3, <1>4, ChosenIs
        <5>2. s \ {c} \in SUBSET A /\ s \ {c} # {} BY <1>2, <3>1
        <5>3. Cardinality(r) = Cardinality(s \ {c}) - 1 BY <3>1, <5>2, ChosenIs
        <5>4. QED BY <5>1, <5>2, <5>3, <1>4
      <4>2. ~(Cardinality(s) <= Cardinality(r)) BY <4>1, <1>4
      <4>3. Good(r)
        <5> HIDE DEF Good
        <5>1. QED BY <4>1, <4>2, <1>2
      <4>4. QED BY <4>3
    <3>5. f[x] \in Fraction /\ f[c] \in Fraction BY <1>2, <1>4
    <3> HIDE DEF r
    <3>6. Plus(f[c], Plus(f[x], g[r])) = Plus(Plus(f[c], f[x]), g[r]) BY <3>4, <3>5, PlusLaws
    <3>7. Plus(f[x], Plus(f[c], g[r])) = Plus(Plus(f[x], f[c]), g[r]) BY <3>4, <3>5, PlusLaws
    <3>8. Plus(f[c], f[x]) = Plus(f[x], f[c]) BY <3>4, <3>5, PlusLaws
    <3>9. QED BY <3>3, <3>6, <3>7, <3>8, <1>4
  <2>3. QED BY <2>1, <2>2
<1>8. QED BY <1>2, <1>6, <1>7

\* Sums of what agrees on a set agree there.
LEMMA FoldsAgree ==
  ASSUME NEW A, IsFiniteSet(A), NEW f, NEW g, Folds(g, f, A),
         NEW B, IsFiniteSet(B), NEW h, NEW k, Folds(k, h, B),
         NEW t \in SUBSET A, t \in SUBSET B, \A x \in t : f[x] = h[x]
  PROVE  g[t] = k[t]
<1> DEFINE Bad == {s \in SUBSET t : g[s] # k[s]}
<1>1. SUFFICES ASSUME Bad # {} PROVE FALSE
  OBVIOUS
<1>2. PICK s \in Bad : \A r \in Bad : Cardinality(s) <= Cardinality(r)
  <2>1. Bad \in SUBSET SUBSET A OBVIOUS
  <2> HIDE DEF Bad
  <2>2. QED BY <1>1, <2>1, SmallestIs
<1>3. s # {} BY <1>2 DEF Folds
<1> DEFINE c == Chosen(s)
<1>4. /\ c \in s /\ s \in SUBSET A /\ s \in SUBSET B /\ Cardinality(s) \in Nat
      /\ Cardinality(s \ {c}) = Cardinality(s) - 1
  BY <1>2, <1>3, ChosenIs
<1>5. g[s] = Plus(f[c], g[s \ {c}]) /\ k[s] = Plus(h[c], k[s \ {c}])
  BY <1>3, <1>4 DEF Folds
<1> HIDE DEF c
<1>6. g[s \ {c}] = k[s \ {c}]
  <2>1. ~(Cardinality(s) <= Cardinality(s \ {c})) BY <1>4
  <2>2. s \ {c} \in SUBSET t BY <1>2
  <2>3. QED BY <2>1, <2>2, <1>2
<1>7. QED BY <1>2, <1>4, <1>5, <1>6

LEMMA SumEmpty ==
  ASSUME NEW f, DOMAIN f = {}
  PROVE  SumOf(f) = Zero
<1>1. IsFiniteSet(DOMAIN f) BY FS_EmptySet
<1>2. PICK g : SumOf(f) = g[DOMAIN f] /\ Folds(g, f, DOMAIN f) BY <1>1, SumFolds
<1>3. QED BY <1>2 DEF Folds

Without(f, x) == [y \in DOMAIN f \ {x} |-> f[y]]

LEMMA SumSplit ==
  ASSUME NEW A, IsFiniteSet(A), NEW f \in [A -> Fraction]
  PROVE  /\ SumOf(f) \in Fraction
         /\ \A x \in A : SumOf(f) = Plus(f[x], SumOf(Without(f, x)))
<1>1. PICK g : SumOf(f) = g[A] /\ Folds(g, f, A) BY SumFolds
<1>2. SumOf(f) \in Fraction BY <1>1, FoldSplit
<1>3. ASSUME NEW x \in A PROVE SumOf(f) = Plus(f[x], SumOf(Without(f, x)))
  <2> DEFINE h == Without(f, x)  B == A \ {x}
  <2>1. IsFiniteSet(B) /\ B = DOMAIN h /\ \A y \in B : h[y] = f[y]
    BY FS_Subset DEF Without
  <2>2. PICK k : SumOf(h) = k[B] /\ Folds(k, h, B) BY <2>1, SumFolds
  <2>3. g[A] = Plus(f[x], g[B]) BY <1>1, FoldSplit
  <2>4. g[B] = k[B]
    <3>1. B \in SUBSET A /\ B \in SUBSET B OBVIOUS
    <3>2. \A y \in B : f[y] = h[y] BY <2>1
    <3> HIDE DEF B, h
    <3>3. QED BY <1>1, <2>1, <2>2, <3>1, <3>2, FoldsAgree
  <2>5. QED BY <1>1, <2>2, <2>3, <2>4
<1>4. QED BY <1>2, <1>3

\* Induction over the subsets of a finite set, and over numbers.
LEMMA SubsetInduction ==
  ASSUME NEW A, IsFiniteSet(A), NEW Good \in SUBSET SUBSET A, {} \in Good,
         \A s \in SUBSET A : \A x \in s : s \ {x} \in Good => s \in Good
  PROVE  Good = SUBSET A
<1> DEFINE Bad == (SUBSET A) \ Good
<1>1. SUFFICES ASSUME Bad # {} PROVE FALSE
  OBVIOUS
<1>2. PICK s \in Bad : \A r \in Bad : Cardinality(s) <= Cardinality(r)
  <2>1. Bad \in SUBSET SUBSET A OBVIOUS
  <2> HIDE DEF Bad
  <2>2. QED BY <1>1, <2>1, SmallestIs
<1>3. s # {} /\ s \in SUBSET A BY <1>2
<1>4. PICK x \in s : Cardinality(s \ {x}) = Cardinality(s) - 1 /\ Cardinality(s) \in Nat
  BY <1>3, ChosenIs
<1>5. s \ {x} \in Good
  <2>1. ~(Cardinality(s) <= Cardinality(s \ {x})) BY <1>4
  <2>2. s \ {x} \in SUBSET A BY <1>3
  <2>3. QED BY <2>1, <2>2, <1>2
<1>6. QED BY <1>2, <1>3, <1>5

LEMMA UptoInduction ==
  ASSUME NEW n \in Nat, NEW Good, 0 \in Good,
         \A i \in 1..n : i - 1 \in Good => i \in Good
  PROVE  0..n \subseteq Good
<1> DEFINE Bad == {i \in 0..n : i \notin Good}
<1>1. SUFFICES ASSUME Bad # {} PROVE FALSE
  OBVIOUS
<1>2. PICK i \in Bad : \A j \in Bad : i <= j
  <2>1. Bad \in SUBSET Nat OBVIOUS
  <2> HIDE DEF Bad
  <2>2. QED BY <1>1, <2>1, NatMin
<1>3. i \in 1..n /\ i - 1 \in 0..n /\ ~(i <= i - 1) BY <1>2
<1>4. QED BY <1>2, <1>3

\* The sum of integers is what the exact sum of them is.
Integral(h) == [x \in DOMAIN h |-> Whole(h[x])]
IntSum(h) == SumOf(Integral(h))[1]
Part(h, s) == [x \in s |-> h[x]]

LEMMA IntSumIs ==
  ASSUME NEW A, IsFiniteSet(A), NEW h \in [A -> Int]
  PROVE  /\ IntSum(h) \in Int
         /\ SumOf(Integral(h)) = Whole(IntSum(h))
         /\ A = {} => IntSum(h) = 0
         /\ \A x \in A : IntSum(h) = h[x] + IntSum(Part(h, A \ {x}))
<1> DEFINE S(s) == SumOf(Integral(Part(h, s)))
           Good == {s \in SUBSET A : \E z \in Int : S(s) = Whole(z)}
<1>1. ASSUME NEW s \in SUBSET A
      PROVE  s = {} => S(s) = Zero
  <2>1. DOMAIN Integral(Part(h, s)) = s BY DEF Integral, Part
  <2>2. QED BY <2>1, SumEmpty
<1>2. ASSUME NEW s \in SUBSET A, NEW x \in s
      PROVE  S(s) = Plus(Whole(h[x]), S(s \ {x}))
  <2> DEFINE f == Integral(Part(h, s))
  <2>1. IsFiniteSet(s) BY FS_Subset
  <2>2. f = [y \in s |-> Whole(h[y])] BY DEF Integral, Part
  <2>3. f \in [s -> Fraction] /\ f[x] = Whole(h[x]) BY <2>2, WholeIs
  <2>4. Without(f, x) = Integral(Part(h, s \ {x}))
    BY <2>2 DEF Without, Integral, Part
  <2> HIDE DEF f
  <2>5. SumOf(f) = Plus(f[x], SumOf(Without(f, x))) BY <2>1, <2>3, SumSplit
  <2>6. QED BY <2>3, <2>4, <2>5 DEF f
<1>3. Good = SUBSET A
  <2>1. {} \in Good
    <3>1. S({}) = Whole(0) BY <1>1 DEF Zero
    <3>2. QED BY <3>1
  <2>2. ASSUME NEW s \in SUBSET A, NEW x \in s, s \ {x} \in Good PROVE s \in Good
    <3>1. PICK z \in Int : S(s \ {x}) = Whole(z) BY <2>2
    <3>2. S(s) = Plus(Whole(h[x]), Whole(z)) BY <1>2, <3>1
    <3>3. h[x] \in Int /\ h[x] + z \in Int OBVIOUS
    <3>4. S(s) = Whole(h[x] + z) BY <3>2, <3>3, WholeOrder
    <3>5. QED BY <3>3, <3>4
  <2>3. Good \in SUBSET SUBSET A OBVIOUS
  <2> HIDE DEF Good
  <2>4. QED BY <2>1, <2>2, <2>3, SubsetInduction
<1>4. ASSUME NEW s \in SUBSET A
      PROVE  IntSum(Part(h, s)) \in Int /\ S(s) = Whole(IntSum(Part(h, s)))
  <2>1. PICK z \in Int : S(s) = Whole(z)
    <3>1. s \in Good BY <1>3
    <3>2. QED BY <3>1
  <2>2. IntSum(Part(h, s)) = z BY <2>1 DEF IntSum, Whole
  <2>3. QED BY <2>1, <2>2
<1>5. Part(h, A) = h BY DEF Part
<1>6. ASSUME NEW x \in A
      PROVE  IntSum(h) = h[x] + IntSum(Part(h, A \ {x}))
  <2>1. S(A) = Plus(Whole(h[x]), S(A \ {x})) BY <1>2
  <2>2. /\ S(A) = Whole(IntSum(h)) /\ S(A \ {x}) = Whole(IntSum(Part(h, A \ {x})))
        /\ IntSum(h) \in Int /\ IntSum(Part(h, A \ {x})) \in Int
    <3>1. A \in SUBSET A /\ A \ {x} \in SUBSET A OBVIOUS
    <3> HIDE DEF S
    <3>2. QED BY <1>4, <1>5, <3>1
  <2> DEFINE u == IntSum(h)  v == h[x]  w == IntSum(Part(h, A \ {x}))
  <2>3. v \in Int OBVIOUS
  <2>4. Whole(u) = Plus(Whole(v), Whole(w)) BY <2>1, <2>2
  <2>5. u \in Int /\ w \in Int BY <2>2
  <2> HIDE DEF S, u, v, w
  <2>6. v + w \in Int /\ Whole(u) = Whole(v + w) BY <2>3, <2>4, <2>5, WholeOrder
  <2>7. u = v + w BY <2>5, <2>6, WholeOrder
  <2>8. QED BY <2>7 DEF u, v, w
<1>7. IntSum(h) \in Int /\ S(A) = Whole(IntSum(h))
  <2>1. A \in SUBSET A OBVIOUS
  <2> HIDE DEF S
  <2>2. QED BY <1>4, <1>5, <2>1
<1>8. ASSUME A = {} PROVE IntSum(h) = 0
  <2>1. S(A) = Zero BY <1>1, <1>8
  <2>2. QED BY <2>1, <1>7 DEF Zero, Whole
<1>9. QED BY <1>5, <1>6, <1>7, <1>8

\* Sums follow what holds of the summands.
LEMMA IntSumLinear ==
  ASSUME NEW A, IsFiniteSet(A), NEW a \in [A -> Int], NEW b \in [A -> Int],
         NEW c \in [A -> Int], NEW d \in [A -> Int],
         \A x \in A : a[x] = b[x] - c[x] + d[x]
  PROVE  IntSum(a) = IntSum(b) - IntSum(c) + IntSum(d)
<1> DEFINE I(h, s) == IntSum(Part(h, s))
           Good == {s \in SUBSET A : I(a, s) = I(b, s) - I(c, s) + I(d, s)}
<1>1. ASSUME NEW h \in [A -> Int], NEW s \in SUBSET A
      PROVE  /\ I(h, s) \in Int /\ (s = {} => I(h, s) = 0)
             /\ \A x \in s : I(h, s) = h[x] + I(h, s \ {x}) /\ h[x] \in Int
  <2>1. IsFiniteSet(s) /\ Part(h, s) \in [s -> Int] BY FS_Subset DEF Part
  <2>2. \A x \in s : Part(h, s)[x] = h[x] /\ Part(Part(h, s), s \ {x}) = Part(h, s \ {x})
    BY DEF Part
  <2>3. QED BY <2>1, <2>2, IntSumIs
<1> HIDE DEF I
<1>2. {} \in Good
  <2>1. I(a, {}) = 0 /\ I(b, {}) = 0 /\ I(c, {}) = 0 /\ I(d, {}) = 0 BY <1>1
  <2>2. QED BY <2>1
<1>3. ASSUME NEW s \in SUBSET A, NEW x \in s, s \ {x} \in Good PROVE s \in Good
  <2> DEFINE r == s \ {x}
  <2>1. /\ I(a, s) = a[x] + I(a, r) /\ I(b, s) = b[x] + I(b, r)
        /\ I(c, s) = c[x] + I(c, r) /\ I(d, s) = d[x] + I(d, r)
    <3>1. \A h \in [A -> Int] : I(h, s) = h[x] + I(h, r) BY <1>1
    <3> HIDE DEF r
    <3>2. QED BY <3>1
  <2>2. /\ I(a, r) \in Int /\ I(b, r) \in Int /\ I(c, r) \in Int /\ I(d, r) \in Int
        /\ a[x] \in Int /\ b[x] \in Int /\ c[x] \in Int /\ d[x] \in Int
    <3>1. r \in SUBSET A OBVIOUS
    <3>2. QED BY <3>1, <1>1
  <2>3. a[x] = b[x] - c[x] + d[x] OBVIOUS
  <2>4. I(a, r) = I(b, r) - I(c, r) + I(d, r) BY <1>3
  <2> HIDE DEF r
  <2>5. I(a, s) = I(b, s) - I(c, s) + I(d, s) BY <2>1, <2>2, <2>3, <2>4
  <2>6. QED BY <2>5
<1>4. Good = SUBSET A
  <2>1. Good \in SUBSET SUBSET A OBVIOUS
  <2> HIDE DEF Good
  <2>2. QED BY <1>2, <1>3, <2>1, SubsetInduction
<1>5. A \in Good BY <1>4
<1>6. \A h \in [A -> Int] : I(h, A) = IntSum(h)
  <2>1. \A h \in [A -> Int] : Part(h, A) = h BY DEF Part
  <2>2. QED BY <2>1 DEF I
<1>7. QED BY <1>5, <1>6

\* The sum of the first n values of h grows by one value at a time.
First(h, n) == IntSum(Part(h, 1..n))

LEMMA FirstSums ==
  ASSUME NEW N \in Nat, NEW h \in [1..N -> Int]
  PROVE  /\ First(h, 0) = 0 /\ First(h, N) = IntSum(h)
         /\ \A n \in 0..N : First(h, n) \in Int
         /\ \A n \in 1..N : First(h, n) = First(h, n - 1) + h[n]
<1>1. ASSUME NEW n \in 0..N
      PROVE  First(h, n) \in Int /\ (n = 0 => First(h, n) = 0)
             /\ (n > 0 => First(h, n) = First(h, n - 1) + h[n])
  <2>1. IsFiniteSet(1..n) /\ Part(h, 1..n) \in [1..n -> Int]
    BY FS_Interval DEF Part
  <2>2. First(h, n) \in Int /\ (1..n = {} => First(h, n) = 0)
    BY <2>1, IntSumIs DEF First
  <2>3. ASSUME n > 0 PROVE First(h, n) = First(h, n - 1) + h[n]
    <3>1. n \in 1..n /\ (1..n) \ {n} = 1..(n - 1) BY <2>3
    <3>2. Part(Part(h, 1..n), (1..n) \ {n}) = Part(h, 1..(n - 1)) BY <3>1 DEF Part
    <3>3. Part(h, 1..n)[n] = h[n] BY <3>1 DEF Part
    <3>4. IntSum(Part(h, 1..n)) = h[n] + IntSum(Part(h, 1..(n - 1)))
      BY <2>1, <3>1, <3>2, <3>3, IntSumIs
    <3>5. First(h, n - 1) \in Int
      <4>1. IsFiniteSet(1..(n-1)) /\ Part(h, 1..(n-1)) \in [1..(n-1) -> Int]
        BY FS_Interval, <2>3 DEF Part
      <4>2. QED BY <4>1, IntSumIs DEF First
    <3>6. h[n] \in Int BY <3>1
    <3>7. QED BY <3>4, <3>5, <3>6 DEF First
  <2>4. QED BY <2>2, <2>3
<1>2. Part(h, 1..N) = h BY DEF Part
<1>3. QED BY <1>1, <1>2 DEF First

-----------------------------------------------------------------------------
(***************************************************************************)
(* Rounding                                                                *)
(***************************************************************************)
LEMMA DivIs ==
  ASSUME NEW a \in Int, NEW c \in Nat \ {0}
  PROVE  a \div c \in Int /\ \A z \in Int : z <= a \div c <=> z * c <= a
<1> DEFINE q == a \div c  r == a % c
<1>1. q \in Int /\ r \in 0..(c - 1) /\ a = c * q + r
  OBVIOUS
<1> HIDE DEF q, r
<1>2. ASSUME NEW z \in Int PROVE z <= q <=> z * c <= a
  <2>1. ASSUME z <= q PROVE z * c <= a
    <3>1. z * c <= q * c BY <2>1, <1>1, CancelLess
    <3>2. z * c \in Int /\ q * c = c * q /\ q * c \in Int BY <1>1
    <3>3. QED BY <3>1, <3>2, <1>1
  <2>2. ASSUME z > q PROVE z * c > a
    <3>1. (q + 1) * c <= z * c
      <4>1. q + 1 <= z /\ q + 1 \in Int BY <2>2, <1>1
      <4>2. QED BY <4>1, CancelLess
    <3>2. (q + 1) * c = c * q + c /\ z * c \in Int /\ c * q \in Int BY <1>1
    <3>3. QED BY <3>1, <3>2, <1>1
  <2>3. z * c \in Int OBVIOUS
  <2>4. QED BY <2>1, <2>2, <2>3, <1>1
<1>3. QED BY <1>1, <1>2 DEF q

\* A whole number is below the rounded value just when the one half less is
\* below the value.
LEMMA RoundedIs ==
  ASSUME NEW f, NEW n, NEW d, Is(f, n, d), d > 0
  PROVE  Rounded(f) \in Int /\ \A z \in Int : z <= Rounded(f) <=> (2 * z - 1) * d <= 2 * n
<1> DEFINE p == f[1]  q == f[2]
<1>1. /\ p \in Int /\ q \in Int /\ q > 0 /\ n \in Int /\ d \in Int /\ p * d = n * q
      /\ Rounded(f) = (2 * p + q) \div (2 * q)
  BY FractionIs DEF Is, Rounded
<1> HIDE DEF p, q
<1>2. /\ 2 * p + q \in Int /\ 2 * q \in Nat \ {0} BY <1>1
<1>3. Rounded(f) \in Int /\ \A z \in Int : z <= Rounded(f) <=> z * (2 * q) <= 2 * p + q
  <2> DEFINE a == 2 * p + q  c == 2 * q
  <2>1. a \in Int /\ c \in Nat \ {0} BY <1>2
  <2> HIDE DEF a, c
  <2>2. a \div c \in Int /\ \A z \in Int : z <= a \div c <=> z * c <= a BY <2>1, DivIs
  <2>3. QED BY <2>2, <1>1 DEF a, c
<1>4. ASSUME NEW z \in Int
      PROVE  z * (2 * q) <= 2 * p + q <=> (2 * z - 1) * d <= 2 * n
  <2>1. z * (2 * q) = 2 * (z * q) /\ z * q \in Int BY <1>1
  <2>2. (2 * z - 1) * q = 2 * (z * q) - q BY <1>1
  <2>3. z * (2 * q) <= 2 * p + q <=> (2 * z - 1) * q <= 2 * p BY <2>1, <2>2, <1>1
  <2>4. /\ (2 * z - 1) * q \in Int /\ 2 * p \in Int /\ (2 * z - 1) * d \in Int /\ 2 * n \in Int
    BY <1>1
  <2>5. /\ ((2 * z - 1) * q) * d <= (2 * p) * d <=> (2 * z - 1) * q <= 2 * p
        /\ ((2 * z - 1) * d) * q <= (2 * n) * q <=> (2 * z - 1) * d <= 2 * n
    BY <2>4, <1>1, CancelLess
  <2>6. ((2 * z - 1) * q) * d = ((2 * z - 1) * d) * q /\ (2 * p) * d = (2 * n) * q
    <3>1. (2 * p) * d = 2 * (p * d) /\ (2 * n) * q = 2 * (n * q) BY <1>1
    <3>2. \A u \in Int : (u * q) * d = (u * d) * q BY <1>1
    <3>3. 2 * z - 1 \in Int OBVIOUS
    <3>4. QED BY <3>1, <3>2, <3>3, <1>1
  <2>7. QED BY <2>3, <2>5, <2>6
<1>5. QED BY <1>3, <1>4

LEMMA RoundedLaws ==
  ASSUME NEW f \in Fraction, NEW g \in Fraction
  PROVE  /\ Rounded(f) \in Int
         /\ AtMost(f, g) => Rounded(f) <= Rounded(g)
<1>1. /\ Is(f, f[1], f[2]) /\ f[1] \in Int /\ f[2] \in Int /\ f[2] > 0
      /\ Is(g, g[1], g[2]) /\ g[1] \in Int /\ g[2] \in Int /\ g[2] > 0
  BY IsOwn, FractionIs
<1>2. Rounded(f) \in Int /\ Rounded(g) \in Int BY <1>1, RoundedIs
<1>3. ASSUME AtMost(f, g) PROVE Rounded(f) <= Rounded(g)
  <2> DEFINE z == Rounded(f)  p == f[1]  q == f[2]  r == g[1]  s == g[2]
  <2>1. /\ p \in Int /\ q \in Int /\ q > 0 /\ r \in Int /\ s \in Int /\ s > 0 /\ z \in Int
        /\ p * s <= r * q
    BY <1>1, <1>2, <1>3 DEF AtMost
  <2>2. (2 * z - 1) * q <= 2 * p
    <3>1. z <= Rounded(f) BY <1>2
    <3>2. QED BY <3>1, <1>1, <1>2, RoundedIs
  <2>3. z <= Rounded(g) <=> (2 * z - 1) * s <= 2 * r BY <1>1, <1>2, RoundedIs
  <2> HIDE DEF z, p, q, r, s
  <2>4. ((2 * z - 1) * q) * s <= (2 * p) * s
    <3>1. (2 * z - 1) * q \in Int /\ 2 * p \in Int BY <2>1
    <3>2. QED BY <3>1, <2>1, <2>2, CancelLess
  <2>5. (2 * p) * s = 2 * (p * s) /\ (2 * r) * q = 2 * (r * q) /\ p * s \in Int /\ r * q \in Int
    BY <2>1
  <2>6. ((2 * z - 1) * q) * s = ((2 * z - 1) * s) * q
    <3>1. \A u \in Int : (u * q) * s = (u * s) * q BY <2>1
    <3>2. 2 * z - 1 \in Int BY <2>1
    <3>3. QED BY <3>1, <3>2
  <2>7. ((2 * z - 1) * s) * q <= (2 * r) * q
    <3>1. ((2 * z - 1) * s) * q \in Int BY <2>1
    <3>2. QED BY <2>4, <2>5, <2>6, <2>1, <3>1
  <2>8. (2 * z - 1) * s <= 2 * r
    <3>1. (2 * z - 1) * s \in Int /\ 2 * r \in Int BY <2>1
    <3>2. QED BY <3>1, <2>1, <2>7, CancelLess
  <2>9. QED BY <2>3, <2>8 DEF z
<1>4. QED BY <1>2, <1>3

LEMMA RoundedWhole ==
  ASSUME NEW n \in Int
  PROVE  Rounded(Whole(n)) = n
<1>1. /\ Rounded(Whole(n)) \in Int
      /\ \A z \in Int : z <= Rounded(Whole(n)) <=> (2 * z - 1) * 1 <= 2 * n
  <2>1. Is(Whole(n), n, 1) /\ 1 > 0 BY WholeIs
  <2>2. QED BY <2>1, RoundedIs
<1>2. n <= Rounded(Whole(n)) /\ ~(n + 1 <= Rounded(Whole(n))) BY <1>1
<1>3. QED BY <1>1, <1>2

\* A share of a whole, in cells of w.
Share(a, t, w) == Times(Over(Whole(a), Whole(t)), Whole(w))

LEMMA ShareIs ==
  ASSUME NEW a \in Int, NEW t \in Nat \ {0}, NEW w \in Int
  PROVE  /\ Is(Share(a, t, w), a * w, t) /\ Share(a, t, w) \in Fraction
         /\ Share(0, t, w) = Zero /\ Share(t, t, w) = Whole(w)
<1>1. Is(Whole(t), t, 1) /\ Is(Whole(w), w, 1) /\ Is(Whole(w), w, 1) BY WholeIs
<1>2. ASSUME NEW b \in Int PROVE Is(Share(b, t, w), b * w, t)
  <2>1. Is(Whole(b), b, 1) BY WholeIs
  <2>2. Is(Over(Whole(b), Whole(t)), b * 1, 1 * t) BY <1>1, <2>1, IsTimes
  <2>3. Is(Share(b, t, w), (b * 1) * w, (1 * t) * 1) BY <1>1, <2>2, IsTimes DEF Share
  <2>4. (b * 1) * w = b * w /\ (1 * t) * 1 = t OBVIOUS
  <2>5. QED BY <2>3, <2>4
<1>3. Share(0, t, w) = Zero
  <2>1. Is(Share(0, t, w), 0 * w, t) BY <1>2
  <2>2. (0 * w) * 1 = 0 * t OBVIOUS
  <2>3. QED BY <2>1, <2>2, Numbers, IsSame
<1>4. Share(t, t, w) = Whole(w)
  <2>1. Is(Share(t, t, w), t * w, t) BY <1>2
  <2>2. (t * w) * 1 = w * t OBVIOUS
  <2>3. QED BY <2>1, <2>2, <1>1, IsSame
<1>5. QED BY <1>2, <1>3, <1>4 DEF Is

LEMMA SharesRise ==
  ASSUME NEW a \in Int, NEW b \in Int, a <= b, NEW t \in Nat \ {0}, NEW w \in Nat
  PROVE  Rounded(Share(a, t, w)) <= Rounded(Share(b, t, w))
<1>1. Is(Share(a, t, w), a * w, t) /\ Is(Share(b, t, w), b * w, t) BY ShareIs
<1>2. (a * w) * t <= (b * w) * t
  <2>1. a * w <= b * w
    <3>1. CASE w = 0 BY <3>1
    <3>2. CASE w > 0 BY <3>2, CancelLess
    <3>3. QED BY <3>1, <3>2
  <2>2. a * w \in Int /\ b * w \in Int OBVIOUS
  <2>3. QED BY <2>1, <2>2, CancelLess
<1>3. AtMost(Share(a, t, w), Share(b, t, w))
  <2>1. t > 0 OBVIOUS
  <2>2. QED BY <1>1, <1>2, <2>1, IsOrder
<1>4. QED BY <1>3, ShareIs, RoundedLaws

-----------------------------------------------------------------------------
(***************************************************************************)
(* The information modal                                                   *)
(***************************************************************************)
\* The consensus bar: the shares are those of the sums of the votes so far.
LEMMA ConsensusBar ==
  ASSUME NEW buckets \in Seq(Nat), NEW width \in Int
  PROVE  LET bar == push_consensus_lines(buckets, width)
         IN  bar # <<>> =>
               /\ SumOf([n \in DOMAIN bar |-> Whole(bar[n])])
                    = Whole(Atmost(Atleast(width, 10), 48))
               /\ \A n \in DOMAIN bar : bar[n] >= 0 /\ (buckets[n] = 0 => bar[n] = 0)
<1> DEFINE N == Len(buckets)  S(n) == First(buckets, n)  t == S(N)
           w == Atmost(Atleast(width, 10), 48)
           E(n) == Rounded(Share(S(n), t, w))
           cut == [n \in 1..N |-> E(n) - IF n = 1 THEN 0 ELSE E(n - 1)]
           bar == push_consensus_lines(buckets, width)
           upto(n) == SumOf([i \in 1..n |-> Whole(buckets[i])])
<1>1. N \in Nat /\ DOMAIN buckets = 1..N /\ buckets \in [1..N -> Nat] /\ w \in Nat /\ w >= 10
  BY DEF Atmost, Atleast
<1>2. /\ S(0) = 0 /\ \A n \in 0..N : S(n) \in Int
      /\ \A n \in 1..N : S(n) = S(n - 1) + buckets[n] /\ buckets[n] \in Nat
  <2>1. buckets \in [1..N -> Int] BY <1>1
  <2>2. QED BY <1>1, <2>1, FirstSums
<1>3. \A n \in 0..N : upto(n) = Whole(S(n))
  <2> SUFFICES ASSUME NEW n \in 0..N PROVE upto(n) = Whole(S(n))
    OBVIOUS
  <2>1. IsFiniteSet(1..n) /\ Part(buckets, 1..n) \in [1..n -> Int]
    <3>1. n \in Int /\ \A i \in 1..n : i \in 1..N BY <1>1
    <3>2. IsFiniteSet(1..n) BY <3>1, FS_Interval
    <3>3. \A i \in 1..n : buckets[i] \in Int BY <3>1, <1>2
    <3>4. QED BY <3>2, <3>3 DEF Part
  <2>2. Integral(Part(buckets, 1..n)) = [i \in 1..n |-> Whole(buckets[i])]
    BY DEF Integral, Part
  <2>3. QED BY <2>1, <2>2, IntSumIs DEF First
<1> HIDE DEF w
<1>4. 0..N \subseteq {n \in 0..N : S(n) \in Nat /\ \A m \in 0..n : S(m) <= S(n)}
  <2> DEFINE Good == {n \in 0..N : S(n) \in Nat /\ \A m \in 0..n : S(m) <= S(n)}
  <2>1. 0 \in Good BY <1>1, <1>2
  <2>2. ASSUME NEW i \in 1..N, i - 1 \in Good PROVE i \in Good
    <3>1. S(i) = S(i - 1) + buckets[i] /\ buckets[i] \in Nat /\ S(i - 1) \in Nat
      BY <1>2, <2>2
    <3>2. \A m \in 0..i : m = i \/ m \in 0..(i - 1) OBVIOUS
    <3>3. \A m \in 0..i : S(m) \in Int BY <1>2
    <3>4. QED BY <3>1, <3>2, <3>3, <2>2
  <2> HIDE DEF Good
  <2>3. QED BY <1>1, <2>1, <2>2, UptoInduction DEF Good
<1>5. ASSUME t # 0
      PROVE  /\ E(0) = 0 /\ E(N) = w /\ \A n \in 0..N : E(n) \in Int
             /\ \A n \in 1..N : E(n - 1) <= E(n) /\ (buckets[n] = 0 => E(n - 1) = E(n))
  <2>1. t \in Nat \ {0} BY <1>1, <1>4, <1>5
  <2>0. t = S(N) /\ t \in Nat \ {0} /\ t \in Int /\ 0 \in Int /\ w \in Int BY <2>1, <1>1
  <2> HIDE DEF t
  <2>2. E(0) = 0
    <3>1. Rounded(Zero) = 0 BY RoundedWhole DEF Zero
    <3>2. Share(0, t, w) = Zero BY <2>0, ShareIs
    <3>3. QED BY <1>2, <3>1, <3>2
  <2>3. E(N) = w
    <3>1. Share(t, t, w) = Whole(w) BY <2>0, ShareIs
    <3>2. QED BY <3>1, <2>0, RoundedWhole
  <2>4. ASSUME NEW n \in 0..N PROVE E(n) \in Int
    <3>1. S(n) \in Int BY <1>2
    <3>2. Share(S(n), t, w) \in Fraction BY <2>0, <3>1, ShareIs
    <3>3. QED BY <3>2, RoundedLaws
  <2>5. ASSUME NEW n \in 1..N PROVE E(n - 1) <= E(n) /\ (buckets[n] = 0 => E(n - 1) = E(n))
    <3>1. S(n) = S(n - 1) + buckets[n] /\ S(n - 1) \in Int /\ buckets[n] \in Nat /\ S(n) \in Int
      BY <1>2
    <3>2. S(n - 1) <= S(n) BY <3>1
    <3>3. E(n - 1) <= E(n) BY <3>1, <3>2, <2>1, <1>1, SharesRise
    <3>4. buckets[n] = 0 => S(n - 1) = S(n) BY <3>1
    <3>5. QED BY <3>3, <3>4
  <2>6. QED BY <2>2, <2>3, <2>4, <2>5
<1>6. bar = IF t = 0 THEN <<>> ELSE cut
  <2>1. upto(N) = Zero <=> t = 0
    <3>1. N \in 0..N /\ t \in Int BY <1>1, <1>2
    <3>2. upto(N) = Whole(t) BY <3>1, <1>3
    <3>3. QED BY <3>1, <3>2 DEF Zero, Whole
  <2>2. ASSUME NEW n \in 0..N
        PROVE  Rounded(Times(Over(upto(n), upto(N)), Whole(w))) = E(n)
    <3>1. upto(n) = Whole(S(n)) /\ upto(N) = Whole(t) BY <1>1, <1>3
    <3>2. QED BY <3>1 DEF Share
  <2>3. bar = IF upto(N) = Zero THEN <<>>
              ELSE [n \in DOMAIN buckets |->
                      Rounded(Times(Over(upto(n), upto(N)), Whole(w)))
                        - IF n = 1 THEN 0
                          ELSE Rounded(Times(Over(upto(n - 1), upto(N)), Whole(w)))]
    BY DEF push_consensus_lines, w
  <2> HIDE DEF upto, E, bar
  <2>4. [n \in DOMAIN buckets |->
           Rounded(Times(Over(upto(n), upto(N)), Whole(w)))
             - IF n = 1 THEN 0 ELSE Rounded(Times(Over(upto(n - 1), upto(N)), Whole(w)))] = cut
    <3>1. \A n \in 1..N : n \in 0..N /\ n - 1 \in 0..N OBVIOUS
    <3>2. QED BY <2>2, <3>1, <1>1
  <2>5. QED BY <2>1, <2>3, <2>4
<1> HIDE DEF bar, E, S
<1>7. ASSUME t # 0
      PROVE  /\ \A n \in 1..N : cut[n] = E(n) - E(n - 1)
             /\ cut \in [1..N -> Nat]
  <2>1. \A n \in 1..N : cut[n] = E(n) - E(n - 1)
    <3> SUFFICES ASSUME NEW n \in 1..N PROVE cut[n] = E(n) - E(n - 1)
      OBVIOUS
    <3>1. n = 1 => E(n - 1) = 0 BY <1>5, <1>7
    <3>2. QED BY <3>1
  <2>2. \A n \in 1..N : E(n) - E(n - 1) \in Nat
    <3> SUFFICES ASSUME NEW n \in 1..N PROVE E(n) - E(n - 1) \in Nat
      OBVIOUS
    <3>1. n \in 0..N /\ n - 1 \in 0..N OBVIOUS
    <3>2. E(n) \in Int /\ E(n - 1) \in Int /\ E(n - 1) <= E(n) BY <3>1, <1>5, <1>7
    <3>3. QED BY <3>2
  <2>3. \A n \in 1..N : cut[n] \in Nat BY <2>1, <2>2
  <2>4. QED BY <2>1, <2>3
<1>8. ASSUME t # 0
      PROVE  SumOf([n \in 1..N |-> Whole(cut[n])]) = Whole(w)
  <2>1. cut \in [1..N -> Int] BY <1>7, <1>8
  <2> HIDE DEF cut
  <2>2. /\ First(cut, 0) = 0 /\ First(cut, N) = IntSum(cut)
        /\ \A n \in 1..N : First(cut, n) = First(cut, n - 1) + cut[n]
    BY <2>1, <1>1, FirstSums
  <2>3. 0..N \subseteq {n \in 0..N : First(cut, n) = E(n)}
    <3> DEFINE Good == {n \in 0..N : First(cut, n) = E(n)}
    <3>1. 0 \in Good BY <1>1, <2>2, <1>5, <1>8
    <3>2. ASSUME NEW i \in 1..N, i - 1 \in Good PROVE i \in Good
      <4>1. i \in 0..N /\ i - 1 \in 0..N OBVIOUS
      <4>2. cut[i] = E(i) - E(i - 1) /\ E(i) \in Int /\ E(i - 1) \in Int
        BY <4>1, <1>5, <1>7, <1>8
      <4>3. First(cut, i) = E(i - 1) + (E(i) - E(i - 1)) BY <2>2, <3>2, <4>2
      <4>4. First(cut, i) = E(i) BY <4>2, <4>3
      <4>5. QED BY <4>1, <4>4
    <3> HIDE DEF Good
    <3>3. QED BY <1>1, <3>1, <3>2, UptoInduction DEF Good
  <2>4. IntSum(cut) = w
    <3>1. N \in 0..N BY <1>1
    <3>2. QED BY <3>1, <2>2, <2>3, <1>5, <1>8
  <2>5. SumOf(Integral(cut)) = Whole(IntSum(cut))
    <3>1. IsFiniteSet(1..N) BY FS_Interval, <1>1
    <3>2. QED BY <2>1, <3>1, IntSumIs
  <2>6. DOMAIN cut = 1..N BY <2>1
  <2>7. QED BY <2>4, <2>5, <2>6 DEF Integral
<1>9. ASSUME t # 0
      PROVE  \A n \in 1..N : cut[n] >= 0 /\ (buckets[n] = 0 => cut[n] = 0)
  <2> SUFFICES ASSUME NEW n \in 1..N PROVE cut[n] >= 0 /\ (buckets[n] = 0 => cut[n] = 0)
    OBVIOUS
  <2>1. n \in 0..N /\ n - 1 \in 0..N OBVIOUS
  <2>2. cut[n] = E(n) - E(n - 1) /\ cut[n] \in Nat /\ E(n) \in Int /\ E(n - 1) \in Int
    BY <2>1, <1>5, <1>7, <1>9
  <2>3. buckets[n] = 0 => E(n - 1) = E(n) BY <1>5, <1>9
  <2> HIDE DEF cut
  <2>4. QED BY <2>2, <2>3
<1>10. DOMAIN cut = 1..N OBVIOUS
<1> HIDE DEF cut, t
<1>11. bar # <<>> => bar = cut /\ t # 0 BY <1>6
<1>12. bar # <<>> =>
         /\ SumOf([n \in DOMAIN bar |-> Whole(bar[n])]) = Whole(w)
         /\ \A n \in DOMAIN bar : bar[n] >= 0 /\ (buckets[n] = 0 => bar[n] = 0)
  BY <1>8, <1>9, <1>10, <1>11
<1>13. QED BY <1>12 DEF bar, w

\* A price is put on the track, at its end for a target or beyond, and there only
\* within half a cell of it.
LEMMA OnTrack ==
  ASSUME NEW v \in Int, NEW low \in Int, NEW high \in Int, low < high, NEW track \in Nat \ {0}
  PROVE  /\ Position(v, low, high, track) \in 0..(track - 1)
         /\ v >= high => Position(v, low, high, track) = track - 1
         /\ v <= low => Position(v, low, high, track) = 0
         /\ Position(v, low, high, track) = track - 1
              => 2 * (high - v) * (track - 1) <= high - low
         /\ Position(v, low, high, track) = 0 => 2 * (v - low) * (track - 1) <= high - low
<1> DEFINE x == Atleast(v - low, 0)  d == high - low  last == track - 1
           r == Rounded(Frac(x * last, d))
<1>1. /\ x \in Nat /\ d \in Nat \ {0} /\ last \in Nat
      /\ v >= high => x >= d
      /\ v <= low => x = 0
  BY DEF Atleast
<1> HIDE DEF x, d, last
<1>2. x * last \in Int BY <1>1
<1>3. Is(Frac(x * last, d), x * last, d) /\ d > 0 BY <1>1, <1>2, IsFrac
<1>4. r \in Int /\ \A z \in Int : z <= r <=> (2 * z - 1) * d <= 2 * (x * last)
  BY <1>3, RoundedIs
<1>5. v >= high => last <= r
  <2> SUFFICES ASSUME v >= high PROVE last <= r
    OBVIOUS
  <2>1. last * d <= last * x
    <3>1. CASE last = 0 BY <3>1, <1>1
    <3>2. CASE last > 0
      <4>1. d * last <= x * last BY <3>2, <1>1, CancelLess
      <4>2. QED BY <4>1, <1>1
    <3>3. QED BY <3>1, <3>2, <1>1
  <2>2. (2 * last - 1) * d = 2 * (last * d) - d /\ last * d \in Int /\ last * x = x * last
    BY <1>1
  <2>3. (2 * last - 1) * d <= 2 * (x * last) BY <2>1, <2>2, <1>1, <1>2
  <2>4. QED BY <2>3, <1>4, <1>1
<1>6. v <= low => ~(1 <= r)
  <2> SUFFICES ASSUME v <= low PROVE ~(1 <= r)
    OBVIOUS
  <2>1. x * last = 0 BY <1>1
  <2>2. (2 * 1 - 1) * d = d BY <1>1
  <2>3. QED BY <2>1, <2>2, <1>4, <1>1
<1> HIDE DEF r
<1>7. Position(v, low, high, track) = Atleast(0, Atmost(r, last))
  BY DEF Position, r, x, d, last
<1>8. track - 1 = last BY DEF last
<1> DEFINE at == Position(v, low, high, track)
<1>9. at = last => 2 * (high - v) * last <= high - low
  <2> SUFFICES ASSUME at = last PROVE 2 * (high - v) * last <= high - low
    OBVIOUS
  <2>1. last <= r \/ last = 0 BY <1>1, <1>4, <1>7 DEF Atleast, Atmost
  <2>2. CASE last = 0
    <3>1. 2 * (high - v) * 0 = 0 OBVIOUS
    <3>2. QED BY <2>2, <3>1
  <2>3. CASE last > 0 /\ last <= r
    <3>1. (2 * last - 1) * d <= 2 * (x * last) BY <1>1, <1>4, <2>3
    <3>2. x = v - low
      <4>1. x # 0
        <5> SUFFICES ASSUME x = 0 PROVE FALSE
          OBVIOUS
        <5>1. x * last = 0 BY <1>1
        <5>2. (2 * last - 1) * d >= 1 * d
          <6>1. 1 <= 2 * last - 1 /\ 2 * last - 1 \in Int BY <1>1, <2>3
          <6>2. QED BY <1>1, <6>1, CancelLess
        <5>3. QED BY <1>1, <3>1, <5>1, <5>2
      <4>2. QED BY <4>1 DEF x, Atleast
    <3>3. d = high - low /\ high - v = d - x BY <3>2 DEF d
    <3>4. /\ 2 * (d - x) * last = 2 * (last * d) - 2 * (x * last)
          /\ (2 * last - 1) * d = 2 * (last * d) - d
          /\ last * d \in Int
      BY <1>1
    <3>5. QED BY <1>1, <1>2, <3>1, <3>3, <3>4
  <2>4. QED BY <1>1, <2>1, <2>2, <2>3
<1>10. at = 0 => 2 * (v - low) * last <= high - low
  <2> SUFFICES ASSUME at = 0 PROVE 2 * (v - low) * last <= high - low
    OBVIOUS
  <2>1. ~(1 <= r) \/ last = 0 BY <1>1, <1>4, <1>7 DEF Atleast, Atmost
  <2>2. CASE last = 0
    <3>1. 2 * (v - low) * 0 = 0 OBVIOUS
    <3>2. d = high - low BY DEF d
    <3>3. QED BY <1>1, <2>2, <3>1, <3>2
  <2>3. CASE ~(1 <= r)
    <3>1. ~((2 * 1 - 1) * d <= 2 * (x * last)) BY <1>4, <2>3
    <3>2. 2 * (x * last) <= d BY <1>1, <1>2, <3>1
    <3>3. v - low <= x /\ d = high - low BY DEF x, d, Atleast
    <3>4. (v - low) * last <= x * last
      <4>1. CASE last = 0 BY <1>1, <4>1
      <4>2. CASE last > 0
        <5>1. v - low \in Int /\ x \in Int BY <1>1
        <5>2. QED BY <1>1, <3>3, <4>2, <5>1, CancelLess
      <4>3. QED BY <1>1, <4>1, <4>2
    <3>5. 2 * (v - low) * last = 2 * ((v - low) * last) /\ (v - low) * last \in Int BY <1>1
    <3>6. QED BY <1>1, <1>2, <3>2, <3>3, <3>4, <3>5
  <2>4. QED BY <2>1, <2>2, <2>3
<1>11. QED BY <1>1, <1>4, <1>5, <1>6, <1>7, <1>8, <1>9, <1>10 DEF Atleast, Atmost

\* Whatever the votes, the room, the targets and the price, the consensus bar
\* shares out exactly its cells, no rating takes a cell without a vote, and a
\* mark of the price gauge lies on the track, at its end for a target or
\* beyond and there only within half a cell of it (push_consensus_lines, target_gauge).
THEOREM AllBarsFit ==
  ASSUME NEW buckets \in Seq(Nat), NEW width \in Int,
         NEW low \in Int \cup {None}, NEW high \in Int \cup {None},
         NEW mean \in Int \cup {None}, NEW current \in Int \cup {None}
  PROVE  BarsFit(buckets, width, low, high, mean, current)
<1> DEFINE gauge == target_gauge(low, high, mean, current, width, 4)
           track == width - 4 - 2
<1>1. None \notin Int BY FiguresAssumption
<1>2. gauge # None =>
        /\ \A mark \in {gauge.mean, gauge.current} \ {None} : mark \in 0..(gauge.track - 1)
        /\ current # None /\ current >= high => gauge.current = gauge.track - 1
        /\ current # None /\ current <= low => gauge.current = 0
        /\ gauge.current = gauge.track - 1 =>
             2 * (high - current) * (gauge.track - 1) <= high - low
        /\ gauge.current = 0 => 2 * (current - low) * (gauge.track - 1) <= high - low
  <2> SUFFICES ASSUME gauge # None
               PROVE  /\ \A mark \in {gauge.mean, gauge.current} \ {None} :
                           mark \in 0..(gauge.track - 1)
                      /\ current # None /\ current >= high => gauge.current = gauge.track - 1
                      /\ current # None /\ current <= low => gauge.current = 0
                      /\ gauge.current = gauge.track - 1 =>
                           2 * (high - current) * (gauge.track - 1) <= high - low
                      /\ gauge.current = 0 => 2 * (current - low) * (gauge.track - 1) <= high - low
    OBVIOUS
  <2>1. low \in Int /\ high \in Int /\ low < high /\ track \in Nat \ {0}
    BY DEF target_gauge
  <2>2. /\ gauge.track = track
        /\ gauge.mean \in {None, Position(mean, low, high, track)}
        /\ mean = None => gauge.mean = None
        /\ gauge.current = IF current = None THEN None ELSE Position(current, low, high, track)
    BY DEF target_gauge
  <2> HIDE DEF gauge, track
  <2>3. \A v \in Int : /\ Position(v, low, high, track) \in 0..(track - 1)
                       /\ v >= high => Position(v, low, high, track) = track - 1
                       /\ v <= low => Position(v, low, high, track) = 0
                       /\ Position(v, low, high, track) = track - 1
                            => 2 * (high - v) * (track - 1) <= high - low
                       /\ Position(v, low, high, track) = 0
                            => 2 * (v - low) * (track - 1) <= high - low
    BY <2>1, OnTrack
  <2>4. 0 # None /\ track - 1 # None BY <1>1, <2>1
  <2>5. QED BY <2>2, <2>3, <2>4
<1>3. QED BY <1>2, ConsensusBar DEF BarsFit

-----------------------------------------------------------------------------
(***************************************************************************)
(* Least elements                                                          *)
(***************************************************************************)
\* A total and transitive relation has a least element in every finite set.
LEMMA LeastExists ==
  ASSUME NEW A, IsFiniteSet(A), NEW R,
         \A x, y \in A : <<x, y>> \in R \/ <<y, x>> \in R,
         \A x, y, z \in A : <<x, y>> \in R /\ <<y, z>> \in R => <<x, z>> \in R
  PROVE  A # {} => \E x \in A : \A y \in A : <<x, y>> \in R
<1> DEFINE Good == {s \in SUBSET A : s # {} => \E x \in s : \A y \in s : <<x, y>> \in R}
<1>1. {} \in Good OBVIOUS
<1>2. ASSUME NEW s \in SUBSET A, NEW x \in s, s \ {x} \in Good PROVE s \in Good
  <2>1. CASE s \ {x} = {}
    <3>1. \A y \in s : y = x BY <2>1
    <3>2. QED BY <3>1
  <2>2. CASE s \ {x} # {}
    <3>1. PICK m \in s \ {x} : \A y \in s \ {x} : <<m, y>> \in R BY <1>2, <2>2
    <3>2. CASE <<m, x>> \in R BY <3>1, <3>2
    <3>3. CASE <<x, m>> \in R
      <4>1. \A y \in s : <<x, y>> \in R BY <3>1, <3>3
      <4>2. QED BY <4>1
    <3>4. QED BY <3>1, <3>2, <3>3
  <2>3. QED BY <2>1, <2>2
<1>3. Good \in SUBSET SUBSET A OBVIOUS
<1> HIDE DEF Good
<1>4. Good = SUBSET A BY <1>1, <1>2, <1>3, SubsetInduction
<1>5. A \in Good BY <1>4
<1>6. QED BY <1>5 DEF Good

\* So do the values of a list, in both directions.
LEMMA ExtremesExist ==
  ASSUME NEW A, IsFiniteSet(A), NEW f \in [A -> Int], A # {}
  PROVE  /\ \E x \in A : \A y \in A : f[x] <= f[y]
         /\ \E x \in A : \A y \in A : f[y] <= f[x]
<1>1. \E x \in A : \A y \in A : f[x] <= f[y]
  <2> DEFINE R == {p \in A \X A : f[p[1]] <= f[p[2]]}
  <2>1. \A x, y \in A : <<x, y>> \in R <=> f[x] <= f[y] OBVIOUS
  <2> HIDE DEF R
  <2>2. \E x \in A : \A y \in A : <<x, y>> \in R
    <3>1. \A x, y \in A : f[x] \in Int /\ (f[x] <= f[y] \/ f[y] <= f[x]) OBVIOUS
    <3>2. \A x, y \in A : <<x, y>> \in R \/ <<y, x>> \in R BY <2>1, <3>1
    <3>3. \A x, y, z \in A : <<x, y>> \in R /\ <<y, z>> \in R => <<x, z>> \in R
      BY <2>1, <3>1
    <3>4. QED BY <3>2, <3>3, LeastExists
  <2>3. QED BY <2>1, <2>2
<1>2. \E x \in A : \A y \in A : f[y] <= f[x]
  <2> DEFINE R == {p \in A \X A : f[p[2]] <= f[p[1]]}
  <2>1. \A x, y \in A : <<x, y>> \in R <=> f[y] <= f[x] OBVIOUS
  <2> HIDE DEF R
  <2>2. \E x \in A : \A y \in A : <<x, y>> \in R
    <3>1. \A x, y \in A : f[x] \in Int /\ (f[x] <= f[y] \/ f[y] <= f[x]) OBVIOUS
    <3>2. \A x, y \in A : <<x, y>> \in R \/ <<y, x>> \in R BY <2>1, <3>1
    <3>3. \A x, y, z \in A : <<x, y>> \in R /\ <<y, z>> \in R => <<x, z>> \in R
      BY <2>1, <3>1
    <3>4. QED BY <3>2, <3>3, LeastExists
  <2>3. QED BY <2>1, <2>2
<1>3. QED BY <1>1, <1>2

LEMMA ListIs ==
  ASSUME NEW T, NEW n \in Nat, NEW f \in [1..n -> T]
  PROVE  f \in Seq(T) /\ Len(f) = n /\ DOMAIN f = 1..n
OBVIOUS

LEMMA SeqSame ==
  ASSUME NEW T, NEW s \in Seq(T), NEW t \in Seq(T), Len(s) = Len(t),
         \A i \in 1..Len(s) : s[i] = t[i]
  PROVE  s = t
OBVIOUS

LEMMA SubSeqIs ==
  ASSUME NEW T, NEW s \in Seq(T), NEW a \in Nat, a >= 1, a <= Len(s) + 1
  PROVE  /\ SubSeq(s, a, Len(s)) \in Seq(T) /\ Len(SubSeq(s, a, Len(s))) = Len(s) - a + 1
         /\ \A j \in 1..(Len(s) - a + 1) : SubSeq(s, a, Len(s))[j] = s[a + j - 1]
OBVIOUS

LEMMA ExtremesAre ==
  ASSUME NEW s \in Seq(Int), s # <<>>
  PROVE  /\ Lowest(s) \in Int /\ Highest(s) \in Int
         /\ \A i \in DOMAIN s : Lowest(s) <= s[i] /\ s[i] <= Highest(s)
         /\ \E i \in DOMAIN s : s[i] = Lowest(s)
         /\ \E i \in DOMAIN s : s[i] = Highest(s)
<1> DEFINE A == DOMAIN s  V == {s[i] : i \in A}
<1>1. A = 1..Len(s) /\ Len(s) \in Nat /\ s \in [A -> Int] /\ A # {}
  <2>1. A = 1..Len(s) /\ Len(s) \in Nat /\ s \in [A -> Int] OBVIOUS
  <2>2. Len(s) # 0 OBVIOUS
  <2>3. 1 \in 1..Len(s) BY <2>1, <2>2
  <2>4. QED BY <2>1, <2>3
<1>2. IsFiniteSet(A)
  <2> HIDE DEF A
  <2>1. 1 \in Int /\ Len(s) \in Int /\ A = 1..Len(s) BY <1>1
  <2>2. QED BY ONLY <2>1, FS_Interval
<1>3. /\ \E x \in A : \A y \in A : s[x] <= s[y]
      /\ \E x \in A : \A y \in A : s[y] <= s[x]
  BY <1>1, <1>2, ExtremesExist
<1>4. \E v \in V : \A i \in A : v <= s[i] BY <1>3
<1>5. \E v \in V : \A i \in A : s[i] <= v BY <1>3
<1>6. Lowest(s) \in V /\ \A i \in A : Lowest(s) <= s[i] BY <1>4 DEF Lowest
<1>7. Highest(s) \in V /\ \A i \in A : s[i] <= Highest(s) BY <1>5 DEF Highest
<1>8. QED BY <1>1, <1>6, <1>7

LEMMA MinOfInts ==
  ASSUME NEW A \in SUBSET Int, IsFiniteSet(A), A # {}
  PROVE  /\ \E x \in A : \A y \in A : x <= y
         /\ \E x \in A : \A y \in A : y <= x
<1> DEFINE f == [x \in A |-> x]
<1>1. f \in [A -> Int] /\ \A x \in A : f[x] = x OBVIOUS
<1> HIDE DEF f
<1>2. /\ \E x \in A : \A y \in A : f[x] <= f[y]
      /\ \E x \in A : \A y \in A : f[y] <= f[x]
  BY <1>1, ExtremesExist
<1>3. QED BY <1>1, <1>2

-----------------------------------------------------------------------------
(***************************************************************************)
(* Ticks, entries and earnings                                             *)
(***************************************************************************)
\* A figure that may be missing, and the rows and ticks that hold such.
Figure == Int \cup {None}
Quote(T) == [ticker : T, price : Figure, previous_close : Figure, volume : Figure]
Update == [price : Figure, previous_close : Figure, volume : Figure]

\* Whatever a tick carries, it erases no price, previous close or volume of a
\* row, and the flash is the move the price made (QuoteTick::apply, record_flash).
THEOREM AllTicksAdd ==
  ASSUME NEW T, NEW row \in Quote(T), NEW tick \in Update
  PROVE  TicksOnlyAdd(row, tick)
<1>1. None \notin Int BY FiguresAssumption
<1>2. \A v \in Figure : v # None => v \in Int BY DEF Figure
<1>3. /\ row.price \in Figure /\ row.volume \in Figure /\ row.previous_close \in Figure
      /\ tick.price \in Figure /\ tick.volume \in Figure /\ tick.previous_close \in Figure
  BY DEF Quote, Update
<1> DEFINE after == apply(tick, row)
<1>4. /\ after.price = IF tick.price # None THEN tick.price ELSE row.price
      /\ after.previous_close = IF tick.previous_close # None THEN tick.previous_close
                                ELSE row.previous_close
      /\ after.volume = IF tick.volume # None /\ tick.volume > 0 THEN tick.volume ELSE row.volume
  BY <1>1 DEF apply, Or, positive_volume, Quote
<1> HIDE DEF after
<1>5. \A f \in {"price", "previous_close", "volume"} : row[f] # None => after[f] # None
  BY <1>4
<1>6. tick.volume = 0 => after.volume = row.volume BY <1>4
<1>7. record_flash(tick, row) # None => after.price = row.price + record_flash(tick, row)
  BY <1>2, <1>3, <1>4 DEF record_flash
<1>8. QED BY <1>5, <1>6, <1>7 DEF TicksOnlyAdd, after

LEMMA SeqIs ==
  ASSUME NEW T, NEW s \in Seq(T)
  PROVE  /\ Len(s) \in Nat /\ DOMAIN s = 1..Len(s)
         /\ s \in [1..Len(s) -> T] /\ \A i \in 1..Len(s) : s[i] \in T
         /\ s # <<>> <=> Len(s) > 0
         /\ Len(s) > 0 => /\ Len(Tail(s)) = Len(s) - 1
                          /\ \A i \in 1..(Len(s) - 1) : Tail(s)[i] = s[i + 1]
OBVIOUS

\* Whatever is typed, an entry that is accepted is a holding with shares and a
\* cost that is not negative or an alert with a threshold above zero, and never
\* both (parse_holding_entry, parse_alert_entry).
THEOREM AllEntriesSound ==
  ASSUME NEW K, NEW fields \in Seq([kind : K, value : Int])
  PROVE  EntriesAreSound(fields)
<1> DEFINE h == parse_holding_entry(fields)  rest == Tail(fields)
<1>0. /\ Len(fields) \in Nat /\ \A i \in 1..Len(fields) : fields[i].value \in Int
      /\ Len(fields) > 0 => /\ Len(rest) = Len(fields) - 1
                            /\ \A i \in 1..(Len(fields) - 1) : rest[i] = fields[i + 1]
  <2>1. \A f \in [kind : K, value : Int] : f.value \in Int OBVIOUS
  <2>2. QED BY <2>1, SeqIs
<1> HIDE DEF rest
<1>1. CASE Len(fields) < 2
  <2>1. h.error # "none" BY <1>1 DEF parse_holding_entry
  <2>2. \A operator : parse_alert_entry(fields, operator) # "none"
    BY <1>1 DEF parse_alert_entry
  <2>3. QED BY <2>1, <2>2 DEF EntriesAreSound
<1>2. CASE ~(Len(fields) < 2)
  <2>1. h = parse_holding_input(rest) BY <1>2 DEF parse_holding_entry, rest
  <2>2. Len(rest) = Len(fields) - 1 /\ Len(fields) \in Nat BY <1>0, <1>2
  <2>3. h.error = "none" => h.shares > 0 /\ h.avg_cost >= 0 /\ Len(fields) = 3
    <3> SUFFICES ASSUME h.error = "none"
                 PROVE  h.shares > 0 /\ h.avg_cost >= 0 /\ Len(fields) = 3
      OBVIOUS
    <3>1. Len(rest) = 2 BY <2>1 DEF parse_holding_input
    <3> HIDE DEF h
    <3>2. Len(fields) = 3
      <4>1. \A n \in Nat : n - 1 = 2 => n = 3 OBVIOUS
      <4>2. QED BY <4>1, <3>1, <2>2
    <3>3. rest[1] = fields[2] /\ rest[2] = fields[3] BY <1>0, <3>2
    <3>4. rest[1].value \in Int /\ rest[2].value \in Int BY <1>0, <3>2, <3>3
    <3>5. ~(rest[1].value <= 0) /\ ~(rest[2].value < 0)
      BY <2>1, <3>1 DEF h, parse_holding_input
    <3>6. h.shares = rest[1].value /\ h.avg_cost = rest[2].value
      BY <2>1, <3>1 DEF h, parse_holding_input
    <3>7. QED BY <3>2, <3>4, <3>5, <3>6
  <2>4. ASSUME NEW operator, parse_alert_entry(fields, operator) = "none"
        PROVE  operator # None /\ fields[2].value > 0 /\ h.error # "none"
    <3>1. /\ Len(fields) = 2 /\ operator # None /\ ~(fields[2].value <= 0)
      BY <2>4 DEF parse_alert_entry
    <3>2. fields[2].value \in Int BY <1>0, <3>1
    <3>3. Len(rest) # 2 BY <2>2, <3>1
    <3>4. h.error # "none" BY <2>1, <3>3 DEF parse_holding_input
    <3>5. QED BY <3>1, <3>2, <3>4
  <2>5. QED BY <2>3, <2>4 DEF EntriesAreSound
<1>3. QED BY <1>1, <1>2

LEMMA LastIs ==
  ASSUME NEW T, NEW s \in Seq(T), NEW n \in Nat
  PROVE  /\ Last_n(s, n) \in Seq(T)
         /\ Len(Last_n(s, n)) = Atmost(n, Len(s))
         /\ \A i \in 1..Len(Last_n(s, n)) : Last_n(s, n)[i] = s[Len(s) - Len(Last_n(s, n)) + i]
<1> DEFINE a == IF Len(s) > n THEN Len(s) - n + 1 ELSE 1
<1>1. a \in 1..(Len(s) + 1) /\ Len(s) \in Nat /\ Len(s) - a + 1 = Atmost(n, Len(s))
  BY DEF Atmost
<1>2. Last_n(s, n) = SubSeq(s, a, Len(s)) BY DEF Last_n
<1> HIDE DEF a
<1>3. /\ SubSeq(s, a, Len(s)) \in Seq(T)
      /\ Len(SubSeq(s, a, Len(s))) = Len(s) - a + 1
      /\ \A i \in 1..(Len(s) - a + 1) : SubSeq(s, a, Len(s))[i] = s[a + i - 1]
  BY <1>1
<1>4. \A i \in 1..(Len(s) - a + 1) : a + i - 1 = Len(s) - (Len(s) - a + 1) + i BY <1>1
<1>5. QED BY <1>1, <1>2, <1>3, <1>4

\* The modal of earnings shows the newest quarters first, a beat is positive
\* also of an estimate below zero, and the next report is not over
\* (fetch_earnings, surprise_pct, next_report_date).
THEOREM AllEarningsNewest ==
  ASSUME NEW quarters \in Seq(Int), NEW keep \in Nat, NEW estimate \in Figure \cup {NotFinite},
         NEW actual \in Figure \cup {NotFinite}, NEW now \in Int
  PROVE  EarningsAreNewest(quarters, keep, estimate, actual, now)
<1> DEFINE shown == Newest(quarters, keep)  some == Last_n(quarters, keep)
           surprise == surprise_pct(estimate, actual)
           report == next_report_date(quarters, now)
<1>1. /\ Len(shown) = Atmost(keep, Len(quarters))
      /\ \A n \in DOMAIN shown : shown[n] = quarters[Len(quarters) - n + 1]
  <2>1. /\ some \in Seq(Int) /\ Len(some) = Atmost(keep, Len(quarters))
        /\ \A i \in 1..Len(some) : some[i] = quarters[Len(quarters) - Len(some) + i]
    BY LastIs
  <2>2. shown = [n \in DOMAIN some |-> some[Len(some) - n + 1]] BY DEF Newest
  <2> HIDE DEF some, shown
  <2>3. DOMAIN some = 1..Len(some) /\ Len(some) \in Nat /\ Len(quarters) \in Nat BY <2>1
  <2>4. shown = [n \in 1..Len(some) |-> some[Len(some) - n + 1]] BY <2>2, <2>3
  <2>5. Len(shown) = Len(some) /\ DOMAIN shown = 1..Len(some) BY <2>3, <2>4
  <2>6. ASSUME NEW n \in 1..Len(some)
        PROVE  some[Len(some) - n + 1] = quarters[Len(quarters) - n + 1]
    <3>1. Len(some) - n + 1 \in 1..Len(some) BY <2>3
    <3>2. Len(quarters) - Len(some) + (Len(some) - n + 1) = Len(quarters) - n + 1 BY <2>3
    <3>3. QED BY <2>1, <3>1, <3>2
  <2>7. QED BY <2>1, <2>4, <2>5, <2>6
<1>2. surprise # None => (Less(Zero, surprise) <=> actual > estimate)
  <2> SUFFICES ASSUME surprise # None PROVE Less(Zero, surprise) <=> actual > estimate
    OBVIOUS
  <2>1. estimate \in Int \ {0} /\ actual \in Int BY DEF surprise_pct, Figure
  <2> DEFINE e == Magnitude(estimate)  d == actual - estimate
  <2>2. e \in Nat \ {0} /\ d \in Int BY <2>1 DEF Magnitude
  <2>3. Size(Whole(estimate)) = Whole(e) BY DEF Size, Whole
  <2>4. surprise = Times(Over(Whole(d), Whole(e)), Whole(100)) BY <2>1, <2>3 DEF surprise_pct
  <2> HIDE DEF e, d
  <2>5. Is(Whole(d), d, 1) /\ Is(Whole(e), e, 1) /\ Is(Whole(100), 100, 1) BY <2>2, WholeIs
  <2>6. Is(Over(Whole(d), Whole(e)), d * 1, 1 * e) BY <2>2, <2>5, IsTimes
  <2>7. Is(surprise, (d * 1) * 100, (1 * e) * 1) BY <2>4, <2>5, <2>6, IsTimes
  <2>8. (1 * e) * 1 = e /\ (d * 1) * 100 = 100 * d BY <2>2
  <2>9. Is(surprise, 100 * d, e) BY <2>7, <2>8
  <2> HIDE DEF surprise
  <2>10. Less(Zero, surprise) <=> 0 * e < (100 * d) * 1 BY <2>2, <2>9, Numbers, IsOrder
  <2>11. d > 0 <=> actual > estimate BY <2>1 DEF d
  <2>12. QED BY <2>2, <2>10, <2>11
<1>3. report # None => /\ now <= report
                       /\ \A i \in DOMAIN quarters : ~(quarters[i] \in now..(report - 1))
  <2> DEFINE Later == {quarters[i] : i \in {j \in DOMAIN quarters : quarters[j] >= now}}
             J == {j \in DOMAIN quarters : quarters[j] >= now}
  <2>1. report = IF Later = {} THEN None ELSE CHOOSE d \in Later : \A e \in Later : d <= e
    BY DEF next_report_date
  <2>2. quarters \in [1..Len(quarters) -> Int] /\ Len(quarters) \in Nat
        /\ DOMAIN quarters = 1..Len(quarters)
    OBVIOUS
  <2>3. IsFiniteSet(J)
    <3>1. IsFiniteSet(1..Len(quarters)) BY <2>2, FS_Interval
    <3>2. J \in SUBSET (1..Len(quarters)) BY <2>2
    <3>3. QED BY <3>1, <3>2, FS_Subset
  <2>4. J # {} => \E x \in J : \A y \in J : quarters[x] <= quarters[y]
    <3> DEFINE f == [j \in J |-> quarters[j]]
    <3>1. f \in [J -> Int] BY <2>2
    <3>2. \A j \in J : f[j] = quarters[j] OBVIOUS
    <3> HIDE DEF f, J
    <3>3. J # {} => \E x \in J : \A y \in J : f[x] <= f[y] BY <2>3, <3>1, ExtremesExist
    <3>4. QED BY <3>2, <3>3
  <2>5. Later # {} => report \in Later /\ \A e \in Later : report <= e
    <3> SUFFICES ASSUME Later # {} PROVE report \in Later /\ \A e \in Later : report <= e
      OBVIOUS
    <3>1. J # {} OBVIOUS
    <3>2. \E d \in Later : \A e \in Later : d <= e BY <2>4, <3>1
    <3> HIDE DEF Later, report
    <3>3. QED BY <2>1, <3>2
  <2>6. \A i \in DOMAIN quarters : quarters[i] \in Int /\ (quarters[i] >= now => quarters[i] \in Later)
    BY <2>2
  <2>7. \A d \in Later : d \in Int /\ now <= d BY <2>2
  <2> HIDE DEF Later, report
  <2>8. Later = {} => report = None BY <2>1
  <2> SUFFICES ASSUME report # None
               PROVE  /\ now <= report
                      /\ \A i \in DOMAIN quarters : ~(quarters[i] \in now..(report - 1))
    OBVIOUS
  <2>9. report \in Int /\ now <= report /\ \A e \in Later : report <= e BY <2>5, <2>7, <2>8
  <2>10. ASSUME NEW i \in DOMAIN quarters PROVE ~(quarters[i] \in now..(report - 1))
    BY <2>6, <2>9
  <2>11. QED BY <2>9, <2>10
<1>4. QED BY <1>1, <1>2, <1>3 DEF EarningsAreNewest

-----------------------------------------------------------------------------
(***************************************************************************)
(* Bands and bars                                                          *)
(***************************************************************************)
LEMMA Quotients ==
  ASSUME NEW m \in Int, NEW n \in Int, NEW d \in Nat \ {0}
  PROVE  /\ Rounded(Frac(n, d)) \in Int
         /\ m <= n => Rounded(Frac(m, d)) <= Rounded(Frac(n, d))
         /\ Rounded(Frac(n * d, d)) = n
<1>1. \A k \in Int : Is(Frac(k, d), k, d) /\ d > 0 BY IsFrac
<1>2. \A k \in Int : /\ Rounded(Frac(k, d)) \in Int
                     /\ \A z \in Int : z <= Rounded(Frac(k, d)) <=> (2 * z - 1) * d <= 2 * k
  BY <1>1, RoundedIs
<1>3. m <= n => Rounded(Frac(m, d)) <= Rounded(Frac(n, d))
  <2> DEFINE z == Rounded(Frac(m, d))
  <2>1. z \in Int /\ (2 * z - 1) * d <= 2 * m BY <1>2
  <2>2. (2 * z - 1) * d \in Int BY <2>1
  <2>3. z <= Rounded(Frac(n, d)) <=> (2 * z - 1) * d <= 2 * n BY <1>2, <2>1
  <2> HIDE DEF z
  <2>4. m <= n => (2 * z - 1) * d <= 2 * n BY <2>1, <2>2
  <2>5. QED BY <2>3, <2>4 DEF z
<1>4. Rounded(Frac(n * d, d)) = n
  <2>1. n * d \in Int OBVIOUS
  <2>2. Is(Frac(n * d, d), n, 1)
    <3>1. (n * d) * 1 = n * d BY <2>1
    <3>2. QED BY <1>1, <2>1, <3>1, IsScaled
  <2>3. Is(Whole(n), n, 1) BY WholeIs
  <2>4. Frac(n * d, d) = Whole(n) BY <2>2, <2>3, IsSame
  <2>5. QED BY <2>4, RoundedWhole
<1>5. QED BY <1>2, <1>3, <1>4

\* Values as steps of a band keep their order and use all of it.
LEMMA ScaledIs ==
  ASSUME NEW s \in Seq(Int), s # <<>>, NEW steps \in Nat
  PROVE  /\ Scaled(s, steps) \in [1..Len(s) -> 0..steps]
         /\ \A i, j \in 1..Len(s) : s[i] <= s[j] => Scaled(s, steps)[i] <= Scaled(s, steps)[j]
         /\ (\E i, j \in 1..Len(s) : s[i] # s[j]) =>
              /\ \E i \in 1..Len(s) : Scaled(s, steps)[i] = 0
              /\ \E i \in 1..Len(s) : Scaled(s, steps)[i] = steps
<1> DEFINE lo == Lowest(s)  hi == Highest(s)  span == hi - lo
           R(i) == Rounded(Frac((s[i] - lo) * steps, span))
           t == Scaled(s, steps)
<1>1. DOMAIN s = 1..Len(s) /\ \A i \in 1..Len(s) : s[i] \in Int BY SeqIs
<1>2. /\ lo \in Int /\ hi \in Int
      /\ \A i \in 1..Len(s) : lo <= s[i] /\ s[i] <= hi
      /\ \E i \in 1..Len(s) : s[i] = lo
      /\ \E i \in 1..Len(s) : s[i] = hi
  BY <1>1, ExtremesAre
<1>3. t = [i \in 1..Len(s) |-> IF span = 0 THEN 0 ELSE R(i)] BY <1>1 DEF Scaled
<1> HIDE DEF lo, hi, t
<1>4. CASE span = 0
  <2>1. \A i \in 1..Len(s) : s[i] = lo BY <1>1, <1>2, <1>4
  <2>2. ~\E i, j \in 1..Len(s) : s[i] # s[j] BY <2>1
  <2>3. t = [i \in 1..Len(s) |-> 0] BY <1>3, <1>4
  <2>4. t \in [1..Len(s) -> 0..steps] /\ \A i, j \in 1..Len(s) : t[i] <= t[j] BY <2>3
  <2>5. QED BY <2>2, <2>4 DEF t
<1>5. CASE span # 0
  <2>1. span \in Nat \ {0} BY <1>1, <1>2, <1>5
  <2>2. ASSUME NEW i \in 1..Len(s), NEW j \in 1..Len(s), s[i] <= s[j]
        PROVE  R(i) \in Int /\ R(i) <= R(j)
    <3> DEFINE a == s[i] - lo  b == s[j] - lo
    <3>1. a \in Int /\ b \in Int /\ a <= b BY <1>1, <1>2, <2>2
    <3> HIDE DEF a, b, span
    <3>2. a * steps <= b * steps /\ a * steps \in Int /\ b * steps \in Int
      <4>1. CASE steps = 0 BY <3>1, <4>1
      <4>2. CASE steps > 0 BY <3>1, <4>2, CancelLess
      <4>3. QED BY <4>1, <4>2
    <3>3. Rounded(Frac(a * steps, span)) <= Rounded(Frac(b * steps, span))
          /\ Rounded(Frac(a * steps, span)) \in Int
      BY <2>1, <3>2, Quotients
    <3>4. QED BY <3>3 DEF a, b
  <2>3. ASSUME NEW i \in 1..Len(s), s[i] = lo PROVE R(i) = 0
    <3>1. s[i] - lo = 0 BY <1>2, <2>3
    <3>2. 0 * steps = 0 * span /\ 0 \in Int BY <2>1
    <3> HIDE DEF span
    <3>3. Rounded(Frac(0 * span, span)) = 0 BY <2>1, <3>2, Quotients
    <3>4. QED BY <3>1, <3>2, <3>3
  <2>4. ASSUME NEW i \in 1..Len(s), s[i] = hi PROVE R(i) = steps
    <3>1. s[i] - lo = span BY <2>4
    <3>2. steps \in Int OBVIOUS
    <3> HIDE DEF span
    <3>3. span * steps = steps * span BY <2>1
    <3>4. Rounded(Frac(steps * span, span)) = steps BY <2>1, <3>2, Quotients
    <3>5. QED BY <3>1, <3>3, <3>4
  <2>5. t = [i \in 1..Len(s) |-> R(i)] BY <1>3, <1>5
  <2> HIDE DEF R, span
  <2>6. ASSUME NEW i \in 1..Len(s) PROVE R(i) \in 0..steps
    <3>1. PICK a \in 1..Len(s) : s[a] = lo BY <1>2
    <3>2. PICK b \in 1..Len(s) : s[b] = hi BY <1>2
    <3>3. R(a) = 0 /\ R(b) = steps BY <2>3, <2>4, <3>1, <3>2
    <3>4. s[a] <= s[i] /\ s[i] <= s[b] /\ s[i] <= s[i] BY <1>1, <1>2, <3>1, <3>2
    <3>5. R(a) <= R(i) /\ R(i) <= R(b) /\ R(i) \in Int BY <2>2, <3>4
    <3>6. QED BY <3>3, <3>5
  <2>7. t \in [1..Len(s) -> 0..steps] BY <2>5, <2>6
  <2>8. \A i, j \in 1..Len(s) : s[i] <= s[j] => t[i] <= t[j] BY <2>2, <2>5
  <2>9. (\E i \in 1..Len(s) : t[i] = 0) /\ (\E i \in 1..Len(s) : t[i] = steps)
    BY <1>2, <2>3, <2>4, <2>5
  <2>10. QED BY <2>7, <2>8, <2>9 DEF t
<1>6. QED BY <1>4, <1>5

LEMMA SizeIs ==
  ASSUME NEW f \in Fraction
  PROVE  /\ Size(f) \in Fraction /\ Size(f)[1] \in Nat
         /\ Is(Size(f), Magnitude(f[1]), f[2]) /\ Magnitude(f[1]) \in Nat
         /\ f = Zero <=> Size(f) = Zero
<1>1. PICK x, y \in Int : f[1] * x + f[2] * y = 1 BY FractionIs
<1>2. f[1] \in Int /\ f[2] \in Nat \ {0} BY FractionIs
<1> DEFINE p == f[1]  q == f[2]  m == Magnitude(p)
<1>3. m \in Nat /\ m \in {p, -p} /\ (m = 0 <=> p = 0) BY <1>2 DEF Magnitude
<1>4. Size(f) = <<m, q>> BY DEF Size
<1> HIDE DEF p, q, m
<1>5. \E u, v \in Int : m * u + q * v = 1
  <2>0. p \in Int /\ q \in Int /\ p * x + q * y = 1 BY <1>1, <1>2 DEF p, q
  <2>1. CASE m = p BY <2>0, <2>1
  <2>2. CASE m = -p
    <3>1. -x \in Int /\ m * (-x) + q * y = 1 BY <2>0, <2>2
    <3>2. QED BY <3>1
  <2>3. QED BY <1>3, <2>1, <2>2
<1>6. Size(f) \in Fraction
  <2>1. <<m, q>> \in Int \X (Nat \ {0}) BY <1>2, <1>3 DEF q
  <2>2. <<m, q>>[1] = m /\ <<m, q>>[2] = q OBVIOUS
  <2>3. QED BY <1>4, <1>5, <2>1, <2>2 DEF Fraction
<1>7. Size(f)[1] = m /\ Size(f)[2] = q BY <1>4
<1>8. Is(Size(f), m, q) BY <1>6, <1>7, IsOwn
<1>9. f = Zero <=> Size(f) = Zero
  <2>1. f # Zero <=> p # 0 BY FieldTypes DEF p
  <2>2. Size(f) # Zero <=> m # 0 BY <1>6, <1>7, FieldTypes
  <2>3. QED BY <1>3, <2>1, <2>2
<1>10. QED BY <1>3, <1>6, <1>7, <1>8, <1>9 DEF m, p, q

\* A bar has at most its width, and all of it for the greatest value.
LEMMA BarIs ==
  ASSUME NEW p \in Fraction, NEW top \in Fraction, NEW width \in Nat
  PROVE  /\ bar_cells(p, top, width) \in 0..width
         /\ Less(Zero, top) /\ AtMost(top, Size(p)) => bar_cells(p, top, width) = width
<1>1. CASE width = 0
  <2>1. bar_cells(p, top, width) = 0 BY <1>1 DEF bar_cells
  <2>2. QED BY <1>1, <2>1
<1>2. CASE AtMost(top, Zero)
  <2>1. bar_cells(p, top, width) = 0 BY <1>2 DEF bar_cells
  <2>2. ~Less(Zero, top) BY <1>2, Numbers, OrderLaws
  <2>3. QED BY <2>1, <2>2
<1>3. CASE width # 0 /\ ~AtMost(top, Zero)
  <2> DEFINE r == Over(Size(p), top)  f == Least(r, One)  b == Times(f, Whole(width))
  <2>1. bar_cells(p, top, width) = Rounded(b) BY <1>3 DEF bar_cells, Extent
  <2>2. top[1] \in Int /\ top[2] \in Int /\ top[2] > 0 /\ Is(top, top[1], top[2])
    BY FractionIs, IsOwn
  <2>3. Is(Zero, 0, 1) /\ Is(One, 1, 1) /\ Is(Whole(width), width, 1) BY Numbers, WholeIs
  <2>4. top[1] > 0
    <3>1. AtMost(top, Zero) <=> top[1] * 1 <= 0 * top[2] BY <2>2, <2>3, IsOrder
    <3>2. QED BY <1>3, <2>2, <3>1
  <2> DEFINE m == Size(p)[1]  q == Size(p)[2]  u == top[1]  v == top[2]
  <2>5. m \in Nat /\ q \in Nat \ {0} /\ Is(Size(p), m, q) /\ Size(p) \in Fraction
    <3>1. Size(p) \in Fraction /\ Size(p)[1] \in Nat BY SizeIs
    <3>2. QED BY <3>1, FractionIs, IsOwn
  <2>6. Is(r, m * v, q * u) /\ m * v \in Nat /\ q * u \in Nat \ {0}
    <3>1. u # 0 BY <2>4
    <3>2. Is(r, m * v, q * u) BY <2>2, <2>5, <3>1, IsTimes
    <3>3. u \in Nat \ {0} /\ v \in Nat BY <2>2, <2>4
    <3> HIDE DEF m, q, u, v
    <3>4. m * v \in Nat /\ q * u \in Nat \ {0} BY <2>5, <3>3
    <3>5. QED BY <3>2, <3>4
  <2>7. AtMost(top, Size(p)) => AtMost(One, r)
    <3>1. AtMost(top, Size(p)) <=> u * q <= m * v BY <2>2, <2>5, IsOrder
    <3>2. AtMost(One, r) <=> 1 * (q * u) <= (m * v) * 1 BY <2>3, <2>6, IsOrder
    <3>3. u * q = q * u BY <2>2, <2>5
    <3> HIDE DEF r
    <3>4. QED BY <2>6, <3>1, <3>2, <3>3
  <2> HIDE DEF m, q, u, v
  <2>8. PICK n \in Nat, d \in Nat \ {0} : Is(f, n, d) /\ n <= d
    <3>1. CASE Less(One, r)
      <4>1. f = One BY <3>1 DEF Least
      <4>2. QED BY <2>3, <4>1
    <3>2. CASE ~Less(One, r)
      <4>1. f = r BY <3>2 DEF Least
      <4>2. Less(One, r) <=> 1 * (q * u) < (m * v) * 1 BY <2>3, <2>6, IsOrder
      <4>3. m * v <= q * u BY <2>6, <3>2, <4>2
      <4>4. QED BY <2>6, <4>1, <4>3
    <3>3. QED BY <3>1, <3>2
  <2> HIDE DEF f
  <2>9. Is(b, n * width, d * 1) BY <2>3, <2>8, IsTimes
  <2>10. n * width \in Nat /\ n * width <= d * width /\ d * 1 = d /\ d * width \in Nat
    <3>1. n * width <= d * width
      <4>1. width \in Int /\ width > 0 BY <1>3
      <4>2. QED BY <4>1, <2>8, CancelLess
    <3>2. QED BY <3>1, <2>8
  <2>11. Is(b, n * width, d) /\ d > 0 BY <2>9, <2>10
  <2>12. /\ AtMost(Zero, b) <=> 0 * d <= (n * width) * 1
         /\ AtMost(b, Whole(width)) <=> (n * width) * 1 <= width * d
    BY <2>3, <2>11, IsOrder
  <2>13. 0 * d = 0 /\ (n * width) * 1 = n * width /\ width * d = d * width BY <2>8
  <2>14. AtMost(Zero, b) /\ AtMost(b, Whole(width)) BY <2>10, <2>12, <2>13
  <2>15. b \in Fraction BY <2>11 DEF Is
  <2> HIDE DEF b
  <2>16. Rounded(Zero) <= Rounded(b) /\ Rounded(b) <= Rounded(Whole(width))
         /\ Rounded(b) \in Int
    BY <2>14, <2>15, Numbers, WholeIs, RoundedLaws
  <2>17. Rounded(Zero) = 0 /\ Rounded(Whole(width)) = width BY RoundedWhole DEF Zero
  <2>18. ASSUME AtMost(top, Size(p)) PROVE Rounded(b) = width
    <3>1. AtMost(One, r) /\ r \in Fraction BY <2>6, <2>7, <2>18 DEF Is
    <3>2. f = One
      <4>1. r = One \/ Less(One, r) BY <3>1, Numbers, OrderLaws
      <4>2. QED BY <4>1 DEF f, Least
    <3>3. b = Times(One, Whole(width)) BY <3>2 DEF b
    <3>4. Times(Whole(1), Whole(width)) = Whole(1 * width) /\ 1 * width = width BY WholeOrder
    <3>5. QED BY <2>17, <3>3, <3>4 DEF One
  <2>19. QED BY <2>1, <2>16, <2>17, <2>18
<1>4. QED BY <1>1, <1>2, <1>3

-----------------------------------------------------------------------------
(***************************************************************************)
(* Charts and modals                                                       *)
(***************************************************************************)
\* Whatever revenues the provider lists, the greatest, above zero, fills its
\* bar, no other is longer, and a quarter without a figure has none
\* (EarningsScreen).
THEOREM AllBarsCompare ==
  ASSUME NEW revenue \in Seq(Figure)
  PROVE  RevenueBarsCompare(revenue)
<1> DEFINE screen == EarningsScreen(<<>>, revenue, FALSE)
           known == {i \in DOMAIN revenue : revenue[i] # None}
           V == {0} \cup {revenue[i] : i \in known}
           top == CHOOSE m \in V : m >= 0 /\ \A i \in known : revenue[i] <= m
           bar == screen.revenue
<1>0. None \notin Int BY FiguresAssumption
<1>1. SUFFICES ASSUME revenue # <<>> PROVE RevenueBarsCompare(revenue)
  BY DEF RevenueBarsCompare
<1>2. /\ DOMAIN revenue = 1..Len(revenue) /\ Len(revenue) \in Nat
      /\ \A i \in known : revenue[i] \in Int
  <2>1. /\ DOMAIN revenue = 1..Len(revenue) /\ Len(revenue) \in Nat
        /\ \A i \in 1..Len(revenue) : revenue[i] \in Figure
    BY SeqIs
  <2>2. QED BY <2>1 DEF Figure
<1>3. IsFiniteSet(known)
  <2>1. IsFiniteSet(1..Len(revenue)) BY <1>2, FS_Interval
  <2>2. known \in SUBSET (1..Len(revenue)) BY <1>2
  <2>3. QED BY <2>1, <2>2, FS_Subset
<1>4. \E m \in V : m >= 0 /\ \A i \in known : revenue[i] <= m
  <2>1. CASE known = {} BY <2>1
  <2>2. CASE known # {}
    <3> DEFINE f == [i \in known |-> revenue[i]]
    <3>1. f \in [known -> Int] /\ \A i \in known : f[i] = revenue[i] BY <1>2
    <3> HIDE DEF f, known
    <3>2. \E x \in known : \A y \in known : f[y] <= f[x] BY <1>3, <2>2, <3>1, ExtremesExist
    <3>3. PICK x \in known : \A y \in known : revenue[y] <= revenue[x] BY <3>1, <3>2
    <3>4. CASE revenue[x] >= 0 BY <3>3, <3>4
    <3>5. CASE ~(revenue[x] >= 0)
      <4>1. \A y \in known : revenue[y] <= 0 BY <1>2, <3>3, <3>5
      <4>2. QED BY <4>1
    <3>6. QED BY <3>4, <3>5
  <2>3. QED BY <2>1, <2>2
<1>5. top \in V /\ top >= 0 /\ \A i \in known : revenue[i] <= top BY <1>4
<1>6. screen.message = None BY <1>1 DEF EarningsScreen
<1>7. bar = [i \in DOMAIN revenue |->
               IF revenue[i] = None THEN 0 ELSE bar_cells(Whole(revenue[i]), Whole(top), 12)]
  BY DEF EarningsScreen
<1>8. top \in Int BY <1>2, <1>5
<1> HIDE DEF screen, bar, top, V
<1>9. ASSUME NEW i \in known
      PROVE  /\ bar_cells(Whole(revenue[i]), Whole(top), 12) \in 0..12
             /\ revenue[i] > 0 /\ revenue[i] = top =>
                  bar_cells(Whole(revenue[i]), Whole(top), 12) = 12
  <2>1. Whole(revenue[i]) \in Fraction /\ Whole(top) \in Fraction BY <1>2, <1>8, WholeIs
  <2>2. /\ bar_cells(Whole(revenue[i]), Whole(top), 12) \in 0..12
        /\ Less(Zero, Whole(top)) /\ AtMost(Whole(top), Size(Whole(revenue[i]))) =>
             bar_cells(Whole(revenue[i]), Whole(top), 12) = 12
    BY <2>1, BarIs
  <2>3. ASSUME revenue[i] > 0, revenue[i] = top
        PROVE  Less(Zero, Whole(top)) /\ AtMost(Whole(top), Size(Whole(revenue[i])))
    <3>1. Size(Whole(revenue[i])) = Whole(top) BY <1>8, <2>3 DEF Size, Whole, Magnitude
    <3>2. QED BY <1>8, <2>3, <3>1, WholeOrder DEF Zero
  <2>4. QED BY <2>2, <2>3
<1>10. \A i \in DOMAIN revenue : bar[i] \in 0..12 /\ (revenue[i] = None => bar[i] = 0)
  BY <1>7, <1>9
<1>11. ASSUME NEW i \in DOMAIN revenue, revenue[i] # None, revenue[i] > 0,
              \A j \in DOMAIN revenue : revenue[j] = None \/ revenue[j] <= revenue[i]
       PROVE  bar[i] = 12
  <2>1. i \in known /\ revenue[i] \in Int BY <1>2, <1>11
  <2>2. top <= revenue[i]
    <3>1. top = 0 \/ \E j \in known : top = revenue[j] BY <1>5 DEF V
    <3>2. QED BY <1>11, <2>1, <3>1
  <2>3. revenue[i] = top BY <1>5, <1>8, <2>1, <2>2
  <2>4. QED BY <1>7, <1>9, <1>11, <2>1, <2>3
<1>12. QED BY <1>6, <1>10, <1>11 DEF RevenueBarsCompare, screen, bar

LEMMA JoinIs ==
  ASSUME NEW s \in Seq(Int), NEW t \in Seq(Int)
  PROVE  /\ s \o t \in Seq(Int) /\ Len(s \o t) = Len(s) + Len(t)
         /\ DOMAIN (s \o t) = 1..(Len(s) + Len(t))
         /\ \A i \in 1..Len(s) : (s \o t)[i] = s[i]
         /\ \A i \in 1..Len(t) : (s \o t)[Len(s) + i] = t[i]
OBVIOUS

\* The portfolio modal shows the return of the last sample against the cost
\* basis of that day, and both lines lie in its axis (PortfolioScreen).
THEOREM AllHistoryShown ==
  ASSUME NEW history \in Seq([value : Int, basis : Int])
  PROVE  HistoryIsShown(history)
<1> SUFFICES ASSUME NEW loading \in BOOLEAN
             PROVE  LET screen == PortfolioScreen(history, loading)
                        last == history[Len(history)]
                    IN  /\ screen.message = None <=> Len(history) > 1
                        /\ screen.message = None =>
                             /\ screen.return.latest_value = last.value
                             /\ screen.return.total_pnl = last.value - last.basis
                             /\ \A i \in DOMAIN history :
                                  {history[i].value, history[i].basis}
                                    \subseteq screen.axis.lo..screen.axis.hi
  BY DEF HistoryIsShown
<1> DEFINE screen == PortfolioScreen(history, loading)
           last == history[Len(history)]
           values == [i \in DOMAIN history |-> history[i].value]
           basis == [i \in DOMAIN history |-> history[i].basis]
           both == values \o basis
<1>1. /\ Len(history) \in Nat /\ DOMAIN history = 1..Len(history)
      /\ \A i \in 1..Len(history) : history[i].value \in Int /\ history[i].basis \in Int
      /\ history = <<>> <=> Len(history) = 0
  <2>1. \A e \in [value : Int, basis : Int] : e.value \in Int /\ e.basis \in Int OBVIOUS
  <2>2. /\ Len(history) \in Nat /\ DOMAIN history = 1..Len(history)
        /\ \A i \in 1..Len(history) : history[i] \in [value : Int, basis : Int]
        /\ history # <<>> <=> Len(history) > 0
    BY SeqIs
  <2> HIDE DEF screen, last, values, basis, both
  <2>3. history = <<>> <=> Len(history) = 0 BY <2>2
  <2>4. QED BY <2>1, <2>2, <2>3
<1>2. /\ values \in Seq(Int) /\ basis \in Seq(Int)
      /\ Len(values) = Len(history) /\ Len(basis) = Len(history)
      /\ \A i \in 1..Len(history) : values[i] = history[i].value /\ basis[i] = history[i].basis
  BY <1>1
<1>3. screen.message = None <=> Len(history) > 1
  <2>1. Len(history) >= 2 <=> Len(history) > 1 BY <1>1
  <2>2. None \notin {"loading history", "no history yet", "not enough history yet"}
    BY FiguresAssumption
  <2>3. QED BY <2>1, <2>2 DEF PortfolioScreen
<1>4. ASSUME screen.message = None
      PROVE  /\ screen.return.latest_value = last.value
             /\ screen.return.total_pnl = last.value - last.basis
             /\ \A i \in DOMAIN history :
                  {history[i].value, history[i].basis} \subseteq screen.axis.lo..screen.axis.hi
  <2>1. Len(history) \in 1..Len(history) /\ Len(history) >= 2 BY <1>1, <1>3, <1>4
  <2>2. /\ screen.return = series_return(values, basis[Len(basis)])
        /\ screen.axis = [lo |-> Lowest(both), hi |-> Highest(both)]
    BY <2>1 DEF PortfolioScreen
  <2> HIDE DEF screen, values, basis
  <2>3. values # <<>> /\ both \in Seq(Int) /\ both # <<>>
        /\ DOMAIN both = 1..(Len(history) + Len(history))
        /\ \A i \in 1..Len(history) : both[i] = values[i] /\ both[Len(history) + i] = basis[i]
    <3>v. values \in Seq(Int) /\ basis \in Seq(Int) /\ Len(values) = Len(history)
          /\ Len(basis) = Len(history)
      BY <1>2
    <3>2. \A s \in Seq(Int) : s # <<>> <=> Len(s) > 0 OBVIOUS
    <3>3. Len(history) > 0 /\ Len(history) + Len(history) > 0 BY <1>1, <2>1
    <3>a. both \in Seq(Int) /\ Len(both) = Len(values) + Len(basis)
          /\ DOMAIN both = 1..(Len(values) + Len(basis))
      BY <3>v, JoinIs
    <3>4. both \in Seq(Int) /\ Len(both) = Len(history) + Len(history)
          /\ DOMAIN both = 1..(Len(history) + Len(history))
      BY ONLY <3>a, <1>2
    <3>5. \A i \in 1..Len(history) : both[i] = values[i] /\ both[Len(history) + i] = basis[i]
      <4>1. /\ \A i \in 1..Len(values) : both[i] = values[i]
            /\ \A i \in 1..Len(basis) : both[Len(values) + i] = basis[i]
        BY <3>v, JoinIs
      <4> HIDE DEF both
      <4>2. QED BY ONLY <4>1, <3>v
    <3> HIDE DEF both
    <3>6. values # <<>> /\ both # <<>> BY <1>2, <3>2, <3>3, <3>4
    <3>7. QED BY <3>4, <3>5, <3>6
  <2>4. /\ screen.return.latest_value = last.value
        /\ screen.return.total_pnl = last.value - last.basis
    <3> DEFINE total == basis[Len(basis)]
    <3>1. /\ Len(values) = Len(history) /\ Len(basis) = Len(history)
          /\ values[Len(history)] = history[Len(history)].value
          /\ basis[Len(history)] = history[Len(history)].basis
      BY <1>2, <2>1
    <3>2. last.value = values[Len(values)] /\ last.basis = total
      BY <3>1, <2>1
    <3> HIDE DEF both, last, total
    <3>3. series_return(values, total).latest_value = values[Len(values)]
          /\ series_return(values, total).total_pnl = values[Len(values)] - total
      BY <2>3 DEF series_return
    <3>4. QED BY <2>2, <3>2, <3>3 DEF total
  <2> HIDE DEF both
  <2>5. /\ Lowest(both) \in Int /\ Highest(both) \in Int
        /\ \A i \in DOMAIN both : Lowest(both) <= both[i] /\ both[i] <= Highest(both)
    BY <2>3, ExtremesAre
  <2>6. ASSUME NEW i \in 1..Len(history)
        PROVE  {history[i].value, history[i].basis} \subseteq Lowest(both)..Highest(both)
    <3>1. i \in DOMAIN both /\ Len(history) + i \in DOMAIN both BY <1>1, <2>3
    <3>2. Lowest(both) <= history[i].value /\ history[i].value <= Highest(both)
      BY <1>2, <2>3, <2>5, <3>1
    <3>3. Lowest(both) <= history[i].basis /\ history[i].basis <= Highest(both)
      BY <1>2, <2>3, <2>5, <3>1
    <3>4. QED BY <1>1, <2>5, <3>2, <3>3
  <2>7. QED BY <1>1, <2>2, <2>4, <2>6
<1>5. QED BY <1>3, <1>4

\* What is added to a bound leaves room below and above.
LEMMA PaddedIs ==
  ASSUME NEW f \in Fraction, NEW pad \in Fraction, Less(Zero, pad), NEW g \in Fraction
  PROVE  /\ AtMost(f, g) => Less(Minus(f, pad), g)
         /\ AtMost(g, f) => Less(g, Plus(f, pad))
<1> DEFINE a == f[1]  b == f[2]  p == pad[1]  q == pad[2]  c == g[1]  d == g[2]
<1>1. /\ a \in Int /\ p \in Int /\ c \in Int
      /\ b \in Nat \ {0} /\ q \in Nat \ {0} /\ d \in Nat \ {0}
      /\ Is(f, a, b) /\ Is(pad, p, q) /\ Is(g, c, d)
  BY FractionIs, IsOwn
<1> HIDE DEF a, b, p, q, c, d
<1>2. p > 0
  <2>1. Less(Zero, pad) <=> 0 * q < p * 1 BY <1>1, Numbers, IsOrder
  <2>2. QED BY <1>1, <2>1
<1>3. Is(Minus(f, pad), a * q - p * b, b * q) /\ Is(Plus(f, pad), a * q + p * b, b * q)
  BY <1>1, IsPlus
<1>4. /\ AtMost(f, g) <=> a * d <= c * b
      /\ AtMost(g, f) <=> c * b <= a * d
  BY <1>1, IsOrder
<1> DEFINE x == a * d  y == c * b  e == p * (b * d)
<1>5. /\ b * q \in Nat \ {0} /\ x \in Int /\ y \in Int /\ e > 0 /\ e \in Int
  <2>1. b * q \in Nat \ {0} /\ b * d \in Nat \ {0} BY <1>1
  <2>2. p \in Nat \ {0} BY <1>1, <1>2
  <2>3. e \in Nat \ {0} BY <2>1, <2>2
  <2>4. QED BY <1>1, <2>1, <2>3
<1>6. /\ Less(Minus(f, pad), g) <=> (a * q - p * b) * d < c * (b * q)
      /\ Less(g, Plus(f, pad)) <=> c * (b * q) < (a * q + p * b) * d
  <2>1. b * q > 0 /\ d > 0 BY <1>1, <1>5
  <2>2. QED BY <1>1, <1>3, <2>1, IsOrder
<1>7. /\ (a * q - p * b) * d = x * q - e
      /\ (a * q + p * b) * d = x * q + e
      /\ c * (b * q) = y * q
  BY <1>1
<1> HIDE DEF x, y, e
<1>8. (x <= y => x * q <= y * q) /\ (y <= x => y * q <= x * q) /\ x * q \in Int /\ y * q \in Int
  <2>1. q \in Int /\ q > 0 BY <1>1
  <2>2. QED BY <1>5, <2>1, CancelLess
<1>9. QED BY <1>4, <1>5, <1>6, <1>7, <1>8 DEF x, y

\* What a provider may send as a candle: prices that are not negative, the
\* close between the low and the high.
Candle == {c \in [low : Int, close : Nat, high : Int] : c.low <= c.close /\ c.close <= c.high}

\* Whatever the candles, every line of a chart lies in its axis, points are up
\* or down, the trend is that of the percentage, and the dates under it are in
\* order (draw_stock_chart).
THEOREM AllChartsHold ==
  ASSUME NEW candles \in Seq(Candle)
  PROVE  ChartsHoldTheirData(candles)
<1> SUFFICES ASSUME candles # <<>> PROVE ChartsHoldTheirData(candles)
  BY DEF ChartsHoldTheirData
<1> DEFINE chart == StockChart(candles)  n == Len(candles)
           closes == [i \in DOMAIN candles |-> candles[i].close]
           lows == [i \in DOMAIN candles |-> candles[i].low]
           highs == [i \in DOMAIN candles |-> candles[i].high]
           change == closes[Len(closes)] - closes[1]
           bounds == padded_axis_bounds(closes)
           lo == Lowest(closes)  hi == Highest(closes)
           pct == IF closes[1] # 0 THEN Times(Frac(change, closes[1]), Whole(100)) ELSE Zero
<1>1. /\ n \in Nat \ {0} /\ DOMAIN candles = 1..n
      /\ \A i \in 1..n : /\ candles[i].low \in Int /\ candles[i].close \in Nat
                         /\ candles[i].high \in Int
                         /\ candles[i].low <= candles[i].close
                         /\ candles[i].close <= candles[i].high
  <2>1. \A c \in Candle : /\ c.low \in Int /\ c.close \in Nat /\ c.high \in Int
                          /\ c.low <= c.close /\ c.close <= c.high
    BY DEF Candle
  <2>2. /\ n \in Nat /\ DOMAIN candles = 1..n /\ n > 0 /\ \A i \in 1..n : candles[i] \in Candle
    BY SeqIs
  <2>3. QED BY <2>1, <2>2
<1>2. /\ closes \in Seq(Int) /\ Len(closes) = n /\ closes # <<>> /\ DOMAIN closes = 1..n
      /\ \A i \in 1..n : closes[i] = candles[i].close /\ closes[i] \in Nat
  <2>1. closes \in [1..n -> Int] /\ DOMAIN closes = 1..n BY <1>1
  <2>2. closes \in Seq(Int) /\ Len(closes) = n BY <1>1, <2>1
  <2>3. QED BY <1>1, <2>1, <2>2
<1>3. /\ lows \in Seq(Int) /\ lows # <<>> /\ DOMAIN lows = 1..n
      /\ \A i \in 1..n : lows[i] = candles[i].low
  <2>1. lows \in [1..n -> Int] /\ DOMAIN lows = 1..n BY <1>1
  <2>2. lows \in Seq(Int) /\ Len(lows) = n BY <1>1, <2>1
  <2>3. QED BY <1>1, <2>1, <2>2
<1>4. /\ highs \in Seq(Int) /\ highs # <<>> /\ DOMAIN highs = 1..n
      /\ \A i \in 1..n : highs[i] = candles[i].high
  <2>1. highs \in [1..n -> Int] /\ DOMAIN highs = 1..n BY <1>1
  <2>2. highs \in Seq(Int) /\ Len(highs) = n BY <1>1, <2>1
  <2>3. QED BY <1>1, <2>1, <2>2
<1>5. /\ chart.trend_up = (change >= 0) /\ chart.pct = pct
      /\ chart.up = {i \in DOMAIN closes : i = 1 \/ closes[i] >= closes[i - 1]}
      /\ chart.down = {i \in DOMAIN closes : ~(i = 1 \/ closes[i] >= closes[i - 1])}
      /\ chart.axis = PriceAxis(closes, range_of(lows, highs))
      /\ chart.labels = <<1, n \div 2 + 1, n>>
  BY DEF StockChart
<1> HIDE DEF chart, closes, lows, highs
<1>6. /\ lo \in Int /\ hi \in Int /\ \A i \in 1..n : lo <= closes[i] /\ closes[i] <= hi
  BY <1>2, ExtremesAre
<1>7. ASSUME NEW i \in DOMAIN candles
      PROVE  {candles[i].low, candles[i].close, candles[i].high}
               \subseteq chart.axis.lo..chart.axis.hi
  <2> DEFINE a == Lowest(lows)  b == Highest(highs)
  <2>1. a \in Int /\ \A k \in 1..n : a <= lows[k] BY <1>3, ExtremesAre
  <2>2. b \in Int /\ \A k \in 1..n : highs[k] <= b BY <1>4, ExtremesAre
  <2>3. chart.axis = [lo |-> Atmost(lo, a), hi |-> Atleast(hi, b)]
    BY <1>3, <1>4, <1>5 DEF PriceAxis, range_of
  <2> DEFINE u == Atmost(lo, a)  v == Atleast(hi, b)
  <2> HIDE DEF a, b, lo, hi
  <2>4. u \in Int /\ v \in Int /\ u <= lo /\ u <= a /\ hi <= v /\ b <= v
    BY <1>6, <2>1, <2>2 DEF Atmost, Atleast
  <2>5. chart.axis.lo = u /\ chart.axis.hi = v BY <2>3
  <2> HIDE DEF u, v
  <2>6. /\ u <= candles[i].low /\ candles[i].low <= v
        /\ u <= candles[i].close /\ candles[i].close <= v
        /\ u <= candles[i].high /\ candles[i].high <= v
    <3>1. i \in 1..n BY <1>1
    <3>2. a <= candles[i].low /\ candles[i].high <= b BY <1>3, <1>4, <2>1, <2>2, <3>1
    <3>3. QED BY <1>1, <2>1, <2>2, <2>4, <3>1, <3>2
  <2>7. QED BY <1>1, <2>4, <2>5, <2>6
<1>8. chart.up \cup chart.down = DOMAIN closes /\ chart.up \cap chart.down = {}
  BY <1>5
<1>9. chart.trend_up <=> AtMost(Zero, chart.pct)
  <2>1. closes[1] \in Nat /\ closes[n] \in Nat /\ change \in Int BY <1>1, <1>2
  <2>2. CASE closes[1] = 0
    <3>1. change >= 0 BY <1>2, <2>1, <2>2
    <3>2. AtMost(Zero, Zero) BY Numbers, OrderLaws
    <3>3. chart.pct = Zero BY <1>5, <2>2
    <3>4. QED BY <1>5, <3>1, <3>2, <3>3
  <2>3. CASE closes[1] # 0
    <3> DEFINE c == closes[1]
    <3>1. c \in Nat \ {0} BY <2>1, <2>3
    <3>2. chart.pct = Times(Frac(change, c), Whole(100)) BY <1>5, <2>3
    <3> HIDE DEF change, c
    <3>3. Is(Frac(change, c), change, c) /\ Is(Whole(100), 100, 1)
      BY <2>1, <3>1, IsFrac, WholeIs
    <3>4. Is(chart.pct, change * 100, c * 1) BY <3>2, <3>3, IsTimes
    <3>5. c * 1 > 0 BY <3>1
    <3>6. AtMost(Zero, chart.pct) <=> 0 * (c * 1) <= (change * 100) * 1
      BY <3>4, <3>5, Numbers, IsOrder
    <3>7. 0 * (c * 1) <= (change * 100) * 1 <=> change >= 0 BY <2>1, <3>1
    <3>8. QED BY <1>5, <3>6, <3>7
  <2>4. QED BY <2>2, <2>3
<1>10. chart.labels[1] <= chart.labels[2] /\ chart.labels[2] <= chart.labels[3]
  <2>1. 1 <= n \div 2 + 1 /\ n \div 2 + 1 <= n BY <1>1
  <2>2. QED BY <1>5, <2>1
<1>11. ASSUME NEW i \in DOMAIN closes
       PROVE  Less(bounds[1], Whole(closes[i])) /\ Less(Whole(closes[i]), bounds[2])
  <2> DEFINE span == Minus(Whole(hi), Whole(lo))
             pad == Greatest(Times(span, <<1, 10>>), <<1, 100>>)
  <2>1. bounds = <<Minus(Whole(lo), pad), Plus(Whole(hi), pad)>>
    BY <1>2 DEF padded_axis_bounds
  <2>2. <<1, 10>> \in Fraction /\ <<1, 100>> \in Fraction
    <3>1. 1 * 1 + 10 * 0 = 1 /\ 1 * 1 + 100 * 0 = 1 OBVIOUS
    <3>2. QED BY <3>1 DEF Fraction
  <2>3. Whole(lo) \in Fraction /\ Whole(hi) \in Fraction /\ Whole(closes[i]) \in Fraction
    BY <1>2, <1>6, WholeIs
  <2>4. Times(span, <<1, 10>>) \in Fraction BY <2>2, <2>3, FieldTypes
  <2>5. pad \in Fraction /\ Less(Zero, pad)
    <3>1. Less(Zero, <<1, 100>>) BY DEF Less, Zero, Whole
    <3>2. CASE Less(Times(span, <<1, 10>>), <<1, 100>>)
      <4>1. pad = <<1, 100>> BY <3>2 DEF Greatest
      <4>2. QED BY <2>2, <3>1, <4>1
    <3>3. CASE ~Less(Times(span, <<1, 10>>), <<1, 100>>)
      <4>1. pad = Times(span, <<1, 10>>) BY <3>3 DEF Greatest
      <4>2. AtMost(<<1, 100>>, pad) BY <2>2, <2>4, <3>3, <4>1, OrderLaws
      <4>3. QED BY <2>2, <2>4, <3>1, <4>1, <4>2, Numbers, OrderLaws
    <3>4. QED BY <3>2, <3>3
  <2>6. AtMost(Whole(lo), Whole(closes[i])) /\ AtMost(Whole(closes[i]), Whole(hi))
    <3>1. /\ lo \in Int /\ hi \in Int /\ closes[i] \in Int
          /\ lo <= closes[i] /\ closes[i] <= hi
      BY <1>2, <1>6
    <3> HIDE DEF lo, hi
    <3>2. QED BY <3>1, WholeOrder
  <2> HIDE DEF pad, bounds, lo, hi
  <2>7. Less(Minus(Whole(lo), pad), Whole(closes[i])) BY <2>3, <2>5, <2>6, PaddedIs
  <2>8. Less(Whole(closes[i]), Plus(Whole(hi), pad)) BY <2>3, <2>5, <2>6, PaddedIs
  <2>9. QED BY <2>1, <2>7, <2>8
<1> HIDE DEF bounds
<1>12. QED BY <1>7, <1>8, <1>9, <1>10, <1>11 DEF ChartsHoldTheirData, chart, closes, bounds

-----------------------------------------------------------------------------
(***************************************************************************)
(* Rows and sparklines                                                     *)
(***************************************************************************)
\* The arrow of a whole difference, with and without the dead band.
LEMMA DirectionIs ==
  ASSUME NEW d \in Int
  PROVE  /\ direction(Whole(d), Zero) = IF d > 0 THEN "Up" ELSE IF d < 0 THEN "Down" ELSE "Neutral"
         /\ direction(Whole(d), <<1, 1000>>)
              = IF d > 0 THEN "Up" ELSE IF d < 0 THEN "Down" ELSE "Neutral"
<1>1. 1 * 1 + 1000 * 0 = 1 OBVIOUS
<1>2. <<1, 1000>> \in Fraction BY <1>1 DEF Fraction
<1>3. Is(<<1, 1000>>, 1, 1000)
  <2>1. <<1, 1000>>[1] = 1 /\ <<1, 1000>>[2] = 1000 OBVIOUS
  <2>2. QED BY <1>2, <2>1, IsOwn
<1>4. Is(Minus(Zero, <<1, 1000>>), 0 * 1000 - 1 * 1, 1 * 1000) BY <1>3, Numbers, IsPlus
<1>5. Is(Minus(Zero, <<1, 1000>>), -1, 1000) BY <1>4
<1>6. Minus(Zero, Zero) = Zero
  <2>1. Minus(Whole(0), Whole(0)) = Whole(0 - 0) BY WholeOrder
  <2>2. QED BY <2>1 DEF Zero
<1>7. Is(Whole(d), d, 1) BY WholeIs
<1>8. /\ Less(Zero, Whole(d)) <=> 0 < d
      /\ Less(Whole(d), Zero) <=> d < 0
  BY WholeOrder DEF Zero
<1>9. /\ Less(<<1, 1000>>, Whole(d)) <=> 1 * 1 < d * 1000
      /\ Less(Whole(d), Minus(Zero, <<1, 1000>>)) <=> d * 1000 < (-1) * 1
  BY <1>3, <1>5, <1>7, IsOrder
<1>10. /\ 1 * 1 < d * 1000 <=> 0 < d
       /\ d * 1000 < (-1) * 1 <=> d < 0
  OBVIOUS
<1>11. direction(Whole(d), Zero) = IF d > 0 THEN "Up" ELSE IF d < 0 THEN "Down" ELSE "Neutral"
  BY <1>6, <1>8 DEF direction
<1>12. direction(Whole(d), <<1, 1000>>)
         = IF d > 0 THEN "Up" ELSE IF d < 0 THEN "Down" ELSE "Neutral"
  BY <1>9, <1>10 DEF direction
<1>13. QED BY <1>11, <1>12

\* The sign of a percentage is that of the change.
LEMMA PctIs ==
  ASSUME NEW d \in Int, NEW c \in Nat \ {0}
  PROVE  LET pct == Times(Frac(d, c), Whole(100))
         IN  /\ pct \in Fraction /\ Is(pct, 100 * d, c)
             /\ Less(Zero, pct) <=> d > 0
             /\ Less(pct, Zero) <=> d < 0
<1> DEFINE pct == Times(Frac(d, c), Whole(100))
<1>1. Is(Frac(d, c), d, c) /\ Is(Whole(100), 100, 1) BY IsFrac, WholeIs
<1>2. Is(pct, d * 100, c * 1) BY <1>1, IsTimes
<1>3. d * 100 = 100 * d /\ c * 1 = c /\ 100 * d \in Int OBVIOUS
<1>4. Is(pct, 100 * d, c) /\ c > 0 BY <1>2, <1>3
<1> HIDE DEF pct
<1>5. /\ Less(Zero, pct) <=> 0 * c < (100 * d) * 1
      /\ Less(pct, Zero) <=> (100 * d) * 1 < 0 * c
  BY <1>4, Numbers, IsOrder
<1>6. 0 * c = 0 /\ (100 * d) * 1 = 100 * d OBVIOUS
<1>7. (Less(Zero, pct) <=> d > 0) /\ (Less(pct, Zero) <=> d < 0) BY <1>3, <1>5, <1>6
<1>8. pct \in Fraction BY <1>4 DEF Is
<1>9. QED BY <1>4, <1>7, <1>8 DEF pct

\* In a table of rows whose previous closes are not negative, the colour of
\* every row is that of the arrow in the modal and of its percentage, and the
\* trend's is that of its ends (table_row, price_line, sparkline).
THEOREM AllRowsConsistent ==
  ASSUME NEW T, NEW row \in Quote(T), row.previous_close \in Nat \cup {None},
         NEW series \in Seq(Int)
  PROVE  RowsAreConsistent(row, series)
<1> DEFINE drawn == QuoteRow(row, {}, <<>>, None, series)  line == price_line(row)
           d == row.price - row.previous_close  shown == Last_n(series, 12)
           trend == spark_text(series, 12)
<1>0. None \notin Int BY FiguresAssumption
<1>1. row.price \in Figure /\ row.previous_close \in Figure BY DEF Quote
<1>2. /\ drawn.pct = Pct_of(row)
      /\ drawn.color = price_change_color(row, None)
      /\ drawn.trend = trend
      /\ drawn.trend_color = IF Len(shown) < 2 THEN "dim"
                             ELSE direction(Whole(shown[Len(shown)] - shown[1]), Zero)
  BY DEF QuoteRow
<1>3. ASSUME Pct_of(row) # None
      PROVE  /\ d \in Int /\ row.previous_close \in Nat \ {0}
             /\ Pct_of(row) = Times(Frac(d, row.previous_close), Whole(100))
             /\ drawn.color = direction(Whole(d), <<1, 1000>>)
  <2>1. row.price # None /\ row.previous_close # None /\ row.previous_close # 0
        /\ Pct_of(row) = Times(Frac(d, row.previous_close), Whole(100))
    BY <1>3 DEF Pct_of, day_change_pct
  <2>2. row.price \in Int /\ row.previous_close \in Nat \ {0} BY <1>1, <2>1 DEF Figure
  <2>3. d \in Int BY <2>2
  <2>4. price_change_color(row, None) = direction(Whole(d), <<1, 1000>>)
    BY <1>0, <2>1, <2>3 DEF price_change_color
  <2>5. QED BY <1>2, <2>1, <2>2, <2>3, <2>4
<1>4. line # None => line.arrow = drawn.color /\ line.pct = drawn.pct
  <2> SUFFICES ASSUME line # None PROVE line.arrow = drawn.color /\ line.pct = drawn.pct
    OBVIOUS
  <2>1. Pct_of(row) # None BY DEF price_line
  <2>2. line.arrow = direction(Whole(d), <<1, 1000>>) /\ line.pct = Pct_of(row)
    BY <2>1 DEF price_line
  <2>3. QED BY <1>2, <1>3, <2>1, <2>2
<1>5. drawn.pct # None => drawn.color = direction(drawn.pct, Zero)
  <2> SUFFICES ASSUME Pct_of(row) # None
               PROVE  direction(Whole(d), <<1, 1000>>) = direction(Pct_of(row), Zero)
    BY <1>2, <1>3
  <2>1. direction(Whole(d), <<1, 1000>>)
          = IF d > 0 THEN "Up" ELSE IF d < 0 THEN "Down" ELSE "Neutral"
    BY <1>3, DirectionIs
  <2>2. (Less(Zero, Pct_of(row)) <=> d > 0) /\ (Less(Pct_of(row), Zero) <=> d < 0)
    <3> DEFINE c == row.previous_close  p == Times(Frac(d, c), Whole(100))
    <3>1. d \in Int /\ c \in Nat \ {0} /\ Pct_of(row) = p BY <1>3
    <3> HIDE DEF d, c
    <3>2. (Less(Zero, p) <=> d > 0) /\ (Less(p, Zero) <=> d < 0) BY <3>1, PctIs
    <3> HIDE DEF p
    <3>3. QED BY <3>1, <3>2
  <2>3. Minus(Zero, Zero) = Zero
    <3>1. Minus(Whole(0), Whole(0)) = Whole(0 - 0) BY WholeOrder
    <3>2. QED BY <3>1 DEF Zero
  <2> HIDE DEF d
  <2>4. QED BY <2>1, <2>2, <2>3 DEF direction
<1>6. /\ shown \in Seq(Int) /\ Len(shown) \in Nat
      /\ trend = IF Len(shown) < 2 THEN <<>> ELSE Scaled(shown, 7)
  BY LastIs DEF spark_text
<1> HIDE DEF drawn, shown, trend
<1>7. ASSUME ~(Len(shown) < 2)
      PROVE  /\ trend # <<>> /\ Len(trend) = Len(shown)
             /\ shown[1] \in Int /\ shown[Len(shown)] \in Int
             /\ shown[1] <= shown[Len(shown)] => trend[1] <= trend[Len(shown)]
  <2>1. shown # <<>> /\ 1 \in 1..Len(shown) /\ Len(shown) \in 1..Len(shown) /\ 7 \in Nat
    BY <1>6, <1>7
  <2>2. /\ trend \in [1..Len(shown) -> 0..7]
        /\ \A i, j \in 1..Len(shown) : shown[i] <= shown[j] => trend[i] <= trend[j]
    <3>1. trend = Scaled(shown, 7) BY <1>6, <1>7
    <3>2. shown \in Seq(Int) /\ shown # <<>> /\ 7 \in Nat BY <1>6, <2>1
    <3>3. QED BY ONLY <3>1, <3>2, ScaledIs
  <2>3. trend \in Seq(0..7) /\ Len(trend) = Len(shown)
    <3>1. Len(shown) \in Nat BY <1>6
    <3>2. QED BY <2>2, <3>1, ListIs
  <2>4. \A i \in 1..Len(shown) : shown[i] \in Int BY <1>6
  <2>5. Len(shown) # 0 BY <2>1
  <2>6. trend # <<>> BY <2>3, <2>5
  <2>7. QED BY <2>1, <2>2, <2>3, <2>4, <2>6
<1>8. drawn.trend_color = "Up" => drawn.trend[1] <= drawn.trend[Len(drawn.trend)]
  <2> SUFFICES ASSUME drawn.trend_color = "Up" PROVE trend[1] <= trend[Len(trend)]
    BY <1>2
  <2>1. ~(Len(shown) < 2) BY <1>2
  <2>2. direction(Whole(shown[Len(shown)] - shown[1]), Zero) = "Up" BY <1>2, <2>1
  <2>3. shown[Len(shown)] - shown[1] \in Int BY <1>7, <2>1
  <2>4. shown[Len(shown)] - shown[1] > 0 BY <2>2, <2>3, DirectionIs
  <2>5. QED BY <1>7, <2>1, <2>4
<1>9. drawn.trend_color = "dim" <=> drawn.trend = <<>>
  <2>1. CASE Len(shown) < 2 BY <1>2, <1>6, <2>1
  <2>2. CASE ~(Len(shown) < 2)
    <3>1. shown[Len(shown)] - shown[1] \in Int BY <1>7, <2>2
    <3>2. direction(Whole(shown[Len(shown)] - shown[1]), Zero) # "dim" BY <3>1, DirectionIs
    <3>3. QED BY <1>2, <1>7, <2>2, <3>2
  <2>3. QED BY <2>1, <2>2
<1>10. QED BY <1>4, <1>5, <1>8, <1>9 DEF RowsAreConsistent, drawn

\* g follows the recursion from a by F up to n.
Follows(g, n, V, a, F) ==
  g \in [0..n -> V] /\ g[0] = a /\ \A i \in 1..n : g[i] = F[i][g[i - 1]]

LEMMA RecursionExists ==
  ASSUME NEW n \in Nat, NEW V, NEW a \in V, NEW F \in [1..n -> [V -> V]]
  PROVE  \E g : Follows(g, n, V, a, F)
<1> DEFINE Good == {m \in 0..n : \E g : Follows(g, m, V, a, F)}
<1>1. 0 \in Good
  <2> DEFINE g == [j \in 0..0 |-> a]
  <2>1. g \in [0..0 -> V] /\ g[0] = a /\ 0 \in 0..n OBVIOUS
  <2>2. \A i \in 1..0 : FALSE OBVIOUS
  <2>3. Follows(g, 0, V, a, F) BY <2>1, <2>2 DEF Follows
  <2>4. QED BY <2>1, <2>3
<1>2. ASSUME NEW m \in 1..n, m - 1 \in Good PROVE m \in Good
  <2>1. PICK g : Follows(g, m - 1, V, a, F) BY <1>2
  <2>2. /\ g \in [0..(m - 1) -> V] /\ g[0] = a
        /\ \A i \in 1..(m - 1) : g[i] = F[i][g[i - 1]]
    BY <2>1 DEF Follows
  <2> DEFINE h == [j \in 0..m |-> IF j = m THEN F[m][g[m - 1]] ELSE g[j]]
  <2>3. g[m - 1] \in V /\ F[m][g[m - 1]] \in V BY <2>2
  <2>4. \A j \in 0..m : j = m \/ j \in 0..(m - 1) OBVIOUS
  <2>5. h \in [0..m -> V] BY <2>2, <2>3, <2>4
  <2>6. h[m] = F[m][g[m - 1]] /\ \A j \in 0..(m - 1) : h[j] = g[j] OBVIOUS
  <2> HIDE DEF h
  <2>7. ASSUME NEW i \in 1..m PROVE h[i] = F[i][h[i - 1]]
    <3>1. i - 1 \in 0..(m - 1) OBVIOUS
    <3>2. h[i - 1] = g[i - 1] BY <2>6, <3>1
    <3>3. CASE i = m BY <2>6, <3>2, <3>3
    <3>4. CASE i # m
      <4>1. i \in 1..(m - 1) /\ i \in 0..(m - 1) BY <3>4
      <4>2. h[i] = g[i] BY <2>6, <4>1
      <4>3. g[i] = F[i][g[i - 1]] BY <2>2, <4>1
      <4>4. QED BY <3>2, <4>2, <4>3
    <3>5. QED BY <3>3, <3>4
  <2>8. h[0] = a BY <2>2, <2>6
  <2>9. Follows(h, m, V, a, F) BY <2>5, <2>7, <2>8 DEF Follows
  <2>10. QED BY <2>9
<1> HIDE DEF Good
<1>3. 0..n \subseteq Good BY <1>1, <1>2, UptoInduction
<1>4. n \in Good BY <1>3
<1>5. QED BY <1>4 DEF Good

\* The last points, at most cap of them unless that is 0, of the first i.
Kept(values, cap, i) ==
  LET count == IF cap = 0 THEN i ELSE Atmost(cap, i)
  IN  [j \in 1..count |-> values[i - count + j]]

LEMMA KeptIs ==
  ASSUME NEW values \in Seq(Int), NEW cap \in Nat, NEW i \in 0..Len(values)
  PROVE  /\ Kept(values, cap, i) \in Seq(Int)
         /\ i = 0 => Kept(values, cap, i) = <<>>
         /\ i = Len(values) => Kept(values, cap, i) = IF cap = 0 THEN values ELSE Last_n(values, cap)
         /\ i > 0 => append_spark_point(Kept(values, cap, i - 1), values[i], cap)
                       = Kept(values, cap, i)
<1> DEFINE C(k) == IF cap = 0 THEN k ELSE Atmost(cap, k)  n == Len(values)
           K(k) == [j \in 1..C(k) |-> values[k - C(k) + j]]
<1>1. n \in Nat /\ DOMAIN values = 1..n /\ \A k \in 1..n : values[k] \in Int BY SeqIs
<1>2. \A k \in Nat : Kept(values, cap, k) = K(k) BY DEF Kept
<1>3. \A k \in Nat : C(k) \in 0..k BY DEF Atmost
<1>4. ASSUME NEW k \in 0..n
      PROVE  /\ K(k) \in Seq(Int) /\ Len(K(k)) = C(k)
             /\ \A j \in 1..C(k) : K(k)[j] = values[k - C(k) + j]
  <2>1. C(k) \in 0..k /\ C(k) \in Nat /\ k \in 0..n BY <1>1, <1>3
  <2> HIDE DEF C
  <2>2. \A j \in 1..C(k) : k - C(k) + j \in 1..n BY <1>1, <2>1
  <2>3. K(k) \in [1..C(k) -> Int] BY <1>1, <2>2
  <2>4. K(k) \in Seq(Int) /\ Len(K(k)) = C(k) BY <2>1, <2>3, ListIs
  <2>5. QED BY <2>4
<1>5. i \in Nat BY <1>1
<1>6. i = 0 => K(i) = <<>>
  <2> SUFFICES ASSUME i = 0 PROVE K(0) = <<>>
    OBVIOUS
  <2>1. C(0) = 0 BY <1>3
  <2>2. 0 \in 0..n BY <1>1
  <2>3. K(0) \in Seq(Int) /\ Len(K(0)) = 0 BY <1>4, <2>1, <2>2
  <2> HIDE DEF K
  <2>4. QED BY <2>3
<1>7. K(n) = IF cap = 0 THEN values ELSE Last_n(values, cap)
  <2>1. n \in 0..n BY <1>1
  <2>2. K(n) \in Seq(Int) /\ Len(K(n)) = C(n) /\ \A j \in 1..C(n) : K(n)[j] = values[n - C(n) + j]
    BY <1>4, <2>1
  <2> HIDE DEF K
  <2>3. CASE cap = 0
    <3>1. C(n) = n BY <2>3
    <3>2. \A j \in 1..n : n - n + j = j BY <1>1
    <3>3. QED BY <1>1, <2>2, <2>3, <3>1, <3>2, SeqSame
  <2>4. CASE cap # 0
    <3> DEFINE l == Last_n(values, cap)
    <3>1. C(n) = Atmost(cap, n) BY <2>4
    <3>2. l \in Seq(Int) /\ Len(l) = Atmost(cap, n) /\ \A j \in 1..Len(l) : l[j] = values[n - Len(l) + j]
      BY LastIs
    <3> HIDE DEF l
    <3>3. Len(K(n)) = Len(l) /\ \A j \in 1..Len(K(n)) : K(n)[j] = l[j] BY <2>2, <3>1, <3>2
    <3>4. K(n) = l BY <2>2, <3>2, <3>3, SeqSame
    <3>5. QED BY <2>4, <3>4 DEF l
  <2>5. QED BY <2>3, <2>4
<1>8. ASSUME i > 0 PROVE append_spark_point(K(i - 1), values[i], cap) = K(i)
  <2> DEFINE p == K(i - 1)  c == C(i - 1)  all == Append(p, values[i])
             start == IF cap > 0 /\ Len(all) > cap THEN Len(all) - cap + 1 ELSE 1
             s == SubSeq(all, start, Len(all))
  <2>1. i - 1 \in 0..n /\ i \in 0..n /\ i \in 1..n /\ values[i] \in Int BY <1>1, <1>8
  <2>2. /\ p \in Seq(Int) /\ Len(p) = c /\ \A j \in 1..c : p[j] = values[i - 1 - c + j]
    BY <1>4, <2>1
  <2>3. c \in 0..(i - 1) /\ c \in Nat BY <1>3, <2>1
  <2>4. C(i) = (IF cap > 0 /\ c + 1 > cap THEN cap ELSE c + 1) BY <2>1, <2>3 DEF Atmost
  <2> HIDE DEF p, c
  <2>5. /\ all \in Seq(Int) /\ Len(all) = c + 1
        /\ all[c + 1] = values[i] /\ \A j \in 1..c : all[j] = values[i - 1 - c + j]
    BY <2>1, <2>2
  <2>6. ASSUME NEW j \in 1..(c + 1) PROVE all[j] = values[i - 1 - c + j]
    <3>1. CASE j = c + 1
      <4>1. i - 1 - c + j = i BY <2>1, <2>3, <3>1
      <4>2. QED BY <2>5, <3>1, <4>1
    <3>2. CASE j # c + 1
      <4>1. j \in 1..c BY <2>3, <3>2
      <4>2. QED BY <2>5, <4>1
    <3>3. QED BY <3>1, <3>2
  <2>7. append_spark_point(p, values[i], cap) = s BY DEF append_spark_point
  <2> HIDE DEF all
  <2>8. start \in 1..(c + 1) /\ c + 1 - start + 1 = C(i) /\ C(i) \in Nat
    <3> DEFINE m == C(i)
    <3>1. m = IF cap > 0 /\ c + 1 > cap THEN cap ELSE c + 1 BY <2>4
    <3>2. start = IF cap > 0 /\ c + 1 > cap THEN c + 1 - cap + 1 ELSE 1 BY <2>3, <2>5
    <3> HIDE DEF m, start
    <3>3. start \in 1..(c + 1) /\ c + 1 - start + 1 = m /\ m \in Nat BY <2>3, <3>1, <3>2
    <3>4. QED BY <3>3 DEF m
  <2> HIDE DEF start
  <2>9. s \in Seq(Int) /\ Len(s) = C(i) /\ \A j \in 1..C(i) : s[j] = all[start + j - 1]
    <3>1. \A j \in 1..C(i) : start + j - 1 \in 1..(c + 1) BY <2>3, <2>8
    <3> HIDE DEF C
    <3>2. Len(all) \in Nat /\ start \in Nat /\ start >= 1 /\ start <= Len(all) + 1
      BY <2>3, <2>5, <2>8
    <3>3. /\ s \in Seq(Int) /\ Len(s) = Len(all) - start + 1
          /\ \A j \in 1..(Len(all) - start + 1) : s[j] = all[start + j - 1]
      BY <2>5, <3>2, SubSeqIs
    <3>4. Len(all) - start + 1 = C(i)
      <4>1. Len(all) = c + 1 BY <2>5
      <4>2. QED BY <2>3, <2>8, <4>1
    <3>5. QED BY <3>3, <3>4
  <2>10. K(i) \in Seq(Int) /\ Len(K(i)) = C(i) /\ \A j \in 1..C(i) : K(i)[j] = values[i - C(i) + j]
    BY <1>4, <2>1
  <2> HIDE DEF s, C, K
  <2>11. ASSUME NEW j \in 1..C(i) PROVE s[j] = K(i)[j]
    <3>1. start + j - 1 \in 1..(c + 1) BY <2>3, <2>8
    <3>2. i - 1 - c + (start + j - 1) = i - C(i) + j BY <2>1, <2>3, <2>8
    <3>3. QED BY <2>6, <2>9, <2>10, <3>1, <3>2
  <2>12. s = K(i) BY <2>9, <2>10, <2>11, SeqSame
  <2>13. QED BY <2>7, <2>12 DEF p
<1> HIDE DEF K, C
<1>9. i > 0 => i - 1 \in Nat BY <1>5
<1>10. i \in 0..n BY <1>1
<1>11. QED BY <1>2, <1>4, <1>5, <1>6, <1>7, <1>8, <1>9, <1>10

\* Whatever the values, the width and the cap, sparklines keep the order of the
\* values, use the whole band unless they are flat and hold the last of what was
\* appended (sparkline_string, append_spark_point).
THEOREM AllSparksFollow ==
  ASSUME NEW values \in Seq(Int), NEW width \in Nat, NEW cap \in Nat
  PROVE  SparksFollow(values, width, cap)
<1> DEFINE bars == spark_text(values, width)  shown == Last_n(values, width)  n == Len(values)
           Rec(g) == g = [i \in 0..n |->
                            IF i = 0 THEN <<>> ELSE append_spark_point(g[i - 1], values[i], cap)]
           kept == CHOOSE g : Rec(g)
<1>1. /\ shown \in Seq(Int) /\ Len(shown) \in Nat
      /\ bars = IF Len(shown) < 2 THEN <<>> ELSE Scaled(shown, 7)
  BY LastIs DEF spark_text
<1>2. n \in Nat BY SeqIs
<1>3. /\ \A i, j \in DOMAIN bars : shown[i] <= shown[j] => bars[i] <= bars[j]
      /\ \A i \in DOMAIN bars : bars[i] \in 0..7
      /\ bars # <<>> /\ (\E i, j \in DOMAIN shown : shown[i] # shown[j])
           => {0, 7} \subseteq {bars[i] : i \in DOMAIN bars}
  <2> HIDE DEF bars, shown
  <2>1. CASE Len(shown) < 2 BY <1>1, <2>1
  <2>2. CASE ~(Len(shown) < 2)
    <3>1. shown # <<>> /\ 7 \in Nat /\ DOMAIN shown = 1..Len(shown) BY <1>1, <2>2
    <3>2. bars = Scaled(shown, 7) BY <1>1, <2>2
    <3>3. /\ bars \in [1..Len(shown) -> 0..7]
          /\ \A i, j \in 1..Len(shown) : shown[i] <= shown[j] => bars[i] <= bars[j]
          /\ (\E i, j \in 1..Len(shown) : shown[i] # shown[j]) =>
               /\ \E i \in 1..Len(shown) : bars[i] = 0
               /\ \E i \in 1..Len(shown) : bars[i] = 7
      <4>1. /\ Scaled(shown, 7) \in [1..Len(shown) -> 0..7]
            /\ \A i, j \in 1..Len(shown) :
                 shown[i] <= shown[j] => Scaled(shown, 7)[i] <= Scaled(shown, 7)[j]
            /\ (\E i, j \in 1..Len(shown) : shown[i] # shown[j]) =>
                 /\ \E i \in 1..Len(shown) : Scaled(shown, 7)[i] = 0
                 /\ \E i \in 1..Len(shown) : Scaled(shown, 7)[i] = 7
        BY <1>1, <3>1, ScaledIs
      <4>2. QED BY <3>2, <4>1
    <3>4. DOMAIN bars = 1..Len(shown) BY <3>3
    <3>5. QED BY <3>1, <3>3, <3>4
  <2>3. QED BY <2>1, <2>2
<1>4. \E g : Rec(g)
  <2> DEFINE F == [i \in 1..n |-> [s \in Seq(Int) |-> append_spark_point(s, values[i], cap)]]
  <2>1. F \in [1..n -> [Seq(Int) -> Seq(Int)]]
    <3> SUFFICES ASSUME NEW s \in Seq(Int), NEW i \in 1..n
                 PROVE  append_spark_point(s, values[i], cap) \in Seq(Int)
      OBVIOUS
    <3>1. Append(s, values[i]) \in Seq(Int) OBVIOUS
    <3>2. Len(Append(s, values[i])) \in Nat BY <3>1
    <3> DEFINE all == Append(s, values[i])
               start == IF cap > 0 /\ Len(all) > cap THEN Len(all) - cap + 1 ELSE 1
    <3>3. start \in 1..(Len(all) + 1) /\ start \in Nat BY <3>2
    <3>4. append_spark_point(s, values[i], cap) = SubSeq(all, start, Len(all))
      BY DEF append_spark_point
    <3> HIDE DEF all, start
    <3>5. all \in Seq(Int) /\ Len(all) \in Nat BY <3>1, <3>2 DEF all
    <3>6. SubSeq(all, start, Len(all)) \in Seq(Int) BY <3>3, <3>5
    <3>7. QED BY <3>4, <3>6
  <2>2. <<>> \in Seq(Int) OBVIOUS
  <2>3. \A s \in Seq(Int), i \in 1..n : F[i][s] = append_spark_point(s, values[i], cap)
    OBVIOUS
  <2> HIDE DEF F
  <2>4. PICK g \in [0..n -> Seq(Int)] : g[0] = <<>> /\ \A i \in 1..n : g[i] = F[i][g[i - 1]]
    <3> DEFINE V == Seq(Int)  a == <<>>
    <3>1. n \in Nat /\ a \in V /\ F \in [1..n -> [V -> V]] BY <1>2, <2>1, <2>2
    <3> HIDE DEF n, V, a
    <3>2. PICK g : Follows(g, n, V, a, F) BY <3>1, RecursionExists
    <3>3. QED BY <3>2 DEF Follows, V, a
  <2>5. ASSUME NEW i \in 0..n
        PROVE  g[i] = IF i = 0 THEN <<>> ELSE append_spark_point(g[i - 1], values[i], cap)
    <3>1. CASE i = 0 BY <2>4, <3>1
    <3>2. CASE i # 0
      <4>1. i \in 1..n /\ i - 1 \in 0..n BY <1>2, <3>2
      <4>2. g[i - 1] \in Seq(Int) BY <4>1
      <4>3. QED BY <2>3, <2>4, <3>2, <4>1, <4>2
    <3>3. QED BY <3>1, <3>2
  <2>6. g = [i \in 0..n |-> g[i]] OBVIOUS
  <2>7. Rec(g) BY <2>5, <2>6
  <2>8. QED BY <2>7
<1>5. Rec(kept) BY <1>4
<1> HIDE DEF kept
<1>6. 0..n \subseteq {i \in 0..n : kept[i] = Kept(values, cap, i)}
  <2> DEFINE Good == {i \in 0..n : kept[i] = Kept(values, cap, i)}
  <2>1. 0 \in Good
    <3>1. 0 \in 0..n BY <1>2
    <3>2. kept[0] = <<>> BY <1>5, <3>1
    <3>3. Kept(values, cap, 0) = <<>> BY <3>1, KeptIs
    <3>4. QED BY <3>1, <3>2, <3>3
  <2>2. ASSUME NEW i \in 1..n, i - 1 \in Good PROVE i \in Good
    <3>1. i \in 0..n /\ i # 0 /\ i > 0 BY <1>2
    <3>2. kept[i] = append_spark_point(kept[i - 1], values[i], cap) BY <1>5, <3>1
    <3>3. kept[i - 1] = Kept(values, cap, i - 1) BY <2>2
    <3>4. append_spark_point(Kept(values, cap, i - 1), values[i], cap) = Kept(values, cap, i)
      BY <3>1, KeptIs
    <3>5. QED BY <3>1, <3>2, <3>3, <3>4
  <2> HIDE DEF Good
  <2>3. QED BY <1>2, <2>1, <2>2, UptoInduction DEF Good
<1>7. kept[n] = IF cap = 0 THEN values ELSE Last_n(values, cap)
  <2>1. n \in 0..n BY <1>2
  <2>2. kept[n] = Kept(values, cap, n) BY <1>6, <2>1
  <2>3. QED BY <2>1, <2>2, KeptIs
<1>8. QED BY <1>3, <1>7 DEF SparksFollow, kept

-----------------------------------------------------------------------------
(***************************************************************************)
(* Profit and loss                                                         *)
(***************************************************************************)
\* The first row of a ticker, if there is one.
LEMMA ResolvedIs ==
  ASSUME NEW T, NEW rows \in Seq(Quote(T)), NEW ticker
  PROVE  /\ resolve_price(ticker, rows).price \in Figure
         /\ resolve_price(ticker, rows).previous_close \in Figure
<1> DEFINE found == {i \in DOMAIN rows : rows[i].ticker = ticker}
           at == CHOOSE i \in found : \A j \in found : i <= j
<1>1. /\ DOMAIN rows = 1..Len(rows) /\ Len(rows) \in Nat
      /\ \A i \in 1..Len(rows) : rows[i].price \in Figure /\ rows[i].previous_close \in Figure
  <2>1. \A r \in Quote(T) : r.price \in Figure /\ r.previous_close \in Figure BY DEF Quote
  <2>2. /\ DOMAIN rows = 1..Len(rows) /\ Len(rows) \in Nat
        /\ \A i \in 1..Len(rows) : rows[i] \in Quote(T)
    BY SeqIs
  <2>3. QED BY <2>1, <2>2
<1>2. found # {} => at \in found
  <2> SUFFICES ASSUME found # {} PROVE at \in found
    OBVIOUS
  <2>1. found \in SUBSET Nat BY <1>1
  <2> HIDE DEF found
  <2>2. \E i \in found : \A j \in found : i <= j BY <2>1, NatMin
  <2>3. QED BY <2>2
<1>3. /\ resolve_price(ticker, rows).price = IF found = {} THEN None ELSE rows[at].price
      /\ resolve_price(ticker, rows).previous_close
           = IF found = {} THEN None ELSE rows[at].previous_close
  BY DEF resolve_price
<1>4. found \subseteq 1..Len(rows) BY <1>1
<1> HIDE DEF found, at
<1>5. QED BY <1>1, <1>2, <1>3, <1>4 DEF Figure

Counted(v) == IF v = None THEN 0 ELSE v

LEMMA KnownIs ==
  ASSUME NEW n \in Nat, NEW f \in [1..n -> Figure]
  PROVE  /\ [k \in 1..n |-> Counted(f[k])] \in [1..n -> Int]
         /\ Known(f) = IntSum([k \in 1..n |-> Counted(f[k])])
<1> DEFINE c == [k \in 1..n |-> Counted(f[k])]
<1>1. \A v \in Figure : Counted(v) \in Int /\ (v # None => v \in Int) BY DEF Figure, Counted
<1>2. c \in [1..n -> Int] BY <1>1
<1>3. [k \in DOMAIN f |-> IF f[k] = None THEN Zero ELSE Whole(f[k])] = Integral(c)
  BY DEF Integral, Counted, Zero
<1>4. Known(f) = IntSum(c) BY <1>3 DEF Known, IntSum
<1>5. QED BY <1>2, <1>4

LEMMA NothingAddsUp ==
  ASSUME NEW n \in Nat, NEW h \in [1..n -> Int], \A k \in 1..n : h[k] = 0
  PROVE  IntSum(h) = 0
<1>1. /\ First(h, 0) = 0 /\ First(h, n) = IntSum(h)
      /\ \A k \in 1..n : First(h, k) = First(h, k - 1) + h[k]
  BY FirstSums
<1> DEFINE Good == {k \in 0..n : First(h, k) = 0}
<1>2. 0 \in Good BY <1>1
<1>3. ASSUME NEW k \in 1..n, k - 1 \in Good PROVE k \in Good
  <2>1. First(h, k) = 0 + 0 BY <1>1, <1>3
  <2>2. QED BY <2>1
<1> HIDE DEF Good
<1>4. 0..n \subseteq Good BY <1>2, <1>3, UptoInduction
<1>5. n \in Good BY <1>4
<1>6. QED BY <1>1, <1>5 DEF Good

\* The premises of IntSumLinear.
Balances(A, a, b, c, d) ==
  /\ IsFiniteSet(A)
  /\ a \in [A -> Int] /\ b \in [A -> Int] /\ c \in [A -> Int] /\ d \in [A -> Int]
  /\ \A x \in A : a[x] = b[x] - c[x] + d[x]

LEMMA BalanceAddsUp ==
  ASSUME NEW A, NEW a, NEW b, NEW c, NEW d, Balances(A, a, b, c, d)
  PROVE  IntSum(a) = IntSum(b) - IntSum(c) + IntSum(d)
<1>1. IsFiniteSet(A) BY DEF Balances
<1>2. a \in [A -> Int] /\ b \in [A -> Int] /\ c \in [A -> Int] /\ d \in [A -> Int]
  BY DEF Balances
<1>3. \A x \in A : a[x] = b[x] - c[x] + d[x] BY DEF Balances
<1>4. QED BY <1>1, <1>2, <1>3, IntSumLinear

\* The figures of the first k positions are known to sum up to those of one less
\* and the last.
LEMMA KnownGrows ==
  ASSUME NEW n \in Nat, NEW f \in [1..n -> Figure], NEW k \in 1..n
  PROVE  /\ Known(Part(f, 1..k)) = Known(Part(f, 1..(k - 1))) + Counted(f[k])
         /\ Known(Part(f, 1..k)) \in Int /\ Known(Part(f, 1..(k - 1))) \in Int
<1> DEFINE c == [j \in 1..n |-> Counted(f[j])]
<1>1. c \in [1..n -> Int] BY KnownIs
<1>2. ASSUME NEW m \in 0..n PROVE Known(Part(f, 1..m)) = First(c, m)
  <2>1. m \in Nat /\ 1..m \subseteq 1..n OBVIOUS
  <2>2. Part(f, 1..m) \in [1..m -> Figure] BY <2>1 DEF Part
  <2>3. Known(Part(f, 1..m)) = IntSum([j \in 1..m |-> Counted(Part(f, 1..m)[j])])
    BY <2>1, <2>2, KnownIs
  <2>4. [j \in 1..m |-> Counted(Part(f, 1..m)[j])] = Part(c, 1..m) BY <2>1 DEF Part
  <2>5. QED BY <2>3, <2>4 DEF First
<1> HIDE DEF c
<1>3. First(c, k) = First(c, k - 1) + c[k] /\ First(c, k) \in Int /\ First(c, k - 1) \in Int
  <2>1. k \in 0..n /\ k - 1 \in 0..n OBVIOUS
  <2>2. QED BY <1>1, <2>1, FirstSums
<1>4. Known(Part(f, 1..k)) = First(c, k) /\ Known(Part(f, 1..(k - 1))) = First(c, k - 1)
  <2>1. k \in 0..n /\ k - 1 \in 0..n OBVIOUS
  <2>2. QED BY <1>2, <2>1
<1>5. c[k] = Counted(f[k]) BY DEF c
<1>6. QED BY <1>3, <1>4, <1>5

LEMMA PrefixIs ==
  ASSUME NEW T, NEW s \in Seq(T), NEW m \in 0..Len(s)
  PROVE  DOMAIN SubSeq(s, 1, m) = 1..m /\ \A k \in 1..m : SubSeq(s, 1, m)[k] = s[k]
OBVIOUS

\* Whatever is held and whatever the table shows, the totals add up: each
\* position adds its own figures, the day's change is today's less yesterday's
\* value of the positions that have both, profit is value less cost but for the
\* cost of what has no price, totals are stored just when every position has one,
\* and then the modal's return of the stored value is the dashboard's profit
\* (summarize, persistable_totals, series_return).
THEOREM AllTotalsAddUp ==
  ASSUME NEW T, NEW U, NEW holdings \in Seq([ticker : U, shares : Int, avg_cost : Int]),
         NEW rows \in Seq(Quote(T))
  PROVE  TotalsAddUp(holdings, rows)
<1> DEFINE n == Len(holdings)
           positions == portfolio_positions(holdings, rows)
           s == summarize(positions)
           unpriced == {k \in DOMAIN positions : positions[k].market_value = None}
           lost == [k \in DOMAIN holdings |->
                      IF k \in unpriced THEN holdings[k].shares * holdings[k].avg_cost ELSE 0]
           missing == Known(lost)
           saved == persistable_totals(positions)
           cost == [k \in 1..n |-> holdings[k].shares * holdings[k].avg_cost]
           value == [k \in 1..n |-> positions[k].market_value]
           pnl == [k \in 1..n |-> positions[k].unrealized_pnl]
           change == [k \in 1..n |-> positions[k].day_change]
           known == {k \in DOMAIN positions : positions[k].day_change # None}
           Worth(field) == [k \in DOMAIN holdings |->
             IF k \in known
               THEN holdings[k].shares * resolve_price(holdings[k].ticker, rows)[field] ELSE 0]
           today == Worth("price")
           yesterday == Worth("previous_close")
           C(f) == [k \in 1..n |-> Counted(f[k])]
<1>0. None \notin Int /\ None \notin Int \X Int BY FiguresAssumption
<1>1. /\ n \in Nat /\ DOMAIN holdings = 1..n
      /\ \A k \in 1..n : holdings[k].shares \in Int /\ holdings[k].avg_cost \in Int
      /\ holdings = <<>> <=> n = 0
  <2>1. \A h \in [ticker : U, shares : Int, avg_cost : Int] :
          h.shares \in Int /\ h.avg_cost \in Int
    OBVIOUS
  <2>2. /\ n \in Nat /\ DOMAIN holdings = 1..n
        /\ \A k \in 1..n : holdings[k] \in [ticker : U, shares : Int, avg_cost : Int]
        /\ holdings # <<>> <=> n > 0
    BY SeqIs
  <2> HIDE DEF n
  <2>3. holdings = <<>> <=> n = 0 BY <2>2
  <2>4. QED BY <2>1, <2>2, <2>3
<1> HIDE DEF n
<1> DEFINE price(k) == resolve_price(holdings[k].ticker, rows).price
           close(k) == resolve_price(holdings[k].ticker, rows).previous_close
<1>2. \A k \in 1..n : price(k) \in Figure /\ close(k) \in Figure BY ResolvedIs
<1>3. /\ today = [k \in 1..n |-> IF k \in known THEN holdings[k].shares * price(k) ELSE 0]
      /\ yesterday = [k \in 1..n |-> IF k \in known THEN holdings[k].shares * close(k) ELSE 0]
  <2>1. \A k \in 1..n : /\ resolve_price(holdings[k].ticker, rows)["price"] = price(k)
                        /\ resolve_price(holdings[k].ticker, rows)["previous_close"] = close(k)
    OBVIOUS
  <2> HIDE DEF price, close, known
  <2>2. QED BY <1>1, <2>1
<1> HIDE DEF Worth
<1>4. /\ DOMAIN positions = 1..n
      /\ \A k \in 1..n : positions[k] = value_position(holdings[k], price(k), close(k))
  BY <1>1 DEF portfolio_positions
<1> HIDE DEF price, close, positions
<1>5. ASSUME NEW k \in 1..n
      PROVE  /\ positions[k].holding = holdings[k]
             /\ price(k) = None => /\ positions[k].market_value = None
                                   /\ positions[k].unrealized_pnl = None
             /\ price(k) # None =>
                  /\ positions[k].market_value = holdings[k].shares * price(k)
                  /\ positions[k].unrealized_pnl
                       = holdings[k].shares * (price(k) - holdings[k].avg_cost)
  BY <1>4 DEF value_position
<1>6. ASSUME NEW k \in 1..n
      PROVE  /\ cost[k] \in Int /\ value[k] \in Figure /\ pnl[k] \in Figure
             /\ k \in unpriced <=> value[k] = None
             /\ lost[k] = IF k \in unpriced THEN cost[k] ELSE 0
             /\ Counted(pnl[k]) = Counted(value[k]) - Counted(cost[k]) + Counted(lost[k])
  <2> DEFINE sh == holdings[k].shares  av == holdings[k].avg_cost  pr == price(k)
  <2>1. sh \in Int /\ av \in Int /\ sh * av \in Int /\ cost[k] = sh * av BY <1>1
  <2>2. k \in unpriced <=> value[k] = None BY <1>4
  <2>3. lost[k] = IF k \in unpriced THEN sh * av ELSE 0 BY <1>1
  <2>4. value[k] = positions[k].market_value /\ pnl[k] = positions[k].unrealized_pnl OBVIOUS
  <2> HIDE DEF sh, av, cost, value, pnl, lost, unpriced
  <2>5. CASE pr = None
    <3>1. value[k] = None /\ pnl[k] = None BY <1>5, <2>4, <2>5
    <3>2. lost[k] = sh * av BY <2>2, <2>3, <3>1
    <3>3. Counted(cost[k]) = sh * av /\ Counted(lost[k]) = sh * av
          /\ Counted(value[k]) = 0 /\ Counted(pnl[k]) = 0
      BY <1>0, <2>1, <3>1, <3>2 DEF Counted
    <3>4. 0 = 0 - sh * av + sh * av BY <2>1
    <3>5. QED BY <2>1, <2>2, <2>3, <3>1, <3>3, <3>4 DEF Figure
  <2>6. CASE pr # None
    <3>1. pr \in Int BY <1>2, <2>6 DEF Figure
    <3>2. value[k] = sh * pr /\ pnl[k] = sh * (pr - av) BY <1>5, <2>4, <2>6 DEF sh, av
    <3> HIDE DEF pr
    <3>3. sh * pr \in Int /\ sh * (pr - av) \in Int /\ sh * (pr - av) = sh * pr - sh * av
      BY <2>1, <3>1
    <3>4. value[k] # None /\ lost[k] = 0 BY <1>0, <2>2, <2>3, <3>2, <3>3
    <3>5. Counted(cost[k]) = sh * av /\ Counted(lost[k]) = 0
          /\ Counted(value[k]) = sh * pr /\ Counted(pnl[k]) = sh * (pr - av)
      BY <1>0, <2>1, <3>2, <3>3, <3>4 DEF Counted
    <3>6. QED BY <2>1, <2>2, <2>3, <3>2, <3>3, <3>4, <3>5 DEF Figure
  <2>7. QED BY <2>5, <2>6
<1>7. /\ cost \in [1..n -> Figure] /\ value \in [1..n -> Figure] /\ pnl \in [1..n -> Figure]
      /\ lost \in [1..n -> Figure]
  <2>0. \A k \in 1..n : cost[k] \in Int /\ lost[k] = IF k \in unpriced THEN cost[k] ELSE 0
    BY <1>6
  <2>1. \A k \in 1..n : lost[k] \in Figure
    <3> HIDE DEF lost, cost, unpriced
    <3>1. QED BY <2>0 DEF Figure
  <2>2. DOMAIN lost = 1..n /\ lost = [k \in 1..n |-> lost[k]] BY <1>1
  <2> HIDE DEF lost, unpriced
  <2>3. lost \in [1..n -> Figure] BY <2>1, <2>2
  <2>4. QED BY <1>6, <2>3 DEF Figure
<1>8. /\ s.total_cost = Known(cost) /\ s.total_market_value = Known(value)
      /\ s.total_pnl = Known(pnl) /\ s.total_pnl_pct = Pct(s.total_pnl, s.total_cost)
  <2>1. [k \in DOMAIN positions |-> positions[k].holding.shares * positions[k].holding.avg_cost]
          = cost
    BY <1>4, <1>5
  <2>2. QED BY <1>4, <2>1 DEF summarize
<1>9. ASSUME NEW k \in 1..n
      PROVE  /\ change[k] \in Figure /\ today[k] \in Figure /\ yesterday[k] \in Figure
             /\ Counted(change[k]) = Counted(today[k]) - Counted(yesterday[k]) + 0
  <2> DEFINE sh == holdings[k].shares  pr == price(k)  cl == close(k)
  <2>1. sh \in Int BY <1>1
  <2>2. /\ change[k] = IF pr # None /\ cl # None THEN sh * (pr - cl) ELSE None
        /\ k \in known <=> change[k] # None
    BY <1>4 DEF value_position
  <2>3. /\ today[k] = IF k \in known THEN sh * pr ELSE 0
        /\ yesterday[k] = IF k \in known THEN sh * cl ELSE 0
    BY <1>3
  <2> HIDE DEF sh, change, today, yesterday, known
  <2>4. CASE pr = None \/ cl = None
    <3>1. change[k] = None /\ today[k] = 0 /\ yesterday[k] = 0 BY <2>2, <2>3, <2>4
    <3>2. QED BY <1>0, <3>1 DEF Counted, Figure
  <2>5. CASE ~(pr = None \/ cl = None)
    <3>1. pr \in Int /\ cl \in Int BY <1>2, <2>5 DEF Figure
    <3> HIDE DEF pr, cl
    <3>2. sh * pr \in Int /\ sh * cl \in Int /\ sh * (pr - cl) \in Int
          /\ sh * (pr - cl) = sh * pr - sh * cl
      BY <2>1, <3>1
    <3>3. change[k] = sh * (pr - cl) /\ today[k] = sh * pr /\ yesterday[k] = sh * cl
      BY <1>0, <2>2, <2>3, <2>5, <3>2
    <3>4. /\ Counted(change[k]) = sh * (pr - cl) /\ Counted(today[k]) = sh * pr
          /\ Counted(yesterday[k]) = sh * cl
      BY <1>0, <3>2, <3>3 DEF Counted
    <3>5. QED BY <3>2, <3>3, <3>4 DEF Figure
  <2>6. QED BY <2>4, <2>5
<1>10. /\ change \in [1..n -> Figure] /\ today \in [1..n -> Figure]
      /\ yesterday \in [1..n -> Figure]
  <2>1. change = [k \in 1..n |-> change[k]] /\ today = [k \in 1..n |-> today[k]]
        /\ yesterday = [k \in 1..n |-> yesterday[k]]
    BY <1>3
  <2> HIDE DEF change, today, yesterday
  <2>2. \A k \in 1..n : change[k] \in Figure /\ today[k] \in Figure /\ yesterday[k] \in Figure
    BY <1>9
  <2>3. QED BY <2>1, <2>2
<1> HIDE DEF s, saved, unpriced, lost, cost, value, pnl, change, today, yesterday, known
<1>11. /\ C(cost) \in [1..n -> Int] /\ C(value) \in [1..n -> Int]
      /\ C(pnl) \in [1..n -> Int] /\ C(lost) \in [1..n -> Int]
      /\ Known(cost) = IntSum(C(cost)) /\ Known(value) = IntSum(C(value))
      /\ Known(pnl) = IntSum(C(pnl)) /\ missing = IntSum(C(lost))
  BY <1>1, <1>7, KnownIs
<1>12. s.total_pnl = s.total_market_value - s.total_cost + missing
  <2> DEFINE a == C(pnl)  b == C(value)  c == C(cost)  d == C(lost)
  <2>1. \A k \in 1..n : a[k] = b[k] - c[k] + d[k] BY <1>6
  <2>2. a \in [1..n -> Int] /\ b \in [1..n -> Int] /\ c \in [1..n -> Int] /\ d \in [1..n -> Int]
    BY <1>11
  <2>3. /\ s.total_pnl = IntSum(a) /\ s.total_market_value = IntSum(b)
        /\ s.total_cost = IntSum(c) /\ missing = IntSum(d)
    BY <1>8, <1>11
  <2>4. IsFiniteSet(1..n) BY <1>1, FS_Interval
  <2> HIDE DEF a, b, c, d, missing
  <2>5. IntSum(a) = IntSum(b) - IntSum(c) + IntSum(d)
    <3> DEFINE A == 1..n
    <3>1. \A k \in A : a[k] = b[k] - c[k] + d[k] BY <2>1
    <3>2. a \in [A -> Int] /\ b \in [A -> Int] /\ c \in [A -> Int] /\ d \in [A -> Int] BY <2>2
    <3>3. IsFiniteSet(A) BY <2>4
    <3> HIDE DEF A
    <3>4. Balances(A, a, b, c, d) BY <3>1, <3>2, <3>3 DEF Balances
    <3>5. QED BY <3>4, BalanceAddsUp
  <2>6. QED BY <2>3, <2>5
<1>13. s.total_cost \in Int /\ s.total_market_value \in Int
  <2>1. IsFiniteSet(1..n) BY <1>1, FS_Interval
  <2> HIDE DEF C
  <2>2. QED BY <1>8, <1>11, <2>1, IntSumIs
<1>14. saved = IF n = 0 \/ unpriced # {} THEN None ELSE <<s.total_market_value, s.total_cost>>
  <2>1. positions = <<>> <=> n = 0
    <3>1. positions = [k \in 1..n |-> positions[k]] BY <1>1, <1>4 DEF positions, portfolio_positions
    <3>2. positions \in Seq({positions[k] : k \in 1..n}) /\ Len(positions) = n BY <1>1, <3>1, ListIs
    <3>3. QED BY <1>1, <3>2
  <2>2. (\E k \in DOMAIN positions : positions[k].market_value = None) <=> unpriced # {}
    BY DEF unpriced
  <2>3. QED BY <2>1, <2>2 DEF persistable_totals, saved, s
<1>15. saved = None <=> holdings = <<>> \/ unpriced # {}
  <2>1. <<s.total_market_value, s.total_cost>> \in Int \X Int BY <1>13
  <2>2. QED BY <1>0, <1>1, <1>14, <2>1
<1>16. ASSUME saved # None
       PROVE  /\ missing = 0
              /\ series_return(<<0, saved[1]>>, saved[2])
                   = [latest_value |-> s.total_market_value, total_pnl |-> s.total_pnl,
                      total_pnl_pct |-> s.total_pnl_pct]
  <2>1. unpriced = {} /\ saved = <<s.total_market_value, s.total_cost>> BY <1>14, <1>16
  <2>2. missing = 0
    <3>1. \A k \in 1..n : C(lost)[k] = 0
      <4>1. \A k \in 1..n : lost[k] = 0 BY <1>6, <2>1
      <4>2. QED BY <1>0, <4>1 DEF Counted
    <3> HIDE DEF C
    <3>2. QED BY <1>1, <1>11, <3>1, NothingAddsUp
  <2>3. s.total_market_value - s.total_cost = s.total_pnl
    <3> HIDE DEF missing
    <3>1. s.total_pnl = s.total_market_value - s.total_cost + 0 BY <1>12, <2>2
    <3>2. QED BY <1>13, <3>1
  <2>4. saved[1] = s.total_market_value /\ saved[2] = s.total_cost BY <2>1
  <2>5. series_return(<<0, s.total_market_value>>, s.total_cost)
          = [latest_value |-> s.total_market_value,
             total_pnl |-> s.total_market_value - s.total_cost,
             total_pnl_pct |-> Pct(s.total_market_value - s.total_cost, s.total_cost)]
    BY DEF series_return
  <2>6. QED BY <1>8, <2>2, <2>3, <2>4, <2>5
<1>17. ASSUME NEW k \in 1..n
       PROVE  LET p == positions[k]
                  before == summarize(SubSeq(positions, 1, k - 1))
                  after == summarize(SubSeq(positions, 1, k))
              IN  /\ after.total_cost = before.total_cost + Counted(p.holding.shares * p.holding.avg_cost)
                  /\ after.total_market_value = before.total_market_value + Counted(p.market_value)
                  /\ after.total_pnl = before.total_pnl + Counted(p.unrealized_pnl)
                  /\ after.total_day_change = before.total_day_change + Counted(p.day_change)
  <2>1. positions \in Seq({positions[j] : j \in 1..n}) /\ Len(positions) = n
    <3>1. positions = [j \in 1..n |-> positions[j]] BY <1>1 DEF positions, portfolio_positions
    <3>2. [j \in 1..n |-> positions[j]] \in [1..n -> {positions[j] : j \in 1..n}] OBVIOUS
    <3> HIDE DEF positions
    <3>3. QED BY <1>1, <3>1, <3>2, ListIs
  <2>2. ASSUME NEW m \in 0..n
        PROVE  LET u == summarize(SubSeq(positions, 1, m))
               IN  /\ u.total_cost = Known(Part(cost, 1..m))
                   /\ u.total_market_value = Known(Part(value, 1..m))
                   /\ u.total_pnl = Known(Part(pnl, 1..m))
                   /\ u.total_day_change = Known(Part(change, 1..m))
    <3> DEFINE some == SubSeq(positions, 1, m)
    <3>1. DOMAIN some = 1..m /\ \A j \in 1..m : some[j] = positions[j] BY <2>1, PrefixIs
    <3> HIDE DEF some
    <3>2. \A j \in 1..m : j \in 1..n BY <1>1
    <3>3. /\ [j \in DOMAIN some |-> some[j].holding.shares * some[j].holding.avg_cost]
               = Part(cost, 1..m)
          /\ [j \in DOMAIN some |-> some[j].market_value] = Part(value, 1..m)
          /\ [j \in DOMAIN some |-> some[j].unrealized_pnl] = Part(pnl, 1..m)
          /\ [j \in DOMAIN some |-> some[j].day_change] = Part(change, 1..m)
      BY <1>5, <3>1, <3>2 DEF Part, cost, value, pnl, change
    <3>4. QED BY <3>3 DEF summarize, some
  <2>3. k \in 0..n /\ k - 1 \in 0..n BY <1>1
  <2>4. /\ cost[k] = positions[k].holding.shares * positions[k].holding.avg_cost
        /\ value[k] = positions[k].market_value /\ pnl[k] = positions[k].unrealized_pnl
        /\ change[k] = positions[k].day_change
    BY <1>5 DEF cost, value, pnl, change
  <2> HIDE DEF positions
  <2>5. /\ Known(Part(cost, 1..k)) = Known(Part(cost, 1..(k - 1))) + Counted(cost[k])
        /\ Known(Part(value, 1..k)) = Known(Part(value, 1..(k - 1))) + Counted(value[k])
        /\ Known(Part(pnl, 1..k)) = Known(Part(pnl, 1..(k - 1))) + Counted(pnl[k])
        /\ Known(Part(change, 1..k)) = Known(Part(change, 1..(k - 1))) + Counted(change[k])
    BY <1>1, <1>7, <1>10, KnownGrows
  <2>6. QED BY <2>2, <2>3, <2>4, <2>5
<1>18. s.total_day_change = Known(today) - Known(yesterday)
  <2> DEFINE a == C(change)  b == C(today)  c == C(yesterday)  d == [k \in 1..n |-> 0]
  <2>1. \A k \in 1..n : a[k] = b[k] - c[k] + d[k] BY <1>9
  <2>2. /\ a \in [1..n -> Int] /\ b \in [1..n -> Int] /\ c \in [1..n -> Int]
        /\ Known(change) = IntSum(a) /\ Known(today) = IntSum(b) /\ Known(yesterday) = IntSum(c)
    BY <1>1, <1>10, KnownIs
  <2>3. d \in [1..n -> Int] /\ IntSum(d) = 0
    <3>1. \A k \in 1..n : d[k] = 0 OBVIOUS
    <3>2. d \in [1..n -> Int] OBVIOUS
    <3> HIDE DEF d
    <3>3. QED BY <1>1, <3>1, <3>2, NothingAddsUp
  <2>4. IsFiniteSet(1..n) BY <1>1, FS_Interval
  <2>5. s.total_day_change = Known(change) BY <1>4 DEF summarize, s, change
  <2> HIDE DEF a, b, c, d
  <2>6. IntSum(a) = IntSum(b) - IntSum(c) + IntSum(d)
    <3> DEFINE A == 1..n
    <3>1. \A k \in A : a[k] = b[k] - c[k] + d[k] BY <2>1
    <3>2. a \in [A -> Int] /\ b \in [A -> Int] /\ c \in [A -> Int] /\ d \in [A -> Int]
      BY <2>2, <2>3
    <3>3. IsFiniteSet(A) BY <2>4
    <3> HIDE DEF A
    <3>4. Balances(A, a, b, c, d) BY <3>1, <3>2, <3>3 DEF Balances
    <3>5. QED BY <3>4, BalanceAddsUp
  <2>7. IntSum(b) \in Int /\ IntSum(c) \in Int BY <2>2, <2>4, IntSumIs
  <2>8. QED BY <2>2, <2>3, <2>5, <2>6, <2>7
<1>19. \A k \in 1..n :
         LET p == positions[k]
             before == summarize(SubSeq(positions, 1, k - 1))
             after == summarize(SubSeq(positions, 1, k))
             Adds(x, y, added) == x = y + (IF added = None THEN 0 ELSE added)
         IN  /\ Adds(after.total_cost, before.total_cost, p.holding.shares * p.holding.avg_cost)
             /\ Adds(after.total_market_value, before.total_market_value, p.market_value)
             /\ Adds(after.total_pnl, before.total_pnl, p.unrealized_pnl)
             /\ Adds(after.total_day_change, before.total_day_change, p.day_change)
  BY <1>17 DEF Counted
<1>20. QED
  BY <1>4, <1>12, <1>15, <1>16, <1>18, <1>19
  DEF TotalsAddUp, s, saved, unpriced, lost, positions, today, yesterday, known, Worth

-----------------------------------------------------------------------------
(***************************************************************************)
(* Room                                                                    *)
(***************************************************************************)
\* However high the room, whatever the list and wherever the cursor: the price
\* keeps its six cells, the list shows the row that is selected and wastes no
\* room, and the log its last lines (chart_modal's heights, draw_news,
\* draw_manage's sections, draw_logs).
THEOREM AllRoomIsShared ==
  ASSUME NEW height \in Nat, NEW count \in Nat, NEW cursor \in Nat
  PROVE  RoomIsShared(height, count, cursor)
<1>1. ASSUME NEW volume \in BOOLEAN, NEW rsi \in BOOLEAN
      PROVE  LET panels == ChartPanels(volume, rsi, height)
             IN  panels.volume + panels.rsi > 0 => panels.price >= 6
  <2> DEFINE v == IF volume /\ height >= 14 THEN 7 ELSE 0
             r == IF rsi /\ height >= 14 + v THEN 8 ELSE 0
  <2>1. ChartPanels(volume, rsi, height) = [volume |-> v, rsi |-> r, price |-> height - v - r]
    BY DEF ChartPanels
  <2>2. v + r > 0 => height - v - r >= 6 OBVIOUS
  <2> HIDE DEF v, r
  <2>3. QED BY <2>1, <2>2
<1>2. ASSUME count > 0
      PROVE  LET w == NewsWindow(count, cursor, height)
             IN  /\ w.first <= w.selected /\ w.selected <= w.last
                 /\ w.last - w.first + 1 = Atmost(Atleast(height, 1), count)
                 /\ cursor < count => w.selected = cursor
  <2> DEFINE sel == Atmost(cursor, count - 1)  h == Atleast(height, 1)
             start == IF sel >= h THEN sel + 1 - h ELSE 0
             end == Atmost(start + h, count) - 1
  <2>1. NewsWindow(count, cursor, height) = [selected |-> sel, first |-> start, last |-> end]
    BY DEF NewsWindow
  <2>2. /\ sel \in 0..(count - 1) /\ (cursor < count => sel = cursor)
        /\ h \in Nat /\ h >= 1
    BY <1>2 DEF Atmost, Atleast
  <2> HIDE DEF sel, h
  <2>3. /\ start <= sel /\ sel <= end /\ end - start + 1 = Atmost(h, count)
    BY <2>2 DEF Atmost
  <2> HIDE DEF start, end
  <2>4. QED BY <2>1, <2>2, <2>3 DEF h
<1>3. LET section == ManageList(count, cursor, TRUE, FALSE, TRUE)
      IN  section.selected = None <=> section.list = "press a to add"
  <2>1. Atmost(cursor, count - 1) # None
    <3>1. Atmost(cursor, count - 1) \in Int BY DEF Atmost
    <3>2. QED BY <3>1, FiguresAssumption
  <2>2. QED BY <2>1 DEF ManageList
<1>4. LET lines == LogLines([n \in 1..count |-> n], height)
      IN  Len(lines) = Atmost(count, Atleast(height - 2, 0))
            /\ (lines # <<>> => lines[Len(lines)] = count)
  <2> DEFINE logs == [n \in 1..count |-> n]  keep == Atleast(height - 2, 0)
             lines == Last_n(logs, keep)
  <2>1. keep \in Nat BY DEF Atleast
  <2>2. logs \in Seq(Nat) /\ Len(logs) = count /\ \A n \in 1..count : logs[n] = n
    <3>1. logs \in [1..count -> Nat] OBVIOUS
    <3>2. QED BY <3>1, ListIs
  <2> HIDE DEF logs, keep
  <2>3. /\ lines \in Seq(Nat) /\ Len(lines) = Atmost(keep, Len(logs))
        /\ \A i \in 1..Len(lines) : lines[i] = logs[Len(logs) - Len(lines) + i]
    BY <2>1, <2>2, LastIs
  <2>4. Atmost(keep, count) = Atmost(count, keep) BY <2>1 DEF Atmost
  <2>5. lines # <<>> => Len(lines) \in 1..Len(lines) BY <2>3
  <2>6. lines # <<>> => lines[Len(lines)] = count
    <3> HIDE DEF lines
    <3> SUFFICES ASSUME lines # <<>> PROVE lines[Len(lines)] = count
      OBVIOUS
    <3>1. Len(lines) \in Nat BY <2>3
    <3>2. lines[Len(lines)] = logs[Len(logs) - Len(lines) + Len(lines)] BY <2>3, <2>5
    <3>3. Len(logs) - Len(lines) + Len(lines) = count BY <2>2, <3>1
    <3>4. count \in 1..count
      <4>1. Len(lines) <= count /\ Len(lines) >= 1
        BY <2>1, <2>2, <2>3, <2>5 DEF Atmost
      <4>2. QED BY <3>1, <4>1
    <3>5. QED BY <2>2, <3>2, <3>3, <3>4
  <2>7. LogLines(logs, height) = lines BY DEF LogLines, keep
  <2> HIDE DEF lines
  <2>8. /\ Len(LogLines(logs, height)) = Atmost(count, keep)
        /\ LogLines(logs, height) # <<>>
             => LogLines(logs, height)[Len(LogLines(logs, height))] = count
    BY <2>2, <2>3, <2>4, <2>6, <2>7
  <2>9. QED BY <2>8 DEF logs, keep
<1>5. QED BY <1>1, <1>2, <1>3, <1>4 DEF RoomIsShared

-----------------------------------------------------------------------------
(***************************************************************************)
(* Ranks                                                                   *)
(*                                                                         *)
(* The place of an element in a finite set under a strict total order, the *)
(* number of those not after it, numbers the set from one without a gap.   *)
(***************************************************************************)
Before(S, R, i) == {j \in S : j = i \/ <<j, i>> \in R}
Place(S, R) == [i \in S |-> Cardinality(Before(S, R, i))]

StrictOrder(S, R) ==
  /\ \A i, j \in S : i # j => (<<i, j>> \in R <=> <<j, i>> \notin R)
  /\ \A i, j, k \in S : <<i, j>> \in R /\ <<j, k>> \in R => <<i, k>> \in R
  /\ \A i \in S : <<i, i>> \notin R

LEMMA PlacesRise ==
  ASSUME NEW S, IsFiniteSet(S), NEW R, StrictOrder(S, R)
  PROVE  /\ \A i \in S : Place(S, R)[i] \in 1..Cardinality(S)
         /\ \A i, j \in S : <<i, j>> \in R <=> Place(S, R)[i] < Place(S, R)[j]
<1> DEFINE P == Place(S, R)
<1>0. Cardinality(S) \in Nat BY FS_CardinalityType
<1>1. ASSUME NEW i \in S
      PROVE  /\ P[i] = Cardinality(Before(S, R, i)) /\ Before(S, R, i) \subseteq S
             /\ IsFiniteSet(Before(S, R, i)) /\ P[i] \in 1..Cardinality(S)
  <2> DEFINE B == Before(S, R, i)
  <2>1. B \in SUBSET S /\ i \in B /\ P[i] = Cardinality(B) BY DEF Before, Place
  <2> HIDE DEF B, P
  <2>2. IsFiniteSet(B) /\ Cardinality(B) <= Cardinality(S) BY <2>1, FS_Subset
  <2>3. Cardinality(B) \in Nat /\ (Cardinality(B) = 0 <=> B = {})
    BY <2>2, FS_CardinalityType, FS_EmptySet
  <2>4. Cardinality(B) >= 1 BY <2>1, <2>3
  <2>5. QED BY <1>0, <2>1, <2>2, <2>3, <2>4 DEF B
<1>2. ASSUME NEW i \in S, NEW j \in S, <<i, j>> \in R
      PROVE  P[i] < P[j]
  <2> DEFINE B == Before(S, R, i)  C == Before(S, R, j)
  <2>1. B \subseteq C BY <1>2 DEF StrictOrder, Before
  <2>2. j \in C /\ j \notin B
    <3>1. i # j /\ <<j, i>> \notin R BY <1>2 DEF StrictOrder
    <3>2. QED BY <3>1 DEF Before
  <2>3. IsFiniteSet(C) BY <1>1
  <2>4. P[i] = Cardinality(B) /\ P[j] = Cardinality(C) BY <1>1
  <2> HIDE DEF B, C, P
  <2>5. B # C BY <2>2
  <2>6. Cardinality(B) <= Cardinality(C) /\ (Cardinality(B) = Cardinality(C) => B = C)
        /\ Cardinality(B) \in Nat /\ Cardinality(C) \in Nat
    BY <2>1, <2>3, FS_Subset, FS_CardinalityType
  <2>7. QED BY <2>4, <2>5, <2>6
<1>3. ASSUME NEW i \in S, NEW j \in S, P[i] < P[j]
      PROVE  <<i, j>> \in R
  <2>1. P[i] \in Int /\ P[j] \in Int BY <1>1
  <2>2. i # j BY <1>3, <2>1
  <2>3. CASE <<j, i>> \in R
    <3>1. P[j] < P[i] BY <1>2, <2>3
    <3>2. QED BY <1>3, <2>1, <3>1
  <2>4. QED BY <2>2, <2>3 DEF StrictOrder
<1>4. QED BY <1>1, <1>2, <1>3

\* Every place up to the size of the set is somebody's.
LEMMA PlacesNumber ==
  ASSUME NEW S, IsFiniteSet(S), NEW R, StrictOrder(S, R)
  PROVE  /\ Place(S, R) \in Bijection(S, 1..Cardinality(S))
         /\ \A n \in 1..Cardinality(S) : \E i \in S : Place(S, R)[i] = n
<1> DEFINE P == Place(S, R)  T == 1..Cardinality(S)
<1>1. Cardinality(S) \in Nat BY FS_CardinalityType
<1>2. /\ \A i \in S : P[i] \in T
      /\ \A i, j \in S : <<i, j>> \in R <=> P[i] < P[j]
  BY PlacesRise
<1>3. P \in [S -> T] BY <1>2 DEF Place
<1>4. IsFiniteSet(T) /\ Cardinality(T) = Cardinality(S)
  <2>1. IsFiniteSet(1..Cardinality(S)) /\ Cardinality(1..Cardinality(S)) = Cardinality(S)
    BY <1>1, FS_Interval
  <2>2. QED BY <2>1
<1>5. ASSUME NEW i \in S, NEW j \in S, P[i] = P[j] PROVE i = j
  <2>1. P[i] \in Int BY <1>1, <1>2
  <2> HIDE DEF P
  <2>2. <<i, j>> \notin R /\ <<j, i>> \notin R BY <1>2, <1>5, <2>1
  <2>3. QED BY <2>2 DEF StrictOrder
<1> HIDE DEF P, T
<1>6. P \in Injection(S, T) BY <1>3, <1>5 DEF Injection, IsInjective
<1>7. P \in Surjection(S, T) BY <1>4, <1>6, FS_Injection, FS_Surjection
<1>8. P \in Bijection(S, T) BY <1>6, <1>7 DEF Bijection
<1>9. QED BY <1>7, <1>8 DEF Surjection, P, T

\* The first limit places of a ranking, and who has each.
LEMMA RankedIs ==
  ASSUME NEW S, IsFiniteSet(S), NEW R, StrictOrder(S, R), NEW limit \in Nat,
         NEW shown, shown = {i \in S : Place(S, R)[i] <= limit}
  PROVE  /\ IsFiniteSet(shown) /\ Cardinality(shown) = Atmost(limit, Cardinality(S))
         /\ Cardinality(shown) \in Nat
         /\ \A n \in 1..Cardinality(shown) : \E i \in shown : Place(S, R)[i] = n
<1> DEFINE P == Place(S, R)  m == Atmost(limit, Cardinality(S))
<1>1. Cardinality(S) \in Nat BY FS_CardinalityType
<1>2. m \in Nat /\ m <= limit /\ m <= Cardinality(S)
      /\ (m < limit => m = Cardinality(S))
  BY <1>1 DEF Atmost
<1>3. /\ \A i \in S : P[i] \in 1..Cardinality(S)
      /\ \A i, j \in S : <<i, j>> \in R <=> P[i] < P[j]
      /\ \A n \in 1..Cardinality(S) : \E i \in S : P[i] = n
  BY PlacesRise, PlacesNumber
<1> HIDE DEF P, m
<1>4. shown = {i \in S : P[i] \in 1..m} BY <1>1, <1>2, <1>3 DEF P
<1>5. \A n \in 1..m : \E i \in shown : P[i] = n
  <2>1. \A n \in 1..m : n \in 1..Cardinality(S) BY <1>1, <1>2
  <2>2. QED BY <1>3, <1>4, <2>1
<1> DEFINE f == [i \in shown |-> P[i]]
<1>6. f \in [shown -> 1..m] /\ \A i \in shown : f[i] = P[i] BY <1>4
<1>7. ASSUME NEW i \in shown, NEW j \in shown, f[i] = f[j] PROVE i = j
  <2>1. i \in S /\ j \in S /\ P[i] = P[j] /\ P[i] \in 1..Cardinality(S)
    BY <1>3, <1>4, <1>6, <1>7
  <2>2. P[i] \in Int BY <1>1, <2>1
  <2>3. <<i, j>> \notin R /\ <<j, i>> \notin R BY <1>3, <2>1, <2>2
  <2>4. QED BY <2>1, <2>3 DEF StrictOrder
<1> HIDE DEF f
<1>8. f \in Injection(shown, 1..m) BY <1>6, <1>7 DEF Injection, IsInjective
<1>9. f \in Surjection(shown, 1..m) BY <1>5, <1>6 DEF Surjection
<1>10. IsFiniteSet(1..m) /\ Cardinality(1..m) = m BY <1>2, FS_Interval
<1>11. IsFiniteSet(shown) BY <1>8, <1>10, FS_Injection
<1>12. Cardinality(shown) = m BY <1>8, <1>9, <1>10, FS_Injection
<1>13. QED BY <1>2, <1>5, <1>11, <1>12 DEF m, P

-----------------------------------------------------------------------------
(***************************************************************************)
(* The options modal and the Sectors page                                  *)
(***************************************************************************)
\* Places by a key, equals in the order of their numbers.
ByKey(S, key) ==
  {p \in S \X S : key[p[1]] < key[p[2]] \/ (key[p[1]] = key[p[2]] /\ p[1] < p[2])}

LEMMA ByKeyIs ==
  ASSUME NEW S \in SUBSET Int, NEW key \in [S -> Int]
  PROVE  /\ StrictOrder(S, ByKey(S, key))
         /\ \A i, j \in S : <<i, j>> \in ByKey(S, key)
                              <=> (key[i] < key[j] \/ (key[i] = key[j] /\ i < j))
<1>1. \A i, j \in S : <<i, j>> \in ByKey(S, key)
                        <=> (key[i] < key[j] \/ (key[i] = key[j] /\ i < j))
  BY DEF ByKey
<1>2. \A i \in S : i \in Int /\ key[i] \in Int OBVIOUS
<1>3. StrictOrder(S, ByKey(S, key)) BY <1>1, <1>2 DEF StrictOrder
<1>4. QED BY <1>1, <1>3

\* Strikes of one expiry and kind, as the tables list them.
LEMMA StrikesRise ==
  ASSUME NEW D, NEW K, NEW contracts \in Seq([kind : K, day : D, strike : Int]),
         NEW expirations, NEW index \in DOMAIN expirations, NEW kind,
         NEW strikes, strikes = contracts_for_expiry(expirations, contracts, index, kind)
  PROVE  /\ Len(strikes) = Cardinality({i \in DOMAIN contracts : contracts[i].kind = kind
                                            /\ contracts[i].day = expirations[index]})
         /\ \A i, j \in DOMAIN strikes : i < j => strikes[i] <= strikes[j]
<1> DEFINE out == {i \in DOMAIN contracts :
                     contracts[i].kind = kind /\ contracts[i].day = expirations[index]}
           key == [i \in out |-> contracts[i].strike]
           R == ByKey(out, key)
           P == Place(out, R)
           m == Cardinality(out)
           at(n) == CHOOSE i \in out : P[i] = n
<1>1. /\ DOMAIN contracts = 1..Len(contracts) /\ Len(contracts) \in Nat
      /\ \A i \in 1..Len(contracts) : contracts[i].strike \in Int
  <2>1. \A c \in [kind : K, day : D, strike : Int] : c.strike \in Int OBVIOUS
  <2>2. /\ DOMAIN contracts = 1..Len(contracts) /\ Len(contracts) \in Nat
        /\ \A i \in 1..Len(contracts) : contracts[i] \in [kind : K, day : D, strike : Int]
    BY SeqIs
  <2>3. QED BY <2>1, <2>2
<1>2. out \in SUBSET (1..Len(contracts)) /\ IsFiniteSet(out) /\ m \in Nat
  <2>1. out \in SUBSET (1..Len(contracts)) BY <1>1
  <2>2. IsFiniteSet(1..Len(contracts)) BY <1>1, FS_Interval
  <2> HIDE DEF out
  <2>3. IsFiniteSet(out) BY <2>1, <2>2, FS_Subset
  <2>4. QED BY <2>1, <2>3, FS_CardinalityType
<1>3. out \in SUBSET Int /\ key \in [out -> Int]
      /\ \A i \in out : key[i] = contracts[i].strike /\ i \in Int /\ key[i] \in Int
  BY <1>1, <1>2
<1>4. strikes = [n \in 1..m |-> contracts[at(n)].strike]
  <2> DEFINE before(j, i) == \/ contracts[j].strike < contracts[i].strike
                             \/ contracts[j].strike = contracts[i].strike /\ j < i
             place(i) == Cardinality({j \in out : j = i \/ before(j, i)})
  <2>1. strikes = [n \in 1..m |-> contracts[CHOOSE i \in out : place(i) = n].strike]
    BY DEF contracts_for_expiry
  <2>2. ASSUME NEW i \in out PROVE P[i] = place(i)
    <3>1. \A j \in out : <<j, i>> \in R <=> before(j, i)
      <4>1. \A j \in out : <<j, i>> \in R <=> (key[j] < key[i] \/ (key[j] = key[i] /\ j < i))
        <5> HIDE DEF out, key
        <5>1. QED BY <1>3, ByKeyIs
      <4>2. QED BY <4>1
    <3> HIDE DEF R, before
    <3>2. Before(out, R, i) = {j \in out : j = i \/ before(j, i)} BY <3>1 DEF Before
    <3>3. P[i] = Cardinality(Before(out, R, i)) BY DEF Place
    <3>4. QED BY <3>2, <3>3
  <2>3. \A n \in 1..m : at(n) = CHOOSE i \in out : place(i) = n
    <3> HIDE DEF P, place, out
    <3>1. QED BY <2>2
  <2> HIDE DEF at, place
  <2>4. QED BY <2>1, <2>3
<1> HIDE DEF out, key
<1>5. /\ StrictOrder(out, R)
      /\ \A i, j \in out : <<i, j>> \in R <=> (key[i] < key[j] \/ (key[i] = key[j] /\ i < j))
  BY <1>3, ByKeyIs
<1> HIDE DEF R
<1>6. /\ \A i, j \in out : <<i, j>> \in R <=> P[i] < P[j]
      /\ \A n \in 1..m : \E i \in out : P[i] = n
  <2>1. StrictOrder(out, R) /\ IsFiniteSet(out) BY <1>2, <1>5
  <2>2. \A i, j \in out : <<i, j>> \in R <=> P[i] < P[j] BY <2>1, PlacesRise
  <2>3. \A n \in 1..m : \E i \in out : P[i] = n BY <2>1, PlacesNumber
  <2>4. QED BY <2>2, <2>3
<1> HIDE DEF P, m
<1>7. \A n \in 1..m : at(n) \in out /\ P[at(n)] = n BY <1>6
<1> HIDE DEF at
<1>8. Len(strikes) = m /\ DOMAIN strikes = 1..m BY <1>2, <1>4
<1>9. ASSUME NEW i \in 1..m, NEW j \in 1..m, i < j PROVE strikes[i] <= strikes[j]
  <2>1. at(i) \in out /\ at(j) \in out /\ <<at(i), at(j)>> \in R BY <1>6, <1>7, <1>9
  <2>2. key[at(i)] <= key[at(j)]
    <3>1. key[at(i)] < key[at(j)] \/ key[at(i)] = key[at(j)] BY <1>5, <2>1
    <3>2. key[at(i)] \in Int /\ key[at(j)] \in Int BY <1>3, <2>1
    <3>3. QED BY <3>1, <3>2
  <2>3. strikes[i] = key[at(i)] /\ strikes[j] = key[at(j)] BY <1>3, <1>4, <2>1
  <2>4. QED BY <2>2, <2>3
<1>10. QED BY <1>8, <1>9 DEF m, out

\* Whatever chain the provider sends and whichever expiry is selected, each
\* table has just the contracts of the shown expiry and its kind, strikes
\* rising (contracts_for_expiry, draw_options_modal).
THEOREM AllChainsSorted ==
  ASSUME NEW D, NEW K, NEW contracts \in Seq([kind : K, day : D, strike : Int]),
         NEW expirations \in Seq(D), NEW selected \in Nat \ {0}, NEW width
  PROVE  ChainIsSorted([expirations |-> expirations, contracts |-> contracts], selected, width)
<1> DEFINE chain == [expirations |-> expirations, contracts |-> contracts]
           screen == OptionsScreen(chain, selected, width)
           idx == Atmost(selected, Len(expirations))
           calls == contracts_for_expiry(expirations, contracts, idx, "Call")
           puts == contracts_for_expiry(expirations, contracts, idx, "Put")
           count(kind, day) == Cardinality({i \in DOMAIN contracts :
                                 contracts[i].kind = kind /\ contracts[i].day = day})
<1> SUFFICES ASSUME screen.message = None
             PROVE  /\ Len(screen.calls) = count("Call", screen.expiry)
                    /\ Len(screen.puts) = count("Put", screen.expiry)
                    /\ \A side \in {screen.calls, screen.puts} :
                         \A i, j \in DOMAIN side : i < j => side[i] <= side[j]
  BY DEF ChainIsSorted
<1>1. expirations # <<>>
  <2>1. screen.message = IF chain = None THEN "loading"
                         ELSE IF expirations = <<>> THEN "no options"
                         ELSE IF width < 44 THEN "too narrow" ELSE None
    BY DEF OptionsScreen
  <2> HIDE DEF chain, screen
  <2>2. "loading" # None /\ "no options" # None BY FiguresAssumption
  <2>3. QED BY <2>1, <2>2
<1>2. /\ screen.expiry = expirations[idx] /\ screen.calls = calls /\ screen.puts = puts
  BY DEF OptionsScreen
<1> HIDE DEF screen, chain
<1>3. idx \in DOMAIN expirations
  <2>1. DOMAIN expirations = 1..Len(expirations) /\ Len(expirations) \in Nat /\ Len(expirations) # 0
    BY <1>1
  <2>2. QED BY <2>1 DEF Atmost
<1> HIDE DEF idx
<1>4. /\ Len(calls) = count("Call", expirations[idx])
      /\ \A i, j \in DOMAIN calls : i < j => calls[i] <= calls[j]
  BY <1>3, StrikesRise
<1>5. /\ Len(puts) = count("Put", expirations[idx])
      /\ \A i, j \in DOMAIN puts : i < j => puts[i] <= puts[j]
  BY <1>3, StrikesRise
<1> HIDE DEF calls, puts
<1>6. QED BY <1>2, <1>4, <1>5

\* The colour of a tile is never beyond the ends of its scale.
LEMMA ColoursAre ==
  ASSUME NEW d \in Int
  PROVE  AtMost(heat_color(Whole(d)).amount, One)
<1> DEFINE q == Over(Whole(d), Whole(3))  m == Whole(-1)
           frac == Greatest(m, Least(q, One))
<1>1. Is(Whole(d), d, 1) /\ Is(Whole(3), 3, 1) /\ Is(m, -1, 1) /\ Whole(3)[1] # 0
  BY WholeIs DEF Whole
<1>2. q \in Fraction BY <1>1, IsTimes DEF Is
<1>3. heat_color(Whole(d)).amount = Size(frac) BY DEF heat_color
<1>4. q[1] \in Int /\ q[2] \in Nat \ {0} BY <1>2, FractionIs
<1> HIDE DEF q
<1>5. m = <<-1, 1>> /\ One = <<1, 1>> BY DEF Whole, One
<1>6. AtMost(Size(m), One) /\ AtMost(Size(One), One)
  BY <1>5 DEF AtMost, Size, Magnitude
<1>7. frac = One \/ frac = m \/ (frac = q /\ ~Less(One, q) /\ ~Less(q, m))
  <2>1. Least(q, One) = IF Less(One, q) THEN One ELSE q BY DEF Least
  <2>2. frac = IF Less(m, Least(q, One)) THEN Least(q, One) ELSE m BY DEF Greatest
  <2>3. Less(m, q) => ~Less(q, m) BY <1>4, <1>5 DEF Less
  <2>4. QED BY <2>1, <2>2, <2>3
<1>8. ASSUME ~Less(One, q), ~Less(q, m) PROVE AtMost(Size(q), One)
  <2>1. q[1] <= q[2] /\ -q[2] <= q[1] BY <1>4, <1>5, <1>8 DEF Less
  <2>2. Size(q) = <<Magnitude(q[1]), q[2]>> BY DEF Size
  <2>3. Magnitude(q[1]) <= q[2] /\ Magnitude(q[1]) \in Int BY <1>4, <2>1 DEF Magnitude
  <2>4. QED BY <1>4, <1>5, <2>2, <2>3 DEF AtMost
<1>9. QED BY <1>3, <1>6, <1>7, <1>8

\* Whatever stocks the provider lists, in its order: the map has the greatest
\* that have all their figures, as many as it may, equals in the provider's
\* order, and no colour beyond the scale (make_tile, rank_tiles, heat_color).
THEOREM AllTilesGreatest ==
  ASSUME NEW T, NEW raws \in Seq([ticker : T, market_cap : Int \cup {None, NotFinite},
                                  day_pct : Int \cup {None, NotFinite}, at : Nat]),
         \A i \in DOMAIN raws : raws[i].at = i,
         NEW limit \in Nat
  PROVE  TilesAreTheGreatest(raws, limit)
<1> DEFINE S == {i \in DOMAIN raws : make_tile(raws[i]) # None}
           tiles == [i \in S |-> make_tile(raws[i])]
           kept == rank_tiles(tiles, limit)
           key == [i \in S |-> -tiles[i].market_cap]
           R == ByKey(S, key)
           P == Place(S, R)
           shown == {i \in S : P[i] <= limit}
           m == Cardinality(shown)
           who(n) == CHOOSE i \in shown : P[i] = n
<1>1. DOMAIN raws = 1..Len(raws) /\ Len(raws) \in Nat
  OBVIOUS
<1>2. ASSUME NEW i \in S
      PROVE  /\ tiles[i].market_cap \in Int /\ tiles[i].day_pct \in Int /\ tiles[i].at = i
             /\ i \in 1..Len(raws) /\ i \in Int
  <2> DEFINE r == raws[i]
  <2>0. i \in DOMAIN raws /\ i \in 1..Len(raws) /\ i \in Int BY <1>1
  <2>1. /\ r.market_cap \in Int \cup {None, NotFinite} /\ r.day_pct \in Int \cup {None, NotFinite}
        /\ r.at = i
    <3>1. \A q \in [ticker : T, market_cap : Int \cup {None, NotFinite},
                    day_pct : Int \cup {None, NotFinite}, at : Nat] :
            q.market_cap \in Int \cup {None, NotFinite} /\ q.day_pct \in Int \cup {None, NotFinite}
      OBVIOUS
    <3>2. r \in [ticker : T, market_cap : Int \cup {None, NotFinite},
                 day_pct : Int \cup {None, NotFinite}, at : Nat]
      BY <2>0, SeqIs
    <3>3. QED BY <2>0, <3>1, <3>2
  <2>2. tiles[i] = make_tile(r) /\ make_tile(r) # None OBVIOUS
  <2> HIDE DEF r, tiles
  <2>3. /\ tiles[i] = [market_cap |-> r.market_cap, day_pct |-> r.day_pct, at |-> r.at]
        /\ r.market_cap \notin {None, NotFinite} /\ r.day_pct \notin {None, NotFinite}
    BY <2>2 DEF make_tile
  <2>4. QED BY <2>0, <2>1, <2>3
<1>3. S \in SUBSET Int /\ IsFiniteSet(S) /\ Cardinality(S) \in Nat
  <2>1. S \in SUBSET (1..Len(raws)) BY <1>1
  <2>2. IsFiniteSet(1..Len(raws)) BY <1>1, FS_Interval
  <2> HIDE DEF S
  <2>3. IsFiniteSet(S) BY <2>1, <2>2, FS_Subset
  <2>4. QED BY <2>1, <2>3, FS_CardinalityType
<1>4. DOMAIN tiles = S OBVIOUS
<1> HIDE DEF tiles
<1>5. kept = [n \in 1..m |-> tiles[who(n)]]
  <2> DEFINE before(j, i) == \/ tiles[j].market_cap > tiles[i].market_cap
                             \/ tiles[j].market_cap = tiles[i].market_cap /\ j < i
             rank(i) == Cardinality({j \in S : j = i \/ before(j, i)})
             some == {i \in S : rank(i) <= limit}
  <2>1. kept = [n \in 1..Cardinality(some) |-> tiles[CHOOSE i \in some : rank(i) = n]]
    BY <1>4 DEF rank_tiles
  <2>2. ASSUME NEW i \in S PROVE P[i] = rank(i)
    <3>1. ASSUME NEW j \in S PROVE <<j, i>> \in R <=> before(j, i)
      <4>1. <<j, i>> \in R <=> (key[j] < key[i] \/ (key[j] = key[i] /\ j < i))
        <5>1. key \in [S -> Int] BY <1>2
        <5> HIDE DEF S, key
        <5>2. QED BY <1>3, <5>1, ByKeyIs
      <4>2. key[j] = -tiles[j].market_cap /\ key[i] = -tiles[i].market_cap OBVIOUS
      <4>3. tiles[i].market_cap \in Int /\ tiles[j].market_cap \in Int BY <1>2
      <4> DEFINE x == tiles[i].market_cap  y == tiles[j].market_cap
      <4>4. key[j] < key[i] <=> y > x
        <5> HIDE DEF key, x, y
        <5>1. key[j] = -y /\ key[i] = -x /\ x \in Int /\ y \in Int BY <4>2, <4>3 DEF x, y
        <5>2. QED BY <5>1
      <4>5. key[j] = key[i] <=> y = x
        <5> HIDE DEF key, x, y
        <5>1. key[j] = -y /\ key[i] = -x /\ x \in Int /\ y \in Int BY <4>2, <4>3 DEF x, y
        <5>2. QED BY <5>1
      <4> HIDE DEF key, R
      <4>6. QED BY <4>1, <4>4, <4>5
    <3> HIDE DEF R, before
    <3>2. Before(S, R, i) = {j \in S : j = i \/ before(j, i)} BY <3>1 DEF Before
    <3>3. P[i] = Cardinality(Before(S, R, i)) BY DEF Place
    <3>4. QED BY <3>2, <3>3
  <2> HIDE DEF P, rank, S
  <2>3. some = shown BY <2>2
  <2>4. \A n \in 1..m : who(n) = CHOOSE i \in shown : rank(i) = n
    <3>1. QED BY <2>2
  <2> HIDE DEF some, shown, who
  <2>5. QED BY <2>1, <2>3, <2>4
<1>6. /\ StrictOrder(S, R)
      /\ \A i, j \in S : <<i, j>> \in R <=> (key[i] < key[j] \/ (key[i] = key[j] /\ i < j))
      /\ \A i \in S : key[i] = -tiles[i].market_cap
  <2>1. key \in [S -> Int] BY <1>2
  <2>2. \A i \in S : key[i] = -tiles[i].market_cap OBVIOUS
  <2> HIDE DEF S, key
  <2>3. QED BY <1>3, <2>1, <2>2, ByKeyIs
<1> HIDE DEF S, key, R
<1>7. \A i, j \in S : P[i] < P[j] <=> <<i, j>> \in R
  BY <1>3, <1>6, PlacesRise
<1>8. \A i \in S : P[i] \in 1..Cardinality(S) BY <1>3, <1>6, PlacesRise
<1>9. /\ m = Atmost(limit, Cardinality(S)) /\ m \in Nat
      /\ \A n \in 1..m : \E i \in shown : P[i] = n
  <2>1. IsFiniteSet(S) /\ StrictOrder(S, R) BY <1>3, <1>6
  <2>2. shown = {i \in S : Place(S, R)[i] <= limit} OBVIOUS
  <2> HIDE DEF shown
  <2>3. QED BY <2>1, <2>2, RankedIs
<1> HIDE DEF P
<1>10. \A n \in 1..m : who(n) \in shown /\ who(n) \in S /\ P[who(n)] = n
  <2>1. \A n \in 1..m : who(n) \in shown /\ P[who(n)] = n
    <3> HIDE DEF shown, m
    <3>1. QED BY <1>9
  <2>2. shown \subseteq S OBVIOUS
  <2> HIDE DEF who, shown
  <2>3. QED BY <2>1, <2>2
<1> HIDE DEF who, m, kept
<1>11. /\ Len(kept) = m /\ DOMAIN kept = 1..m
       /\ \A n \in 1..m : kept[n] = tiles[who(n)]
  BY <1>5, <1>9
<1>12. ASSUME NEW a \in 1..m, NEW b \in 1..m, a < b
       PROVE  \/ kept[a].market_cap > kept[b].market_cap
              \/ kept[a].market_cap = kept[b].market_cap /\ kept[a].at < kept[b].at
  <2> DEFINE i == who(a)  j == who(b)
  <2>1. i \in S /\ j \in S /\ P[i] < P[j] BY <1>10, <1>12
  <2>2. kept[a] = tiles[i] /\ kept[b] = tiles[j] BY <1>11
  <2> HIDE DEF i, j
  <2>3. <<i, j>> \in R BY <1>7, <2>1
  <2>4. key[i] < key[j] \/ (key[i] = key[j] /\ i < j) BY <1>6, <2>1, <2>3
  <2>5. key[i] = -tiles[i].market_cap /\ key[j] = -tiles[j].market_cap BY <1>6, <2>1
  <2>6. /\ tiles[i].market_cap \in Int /\ tiles[j].market_cap \in Int
        /\ tiles[i].at = i /\ tiles[j].at = j
    BY <1>2, <2>1
  <2>7. QED BY <2>2, <2>4, <2>5, <2>6
<1>13. ASSUME NEW i \in S, tiles[i].at \notin {kept[n].at : n \in DOMAIN kept}, NEW n \in 1..m
       PROVE  tiles[i].market_cap <= kept[n].market_cap
  <2> DEFINE j == who(n)
  <2>1. j \in S /\ P[j] = n /\ kept[n] = tiles[j] BY <1>10, <1>11
  <2>2. tiles[i].at = i BY <1>2
  <2>3. limit < P[i]
    <3> SUFFICES ASSUME P[i] <= limit PROVE FALSE
      BY <1>3, <1>8
    <3>1. P[i] \in 1..m
      <4>1. P[i] \in 1..Cardinality(S) BY <1>8
      <4>2. QED BY <1>3, <1>9, <4>1 DEF Atmost
    <3> DEFINE k == who(P[i])
    <3>2. k \in S /\ P[k] = P[i] BY <1>10, <3>1
    <3> HIDE DEF k
    <3>3. k = i
      <4>1. P[k] \in Int BY <1>3, <1>8, <3>2
      <4>2. ~(P[k] < P[i]) /\ ~(P[i] < P[k]) BY <3>2, <4>1
      <4>3. <<k, i>> \notin R /\ <<i, k>> \notin R BY <1>7, <3>2, <4>2
      <4>4. QED BY <1>6, <3>2, <4>3 DEF StrictOrder
    <3>4. kept[P[i]] = tiles[i] BY <1>11, <3>1, <3>3 DEF k
    <3>5. kept[P[i]].at = i /\ P[i] \in DOMAIN kept BY <1>11, <2>2, <3>1, <3>4
    <3>6. QED BY <1>13, <2>2, <3>5
  <2>4. n <= limit
    <3>1. m <= limit BY <1>3, <1>9 DEF Atmost
    <3>2. QED BY <1>9, <3>1
  <2> HIDE DEF j
  <2>5. P[j] < P[i]
    <3>1. P[i] \in Int BY <1>3, <1>8
    <3>2. QED BY <2>1, <2>3, <2>4, <3>1
  <2>6. <<j, i>> \in R BY <1>7, <2>1, <2>5
  <2>7. key[j] < key[i] \/ key[j] = key[i] BY <1>6, <2>1, <2>6
  <2>8. key[i] = -tiles[i].market_cap /\ key[j] = -tiles[j].market_cap BY <1>6, <2>1
  <2>9. tiles[i].market_cap \in Int /\ tiles[j].market_cap \in Int BY <1>2, <2>1
  <2>10. QED BY <2>1, <2>7, <2>8, <2>9
<1>14. \A n \in 1..m : AtMost(heat_color(Whole(kept[n].day_pct)).amount, One)
  <2>1. \A n \in 1..m : kept[n].day_pct \in Int BY <1>2, <1>10, <1>11
  <2>2. QED BY <2>1, ColoursAre
<1>15. Len(kept) = Atmost(limit, Cardinality(S)) BY <1>9, <1>11
<1>16. QED BY <1>4, <1>11, <1>12, <1>13, <1>14, <1>15 DEF TilesAreTheGreatest, kept, S, tiles

-----------------------------------------------------------------------------
(***************************************************************************)
(* The cubes                                                               *)
(***************************************************************************)
\* The higher fraction first, equals in the order of their numbers.
ByFraction(S, day) ==
  {p \in S \X S : Less(day[p[2]], day[p[1]]) \/ (day[p[1]] = day[p[2]] /\ p[1] < p[2])}

LEMMA ByFractionIs ==
  ASSUME NEW S \in SUBSET Int, NEW day \in [S -> Fraction]
  PROVE  /\ StrictOrder(S, ByFraction(S, day))
         /\ \A i, j \in S : <<i, j>> \in ByFraction(S, day)
                              <=> (Less(day[j], day[i]) \/ (day[i] = day[j] /\ i < j))
<1> DEFINE R == ByFraction(S, day)
<1>1. \A i, j \in S : <<i, j>> \in R <=> (Less(day[j], day[i]) \/ (day[i] = day[j] /\ i < j))
  BY DEF ByFraction
<1>2. \A i \in S : i \in Int /\ day[i] \in Fraction OBVIOUS
<1>3. ASSUME NEW f \in Fraction, NEW g \in Fraction, NEW h \in Fraction
      PROVE  /\ ~Less(f, f) /\ ~(Less(f, g) /\ Less(g, f)) /\ (f = g \/ Less(f, g) \/ Less(g, f))
             /\ Less(f, g) /\ Less(g, h) => Less(f, h)
  <2>1. /\ Less(f, g) <=> ~AtMost(g, f)
        /\ ~Less(f, f) /\ ~(Less(f, g) /\ Less(g, f))
        /\ Less(f, g) /\ AtMost(g, h) => Less(f, h)
    BY OrderLaws
  <2>2. AtMost(g, f) <=> Less(g, f) \/ g = f BY OrderLaws
  <2>3. AtMost(g, h) <=> Less(g, h) \/ g = h BY OrderLaws
  <2>4. QED BY <2>1, <2>2, <2>3
<1> HIDE DEF R
<1>4. \A i, j \in S : i # j => (<<i, j>> \in R <=> <<j, i>> \notin R)
  <2> SUFFICES ASSUME NEW i \in S, NEW j \in S, i # j
               PROVE  <<i, j>> \in R <=> <<j, i>> \notin R
    OBVIOUS
  <2>1. i < j \/ j < i BY <1>2
  <2>2. ~(i < j /\ j < i) BY <1>2
  <2>3. /\ ~(Less(day[i], day[j]) /\ Less(day[j], day[i]))
        /\ (day[i] = day[j] \/ Less(day[i], day[j]) \/ Less(day[j], day[i]))
        /\ ~Less(day[i], day[i])
    BY <1>2, <1>3
  <2>4. QED BY <1>1, <2>1, <2>2, <2>3
<1>5. \A i, j, k \in S : <<i, j>> \in R /\ <<j, k>> \in R => <<i, k>> \in R
  <2> SUFFICES ASSUME NEW i \in S, NEW j \in S, NEW k \in S, <<i, j>> \in R, <<j, k>> \in R
               PROVE  <<i, k>> \in R
    OBVIOUS
  <2>1. i < j /\ j < k => i < k BY <1>2
  <2>2. Less(day[k], day[j]) /\ Less(day[j], day[i]) => Less(day[k], day[i]) BY <1>2, <1>3
  <2>3. QED BY <1>1, <2>1, <2>2
<1>6. \A i \in S : <<i, i>> \notin R
  <2>1. \A i \in S : ~Less(day[i], day[i]) /\ ~(i < i) BY <1>2, <1>3
  <2>2. QED BY <1>1, <2>1
<1>7. QED BY <1>1, <1>4, <1>5, <1>6 DEF StrictOrder, R

LEMMA DayIs ==
  ASSUME NEW price \in Figure, NEW close \in Figure
  PROVE  day_change_pct(price, close) \in Fraction \cup {None} /\ None \notin Fraction
<1>1. None \notin Fraction
  <2>1. \A f \in Fraction : f \in Int \X (Nat \ {0}) BY DEF Fraction
  <2>2. \A f \in Int \X (Nat \ {0}) : f \in Int \X Int OBVIOUS
  <2>3. QED BY <2>1, <2>2, FiguresAssumption
<1>2. CASE price = None \/ close = None \/ close = 0 BY <1>1, <1>2 DEF day_change_pct
<1>3. CASE ~(price = None \/ close = None \/ close = 0)
  <2> DEFINE d == price - close
  <2>1. close \in Int \ {0} /\ d \in Int BY <1>3 DEF Figure
  <2>2. day_change_pct(price, close) = Times(Frac(d, close), Whole(100))
    BY <1>3 DEF day_change_pct
  <2> HIDE DEF d
  <2>3. Is(Frac(d, close), d, close) /\ Is(Whole(100), 100, 1) BY <2>1, IsFrac, WholeIs
  <2>4. Is(Times(Frac(d, close), Whole(100)), d * 100, close * 1) BY <2>3, IsTimes
  <2>5. QED BY <1>1, <2>2, <2>4 DEF Is
<1>4. QED BY <1>2, <1>3

\* The rows with a day change, and their changes.
Moved(rows) == {i \in DOMAIN rows : Pct_of(rows[i]) # None}
Day(rows) == [i \in Moved(rows) |-> Pct_of(rows[i])]

\* The first of them, as many as there may be.
Ranked(movers, S, day, limit) ==
  /\ IsFiniteSet(S) /\ Cardinality(S) \in Nat /\ day \in [S -> Fraction]
  /\ movers \in Seq(S) /\ Len(movers) = Atmost(limit, Cardinality(S))
  /\ \A a, b \in 1..Len(movers) : a < b => AtMost(day[movers[b]], day[movers[a]])
  /\ \A i \in S : \/ \E n \in 1..Len(movers) : movers[n] = i
                 \/ \A n \in 1..Len(movers) : AtMost(day[i], day[movers[n]])

LEMMA MoversAre ==
  ASSUME NEW T, NEW rows \in Seq(Quote(T)), NEW limit \in Nat
  PROVE  /\ Ranked(ranked_movers(rows, limit), Moved(rows), Day(rows), limit)
         /\ Moved(rows) \in SUBSET (1..Len(rows))
<1> DEFINE S == Moved(rows)  day == Day(rows)  movers == ranked_movers(rows, limit)
<1>0. S = {i \in DOMAIN rows : Pct_of(rows[i]) # None} /\ day = [i \in S |-> Pct_of(rows[i])]
  BY DEF Moved, Day
<1> HIDE DEF S, day
<1> DEFINE R == ByFraction(S, day)
           P == Place(S, R)
           shown == {i \in S : P[i] <= limit}
           m == Cardinality(shown)
<1>1. /\ DOMAIN rows = 1..Len(rows) /\ Len(rows) \in Nat
      /\ \A i \in 1..Len(rows) : Pct_of(rows[i]) \in Fraction \cup {None}
  <2>1. \A r \in Quote(T) : r.price \in Figure /\ r.previous_close \in Figure BY DEF Quote
  <2>2. /\ DOMAIN rows = 1..Len(rows) /\ Len(rows) \in Nat
        /\ \A i \in 1..Len(rows) : rows[i] \in Quote(T)
    BY SeqIs
  <2>3. \A i \in 1..Len(rows) : rows[i].price \in Figure /\ rows[i].previous_close \in Figure
    BY <2>1, <2>2
  <2>4. QED BY <2>2, <2>3, DayIs DEF Pct_of
<1>2. S \in SUBSET (1..Len(rows)) /\ S \in SUBSET Int BY <1>0, <1>1
<1>3. IsFiniteSet(S) /\ Cardinality(S) \in Nat
  <2>1. IsFiniteSet(1..Len(rows)) BY <1>1, FS_Interval
  <2>2. IsFiniteSet(S) BY <1>2, <2>1, FS_Subset
  <2>3. QED BY <2>2, FS_CardinalityType
<1>4. \A i \in S : day[i] = Pct_of(rows[i]) /\ day[i] \in Fraction BY <1>0, <1>1
<1>5. day \in [S -> Fraction] BY <1>0, <1>4
<1>6. /\ StrictOrder(S, R)
      /\ \A i, j \in S : <<i, j>> \in R
                           <=> (Less(day[j], day[i]) \/ (day[i] = day[j] /\ i < j))
  BY <1>2, <1>5, ByFractionIs
<1> DEFINE who(n) == CHOOSE i \in shown : P[i] = n
<1> HIDE DEF R
<1>7. movers = [n \in 1..m |-> who(n)]
  <2> DEFINE before(i, j) == \/ Less(Pct_of(rows[j]), Pct_of(rows[i]))
                             \/ Pct_of(rows[j]) = Pct_of(rows[i]) /\ i < j
             rank(i) == Cardinality({j \in S : j = i \/ before(j, i)})
             some == {i \in S : rank(i) <= limit}
  <2>1. movers = [n \in 1..Cardinality(some) |-> CHOOSE i \in some : rank(i) = n]
    BY <1>0 DEF ranked_movers
  <2> HIDE DEF movers
  <2>2. ASSUME NEW i \in S PROVE P[i] = rank(i)
    <3>1. ASSUME NEW j \in S PROVE <<j, i>> \in R <=> before(j, i)
      <4>1. <<j, i>> \in R <=> (Less(day[i], day[j]) \/ (day[j] = day[i] /\ j < i))
        BY <1>6
      <4>2. day[j] = Pct_of(rows[j]) /\ day[i] = Pct_of(rows[i]) BY <1>4
      <4>3. QED BY <4>1, <4>2
    <3> HIDE DEF before
    <3>2. Before(S, R, i) = {j \in S : j = i \/ before(j, i)} BY <3>1 DEF Before
    <3>3. P[i] = Cardinality(Before(S, R, i)) BY DEF Place
    <3>4. QED BY <3>2, <3>3
  <2> HIDE DEF P, rank
  <2>3. some = shown BY <2>2
  <2>4. \A n \in 1..m : who(n) = CHOOSE i \in shown : rank(i) = n BY <2>2
  <2> HIDE DEF some, shown, who
  <2>5. QED BY <2>1, <2>3, <2>4
<1>8. \A i, j \in S : P[i] < P[j] <=> <<i, j>> \in R BY <1>3, <1>6, PlacesRise
<1>9. \A i \in S : P[i] \in 1..Cardinality(S) BY <1>3, <1>6, PlacesRise
<1>10. /\ m = Atmost(limit, Cardinality(S)) /\ m \in Nat
       /\ \A n \in 1..m : \E i \in shown : P[i] = n
  <2>1. shown = {i \in S : Place(S, R)[i] <= limit} OBVIOUS
  <2> HIDE DEF shown
  <2>2. IsFiniteSet(S) /\ StrictOrder(S, R) BY <1>3, <1>6
  <2>3. limit \in Nat OBVIOUS
  <2>4. QED BY ONLY <2>1, <2>2, <2>3, RankedIs
<1> HIDE DEF P
<1>11. \A n \in 1..m : who(n) \in S /\ P[who(n)] = n
  <2>1. \A n \in 1..m : who(n) \in shown /\ P[who(n)] = n
    <3> HIDE DEF shown, m
    <3>1. QED BY <1>10
  <2>2. shown \subseteq S OBVIOUS
  <2> HIDE DEF who, shown
  <2>3. QED BY <2>1, <2>2
<1> HIDE DEF who, m, movers
<1>12. /\ Len(movers) = m /\ DOMAIN movers = 1..m
       /\ \A n \in 1..m : movers[n] \in S /\ P[movers[n]] = n
  BY <1>7, <1>10, <1>11
<1>13. \A i, j \in S : <<i, j>> \in R => AtMost(day[j], day[i])
  <2>1. \A f, g \in Fraction : AtMost(f, g) <=> Less(f, g) \/ f = g BY OrderLaws
  <2>2. QED BY <1>4, <1>6, <2>1
<1>14. ASSUME NEW a \in 1..m, NEW b \in 1..m, a < b
       PROVE  AtMost(day[movers[b]], day[movers[a]])
  <2>1. <<movers[a], movers[b]>> \in R BY <1>8, <1>12, <1>14
  <2>2. QED BY <1>12, <1>13, <2>1
<1>15. ASSUME NEW i \in S, ~ \E n \in 1..m : movers[n] = i, NEW n \in 1..m
       PROVE  AtMost(day[i], day[movers[n]])
  <2>1. limit < P[i]
    <3> SUFFICES ASSUME P[i] <= limit PROVE FALSE
      BY <1>3, <1>9
    <3>1. P[i] \in 1..m
      <4>1. P[i] \in 1..Cardinality(S) BY <1>9
      <4>2. QED BY <1>3, <1>10, <4>1 DEF Atmost
    <3>2. movers[P[i]] \in S /\ P[movers[P[i]]] = P[i] BY <1>12, <3>1
    <3> DEFINE k == movers[P[i]]
    <3> HIDE DEF k
    <3>3. k \in S /\ P[k] = P[i] BY <3>2 DEF k
    <3>4. k = i
      <4>1. P[k] \in Int BY <1>3, <1>9, <3>3
      <4>2. ~(P[k] < P[i]) /\ ~(P[i] < P[k]) BY <3>3, <4>1
      <4>3. <<k, i>> \notin R /\ <<i, k>> \notin R BY <1>8, <3>3, <4>2
      <4>4. QED BY <1>6, <3>3, <4>3 DEF StrictOrder
    <3>5. QED BY <1>15, <3>1, <3>4 DEF k
  <2>2. n <= limit
    <3>1. m <= limit BY <1>3, <1>10 DEF Atmost
    <3>2. QED BY <1>10, <3>1
  <2>3. movers[n] \in S /\ P[movers[n]] = n BY <1>12
  <2>4. P[movers[n]] < P[i]
    <3>1. P[i] \in Int BY <1>3, <1>9
    <3>2. QED BY <2>1, <2>2, <2>3, <3>1
  <2>5. <<movers[n], i>> \in R BY <1>8, <2>3, <2>4
  <2>6. QED BY <1>13, <2>3, <2>5
<1>16. \A i \in S : \/ \E n \in 1..m : movers[n] = i
                    \/ \A n \in 1..m : AtMost(day[i], day[movers[n]])
  <2>1. \A i \in S : (~ \E n \in 1..m : movers[n] = i)
                      => \A n \in 1..m : AtMost(day[i], day[movers[n]])
    BY ONLY <1>15
  <2>2. QED BY ONLY <2>1
<1>17. \A a, b \in 1..m : a < b => AtMost(day[movers[b]], day[movers[a]]) BY <1>14
<1>18. Len(movers) = m BY <1>12
<1>19. Len(movers) = Atmost(limit, Cardinality(S)) BY <1>10, <1>12
<1>20. movers \in Seq(S)
  <2>1. [n \in 1..m |-> who(n)] \in [1..m -> S] BY <1>11
  <2>2. QED BY <1>7, <1>10, <2>1, ListIs
<1>21. \A a, b \in 1..Len(movers) : a < b => AtMost(day[movers[b]], day[movers[a]])
  BY <1>17, <1>18
<1>22. \A i \in S : \/ \E n \in 1..Len(movers) : movers[n] = i
                    \/ \A n \in 1..Len(movers) : AtMost(day[i], day[movers[n]])
  BY <1>16, <1>18
<1>23. Ranked(movers, S, day, limit) BY <1>3, <1>5, <1>19, <1>20, <1>21, <1>22 DEF Ranked
<1>24. QED BY <1>2, <1>23 DEF S, day, movers

\* The greatest move fills its bar and no bar is longer than its room.
BarsFill(bars, pct, n, width) ==
  /\ \A k \in 1..n : bars[k].bar \in 0..width
  /\ (\E k \in 1..n : pct[k] # Zero) => \E k \in 1..n : bars[k].bar = width

LEMMA BarsAre ==
  ASSUME NEW n \in Nat, n > 0, NEW pct \in [1..n -> Fraction], NEW movers, DOMAIN movers = 1..n,
         NEW width \in Nat
  PROVE  BarsFill(Bars(movers, pct, width), pct, n, width)
<1> DEFINE bars == Bars(movers, pct, width)
           V == {Extent(pct[k]) : k \in 1..n}
           top == CHOOSE p \in V : \A k \in 1..n : AtMost(Extent(pct[k]), p)
           R == {p \in (1..n) \X (1..n) : AtMost(Size(pct[p[2]]), Size(pct[p[1]]))}
<1>1. \A k \in 1..n : /\ pct[k] \in Fraction /\ Extent(pct[k]) = Size(pct[k])
                      /\ Size(pct[k]) \in Fraction /\ Size(pct[k])[1] \in Nat
                      /\ (pct[k] = Zero <=> Size(pct[k]) = Zero)
  <2>1. \A k \in 1..n : pct[k] \in Fraction OBVIOUS
  <2>2. QED BY <2>1, SizeIs DEF Extent
<1>2. \E x \in 1..n : \A y \in 1..n : AtMost(Size(pct[y]), Size(pct[x]))
  <2>1. \A x, y \in 1..n : <<x, y>> \in R <=> AtMost(Size(pct[y]), Size(pct[x])) OBVIOUS
  <2> HIDE DEF R
  <2>2. \A f, g \in Fraction : AtMost(f, g) \/ AtMost(g, f)
    <3>1. \A f, g \in Fraction : (Less(f, g) <=> ~AtMost(g, f)) /\ (AtMost(f, g) <=> Less(f, g) \/ f = g)
      BY OrderLaws
    <3>2. QED BY <3>1
  <2>3. \A f, g, h \in Fraction : AtMost(f, g) /\ AtMost(g, h) => AtMost(f, h) BY OrderLaws
  <2>4. \A x, y \in 1..n : <<x, y>> \in R \/ <<y, x>> \in R BY <1>1, <2>1, <2>2
  <2>5. \A x, y, z \in 1..n : <<x, y>> \in R /\ <<y, z>> \in R => <<x, z>> \in R
    BY <1>1, <2>1, <2>3
  <2>6. IsFiniteSet(1..n) /\ 1 \in 1..n BY FS_Interval
  <2>7. \E x \in 1..n : \A y \in 1..n : <<x, y>> \in R
    <3> DEFINE A == 1..n
    <3>1. IsFiniteSet(A) /\ A # {} /\ (\A x, y \in A : <<x, y>> \in R \/ <<y, x>> \in R)
          /\ (\A x, y, z \in A : <<x, y>> \in R /\ <<y, z>> \in R => <<x, z>> \in R)
      BY <2>4, <2>5, <2>6
    <3> HIDE DEF A
    <3>2. \E x \in A : \A y \in A : <<x, y>> \in R BY ONLY <3>1, LeastExists
    <3>3. QED BY <3>2 DEF A
  <2>8. QED BY <2>1, <2>7
<1>3. top \in V /\ \A k \in 1..n : AtMost(Extent(pct[k]), top)
  <2>1. \E p \in V : \A k \in 1..n : AtMost(Extent(pct[k]), p) BY <1>1, <1>2
  <2> HIDE DEF V
  <2>2. QED BY <2>1
<1>4. PICK g \in 1..n : top = Extent(pct[g]) BY <1>3
<1>5. bars = [k \in 1..n |-> [row |-> movers[k], bar |-> bar_cells(pct[k], top, width)]]
  <2>1. DOMAIN pct = 1..n OBVIOUS
  <2>2. QED BY <2>1 DEF Bars
<1> HIDE DEF V, top, R, bars
<1>6. top \in Fraction /\ top = Size(pct[g]) BY <1>1, <1>4
<1>7. \A k \in 1..n : bar_cells(pct[k], top, width) \in 0..width BY <1>1, <1>6, BarIs
<1>8. ASSUME NEW k \in 1..n, pct[k] # Zero PROVE bar_cells(pct[g], top, width) = width
  <2> DEFINE s == Size(pct[k])
  <2>1. s \in Fraction /\ s[1] \in Nat /\ s # Zero BY <1>1, <1>8
  <2>2. AtMost(s, top) BY <1>1, <1>3
  <2> HIDE DEF s
  <2>3. Less(Zero, s)
    <3>1. s[1] # 0 BY <2>1, FieldTypes
    <3>2. s[2] \in Int /\ s[2] > 0
      <4>1. s \in Fraction BY <2>1
      <4>2. QED BY <4>1, FractionIs
    <3>3. QED BY <2>1, <3>1, <3>2 DEF Less, Zero, Whole
  <2>4. Less(Zero, top) BY <1>6, <2>1, <2>2, <2>3, Numbers, OrderLaws
  <2>5. AtMost(top, Size(pct[g])) BY <1>6, OrderLaws
  <2>6. pct[g] \in Fraction BY <1>1
  <2>7. QED BY <1>6, <2>4, <2>5, <2>6, BarIs
<1>9. BarsFill(bars, pct, n, width) BY <1>5, <1>7, <1>8 DEF BarsFill
<1>10. QED BY <1>9 DEF bars

LEMMA MoversHold ==
  ASSUME NEW T, NEW rows \in Seq(Quote(T)), NEW width \in Nat
  PROVE  MoversAgree([i \in DOMAIN rows |-> Pct_of(rows[i])], ranked_movers(rows, 3),
                     movers_cube(rows, width), width)
<1> DEFINE movers == ranked_movers(rows, 3)
           pct == [i \in DOMAIN rows |-> Pct_of(rows[i])]
           S == Moved(rows)  day == Day(rows)
           n == Len(movers)
           moved == [k \in DOMAIN movers |-> Pct_of(rows[movers[k]])]
           cube == movers_cube(rows, width)
<1>1. /\ S \in SUBSET (1..Len(rows)) /\ day \in [S -> Fraction]
      /\ DOMAIN movers = 1..n /\ n \in Nat /\ movers \in Seq(S)
      /\ \A k \in 1..n : movers[k] \in S
      /\ \A a, b \in 1..n : a < b => AtMost(day[movers[b]], day[movers[a]])
      /\ \A i \in S : \/ \E k \in 1..n : movers[k] = i
                      \/ \A k \in 1..n : AtMost(day[i], day[movers[k]])
      /\ n = 0 <=> S = {}
  <2>1. S \in SUBSET (1..Len(rows)) /\ Ranked(movers, S, day, 3) BY MoversAre
  <2> HIDE DEF S, day, movers
  <2>2. movers \in Seq(S) BY <2>1 DEF Ranked
  <2>3. DOMAIN movers = 1..n /\ n \in Nat /\ \A k \in 1..n : movers[k] \in S BY <2>2, SeqIs
  <2>4. n = 0 <=> S = {}
    <3>1. IsFiniteSet(S) /\ Cardinality(S) \in Nat /\ n = Atmost(3, Cardinality(S))
      BY <2>1 DEF Ranked
    <3>2. n = 0 <=> Cardinality(S) = 0 BY <3>1 DEF Atmost
    <3>3. QED BY <3>1, <3>2, FS_EmptySet
  <2>5. QED BY <2>1, <2>3, <2>4 DEF Ranked
<1>2. \A i \in S : day[i] = pct[i] /\ day[i] = Pct_of(rows[i]) /\ i \in DOMAIN rows
  BY DEF Moved, Day
<1>3. \A i \in DOMAIN pct : i \in S <=> pct[i] # None BY DEF Moved
<1>4. S \subseteq DOMAIN pct BY DEF Moved
<1>5. cube = IF movers = <<>> THEN None ELSE Bars(movers, moved, width)
  BY DEF movers_cube
<1>6. \A k \in 1..n : movers[k] \in S /\ day[movers[k]] = pct[movers[k]] BY <1>1, <1>2
<1>7. moved = [k \in 1..n |-> day[movers[k]]] BY <1>1, <1>2
<1>8. movers # <<>> <=> n > 0 BY <1>1, SeqIs
<1> HIDE DEF S, day, pct, movers, n, moved, cube
<1>9. \A i \in DOMAIN pct, k \in DOMAIN movers :
        \/ pct[i] = None \/ \E m \in DOMAIN movers : movers[m] = i
        \/ AtMost(pct[i], pct[movers[k]])
  <2> SUFFICES ASSUME NEW i \in DOMAIN pct, NEW k \in DOMAIN movers, pct[i] # None,
                      ~ \E m \in DOMAIN movers : movers[m] = i
               PROVE  AtMost(pct[i], pct[movers[k]])
    OBVIOUS
  <2>1. i \in S /\ k \in 1..n BY <1>1, <1>3
  <2>2. AtMost(day[i], day[movers[k]]) BY <1>1, <2>1
  <2>3. QED BY <1>2, <1>6, <2>1, <2>2
<1>10. \A a, b \in DOMAIN movers : a < b => AtMost(pct[movers[b]], pct[movers[a]])
  BY <1>1, <1>6
<1>11. movers # <<>> =>
         /\ \A k \in DOMAIN movers : cube[k].bar <= width
         /\ (\E k \in DOMAIN movers : pct[movers[k]] # Zero)
              => \E k \in DOMAIN movers : cube[k].bar = width
  <2> SUFFICES ASSUME movers # <<>>
               PROVE  /\ \A k \in DOMAIN movers : cube[k].bar <= width
                      /\ (\E k \in DOMAIN movers : pct[movers[k]] # Zero)
                           => \E k \in DOMAIN movers : cube[k].bar = width
    OBVIOUS
  <2>1. n > 0 /\ n \in Nat /\ DOMAIN movers = 1..n BY <1>1, <1>8
  <2>2. moved \in [1..n -> Fraction]
    <3>1. \A k \in 1..n : day[movers[k]] \in Fraction BY <1>1
    <3>2. QED BY <1>7, <3>1
  <2>3. cube = Bars(movers, moved, width) BY <1>5
  <2>4. /\ \A k \in 1..n : cube[k].bar \in 0..width
        /\ (\E k \in 1..n : moved[k] # Zero) => \E k \in 1..n : cube[k].bar = width
    <3>1. BarsFill(Bars(movers, moved, width), moved, n, width) BY <2>1, <2>2, BarsAre
    <3>2. QED BY <2>3, <3>1 DEF BarsFill
  <2>5. \A k \in 1..n : moved[k] = pct[movers[k]] BY <1>6, <1>7
  <2>6. QED BY <2>1, <2>4, <2>5
<1>12. movers = <<>> <=> \A i \in DOMAIN pct : pct[i] = None BY <1>1, <1>3, <1>8, <1>4
<1>13. QED BY <1>9, <1>10, <1>11, <1>12 DEF MoversAgree, pct, movers, cube

LEMMA BreadthBar ==
  ASSUME NEW adv \in Nat, NEW dec \in Nat, adv + dec > 0, NEW width \in Nat
  PROVE  LET bar == breadth_bar(adv, dec, width)
         IN  /\ bar # None /\ bar[1] + bar[2] = width
             /\ adv = 0 => bar[1] = 0
             /\ dec = 0 => bar[2] = 0
<1> DEFINE bar == breadth_bar(adv, dec, width)
<1>1. None \notin Int \X Int BY FiguresAssumption
<1>2. CASE width = 0
  <2>1. bar = <<0, 0>> BY <1>2 DEF breadth_bar
  <2>2. bar \in Int \X Int /\ bar[1] = 0 /\ bar[2] = 0 BY <2>1
  <2>3. QED BY <1>1, <1>2, <2>2
<1>3. CASE width # 0
  <2> DEFINE a == (adv * width) \div (adv + dec)
  <2>1. bar = <<a, width - a>> BY <1>3 DEF breadth_bar
  <2>2. adv * width \in Int /\ adv + dec \in Nat \ {0} OBVIOUS
  <2>3. a \in Int BY <2>2, DivIs
  <2>4. adv = 0 => a = 0
    <3> SUFFICES ASSUME adv = 0 PROVE a = 0
      OBVIOUS
    <3>1. dec \in Nat \ {0} /\ adv * width = dec * 0 /\ adv + dec = dec OBVIOUS
    <3>2. (dec * 0) \div dec = 0 BY <3>1, DivExact
    <3>3. QED BY <3>1, <3>2
  <2>5. dec = 0 => a = width
    <3> SUFFICES ASSUME dec = 0 PROVE a = width
      OBVIOUS
    <3>1. adv \in Nat \ {0} /\ adv + dec = adv OBVIOUS
    <3>2. (adv * width) \div adv = width BY <3>1, DivExact
    <3>3. QED BY <3>1, <3>2
  <2> HIDE DEF a, bar
  <2>6. bar \in Int \X Int /\ bar[1] = a /\ bar[2] = width - a BY <2>1, <2>3
  <2>7. a + (width - a) = width /\ (a = width => width - a = 0) BY <2>3
  <2>8. bar # None BY <1>1, <2>6
  <2>9. bar[1] + bar[2] = width /\ (adv = 0 => bar[1] = 0) /\ (dec = 0 => bar[2] = 0)
    BY <2>4, <2>5, <2>6, <2>7
  <2>10. QED BY <2>8, <2>9 DEF bar
<1>4. QED BY <1>2, <1>3

\* Movers that are all flat have bars of nothing.
LEMMA FlatBars ==
  ASSUME NEW n \in Nat, n > 0, NEW pct, DOMAIN pct = 1..n, \A k \in 1..n : pct[k] = Zero,
         NEW movers, DOMAIN movers = 1..n, NEW width
  PROVE  \A k \in 1..n : Bars(movers, pct, width)[k].bar = 0
<1> DEFINE V == {Extent(pct[k]) : k \in DOMAIN pct}
           top == CHOOSE p \in V : \A k \in DOMAIN pct : AtMost(Extent(pct[k]), p)
<1>1. Size(Zero) = Zero BY Numbers, SizeIs
<1>2. \A k \in 1..n : Extent(pct[k]) = Zero BY <1>1 DEF Extent
<1>3. 1 \in 1..n /\ AtMost(Zero, Zero) BY Numbers, OrderLaws
<1>4. V = {Zero} BY <1>2, <1>3
<1>5. top = Zero
  <2>1. \E p \in V : \A k \in DOMAIN pct : AtMost(Extent(pct[k]), p) BY <1>2, <1>3, <1>4
  <2> HIDE DEF V
  <2>2. top \in V BY <2>1
  <2>3. QED BY <1>4, <2>2
<1>6. \A k \in 1..n : bar_cells(pct[k], top, width) = 0 BY <1>3, <1>5 DEF bar_cells
<1>7. Bars(movers, pct, width)
        = [k \in 1..n |-> [row |-> movers[k], bar |-> bar_cells(pct[k], top, width)]]
  BY DEF Bars
<1> HIDE DEF top
<1>8. QED BY <1>6, <1>7

LEMMA BreadthHolds ==
  ASSUME NEW T, NEW rows \in Seq(Quote(T)), NEW width \in Nat
  PROVE  BreadthAgrees([i \in DOMAIN rows |-> Pct_of(rows[i])], day_breadth(rows),
                       breadth_cube(rows, width), ranked_movers(rows, 3),
                       movers_cube(rows, width), width)
<1> DEFINE S == Moved(rows)
           up == {i \in S : Less(Zero, Pct_of(rows[i]))}
           down == {i \in S : Less(Pct_of(rows[i]), Zero)}
           adv == Cardinality(up)  dec == Cardinality(down)
           movers == ranked_movers(rows, 3)
           n == Len(movers)
           pct == [i \in DOMAIN rows |-> Pct_of(rows[i])]
           moved == [k \in DOMAIN movers |-> Pct_of(rows[movers[k]])]
           bars == movers_cube(rows, width)
           counts == day_breadth(rows)  bar == breadth_cube(rows, width)
<1>1. /\ IsFiniteSet(S) /\ Cardinality(S) \in Nat /\ movers \in Seq(S)
      /\ n = Atmost(3, Cardinality(S))
      /\ \A i \in S : Pct_of(rows[i]) \in Fraction
  <2>1. Ranked(movers, S, Day(rows), 3) BY MoversAre
  <2>2. \A i \in S : Day(rows)[i] = Pct_of(rows[i]) BY DEF Day
  <2> HIDE DEF S, movers
  <2>3. QED BY <2>1, <2>2 DEF Ranked
<1>2. counts = <<adv, dec>> BY DEF day_breadth, Moved
<1>3. up \in SUBSET S /\ down \in SUBSET S OBVIOUS
<1>4. DOMAIN pct = DOMAIN rows /\ S \subseteq DOMAIN rows
      /\ \A i \in DOMAIN rows : pct[i] = Pct_of(rows[i]) /\ (i \in S <=> pct[i] # None)
  BY DEF Moved
<1>5. bars = IF movers = <<>> THEN None ELSE Bars(movers, moved, width) BY DEF movers_cube
<1> HIDE DEF S, movers
<1>6. (up = {} /\ down = {}) <=> \A i \in DOMAIN pct : pct[i] \in {None, Zero}
  <2>1. \A f \in Fraction : ~Less(Zero, f) /\ ~Less(f, Zero) <=> f = Zero
    <3>1. ASSUME NEW f \in Fraction
          PROVE  /\ Less(Zero, f) <=> ~AtMost(f, Zero)
                 /\ AtMost(f, Zero) <=> Less(f, Zero) \/ f = Zero
                 /\ ~Less(Zero, Zero)
      BY Numbers, OrderLaws
    <3>2. QED BY <3>1
  <2>2. (up = {} /\ down = {}) <=> \A i \in S : Pct_of(rows[i]) = Zero BY <1>1, <2>1
  <2>3. Zero # None
    <3>1. Zero \in Int \X Int BY DEF Zero, Whole
    <3>2. QED BY <3>1, FiguresAssumption
  <2> HIDE DEF up, down, pct
  <2>4. QED BY <1>4, <2>2, <2>3
<1> HIDE DEF up, down, pct
<1>7. /\ adv \in Nat /\ dec \in Nat /\ adv <= Cardinality(S) /\ dec <= Cardinality(S)
      /\ adv = 0 <=> up = {}
      /\ dec = 0 <=> down = {}
  BY <1>1, <1>3, FS_Subset, FS_CardinalityType, FS_EmptySet
<1> HIDE DEF counts, adv, dec
<1>8. counts = <<0, 0>> <=> adv = 0 /\ dec = 0 BY <1>2
<1>9. bar = IF counts = <<0, 0>> THEN None ELSE breadth_bar(adv, dec, width)
  <2>1. counts[1] = adv /\ counts[2] = dec BY <1>2
  <2>2. QED BY <2>1 DEF breadth_cube, counts
<1>10. adv + dec > 0 => /\ breadth_bar(adv, dec, width) # None
                        /\ breadth_bar(adv, dec, width)[1] + breadth_bar(adv, dec, width)[2] = width
                        /\ adv = 0 => breadth_bar(adv, dec, width)[1] = 0
                        /\ dec = 0 => breadth_bar(adv, dec, width)[2] = 0
  BY <1>7, BreadthBar
<1>11. counts # <<0, 0>> <=> adv + dec > 0 BY <1>7, <1>8
<1> HIDE DEF bar
<1>12. bar = None <=> counts = <<0, 0>> BY <1>9, <1>10, <1>11
<1>13. bar = None <=> \A i \in DOMAIN pct : pct[i] \in {None, Zero}
  BY <1>6, <1>7, <1>8, <1>12
<1>14. DOMAIN movers = 1..n /\ n \in Nat /\ (movers # <<>> <=> n > 0)
       /\ \A k \in 1..n : movers[k] \in S
  BY <1>1, SeqIs
<1> HIDE DEF n
<1>15. ASSUME bar = None, NEW k \in DOMAIN movers
       PROVE  pct[movers[k]] = Zero /\ bars[k].bar = 0
  <2>1. \A m \in 1..n : pct[movers[m]] = Zero BY <1>4, <1>13, <1>14, <1>15
  <2>2. \A m \in 1..n : moved[m] = Zero BY <1>4, <1>14, <2>1
  <2>3. DOMAIN moved = 1..n BY <1>14
  <2>4. n > 0 /\ k \in 1..n BY <1>14
  <2> HIDE DEF moved, bars
  <2>5. \A m \in 1..n : Bars(movers, moved, width)[m].bar = 0
    BY <1>14, <2>2, <2>3, <2>4, FlatBars
  <2>6. QED BY <1>5, <1>14, <2>1, <2>4, <2>5
<1>16. ASSUME bar # None
       PROVE  /\ bar[1] + bar[2] = width
              /\ movers # <<>>
              /\ \A side \in 1..2 : counts[side] = 0 => bar[side] = 0
  <2>1. adv + dec > 0 /\ counts # <<0, 0>> BY <1>11, <1>12, <1>16
  <2>2. bar = breadth_bar(adv, dec, width) BY <1>9, <2>1
  <2>3. movers # <<>>
    <3>1. Cardinality(S) > 0 BY <1>1, <1>7, <2>1
    <3>2. n > 0 BY <1>1, <3>1 DEF Atmost
    <3>3. QED BY <1>14, <3>2
  <2>4. \A side \in 1..2 : side = 1 \/ side = 2 OBVIOUS
  <2>5. counts[1] = adv /\ counts[2] = dec BY <1>2
  <2>6. QED BY <1>10, <2>1, <2>2, <2>3, <2>4, <2>5
<1> HIDE DEF moved, bars
<1>17. QED BY <1>13, <1>15, <1>16 DEF BreadthAgrees, pct, counts, bar, movers, bars

LEMMA Hundredfold ==
  ASSUME NEW f \in Fraction, NEW g \in Fraction
  PROVE  /\ Times(f, Whole(100)) \in Fraction
         /\ AtMost(Times(f, Whole(100)), Times(g, Whole(100))) <=> AtMost(f, g)
<1> DEFINE p == f[1]  q == f[2]  r == g[1]  s == g[2]
<1>1. /\ p \in Int /\ q \in Int /\ q > 0 /\ r \in Int /\ s \in Int /\ s > 0
      /\ Is(f, p, q) /\ Is(g, r, s) /\ (AtMost(f, g) <=> p * s <= r * q)
  BY FractionIs, IsOwn DEF AtMost
<1>2. Is(Whole(100), 100, 1) BY WholeIs
<1>3. Is(Times(f, Whole(100)), p * 100, q * 1) /\ Is(Times(g, Whole(100)), r * 100, s * 1)
  BY <1>1, <1>2, IsTimes
<1> HIDE DEF p, q, r, s
<1>4. q * 1 = q /\ s * 1 = s BY <1>1
<1>5. Is(Times(f, Whole(100)), p * 100, q) /\ Is(Times(g, Whole(100)), r * 100, s)
  BY <1>3, <1>4
<1>6. AtMost(Times(f, Whole(100)), Times(g, Whole(100))) <=> (p * 100) * s <= (r * 100) * q
  BY <1>1, <1>5, IsOrder
<1>7. (p * 100) * s = (p * s) * 100 /\ (r * 100) * q = (r * q) * 100 BY <1>1
<1>8. p * s \in Int /\ r * q \in Int BY <1>1
<1>9. (p * s) * 100 <= (r * q) * 100 <=> p * s <= r * q BY <1>8
<1>10. QED BY <1>1, <1>5, <1>6, <1>7, <1>9 DEF Is

LEMMA AlertsHold ==
  ASSUME NEW T, NEW U, NEW rows \in Seq(Quote(T)),
         NEW alerts \in Seq([ticker : U, threshold : Nat \ {0}])
  PROVE  AlertsAgree(alerts, [i \in DOMAIN alerts |-> resolve_price(alerts[i].ticker, rows).price],
                     alerts_cube(alerts, rows))
<1> DEFINE n == Len(alerts)
           price == [i \in DOMAIN alerts |-> resolve_price(alerts[i].ticker, rows).price]
           limit(i) == alerts[i].threshold
           away(i) == Extent(Frac(price[i] - limit(i), limit(i)))
           some == {i \in DOMAIN alerts : price[i] # None /\ limit(i) # 0}
           far == [i \in some |-> distance_pct(price[i], limit(i))]
           R == {p \in some \X some : AtMost(far[p[1]], far[p[2]])}
           near == {i \in some : \A j \in some : AtMost(far[i], far[j])}
           nearest == nearest_alert(alerts, rows)
<1>1. /\ n \in Nat /\ DOMAIN alerts = 1..n
      /\ \A i \in 1..n : limit(i) \in Int \ {0}
      /\ \A i \in 1..n : price[i] \in Figure
  <2>1. \A a \in [ticker : U, threshold : Nat \ {0}] : a.threshold \in Int \ {0} OBVIOUS
  <2>2. /\ n \in Nat /\ DOMAIN alerts = 1..n
        /\ \A i \in 1..n : alerts[i] \in [ticker : U, threshold : Nat \ {0}]
    BY SeqIs
  <2>3. \A i \in DOMAIN alerts : price[i] \in Figure BY ResolvedIs
  <2>4. QED BY <2>1, <2>2, <2>3
<1>2. some \in SUBSET (1..n) /\ IsFiniteSet(some) /\ some \in SUBSET Nat
  <2>1. some \in SUBSET (1..n) /\ some \in SUBSET Nat BY <1>1
  <2>2. IsFiniteSet(1..n)
    <3>1. n \in Int /\ 1 \in Int BY <1>1
    <3>2. QED BY ONLY <3>1, FS_Interval
  <2> HIDE DEF some
  <2>3. QED BY <2>1, <2>2, FS_Subset
<1>3. \A i \in DOMAIN alerts : price[i] # None <=> i \in some BY <1>1
<1>4. some \subseteq DOMAIN alerts OBVIOUS
<1>5. ASSUME NEW i \in some
      PROVE  /\ far[i] = Times(away(i), Whole(100)) /\ away(i) \in Fraction
             /\ far[i] \in Fraction
  <2> DEFINE p == price[i]  t == limit(i)
  <2>1. p \in Int /\ t \in Int \ {0} BY <1>1, <1>2 DEF Figure
  <2>2. far[i] = distance_pct(p, t) OBVIOUS
  <2>3. away(i) = Extent(Frac(p - t, t)) OBVIOUS
  <2> HIDE DEF p, t, far, away
  <2>4. Frac(p - t, t) \in Fraction
    <3> DEFINE d == p - t
    <3>1. d \in Int BY <2>1
    <3> HIDE DEF d
    <3>2. Is(Frac(d, t), d, t) BY <2>1, <3>1, IsFrac
    <3>3. QED BY <3>2 DEF Is, d
  <2>5. away(i) \in Fraction BY <2>3, <2>4, SizeIs DEF Extent
  <2>6. far[i] = Times(away(i), Whole(100)) BY <2>2, <2>3 DEF distance_pct
  <2>7. QED BY <2>5, <2>6, Hundredfold
<1>6. nearest = IF some = {} THEN None ELSE CHOOSE i \in near : \A j \in near : i <= j
  <2> DEFINE price2(i) == resolve_price(alerts[i].ticker, rows).price
             some2 == {i \in DOMAIN alerts : price2(i) # None /\ alerts[i].threshold # 0}
             far2(i) == distance_pct(price2(i), alerts[i].threshold)
             near2 == {i \in some2 : \A j \in some2 : AtMost(far2(i), far2(j))}
  <2>1. nearest = IF some2 = {} THEN None ELSE CHOOSE i \in near2 : \A j \in near2 : i <= j
    BY DEF nearest_alert
  <2>2. \A i \in DOMAIN alerts : price[i] = price2(i) OBVIOUS
  <2>3. some = some2 BY <2>2
  <2>4. \A i \in some : far[i] = far2(i) BY <2>2
  <2> HIDE DEF some, some2, far, far2, nearest
  <2>5. near = near2 BY <2>3, <2>4
  <2> HIDE DEF near, near2
  <2>6. QED BY <2>1, <2>3, <2>5
<1> HIDE DEF price, limit, some, far, nearest, n
<1>7. some # {} => nearest \in near
  <2> SUFFICES ASSUME some # {} PROVE nearest \in near
    OBVIOUS
  <2>1. \A x, y \in some : <<x, y>> \in R <=> AtMost(far[x], far[y]) OBVIOUS
  <2> HIDE DEF R
  <2>2. \A f, g \in Fraction : AtMost(f, g) \/ AtMost(g, f)
    <3>1. \A f, g \in Fraction : (Less(f, g) <=> ~AtMost(g, f)) /\ (AtMost(f, g) <=> Less(f, g) \/ f = g)
      BY OrderLaws
    <3>2. QED BY <3>1
  <2>3. \A f, g, h \in Fraction : AtMost(f, g) /\ AtMost(g, h) => AtMost(f, h) BY OrderLaws
  <2>4. \A x \in some : far[x] \in Fraction BY <1>5
  <2>5. \A x, y \in some : <<x, y>> \in R \/ <<y, x>> \in R BY <2>1, <2>2, <2>4
  <2>6. \A x, y, z \in some : <<x, y>> \in R /\ <<y, z>> \in R => <<x, z>> \in R
    BY <2>1, <2>3, <2>4
  <2>7. IsFiniteSet(some) BY <1>2
  <2>8. \E x \in some : \A y \in some : <<x, y>> \in R
    BY ONLY <2>5, <2>6, <2>7, some # {}, LeastExists
  <2>9. near # {} /\ near \in SUBSET Nat BY <1>2, <2>1, <2>8
  <2> HIDE DEF near
  <2>10. \E i \in near : \A j \in near : i <= j BY <2>9, NatMin
  <2>11. QED BY <1>6, <2>10
<1>8. nearest # None => some # {} BY <1>6
<1>9. nearest = None => some = {}
  <2>1. near \subseteq Nat BY <1>2
  <2>2. None \notin Int BY FiguresAssumption
  <2>3. near \subseteq Int BY <2>1
  <2> HIDE DEF near
  <2>4. QED BY <1>7, <2>2, <2>3
<1>10. ASSUME nearest # None, NEW i \in some PROVE AtMost(away(nearest), away(i))
  <2>1. nearest \in some /\ AtMost(far[nearest], far[i]) BY <1>7, <1>8, <1>10
  <2>2. /\ far[nearest] = Times(away(nearest), Whole(100)) /\ away(nearest) \in Fraction
        /\ far[i] = Times(away(i), Whole(100)) /\ away(i) \in Fraction
    BY <1>5, <2>1
  <2> HIDE DEF away
  <2>3. QED BY <2>1, <2>2, Hundredfold
<1>11. alerts_cube(alerts, rows).nearest = nearest BY DEF alerts_cube, nearest
<1>12. /\ alerts_cube(alerts, rows).message = "awaiting prices" <=> alerts # <<>> /\ nearest = None
       /\ alerts_cube(alerts, rows).message = None <=> nearest # None
  <2>1. alerts_cube(alerts, rows).message = IF alerts = <<>> THEN "no alerts"
          ELSE IF nearest = None THEN "awaiting prices" ELSE None
    BY DEF alerts_cube, nearest
  <2>2. None # "awaiting prices" /\ None # "no alerts" BY FiguresAssumption
  <2>3. nearest # None => alerts # <<>>
    <3>1. nearest # None => DOMAIN alerts # {} BY <1>3, <1>8, <1>4
    <3>2. alerts = <<>> => DOMAIN alerts = {} OBVIOUS
    <3>3. QED BY <3>1, <3>2
  <2>4. QED BY <2>1, <2>2, <2>3
<1> DEFINE cube == alerts_cube(alerts, rows)
<1> HIDE DEF cube
<1>13. cube.nearest # None =>
         \A i \in DOMAIN alerts : price[i] # None => AtMost(away(cube.nearest), away(i))
  BY <1>3, <1>10, <1>11 DEF cube
<1>14. cube.message = "awaiting prices" <=>
         alerts # <<>> /\ \A i \in DOMAIN alerts : price[i] = None
  <2>1. nearest = None <=> \A i \in DOMAIN alerts : price[i] = None BY <1>3, <1>8, <1>9, <1>4
  <2>2. QED BY <1>12, <2>1 DEF cube
<1>15. cube.nearest # None <=> cube.message = None BY <1>11, <1>12 DEF cube
<1>16. QED BY <1>13, <1>14, <1>15 DEF AlertsAgree, price, limit, cube

LEMMA PortfolioHolds ==
  ASSUME NEW T, NEW U, NEW rows \in Seq(Quote(T)),
         NEW holdings \in Seq([ticker : U, shares : Int, avg_cost : Int])
  PROVE  PortfolioAgrees(holdings, rows, portfolio_cube(holdings, rows))
<1> DEFINE positions == portfolio_positions(holdings, rows)
           price(k) == resolve_price(holdings[k].ticker, rows).price
           message == portfolio_cube(holdings, rows).message
<1>1. message = IF holdings = <<>> THEN "no holdings"
                ELSE IF \A k \in DOMAIN positions : positions[k].market_value = None
                  THEN "awaiting prices" ELSE None
  BY DEF portfolio_cube
<1>2. DOMAIN positions = DOMAIN holdings BY DEF portfolio_positions
<1>3. ASSUME NEW k \in DOMAIN holdings
      PROVE  positions[k].market_value = None <=> price(k) = None
  <2>1. price(k) \in Figure BY ResolvedIs
  <2>2. holdings[k].shares \in Int
    <3>1. \A h \in [ticker : U, shares : Int, avg_cost : Int] : h.shares \in Int OBVIOUS
    <3>2. holdings[k] \in [ticker : U, shares : Int, avg_cost : Int] BY SeqIs
    <3>3. QED BY <3>1, <3>2
  <2>3. positions[k].market_value = IF price(k) # None THEN holdings[k].shares * price(k) ELSE None
    BY DEF portfolio_positions, value_position
  <2> HIDE DEF price, positions
  <2>4. price(k) # None => holdings[k].shares * price(k) \in Int BY <2>1, <2>2 DEF Figure
  <2>5. QED BY <2>3, <2>4, FiguresAssumption
<1>4. holdings # <<>> => 1 \in DOMAIN holdings
  <2> DEFINE n == Len(holdings)
  <2>1. n \in Nat /\ DOMAIN holdings = 1..n /\ (holdings # <<>> <=> n > 0)
    BY SeqIs
  <2> HIDE DEF n
  <2>2. n > 0 => 1 \in 1..n
    <3>1. n \in Nat BY <2>1
    <3>2. QED BY ONLY <3>1
  <2>3. QED BY <2>1, <2>2
<1> HIDE DEF positions, price, message
<1>5. None # "awaiting prices" BY FiguresAssumption
<1>6. message = "awaiting prices" <=>
        holdings # <<>> /\ \A k \in DOMAIN holdings : price(k) = None
  BY <1>1, <1>2, <1>3, <1>5
<1>7. ASSUME message = "awaiting prices" PROVE persistable_totals(positions) = None
  <2>1. 1 \in DOMAIN positions /\ positions[1].market_value = None
    BY <1>2, <1>3, <1>4, <1>6, <1>7
  <2>2. QED BY <2>1 DEF persistable_totals
<1>8. QED BY <1>6, <1>7 DEF PortfolioAgrees, positions, price, message

LEMMA MostActiveIs ==
  ASSUME NEW T, NEW rows \in Seq(Quote(T)), most_active(rows) # None,
         NEW i \in DOMAIN rows, rows[i].volume # None
  PROVE  rows[i].volume <= rows[most_active(rows)].volume
<1> DEFINE some == {k \in DOMAIN rows : positive_volume(rows[k].volume) # None}
           top == {k \in some : \A j \in some : rows[j].volume <= rows[k].volume}
           best == most_active(rows)
           f == [k \in some |-> rows[k].volume]
<1>1. DOMAIN rows = 1..Len(rows) /\ Len(rows) \in Nat
      /\ \A k \in 1..Len(rows) : rows[k].volume \in Figure
  <2>1. \A r \in Quote(T) : r.volume \in Figure BY DEF Quote
  <2>2. DOMAIN rows = 1..Len(rows) /\ Len(rows) \in Nat
        /\ \A k \in 1..Len(rows) : rows[k] \in Quote(T)
    BY SeqIs
  <2>3. QED BY <2>1, <2>2
<1>2. \A v \in Figure : positive_volume(v) # None <=> v # None /\ v > 0
  <2>1. \A v \in Figure : v # None => v \in Int BY DEF Figure
  <2>2. QED BY <2>1 DEF positive_volume
<1>3. \A k \in some : rows[k].volume \in Int /\ rows[k].volume > 0 /\ k \in 1..Len(rows)
  BY <1>1, <1>2 DEF Figure
<1>4. best = IF some = {} THEN None ELSE CHOOSE k \in top : \A j \in top : j <= k
  BY DEF most_active
<1>5. some # {} BY <1>4
<1>6. some \in SUBSET (1..Len(rows)) /\ IsFiniteSet(some)
  <2>1. some \in SUBSET (1..Len(rows)) BY <1>1
  <2>2. IsFiniteSet(1..Len(rows)) BY <1>1, FS_Interval
  <2> HIDE DEF some
  <2>3. QED BY <2>1, <2>2, FS_Subset
<1>7. i \in some \/ rows[i].volume <= 0
  <2>1. rows[i].volume \in Figure BY <1>1
  <2>2. rows[i].volume \in Int BY <2>1 DEF Figure
  <2>3. QED BY <1>2, <2>1, <2>2
<1>8. f \in [some -> Int] /\ \A k \in some : f[k] = rows[k].volume BY <1>3
<1> HIDE DEF some, f, best
<1>9. \E k \in some : \A j \in some : f[j] <= f[k] BY <1>5, <1>6, <1>8, ExtremesExist
<1>10. top # {} /\ top \in SUBSET some BY <1>8, <1>9
<1>11. \E k \in top : \A j \in top : j <= k
  <2> HIDE DEF top
  <2>0. IsFiniteSet(top) BY <1>6, <1>10, FS_Subset
  <2>1. IsFiniteSet(top) /\ top \in SUBSET Int BY <1>1, <1>6, <1>10, <2>0
  <2>2. QED BY <1>10, <2>1, MinOfInts
<1>12. best \in top
  <2> HIDE DEF top
  <2>1. QED BY <1>4, <1>5, <1>11
<1>13. best \in some /\ \A j \in some : rows[j].volume <= rows[best].volume BY <1>12
<1>14. rows[best].volume \in Int /\ rows[best].volume > 0 BY <1>3, <1>13
<1>15. rows[i].volume <= rows[best].volume
  <2>1. rows[i].volume \in Int BY <1>1 DEF Figure
  <2>2. CASE i \in some BY <1>13, <2>2
  <2>3. CASE rows[i].volume <= 0 BY <1>14, <2>1, <2>3
  <2>4. QED BY <1>7, <2>2, <2>3
<1>16. QED BY <1>15 DEF best

LEMMA MostActiveHolds ==
  ASSUME NEW T, NEW rows \in Seq(Quote(T))
  PROVE  MostActiveAgrees(rows, most_active(rows))
<1> DEFINE some == {k \in DOMAIN rows : positive_volume(rows[k].volume) # None}
           top == {k \in some : \A j \in some : rows[j].volume <= rows[k].volume}
           best == most_active(rows)
           f == [k \in some |-> rows[k].volume]
<1>1. best = IF some = {} THEN None ELSE CHOOSE k \in top : \A j \in top : j <= k
  BY DEF most_active
<1>2. DOMAIN rows = 1..Len(rows) /\ Len(rows) \in Nat
      /\ \A k \in 1..Len(rows) : rows[k].volume \in Figure
  <2>1. \A r \in Quote(T) : r.volume \in Figure BY DEF Quote
  <2>2. DOMAIN rows = 1..Len(rows) /\ Len(rows) \in Nat
        /\ \A k \in 1..Len(rows) : rows[k] \in Quote(T)
    BY SeqIs
  <2>3. QED BY <2>1, <2>2
<1>3. some # {} => best \in some
  <2> SUFFICES ASSUME some # {} PROVE best \in some
    OBVIOUS
  <2>1. \A v \in Figure : positive_volume(v) # None => v \in Int BY DEF positive_volume, Figure
  <2>2. f \in [some -> Int] /\ \A k \in some : f[k] = rows[k].volume BY <1>2, <2>1
  <2>3. some \in SUBSET (1..Len(rows)) /\ IsFiniteSet(some)
    <3>1. some \in SUBSET (1..Len(rows)) BY <1>2
    <3>2. IsFiniteSet(1..Len(rows)) BY <1>2, FS_Interval
    <3> HIDE DEF some
    <3>3. QED BY <3>1, <3>2, FS_Subset
  <2> HIDE DEF some, f, best
  <2>4. \E k \in some : \A j \in some : f[j] <= f[k] BY <2>2, <2>3, ExtremesExist
  <2>5. top # {} /\ top \in SUBSET some BY <2>2, <2>4
  <2> HIDE DEF top
  <2>6. IsFiniteSet(top) BY <2>3, <2>5, FS_Subset
  <2>7. top \in SUBSET Int BY <1>2, <2>3, <2>5
  <2>8. \E k \in top : \A j \in top : j <= k BY <2>5, <2>6, <2>7, MinOfInts
  <2>9. best \in top BY <1>1, <2>8
  <2>10. QED BY <2>5, <2>9
<1>4. best = None <=> some = {}
  <2>1. None \notin Int BY FiguresAssumption
  <2>2. some \subseteq Int BY <1>2
  <2> HIDE DEF some, best, top
  <2>3. QED BY <1>1, <1>3, <2>1, <2>2
<1>5. best = None <=> \A i \in DOMAIN rows : positive_volume(rows[i].volume) = None
  <2> HIDE DEF best
  <2>1. QED BY <1>4
<1>6. ASSUME best # None, NEW i \in DOMAIN rows, rows[i].volume # None
      PROVE  rows[i].volume <= rows[best].volume
  BY <1>6, MostActiveIs
<1> HIDE DEF best
<1>7. QED BY <1>5, <1>6 DEF MostActiveAgrees, best

\* Whatever the quotes, the alerts and the holdings are: each cube says of the rows
\* what CubesAgree states, the movers the greatest changes, the alerts the nearest,
\* the portfolio and the alerts that they wait for prices just when none of theirs
\* is known; and the breadth is left out just when no quote moved, even where the
\* movers list flat quotes, which is all the two cubes may differ in (movers_cube,
\* breadth_cube, alerts_cube, portfolio_cube, most_active).
THEOREM AllCubesAgree ==
  ASSUME NEW T, NEW U, NEW rows \in Seq(Quote(T)), NEW width \in Nat,
         NEW alerts \in Seq([ticker : U, threshold : Nat \ {0}]),
         NEW holdings \in Seq([ticker : U, shares : Int, avg_cost : Int])
  PROVE  CubesAgree(rows, alerts, holdings, width)
<1>1. MoversAgree([i \in DOMAIN rows |-> Pct_of(rows[i])], ranked_movers(rows, 3),
                  movers_cube(rows, width), width)
  BY MoversHold
<1>2. BreadthAgrees([i \in DOMAIN rows |-> Pct_of(rows[i])], day_breadth(rows),
                    breadth_cube(rows, width), ranked_movers(rows, 3),
                    movers_cube(rows, width), width)
  BY BreadthHolds
<1>3. AlertsAgree(alerts, [i \in DOMAIN alerts |-> resolve_price(alerts[i].ticker, rows).price],
                  alerts_cube(alerts, rows))
  BY AlertsHold
<1>4. PortfolioAgrees(holdings, rows, portfolio_cube(holdings, rows)) BY PortfolioHolds
<1>5. MostActiveAgrees(rows, most_active(rows)) BY MostActiveHolds
<1>6. QED BY <1>1, <1>2, <1>3, <1>4, <1>5 DEF CubesAgree

-----------------------------------------------------------------------------
(***************************************************************************)
(* The search                                                              *)
(***************************************************************************)
\* What the first i letters of text give of query, from what those before the
\* last of them gave.
Read(text, query, i, positions) ==
  LET next == Len(positions) + 1
  IN  IF next <= Len(query) /\ Lower(text[i]) = Lower(query[next])
        THEN Append(positions, i) ELSE positions

Reads(g, text, query) ==
  /\ g \in [0..Len(text) -> Seq(Nat)] /\ g[0] = <<>>
  /\ \A i \in 1..Len(text) : g[i] = Read(text, query, i, g[i - 1])

LEMMA ReadsExists ==
  ASSUME NEW L, NEW text \in Seq(L), NEW query \in Seq(L)
  PROVE  \E g : Reads(g, text, query)
<1> DEFINE n == Len(text)  V == Seq(Nat)
           F == [i \in 1..n |-> [p \in V |-> Read(text, query, i, p)]]
<1>1. n \in Nat OBVIOUS
<1>2. \A i \in 1..n : \A p \in V : Read(text, query, i, p) \in V
  BY DEF Read
<1>3. F \in [1..n -> [V -> V]] BY <1>2
<1>4. \A i \in 1..n : \A p \in V : F[i][p] = Read(text, query, i, p) OBVIOUS
<1>5. <<>> \in V OBVIOUS
<1> HIDE DEF F, V, n
<1>6. PICK g : Follows(g, n, V, <<>>, F) BY <1>1, <1>3, <1>5, RecursionExists
<1>7. /\ g \in [0..n -> V] /\ g[0] = <<>> /\ \A i \in 1..n : g[i] = F[i][g[i - 1]]
  BY <1>6 DEF Follows
<1>8. ASSUME NEW i \in 1..n PROVE g[i] = Read(text, query, i, g[i - 1])
  <2>1. i - 1 \in 0..n BY <1>1
  <2>2. g[i - 1] \in V BY <1>7, <2>1
  <2>3. QED BY <1>4, <1>7, <2>2
<1>9. Reads(g, text, query) BY <1>7, <1>8 DEF Reads, n, V
<1>10. QED BY <1>9

\* A way to read the query in the text.
Readings(text, query) ==
  {where \in [1..Len(query) -> 1..Len(text)] :
     /\ \A i, j \in 1..Len(query) : i < j => where[i] < where[j]
     /\ \A i \in 1..Len(query) : Lower(text[where[i]]) = Lower(query[i])}

\* The positions in p are such a way for the first letters of the query, and no
\* other gets further in the first i letters of the text.
Foremost(text, query, i, p) ==
  /\ p \in Seq(1..i) /\ Len(p) <= Len(query)
  /\ \A a, b \in 1..Len(p) : a < b => p[a] < p[b]
  /\ \A a \in 1..Len(p) : Lower(text[p[a]]) = Lower(query[a])
  /\ \A w \in Readings(text, query) : \A k \in 1..Len(query) : w[k] <= i => k <= Len(p)

LEMMA ForemostStep ==
  ASSUME NEW L, NEW text \in Seq(L), NEW query \in Seq(L), NEW i \in 1..Len(text), NEW p,
         Foremost(text, query, i - 1, p)
  PROVE  Foremost(text, query, i, Read(text, query, i, p))
<1> DEFINE n == Len(text)  m == Len(query)  c == Len(p)  q == Read(text, query, i, p)
           hit == c + 1 <= m /\ Lower(text[i]) = Lower(query[c + 1])
<1>1. n \in Nat /\ m \in Nat /\ i \in 1..n OBVIOUS
<1>2. /\ p \in Seq(1..(i - 1)) /\ c <= m
      /\ \A a, b \in 1..c : a < b => p[a] < p[b]
      /\ \A a \in 1..c : Lower(text[p[a]]) = Lower(query[a])
      /\ \A w \in Readings(text, query) : \A k \in 1..m : w[k] <= i - 1 => k <= c
  BY DEF Foremost
<1>3. c \in Nat /\ \A a \in 1..c : p[a] \in 1..(i - 1) BY <1>2, SeqIs
<1>4. q = IF hit THEN Append(p, i) ELSE p BY DEF Read
<1>5. p \in Seq(1..i)
  <2>1. \A a \in 1..c : p[a] \in 1..i BY <1>1, <1>3
  <2>2. p \in [1..c -> 1..i]
    <3>1. p \in [1..c -> 1..(i - 1)] BY <1>2, SeqIs
    <3> HIDE DEF c
    <3>2. QED BY <2>1, <3>1
  <2>3. QED BY <1>3, <2>2, ListIs
<1>6. \A w \in Readings(text, query) :
        /\ \A k \in 1..m : w[k] \in 1..n
        /\ \A a, b \in 1..m : a < b => w[a] < w[b]
        /\ \A k \in 1..m : Lower(text[w[k]]) = Lower(query[k])
  BY DEF Readings
<1>7. ASSUME NEW w \in Readings(text, query), NEW k \in 1..m, w[k] <= i, ~(k <= c)
      PROVE  hit /\ k <= c + 1
  <2>1. w[k] \in 1..n BY <1>6
  <2>2. ~(w[k] <= i - 1) BY <1>2, <1>7
  <2>3. w[k] = i BY <1>1, <1>7, <2>1, <2>2
  <2>4. k = c + 1
    <3>1. CASE k = 1 BY <1>3, <1>7, <3>1
    <3>2. CASE k # 1
      <4>1. k - 1 \in 1..m /\ k - 1 < k BY <1>1, <3>2
      <4>2. w[k - 1] < w[k] /\ w[k - 1] \in 1..n BY <1>6, <4>1
      <4>3. w[k - 1] <= i - 1 BY <1>1, <2>3, <4>2
      <4>4. k - 1 <= c BY <1>2, <4>1, <4>3
      <4>5. QED BY <1>1, <1>3, <1>7, <4>4
    <3>3. QED BY <3>1, <3>2
  <2>5. Lower(text[i]) = Lower(query[c + 1]) BY <1>6, <2>3, <2>4
  <2>6. QED BY <1>1, <1>3, <2>4, <2>5
<1> HIDE DEF hit, q, n, m, c
<1>8. CASE ~hit
  <2>1. q = p BY <1>4, <1>8
  <2>2. \A w \in Readings(text, query) : \A k \in 1..m : w[k] <= i => k <= c BY <1>7, <1>8
  <2>3. Foremost(text, query, i, p) BY <1>2, <1>5, <2>2 DEF Foremost, c, m
  <2>4. QED BY <2>1, <2>3 DEF q
<1>9. CASE hit
  <2>1. q = Append(p, i) BY <1>4, <1>9
  <2>2. i \in 1..i BY <1>1
  <2>3. /\ q \in Seq(1..i) /\ Len(q) = c + 1 /\ q[c + 1] = i
        /\ \A a \in 1..c : q[a] = p[a]
    BY <1>5, <2>1, <2>2 DEF c
  <2>4. c + 1 <= m /\ Lower(text[i]) = Lower(query[c + 1]) BY <1>9 DEF hit
  <2>5. \A a \in 1..(c + 1) : a = c + 1 \/ a \in 1..c BY <1>3
  <2>6. ASSUME NEW a \in 1..(c + 1), NEW b \in 1..(c + 1), a < b PROVE q[a] < q[b]
    <3>1. a \in 1..c BY <1>3, <2>6
    <3>2. p[a] \in 1..(i - 1) /\ q[a] = p[a] BY <1>3, <2>3, <3>1
    <3>3. CASE b = c + 1 BY <1>1, <2>3, <3>2, <3>3
    <3>4. CASE b \in 1..c BY <1>2, <2>3, <2>6, <3>1, <3>4
    <3>5. QED BY <2>5, <3>3, <3>4
  <2>7. \A a \in 1..(c + 1) : Lower(text[q[a]]) = Lower(query[a])
    BY <1>2, <2>3, <2>4, <2>5
  <2>8. \A w \in Readings(text, query) : \A k \in 1..m : w[k] <= i => k <= c + 1
    <3>1. \A k \in 1..m : k <= c => k <= c + 1 BY <1>1, <1>3
    <3>2. QED BY <1>7, <3>1
  <2>9. Foremost(text, query, i, q) BY <2>3, <2>4, <2>6, <2>7, <2>8 DEF Foremost, m
  <2>10. QED BY <2>9 DEF q
<1>10. QED BY <1>8, <1>9

\* Reading from left to right and taking the first letter that fits finds the
\* query whenever there is a way to find it, and as many letters of the text are
\* highlighted as the query has (subseq_match_ci, matches_query, fuzzy_cell).
THEOREM AllSearchesComplete ==
  ASSUME NEW L, NEW text \in Seq(L), NEW query \in Seq(L)
  PROVE  SearchIsComplete(text, query)
<1> DEFINE n == Len(text)  m == Len(query)
           Rec(g) == g = [i \in 0..n |->
                            IF i = 0 THEN <<>>
                            ELSE IF Len(g[i - 1]) + 1 <= Len(query)
                                    /\ Lower(text[i]) = Lower(query[Len(g[i - 1]) + 1])
                              THEN Append(g[i - 1], i) ELSE g[i - 1]]
           found == CHOOSE g : Rec(g)
           all == found[n]
           match == subseq_match_ci(text, query)
<1>1. n \in Nat /\ m \in Nat /\ DOMAIN text = 1..n /\ DOMAIN query = 1..m
  OBVIOUS
<1>2. Rec(found)
  <2>1. PICK g : Reads(g, text, query) BY ReadsExists
  <2>2. g \in [0..n -> Seq(Nat)] /\ g[0] = <<>>
        /\ \A i \in 1..n : g[i] = Read(text, query, i, g[i - 1])
    BY <2>1 DEF Reads
  <2>3. ASSUME NEW i \in 0..n
        PROVE  g[i] = IF i = 0 THEN <<>>
                      ELSE IF Len(g[i - 1]) + 1 <= Len(query)
                              /\ Lower(text[i]) = Lower(query[Len(g[i - 1]) + 1])
                        THEN Append(g[i - 1], i) ELSE g[i - 1]
    <3>1. CASE i = 0 BY <2>2, <3>1
    <3>2. CASE i # 0
      <4>1. i \in 1..n BY <1>1, <3>2
      <4>2. g[i] = Read(text, query, i, g[i - 1]) BY <2>2, <4>1
      <4>3. QED BY <3>2, <4>2 DEF Read
    <3>3. QED BY <3>1, <3>2
  <2>4. g = [i \in 0..n |-> g[i]] BY <2>2
  <2>5. Rec(g)
    <3> DEFINE h == [i \in 0..n |->
                            IF i = 0 THEN <<>>
                            ELSE IF Len(g[i - 1]) + 1 <= Len(query)
                                    /\ Lower(text[i]) = Lower(query[Len(g[i - 1]) + 1])
                              THEN Append(g[i - 1], i) ELSE g[i - 1]]
    <3>1. \A i \in 0..n : g[i] = h[i] BY <2>3
    <3>2. h = [i \in 0..n |-> h[i]] OBVIOUS
    <3> HIDE DEF h
    <3>3. g = h BY <2>4, <3>1, <3>2
    <3>4. QED BY <3>3 DEF h
  <2> HIDE DEF Rec
  <2>6. QED BY <2>5
<1>3. match = IF query = <<>> \/ Len(all) < m THEN None ELSE all
  BY DEF subseq_match_ci
<1>4. /\ found[0] = <<>>
      /\ \A i \in 1..n : found[i] = Read(text, query, i, found[i - 1])
  <2> HIDE DEF found
  <2>1. 0 \in 0..n /\ \A i \in 1..n : i \in 0..n /\ i # 0 BY <1>1
  <2>2. found[0] = <<>> BY <1>2, <2>1
  <2>3. \A i \in 1..n : found[i] = Read(text, query, i, found[i - 1])
    BY <1>2, <2>1 DEF Read
  <2>4. QED BY <2>2, <2>3
<1> HIDE DEF Rec, found, n, m, all, match
<1>5. 0..n \subseteq {i \in 0..n : Foremost(text, query, i, found[i])}
  <2> DEFINE Good == {i \in 0..n : Foremost(text, query, i, found[i])}
  <2>1. 0 \in Good
    <3>1. <<>> \in Seq(1..0) /\ Len(<<>>) = 0 /\ 1..0 = {} OBVIOUS
    <3>2. \A w \in Readings(text, query) : \A k \in 1..m : ~(w[k] <= 0)
      <4>1. \A w \in Readings(text, query) : \A k \in 1..m : w[k] \in 1..n
        BY DEF Readings, n, m
      <4>2. \A z \in 1..n : ~(z <= 0) BY <1>1
      <4>3. QED BY <4>1, <4>2
    <3>3. Foremost(text, query, 0, <<>>)
      <4>1. \A a \in 1..Len(<<>>) : FALSE BY <3>1
      <4>2. Len(<<>>) <= Len(query) BY <1>1, <3>1 DEF m
      <4>3. QED BY <3>1, <3>2, <4>1, <4>2 DEF Foremost, m
    <3>4. QED BY <1>1, <1>4, <3>3
  <2>2. ASSUME NEW i \in 1..n, i - 1 \in Good PROVE i \in Good
    <3>1. i \in 1..Len(text) /\ i \in 0..n BY <1>1 DEF n
    <3>2. Foremost(text, query, i - 1, found[i - 1]) BY <2>2
    <3>3. Foremost(text, query, i, Read(text, query, i, found[i - 1])) BY <3>1, <3>2, ForemostStep
    <3>4. QED BY <1>4, <3>1, <3>3
  <2> HIDE DEF Good
  <2>3. QED BY <1>1, <2>1, <2>2, UptoInduction DEF Good
<1>6. Foremost(text, query, n, all)
  <2>1. n \in 0..n BY <1>1
  <2>2. QED BY <1>5, <2>1 DEF all
<1>7. /\ all \in Seq(1..n) /\ Len(all) <= m /\ Len(all) \in Nat
      /\ \A a, b \in 1..Len(all) : a < b => all[a] < all[b]
      /\ \A a \in 1..Len(all) : Lower(text[all[a]]) = Lower(query[a])
      /\ \A w \in Readings(text, query) : \A k \in 1..m : w[k] <= n => k <= Len(all)
  BY <1>6 DEF Foremost, m
<1> DEFINE readable == Readings(text, query) # {}
<1>8. readable <=> Len(all) = m
  <2>1. ASSUME Len(all) = m PROVE all \in Readings(text, query)
    <3>1. all \in [1..m -> 1..n] BY <1>7, <2>1, SeqIs
    <3>2. QED BY <1>7, <2>1, <3>1 DEF Readings, m, n
  <2>2. ASSUME NEW w \in Readings(text, query) PROVE Len(all) = m
    <3>1. CASE m = 0 BY <1>7, <3>1
    <3>2. CASE m # 0
      <4>1. m \in 1..m BY <1>1, <3>2
      <4>2. w[m] \in 1..n BY <4>1 DEF Readings, m, n
      <4>3. w[m] <= n BY <1>1, <4>2
      <4>4. m <= Len(all) BY <1>7, <4>1, <4>3
      <4>5. QED BY <1>1, <1>7, <4>4
    <3>3. QED BY <3>1, <3>2
  <2>3. QED BY <2>1, <2>2
<1>9. query = <<>> <=> m = 0
  BY DEF m
<1>10. matches_query({text}, query) <=> readable
  <2>1. matches_query({text}, query) <=> (query = <<>> \/ match # None)
    BY DEF matches_query, match
  <2>2. None # all
    <3>1. all \in Seq(Int)
      <4>1. all \in [1..Len(all) -> Int]
        <5>1. all \in [1..Len(all) -> 1..n] BY <1>7, SeqIs
        <5>2. \A z \in 1..n : z \in Int OBVIOUS
        <5>3. QED BY <5>1, <5>2
      <4>2. QED BY <1>7, <4>1, ListIs
    <3>2. QED BY <3>1, FiguresAssumption
  <2>3. match # None <=> ~(query = <<>> \/ Len(all) < m) BY <1>3, <2>2
  <2>4. Len(all) < m <=> Len(all) # m BY <1>1, <1>7
  <2>5. m = 0 => Len(all) = m BY <1>7
  <2>6. QED BY <1>8, <1>9, <2>1, <2>3, <2>4, <2>5
<1>11. ASSUME readable PROVE Cardinality(fuzzy_cell(text, query, TRUE)) = m
  <2>1. CASE query = <<>>
    <3>1. fuzzy_cell(text, query, TRUE) = {} BY <2>1 DEF fuzzy_cell
    <3>2. QED BY <1>9, <2>1, <3>1, FS_EmptySet
  <2>2. CASE query # <<>>
    <3> DEFINE lit == {all[i] : i \in 1..m}
    <3>1. Len(all) = m /\ match = all /\ match # None
      <4>1. Len(all) = m BY <1>8, <1>11
      <4>2. match = all BY <1>1, <1>3, <2>2, <4>1
      <4>3. match # None
        <5>1. query = <<>> \/ match # None BY <1>10, <1>11 DEF matches_query, match
        <5>2. QED BY <2>2, <5>1
      <4>4. QED BY <4>1, <4>2, <4>3
    <3>2. all \in [1..m -> 1..n] /\ DOMAIN all = 1..m BY <1>7, <3>1, SeqIs
    <3>3. fuzzy_cell(text, query, TRUE) = lit
      BY <2>2, <3>1, <3>2 DEF fuzzy_cell, match
    <3>4. \A a, b \in 1..m : all[a] = all[b] => a = b
      <4>1. \A a, b \in 1..m : a < b => all[a] < all[b] BY <1>7, <3>1
      <4>2. \A a \in 1..m : all[a] \in Int BY <3>2
      <4>3. \A a, b \in 1..m : a = b \/ a < b \/ b < a BY <1>1
      <4>4. \A a, b \in 1..m : a < b => all[a] # all[b] BY <4>1, <4>2
      <4>5. QED BY <4>3, <4>4
    <3>5. all \in [1..m -> lit]
      <4>1. \A a \in 1..m : all[a] \in lit OBVIOUS
      <4> HIDE DEF lit
      <4>2. QED BY <3>2, <4>1
    <3>6. all \in Injection(1..m, lit) BY <3>4, <3>5 DEF Injection, IsInjective
    <3>7. all \in Surjection(1..m, lit)
      <4>1. \A t \in lit : \E s \in 1..m : all[s] = t OBVIOUS
      <4> HIDE DEF lit
      <4>2. QED BY <3>5, <4>1 DEF Surjection
    <3>8. IsFiniteSet(1..m) /\ Cardinality(1..m) = m BY <1>1, FS_Interval
    <3> HIDE DEF lit
    <3>9. Cardinality(lit) = Cardinality(1..m) BY <3>6, <3>7, <3>8, FS_Surjection
    <3>10. QED BY <3>3, <3>8, <3>9
  <2>3. QED BY <2>1, <2>2
<1>12. readable <=> \E where \in [DOMAIN query -> DOMAIN text] :
         /\ \A i, j \in DOMAIN query : i < j => where[i] < where[j]
         /\ \A i \in DOMAIN query : Lower(text[where[i]]) = Lower(query[i])
  BY <1>1 DEF Readings, n, m
<1> HIDE DEF readable
<1>13. QED BY <1>10, <1>11, <1>12 DEF SearchIsComplete, m

-----------------------------------------------------------------------------
(***************************************************************************)
(* Fractions are an ordered field                                          *)
(***************************************************************************)
LEMMA TimesLaws ==
  ASSUME NEW f \in Fraction, NEW g \in Fraction, NEW h \in Fraction
  PROVE  /\ Times(f, g) = Times(g, f)
         /\ Times(f, Times(g, h)) = Times(Times(f, g), h)
         /\ Times(f, Plus(g, h)) = Plus(Times(f, g), Times(f, h))
         /\ Times(f, Minus(g, h)) = Minus(Times(f, g), Times(f, h))
         /\ Times(f, Zero) = Zero
<1> DEFINE p == f[1]  q == f[2]  r == g[1]  s == g[2]  u == h[1]  v == h[2]
<1>1. /\ p \in Int /\ q \in Int \ {0} /\ r \in Int /\ s \in Int \ {0} /\ u \in Int /\ v \in Int \ {0}
      /\ Is(f, p, q) /\ Is(g, r, s) /\ Is(h, u, v)
  BY FractionIs, IsOwn
<1> HIDE DEF p, q, r, s, u, v
<1>a. /\ Is(Times(f, g), p * r, q * s) /\ Is(Times(f, h), p * u, q * v)
      /\ Is(Times(g, f), r * p, s * q) /\ Is(Times(g, h), r * u, s * v)
      /\ Is(Plus(g, h), r * v + u * s, s * v) /\ Is(Minus(g, h), r * v - u * s, s * v)
  BY <1>1, IsTimes, IsPlus
<1>2. Times(f, g) = Times(g, f)
  <2>1. (p * r) * (s * q) = (r * p) * (q * s) BY <1>1
  <2>2. QED BY <1>a, <2>1, IsSame
<1>3. Times(f, Times(g, h)) = Times(Times(f, g), h)
  <2>1. /\ Is(Times(f, Times(g, h)), p * (r * u), q * (s * v))
        /\ Is(Times(Times(f, g), h), (p * r) * u, (q * s) * v)
    BY <1>a, <1>1, IsTimes
  <2>2. q * (s * v) = (q * s) * v /\ p * (r * u) = (p * r) * u BY <1>1
  <2>3. QED BY <2>1, <2>2, IsSame
<1>4. /\ Is(Times(f, Plus(g, h)), p * (r * v + u * s), q * (s * v))
      /\ Is(Times(f, Minus(g, h)), p * (r * v - u * s), q * (s * v))
  BY <1>a, <1>1, IsTimes
<1>5. /\ Is(Plus(Times(f, g), Times(f, h)), (p * r) * (q * v) + (p * u) * (q * s), (q * s) * (q * v))
      /\ Is(Minus(Times(f, g), Times(f, h)), (p * r) * (q * v) - (p * u) * (q * s), (q * s) * (q * v))
  BY <1>a, IsPlus
<1>6. /\ (q * s) * (q * v) = q * (q * (s * v))
      /\ (p * r) * (q * v) + (p * u) * (q * s) = q * (p * (r * v + u * s))
      /\ (p * r) * (q * v) - (p * u) * (q * s) = q * (p * (r * v - u * s))
  BY <1>1
<1> DEFINE A == p * (r * v + u * s)  B == p * (r * v - u * s)  D == q * (s * v)
<1>7. A \in Int /\ B \in Int /\ D \in Int BY <1>1
<1> HIDE DEF A, B, D
<1>8. A * (q * D) = (q * A) * D /\ B * (q * D) = (q * B) * D BY <1>1, <1>7
<1>9. Times(f, Plus(g, h)) = Plus(Times(f, g), Times(f, h))
  BY <1>4, <1>5, <1>6, <1>8, IsSame DEF A, D
<1>10. Times(f, Minus(g, h)) = Minus(Times(f, g), Times(f, h))
  BY <1>4, <1>5, <1>6, <1>8, IsSame DEF B, D
<1>11. Times(f, Zero) = Zero
  <2>1. Is(Times(f, Zero), p * 0, q * 1) BY <1>1, Numbers, IsTimes
  <2>2. (p * 0) * 1 = 0 * (q * 1) BY <1>1
  <2>3. QED BY <2>1, <2>2, Numbers, IsSame
<1>12. QED BY <1>2, <1>3, <1>9, <1>10, <1>11

LEMMA OverLaws ==
  ASSUME NEW f \in Fraction, NEW g \in Fraction, g # Zero
  PROVE  Times(Over(f, g), g) = f /\ Times(g, Over(f, g)) = f /\ Over(g, g) = One
<1> DEFINE p == f[1]  q == f[2]  r == g[1]  s == g[2]
<1>1. /\ p \in Int /\ q \in Int \ {0} /\ r \in Int \ {0} /\ s \in Int \ {0}
      /\ Is(f, p, q) /\ Is(g, r, s)
  <2>1. g[1] # 0 BY FieldTypes
  <2>2. QED BY <2>1, FractionIs, IsOwn
<1> HIDE DEF p, q, r, s
<1>2. Is(Over(f, g), p * s, q * r) /\ Is(Over(g, g), r * s, s * r) BY <1>1, IsTimes
<1>3. Is(Times(Over(f, g), g), (p * s) * r, (q * r) * s) BY <1>1, <1>2, IsTimes
<1>4. ((p * s) * r) * q = p * ((q * r) * s) BY <1>1
<1>5. Times(Over(f, g), g) = f BY <1>1, <1>3, <1>4, IsSame
<1>6. Times(g, Over(f, g)) = f
  <2>1. Over(f, g) \in Fraction BY FieldTypes
  <2>2. QED BY <2>1, <1>5, TimesLaws
<1>7. Over(g, g) = One
  <2>1. (r * s) * 1 = 1 * (s * r) BY <1>1
  <2>2. QED BY <2>1, <1>2, Numbers, IsSame
<1>8. QED BY <1>5, <1>6, <1>7

LEMMA PlusOrder ==
  ASSUME NEW f \in Fraction, NEW g \in Fraction, NEW h \in Fraction
  PROVE  /\ AtMost(Plus(f, h), Plus(g, h)) <=> AtMost(f, g)
         /\ AtMost(Plus(h, f), Plus(h, g)) <=> AtMost(f, g)
         /\ AtMost(h, Plus(h, f)) <=> AtMost(Zero, f)
         /\ AtMost(Zero, Minus(g, f)) <=> AtMost(f, g)
         /\ Minus(f, Zero) = f /\ Minus(f, f) = Zero
         /\ Plus(f, g) = h <=> f = Minus(h, g)
<1> DEFINE p == f[1]  q == f[2]  r == g[1]  s == g[2]  u == h[1]  v == h[2]
<1>1. /\ p \in Int /\ q \in Int \ {0} /\ r \in Int /\ s \in Int \ {0} /\ u \in Int /\ v \in Int \ {0}
      /\ q > 0 /\ s > 0 /\ v > 0
      /\ Is(f, p, q) /\ Is(g, r, s) /\ Is(h, u, v)
  BY FractionIs, IsOwn
<1> HIDE DEF p, q, r, s, u, v
<1>2. ASSUME NEW a \in Fraction, NEW b \in Fraction, NEW c \in Fraction
      PROVE  AtMost(Plus(a, c), Plus(b, c)) <=> AtMost(a, b)
  <2> DEFINE k == a[1]  l == a[2]  m == b[1]  n == b[2]  i == c[1]  j == c[2]
  <2>1. /\ k \in Int /\ l \in Int /\ m \in Int /\ n \in Int /\ i \in Int /\ j \in Int
        /\ l > 0 /\ n > 0 /\ j > 0
        /\ Is(a, k, l) /\ Is(b, m, n) /\ Is(c, i, j)
    BY FractionIs, IsOwn
  <2> HIDE DEF k, l, m, n, i, j
  <2>2. Is(Plus(a, c), k * j + i * l, l * j) /\ Is(Plus(b, c), m * j + i * n, n * j)
    BY <2>1, IsPlus
  <2>3. l * j > 0 /\ n * j > 0 /\ j * j > 0 BY <2>1
  <2>4. AtMost(Plus(a, c), Plus(b, c)) <=> (k * j + i * l) * (n * j) <= (m * j + i * n) * (l * j)
    BY <2>2, <2>3, IsOrder
  <2>5. AtMost(a, b) <=> k * n <= m * l BY <2>1, IsOrder
  <2>6. /\ (k * j + i * l) * (n * j) = (k * n) * (j * j) + (i * l) * (n * j)
        /\ (m * j + i * n) * (l * j) = (m * l) * (j * j) + (i * l) * (n * j)
    BY <2>1
  <2>7. (k * n) * (j * j) <= (m * l) * (j * j) <=> k * n <= m * l
    <3>1. k * n \in Int /\ m * l \in Int /\ j * j \in Int BY <2>1
    <3>2. QED BY <3>1, <2>3, CancelLess
  <2>8. (k * n) * (j * j) \in Int /\ (m * l) * (j * j) \in Int /\ (i * l) * (n * j) \in Int BY <2>1
  <2>9. QED BY <2>4, <2>5, <2>6, <2>7, <2>8
<1>3. AtMost(Plus(f, h), Plus(g, h)) <=> AtMost(f, g) BY <1>2
<1>4. AtMost(Plus(h, f), Plus(h, g)) <=> AtMost(f, g)
  <2>1. Plus(h, f) = Plus(f, h) /\ Plus(h, g) = Plus(g, h) BY PlusLaws
  <2>2. QED BY <2>1, <1>3
<1>5. AtMost(h, Plus(h, f)) <=> AtMost(Zero, f)
  <2>1. Plus(Zero, h) = h /\ Plus(h, f) = Plus(f, h) BY PlusLaws
  <2>2. AtMost(Plus(Zero, h), Plus(f, h)) <=> AtMost(Zero, f) BY Numbers, <1>2
  <2>3. QED BY <2>1, <2>2
<1>6. AtMost(Zero, Minus(g, f)) <=> AtMost(f, g)
  <2>1. Minus(g, f) \in Fraction BY FieldTypes
  <2>2. Plus(Zero, f) = f /\ Plus(Minus(g, f), f) = g BY PlusLaws
  <2>3. AtMost(Plus(Zero, f), Plus(Minus(g, f), f)) <=> AtMost(Zero, Minus(g, f))
    BY <2>1, Numbers, <1>2
  <2>4. QED BY <2>2, <2>3
<1>7. Minus(f, Zero) = f
  <2>1. Minus(Plus(f, Zero), Zero) = f /\ Plus(f, Zero) = f BY Numbers, PlusLaws
  <2>2. QED BY <2>1
<1>8. Minus(f, f) = Zero
  <2>1. Minus(Plus(Zero, f), f) = Zero /\ Plus(Zero, f) = f BY Numbers, PlusLaws
  <2>2. QED BY <2>1
<1>9. Plus(f, g) = h <=> f = Minus(h, g)
  <2>1. Minus(Plus(f, g), g) = f /\ Plus(Minus(h, g), g) = h BY PlusLaws
  <2>2. QED BY <2>1
<1>10. QED BY <1>3, <1>4, <1>5, <1>6, <1>7, <1>8, <1>9

LEMMA SignLaws ==
  ASSUME NEW f \in Fraction, NEW g \in Fraction, NEW h \in Fraction
  PROVE  /\ AtMost(Zero, f) <=> f[1] >= 0
         /\ Less(Zero, f) <=> f[1] > 0
         /\ Less(Zero, f) => f # Zero
         /\ AtMost(Zero, f) /\ AtMost(Zero, g) =>
              AtMost(Zero, Plus(f, g)) /\ AtMost(Zero, Times(f, g))
         /\ AtMost(Zero, f) /\ Less(Zero, g) => AtMost(Zero, Over(f, g))
         /\ Less(Zero, h) => (AtMost(Times(f, h), Times(g, h)) <=> AtMost(f, g))
<1> DEFINE p == f[1]  q == f[2]  r == g[1]  s == g[2]  u == h[1]  v == h[2]
<1>1. /\ p \in Int /\ q \in Int \ {0} /\ r \in Int /\ s \in Int \ {0} /\ u \in Int /\ v \in Int \ {0}
      /\ q > 0 /\ s > 0 /\ v > 0
      /\ Is(f, p, q) /\ Is(g, r, s) /\ Is(h, u, v)
  BY FractionIs, IsOwn
<1>2. ASSUME NEW a, NEW m, NEW d, Is(a, m, d), d > 0
      PROVE  (AtMost(Zero, a) <=> m >= 0) /\ (Less(Zero, a) <=> m > 0)
  <2>1. AtMost(Zero, a) <=> 0 * d <= m * 1
    BY <1>2, Numbers, IsOrder
  <2>2. Less(Zero, a) <=> 0 * d < m * 1
    BY <1>2, Numbers, IsOrder
  <2>3. m \in Int /\ d \in Int BY <1>2 DEF Is
  <2>4. QED BY <2>1, <2>2, <2>3
<1>3. (AtMost(Zero, f) <=> p >= 0) /\ (Less(Zero, f) <=> p > 0)
  BY <1>1, <1>2
<1>4. (AtMost(Zero, g) <=> r >= 0) /\ (Less(Zero, g) <=> r > 0)
  BY <1>1, <1>2
<1>5. Less(Zero, h) <=> u > 0
  BY <1>1, <1>2
<1>z. Less(Zero, f) => f # Zero
  BY OrderLaws, Numbers
<1> HIDE DEF p, q, r, s, u, v
<1>6. ASSUME p >= 0, r >= 0 PROVE AtMost(Zero, Plus(f, g)) /\ AtMost(Zero, Times(f, g))
  <2>1. Is(Plus(f, g), p * s + r * q, q * s) /\ Is(Times(f, g), p * r, q * s)
    BY <1>1, IsPlus, IsTimes
  <2>2. q * s > 0 /\ p * s >= 0 /\ r * q >= 0 /\ p * r >= 0 BY <1>1, <1>6
  <2>3. p * s + r * q >= 0
    <3>1. p * s \in Int /\ r * q \in Int BY <1>1
    <3>2. QED BY <3>1, <2>2
  <2>4. QED BY <2>1, <2>2, <2>3, <1>2
<1>7. ASSUME p >= 0, r > 0 PROVE AtMost(Zero, Over(f, g))
  <2>0. r # 0 BY <1>1, <1>7
  <2>1. Is(Over(f, g), p * s, q * r) BY <2>0, <1>1, IsTimes
  <2>2. q * r > 0 /\ p * s >= 0 BY <1>1, <1>7
  <2>3. QED BY <2>1, <2>2, <1>2
<1>8. ASSUME u > 0 PROVE AtMost(Times(f, h), Times(g, h)) <=> AtMost(f, g)
  <2>1. Is(Times(f, h), p * u, q * v) /\ Is(Times(g, h), r * u, s * v) BY <1>1, IsTimes
  <2>2. q * v > 0 /\ s * v > 0 /\ u * v > 0 BY <1>1, <1>8
  <2>3. AtMost(Times(f, h), Times(g, h)) <=> (p * u) * (s * v) <= (r * u) * (q * v)
    BY <2>1, <2>2, IsOrder
  <2>4. (p * u) * (s * v) = (p * s) * (u * v) /\ (r * u) * (q * v) = (r * q) * (u * v) BY <1>1
  <2>5. p * s \in Int /\ r * q \in Int /\ u * v \in Int BY <1>1
  <2>6. (p * s) * (u * v) <= (r * q) * (u * v) <=> p * s <= r * q
    BY <2>2, <2>5, CancelLess
  <2>7. AtMost(f, g) <=> p * s <= r * q BY <1>1, IsOrder
  <2>8. QED BY <2>3, <2>4, <2>6, <2>7
<1>9. QED BY <1>3, <1>4, <1>5, <1>6, <1>7, <1>8, <1>z DEF p

-----------------------------------------------------------------------------
(***************************************************************************)
(* Sums over a stretch of numbers                                          *)
(***************************************************************************)
Stretch(h, a, b) == SumOf([k \in a..b |-> h[k]])

LEMMA StretchIs ==
  ASSUME NEW lo \in Int, NEW hi \in Int, NEW h \in [lo..hi -> Fraction],
         NEW a \in Int, NEW b \in Int, a >= lo, b <= hi
  PROVE  /\ Stretch(h, a, b) \in Fraction
         /\ b < a => Stretch(h, a, b) = Zero
         /\ a <= b => Stretch(h, a, b) = Plus(Stretch(h, a, b - 1), h[b])
<1> DEFINE f == [k \in a..b |-> h[k]]
<1>1. f \in [a..b -> Fraction] /\ IsFiniteSet(a..b)
  BY FS_Interval
<1>2. Stretch(h, a, b) = SumOf(f) BY DEF Stretch
<1>3. Stretch(h, a, b) \in Fraction BY <1>1, <1>2, SumSplit
<1>4. ASSUME b < a PROVE Stretch(h, a, b) = Zero
  <2>1. DOMAIN f = {} BY <1>4
  <2>2. QED BY <2>1, <1>2, SumEmpty
<1>5. ASSUME a <= b PROVE Stretch(h, a, b) = Plus(Stretch(h, a, b - 1), h[b])
  <2>1. b \in a..b BY <1>5
  <2>2. Without(f, b) = [k \in a..(b - 1) |-> h[k]]
    <3>1. (a..b) \ {b} = a..(b - 1) /\ DOMAIN f = a..b OBVIOUS
    <3>2. \A k \in a..(b - 1) : f[k] = h[k] OBVIOUS
    <3>3. QED BY <3>1, <3>2 DEF Without
  <2>3. SumOf(f) = Plus(f[b], SumOf(Without(f, b))) BY <1>1, <2>1, SumSplit
  <2>4. f[b] = h[b] /\ h[b] \in Fraction BY <2>1
  <2>5. SumOf(f) = Plus(h[b], Stretch(h, a, b - 1)) BY <2>2, <2>3, <2>4 DEF Stretch
  <2>6. Stretch(h, a, b - 1) \in Fraction
    <3>1. [k \in a..(b - 1) |-> h[k]] \in [a..(b - 1) -> Fraction] /\ IsFiniteSet(a..(b - 1))
      BY FS_Interval
    <3>2. QED BY <3>1, SumSplit DEF Stretch
  <2>7. QED BY <2>4, <2>5, <2>6, <1>2, PlusLaws
<1>6. QED BY <1>3, <1>4, <1>5

LEMMA StretchJoin ==
  ASSUME NEW lo \in Int, NEW hi \in Int, NEW h \in [lo..hi -> Fraction],
         NEW a \in Int, NEW b \in Int, NEW c \in Int, a >= lo, a <= b + 1, b <= c, c <= hi
  PROVE  Stretch(h, a, c) = Plus(Stretch(h, a, b), Stretch(h, b + 1, c))
<1> DEFINE Good == {j \in 0..(c - b) :
                     Stretch(h, a, b + j) = Plus(Stretch(h, a, b), Stretch(h, b + 1, b + j))}
<1>1. 0 \in Good
  <2>1. b + 0 = b /\ b < b + 1 /\ b + 1 \in Int /\ b + 1 >= lo /\ 0 \in 0..(c - b) OBVIOUS
  <2>2. Stretch(h, b + 1, b) = Zero /\ Stretch(h, a, b) \in Fraction
    BY <2>1, StretchIs
  <2>3. Plus(Stretch(h, a, b), Zero) = Stretch(h, a, b) BY <2>2, PlusLaws
  <2>4. QED BY <2>1, <2>2, <2>3
<1>2. ASSUME NEW j \in 1..(c - b), j - 1 \in Good PROVE j \in Good
  <2> DEFINE m == b + j
  <2>1. m \in Int /\ a <= m /\ b + 1 \in Int /\ b + 1 <= m /\ m <= hi /\ m - 1 \in Int
        /\ m \in lo..hi /\ m - 1 = b + (j - 1) /\ b + 1 >= lo /\ m - 1 <= hi /\ b <= hi
    OBVIOUS
  <2> HIDE DEF m
  <2>2. /\ Stretch(h, a, m) = Plus(Stretch(h, a, m - 1), h[m])
        /\ Stretch(h, b + 1, m) = Plus(Stretch(h, b + 1, m - 1), h[m])
        /\ Stretch(h, a, b) \in Fraction /\ Stretch(h, b + 1, m - 1) \in Fraction
        /\ Stretch(h, a, m - 1) \in Fraction
    BY <2>1, StretchIs
  <2>3. h[m] \in Fraction BY <2>1
  <2>4. Stretch(h, a, m - 1) = Plus(Stretch(h, a, b), Stretch(h, b + 1, m - 1))
    BY <1>2, <2>1
  <2>5. Stretch(h, a, m) = Plus(Stretch(h, a, b), Stretch(h, b + 1, m))
    BY <2>2, <2>3, <2>4, PlusLaws
  <2>6. j \in 0..(c - b) OBVIOUS
  <2>7. QED BY <2>5, <2>6 DEF m
<1>3. c - b \in 0..(c - b) /\ c - b \in Nat /\ b + (c - b) = c OBVIOUS
<1>4. c - b \in Good
  <2> HIDE DEF Good
  <2>1. 0..(c - b) \subseteq Good BY <1>1, <1>2, <1>3, UptoInduction
  <2>2. QED BY <2>1, <1>3
<1>5. QED BY <1>3, <1>4

\* Sums of what is not negative, and what bounds them.
NotNegative(h) == \A k \in DOMAIN h : AtMost(Zero, h[k])

LEMMA StretchSign ==
  ASSUME NEW lo \in Int, NEW hi \in Int, NEW h \in [lo..hi -> Fraction], NotNegative(h),
         NEW a \in Int, NEW b \in Int, a >= lo, b <= hi
  PROVE  /\ AtMost(Zero, Stretch(h, a, b))
         /\ \A k \in a..b : AtMost(h[k], Stretch(h, a, b))
<1>z. Zero \in Fraction /\ AtMost(Zero, Zero) BY Numbers, OrderLaws
<1>1. CASE b < a
  BY <1>1, <1>z, StretchIs
<1>2. CASE a <= b
  <2> DEFINE Good == {j \in 0..(b - a + 1) :
                       /\ AtMost(Zero, Stretch(h, a, a + j - 1))
                       /\ \A k \in a..(a + j - 1) : AtMost(h[k], Stretch(h, a, a + j - 1))}
  <2>1. 0 \in Good
    <3>1. a + 0 - 1 \in Int /\ a + 0 - 1 < a /\ a + 0 - 1 <= hi BY <1>2
    <3>2. Stretch(h, a, a + 0 - 1) = Zero BY <3>1, StretchIs
    <3>3. 0 \in 0..(b - a + 1) BY <1>2
    <3>4. QED BY <3>1, <3>2, <3>3, <1>z
  <2>2. ASSUME NEW j \in 1..(b - a + 1), j - 1 \in Good PROVE j \in Good
    <3> DEFINE m == a + j - 1
    <3>1. m \in Int /\ a <= m /\ m <= hi /\ m \in lo..hi /\ m - 1 \in Int /\ m - 1 <= hi
          /\ a + (j - 1) - 1 = m - 1
      OBVIOUS
    <3> HIDE DEF m
    <3>2. /\ Stretch(h, a, m) = Plus(Stretch(h, a, m - 1), h[m])
          /\ Stretch(h, a, m) \in Fraction /\ Stretch(h, a, m - 1) \in Fraction
      BY <3>1, StretchIs
    <3>3. h[m] \in Fraction /\ AtMost(Zero, h[m]) BY <3>1 DEF NotNegative
    <3>4. /\ AtMost(Zero, Stretch(h, a, m - 1))
          /\ \A k \in a..(m - 1) : AtMost(h[k], Stretch(h, a, m - 1))
      BY <2>2, <3>1
    <3>5. AtMost(Zero, Stretch(h, a, m)) BY <3>2, <3>3, <3>4, SignLaws
    <3>6. AtMost(Stretch(h, a, m - 1), Stretch(h, a, m)) BY <3>2, <3>3, PlusOrder
    <3>7. AtMost(h[m], Stretch(h, a, m))
      <4>1. Stretch(h, a, m) = Plus(h[m], Stretch(h, a, m - 1)) BY <3>2, <3>3, PlusLaws
      <4>2. QED BY <4>1, <3>2, <3>3, <3>4, PlusOrder
    <3>8. ASSUME NEW k \in a..m PROVE AtMost(h[k], Stretch(h, a, m))
      <4>1. CASE k = m BY <4>1, <3>7
      <4>2. CASE k # m
        <5>1. k \in a..(m - 1) /\ k \in lo..hi BY <4>2, <3>1
        <5>2. AtMost(h[k], Stretch(h, a, m - 1)) /\ h[k] \in Fraction BY <5>1, <3>4
        <5>3. QED BY <5>2, <3>2, <3>6, OrderLaws
      <4>3. QED BY <4>1, <4>2
    <3>9. j \in 0..(b - a + 1) OBVIOUS
    <3>10. QED BY <3>5, <3>8, <3>9 DEF m
  <2>3. b - a + 1 \in Nat /\ b - a + 1 \in 0..(b - a + 1) /\ a + (b - a + 1) - 1 = b BY <1>2
  <2>4. b - a + 1 \in Good
    <3> HIDE DEF Good
    <3>1. 0..(b - a + 1) \subseteq Good BY <2>1, <2>2, <2>3, UptoInduction
    <3>2. QED BY <3>1, <2>3
  <2>5. QED BY <2>3, <2>4
<1>3. QED BY <1>1, <1>2

\* A sum whose terms are scaled is scaled.
LEMMA StretchScaled ==
  ASSUME NEW lo \in Int, NEW hi \in Int, NEW h \in [lo..hi -> Fraction],
         NEW k \in [lo..hi -> Fraction], NEW c \in Fraction,
         \A j \in lo..hi : k[j] = Times(c, h[j]),
         NEW b \in Int, lo - 1 <= b, b <= hi
  PROVE  Stretch(k, lo, b) = Times(c, Stretch(h, lo, b))
<1> DEFINE Good == {j \in 0..(b - lo + 1) :
                     Stretch(k, lo, lo + j - 1) = Times(c, Stretch(h, lo, lo + j - 1))}
<1>1. 0 \in Good
  <2>1. lo + 0 - 1 \in Int /\ lo + 0 - 1 < lo /\ lo + 0 - 1 <= hi /\ lo >= lo OBVIOUS
  <2>2. Stretch(h, lo, lo + 0 - 1) = Zero /\ Stretch(k, lo, lo + 0 - 1) = Zero
    BY ONLY <2>1, StretchIs, h \in [lo..hi -> Fraction], k \in [lo..hi -> Fraction],
            lo \in Int, hi \in Int
  <2>3. Times(c, Zero) = Zero BY TimesLaws
  <2>4. 0 \in 0..(b - lo + 1) OBVIOUS
  <2>5. QED BY <2>2, <2>3, <2>4
<1>2. ASSUME NEW j \in 1..(b - lo + 1), j - 1 \in Good PROVE j \in Good
  <2> DEFINE m == lo + j - 1
  <2>1. m \in Int /\ lo <= m /\ m <= hi /\ m \in lo..hi /\ m - 1 \in Int /\ m - 1 <= hi
        /\ lo + (j - 1) - 1 = m - 1 /\ lo >= lo
    OBVIOUS
  <2> HIDE DEF m
  <2>2. /\ Stretch(h, lo, m) = Plus(Stretch(h, lo, m - 1), h[m])
        /\ Stretch(h, lo, m - 1) \in Fraction
    BY <2>1, StretchIs
  <2>3. /\ Stretch(k, lo, m) = Plus(Stretch(k, lo, m - 1), k[m])
    BY <2>1, StretchIs
  <2>4. Stretch(k, lo, m - 1) = Times(c, Stretch(h, lo, m - 1)) BY <1>2, <2>1
  <2>5. h[m] \in Fraction /\ k[m] = Times(c, h[m]) BY <2>1
  <2>6. Times(c, Plus(Stretch(h, lo, m - 1), h[m]))
          = Plus(Times(c, Stretch(h, lo, m - 1)), Times(c, h[m]))
    BY <2>2, <2>5, TimesLaws
  <2>7. Stretch(k, lo, m) = Times(c, Stretch(h, lo, m))
    BY <2>2, <2>3, <2>4, <2>5, <2>6
  <2>8. j \in 0..(b - lo + 1) OBVIOUS
  <2>9. QED BY <2>7, <2>8 DEF m
<1>3. b - lo + 1 \in Nat /\ b - lo + 1 \in 0..(b - lo + 1) /\ lo + (b - lo + 1) - 1 = b OBVIOUS
<1>4. b - lo + 1 \in Good
  <2> HIDE DEF Good
  <2>1. 0..(b - lo + 1) \subseteq Good BY <1>1, <1>2, <1>3, UptoInduction
  <2>2. QED BY <2>1, <1>3
<1>5. QED BY <1>3, <1>4

-----------------------------------------------------------------------------
\* The instance of the treemap computes with the same fractions.
LEMMA TreeGcd == Tree!gcd = gcd
BY DEF Tree!gcd, gcd

LEMMA TreeFrac ==
  ASSUME NEW a, NEW b
  PROVE  Tree!Frac(a, b) = Frac(a, b)
BY TreeGcd DEF Tree!Frac, Frac, Tree!Reduced, Reduced, Tree!Magnitude, Magnitude

LEMMA TreeWhole ==
  ASSUME NEW a
  PROVE  /\ Tree!Whole(a) = Whole(a) /\ Tree!Zero = Zero /\ Tree!Rounded(a) = Rounded(a)
BY DEF Tree!Whole, Whole, Tree!Zero, Zero, Tree!Rounded, Rounded

LEMMA TreeOps ==
  ASSUME NEW a, NEW b
  PROVE  /\ Tree!Plus(a, b) = Plus(a, b) /\ Tree!Minus(a, b) = Minus(a, b)
         /\ Tree!Times(a, b) = Times(a, b) /\ Tree!Over(a, b) = Over(a, b)
BY TreeFrac DEF Tree!Plus, Plus, Tree!Minus, Minus, Tree!Times, Times, Tree!Over, Over

LEMMA TreeOrder ==
  ASSUME NEW a, NEW b
  PROVE  /\ Tree!Less(a, b) = Less(a, b) /\ Tree!AtMost(a, b) = AtMost(a, b)
         /\ Tree!Least(a, b) = Least(a, b)
BY DEF Tree!Less, Less, Tree!AtMost, AtMost, Tree!Least, Least

LEMMA TreeSum ==
  ASSUME NEW f
  PROVE  Tree!SumOf(f) = SumOf(f)
<1>1. \A a, b : Tree!Plus(a, b) = Plus(a, b) BY TreeOps
<1>2. Tree!Zero = Zero BY TreeWhole
<1>3. QED
  BY <1>1, <1>2 DEF Tree!SumOf, SumOf, Tree!MapThenFoldSet, MapThenFoldSet

LEMMA TreeBoxes ==
  ASSUME NEW s, NEW t
  PROVE  /\ Tree!Area(t) = Times(t.w, t.h)
         /\ Tree!Apart(s, t) <=> \/ AtMost(Plus(s.x, s.w), t.x) \/ AtMost(Plus(t.x, t.w), s.x)
                                 \/ AtMost(Plus(s.y, s.h), t.y) \/ AtMost(Plus(t.y, t.h), s.y)
         /\ Tree!Inside(t) <=> /\ AtMost(Zero, t.x) /\ AtMost(Plus(t.x, t.w), Whole(Width))
                               /\ AtMost(Zero, t.y) /\ AtMost(Plus(t.y, t.h), Whole(Height))
<1>1. Tree!Area(t) = Times(t.w, t.h) BY TreeOps DEF Tree!Area
<1>2. Tree!Apart(s, t) <=> \/ AtMost(Plus(s.x, s.w), t.x) \/ AtMost(Plus(t.x, t.w), s.x)
                           \/ AtMost(Plus(s.y, s.h), t.y) \/ AtMost(Plus(t.y, t.h), s.y)
  BY TreeOps, TreeOrder DEF Tree!Apart
<1>3. Tree!Inside(t) <=> /\ AtMost(Zero, t.x) /\ AtMost(Plus(t.x, t.w), Whole(Width))
                         /\ AtMost(Zero, t.y) /\ AtMost(Plus(t.y, t.h), Whole(Height))
  BY TreeOps, TreeOrder, TreeWhole DEF Tree!Inside
<1>4. QED BY <1>1, <1>2, <1>3

-----------------------------------------------------------------------------
(***************************************************************************)
(* The strips of the treemap                                               *)
(***************************************************************************)
LEMMA OverTimes ==
  ASSUME NEW f \in Fraction, NEW g \in Fraction, NEW h \in Fraction, g # Zero
  PROVE  Over(Times(f, h), g) = Times(Over(f, g), h)
<1> DEFINE p == f[1]  q == f[2]  r == g[1]  s == g[2]  u == h[1]  v == h[2]
<1>1. /\ p \in Int /\ q \in Int \ {0} /\ s \in Int \ {0} /\ u \in Int /\ v \in Int \ {0}
      /\ r \in Int /\ Is(f, p, q) /\ Is(g, r, s) /\ Is(h, u, v)
  BY FractionIs, IsOwn
<1>2. r # 0 BY FieldTypes
<1> HIDE DEF p, q, r, s, u, v
<1>3. Is(Times(f, h), p * u, q * v) /\ Is(Over(f, g), p * s, q * r) BY <1>1, <1>2, IsTimes
<1>4. Is(Over(Times(f, h), g), (p * u) * s, (q * v) * r) BY <1>1, <1>2, <1>3, IsTimes
<1>5. Is(Times(Over(f, g), h), (p * s) * u, (q * r) * v) BY <1>1, <1>3, IsTimes
<1>6. (p * u) * s = (p * s) * u /\ (q * v) * r = (q * r) * v BY <1>1
<1>7. QED BY <1>4, <1>5, <1>6, IsSame

LEMMA StretchRises ==
  ASSUME NEW lo \in Int, NEW hi \in Int, NEW h \in [lo..hi -> Fraction], NotNegative(h),
         NEW a \in Int, NEW b \in Int, NEW c \in Int, a >= lo, a <= b + 1, b <= c, c <= hi
  PROVE  AtMost(Stretch(h, a, b), Stretch(h, a, c))
<1>1. Stretch(h, a, c) = Plus(Stretch(h, a, b), Stretch(h, b + 1, c)) BY StretchJoin
<1>2. b + 1 \in Int /\ b + 1 >= lo /\ b <= hi OBVIOUS
<1>3. Stretch(h, a, b) \in Fraction /\ Stretch(h, b + 1, c) \in Fraction
  BY <1>2, StretchIs
<1>4. AtMost(Zero, Stretch(h, b + 1, c)) BY <1>2, StretchSign
<1>5. QED BY <1>1, <1>3, <1>4, PlusOrder, Numbers

\* What is known of a strip that is cut off an area with these sides.
StripFits(lo, hi, ar, side, thick, short, long) ==
  /\ thick \in Fraction /\ AtMost(Zero, thick) /\ AtMost(thick, long)
  /\ Times(thick, short) = Stretch(ar, lo, hi)
  /\ side \in [lo..hi -> Fraction] /\ NotNegative(side)
  /\ \A k \in lo..hi : Times(thick, side[k]) = ar[k]
  /\ AtMost(Stretch(side, lo, hi), short)

LEMMA StripSums ==
  ASSUME NEW lo \in Int, NEW hi \in Int, lo <= hi, NEW ar \in [lo..hi -> Fraction],
         NotNegative(ar), NEW short \in Fraction, NEW long \in Fraction,
         AtMost(Zero, short), AtMost(Zero, long), NEW sum, sum = Stretch(ar, lo, hi),
         AtMost(sum, Times(long, short)),
         NEW side, side = [k \in lo..hi |-> IF Less(Zero, sum) THEN Times(Over(ar[k], sum), short)
                                            ELSE Zero],
         NEW thick, thick = IF Less(Zero, short) THEN Over(sum, short) ELSE Zero
  PROVE  StripFits(lo, hi, ar, side, thick, short, long)
<1>0. /\ sum \in Fraction /\ AtMost(Zero, sum) /\ \A k \in lo..hi : AtMost(ar[k], sum)
      /\ Zero \in Fraction /\ \A k \in lo..hi : ar[k] \in Fraction /\ AtMost(Zero, ar[k])
  <2>1. lo >= lo /\ hi <= hi OBVIOUS
  <2>2. sum \in Fraction BY <2>1, StretchIs
  <2>3. AtMost(Zero, sum) /\ \A k \in lo..hi : AtMost(ar[k], sum) BY <2>1, StretchSign
  <2>4. QED BY <2>2, <2>3, Numbers DEF NotNegative
<1>1. ASSUME ~Less(Zero, short) PROVE short = Zero /\ sum = Zero
  <2>1. short = Zero BY <1>1, <1>0, OrderLaws
  <2>2. Times(long, short) = Zero BY <2>1, TimesLaws
  <2>3. sum = Zero BY <2>2, <1>0, OrderLaws
  <2>4. QED BY <2>1, <2>3
<1>2. thick \in Fraction /\ Times(thick, short) = sum /\ AtMost(Zero, thick) /\ AtMost(thick, long)
  <2>1. CASE Less(Zero, short)
    <3>1. short # Zero BY <2>1, SignLaws
    <3>2. thick \in Fraction BY <2>1, <3>1, <1>0, FieldTypes
    <3>3. Times(thick, short) = sum BY <2>1, <3>1, <1>0, OverLaws
    <3>4. AtMost(Zero, thick) BY <2>1, <1>0, SignLaws
    <3>5. AtMost(Times(thick, short), Times(long, short)) BY <3>3
    <3>6. AtMost(thick, long) BY <3>5, <3>2, <2>1, SignLaws
    <3>7. QED BY <3>2, <3>3, <3>4, <3>6
  <2>2. CASE ~Less(Zero, short)
    <3>1. thick = Zero /\ short = Zero /\ sum = Zero BY <2>2, <1>1
    <3>2. Times(Zero, Zero) = Zero BY <1>0, TimesLaws
    <3>3. AtMost(Zero, Zero) BY <1>0, OrderLaws
    <3>4. QED BY <3>1, <3>2, <3>3, <1>0
  <2>3. QED BY <2>1, <2>2
<1> DEFINE c == IF Less(Zero, sum) THEN Over(short, sum) ELSE Zero
<1>3. c \in Fraction /\ AtMost(Zero, c) /\ AtMost(Times(c, sum), short)
  <2>1. CASE Less(Zero, sum)
    <3>1. sum # Zero BY <2>1, <1>0, SignLaws
    <3>2. c \in Fraction /\ c = Over(short, sum) BY <2>1, <3>1, <1>0, FieldTypes
    <3>3. Times(c, sum) = short BY <3>1, <3>2, <1>0, OverLaws
    <3>4. AtMost(Zero, c) BY <2>1, <3>2, <1>0, SignLaws
    <3>5. AtMost(short, short) BY OrderLaws
    <3>6. QED BY <3>2, <3>3, <3>4, <3>5
  <2>2. CASE ~Less(Zero, sum)
    <3>1. c = Zero /\ Times(sum, Zero) = Zero /\ Times(Zero, sum) = Times(sum, Zero)
      BY <2>2, <1>0, TimesLaws
    <3>2. AtMost(Zero, Zero) BY <1>0, OrderLaws
    <3>3. QED BY <3>1, <3>2, <1>0
  <2>3. QED BY <2>1, <2>2
<1>4. ASSUME NEW k \in lo..hi
      PROVE  /\ side[k] = Times(c, ar[k]) /\ side[k] \in Fraction /\ AtMost(Zero, side[k])
             /\ Times(thick, side[k]) = ar[k]
  <2>0. ar[k] \in Fraction /\ AtMost(Zero, ar[k]) /\ AtMost(ar[k], sum) BY <1>0
  <2>1. CASE Less(Zero, sum)
    <3>1. sum # Zero BY <2>1, <1>0, SignLaws
    <3>2. c = Over(short, sum) /\ side[k] = Times(Over(ar[k], sum), short) BY <2>1
    <3>3. Over(ar[k], sum) \in Fraction BY <3>1, <2>0, <1>0, FieldTypes
    <3>4. side[k] = Times(c, ar[k])
      <4>1. Times(Over(ar[k], sum), short) = Over(Times(ar[k], short), sum)
        BY <3>1, <2>0, <1>0, OverTimes
      <4>2. Times(Over(short, sum), ar[k]) = Over(Times(short, ar[k]), sum)
        BY <3>1, <2>0, <1>0, OverTimes
      <4>3. Times(ar[k], short) = Times(short, ar[k]) BY <2>0, TimesLaws
      <4>4. QED BY <4>1, <4>2, <4>3, <3>2
    <3>5. Times(thick, side[k]) = ar[k]
      <4>1. side[k] = Times(short, Over(ar[k], sum)) BY <3>2, <3>3, TimesLaws
      <4>2. Times(thick, Times(short, Over(ar[k], sum))) = Times(Times(thick, short), Over(ar[k], sum))
        BY <1>2, <3>3, TimesLaws
      <4>3. Times(sum, Over(ar[k], sum)) = ar[k] BY <3>1, <2>0, <1>0, OverLaws
      <4>4. QED BY <4>1, <4>2, <4>3, <1>2
    <3>c. c \in Fraction /\ AtMost(Zero, c) BY <1>3
    <3> HIDE DEF c
    <3>d. Times(c, ar[k]) \in Fraction
      BY <3>c, <2>0, FieldTypes
    <3>e. AtMost(Zero, Times(c, ar[k]))
      BY <3>c, <2>0, SignLaws
    <3>6. side[k] \in Fraction /\ AtMost(Zero, side[k])
      BY ONLY <3>4, <3>d, <3>e
    <3>7. QED BY <3>4, <3>5, <3>6
  <2>2. CASE ~Less(Zero, sum)
    <3>1. sum = Zero BY <2>2, <1>0, OrderLaws
    <3>2. ar[k] = Zero BY <3>1, <2>0, <1>0, OrderLaws
    <3>3. side[k] = Zero /\ c = Zero BY <2>2
    <3>4. Times(Zero, Zero) = Zero /\ Times(thick, Zero) = Zero BY <1>0, <1>2, TimesLaws
    <3>5. AtMost(Zero, Zero) BY <1>0, OrderLaws
    <3>6. QED BY <3>2, <3>3, <3>4, <3>5, <1>0
  <2>3. QED BY <2>1, <2>2
<1>5. side \in [lo..hi -> Fraction] /\ NotNegative(side)
  BY <1>4 DEF NotNegative
<1>6. Stretch(side, lo, hi) = Times(c, sum)
  <2>1. lo - 1 <= hi /\ hi <= hi OBVIOUS
  <2>2. \A k \in lo..hi : side[k] = Times(c, ar[k]) BY <1>4
  <2>a. /\ lo \in Int /\ hi \in Int /\ ar \in [lo..hi -> Fraction] /\ side \in [lo..hi -> Fraction]
    BY <1>5
  <2>3. c \in Fraction BY <1>3
  <2> HIDE DEF c
  <2>4. Stretch(side, lo, hi) = Times(c, Stretch(ar, lo, hi))
    BY ONLY <2>1, <2>2, <2>3, <2>a, StretchScaled
  <2>5. QED BY <2>4
<1>7. QED BY <1>2, <1>3, <1>4, <1>5, <1>6 DEF StripFits

-----------------------------------------------------------------------------
(***************************************************************************)
(* Boxes: tiles and what is left of the area                               *)
(***************************************************************************)
Box == [x : Fraction, y : Fraction, w : Fraction, h : Fraction]
Proper(t) == t \in Box /\ AtMost(Zero, t.w) /\ AtMost(Zero, t.h)

Lies(t, r) ==
  /\ AtMost(r.x, t.x) /\ AtMost(Plus(t.x, t.w), Plus(r.x, r.w))
  /\ AtMost(r.y, t.y) /\ AtMost(Plus(t.y, t.h), Plus(r.y, r.h))

LEMMA BoxIs ==
  ASSUME NEW t \in Box
  PROVE  /\ t.x \in Fraction /\ t.y \in Fraction /\ t.w \in Fraction /\ t.h \in Fraction
         /\ Plus(t.x, t.w) \in Fraction /\ Plus(t.y, t.h) \in Fraction
         /\ Tree!Area(t) \in Fraction
<1>1. t.x \in Fraction /\ t.y \in Fraction /\ t.w \in Fraction /\ t.h \in Fraction
  BY DEF Box
<1>2. QED BY <1>1, FieldTypes, TreeBoxes

LEMMA ApartInside ==
  ASSUME NEW s \in Box, NEW r \in Box, NEW t \in Box, Lies(t, r), Tree!Apart(s, r)
  PROVE  Tree!Apart(s, t) /\ Tree!Apart(t, s)
<1>1. /\ r.x \in Fraction /\ r.y \in Fraction /\ Plus(r.x, r.w) \in Fraction /\ Plus(r.y, r.h) \in Fraction
      /\ t.x \in Fraction /\ t.y \in Fraction /\ Plus(t.x, t.w) \in Fraction /\ Plus(t.y, t.h) \in Fraction
      /\ s.x \in Fraction /\ s.y \in Fraction /\ Plus(s.x, s.w) \in Fraction /\ Plus(s.y, s.h) \in Fraction
  BY BoxIs
<1>2. /\ AtMost(r.x, t.x) /\ AtMost(Plus(t.x, t.w), Plus(r.x, r.w))
      /\ AtMost(r.y, t.y) /\ AtMost(Plus(t.y, t.h), Plus(r.y, r.h))
  BY DEF Lies
<1>3. CASE AtMost(Plus(s.x, s.w), r.x)
  <2>1. AtMost(Plus(s.x, s.w), t.x) BY <1>1, <1>2, <1>3, OrderLaws
  <2>2. QED BY <2>1, TreeBoxes
<1>4. CASE AtMost(Plus(r.x, r.w), s.x)
  <2>1. AtMost(Plus(t.x, t.w), s.x) BY <1>1, <1>2, <1>4, OrderLaws
  <2>2. QED BY <2>1, TreeBoxes
<1>5. CASE AtMost(Plus(s.y, s.h), r.y)
  <2>1. AtMost(Plus(s.y, s.h), t.y) BY <1>1, <1>2, <1>5, OrderLaws
  <2>2. QED BY <2>1, TreeBoxes
<1>6. CASE AtMost(Plus(r.y, r.h), s.y)
  <2>1. AtMost(Plus(t.y, t.h), s.y) BY <1>1, <1>2, <1>6, OrderLaws
  <2>2. QED BY <2>1, TreeBoxes
<1>7. QED BY <1>3, <1>4, <1>5, <1>6, TreeBoxes

LEMMA InsideLies ==
  ASSUME NEW r \in Box, NEW t \in Box, Lies(t, r), Tree!Inside(r),
         Width \in Int, Height \in Int
  PROVE  Tree!Inside(t)
<1>1. /\ r.x \in Fraction /\ r.y \in Fraction /\ Plus(r.x, r.w) \in Fraction /\ Plus(r.y, r.h) \in Fraction
      /\ t.x \in Fraction /\ t.y \in Fraction /\ Plus(t.x, t.w) \in Fraction /\ Plus(t.y, t.h) \in Fraction
      /\ Zero \in Fraction /\ Whole(Width) \in Fraction /\ Whole(Height) \in Fraction
  BY BoxIs, Numbers, WholeIs
<1>2. /\ AtMost(r.x, t.x) /\ AtMost(Plus(t.x, t.w), Plus(r.x, r.w))
      /\ AtMost(r.y, t.y) /\ AtMost(Plus(t.y, t.h), Plus(r.y, r.h))
  BY DEF Lies
<1>3. /\ AtMost(Zero, r.x) /\ AtMost(Plus(r.x, r.w), Whole(Width))
      /\ AtMost(Zero, r.y) /\ AtMost(Plus(r.y, r.h), Whole(Height))
  BY TreeBoxes
<1>4. AtMost(Zero, t.x) /\ AtMost(Plus(t.x, t.w), Whole(Width))
  BY <1>1, <1>2, <1>3, OrderLaws
<1>5. AtMost(Zero, t.y) /\ AtMost(Plus(t.y, t.h), Whole(Height))
  BY <1>1, <1>2, <1>3, OrderLaws
<1>6. QED BY <1>4, <1>5, TreeBoxes

-----------------------------------------------------------------------------
\* Across a strip: its thickness is cut off the longer side.
Across(o, long, thick, short) ==
  /\ Plus(o, thick) \in Fraction /\ Minus(long, thick) \in Fraction
  /\ AtMost(o, o) /\ AtMost(o, Plus(o, thick)) /\ AtMost(Plus(o, thick), Plus(o, long))
  /\ AtMost(Plus(o, thick), Plus(o, thick)) /\ AtMost(Zero, Minus(long, thick))
  /\ AtMost(Plus(o, long), Plus(o, long))
  /\ Plus(Plus(o, thick), Minus(long, thick)) = Plus(o, long)
  /\ Times(Minus(long, thick), short) = Minus(Times(long, short), Times(thick, short))
  /\ Times(short, Minus(long, thick)) = Minus(Times(short, long), Times(thick, short))

LEMMA CutAcross ==
  ASSUME NEW o \in Fraction, NEW long \in Fraction, NEW thick \in Fraction, NEW short \in Fraction,
         AtMost(Zero, thick), AtMost(thick, long)
  PROVE  Across(o, long, thick, short)
<1>1. Plus(o, thick) \in Fraction /\ Minus(long, thick) \in Fraction /\ Plus(o, long) \in Fraction
  BY FieldTypes
<1>2. /\ AtMost(o, o) /\ AtMost(Plus(o, thick), Plus(o, thick))
      /\ AtMost(Plus(o, long), Plus(o, long))
  BY <1>1, OrderLaws
<1>3. AtMost(o, Plus(o, thick)) /\ AtMost(Plus(o, thick), Plus(o, long))
  BY PlusOrder
<1>4. AtMost(Zero, Minus(long, thick)) BY PlusOrder
<1>5. Plus(Plus(o, thick), Minus(long, thick)) = Plus(o, long)
  <2>1. Plus(Plus(o, thick), Minus(long, thick)) = Plus(o, Plus(thick, Minus(long, thick)))
    BY <1>1, PlusLaws
  <2>2. Plus(thick, Minus(long, thick)) = Plus(Minus(long, thick), thick)
    BY <1>1, PlusLaws
  <2>3. Plus(Minus(long, thick), thick) = long BY PlusLaws
  <2>4. QED BY <2>1, <2>2, <2>3
<1>6. Times(short, Minus(long, thick)) = Minus(Times(short, long), Times(short, thick))
  BY TimesLaws
<1>7. /\ Times(Minus(long, thick), short) = Times(short, Minus(long, thick))
      /\ Times(long, short) = Times(short, long) /\ Times(thick, short) = Times(short, thick)
  BY <1>1, TimesLaws
<1>8. QED BY <1>1, <1>2, <1>3, <1>4, <1>5, <1>6, <1>7 DEF Across

\* Along a strip: its tiles one after the other.
Runs(lo, hi, side, short, o, j) ==
  /\ side[j] \in Fraction /\ AtMost(Zero, side[j])
  /\ Plus(o, Stretch(side, lo, j - 1)) \in Fraction
  /\ AtMost(o, Plus(o, Stretch(side, lo, j - 1)))
  /\ AtMost(Plus(Plus(o, Stretch(side, lo, j - 1)), side[j]), Plus(o, short))
  /\ \A m \in (j + 1)..hi :
       AtMost(Plus(Plus(o, Stretch(side, lo, j - 1)), side[j]),
              Plus(o, Stretch(side, lo, m - 1)))

LEMMA Along ==
  ASSUME NEW lo \in Int, NEW hi \in Int, NEW ar, NEW side, NEW thick,
         NEW short \in Fraction, NEW long, StripFits(lo, hi, ar, side, thick, short, long),
         NEW o \in Fraction, NEW j \in lo..hi
  PROVE  Runs(lo, hi, side, short, o, j)
<1>0. side \in [lo..hi -> Fraction] /\ NotNegative(side) /\ AtMost(Stretch(side, lo, hi), short)
  BY DEF StripFits
<1> DEFINE at(m) == Stretch(side, lo, m - 1)
<1>1. ASSUME NEW m \in lo..(hi + 1) PROVE at(m) \in Fraction /\ AtMost(Zero, at(m))
  <2>1. m - 1 \in Int /\ lo >= lo /\ m - 1 <= hi OBVIOUS
  <2>2. Stretch(side, lo, m - 1) \in Fraction BY <2>1, <1>0, StretchIs
  <2>3. AtMost(Zero, Stretch(side, lo, m - 1)) BY <2>1, <1>0, StretchSign
  <2>4. QED BY <2>2, <2>3
<1>2. side[j] \in Fraction /\ AtMost(Zero, side[j]) BY <1>0 DEF NotNegative
<1>3. at(j + 1) = Plus(at(j), side[j])
  <2>1. j \in Int /\ lo >= lo /\ j <= hi /\ lo <= j /\ (j + 1) - 1 = j OBVIOUS
  <2>2. Stretch(side, lo, j) = Plus(Stretch(side, lo, j - 1), side[j])
    BY <2>1, <1>0, StretchIs
  <2>3. QED BY <2>1, <2>2
<1>4. ASSUME NEW m \in (j + 1)..(hi + 1) PROVE AtMost(at(j + 1), at(m))
  <2>1. j \in Int /\ m - 1 \in Int /\ lo >= lo /\ lo <= j + 1 /\ j <= m - 1 /\ m - 1 <= hi
        /\ (j + 1) - 1 = j
    OBVIOUS
  <2>2. AtMost(Stretch(side, lo, j), Stretch(side, lo, m - 1))
    BY <2>1, <1>0, StretchRises
  <2>3. QED BY <2>1, <2>2
<1>5. at(hi + 1) = Stretch(side, lo, hi) BY (hi + 1) - 1 = hi
<1>j. j \in lo..(hi + 1) /\ j + 1 \in lo..(hi + 1) /\ hi + 1 \in (j + 1)..(hi + 1)
      /\ hi + 1 \in lo..(hi + 1)
  OBVIOUS
<1> HIDE DEF at
<1>6. Plus(o, at(j)) \in Fraction BY <1>1, <1>j, FieldTypes
<1>7. AtMost(o, Plus(o, at(j)))
  <2>1. at(j) \in Fraction /\ AtMost(Zero, at(j)) BY <1>1, <1>j
  <2>2. QED BY <2>1, PlusOrder
<1>8. Plus(Plus(o, at(j)), side[j]) = Plus(o, at(j + 1))
  BY <1>1, <1>j, <1>2, <1>3, PlusLaws
<1>9. AtMost(Plus(o, at(j + 1)), Plus(o, short))
  <2>1. at(j + 1) \in Fraction /\ at(hi + 1) \in Fraction BY <1>1, <1>j
  <2>2. AtMost(at(j + 1), at(hi + 1)) /\ AtMost(at(hi + 1), short) BY <1>4, <1>5, <1>0, <1>j
  <2>3. AtMost(at(j + 1), short) BY <2>1, <2>2, OrderLaws
  <2>4. QED BY <2>1, <2>3, PlusOrder
<1>10. ASSUME NEW m \in (j + 1)..hi PROVE AtMost(Plus(o, at(j + 1)), Plus(o, at(m)))
  <2>1. m \in (j + 1)..(hi + 1) /\ m \in lo..(hi + 1) OBVIOUS
  <2>2. at(j + 1) \in Fraction /\ at(m) \in Fraction BY <2>1, <1>1, <1>j
  <2>3. AtMost(at(j + 1), at(m)) BY <2>1, <1>4
  <2>4. QED BY <2>2, <2>3, PlusOrder
<1>11. QED BY <1>2, <1>6, <1>7, <1>8, <1>9, <1>10 DEF at, Runs

\* A strip of the tiles lo..hi is laid in r, and q is left of it.
StripLaid(strip, q, r, ar, lo, hi) ==
  /\ strip \in [1..(hi - lo + 1) -> Box]
  /\ \A k \in 1..(hi - lo + 1) :
       /\ Proper(strip[k]) /\ Lies(strip[k], r) /\ Tree!Apart(strip[k], q)
       /\ Tree!Area(strip[k]) = ar[lo + k - 1]
  /\ \A k, m \in 1..(hi - lo + 1) : k # m => Tree!Apart(strip[k], strip[m])
  /\ Proper(q) /\ Lies(q, r)
  /\ Tree!Area(q) = Minus(Tree!Area(r), Stretch(ar, lo, hi))

LEMMA StripUpright ==
  ASSUME NEW lo \in Int, NEW hi \in Int, NEW ar, NEW side, NEW thick, NEW r, Proper(r),
         StripFits(lo, hi, ar, side, thick, r.h, r.w),
         NEW strip,
         strip = [k \in 1..(hi - lo + 1) |->
                   [x |-> r.x, y |-> Plus(r.y, Stretch(side, lo, lo + k - 2)), w |-> thick,
                    h |-> side[lo + k - 1]]],
         NEW q, q = [x |-> Plus(r.x, thick), y |-> r.y, w |-> Minus(r.w, thick), h |-> r.h]
  PROVE  StripLaid(strip, q, r, ar, lo, hi)
<1> DEFINE N == hi - lo + 1
<1>1. /\ r \in Box /\ r.x \in Fraction /\ r.y \in Fraction /\ r.w \in Fraction /\ r.h \in Fraction
      /\ AtMost(Zero, r.w) /\ AtMost(Zero, r.h)
  BY BoxIs DEF Proper
<1>2. thick \in Fraction /\ AtMost(Zero, thick) /\ AtMost(thick, r.w)
      /\ Times(thick, r.h) = Stretch(ar, lo, hi)
      /\ \A k \in lo..hi : Times(thick, side[k]) = ar[k]
  BY DEF StripFits
<1>3. /\ Plus(r.x, thick) \in Fraction /\ Minus(r.w, thick) \in Fraction
      /\ AtMost(r.x, r.x) /\ AtMost(r.x, Plus(r.x, thick))
      /\ AtMost(Plus(r.x, thick), Plus(r.x, r.w))
      /\ AtMost(Plus(r.x, thick), Plus(r.x, thick)) /\ AtMost(Zero, Minus(r.w, thick))
      /\ AtMost(Plus(r.x, r.w), Plus(r.x, r.w))
      /\ Plus(Plus(r.x, thick), Minus(r.w, thick)) = Plus(r.x, r.w)
      /\ Times(Minus(r.w, thick), r.h) = Minus(Times(r.w, r.h), Times(thick, r.h))
  <2>1. Across(r.x, r.w, thick, r.h) BY <1>1, <1>2, CutAcross
  <2>2. QED BY <2>1 DEF Across
<1>4. ASSUME NEW k \in 1..N
      PROVE  /\ lo + k - 1 \in lo..hi /\ lo + k - 2 = (lo + k - 1) - 1
             /\ strip[k] = [x |-> r.x, y |-> Plus(r.y, Stretch(side, lo, lo + k - 2)), w |-> thick,
                            h |-> side[lo + k - 1]]
  OBVIOUS
<1>5. ASSUME NEW k \in 1..N
      PROVE  /\ side[lo + k - 1] \in Fraction /\ AtMost(Zero, side[lo + k - 1])
             /\ Plus(r.y, Stretch(side, lo, lo + k - 2)) \in Fraction
             /\ AtMost(r.y, Plus(r.y, Stretch(side, lo, lo + k - 2)))
             /\ AtMost(Plus(Plus(r.y, Stretch(side, lo, lo + k - 2)), side[lo + k - 1]), Plus(r.y, r.h))
             /\ \A m \in (lo + k - 1 + 1)..hi :
                  AtMost(Plus(Plus(r.y, Stretch(side, lo, lo + k - 2)), side[lo + k - 1]),
                         Plus(r.y, Stretch(side, lo, m - 1)))
  <2>1. lo + k - 1 \in lo..hi /\ lo + k - 2 = (lo + k - 1) - 1 BY <1>4
  <2>2. Runs(lo, hi, side, r.h, r.y, lo + k - 1) BY <2>1, <1>1, Along
  <2>3. QED BY <2>1, <2>2 DEF Runs
<1>6. ASSUME NEW k \in 1..N PROVE strip[k] \in Box /\ Proper(strip[k])
  BY <1>1, <1>2, <1>4, <1>5 DEF Box, Proper
<1>7. strip \in [1..N -> Box]
  <2>1. DOMAIN strip = 1..N /\ strip = [k \in 1..N |-> strip[k]] OBVIOUS
  <2> HIDE DEF N
  <2>2. QED BY ONLY <2>1, <1>6
<1>8. ASSUME NEW k \in 1..N PROVE Lies(strip[k], r)
  <2>1. /\ strip[k].x = r.x /\ strip[k].w = thick /\ strip[k].h = side[lo + k - 1]
        /\ strip[k].y = Plus(r.y, Stretch(side, lo, lo + k - 2))
    BY <1>4
  <2>2. QED BY ONLY <2>1, <1>3, <1>5, k \in 1..N DEF Lies
<1>9. ASSUME NEW k \in 1..N PROVE Tree!Apart(strip[k], q)
  <2>1. Plus(strip[k].x, strip[k].w) = Plus(r.x, thick) /\ q.x = Plus(r.x, thick) BY <1>4
  <2>2. AtMost(Plus(strip[k].x, strip[k].w), q.x) BY ONLY <2>1, <1>3
  <2>3. QED BY <2>2, TreeBoxes
<1>10. ASSUME NEW k \in 1..N PROVE Tree!Area(strip[k]) = ar[lo + k - 1]
  <2>1. strip[k].w = thick /\ strip[k].h = side[lo + k - 1] /\ lo + k - 1 \in lo..hi BY <1>4
  <2>2. Times(strip[k].w, strip[k].h) = ar[lo + k - 1] BY ONLY <2>1, <1>2
  <2>3. QED BY <2>2, TreeBoxes
<1>11. ASSUME NEW k \in 1..N, NEW m \in 1..N, k < m
       PROVE  Tree!Apart(strip[k], strip[m]) /\ Tree!Apart(strip[m], strip[k])
  <2>1. /\ strip[k].y = Plus(r.y, Stretch(side, lo, lo + k - 2)) /\ strip[k].h = side[lo + k - 1]
        /\ strip[m].y = Plus(r.y, Stretch(side, lo, lo + m - 2))
    BY <1>4
  <2>2. lo + m - 1 \in (lo + k - 1 + 1)..hi /\ (lo + m - 1) - 1 = lo + m - 2 BY <1>11
  <2>3. AtMost(Plus(Plus(r.y, Stretch(side, lo, lo + k - 2)), side[lo + k - 1]),
               Plus(r.y, Stretch(side, lo, (lo + m - 1) - 1)))
    BY <2>2, <1>5
  <2>4. AtMost(Plus(strip[k].y, strip[k].h), strip[m].y) BY ONLY <2>1, <2>2, <2>3
  <2>5. QED BY <2>4, TreeBoxes
<1>12. ASSUME NEW k \in 1..N, NEW m \in 1..N, k # m PROVE Tree!Apart(strip[k], strip[m])
  <2>1. k < m \/ m < k BY <1>12
  <2>2. QED BY <2>1, <1>11
<1>13. Proper(q)
  BY <1>1, <1>3 DEF Proper, Box
<1>14. Lies(q, r)
  <2>1. q.x = Plus(r.x, thick) /\ q.y = r.y /\ q.w = Minus(r.w, thick) /\ q.h = r.h OBVIOUS
  <2>2. AtMost(r.y, r.y) /\ AtMost(Plus(r.y, r.h), Plus(r.y, r.h))
    BY <1>1, FieldTypes, OrderLaws
  <2>3. QED BY ONLY <2>1, <2>2, <1>3 DEF Lies
<1>15. Tree!Area(q) = Minus(Tree!Area(r), Stretch(ar, lo, hi))
  <2>1. q.w = Minus(r.w, thick) /\ q.h = r.h OBVIOUS
  <2>2. Times(q.w, q.h) = Minus(Times(r.w, r.h), Stretch(ar, lo, hi))
    BY ONLY <2>1, <1>2, <1>3
  <2>3. QED BY <2>2, TreeBoxes
<1> HIDE DEF N
<1>16. QED
  BY <1>6, <1>7, <1>8, <1>9, <1>10, <1>12, <1>13, <1>14, <1>15 DEF StripLaid, N

LEMMA StripFlat ==
  ASSUME NEW lo \in Int, NEW hi \in Int, NEW ar, NEW side, NEW thick, NEW r, Proper(r),
         StripFits(lo, hi, ar, side, thick, r.w, r.h),
         NEW strip,
         strip = [k \in 1..(hi - lo + 1) |->
                   [y |-> r.y, x |-> Plus(r.x, Stretch(side, lo, lo + k - 2)), h |-> thick,
                    w |-> side[lo + k - 1]]],
         NEW q, q = [y |-> Plus(r.y, thick), x |-> r.x, h |-> Minus(r.h, thick), w |-> r.w]
  PROVE  StripLaid(strip, q, r, ar, lo, hi)
<1> DEFINE N == hi - lo + 1
<1>1. /\ r \in Box /\ r.y \in Fraction /\ r.x \in Fraction /\ r.h \in Fraction /\ r.w \in Fraction
      /\ AtMost(Zero, r.h) /\ AtMost(Zero, r.w)
  BY BoxIs DEF Proper
<1>2. thick \in Fraction /\ AtMost(Zero, thick) /\ AtMost(thick, r.h)
      /\ Times(thick, r.w) = Stretch(ar, lo, hi)
      /\ \A k \in lo..hi : Times(thick, side[k]) = ar[k]
  BY DEF StripFits
<1>3. /\ Plus(r.y, thick) \in Fraction /\ Minus(r.h, thick) \in Fraction
      /\ AtMost(r.y, r.y) /\ AtMost(r.y, Plus(r.y, thick))
      /\ AtMost(Plus(r.y, thick), Plus(r.y, r.h))
      /\ AtMost(Plus(r.y, thick), Plus(r.y, thick)) /\ AtMost(Zero, Minus(r.h, thick))
      /\ AtMost(Plus(r.y, r.h), Plus(r.y, r.h))
      /\ Plus(Plus(r.y, thick), Minus(r.h, thick)) = Plus(r.y, r.h)
      /\ Times(r.w, Minus(r.h, thick)) = Minus(Times(r.w, r.h), Times(thick, r.w))
  <2>1. Across(r.y, r.h, thick, r.w) BY <1>1, <1>2, CutAcross
  <2>2. QED BY <2>1 DEF Across
<1>4. ASSUME NEW k \in 1..N
      PROVE  /\ lo + k - 1 \in lo..hi /\ lo + k - 2 = (lo + k - 1) - 1
             /\ strip[k] = [y |-> r.y, x |-> Plus(r.x, Stretch(side, lo, lo + k - 2)), h |-> thick,
                            w |-> side[lo + k - 1]]
  OBVIOUS
<1>5. ASSUME NEW k \in 1..N
      PROVE  /\ side[lo + k - 1] \in Fraction /\ AtMost(Zero, side[lo + k - 1])
             /\ Plus(r.x, Stretch(side, lo, lo + k - 2)) \in Fraction
             /\ AtMost(r.x, Plus(r.x, Stretch(side, lo, lo + k - 2)))
             /\ AtMost(Plus(Plus(r.x, Stretch(side, lo, lo + k - 2)), side[lo + k - 1]), Plus(r.x, r.w))
             /\ \A m \in (lo + k - 1 + 1)..hi :
                  AtMost(Plus(Plus(r.x, Stretch(side, lo, lo + k - 2)), side[lo + k - 1]),
                         Plus(r.x, Stretch(side, lo, m - 1)))
  <2>1. lo + k - 1 \in lo..hi /\ lo + k - 2 = (lo + k - 1) - 1 BY <1>4
  <2>2. Runs(lo, hi, side, r.w, r.x, lo + k - 1) BY <2>1, <1>1, Along
  <2>3. QED BY <2>1, <2>2 DEF Runs
<1>6. ASSUME NEW k \in 1..N PROVE strip[k] \in Box /\ Proper(strip[k])
  BY <1>1, <1>2, <1>4, <1>5 DEF Box, Proper
<1>7. strip \in [1..N -> Box]
  <2>1. DOMAIN strip = 1..N /\ strip = [k \in 1..N |-> strip[k]] OBVIOUS
  <2> HIDE DEF N
  <2>2. QED BY ONLY <2>1, <1>6
<1>8. ASSUME NEW k \in 1..N PROVE Lies(strip[k], r)
  <2>1. /\ strip[k].y = r.y /\ strip[k].h = thick /\ strip[k].w = side[lo + k - 1]
        /\ strip[k].x = Plus(r.x, Stretch(side, lo, lo + k - 2))
    BY <1>4
  <2>2. QED BY ONLY <2>1, <1>3, <1>5, k \in 1..N DEF Lies
<1>9. ASSUME NEW k \in 1..N PROVE Tree!Apart(strip[k], q)
  <2>1. Plus(strip[k].y, strip[k].h) = Plus(r.y, thick) /\ q.y = Plus(r.y, thick) BY <1>4
  <2>2. AtMost(Plus(strip[k].y, strip[k].h), q.y) BY ONLY <2>1, <1>3
  <2>3. QED BY <2>2, TreeBoxes
<1>10. ASSUME NEW k \in 1..N PROVE Tree!Area(strip[k]) = ar[lo + k - 1]
  <2>1. strip[k].h = thick /\ strip[k].w = side[lo + k - 1] /\ lo + k - 1 \in lo..hi BY <1>4
  <2>2. Times(strip[k].h, strip[k].w) = ar[lo + k - 1] BY ONLY <2>1, <1>2
  <2>3. Times(strip[k].w, strip[k].h) = Times(strip[k].h, strip[k].w)
    BY <2>1, <1>2, <1>5, TimesLaws
  <2>4. QED BY <2>2, <2>3, TreeBoxes
<1>11. ASSUME NEW k \in 1..N, NEW m \in 1..N, k < m
       PROVE  Tree!Apart(strip[k], strip[m]) /\ Tree!Apart(strip[m], strip[k])
  <2>1. /\ strip[k].x = Plus(r.x, Stretch(side, lo, lo + k - 2)) /\ strip[k].w = side[lo + k - 1]
        /\ strip[m].x = Plus(r.x, Stretch(side, lo, lo + m - 2))
    BY <1>4
  <2>2. lo + m - 1 \in (lo + k - 1 + 1)..hi /\ (lo + m - 1) - 1 = lo + m - 2 BY <1>11
  <2>3. AtMost(Plus(Plus(r.x, Stretch(side, lo, lo + k - 2)), side[lo + k - 1]),
               Plus(r.x, Stretch(side, lo, (lo + m - 1) - 1)))
    BY <2>2, <1>5
  <2>4. AtMost(Plus(strip[k].x, strip[k].w), strip[m].x) BY ONLY <2>1, <2>2, <2>3
  <2>5. QED BY <2>4, TreeBoxes
<1>12. ASSUME NEW k \in 1..N, NEW m \in 1..N, k # m PROVE Tree!Apart(strip[k], strip[m])
  <2>1. k < m \/ m < k BY <1>12
  <2>2. QED BY <2>1, <1>11
<1>13. Proper(q)
  BY <1>1, <1>3 DEF Proper, Box
<1>14. Lies(q, r)
  <2>1. q.y = Plus(r.y, thick) /\ q.x = r.x /\ q.h = Minus(r.h, thick) /\ q.w = r.w OBVIOUS
  <2>2. AtMost(r.x, r.x) /\ AtMost(Plus(r.x, r.w), Plus(r.x, r.w))
    BY <1>1, FieldTypes, OrderLaws
  <2>3. QED BY ONLY <2>1, <2>2, <1>3 DEF Lies
<1>15. Tree!Area(q) = Minus(Tree!Area(r), Stretch(ar, lo, hi))
  <2>1. q.h = Minus(r.h, thick) /\ q.w = r.w OBVIOUS
  <2>2. Times(q.w, q.h) = Minus(Times(r.w, r.h), Stretch(ar, lo, hi))
    BY ONLY <2>1, <1>2, <1>3
  <2>3. QED BY <2>2, TreeBoxes
<1> HIDE DEF N
<1>16. QED
  BY <1>6, <1>7, <1>8, <1>9, <1>10, <1>12, <1>13, <1>14, <1>15 DEF StripLaid, N

-----------------------------------------------------------------------------
(***************************************************************************)
(* The treemap                                                             *)
(***************************************************************************)
Areas == [k \in 1..Len(given) |-> Tree!areas(k)]

LEMMA Sides == Width \in Nat \ {0} /\ Height \in Nat \ {0}
BY FiguresAssumption

\* The areas of the tiles are in proportion to the weights and use up the area.
LEMMA TotalIs ==
  ASSUME given \in Seq(Int)
  PROVE  LET pos == [k \in 1..Len(given) |-> Whole(Tree!Positive(given[k]))]
         IN  /\ pos \in [1..Len(given) -> Fraction] /\ NotNegative(pos)
             /\ Tree!total = Stretch(pos, 1, Len(given))
             /\ Tree!total \in Fraction /\ AtMost(Zero, Tree!total)
<1> DEFINE n == Len(given)
           pos == [k \in 1..n |-> Whole(Tree!Positive(given[k]))]
<1>1. n \in Nat /\ \A k \in 1..n : given[k] \in Int
  BY SeqIs
<1>2. ASSUME NEW k \in 1..n PROVE Tree!Positive(given[k]) \in Nat
  BY <1>1 DEF Tree!Positive
<1>3. ASSUME NEW k \in 1..n
      PROVE  Whole(Tree!Positive(given[k])) \in Fraction /\ AtMost(Zero, Whole(Tree!Positive(given[k])))
  <2>1. 0 \in Int /\ Tree!Positive(given[k]) \in Int /\ 0 <= Tree!Positive(given[k]) BY <1>2
  <2>2. AtMost(Whole(0), Whole(Tree!Positive(given[k]))) BY <2>1, WholeOrder
  <2>3. Whole(Tree!Positive(given[k])) \in Fraction BY <2>1, WholeIs
  <2>4. QED BY <2>2, <2>3 DEF Zero
<1>4. pos \in [1..n -> Fraction] /\ NotNegative(pos)
  BY <1>3 DEF NotNegative
<1>5. Tree!total = Stretch(pos, 1, n)
  <2>1. Tree!total = SumOf([k \in 1..n |-> Whole(Tree!Positive(given[k]))])
    BY TreeSum, TreeWhole DEF Tree!total, Tree!n
  <2>2. [k \in 1..n |-> pos[k]] = pos OBVIOUS
  <2>3. QED BY <2>1, <2>2 DEF Stretch
<1>6. Tree!total \in Fraction /\ AtMost(Zero, Tree!total)
  <2> HIDE DEF n, pos
  <2>1. 1 \in Int /\ n \in Int /\ 1 >= 1 /\ n <= n BY <1>1
  <2>2. QED BY <2>1, <1>4, <1>5, StretchIs, StretchSign
<1>7. QED BY <1>4, <1>5, <1>6

LEMMA AreasAre ==
  ASSUME given \in Seq(Int), Tree!total # Zero
  PROVE  /\ Areas \in [1..Len(given) -> Fraction] /\ NotNegative(Areas)
         /\ Stretch(Areas, 1, Len(given)) = Whole(Width * Height)
         /\ \A a, b \in Int : a >= 1 /\ b <= Len(given) =>
              Tree!RowSum(a, b) = Stretch(Areas, a, b)
<1> DEFINE n == Len(given)  T == Tree!total
           pos == [k \in 1..n |-> Whole(Tree!Positive(given[k]))]
           c == Over(Whole(Width * Height), T)
<1>1. /\ pos \in [1..n -> Fraction] /\ NotNegative(pos) /\ T = Stretch(pos, 1, n)
      /\ T \in Fraction /\ AtMost(Zero, T)
  BY TotalIs
<1>2. n \in Nat /\ \A k \in 1..n : Tree!Positive(given[k]) \in Nat
  BY SeqIs DEF Tree!Positive
<1>3. Width * Height \in Int /\ Width * Height >= 0 /\ Whole(Width * Height) \in Fraction
  <2>1. Width * Height \in Nat BY Sides
  <2>2. QED BY <2>1, WholeIs
<1>4. c \in Fraction /\ AtMost(Zero, c) /\ Times(c, T) = Whole(Width * Height)
  <2>1. Less(Zero, T) BY <1>1, Numbers, OrderLaws
  <2>2. AtMost(Zero, Whole(Width * Height)) BY <1>3, WholeOrder DEF Zero
  <2>3. QED BY <2>1, <2>2, <1>1, <1>3, FieldTypes, OverLaws, SignLaws
<1>5. ASSUME NEW k \in 1..n
      PROVE  Tree!areas(k) = Times(c, pos[k])
  <2>1. Tree!Positive(given[k]) \in Int BY <1>2
  <2>2. Tree!areas(k) = Over(Whole(Tree!Positive(given[k]) * Width * Height), T)
    BY TreeOps, TreeWhole DEF Tree!areas
  <2>3. Tree!Positive(given[k]) * Width * Height = (Width * Height) * Tree!Positive(given[k])
    BY <2>1, Sides
  <2>4. Whole((Width * Height) * Tree!Positive(given[k]))
          = Times(Whole(Width * Height), Whole(Tree!Positive(given[k])))
    BY <2>1, <1>3, WholeOrder
  <2>5. pos[k] = Whole(Tree!Positive(given[k])) /\ pos[k] \in Fraction BY <2>1, WholeIs
  <2> HIDE DEF pos
  <2>6. Over(Times(Whole(Width * Height), pos[k]), T) = Times(c, pos[k])
    BY <2>5, <1>1, <1>3, OverTimes
  <2>7. QED BY <2>2, <2>3, <2>4, <2>5, <2>6
<1>6. ASSUME NEW k \in 1..n
      PROVE  Areas[k] = Times(c, pos[k]) /\ Areas[k] \in Fraction /\ AtMost(Zero, Areas[k])
  <2>1. Areas[k] = Times(c, pos[k]) BY <1>5 DEF Areas
  <2>2. pos[k] \in Fraction /\ AtMost(Zero, pos[k]) BY <1>1 DEF NotNegative
  <2> HIDE DEF pos, c
  <2>3. QED BY <2>1, <2>2, <1>4, FieldTypes, SignLaws
<1>7. Areas \in [1..n -> Fraction] /\ NotNegative(Areas)
  <2>1. DOMAIN Areas = 1..n /\ Areas = [k \in 1..n |-> Areas[k]] BY DEF Areas
  <2> HIDE DEF n
  <2>2. QED BY ONLY <2>1, <1>6 DEF NotNegative
<1>8. Stretch(Areas, 1, n) = Whole(Width * Height)
  <2>1. 1 \in Int /\ n \in Int /\ 1 - 1 <= n /\ n <= n BY <1>2
  <2>2. \A k \in 1..n : Areas[k] = Times(c, pos[k]) BY <1>6
  <2>3. Stretch(Areas, 1, n) = Times(c, Stretch(pos, 1, n))
    <3> HIDE DEF n, c, pos
    <3>1. /\ 1 \in Int /\ n \in Int /\ pos \in [1..n -> Fraction] /\ Areas \in [1..n -> Fraction]
          /\ c \in Fraction /\ 1 - 1 <= n /\ n <= n
      BY <2>1, <1>1, <1>4, <1>7
    <3>2. QED BY ONLY <3>1, <2>2, StretchScaled
  <2>4. QED BY <2>3, <1>1, <1>4
<1>9. ASSUME NEW a \in Int, NEW b \in Int, a >= 1, b <= n
      PROVE  Tree!RowSum(a, b) = Stretch(Areas, a, b)
  <2>1. Tree!RowSum(a, b) = SumOf([k \in a..b |-> Tree!areas(k)])
    BY TreeSum DEF Tree!RowSum
  <2>2. \A k \in a..b : Areas[k] = Tree!areas(k) BY <1>9, <1>2 DEF Areas
  <2>3. [k \in a..b |-> Tree!areas(k)] = [k \in a..b |-> Areas[k]]
    BY <2>2
  <2>4. QED BY <2>1, <2>3 DEF Stretch
<1>10. QED BY <1>7, <1>8, <1>9

LEMMA StripEndIs ==
  ASSUME NEW k \in 1..Len(given), Len(given) \in Nat
  PROVE  Tree!StripEnd(k) \in k..Len(given)
<1> DEFINE n == Len(given)
           stops == {m \in (k + 1)..n :
                       Tree!Worse(Tree!worst_ratio(k, m), Tree!worst_ratio(k, m - 1))}
<1>1. Tree!StripEnd(k) = IF stops = {} THEN n
                         ELSE (CHOOSE m \in stops : \A j \in stops : m <= j) - 1
  BY DEF Tree!StripEnd, Tree!n
<1>2. stops \in SUBSET Nat /\ \A m \in stops : m \in (k + 1)..n
  OBVIOUS
<1> HIDE DEF stops
<1>3. CASE stops = {} BY <1>1, <1>3
<1>4. CASE stops # {}
  <2>1. \E m \in stops : \A j \in stops : m <= j BY <1>2, <1>4, NatMin
  <2> DEFINE m == CHOOSE m \in stops : \A j \in stops : m <= j
  <2>2. m \in stops BY <2>1
  <2>3. Tree!StripEnd(k) = m - 1 BY <1>1, <1>4
  <2> HIDE DEF m
  <2>4. m \in (k + 1)..n BY <2>2, <1>2
  <2>5. QED BY <2>3, <2>4
<1>5. QED BY <1>3, <1>4

Cell == [x : Int, y : Int, w : Int, h : Int]
CellFits(c) == c \in Cell /\ c.x + c.w <= Width /\ c.y + c.h <= Height

LEMMA ClampedFits ==
  ASSUME NEW t \in Box
  PROVE  CellFits(Tree!Clamped(t))
<1>1. /\ Rounded(t.x) \in Int /\ Rounded(t.y) \in Int /\ Rounded(t.w) \in Int /\ Rounded(t.h) \in Int
  BY BoxIs, RoundedLaws
<1>2. Width \in Int /\ Height \in Int BY Sides
<1>3. \A a, b \in Int : Tree!Min2(a, b) \in Int /\ Tree!Min2(a, b) <= b
  BY DEF Tree!Min2
<1> DEFINE x == Tree!Min2(Rounded(t.x), Width)  y == Tree!Min2(Rounded(t.y), Height)
           w == Tree!Min2(Rounded(t.w), Width - x)  h == Tree!Min2(Rounded(t.h), Height - y)
<1>4. Tree!Clamped(t) = [x |-> x, y |-> y, w |-> w, h |-> h]
  BY TreeWhole DEF Tree!Clamped
<1>5. x \in Int /\ y \in Int BY <1>1, <1>2, <1>3
<1> HIDE DEF x, y
<1>6. Width - x \in Int /\ Height - y \in Int BY <1>2, <1>5
<1>7. w \in Int /\ h \in Int /\ w <= Width - x /\ h <= Height - y BY <1>1, <1>3, <1>6
<1> HIDE DEF w, h
<1>8. x + w <= Width /\ y + h <= Height BY <1>2, <1>5, <1>7
<1>9. QED BY <1>4, <1>5, <1>7, <1>8 DEF CellFits, Cell

-----------------------------------------------------------------------------
\* The inductive invariant of the layout.  What is left of the area is as large
\* as the tiles not laid yet, which is why a strip never is thicker than it.
Laid ==
  /\ Len(first) = step - 1
  /\ Tree!Area(work) = Stretch(Areas, step, Len(given))
  /\ \A k \in 1..Len(first) :
       /\ Tree!Area(first[k]) = Areas[k]
       /\ Tree!Inside(first[k]) /\ Tree!Apart(first[k], work)
  /\ \A k, m \in 1..Len(first) : k # m => Tree!Apart(first[k], first[m])

CellsLaid ==
  /\ second \in Seq(Cell) /\ Len(second) = step - 1
  /\ \A k \in 1..Len(second) : CellFits(second[k])

TreeInv ==
  /\ given \in Seq(Int) /\ step \in 1..(Len(given) + 1)
  /\ Proper(work) /\ Tree!Inside(work)
  /\ first \in Seq(Box)
  /\ Tree!total = Zero => first = <<>>
  /\ Tree!total # Zero => Laid
  /\ CellsLaid

LEMMA TreeStarts ==
  ASSUME given \in Seq(Int), Tree!Init
  PROVE  TreeInv
<1>1. /\ step = 1 /\ first = <<>> /\ second = <<>>
      /\ work = [x |-> Zero, y |-> Zero, w |-> Whole(Width), h |-> Whole(Height)]
  BY TreeWhole DEF Tree!Init
<1>2. Len(given) \in Nat BY SeqIs
<1>3. /\ Width \in Int /\ Height \in Int /\ 0 \in Int /\ 0 <= Width /\ 0 <= Height
      /\ Whole(Width) \in Fraction /\ Whole(Height) \in Fraction /\ Zero \in Fraction
  BY Sides, WholeIs, Numbers
<1>4. AtMost(Zero, Whole(Width)) /\ AtMost(Zero, Whole(Height)) /\ AtMost(Zero, Zero)
  BY <1>3, WholeOrder, OrderLaws DEF Zero
<1>5. Proper(work) BY <1>1, <1>3, <1>4 DEF Proper, Box
<1>6. Tree!Inside(work)
  <2>1. /\ Plus(Zero, Whole(Width)) = Whole(Width) /\ Plus(Zero, Whole(Height)) = Whole(Height)
    BY <1>3, PlusLaws
  <2>2. AtMost(Whole(Width), Whole(Width)) /\ AtMost(Whole(Height), Whole(Height))
    BY <1>3, OrderLaws
  <2>3. work.x = Zero /\ work.y = Zero /\ work.w = Whole(Width) /\ work.h = Whole(Height) BY <1>1
  <2>4. QED BY ONLY <2>1, <2>2, <2>3, <1>4, TreeBoxes
<1>7. ASSUME Tree!total # Zero PROVE Laid
  <2>1. Stretch(Areas, 1, Len(given)) = Whole(Width * Height) BY <1>7, AreasAre
  <2>2. work.w = Whole(Width) /\ work.h = Whole(Height) BY <1>1
  <2>3. Times(Whole(Width), Whole(Height)) = Whole(Width * Height) BY <1>3, WholeOrder
  <2>4. Tree!Area(work) = Whole(Width * Height) BY <2>2, <2>3, TreeBoxes
  <2>5. Len(first) = 0 /\ step = 1 BY <1>1
  <2>6. QED BY <2>1, <2>4, <2>5 DEF Laid
<1>8. CellsLaid BY <1>1 DEF CellsLaid
<1>9. step \in 1..(Len(given) + 1) /\ first \in Seq(Box) BY <1>1, <1>2
<1>10. QED BY <1>1, <1>5, <1>6, <1>7, <1>8, <1>9 DEF TreeInv

\* A strip fits what is left of the area.
LEMMA StripIsLaid ==
  ASSUME TreeInv, Tree!total # Zero, NEW last \in step..Len(given),
         NEW sum, sum = Tree!RowSum(step, last),
         NEW thick, thick = IF Less(Zero, Tree!short) THEN Over(sum, Tree!short) ELSE Zero,
         NEW q, q = IF Tree!vertical_strip
                      THEN [work EXCEPT !.x = Plus(@, thick), !.w = Minus(@, thick)]
                      ELSE [work EXCEPT !.y = Plus(@, thick), !.h = Minus(@, thick)]
  PROVE  LET ar == [k \in step..last |-> Areas[k]]
         IN  /\ StripLaid(Tree!StripOf(last, Tree!Sides(last, sum), thick), q, work, ar, step, last)
             /\ Stretch(ar, step, last) = Stretch(Areas, step, last)
<1> DEFINE ar == [k \in step..last |-> Areas[k]]
           side == Tree!Sides(last, sum)
           n == Len(given)
<1>1. /\ given \in Seq(Int) /\ step \in Int /\ last \in Int /\ step <= last /\ n \in Nat
      /\ step >= 1 /\ last <= n
      /\ Proper(work) /\ work \in Box
  BY SeqIs DEF TreeInv, Proper
<1>2. /\ Areas \in [1..n -> Fraction] /\ NotNegative(Areas)
      /\ sum = Stretch(Areas, step, last)
  BY <1>1, AreasAre
<1>3. /\ work.x \in Fraction /\ work.y \in Fraction /\ work.w \in Fraction /\ work.h \in Fraction
      /\ AtMost(Zero, work.w) /\ AtMost(Zero, work.h)
      /\ work = [x |-> work.x, y |-> work.y, w |-> work.w, h |-> work.h]
  BY <1>1 DEF Proper, Box
<1>4. ar \in [step..last -> Fraction] /\ NotNegative(ar) /\ Stretch(ar, step, last) = sum
  <2>1. \A k \in step..last : k \in 1..n BY <1>1
  <2>2. ar \in [step..last -> Fraction] /\ NotNegative(ar) BY <2>1, <1>2 DEF NotNegative
  <2>3. [k \in step..last |-> ar[k]] = [k \in step..last |-> Areas[k]] OBVIOUS
  <2>4. QED BY <2>2, <2>3, <1>2 DEF Stretch
<1>5. AtMost(sum, Times(work.w, work.h))
  <2>1. Stretch(Areas, step, n) = Times(work.w, work.h) BY TreeBoxes DEF TreeInv, Laid
  <2>2. n \in Int /\ step >= 1 /\ step <= last + 1 /\ 1 \in Int /\ n <= n BY <1>1
  <2>3. AtMost(Stretch(Areas, step, last), Stretch(Areas, step, n))
    BY <2>2, <1>1, <1>2, StretchRises
  <2>4. QED BY <2>1, <2>3, <1>2
<1>6. side = [k \in step..last |-> IF Less(Zero, sum) THEN Times(Over(ar[k], sum), Tree!short) ELSE Zero]
  <2>1. \A k \in step..last : ar[k] = Tree!areas(k) BY <1>1 DEF Areas
  <2>2. side = [k \in step..last |->
                 IF Less(Zero, sum) THEN Times(Over(Tree!areas(k), sum), Tree!short) ELSE Zero]
    BY TreeOps, TreeOrder, TreeWhole DEF Tree!Sides
  <2> HIDE DEF side, ar
  <2>3. QED BY ONLY <2>1, <2>2
<1> HIDE DEF side, ar
<1>7. CASE Tree!vertical_strip
  <2>1. AtMost(work.h, work.w) BY <1>7, TreeOrder DEF Tree!vertical_strip
  <2>2. Tree!short = work.h
    <3>1. Tree!short = IF Less(work.h, work.w) THEN work.h ELSE work.w
      BY TreeOrder DEF Tree!short, Least
    <3>2. Less(work.h, work.w) \/ work.h = work.w BY <2>1, <1>3, OrderLaws
    <3>3. QED BY <3>1, <3>2
  <2>3. StripFits(step, last, ar, side, thick, work.h, work.w)
    <3>1. /\ side = [k \in step..last |-> IF Less(Zero, sum) THEN Times(Over(ar[k], sum), work.h) ELSE Zero]
          /\ thick = IF Less(Zero, work.h) THEN Over(sum, work.h) ELSE Zero
          /\ sum = Stretch(ar, step, last)
      BY <2>2, <1>4, <1>6
    <3>2. QED BY ONLY <3>1, <1>1, <1>3, <1>4, <1>5, StripSums
  <2>4. q = [x |-> Plus(work.x, thick), y |-> work.y, w |-> Minus(work.w, thick), h |-> work.h]
    BY <1>3, <1>7
  <2>5. Tree!StripOf(last, side, thick)
          = [k \in 1..(last - step + 1) |->
              [x |-> work.x, y |-> Plus(work.y, Stretch(side, step, step + k - 2)), w |-> thick,
               h |-> side[step + k - 1]]]
    BY <1>7, TreeOps, TreeSum DEF Tree!StripOf, Stretch
  <2>6. StripLaid(Tree!StripOf(last, side, thick), q, work, ar, step, last)
    BY ONLY <2>3, <2>4, <2>5, <1>1, StripUpright
  <2>7. QED BY <2>6, <1>2, <1>4 DEF ar, side
<1>8. CASE ~Tree!vertical_strip
  <2>1. ~AtMost(work.h, work.w) BY <1>8, TreeOrder DEF Tree!vertical_strip
  <2>2. Tree!short = work.w
    <3>1. Tree!short = IF Less(work.h, work.w) THEN work.h ELSE work.w
      BY TreeOrder DEF Tree!short, Least
    <3>2. ~Less(work.h, work.w) BY <2>1, <1>3, OrderLaws
    <3>3. QED BY <3>1, <3>2
  <2>3. StripFits(step, last, ar, side, thick, work.w, work.h)
    <3>1. /\ side = [k \in step..last |-> IF Less(Zero, sum) THEN Times(Over(ar[k], sum), work.w) ELSE Zero]
          /\ thick = IF Less(Zero, work.w) THEN Over(sum, work.w) ELSE Zero
          /\ sum = Stretch(ar, step, last)
      BY <2>2, <1>4, <1>6
    <3>2. Times(work.w, work.h) = Times(work.h, work.w) BY <1>3, TimesLaws
    <3>3. QED BY ONLY <3>1, <3>2, <1>1, <1>3, <1>4, <1>5, StripSums
  <2>4. q = [y |-> Plus(work.y, thick), x |-> work.x, h |-> Minus(work.h, thick), w |-> work.w]
    BY <1>3, <1>8
  <2>5. Tree!StripOf(last, side, thick)
          = [k \in 1..(last - step + 1) |->
              [y |-> work.y, x |-> Plus(work.x, Stretch(side, step, step + k - 2)), h |-> thick,
               w |-> side[step + k - 1]]]
    BY <1>8, TreeOps, TreeSum DEF Tree!StripOf, Stretch
  <2>6. StripLaid(Tree!StripOf(last, side, thick), q, work, ar, step, last)
    BY ONLY <2>3, <2>4, <2>5, <1>1, StripFlat
  <2>7. QED BY <2>6, <1>2, <1>4 DEF ar, side
<1>9. QED BY <1>7, <1>8

LEMMA JoinedIs ==
  ASSUME NEW T, NEW s \in Seq(T), NEW m \in Nat, NEW t \in [1..m -> T]
  PROVE  /\ s \o t \in Seq(T) /\ Len(s \o t) = Len(s) + m
         /\ \A k \in 1..Len(s) : (s \o t)[k] = s[k]
         /\ \A k \in (Len(s) + 1)..(Len(s) + m) : k - Len(s) \in 1..m /\ (s \o t)[k] = t[k - Len(s)]
<1>1. t \in Seq(T) /\ Len(t) = m OBVIOUS
<1>2. QED BY <1>1

\* A step keeps what the layout was given.
LEMMA TreeSame ==
  ASSUME given' = given
  PROVE  Areas' = Areas /\ (Tree!total)' = Tree!total
<1>1. (Tree!total)' = Tree!total BY DEF Tree!total, Tree!n
<1>2. QED BY <1>1 DEF Areas, Tree!areas

LEMMA TreeEmpty ==
  ASSUME TreeInv, Tree!Empty
  PROVE  TreeInv'
<1>1. /\ step \in 1..Len(given) /\ Tree!total = Zero /\ step' = Len(given) + 1 /\ given' = given
      /\ work' = work /\ first' = first
      /\ second' = [k \in 1..Len(given) |-> [x |-> 0, y |-> 0, w |-> 0, h |-> 0]]
  BY TreeWhole DEF TreeInv, Tree!Empty, Tree!n
<1>2. (Tree!total)' = Zero BY <1>1, TreeSame
<1>n. Len(given) \in Nat BY SeqIs DEF TreeInv
<1>3. CellsLaid'
  <2> DEFINE c == [x |-> 0, y |-> 0, w |-> 0, h |-> 0]
  <2>1. c \in Cell BY DEF Cell
  <2>2. CellFits(c) BY <2>1, Sides DEF CellFits
  <2> HIDE DEF c
  <2>3. second' = [k \in 1..Len(given) |-> c] BY <1>1 DEF c
  <2>4. second' \in Seq(Cell) /\ Len(second') = Len(given) /\ \A k \in 1..Len(second') : second'[k] = c
    BY <2>1, <2>3, <1>n
  <2>5. Len(second') = step' - 1 BY <2>4, <1>1, <1>n
  <2>6. QED BY <2>2, <2>4, <2>5 DEF CellsLaid
<1>4. /\ given' \in Seq(Int) /\ step' \in 1..(Len(given') + 1)
      /\ Proper(work)' /\ (Tree!Inside(work))' /\ first' \in Seq(Box) /\ first' = <<>>
  <2>1. step' \in 1..(Len(given') + 1) BY <1>1, <1>n
  <2>2. QED BY <2>1, <1>1 DEF TreeInv
<1>5. QED BY <1>2, <1>3, <1>4 DEF TreeInv

LEMMA TreeStrip ==
  ASSUME TreeInv, Tree!Strip
  PROVE  TreeInv'
<1> DEFINE n == Len(given)
<1>1. /\ given \in Seq(Int) /\ step \in 1..n /\ n \in Nat /\ Tree!total # Zero
      /\ Proper(work) /\ Tree!Inside(work) /\ work \in Box
      /\ first \in Seq(Box) /\ Laid /\ CellsLaid
  BY SeqIs, TreeWhole DEF TreeInv, Tree!Strip, Tree!n, Proper
<1>2. PICK last \in {Tree!StripEnd(step)} : \E sum \in {Tree!RowSum(step, last)} :
        \E thick \in {IF Less(Zero, Tree!short) THEN Over(sum, Tree!short) ELSE Zero} :
          Tree!LayStrip(last, sum, thick) /\ Tree!Cut(thick)
  BY TreeOrder, TreeOps, TreeWhole DEF Tree!Strip
<1>3. PICK sum \in {Tree!RowSum(step, last)} :
        \E thick \in {IF Less(Zero, Tree!short) THEN Over(sum, Tree!short) ELSE Zero} :
          Tree!LayStrip(last, sum, thick) /\ Tree!Cut(thick)
  BY <1>2
<1>4. PICK thick \in {IF Less(Zero, Tree!short) THEN Over(sum, Tree!short) ELSE Zero} :
        Tree!LayStrip(last, sum, thick) /\ Tree!Cut(thick)
  BY <1>3
<1>5. last \in step..n BY <1>1, StripEndIs
<1> DEFINE strip == Tree!StripOf(last, Tree!Sides(last, sum), thick)
           cut == [k \in DOMAIN strip |-> Tree!Clamped(strip[k])]
           ar == [k \in step..last |-> Areas[k]]
           N == last - step + 1
<1>6. /\ first' = first \o strip /\ second' = second \o cut
      /\ step' = last + 1 /\ given' = given
  BY <1>4 DEF Tree!LayStrip
<1>7. work' = IF Tree!vertical_strip
                THEN [work EXCEPT !.x = Plus(@, thick), !.w = Minus(@, thick)]
                ELSE [work EXCEPT !.y = Plus(@, thick), !.h = Minus(@, thick)]
  BY <1>4, TreeOps DEF Tree!Cut
<1>8. StripLaid(strip, work', work, ar, step, last) /\ Stretch(ar, step, last) = Stretch(Areas, step, last)
  BY <1>1, <1>5, <1>7, StripIsLaid
<1> HIDE DEF strip, ar
<1>9. /\ strip \in [1..N -> Box]
      /\ \A k \in 1..N : /\ strip[k] \in Box /\ Lies(strip[k], work) /\ Tree!Apart(strip[k], work')
                         /\ Tree!Area(strip[k]) = ar[step + k - 1]
      /\ \A k, m \in 1..N : k # m => Tree!Apart(strip[k], strip[m])
      /\ Proper(work') /\ Lies(work', work) /\ work' \in Box
      /\ Tree!Area(work') = Minus(Tree!Area(work), Stretch(Areas, step, last))
  BY <1>8 DEF StripLaid, Proper
<1>10. Width \in Int /\ Height \in Int BY Sides
<1>11. Tree!Inside(work') BY <1>1, <1>9, <1>10, InsideLies
<1>N. N \in Nat /\ N >= 1 /\ last \in Int /\ step \in Int /\ step >= 1 /\ last <= n BY <1>1, <1>5
<1>12. /\ first' \in Seq(Box) /\ Len(first') = Len(first) + N /\ Len(first) = step - 1
       /\ \A k \in 1..Len(first) : first'[k] = first[k]
       /\ \A k \in (Len(first) + 1)..(Len(first) + N) :
            k - Len(first) \in 1..N /\ first'[k] = strip[k - Len(first)]
  <2>1. Len(first) = step - 1 BY <1>1 DEF Laid
  <2> HIDE DEF N
  <2>2. /\ first \o strip \in Seq(Box) /\ Len(first \o strip) = Len(first) + N
        /\ \A k \in 1..Len(first) : (first \o strip)[k] = first[k]
        /\ \A k \in (Len(first) + 1)..(Len(first) + N) :
             k - Len(first) \in 1..N /\ (first \o strip)[k] = strip[k - Len(first)]
    <3>1. first \in Seq(Box) /\ N \in Nat /\ strip \in [1..N -> Box] BY <1>1, <1>9, <1>N
    <3>2. QED BY ONLY <3>1, JoinedIs
  <2>3. first' = first \o strip BY <1>6
  <2>4. QED BY ONLY <2>1, <2>2, <2>3
<1>13. CellsLaid'
  <2>1. cut \in [1..N -> Cell] /\ \A k \in 1..N : CellFits(cut[k])
    <3>1. DOMAIN strip = 1..N BY <1>9
    <3>2. ASSUME NEW k \in 1..N PROVE cut[k] \in Cell /\ CellFits(cut[k])
      <4>1. CellFits(Tree!Clamped(strip[k])) BY <1>9, ClampedFits
      <4>2. cut[k] = Tree!Clamped(strip[k]) BY <3>1
      <4>3. QED BY <4>1, <4>2 DEF CellFits
    <3>3. cut = [k \in 1..N |-> cut[k]] BY <3>1
    <3> HIDE DEF cut, N
    <3>4. QED BY ONLY <3>2, <3>3
  <2> HIDE DEF cut
  <2>2. /\ second \in Seq(Cell) /\ Len(second) = step - 1
        /\ \A k \in 1..Len(second) : CellFits(second[k])
    BY <1>1 DEF CellsLaid
  <2>3. /\ second' \in Seq(Cell) /\ Len(second') = Len(second) + N
        /\ \A k \in 1..Len(second) : second'[k] = second[k]
        /\ \A k \in (Len(second) + 1)..(Len(second) + N) :
             k - Len(second) \in 1..N /\ second'[k] = cut[k - Len(second)]
    <3> HIDE DEF N
    <3>1. second \in Seq(Cell) /\ N \in Nat /\ cut \in [1..N -> Cell] BY <2>1, <2>2, <1>N
    <3>2. second' = second \o cut BY <1>6
    <3>3. QED BY ONLY <3>1, <3>2, JoinedIs
  <2>4. Len(second') = step' - 1 BY <2>2, <2>3, <1>6, <1>N
  <2>5. ASSUME NEW k \in 1..Len(second') PROVE CellFits(second'[k])
    <3>1. k \in 1..Len(second) \/ k \in (Len(second) + 1)..(Len(second) + N)
      BY <2>2, <2>3, <1>N
    <3>2. QED BY <3>1, <2>1, <2>2, <2>3
  <2>6. QED BY <2>3, <2>4, <2>5 DEF CellsLaid
<1>14. Laid'
  <2>0. Areas' = Areas BY <1>6, TreeSame
  <2>1. Len(first') = step' - 1 BY <1>6, <1>12, <1>N
  <2>2. Tree!Area(work') = Stretch(Areas, step', Len(given'))
    <3>1. Areas \in [1..n -> Fraction] BY <1>1, AreasAre
    <3>2. /\ 1 \in Int /\ n \in Int /\ step >= 1 /\ step <= last + 1 /\ last <= n /\ n <= n
          /\ last + 1 \in Int /\ last + 1 >= 1
      BY <1>1, <1>N
    <3>3. Stretch(Areas, step, n) = Plus(Stretch(Areas, step, last), Stretch(Areas, last + 1, n))
      BY <3>1, <3>2, <1>N, StretchJoin
    <3>4. /\ Stretch(Areas, step, n) \in Fraction /\ Stretch(Areas, step, last) \in Fraction
          /\ Stretch(Areas, last + 1, n) \in Fraction
      BY <3>1, <3>2, <1>N, StretchIs
    <3>5. Tree!Area(work) = Stretch(Areas, step, n) BY <1>1 DEF Laid
    <3>6. Plus(Stretch(Areas, last + 1, n), Stretch(Areas, step, last)) = Stretch(Areas, step, n)
      BY <3>3, <3>4, PlusLaws
    <3>7. Stretch(Areas, last + 1, n) = Minus(Stretch(Areas, step, n), Stretch(Areas, step, last))
      BY <3>4, <3>6, PlusOrder
    <3>8. step' = last + 1 /\ Len(given') = n BY <1>6
    <3>9. QED BY <3>5, <3>7, <3>8, <1>9
  <2>3. ASSUME NEW k \in 1..Len(first')
        PROVE  k \in 1..Len(first) \/ k \in (Len(first) + 1)..(Len(first) + N)
    BY <1>12, <1>N
  <2>4. ASSUME NEW k \in 1..Len(first), NEW b \in Box, Lies(b, work)
        PROVE  Tree!Apart(first[k], b) /\ Tree!Apart(b, first[k])
    <3>1. first[k] \in Box /\ Tree!Apart(first[k], work) BY <1>1, SeqIs DEF Laid
    <3>2. QED BY <3>1, <2>4, <1>1, ApartInside
  <2>5. ASSUME NEW k \in 1..Len(first')
        PROVE  /\ Tree!Area(first'[k]) = Areas[k]
               /\ Tree!Inside(first'[k]) /\ Tree!Apart(first'[k], work')
    <3>1. CASE k \in 1..Len(first)
      <4>1. first'[k] = first[k] BY <3>1, <1>12
      <4>2. Tree!Area(first[k]) = Areas[k] /\ Tree!Inside(first[k]) BY <3>1, <1>1 DEF Laid
      <4>3. Tree!Apart(first[k], work') BY <3>1, <2>4, <1>9
      <4>4. QED BY <4>1, <4>2, <4>3
    <3>2. CASE k \in (Len(first) + 1)..(Len(first) + N)
      <4> DEFINE j == k - Len(first)
      <4>1. j \in 1..N /\ first'[k] = strip[j] BY <3>2, <1>12
      <4>2. step + j - 1 = k /\ k \in step..last
        <5>1. Len(first) = step - 1 /\ N = last - step + 1 BY <1>12
        <5>2. step \in Int /\ last \in Int /\ k \in (Len(first) + 1)..(Len(first) + N) BY <3>2, <1>N
        <5> HIDE DEF N
        <5>3. QED BY ONLY <5>1, <5>2 DEF j
      <4> HIDE DEF j
      <4>3. ar[k] = Areas[k] BY <4>2 DEF ar
      <4>4. Tree!Area(strip[j]) = Areas[k] BY <4>1, <4>2, <4>3, <1>9
      <4>5. Tree!Apart(strip[j], work') BY <4>1, <1>9
      <4>6. strip[j] \in Box /\ Lies(strip[j], work) BY <4>1, <1>9
      <4>7. Tree!Inside(strip[j]) BY <4>6, <1>1, <1>10, InsideLies
      <4>8. QED BY <4>1, <4>4, <4>5, <4>7
    <3>3. QED BY <2>3, <3>1, <3>2
  <2>6. ASSUME NEW k \in 1..Len(first'), NEW m \in 1..Len(first'), k # m
        PROVE  Tree!Apart(first'[k], first'[m])
    <3>1. CASE k \in 1..Len(first) /\ m \in 1..Len(first)
      BY <3>1, <2>6, <1>1, <1>12 DEF Laid
    <3>2. CASE k \in 1..Len(first) /\ m \in (Len(first) + 1)..(Len(first) + N)
      BY <3>2, <2>4, <1>9, <1>12
    <3>3. CASE m \in 1..Len(first) /\ k \in (Len(first) + 1)..(Len(first) + N)
      BY <3>3, <2>4, <1>9, <1>12
    <3>4. CASE k \in (Len(first) + 1)..(Len(first) + N) /\ m \in (Len(first) + 1)..(Len(first) + N)
      <4>1. k - Len(first) # m - Len(first) BY <2>6, <3>4, <1>12, <1>N
      <4>2. QED BY <4>1, <3>4, <1>9, <1>12
    <3>5. QED BY <2>3, <3>1, <3>2, <3>3, <3>4
  <2>7. QED BY <2>0, <2>1, <2>2, <2>5, <2>6 DEF Laid
<1>15. (Tree!total)' # Zero BY <1>1, <1>6, TreeSame
<1>16. given' \in Seq(Int) /\ step' \in 1..(Len(given') + 1) BY <1>1, <1>6, <1>N
<1>17. QED BY <1>9, <1>11, <1>12, <1>13, <1>14, <1>15, <1>16 DEF TreeInv

LEMMA TreeSteps ==
  ASSUME TreeInv, Tree!Next
  PROVE  TreeInv'
BY TreeEmpty, TreeStrip DEF Tree!Next

LEMMA TreeHolds ==
  ASSUME TreeInv
  PROVE  Tree!Tiling /\ Tree!CellsInside
<1> DEFINE n == Len(given)
<1>1. /\ given \in Seq(Int) /\ step \in 1..(n + 1) /\ n \in Nat /\ Tree!Inside(work)
      /\ first \in Seq(Box) /\ CellsLaid
      /\ Tree!total = Zero => first = <<>>
      /\ Tree!total # Zero => Laid
  BY SeqIs DEF TreeInv
<1>2. Tree!CellsInside
  <2>1. second \in Seq(Cell) /\ Len(second) = step - 1 /\ \A k \in 1..Len(second) : CellFits(second[k])
    BY <1>1 DEF CellsLaid
  <2>2. DOMAIN second = 1..Len(second) BY <2>1, SeqIs
  <2>3. step > n => Len(second) = n BY <2>1, <1>1
  <2>4. QED BY <2>1, <2>2, <2>3 DEF Tree!CellsInside, CellFits, Tree!n
<1>3. CASE first = <<>>
  <2>1. DOMAIN first = {} BY <1>3
  <2>2. QED BY <2>1, <1>1, <1>2, <1>3 DEF Tree!Tiling
<1>4. CASE first # <<>>
  <2>1. Tree!total # Zero /\ Laid BY <1>1, <1>4
  <2>2. DOMAIN first = 1..Len(first) /\ Len(first) = step - 1 /\ Len(first) > 0
    BY <2>1, <1>1, <1>4, SeqIs DEF Laid
  <2>3. Areas \in [1..n -> Fraction] /\ Stretch(Areas, 1, n) = Whole(Width * Height)
    BY <2>1, <1>1, AreasAre
  <2>4. Tree!Area(work) = Stretch(Areas, step, n) BY <2>1 DEF Laid
  <2>5. SumOf([k \in DOMAIN first |-> Tree!Area(first[k])]) = Stretch(Areas, 1, step - 1)
    <3>1. \A k \in DOMAIN first : Tree!Area(first[k]) = Areas[k] BY <2>1, <2>2 DEF Laid
    <3>2. [k \in DOMAIN first |-> Tree!Area(first[k])] = [k \in 1..(step - 1) |-> Areas[k]]
      BY <3>1, <2>2
    <3>3. QED BY <3>2 DEF Stretch
  <2>6. Plus(Stretch(Areas, step, n), Stretch(Areas, 1, step - 1)) = Whole(Width * Height)
    <3> DEFINE b == step - 1
    <3>1. 1 \in Int /\ n \in Int /\ b \in Int /\ 1 >= 1 /\ 1 <= b + 1 /\ b <= n /\ n <= n
          /\ b + 1 = step /\ step >= 1 /\ step \in Int
      BY <1>1
    <3> HIDE DEF b
    <3>2. Stretch(Areas, 1, n) = Plus(Stretch(Areas, 1, b), Stretch(Areas, b + 1, n))
      BY <3>1, <2>3, StretchJoin
    <3>3. Stretch(Areas, 1, b) \in Fraction /\ Stretch(Areas, step, n) \in Fraction
      BY <3>1, <2>3, StretchIs
    <3>4. Plus(Stretch(Areas, step, n), Stretch(Areas, 1, b))
            = Plus(Stretch(Areas, 1, b), Stretch(Areas, step, n))
      BY <3>3, PlusLaws
    <3>5. QED BY <3>1, <3>2, <3>4, <2>3 DEF b
  <2>7. \A k \in DOMAIN first : Tree!Area(first[k]) = Tree!areas(k)
    <3>1. \A k \in DOMAIN first : k \in 1..n BY <2>2, <1>1
    <3>2. \A k \in DOMAIN first : Tree!Area(first[k]) = Areas[k] BY <2>1, <2>2 DEF Laid
    <3>3. QED BY <3>1, <3>2 DEF Areas
  <2>8. /\ \A k \in DOMAIN first : Tree!Inside(first[k]) /\ Tree!Apart(first[k], work)
        /\ \A k, m \in DOMAIN first : k # m => Tree!Apart(first[k], first[m])
    BY <2>1, <2>2 DEF Laid
  <2>9. Tree!Plus(Tree!Area(work), Tree!SumOf([k \in DOMAIN first |-> Tree!Area(first[k])]))
          = Tree!Whole(Width * Height)
    BY <2>4, <2>5, <2>6, TreeOps, TreeSum, TreeWhole
  <2>10. QED BY <2>7, <2>8, <2>9, <1>1, <1>2 DEF Tree!Tiling
<1>5. QED BY <1>2, <1>3, <1>4

\* The treemap tiles its area, whatever the weights: every tile has the area
\* its weight is due, inside the area and apart from the others, and on the
\* terminal none reaches beyond it (squarify).
THEOREM TreemapTiles ==
  given \in Seq(Int) /\ Tree!Init /\ [][Tree!Next]_(<<given, step, work, first, second>>)
    => [](Tree!Tiling /\ Tree!CellsInside)
<1>1. given \in Seq(Int) /\ Tree!Init => TreeInv BY TreeStarts
<1>2. TreeInv /\ [Tree!Next]_(<<given, step, work, first, second>>) => TreeInv'
  <2> SUFFICES ASSUME TreeInv, [Tree!Next]_(<<given, step, work, first, second>>) PROVE TreeInv'
    OBVIOUS
  <2>1. CASE Tree!Next BY <2>1, TreeSteps
  <2>2. CASE UNCHANGED <<given, step, work, first, second>>
    <3>1. Areas' = Areas /\ (Tree!total)' = Tree!total BY <2>2, TreeSame
    <3>2. QED BY <2>2, <3>1 DEF TreeInv, Laid, CellsLaid
  <2>3. QED BY <2>1, <2>2
<1>3. TreeInv => Tree!Tiling /\ Tree!CellsInside BY TreeHolds
<1>4. QED BY <1>1, <1>2, <1>3, PTL

-----------------------------------------------------------------------------
(***************************************************************************)
(* What the computations are given                                         *)
(***************************************************************************)
FiguresInv ==
  /\ figure \in DOMAIN Grows => given \in Seq(Grows[figure])
  /\ figure = "treemap" => TreeInv

LEMMA GrowsIs ==
  /\ DOMAIN Grows = {"rows", "closes", "typed", "stocks", "letters", "chain", "room"}
  /\ Grows["rows"] = Row /\ Grows["closes"] = {1, 2, 4} /\ Grows["typed"] = Field
  /\ Grows["stocks"] = Stock /\ Grows["letters"] = Letters /\ Grows["chain"] = Contract
  /\ Grows["room"] = {0}
  /\ \A f \in {"treemap", "optimizer", "solver", "greeks", "histories"} : f \notin DOMAIN Grows
<1>1. DOMAIN Grows = {"rows", "closes", "typed", "stocks", "letters", "chain", "room"}
  BY DEF Grows
<1>2. /\ Grows["rows"] = Row /\ Grows["closes"] = {1, 2, 4} /\ Grows["typed"] = Field
      /\ Grows["stocks"] = Stock /\ Grows["letters"] = Letters /\ Grows["chain"] = Contract
      /\ Grows["room"] = {0}
  BY DEF Grows
<1>3. QED BY <1>1, <1>2

LEMMA FiguresStart == FiguresInit => FiguresInv
<1> SUFFICES ASSUME FiguresInit PROVE FiguresInv
  OBVIOUS
<1>1. CASE figure = "treemap" /\ Tree!Init
  <2>1. given \in Seq(Int)
    <3>1. given \in UNION {[1..m -> {0, 1, 2, 5}] : m \in 0..3} BY <1>1 DEF Tree!Init
    <3>2. PICK m \in 0..3 : given \in [1..m -> {0, 1, 2, 5}] BY <3>1
    <3>3. given \in [1..m -> Int] /\ m \in Nat BY <3>2
    <3>4. QED BY <3>3
  <2>2. TreeInv BY <1>1, <2>1, TreeStarts
  <2>3. QED BY <1>1, <2>2, GrowsIs DEF FiguresInv
<1>2. CASE figure \in {"optimizer", "solver"}
  BY <1>2, GrowsIs DEF FiguresInv
<1>3. CASE /\ figure \in DOMAIN Grows \cup {"greeks", "histories"}
           /\ given \in IF figure = "greeks" THEN Greek
                        ELSE IF figure = "histories" THEN Histories ELSE {<<>>}
  <2>1. figure # "treemap" BY <1>3, GrowsIs
  <2>2. figure \in DOMAIN Grows => given = <<>>
    <3>1. "greeks" \notin DOMAIN Grows /\ "histories" \notin DOMAIN Grows BY GrowsIs
    <3>2. figure \in DOMAIN Grows => figure # "greeks" /\ figure # "histories" BY <3>1
    <3>3. QED BY <1>3, <3>2
  <2>3. \A S : <<>> \in Seq(S) OBVIOUS
  <2>4. QED BY <2>1, <2>2, <2>3 DEF FiguresInv
<1>4. QED BY <1>1, <1>2, <1>3 DEF FiguresInit

LEMMA FiguresStep == FiguresInv /\ [FiguresNext]_figureVars => FiguresInv'
<1> SUFFICES ASSUME FiguresInv, [FiguresNext]_figureVars PROVE FiguresInv'
  OBVIOUS
<1>1. CASE UNCHANGED figureVars
  <2>1. /\ figure' = figure /\ given' = given /\ step' = step /\ work' = work
        /\ first' = first /\ second' = second
    BY <1>1 DEF figureVars, machine
  <2>2. Areas' = Areas /\ (Tree!total)' = Tree!total BY <2>1, TreeSame
  <2>3. TreeInv => TreeInv' BY <2>1, <2>2 DEF TreeInv, Laid, CellsLaid
  <2>4. QED BY <2>1, <2>3 DEF FiguresInv
<1>2. CASE figure' = figure /\ figure = "treemap" /\ Tree!Next
  <2>1. TreeInv' BY <1>2, TreeSteps DEF FiguresInv
  <2>2. QED BY <1>2, <2>1, GrowsIs DEF FiguresInv
<1>3. CASE figure' = figure /\ figure \in {"optimizer", "solver"}
  BY <1>3, GrowsIs DEF FiguresInv
<1>4. CASE figure' = figure /\ Grow
  <2>1. figure \in DOMAIN Grows /\ figure # "treemap" BY <1>4, GrowsIs DEF Grow
  <2>2. PICK x \in Grows[figure] : given' = Append(given, x) BY <1>4 DEF Grow
  <2>3. given \in Seq(Grows[figure]) BY <2>1 DEF FiguresInv
  <2>4. given' \in Seq(Grows[figure]) BY <2>2, <2>3
  <2>5. QED BY <1>4, <2>1, <2>4 DEF FiguresInv
<1>5. QED BY <1>1, <1>2, <1>3, <1>4 DEF FiguresNext

LEMMA SeqWider ==
  ASSUME NEW S, NEW T, S \subseteq T, NEW s \in Seq(S)
  PROVE  s \in Seq(T)
<1>1. Len(s) \in Nat /\ s \in [1..Len(s) -> S] BY SeqIs
<1>2. s \in [1..Len(s) -> T] BY <1>1
<1>3. QED BY <1>1, <1>2

\* Whatever is laid out, the treemap tiles its area and what is drawn of it and
\* in every other panel fits the room there is and shows what matters most.
LEMMA LayoutsHold == FiguresInv => LayoutsFit
<1> SUFFICES ASSUME FiguresInv PROVE LayoutsFit
  OBVIOUS
<1>1. ASSUME figure = "treemap" PROVE Tree!Tiling /\ Tree!CellsInside
  BY <1>1, TreeHolds DEF FiguresInv
<1>2. ASSUME figure = "room"
      PROVE  /\ \A count \in 0..5 : \A cursor \in 0..6 : RoomIsShared(Len(given), count, cursor)
             /\ \A buckets \in {<<1, 0, 2, 0, 0>>, <<3, 3, 1, 0, 5>>, <<0, 0, 0, 0, 0>>} :
                \A mean, current \in {None, 0, 10, 17, 20, 30} :
                  BarsFit(buckets, Len(given), 10, 20, mean, current)
  <2>1. given \in Seq({0}) BY <1>2, GrowsIs DEF FiguresInv
  <2>2. Len(given) \in Nat /\ Len(given) \in Int BY <2>1, SeqIs
  <2>3. \A count \in 0..5 : \A cursor \in 0..6 : RoomIsShared(Len(given), count, cursor)
    <3>1. \A c \in 0..6 : c \in Nat OBVIOUS
    <3>2. QED BY <2>2, AllRoomIsShared
  <2>4. ASSUME NEW buckets \in {<<1, 0, 2, 0, 0>>, <<3, 3, 1, 0, 5>>, <<0, 0, 0, 0, 0>>},
               NEW mean \in {None, 0, 10, 17, 20, 30}, NEW current \in {None, 0, 10, 17, 20, 30}
        PROVE  BarsFit(buckets, Len(given), 10, 20, mean, current)
    <3>1. /\ <<1, 0, 2, 0, 0>> \in Seq(Nat) /\ <<3, 3, 1, 0, 5>> \in Seq(Nat)
          /\ <<0, 0, 0, 0, 0>> \in Seq(Nat)
      OBVIOUS
    <3>2. buckets \in Seq(Nat) BY <3>1
    <3>3. /\ 10 \in Int \cup {None} /\ 20 \in Int \cup {None}
          /\ mean \in Int \cup {None} /\ current \in Int \cup {None}
      OBVIOUS
    <3>4. QED BY <2>2, <3>2, <3>3, AllBarsFit
  <2>5. QED BY <2>3, <2>4
<1>3. ASSUME figure = "stocks"
      PROVE  \A limit \in 0..3 :
               TilesAreTheGreatest([n \in DOMAIN given |->
                 [ticker |-> given[n].ticker, market_cap |-> given[n].market_cap,
                  day_pct |-> given[n].day_pct, at |-> n]], limit)
  <2> DEFINE raws == [n \in DOMAIN given |->
               [ticker |-> given[n].ticker, market_cap |-> given[n].market_cap,
                day_pct |-> given[n].day_pct, at |-> n]]
             T == {None, "t"}  F == Int \cup {None, NotFinite}
             R == [ticker : T, market_cap : F, day_pct : F, at : Nat]
  <2>1. given \in Seq(Stock) BY <1>3, GrowsIs DEF FiguresInv
  <2>2. \A s \in Stock : s.ticker \in T /\ s.market_cap \in F /\ s.day_pct \in F
    BY DEF Stock
  <2>3. Len(given) \in Nat /\ DOMAIN given = 1..Len(given) /\ \A i \in 1..Len(given) : given[i] \in Stock
    BY <2>1, SeqIs
  <2>4. raws \in [1..Len(given) -> R] BY <2>2, <2>3
  <2>5. raws \in Seq(R) /\ DOMAIN raws = 1..Len(given) BY <2>3, <2>4
  <2>6. \A i \in DOMAIN raws : raws[i].at = i BY <2>3
  <2> HIDE DEF raws, T
  <2>7. ASSUME NEW limit \in 0..3 PROVE TilesAreTheGreatest(raws, limit)
    <3>1. limit \in Nat OBVIOUS
    <3>2. QED BY <2>5, <2>6, <3>1, AllTilesGreatest
  <2>8. QED BY <2>7 DEF raws
<1>4. ASSUME figure = "chain"
      PROVE  \A selected \in 1..3 : \A width \in {43, 44} :
               ChainIsSorted([expirations |-> <<2, 1>>, contracts |-> given], selected, width)
  <2>1. given \in Seq(Contract) BY <1>4, GrowsIs DEF FiguresInv
  <2>2. Contract \subseteq [kind : {"Call", "Put"}, day : {1, 2}, strike : Int] BY DEF Contract
  <2>3. given \in Seq([kind : {"Call", "Put"}, day : {1, 2}, strike : Int]) BY <2>1, <2>2, SeqWider
  <2>4. <<2, 1>> \in Seq({1, 2}) OBVIOUS
  <2>5. \A selected \in 1..3 : selected \in Nat \ {0} OBVIOUS
  <2>6. QED BY <2>3, <2>4, <2>5, AllChainsSorted
<1>5. QED BY <1>1, <1>2, <1>3, <1>4 DEF LayoutsFit

\* In every state of the computations the treemap tiles its area and every panel
\* fits its room and shows what matters most, for any width, height and bounds
\* on the lists (squarify, rank_tiles, contracts_for_expiry, draw.rs).
THEOREM FiguresLayoutsFit == FiguresSpec => []LayoutsFit
<1>1. QED BY FiguresStart, FiguresStep, LayoutsHold, PTL DEF FiguresSpec

-----------------------------------------------------------------------------
\* A holding, an alert and a row of the ones given are what the panels take.
LEMMA RowsAre ==
  /\ Row \subseteq Quote({"a", "b"}) /\ \A r \in Row : r.previous_close \in Nat \cup {None}
  /\ Tick \subseteq Update
  /\ Alerts \in Seq([ticker : {"a", "b"}, threshold : Nat \ {0}])
  /\ Holdings \in Seq([ticker : {"a", "b"}, shares : Int, avg_cost : Int])
<1>1. Row \subseteq Quote({"a", "b"}) /\ \A r \in Row : r.previous_close \in Nat \cup {None}
  BY DEF Row, Quote, Figure
<1>2. Tick \subseteq Update BY DEF Tick, Update, Figure
<1>3. Alerts \in Seq([ticker : {"a", "b"}, threshold : Nat \ {0}])
  <2>1. /\ [ticker |-> "a", threshold |-> 2] \in [ticker : {"a", "b"}, threshold : Nat \ {0}]
        /\ [ticker |-> "b", threshold |-> 4] \in [ticker : {"a", "b"}, threshold : Nat \ {0}]
    OBVIOUS
  <2>2. QED BY <2>1 DEF Alerts
<1>4. Holdings \in Seq([ticker : {"a", "b"}, shares : Int, avg_cost : Int])
  <2>1. /\ [ticker |-> "a", shares |-> 2, avg_cost |-> 2] \in [ticker : {"a", "b"}, shares : Int, avg_cost : Int]
        /\ [ticker |-> "b", shares |-> 1, avg_cost |-> 0] \in [ticker : {"a", "b"}, shares : Int, avg_cost : Int]
    OBVIOUS
  <2>2. QED BY <2>1 DEF Holdings
<1>5. QED BY <1>1, <1>2, <1>3, <1>4

LEMMA RowsAgree ==
  ASSUME FiguresInv, figure = "rows"
  PROVE  /\ CubesAgree(given, Alerts, Holdings, 7)
         /\ TotalsAddUp(Holdings, given)
         /\ \A i \in DOMAIN given : \A tick \in Tick : TicksOnlyAdd(given[i], tick)
         /\ \A i \in DOMAIN given : \A series \in {<<>>, <<1>>, <<1, 3>>, <<2, 2>>, <<3, 1, 2>>} :
              RowsAreConsistent(given[i], series)
<1> DEFINE T == {"a", "b"}
<1>1. given \in Seq(Row) BY GrowsIs DEF FiguresInv
<1>2. given \in Seq(Quote(T)) BY <1>1, RowsAre, SeqWider
<1>3. DOMAIN given = 1..Len(given) /\ \A i \in 1..Len(given) : given[i] \in Row
  BY <1>1, SeqIs
<1>4. 7 \in Nat /\ Alerts \in Seq([ticker : T, threshold : Nat \ {0}])
      /\ Holdings \in Seq([ticker : T, shares : Int, avg_cost : Int])
  BY RowsAre
<1> HIDE DEF T
<1>5. CubesAgree(given, Alerts, Holdings, 7) BY <1>2, <1>4, AllCubesAgree
<1>6. TotalsAddUp(Holdings, given) BY <1>2, <1>4, AllTotalsAddUp
<1>7. ASSUME NEW i \in DOMAIN given, NEW tick \in Tick PROVE TicksOnlyAdd(given[i], tick)
  <2>1. given[i] \in Quote(T) /\ tick \in Update BY <1>3, RowsAre DEF T
  <2>2. QED BY <2>1, AllTicksAdd
<1>8. ASSUME NEW i \in DOMAIN given, NEW series \in {<<>>, << 1 >>, <<1, 3>>, <<2, 2>>, <<3, 1, 2>>}
      PROVE  RowsAreConsistent(given[i], series)
  <2>1. given[i] \in Quote(T) /\ given[i].previous_close \in Nat \cup {None}
    BY <1>3, RowsAre DEF T
  <2>2. /\ <<>> \in Seq(Int) /\ <<1>> \in Seq(Int) /\ <<1, 3>> \in Seq(Int)
        /\ <<2, 2>> \in Seq(Int) /\ <<3, 1, 2>> \in Seq(Int)
    OBVIOUS
  <2>3. series \in Seq(Int) BY <2>2
  <2>4. QED BY <2>1, <2>3, AllRowsConsistent
<1>9. QED BY <1>5, <1>6, <1>7, <1>8

LEMMA ClosesAgree ==
  ASSUME FiguresInv, figure = "closes"
  PROVE  /\ \A cap \in {0, 3} : SparksFollow(given, 3, cap)
         /\ ChartsHoldTheirData([n \in DOMAIN given |->
              [low |-> given[n] - (n % 2), close |-> given[n], high |-> given[n] + (n % 3)]])
         /\ HistoryIsShown([n \in DOMAIN given |-> [value |-> given[n], basis |-> n % 3]])
         /\ RevenueBarsCompare([n \in DOMAIN given |-> IF given[n] = 2 THEN None ELSE given[n]])
         /\ \A keep \in {0, 2} : \A estimate, actual \in {None, NotFinite, -2, 0, 3} :
              EarningsAreNewest(given, keep, estimate, actual, 2)
<1>1. given \in Seq({1, 2, 4}) BY GrowsIs DEF FiguresInv
<1>2. given \in Seq(Int)
  <2>1. {1, 2, 4} \subseteq Int OBVIOUS
  <2>2. QED BY <1>1, <2>1, SeqWider
<1>3. /\ Len(given) \in Nat /\ DOMAIN given = 1..Len(given)
      /\ \A n \in 1..Len(given) : given[n] \in Nat /\ n % 2 \in Nat /\ n % 3 \in Nat
  <2>1. \A n \in Nat : n % 2 \in 0..1 /\ n % 3 \in 0..2 OBVIOUS
  <2>2. Len(given) \in Nat /\ DOMAIN given = 1..Len(given)
        /\ \A n \in 1..Len(given) : given[n] \in {1, 2, 4}
    BY <1>1, SeqIs
  <2>3. QED BY <2>1, <2>2
<1>4. \A cap \in {0, 3} : SparksFollow(given, 3, cap)
  <2>1. 3 \in Nat /\ \A cap \in {0, 3} : cap \in Nat OBVIOUS
  <2>2. QED BY <2>1, <1>2, AllSparksFollow
<1>5. ChartsHoldTheirData([n \in DOMAIN given |->
        [low |-> given[n] - (n % 2), close |-> given[n], high |-> given[n] + (n % 3)]])
  <2> DEFINE candle(n) == [low |-> given[n] - (n % 2), close |-> given[n], high |-> given[n] + (n % 3)]
             candles == [n \in DOMAIN given |-> candle(n)]
  <2>1. ASSUME NEW n \in 1..Len(given) PROVE candle(n) \in Candle
    <3>1. given[n] \in Nat /\ n % 2 \in Nat /\ n % 3 \in Nat BY <1>3
    <3>2. QED BY <3>1 DEF Candle
  <2> HIDE DEF candle
  <2>2. candles \in Seq(Candle) BY <2>1, <1>3
  <2> HIDE DEF candles
  <2>3. ChartsHoldTheirData(candles) BY <2>2, AllChartsHold
  <2>4. QED BY <2>3 DEF candles, candle
<1>6. HistoryIsShown([n \in DOMAIN given |-> [value |-> given[n], basis |-> n % 3]])
  <2> DEFINE history == [n \in DOMAIN given |-> [value |-> given[n], basis |-> n % 3]]
  <2>1. \A n \in 1..Len(given) : [value |-> given[n], basis |-> n % 3] \in [value : Int, basis : Int]
    BY <1>3
  <2>2. history \in Seq([value : Int, basis : Int]) BY <2>1, <1>3
  <2> HIDE DEF history
  <2>3. HistoryIsShown(history) BY <2>2, AllHistoryShown
  <2>4. QED BY <2>3 DEF history
<1>7. RevenueBarsCompare([n \in DOMAIN given |-> IF given[n] = 2 THEN None ELSE given[n]])
  <2> DEFINE revenue == [n \in DOMAIN given |-> IF given[n] = 2 THEN None ELSE given[n]]
  <2>1. \A n \in 1..Len(given) : (IF given[n] = 2 THEN None ELSE given[n]) \in Figure
    BY <1>3 DEF Figure
  <2>2. revenue \in Seq(Figure) BY <2>1, <1>3
  <2> HIDE DEF revenue
  <2>3. RevenueBarsCompare(revenue) BY <2>2, AllBarsCompare
  <2>4. QED BY <2>3 DEF revenue
<1>8. ASSUME NEW keep \in {0, 2}, NEW estimate \in {None, NotFinite, -2, 0, 3},
             NEW actual \in {None, NotFinite, -2, 0, 3}
      PROVE  EarningsAreNewest(given, keep, estimate, actual, 2)
  <2>1. keep \in Nat /\ estimate \in Figure \cup {NotFinite} /\ actual \in Figure \cup {NotFinite} /\ 2 \in Int BY DEF Figure
  <2>2. QED BY <2>1, <1>2, AllEarningsNewest
<1>9. QED BY <1>4, <1>5, <1>6, <1>7, <1>8

LEMMA TypedAgree ==
  ASSUME FiguresInv, figure = "typed"
  PROVE  EntriesAreSound(given)
<1>1. given \in Seq(Field) BY GrowsIs DEF FiguresInv
<1> DEFINE K == {"word", "not finite"} \cup {"number"}
<1>2. Field \subseteq [kind : K, value : Int]
  <2> DEFINE A == {"word", "not finite"}  B == {"number"}
  <2>1. Field = [kind : A, value : {0}] \cup [kind : B, value : {-1, 0, 2}] BY DEF Field
  <2>2. A \subseteq K /\ B \subseteq K /\ {0} \subseteq Int /\ {-1, 0, 2} \subseteq Int OBVIOUS
  <2> HIDE DEF A, B, K
  <2>3. QED BY <2>1, <2>2
<1>3. given \in Seq([kind : K, value : Int]) BY <1>1, <1>2, SeqWider
<1>4. QED BY <1>3, AllEntriesSound

LEMMA LettersAgree ==
  ASSUME FiguresInv, figure = "letters"
  PROVE  \A query \in Texts(2) : SearchIsComplete(given, query)
<1>1. given \in Seq(Letters) BY GrowsIs DEF FiguresInv
<1>2. ASSUME NEW query \in Texts(2) PROVE query \in Seq(Letters)
  <2>1. PICK m \in 0..2 : query \in [1..m -> Letters] BY <1>2 DEF Texts
  <2>2. QED BY <2>1
<1>3. QED BY <1>1, <1>2, AllSearchesComplete

LEMMA FiguresHold == FiguresInv => FiguresAgree
BY RowsAgree, ClosesAgree, TypedAgree, LettersAgree DEF FiguresAgree

\* In every state of the computations, for any bounds on the lists, what is computed
\* is what FiguresAgree says of its inputs: of the cubes, the totals, ticks, rows,
\* sparklines, charts, histories, earnings, entries and searches (draw.rs,
\* portfolio.rs, models/quote.rs, search.rs).
THEOREM FiguresAllAgree == FiguresSpec => []FiguresAgree
<1>1. QED BY FiguresStart, FiguresStep, FiguresHold, PTL DEF FiguresSpec

-----------------------------------------------------------------------------
(***************************************************************************)
(* The solver                                                              *)
(***************************************************************************)
\* The bracket holds every root and the volatility tried next; it is the
\* premiums not falling that lets one comparison cut off half of it.
SolverInv ==
  /\ given \in [bid : {None, 0, 2}, ask : {None, 4}, last : {None, 1, Premiums + 1},
                   iv : {None, 0, 1}, t : {0, 1}, spot : {None, 1}]
  /\ work \in [0..Points -> Int] /\ \A s \in 1..Points : work[s - 1] <= work[s]
  /\ first \in 0..Points /\ second \in 0..Points /\ guess \in 0..Points
  /\ status = "solving" =>
       /\ Solver!Market # None /\ first <= guess /\ guess <= second
       /\ \A s \in 0..Points : Solver!diff(s) = 0 => first <= s /\ s <= second
  /\ status \in {"given", "found", "solving"} => given.spot # None /\ given.t > 0
  /\ status = "found" => Solver!Market # None /\ 2 * work[guess] = Solver!Market

LEMMA SolverMarket ==
  ASSUME given \in [bid : {None, 0, 2}, ask : {None, 4}, last : {None, 1, Premiums + 1},
                    iv : {None, 0, 1}, t : {0, 1}, spot : {None, 1}]
  PROVE  /\ Solver!Market \in Int \cup {None}
         /\ None \notin Int
         /\ given.spot # None => given.spot = 1
         /\ given.t \in {0, 1}
<1>1. None \notin Int /\ Premiums \in Nat BY FiguresAssumption
<1>2. /\ given.bid \in {None, 0, 2} /\ given.ask \in {None, 4} /\ given.last \in {None, 1, Premiums + 1}
      /\ given.t \in {0, 1} /\ given.spot \in {None, 1}
  OBVIOUS
<1>3. Solver!Market \in Int \cup {None}
  BY <1>1, <1>2 DEF Solver!Market, Solver!contract_market_price
<1>4. QED BY <1>1, <1>2, <1>3

LEMMA Unfalling ==
  ASSUME NEW n \in Nat, NEW p \in [0..n -> Int], \A s \in 1..n : p[s - 1] <= p[s],
         NEW a \in 0..n, NEW b \in a..n
  PROVE  p[a] <= p[b]
<1> DEFINE Good == {j \in 0..(b - a) : p[a] <= p[a + j]}
<1>1. 0 \in Good OBVIOUS
<1>2. ASSUME NEW j \in 1..(b - a), j - 1 \in Good PROVE j \in Good
  <2>1. a + j \in 1..n /\ (a + j) - 1 = a + (j - 1) /\ a + j \in 0..n /\ a + (j - 1) \in 0..n OBVIOUS
  <2>2. p[a + (j - 1)] <= p[a + j] BY <2>1
  <2>3. p[a] <= p[a + (j - 1)] BY <1>2
  <2>4. p[a] \in Int /\ p[a + j] \in Int /\ p[a + (j - 1)] \in Int BY <2>1
  <2>5. QED BY <2>2, <2>3, <2>4
<1>3. b - a \in Nat /\ b - a \in 0..(b - a) /\ a + (b - a) = b OBVIOUS
<1>4. b - a \in Good
  <2> HIDE DEF Good
  <2>1. 0..(b - a) \subseteq Good BY <1>1, <1>2, <1>3, UptoInduction
  <2>2. QED BY <2>1, <1>3
<1>5. QED BY <1>3, <1>4

LEMMA SolverStarts ==
  ASSUME Solver!Init
  PROVE  SolverInv
<1>0. Points \in Nat /\ Premiums \in Nat BY FiguresAssumption
<1>1. given \in [bid : {None, 0, 2}, ask : {None, 4}, last : {None, 1, Premiums + 1},
                 iv : {None, 0, 1}, t : {0, 1}, spot : {None, 1}]
  BY DEF Solver!Init
<1>2. work \in [0..Points -> Int] /\ \A s \in 1..Points : work[s - 1] <= work[s]
  <2>1. work \in {p \in [0..Points -> 0..Premiums] : \A s \in 1..Points : p[s - 1] <= p[s]}
    BY DEF Solver!Init, Solver!Sigma
  <2>2. 0..Premiums \subseteq Int OBVIOUS
  <2>3. QED BY <2>1, <2>2
<1>3. first = 0 /\ second = Points /\ guess \in 0..Points BY DEF Solver!Init, Solver!Sigma
<1>4. ASSUME status \in {"given", "found", "solving"}
      PROVE  given.spot # None /\ given.t > 0 /\ status # "found"
             /\ (status = "solving" => Solver!Market # None)
  <2>1. status =
       IF given.spot = None THEN "no price"
       ELSE IF given.iv # None /\ given.iv > 0
              THEN IF Solver!ValidInputs(given) THEN "given" ELSE "invalid"
       ELSE IF Solver!Market = None THEN "no price"
       ELSE IF ~Solver!ValidInputs(given) THEN "invalid"
       ELSE IF Solver!Market < 2 * work[0] \/ Solver!Market > 2 * Premiums THEN "out of bounds"
       ELSE "solving"
    BY DEF Solver!Init
  <2>2. QED BY <2>1, <1>4 DEF Solver!ValidInputs
<1>5. first \in 0..Points /\ second \in 0..Points /\ first <= guess /\ guess <= second
      /\ \A s \in 0..Points : first <= s /\ s <= second
  BY <1>0, <1>3
<1>6. QED BY <1>1, <1>2, <1>3, <1>4, <1>5 DEF SolverInv

LEMMA SolverSteps ==
  ASSUME SolverInv, Solver!Next
  PROVE  SolverInv'
<1>0. Points \in Nat /\ Premiums \in Nat BY FiguresAssumption
<1>1. /\ Solver!Market \in Int \cup {None} /\ None \notin Int
      /\ given.t \in {0, 1}
      /\ first \in Int /\ second \in Int /\ guess \in Int
      /\ first \in 0..Points /\ second \in 0..Points /\ guess \in 0..Points
      /\ work \in [0..Points -> Int] /\ \A s \in 1..Points : work[s - 1] <= work[s]
  BY SolverMarket DEF SolverInv
<1>2. ASSUME given' = given, work' = work
      PROVE  (Solver!Market)' = Solver!Market /\ \A s : (Solver!diff(s))' = Solver!diff(s)
  BY <1>2 DEF Solver!Market, Solver!contract_market_price, Solver!diff
<1>3. CASE Solver!Converge
  <2>1. /\ given' = given /\ work' = work /\ first' = first /\ second' = second /\ guess' = guess
        /\ status = "solving" /\ status' = "found" /\ Solver!diff(guess) = 0
    BY <1>3 DEF Solver!Converge
  <2>2. Solver!Market # None /\ given.spot # None /\ given.t > 0 BY <2>1 DEF SolverInv
  <2>3. 2 * work[guess] = Solver!Market
    <3>1. 2 * work[guess] - Solver!Market = 0 BY <2>1 DEF Solver!diff
    <3>2. work[guess] \in Int /\ Solver!Market \in Int BY <1>1, <2>2
    <3>3. QED BY <3>1, <3>2
  <2>4. (Solver!Market)' = Solver!Market BY <2>1, <1>2
  <2>5. QED BY <2>1, <2>2, <2>3, <2>4 DEF SolverInv
<1>4. CASE Solver!GiveUp
  <2>1. /\ given' = given /\ work' = work /\ first' = first /\ second' = second /\ guess' = guess
        /\ status' = "did not converge"
    BY <1>4 DEF Solver!GiveUp
  <2>2. QED BY <2>1 DEF SolverInv
<1>5. ASSUME NEW next \in -1..(Points + 1), Solver!Iterate(next) PROVE SolverInv'
  <2>1. /\ given' = given /\ work' = work /\ status' = status
        /\ status = "solving" /\ Solver!diff(guess) # 0 /\ Solver!Bracket(guess)
        /\ guess' = Solver!Improved(next, first', second')
    BY <1>5 DEF Solver!Iterate
  <2>2. /\ Solver!Market # None /\ first <= guess /\ guess <= second
        /\ \A s \in 0..Points : Solver!diff(s) = 0 => first <= s /\ s <= second
        /\ given.spot # None /\ given.t > 0
    BY <2>1 DEF SolverInv
  <2>3. Solver!Market \in Int BY <1>1, <2>2
  <2>4. ASSUME NEW s \in 0..Points
        PROVE  Solver!diff(s) \in Int /\ Solver!diff(s) = 2 * work[s] - Solver!Market
    BY <1>1, <2>3 DEF Solver!diff
  <2>5. \A s \in 0..Points : Solver!diff(s) = 0 => first' <= s /\ s <= second'
    <3> SUFFICES ASSUME NEW s \in 0..Points, Solver!diff(s) = 0
                 PROVE  first' <= s /\ s <= second'
      OBVIOUS
    <3>1. first <= s /\ s <= second BY <2>2
    <3>2. work[s] \in Int /\ work[guess] \in Int /\ 2 * work[s] - Solver!Market = 0
          /\ Solver!diff(guess) = 2 * work[guess] - Solver!Market
      BY <1>1, <2>4
    <3>3. CASE Solver!diff(guess) > 0
      <4>1. first' = first /\ second' = guess BY <3>3, <2>1 DEF Solver!Bracket
      <4>2. ~(work[guess] <= work[s]) BY <3>2, <3>3, <2>3
      <4>3. ~(guess <= s)
        <5>1. SUFFICES ASSUME guess <= s PROVE work[guess] <= work[s] BY <4>2
        <5>2. s \in guess..Points /\ guess \in 0..Points BY <5>1, <1>1, <1>0
        <5>3. QED BY <5>2, <1>0, <1>1, Unfalling
      <4>4. QED BY <4>1, <4>3, <3>1, <1>1
    <3>4. CASE ~(Solver!diff(guess) > 0)
      <4>1. first' = guess /\ second' = second BY <3>4, <2>1 DEF Solver!Bracket
      <4>2. ~(work[s] <= work[guess])
        BY <3>2, <3>4, <2>1, <2>3
      <4>3. ~(s <= guess)
        <5>1. SUFFICES ASSUME s <= guess PROVE work[s] <= work[guess] BY <4>2
        <5>2. guess \in s..Points /\ s \in 0..Points BY <5>1, <1>1, <1>0
        <5>3. QED BY <5>2, <1>0, <1>1, Unfalling
      <4>4. QED BY <4>1, <4>3, <3>1, <1>1
    <3>5. QED BY <3>3, <3>4
  <2>6. /\ first' \in 0..Points /\ second' \in 0..Points /\ first' <= second'
    BY <2>1, <2>2, <1>1 DEF Solver!Bracket
  <2>7. guess' \in 0..Points /\ first' <= guess' /\ guess' <= second'
    <3> DEFINE low == first'  high == second'  mid == (low + high) \div 2
    <3>1. low \in Int /\ high \in Int /\ low <= high /\ 0 <= low /\ high <= Points BY <2>6
    <3>2. guess' = IF low < next /\ next < high THEN next ELSE mid BY <2>1 DEF Solver!Improved
    <3> HIDE DEF low, high
    <3>3. mid \in Int /\ low <= mid /\ mid <= high
      <4>1. low + high \in Int /\ 2 \in Nat \ {0} BY <3>1
      <4>2. mid \in Int /\ \A z \in Int : z <= mid <=> z * 2 <= low + high BY <4>1, DivIs
      <4>3. low <= mid BY <4>2, <3>1
      <4>4. mid <= high
        <5>1. high + 1 \in Int /\ ~((high + 1) * 2 <= low + high) BY <3>1
        <5>2. ~(high + 1 <= mid) BY <5>1, <4>2
        <5> HIDE DEF mid
        <5>3. QED BY <5>2, <4>2, <3>1
      <4>5. QED BY <4>2, <4>3, <4>4
    <3> HIDE DEF mid
    <3>4. guess' \in Int /\ low <= guess' /\ guess' <= high BY <3>1, <3>2, <3>3
    <3>5. QED BY <3>1, <3>4, <1>0 DEF low, high
  <2>8. (Solver!Market)' = Solver!Market /\ \A s : (Solver!diff(s))' = Solver!diff(s)
    BY <2>1, <1>2
  <2>9. QED BY <2>1, <2>2, <2>5, <2>6, <2>7, <2>8, <1>1 DEF SolverInv
<1>6. QED BY <1>3, <1>4, <1>5 DEF Solver!Next

LEMMA SolverHolds ==
  ASSUME SolverInv
  PROVE  Solver!RootStaysInBracket /\ Solver!FiguresAreSound
BY DEF SolverInv, Solver!RootStaysInBracket, Solver!FiguresAreSound, Solver!Sigma

\* The solver cuts off no volatility that prices the contract at its market
\* price, wherever Newton's method lands (implied_volatility).
THEOREM SolverKeepsItsRoot ==
  Solver!Init /\ [][Solver!Next]_(<<given, work, first, second, guess, step, status>>)
    => [](Solver!RootStaysInBracket /\ Solver!FiguresAreSound)
<1>1. Solver!Init => SolverInv BY SolverStarts
<1>2. SolverInv /\ [Solver!Next]_(<<given, work, first, second, guess, step, status>>) => SolverInv'
  <2> SUFFICES ASSUME SolverInv,
                      [Solver!Next]_(<<given, work, first, second, guess, step, status>>)
               PROVE  SolverInv'
    OBVIOUS
  <2>1. CASE Solver!Next BY <2>1, SolverSteps
  <2>2. CASE UNCHANGED <<given, work, first, second, guess, step, status>>
    <3>1. (Solver!Market)' = Solver!Market /\ \A s : (Solver!diff(s))' = Solver!diff(s)
      BY <2>2 DEF Solver!Market, Solver!contract_market_price, Solver!diff
    <3>2. QED BY <2>2, <3>1 DEF SolverInv
  <2>3. QED BY <2>1, <2>2
<1>3. QED BY <1>1, <1>2, SolverHolds, PTL
=============================================================================
