-------------------------- MODULE QuotesTableProofs -------------------------
(***************************************************************************)
(* Proofs about the quotes table, for any tickers, sorts, queries, page    *)
(* sizes and bounds.                                                       *)
(***************************************************************************)
EXTENDS MCQuotesTable, WellFoundedInduction, TLAPS

-----------------------------------------------------------------------------
(***************************************************************************)
(* Select                                                                  *)
(***************************************************************************)
\* A set of natural numbers that is not empty has a least element.
LEMMA NatMin ==
  ASSUME NEW S \in SUBSET Nat, S # {}
  PROVE  \E m \in S : \A n \in S : m <= n
<1>1. PICK m \in S : \A n \in S : ~(<<n, m>> \in OpToRel(<, Nat))
  BY NatLessThanWellFounded, WFMin, Zenon
<1>2. \A n \in S : ~(n < m)
  BY <1>1 DEF OpToRel
<1>3. QED BY <1>2

\* f follows the recursion of Select for the first n elements.
IsKept(f, seq, S, n) ==
  f = [i \in 0..n |->
         IF i = 0 THEN <<>>
         ELSE IF seq[i] \in S THEN Append(f[i - 1], seq[i]) ELSE f[i - 1]]

LEMMA KeptValues ==
  ASSUME NEW f, NEW seq, NEW S, NEW n \in Nat, IsKept(f, seq, S, n), NEW i \in 0..n
  PROVE  /\ i = 0 => f[i] = <<>>
         /\ i # 0 /\ seq[i] \in S => f[i] = Append(f[i - 1], seq[i])
         /\ i # 0 /\ seq[i] \notin S => f[i] = f[i - 1]
BY DEF IsKept

LEMMA KeptSteps ==
  ASSUME NEW f, NEW seq, NEW S, NEW n \in Nat, IsKept(f, seq, S, n)
  PROVE  /\ f[0] = <<>>
         /\ \A i \in 1..n :
              f[i] = IF seq[i] \in S THEN Append(f[i - 1], seq[i]) ELSE f[i - 1]
<1>1. f[0] = <<>> BY KeptValues
<1>2. ASSUME NEW i \in 1..n
      PROVE  f[i] = IF seq[i] \in S THEN Append(f[i - 1], seq[i]) ELSE f[i - 1]
  <2>1. i \in 0..n /\ i # 0 OBVIOUS
  <2>2. QED BY <2>1, KeptValues
<1>3. QED BY <1>1, <1>2

LEMMA KeptExists ==
  ASSUME NEW seq, NEW S, NEW n \in Nat
  PROVE  \E f : IsKept(f, seq, S, n)
<1> DEFINE Bad == {m \in Nat : ~\E f : IsKept(f, seq, S, m)}
<1>1. SUFFICES ASSUME Bad # {} PROVE FALSE
  OBVIOUS
<1>2. PICK m \in Bad : \A k \in Bad : m <= k
  BY <1>1, NatMin
<1>3. m # 0
  <2> DEFINE f == [i \in 0..0 |-> <<>>]
  <2>1. IsKept(f, seq, S, 0) BY DEF IsKept
  <2>2. QED BY <2>1
<1>4. PICK g : IsKept(g, seq, S, m - 1)
  BY <1>2, <1>3
<1> DEFINE top == IF seq[m] \in S THEN Append(g[m - 1], seq[m]) ELSE g[m - 1]
<1>f. PICK f : f = [i \in 0..m |-> IF i = m THEN top ELSE g[i]]
  OBVIOUS
<1>5. \A i \in 0..m-1 : f[i] = g[i]
  BY <1>3, <1>f
<1>6. \A i \in 0..m : f[i] = IF i = 0 THEN <<>>
                             ELSE IF seq[i] \in S THEN Append(f[i - 1], seq[i])
                             ELSE f[i - 1]
  <2> SUFFICES ASSUME NEW i \in 0..m
               PROVE  f[i] = IF i = 0 THEN <<>>
                             ELSE IF seq[i] \in S THEN Append(f[i - 1], seq[i])
                             ELSE f[i - 1]
    OBVIOUS
  <2>1. CASE i = m
    <3>1. f[m] = top /\ f[m - 1] = g[m - 1] BY <1>3, <1>5, <1>f
    <3>2. QED BY <2>1, <3>1, <1>3
  <2>2. CASE i # m
    <3>1. f[i] = g[i] /\ (i # 0 => f[i - 1] = g[i - 1]) BY <2>2, <1>5
    <3>2. g[i] = IF i = 0 THEN <<>>
                 ELSE IF seq[i] \in S THEN Append(g[i - 1], seq[i]) ELSE g[i - 1]
      <4>1. m - 1 \in Nat /\ i \in 0..m-1 BY <1>3, <2>2
      <4>2. QED BY <1>4, <4>1, KeptValues
    <3>3. QED BY <3>1, <3>2
  <2>3. QED BY <2>1, <2>2
<1>7. IsKept(f, seq, S, m)
  <2>1. f = [i \in 0..m |-> f[i]] BY <1>f
  <2>2. QED BY <1>6, <2>1 DEF IsKept
<1>8. QED BY <1>7

\* Select is the last value of such a function.
LEMMA SelectKept ==
  ASSUME NEW T, NEW seq \in Seq(T), NEW S
  PROVE  \E f : IsKept(f, seq, S, Len(seq)) /\ Select(seq, S) = f[Len(seq)]
<1> DEFINE f == CHOOSE f : IsKept(f, seq, S, Len(seq))
<1>1. IsKept(f, seq, S, Len(seq))
  BY KeptExists
<1>2. Select(seq, S) = f[Len(seq)]
  BY DEF Select, IsKept
<1>3. QED BY <1>1, <1>2

\* One more element at the end, or at the front.
LEMMA AppendIs ==
  ASSUME NEW T, NEW old \in Seq(T), NEW x \in T
  PROVE  /\ Append(old, x) \in Seq(T)
         /\ ToSet(Append(old, x)) = ToSet(old) \cup {x}
         /\ IsInjective(old) /\ x \notin ToSet(old) => IsInjective(Append(old, x))
<1>1. /\ Append(old, x) \in Seq(T) /\ Len(Append(old, x)) = Len(old) + 1
      /\ \A i \in 1..Len(old) : Append(old, x)[i] = old[i]
      /\ Append(old, x)[Len(old) + 1] = x
  OBVIOUS
<1>2. ToSet(Append(old, x)) = ToSet(old) \cup {x}
  BY <1>1 DEF ToSet
<1>3. ASSUME IsInjective(old), x \notin ToSet(old),
             NEW a \in 1..Len(old) + 1, NEW b \in 1..Len(old) + 1,
             Append(old, x)[a] = Append(old, x)[b]
      PROVE  a = b
  BY <1>1, <1>3 DEF IsInjective, ToSet
<1>4. QED BY <1>1, <1>2, <1>3 DEF IsInjective

LEMMA PrependIs ==
  ASSUME NEW T, NEW old \in Seq(T), NEW x \in T,
         IsInjective(old), x \notin ToSet(old)
  PROVE  <<x>> \o old \in Seq(T) /\ IsInjective(<<x>> \o old)
<1> DEFINE new == <<x>> \o old
<1>1. /\ new \in Seq(T) /\ Len(new) = Len(old) + 1 /\ new[1] = x
      /\ \A i \in 2..Len(old) + 1 : new[i] = old[i - 1]
  OBVIOUS
<1> HIDE DEF new
<1>2. ASSUME NEW a \in 1..Len(old) + 1, NEW b \in 1..Len(old) + 1, new[a] = new[b]
      PROVE  a = b
  BY <1>1, <1>2 DEF IsInjective, ToSet
<1>3. QED BY <1>1, <1>2 DEF new, IsInjective

\* It keeps exactly the elements in the set, and none twice if none was.
LEMMA SelectIs ==
  ASSUME NEW T, NEW seq \in Seq(T), NEW S
  PROVE  /\ Select(seq, S) \in Seq(T)
         /\ ToSet(Select(seq, S)) = ToSet(seq) \cap S
         /\ IsInjective(seq) => IsInjective(Select(seq, S))
<1>1. PICK f : IsKept(f, seq, S, Len(seq)) /\ Select(seq, S) = f[Len(seq)]
  BY SelectKept
<1> DEFINE First(i) == {seq[j] : j \in 1..i} \cap S
           Good(i) == /\ f[i] \in Seq(T) /\ ToSet(f[i]) = First(i)
                      /\ IsInjective(seq) => IsInjective(f[i])
           Bad == {i \in 0..Len(seq) : ~Good(i)}
<1>n. Len(seq) \in Nat
  OBVIOUS
<1>2. f[0] = <<>> /\ \A i \in 1..Len(seq) :
        f[i] = IF seq[i] \in S THEN Append(f[i - 1], seq[i]) ELSE f[i - 1]
  BY <1>1, <1>n, KeptSteps
<1>3. Bad = {}
  <2>1. SUFFICES ASSUME Bad # {} PROVE FALSE
    OBVIOUS
  <2>b. Bad \in SUBSET Nat BY <1>n
  <2> HIDE DEF Bad
  <2>2. PICK m \in Bad : \A k \in Bad : m <= k
    BY <2>1, <2>b, NatMin
  <2> USE DEF Bad
  <2>3. Good(0)
    BY <1>2 DEF ToSet, IsInjective
  <2>4. m \in 1..Len(seq) /\ m - 1 \in 0..Len(seq) BY <2>2, <2>3
  <2>5. Good(m - 1)
    <3> HIDE DEF Good
    <3>1. m - 1 \notin Bad
      <4> HIDE DEF Bad
      <4>1. m - 1 \in Bad => m <= m - 1 BY <2>2
      <4>2. QED BY <2>4, <4>1
    <3>2. QED BY <2>4, <3>1
  <2>6. seq[m] \in T BY <2>4
  <2>7. First(m) = First(m - 1) \cup ({seq[m]} \cap S)
    BY <2>4
  <2>8. IsInjective(seq) => seq[m] \notin First(m - 1)
    BY <2>4 DEF IsInjective
  <2> HIDE DEF First
  <2>9. CASE seq[m] \in S
    <3>1. f[m] = Append(f[m - 1], seq[m]) BY <1>2, <2>4, <2>9
    <3>2. /\ f[m] \in Seq(T) /\ ToSet(f[m]) = ToSet(f[m - 1]) \cup {seq[m]}
          /\ IsInjective(f[m - 1]) /\ seq[m] \notin ToSet(f[m - 1]) => IsInjective(f[m])
      BY <2>5, <2>6, <3>1, AppendIs
    <3>3. QED BY <2>2, <2>5, <2>7, <2>8, <2>9, <3>2
  <2>10. CASE seq[m] \notin S
    <3>1. f[m] = f[m - 1] BY <1>2, <2>4, <2>10
    <3>2. QED BY <2>2, <2>5, <2>7, <2>10, <3>1
  <2>11. QED BY <2>9, <2>10
<1>4. Good(Len(seq))
  <2> HIDE DEF Good
  <2>1. QED BY <1>3, <1>n
<1>5. First(Len(seq)) = ToSet(seq) \cap S BY DEF ToSet
<1>6. QED BY <1>1, <1>4, <1>5

\* Only what the sequence and the set have in common matters.
LEMMA SelectSame ==
  ASSUME NEW T, NEW seq \in Seq(T), NEW S, NEW U,
         \A x \in ToSet(seq) : x \in S <=> x \in U
  PROVE  Select(seq, S) = Select(seq, U)
<1>1. PICK f : IsKept(f, seq, S, Len(seq)) /\ Select(seq, S) = f[Len(seq)]
  BY SelectKept
<1>2. PICK g : IsKept(g, seq, U, Len(seq)) /\ Select(seq, U) = g[Len(seq)]
  BY SelectKept
<1> DEFINE Bad == {i \in 0..Len(seq) : f[i] # g[i]}
<1>n. Len(seq) \in Nat
  OBVIOUS
<1>3. f[0] = <<>> /\ \A i \in 1..Len(seq) :
        f[i] = IF seq[i] \in S THEN Append(f[i - 1], seq[i]) ELSE f[i - 1]
  BY <1>1, <1>n, KeptSteps
<1>4. g[0] = <<>> /\ \A i \in 1..Len(seq) :
        g[i] = IF seq[i] \in U THEN Append(g[i - 1], seq[i]) ELSE g[i - 1]
  BY <1>2, <1>n, KeptSteps
<1>5. Bad = {}
  <2>1. SUFFICES ASSUME Bad # {} PROVE FALSE
    OBVIOUS
  <2>b. Bad \in SUBSET Nat BY <1>n
  <2> HIDE DEF Bad
  <2>2. PICK m \in Bad : \A k \in Bad : m <= k
    BY <2>1, <2>b, NatMin
  <2> USE DEF Bad
  <2>3. m \in 1..Len(seq) /\ m - 1 \in 0..Len(seq) BY <2>2, <1>3, <1>4
  <2>4. f[m - 1] = g[m - 1] BY <2>2, <2>3
  <2>5. seq[m] \in ToSet(seq) BY <2>3 DEF ToSet
  <2>6. QED BY <2>2, <2>3, <2>4, <2>5, <1>3, <1>4
<1>6. QED BY <1>1, <1>2, <1>5

-----------------------------------------------------------------------------
(***************************************************************************)
(* Pages                                                                   *)
(***************************************************************************)
LEMMA DivMod ==
  ASSUME NEW a \in Nat, NEW b \in Nat \ {0}
  PROVE  /\ a \div b \in Nat /\ a % b \in 0..b-1
         /\ a = b * (a \div b) + (a % b)
<1>1. a \div b \in Int /\ a % b \in 0..b-1
  OBVIOUS
<1>2. a = b * (a \div b) + (a % b)
  OBVIOUS
<1>3. a \div b >= 0
  <2> DEFINE q == a \div b  r == a % b
  <2>1. q \in Int /\ r \in 0..b-1 /\ a = b * q + r BY <1>1, <1>2
  <2> HIDE DEF q, r
  <2>2. SUFFICES ASSUME q < 0 PROVE FALSE BY <2>1 DEF q
  <2>3. PICK k \in Nat : q = -1 - k BY <2>1, <2>2
  <2>4. b * q = -b - b * k /\ b * k \in Nat BY <2>3
  <2>5. QED BY <2>1, <2>4
<1>4. QED BY <1>1, <1>2, <1>3

\* The pages that exist are the first and those with rows.
LEMMA PageExists ==
  ASSUME NEW n \in Nat, NEW size \in Nat \ {0}, NEW p \in Nat
  PROVE  /\ TotalPages(n, size) \in Nat \ {0}
         /\ p < TotalPages(n, size) <=> p = 0 \/ p * size < n
<1>1. CASE n = 0
  <2>1. p * size >= 0 OBVIOUS
  <2>2. QED BY <1>1, <2>1 DEF TotalPages
<1>2. CASE n # 0
  <2> DEFINE q == (n + size - 1) \div size  r == (n + size - 1) % size
  <2>1. q \in Nat /\ r \in 0..size-1 /\ n + size - 1 = size * q + r
    <3>1. n + size - 1 \in Nat BY <1>2
    <3>2. QED BY <3>1, DivMod
  <2>2. TotalPages(n, size) = q BY <1>2 DEF TotalPages
  <2> HIDE DEF q, r
  <2>3. n - 1 = size * q + r - size /\ size * q \in Nat BY <2>1
  <2>4. q # 0
    <3>1. SUFFICES ASSUME q = 0 PROVE FALSE
      OBVIOUS
    <3>2. size * q = 0 BY <3>1
    <3>3. QED BY <3>2, <2>1, <1>2
  <2>5. ASSUME p < q PROVE p * size < n
    <3>1. PICK k \in Nat : q = p + 1 + k BY <2>1, <2>5
    <3>2. size * q = p * size + size + size * k /\ size * k \in Nat /\ p * size \in Nat
      BY <3>1
    <3>3. QED BY <3>2, <2>3, <2>1
  <2>6. ASSUME ~(p < q) PROVE ~(p * size < n)
    <3>1. PICK k \in Nat : p = q + k BY <2>1, <2>6
    <3>2. p * size = size * q + size * k /\ size * k \in Nat /\ p * size \in Nat
      BY <2>1, <3>1
    <3>3. QED BY <3>2, <2>3, <2>1
  <2>7. p = 0 => p * size < n BY <1>2
  <2>8. QED BY <2>1, <2>2, <2>4, <2>5, <2>6, <2>7
<1>3. QED BY <1>1, <1>2

\* The shape of the view: two lists without duplicates and a page.
ShapeOK ==
  /\ allRows \in Seq(Ticker) /\ IsInjective(allRows)
  /\ rows \in Seq(Ticker) /\ IsInjective(rows)
  /\ page \in Nat /\ pageSize \in Sizes

LEMMA SizesPositive == pageSize \in Sizes => pageSize \in Nat \ {0}
BY TableAssumption

\* The window is a part of the rows, and the page's own part if it exists.
LEMMA WindowIs ==
  ShapeOK =>
    /\ WindowStart \in 0..Len(rows) /\ WindowEnd \in WindowStart..Len(rows)
    /\ WindowLen \in Nat
    /\ Window \subseteq ToSet(rows) /\ ToSet(rows) \subseteq Ticker
    /\ page < TotalPages(Len(rows), pageSize) /\ rows # <<>> =>
         /\ WindowStart = page * pageSize /\ WindowStart < Len(rows)
         /\ WindowLen = Least(pageSize, Len(rows) - page * pageSize)
         /\ WindowLen > 0
<1> SUFFICES ASSUME ShapeOK
             PROVE  /\ WindowStart \in 0..Len(rows) /\ WindowEnd \in WindowStart..Len(rows)
                    /\ WindowLen \in Nat
                    /\ Window \subseteq ToSet(rows) /\ ToSet(rows) \subseteq Ticker
                    /\ page < TotalPages(Len(rows), pageSize) /\ rows # <<>> =>
                         /\ WindowStart = page * pageSize /\ WindowStart < Len(rows)
                         /\ WindowLen = Least(pageSize, Len(rows) - page * pageSize)
                         /\ WindowLen > 0
  OBVIOUS
<1>1. /\ Len(rows) \in Nat /\ page \in Nat /\ pageSize \in Nat \ {0}
      /\ DOMAIN rows = 1..Len(rows)
  BY SizesPositive DEF ShapeOK
<1>2. page * pageSize \in Nat BY <1>1
<1>3. WindowStart \in 0..Len(rows)
  BY <1>1, <1>2 DEF WindowStart, Least
<1>4. WindowEnd \in WindowStart..Len(rows)
  BY <1>1, <1>3 DEF WindowEnd, Least
<1>5. WindowLen \in Nat BY <1>1, <1>3, <1>4 DEF WindowLen
<1>6. Window \subseteq ToSet(rows)
  BY <1>1, <1>3, <1>4 DEF Window, ToSet
<1>7. ToSet(rows) \subseteq Ticker
  BY DEF ShapeOK, ToSet
<1>8. ASSUME page < TotalPages(Len(rows), pageSize), rows # <<>>
      PROVE  /\ WindowStart = page * pageSize /\ WindowStart < Len(rows)
             /\ WindowLen = Least(pageSize, Len(rows) - page * pageSize)
             /\ WindowLen > 0
  <2>1. Len(rows) > 0 BY <1>1, <1>8 DEF ShapeOK
  <2>2. page * pageSize < Len(rows)
    <3>1. page = 0 \/ page * pageSize < Len(rows) BY <1>1, <1>8, PageExists
    <3>2. page = 0 => page * pageSize = 0 BY <1>1
    <3>3. QED BY <2>1, <3>1, <3>2
  <2>3. WindowStart = page * pageSize BY <1>1, <1>2, <2>2 DEF WindowStart, Least
  <2>4. WindowStart \in Nat /\ WindowStart < Len(rows) BY <1>2, <2>2, <2>3
  <2>5. WindowLen = Least(pageSize, Len(rows) - WindowStart)
    BY <1>1, <2>4 DEF WindowLen, WindowEnd, Least
  <2>6. WindowLen > 0
    <3>1. Len(rows) - WindowStart > 0 /\ pageSize > 0 BY <1>1, <2>4
    <3>2. QED BY <2>5, <3>1 DEF Least
  <2>7. QED BY <2>3, <2>4, <2>5, <2>6
<1>9. QED BY <1>3, <1>4, <1>5, <1>6, <1>7, <1>8

-----------------------------------------------------------------------------
(***************************************************************************)
(* Types and the cursor.  The two go together: only a cursor on a row      *)
(* names a ticker to put on the watchlist.                                 *)
(***************************************************************************)
\* A list names an order its sort may have, and every such order makes lists.
LEMMA ListIs ==
  ASSUME NEW list \in Lists
  PROVE  /\ list.sort \in Sorts /\ list.order \in SortedBy[list.sort]
         /\ list.tickers \subseteq Ticker
         /\ [sort |-> list.sort, order |-> list.order] \in Orders
<1>1. PICK o \in Orders, T \in SUBSET Ticker :
        list = [sort |-> o.sort, order |-> o.order, tickers |-> T]
  BY DEF Lists
<1>2. PICK s \in Sorts : o \in [sort : {s}, order : SortedBy[s]]
  BY <1>1 DEF Orders
<1>3. o.sort = s /\ o.order \in SortedBy[s] /\ o = [sort |-> o.sort, order |-> o.order]
  BY <1>2
<1>4. QED BY <1>1, <1>2, <1>3

LEMMA ListMade ==
  ASSUME NEW s \in Sorts, NEW order \in SortedBy[s], NEW T \in SUBSET Ticker
  PROVE  [sort |-> s, order |-> order, tickers |-> T] \in Lists
<1> DEFINE o == [sort |-> s, order |-> order]
<1>1. o \in Orders BY DEF Orders
<1>2. o.sort = s /\ o.order = order OBVIOUS
<1> HIDE DEF o
<1>3. QED BY <1>1, <1>2 DEF Lists

\* What TypeOK says of the other variables.
RestOK ==
  /\ stored \subseteq Ticker /\ held \subseteq Holdable
  /\ sort \in Sorts
  /\ activity \in Activities /\ query \in Queries \cup {Empty}
  /\ watchlist \subseteq Ticker
  /\ watchlistOnly \in BOOLEAN /\ listLoading \in BOOLEAN
  /\ reading \in [Sorts -> 0 .. MaxReloads]
  /\ loaded \in [Lists -> 0 .. MaxReloads] /\ listed \subseteq Orders
  /\ fetching \subseteq Ticker /\ fetched \subseteq Ticker
  /\ keys \in 0 .. MaxKeys

ViewOK == ShapeOK /\ CursorOnRow

Inv == ViewOK /\ RestOK /\ subscribed \subseteq Ticker

LEMMA InvTypes == Inv => TypeOK /\ CursorOnRow
<1> SUFFICES ASSUME Inv PROVE TypeOK
  BY DEF Inv, ViewOK
<1>1. selected \in Nat \cup {None}
  <2>1. WindowLen \in Nat BY WindowIs DEF Inv, ViewOK
  <2>2. QED BY <2>1 DEF Inv, ViewOK, CursorOnRow
<1>2. QED BY <1>1 DEF Inv, ViewOK, ShapeOK, RestOK, TypeOK

\* The first page, with its first row selected, is always in order.
LEMMA FirstPage ==
  ShapeOK /\ page = 0 /\ selected = FirstOrNone(rows) => CursorOnRow
<1> SUFFICES ASSUME ShapeOK, page = 0, selected = FirstOrNone(rows) PROVE CursorOnRow
  OBVIOUS
<1>1. Len(rows) \in Nat /\ pageSize \in Nat \ {0}
  BY SizesPositive DEF ShapeOK
<1>2. page < TotalPages(Len(rows), pageSize)
  BY <1>1, PageExists
<1>3. rows # <<>> => WindowLen \in Nat /\ WindowLen > 0
  BY <1>2, WindowIs
<1>4. rows # <<>> => selected \in 0 .. WindowLen - 1
  BY <1>3 DEF FirstOrNone
<1>5. QED BY <1>2, <1>4 DEF CursorOnRow, FirstOrNone

\* So is any page there is.
LEMMA AnyPage ==
  ShapeOK /\ page < TotalPages(Len(rows), pageSize)
    /\ selected = FirstOrNone(rows) => CursorOnRow
<1> SUFFICES ASSUME ShapeOK, page < TotalPages(Len(rows), pageSize),
                    selected = FirstOrNone(rows)
             PROVE  CursorOnRow
  OBVIOUS
<1>1. rows # <<>> => WindowLen \in Nat /\ WindowLen > 0
  BY WindowIs
<1>2. rows # <<>> => selected \in 0 .. WindowLen - 1
  BY <1>1 DEF FirstOrNone
<1>3. QED BY <1>2 DEF CursorOnRow, FirstOrNone

\* Filtering leaves the view in order, whatever the master list and the filter.
LEMMA FilterStep ==
  ASSUME ApplyFilter, allRows' \in Seq(Ticker), IsInjective(allRows'),
         pageSize' \in Sizes
  PROVE  ViewOK'
<1>1. rows' = Select(allRows', Admitted') BY DEF ApplyFilter, Filtered
<1>2. rows' \in Seq(Ticker) /\ IsInjective(rows')
  BY <1>1, SelectIs
<1>3. ShapeOK' /\ page' = 0 /\ selected' = FirstOrNone(rows')
  BY <1>2 DEF ApplyFilter, ShapeOK
<1>4. CursorOnRow'
  <2>1. (ShapeOK /\ page = 0 /\ selected = FirstOrNone(rows) => CursorOnRow)'
    BY FirstPage, PTL
  <2>2. QED BY <1>3, <2>1 DEF FirstOrNone
<1>5. QED BY <1>3, <1>4 DEF ViewOK

LEMMA WindowOfTickers == ShapeOK => Window \subseteq Ticker
BY WindowIs

\* Subscriptions are tickers.
LEMMA SubscribeStep ==
  ASSUME Resubscribe, ViewOK', held' \subseteq Holdable
  PROVE  subscribed' \subseteq Ticker
<1>1. (ShapeOK => Window \subseteq Ticker)'
  BY WindowOfTickers, PTL
<1>2. Window' \subseteq Ticker BY <1>1 DEF ViewOK
<1>3. held' \subseteq Ticker BY TableAssumption
<1>4. QED BY <1>2, <1>3 DEF Resubscribe, StreamSymbols

\* A view left alone stays in order.
LEMMA ViewStutter == ViewOK /\ UNCHANGED view => ViewOK'
BY DEF ViewOK, ShapeOK, view, CursorOnRow, WindowLen, WindowEnd, WindowStart

\* The row under the cursor.
LEMMA SelectedIs ==
  ASSUME ViewOK, selected # None
  PROVE  /\ SelectedRow \in ToSet(rows) /\ SelectedRow \in Ticker
         /\ page * pageSize + selected + 1 \in 1..Len(rows)
         /\ SelectedRow = rows[page * pageSize + selected + 1]
<1>1. /\ page < TotalPages(Len(rows), pageSize) /\ rows # <<>>
      /\ selected \in 0 .. WindowLen - 1
  BY DEF ViewOK, CursorOnRow
<1>2. /\ WindowStart = page * pageSize
      /\ WindowStart \in 0..Len(rows) /\ WindowEnd \in WindowStart..Len(rows)
      /\ ToSet(rows) \subseteq Ticker
  BY <1>1, WindowIs DEF ViewOK
<1>3. Len(rows) \in Nat /\ DOMAIN rows = 1..Len(rows) BY DEF ViewOK, ShapeOK
<1>4. WindowStart + selected + 1 \in 1..Len(rows)
  BY <1>1, <1>2, <1>3 DEF WindowLen
<1>5. SelectedRow \in ToSet(rows) BY <1>3, <1>4 DEF SelectedRow, ToSet
<1>6. QED BY <1>2, <1>4, <1>5 DEF SelectedRow

LEMMA InvInit == Init => Inv
<1> SUFFICES ASSUME Init PROVE Inv
  OBVIOUS
<1>1. IsInjective(<<>>) BY DEF IsInjective
<1>2. ShapeOK BY <1>1 DEF Init, ShapeOK
<1>3. ViewOK BY <1>2, FirstPage DEF Init, FirstOrNone, ViewOK
<1>4. RestOK
  <2>1. reading \in [Sorts -> 0 .. MaxReloads]
    <3>1. sort \in Sorts /\ NoReload \in [Sorts -> 0 .. MaxReloads] /\ 1 \in 0 .. MaxReloads
      BY TableAssumption DEF Init, NoReload
    <3>2. QED BY <3>1 DEF Init
  <2>2. loaded \in [Lists -> 0 .. MaxReloads] /\ listed \subseteq Orders
    BY TableAssumption DEF Init, NoList
  <2>3. /\ stored \subseteq Ticker /\ held \subseteq Holdable
        /\ sort \in Sorts
        /\ activity \in Activities /\ query \in Queries \cup {Empty}
        /\ watchlist \subseteq Ticker
        /\ watchlistOnly \in BOOLEAN /\ listLoading \in BOOLEAN
        /\ fetching \subseteq Ticker /\ fetched \subseteq Ticker
    BY DEF Init, Activities
  <2>4. keys \in 0 .. MaxKeys BY TableAssumption DEF Init
  <2>5. QED BY <2>1, <2>2, <2>3, <2>4 DEF RestOK
<1>5. QED BY <1>3, <1>4 DEF Init, Inv

\* The steps that leave the view alone.
LEMMA OtherSteps ==
  ASSUME Inv,
         \/ \E s \in Sorts : ChangeSort(s) \/ ReadTable(s) \/ ReloadFails(s)
         \/ \E t \in Ticker : SubmitInput(t) \/ FetchStored(t) \/ FetchFails(t)
                              \/ RecordSnapshot(t)
         \/ \E list \in Watchlists : WatchlistLoaded(list)
         \/ \E t \in Holdable : DeleteHolding(t)
         \/ UNCHANGED vars
  PROVE  RestOK' /\ UNCHANGED view /\ subscribed' \subseteq Ticker
<1> USE DEF Inv, RestOK
<1>1. ASSUME NEW s \in Sorts, ChangeSort(s)
      PROVE  RestOK' /\ UNCHANGED view /\ subscribed' \subseteq Ticker
  <2>1. reading' \in [Sorts -> 0 .. MaxReloads]
    BY <1>1, TableAssumption DEF ChangeSort, Reload
  <2>2. keys' \in 0 .. MaxKeys BY <1>1, TableAssumption DEF ChangeSort, Press
  <2>3. QED BY <1>1, <2>1, <2>2 DEF ChangeSort, view, input, watch, fetches
<1>2. ASSUME NEW s \in Sorts, ReadTable(s)
      PROVE  RestOK' /\ UNCHANGED view /\ subscribed' \subseteq Ticker
  <2>1. reading' \in [Sorts -> 0 .. MaxReloads]
    BY <1>2, TableAssumption DEF ReadTable
  <2>2. PICK list \in Lists :
          loaded[list] < MaxReloads /\ loaded' = [loaded EXCEPT ![list] = @ + 1]
    BY <1>2, ListMade DEF ReadTable
  <2>3. loaded' \in [Lists -> 0 .. MaxReloads]
    BY <2>2, TableAssumption
  <2>4. QED BY <1>2, <2>1, <2>3 DEF ReadTable, view, input, watch, fetches
<1>3. ASSUME NEW s \in Sorts, ReloadFails(s)
      PROVE  RestOK' /\ UNCHANGED view /\ subscribed' \subseteq Ticker
  <2>1. reading' \in [Sorts -> 0 .. MaxReloads]
    BY <1>3, TableAssumption DEF ReloadFails
  <2>2. QED BY <1>3, <2>1 DEF ReloadFails, view, input, watch, fetches
<1>4. ASSUME NEW t \in Ticker, SubmitInput(t)
      PROVE  RestOK' /\ UNCHANGED view /\ subscribed' \subseteq Ticker
  <2>1. keys' \in 0 .. MaxKeys BY <1>4, TableAssumption DEF SubmitInput, Press
  <2>2. QED BY <1>4, <2>1 DEF SubmitInput, view, input, watch, reloads
<1>5. ASSUME NEW t \in Ticker, FetchStored(t)
      PROVE  RestOK' /\ UNCHANGED view /\ subscribed' \subseteq Ticker
  BY <1>5 DEF FetchStored, view, input, watch, reloads
<1>6. ASSUME NEW t \in Ticker, FetchFails(t)
      PROVE  RestOK' /\ UNCHANGED view /\ subscribed' \subseteq Ticker
  BY <1>6 DEF FetchFails, view, input, watch, reloads
<1>7. ASSUME NEW t \in Ticker, RecordSnapshot(t)
      PROVE  RestOK' /\ UNCHANGED view /\ subscribed' \subseteq Ticker
  BY <1>7 DEF RecordSnapshot, view, input, watch, reloads, fetches
<1>8. ASSUME NEW list \in Watchlists, WatchlistLoaded(list)
      PROVE  RestOK' /\ UNCHANGED view /\ subscribed' \subseteq Ticker
  <2>1. list \subseteq Ticker BY TableAssumption
  <2>2. QED BY <1>8, <2>1 DEF WatchlistLoaded, view, input, reloads, fetches
<1>9. ASSUME NEW t \in Holdable, DeleteHolding(t)
      PROVE  RestOK' /\ UNCHANGED view /\ subscribed' \subseteq Ticker
  BY <1>9 DEF DeleteHolding, view, input, watch, reloads, fetches
<1>10. CASE UNCHANGED vars
  BY <1>10 DEF vars, view, input, watch, reloads, fetches
<1>11. QED BY <1>1, <1>2, <1>3, <1>4, <1>5, <1>6, <1>7, <1>8, <1>9, <1>10

\* The steps that filter the master list again.
LEMMA FilterSteps ==
  ASSUME Inv,
         \/ \E list \in Lists : PageLoaded(list)
         \/ \E t \in Ticker : FetchCompleted(t)
         \/ StartFuzzySearch
         \/ \E q \in Queries \cup {Empty} : TypeQuery(q)
         \/ \E next \in {"idle", "ticker"} : CancelFuzzySearch(next)
         \/ ToggleWatchlistOnly
         \/ watchlistOnly /\ ToggleWatchlist
  PROVE  Inv'
<1> USE DEF Inv, ViewOK, ShapeOK, RestOK
<1>1. ASSUME NEW list \in Lists, PageLoaded(list) PROVE Inv'
  <2>1. list.order \in Seq(Ticker) /\ IsInjective(list.order)
    BY TableAssumption, ListIs
  <2>2. allRows' \in Seq(Ticker) /\ IsInjective(allRows')
    BY <1>1, <2>1, SelectIs DEF PageLoaded
  <2>3. ViewOK' BY <1>1, <2>2, FilterStep DEF PageLoaded
  <2>4. subscribed' \subseteq Ticker
    BY <1>1, <2>3, SubscribeStep DEF PageLoaded
  <2>5. loaded' \in [Lists -> 0 .. MaxReloads] /\ listed' \subseteq Orders
    BY <1>1, TableAssumption, ListIs DEF PageLoaded
  <2>6. RestOK' BY <1>1, <2>5 DEF PageLoaded, input, watch, fetches
  <2>7. QED BY <2>3, <2>4, <2>6
<1>2. ASSUME NEW t \in Ticker, FetchCompleted(t) PROVE Inv'
  <2> DEFINE others == Select(allRows, Ticker \ {t})
  <2>1. others \in Seq(Ticker) /\ IsInjective(others) /\ t \notin ToSet(others)
    BY SelectIs
  <2>2. allRows' \in Seq(Ticker) /\ IsInjective(allRows')
    BY <1>2, <2>1, PrependIs DEF FetchCompleted
  <2>3. ViewOK' BY <1>2, <2>2, FilterStep DEF FetchCompleted
  <2>4. RestOK' /\ subscribed' = subscribed
    BY <1>2 DEF FetchCompleted, input, watch, reloads
  <2>5. QED BY <2>3, <2>4
<1>f. ASSUME Filtering PROVE ViewOK'
  BY <1>f, FilterStep DEF Filtering
<1>3. CASE StartFuzzySearch
  <2>1. ViewOK' BY <1>3, <1>f DEF StartFuzzySearch
  <2>2. RestOK' /\ subscribed' = subscribed
    BY <1>3 DEF StartFuzzySearch, Filtering, watch, reloads, fetches, Activities
  <2>3. QED BY <2>1, <2>2
<1>4. ASSUME NEW q \in Queries \cup {Empty}, TypeQuery(q) PROVE Inv'
  <2>1. ViewOK' BY <1>4, <1>f DEF TypeQuery
  <2>2. RestOK' /\ subscribed' = subscribed
    BY <1>4 DEF TypeQuery, Filtering, watch, reloads, fetches
  <2>3. QED BY <2>1, <2>2
<1>5. ASSUME NEW next \in {"idle", "ticker"}, CancelFuzzySearch(next) PROVE Inv'
  <2>1. ViewOK' BY <1>5, <1>f DEF CancelFuzzySearch
  <2>2. RestOK'
    BY <1>5 DEF CancelFuzzySearch, Filtering, watch, reloads, fetches, Activities
  <2>3. subscribed' \subseteq Ticker
    BY <1>5, <2>1, <2>2, SubscribeStep DEF CancelFuzzySearch
  <2>4. QED BY <2>1, <2>2, <2>3
<1>6. CASE ToggleWatchlistOnly
  <2>1. ViewOK' BY <1>6, <1>f DEF ToggleWatchlistOnly
  <2>2. RestOK'
    BY <1>6 DEF ToggleWatchlistOnly, Filtering, input, reloads, fetches
  <2>3. subscribed' \subseteq Ticker
    BY <1>6, <2>1, <2>2, SubscribeStep DEF ToggleWatchlistOnly
  <2>4. QED BY <2>1, <2>2, <2>3
<1>7. CASE watchlistOnly /\ ToggleWatchlist
  <2>1. SelectedRow \in Ticker
    BY <1>7, SelectedIs DEF ToggleWatchlist
  <2>2. ViewOK' BY <1>7, FilterStep DEF ToggleWatchlist
  <2>3. watchlist' \subseteq Ticker BY <1>7, <2>1 DEF ToggleWatchlist
  <2>4. keys' \in 0 .. MaxKeys
    BY <1>7, TableAssumption DEF ToggleWatchlist, Press
  <2>5. RestOK'
    BY <1>7, <2>3, <2>4 DEF ToggleWatchlist, input, reloads, fetches
  <2>6. subscribed' \subseteq Ticker
    BY <1>7, <2>2, <2>5, SubscribeStep DEF ToggleWatchlist
  <2>7. QED BY <2>2, <2>5, <2>6
<1>8. QED BY <1>1, <1>2, <1>3, <1>4, <1>5, <1>6, <1>7

\* A resize finds the selected row, or the first one, on its new page.
LEMMA ResizeStep ==
  ASSUME Inv, NEW size \in Sizes, SetPageSize(size)
  PROVE  /\ ViewOK'
         /\ selected # None => SelectedRow' = SelectedRow
<1> USE DEF Inv, ViewOK, ShapeOK
<1> DEFINE row == IF selected = None THEN 0 ELSE page * pageSize + selected
           n == Len(rows)
           q == row \div size
           r == row % size
<1>1. n \in Nat /\ size \in Nat \ {0} /\ pageSize \in Nat \ {0} /\ DOMAIN rows = 1..n
  BY TableAssumption
<1>2. row \in Nat /\ (rows # <<>> => row < n)
  <2>1. CASE selected = None
    <3>1. rows = <<>>
      <4>1. WindowLen \in Nat BY WindowIs
      <4>2. rows # <<>> => selected \in 0 .. WindowLen - 1 BY DEF CursorOnRow
      <4>3. None \notin 0 .. WindowLen - 1 BY <4>1 DEF None
      <4>4. QED BY <2>1, <4>2, <4>3
    <3>2. QED BY <2>1, <3>1
  <2>2. CASE selected # None
    <3>1. page * pageSize + selected + 1 \in 1..n BY <2>2, SelectedIs
    <3>2. selected \in Int /\ page * pageSize \in Nat
      BY <1>1, <2>2, InvTypes DEF TypeOK, None
    <3>3. QED BY <2>2, <3>1, <3>2, <1>1
  <2>3. QED BY <2>1, <2>2
<1> HIDE DEF row
<1>3. q \in Nat /\ r \in 0..size-1 /\ row = size * q + r
  BY <1>1, <1>2, DivMod
<1>4. TotalPages(n, size) \in Nat \ {0} BY <1>1, PageExists
<1>5. rows # <<>> => q < TotalPages(n, size) /\ q * size < n
  <2>1. SUFFICES ASSUME rows # <<>> PROVE q < TotalPages(n, size) /\ q * size < n
    OBVIOUS
  <2> HIDE DEF q, r, n
  <2>2. q * size = size * q /\ size * q \in Nat BY <1>1, <1>3
  <2>3. q * size < n BY <1>1, <1>2, <1>3, <2>1, <2>2
  <2>4. QED BY <1>1, <1>3, <2>3, PageExists
<1>6. rows = <<>> => row = 0
  <2>1. SUFFICES ASSUME rows = <<>> PROVE row = 0
    OBVIOUS
  <2>2. selected = None BY <2>1 DEF CursorOnRow
  <2>3. QED BY <2>2 DEF row
<1>7. /\ rows' = rows /\ allRows' = allRows /\ pageSize' = size
      /\ page' = Least(q, TotalPages(n, size) - 1)
      /\ selected' = IF WindowLen' = 0 THEN None ELSE Least(r, WindowLen' - 1)
  BY DEF SetPageSize, PageOf, LocalOf, row
<1> HIDE DEF q, r, n
<1>8. rows # <<>> => page' = q
  BY <1>3, <1>4, <1>5, <1>7 DEF Least
<1>9. page' \in Nat /\ page' < TotalPages(n, size)
  BY <1>3, <1>4, <1>7 DEF Least
<1>10. ShapeOK' BY <1>7, <1>9
<1>11. (ShapeOK =>
    /\ WindowStart \in 0..Len(rows) /\ WindowEnd \in WindowStart..Len(rows)
    /\ WindowLen \in Nat
    /\ Window \subseteq ToSet(rows) /\ ToSet(rows) \subseteq Ticker
    /\ page < TotalPages(Len(rows), pageSize) /\ rows # <<>> =>
         /\ WindowStart = page * pageSize /\ WindowStart < Len(rows)
         /\ WindowLen = Least(pageSize, Len(rows) - page * pageSize)
         /\ WindowLen > 0)'
  BY WindowIs, PTL
<1>12. CASE rows = <<>>
  <2>1. n = 0 BY <1>12 DEF n
  <2>2. WindowLen' = 0
    BY <1>7, <1>10, <1>11, <1>12, <2>1 DEF n, WindowLen
  <2>3. selected' = None BY <1>7, <2>2
  <2>4. selected = None BY <1>12 DEF CursorOnRow
  <2>5. CursorOnRow' BY <1>7, <1>9, <1>12, <2>3 DEF CursorOnRow, n
  <2>6. QED BY <1>10, <2>4, <2>5
<1>13. CASE rows # <<>>
  <2>1. /\ WindowStart' = q * size /\ WindowLen' \in Nat /\ WindowLen' > 0
        /\ WindowLen' = Least(size, n - q * size)
    BY <1>7, <1>8, <1>9, <1>10, <1>11, <1>13 DEF n
  <2>2. q * size = size * q /\ size * q \in Nat BY <1>1, <1>3
  <2>3. r < WindowLen'
    BY <1>1, <1>2, <1>3, <1>13, <2>1, <2>2 DEF Least
  <2>4. selected' = r
    BY <1>3, <1>7, <2>1, <2>3 DEF Least
  <2>5. CursorOnRow'
    BY <1>3, <1>7, <1>9, <1>13, <2>1, <2>3, <2>4 DEF CursorOnRow, n
  <2>6. ASSUME selected # None PROVE SelectedRow' = SelectedRow
    <3>1. WindowStart' + selected' + 1 = row + 1
      BY <1>3, <2>1, <2>2, <2>4
    <3>2. SelectedRow' = rows[row + 1] BY <1>7, <3>1 DEF SelectedRow
    <3>3. SelectedRow = rows[row + 1] BY <2>6, SelectedIs DEF row
    <3>4. QED BY <3>2, <3>3
  <2>7. QED BY <1>10, <2>5, <2>6
<1>14. QED BY <1>12, <1>13

\* The steps that move in the view or change what it holds and shows.
LEMMA MovingSteps ==
  ASSUME Inv,
         \/ \E t \in Ticker : Materialize(t)
         \/ Paginate
         \/ \E delta \in {1, -1} : MoveSelection(delta)
         \/ \E size \in Sizes : SetPageSize(size)
         \/ AcceptFuzzySearch
         \/ TickerLine
         \/ ~watchlistOnly /\ ToggleWatchlist
         \/ \E tickers \in SUBSET Holdable : PortfolioLoaded(tickers)
         \/ \E t \in Holdable : SaveHolding(t)
  PROVE  Inv'
<1> USE DEF Inv
<1>1. ASSUME NEW t \in Ticker, Materialize(t) PROVE Inv'
  <2>1. allRows' \in Seq(Ticker) /\ IsInjective(allRows')
    BY <1>1, AppendIs DEF Materialize, ViewOK, ShapeOK
  <2>2. ShapeOK' BY <1>1, <2>1 DEF Materialize, ViewOK, ShapeOK
  <2>3. CursorOnRow'
    BY <1>1 DEF Materialize, ViewOK, CursorOnRow, WindowLen, WindowEnd, WindowStart
  <2>4. RestOK' /\ subscribed' = subscribed
    BY <1>1 DEF Materialize, RestOK, input, watch, reloads, fetches
  <2>5. QED BY <2>2, <2>3, <2>4 DEF ViewOK
<1>2. CASE Paginate
  <2> DEFINE next == Least(page + 1, TotalPages(Len(rows), pageSize) - 1)
  <2>1. /\ page \in Nat /\ TotalPages(Len(rows), pageSize) \in Nat \ {0}
        /\ page < TotalPages(Len(rows), pageSize)
    <3>1. Len(rows) \in Nat /\ pageSize \in Nat \ {0} /\ page \in Nat
      BY SizesPositive DEF ViewOK, ShapeOK
    <3>2. QED BY <3>1, PageExists DEF ViewOK, CursorOnRow
  <2>2. next \in Nat /\ next < TotalPages(Len(rows), pageSize)
    BY <2>1 DEF Least
  <2>3. PICK p \in Nat : p < TotalPages(Len(rows), pageSize) /\ TurnTo(p)
    <3>1. CASE TurnTo(next) BY <2>2, <3>1
    <3>2. CASE page > 0 /\ TurnTo(page - 1)
      <4>1. page - 1 \in Nat /\ page - 1 < TotalPages(Len(rows), pageSize)
        BY <2>1, <3>2
      <4>2. QED BY <3>2, <4>1
    <3>3. QED BY <1>2, <3>1, <3>2 DEF Paginate
  <2>4. ShapeOK' BY <2>3 DEF TurnTo, ViewOK, ShapeOK
  <2>5. (ShapeOK /\ page < TotalPages(Len(rows), pageSize)
           /\ selected = FirstOrNone(rows) => CursorOnRow)'
    BY AnyPage, PTL
  <2>6. ViewOK' BY <2>3, <2>4, <2>5 DEF TurnTo, FirstOrNone, ViewOK
  <2>7. RestOK' BY <2>3 DEF TurnTo, RestOK, input, watch, reloads, fetches
  <2>8. subscribed' \subseteq Ticker
    BY <2>3, <2>6, <2>7, SubscribeStep DEF TurnTo, RestOK
  <2>9. QED BY <2>6, <2>7, <2>8
<1>3. ASSUME NEW delta \in {1, -1}, MoveSelection(delta) PROVE Inv'
  <2>1. WindowLen \in Nat /\ WindowLen > 0
    BY <1>3, WindowIs DEF MoveSelection, ViewOK
  <2>2. rows # <<>>
    <3>1. SUFFICES ASSUME rows = <<>> PROVE FALSE
      OBVIOUS
    <3>2. WindowStart \in 0..Len(rows) /\ WindowEnd \in WindowStart..Len(rows)
      BY WindowIs DEF ViewOK
    <3>3. Len(rows) = 0 BY <3>1
    <3>4. QED BY <2>1, <3>2, <3>3 DEF WindowLen
  <2>3. selected \in 0 .. WindowLen - 1 BY <2>2 DEF ViewOK, CursorOnRow
  <2>4. (selected + delta) % WindowLen \in 0 .. WindowLen - 1
    BY <2>1, <2>3
  <2>5. selected' \in 0 .. WindowLen - 1
    BY <1>3, <2>1, <2>4 DEF MoveSelection
  <2>6. ShapeOK' /\ CursorOnRow'
    BY <1>3, <2>2, <2>5
    DEF MoveSelection, ViewOK, ShapeOK, CursorOnRow, WindowLen, WindowEnd, WindowStart
  <2>7. RestOK' /\ subscribed' = subscribed
    BY <1>3 DEF MoveSelection, RestOK, input, watch, reloads, fetches
  <2>8. QED BY <2>6, <2>7 DEF ViewOK
<1>4. ASSUME NEW size \in Sizes, SetPageSize(size) PROVE Inv'
  <2>1. ViewOK' BY <1>4, ResizeStep
  <2>2. RestOK' BY <1>4 DEF SetPageSize, RestOK, input, watch, reloads, fetches
  <2>3. subscribed' \subseteq Ticker
    BY <1>4, <2>1, <2>2, SubscribeStep DEF SetPageSize, RestOK
  <2>4. QED BY <2>1, <2>2, <2>3
<1>5. CASE AcceptFuzzySearch
  <2>1. ViewOK' BY <1>5, ViewStutter DEF AcceptFuzzySearch
  <2>2. RestOK'
    BY <1>5 DEF AcceptFuzzySearch, RestOK, watch, reloads, fetches, Activities
  <2>3. subscribed' \subseteq Ticker
    BY <1>5, <2>1, <2>2, SubscribeStep DEF AcceptFuzzySearch, RestOK
  <2>4. QED BY <2>1, <2>2, <2>3
<1>6. CASE TickerLine
  <2>1. CASE activity = "applied" /\ CancelFuzzySearch("ticker")
    BY <2>1, FilterSteps
  <2>2. CASE /\ \/ activity = "idle" /\ activity' = "ticker"
                \/ activity = "ticker" /\ activity' = "idle"
             /\ UNCHANGED <<view, sort, query, watch, held, subscribed, stored,
                            reloads, fetches, keys>>
    <3>1. ViewOK' BY <2>2, ViewStutter
    <3>2. RestOK' /\ subscribed' = subscribed
      BY <2>2 DEF RestOK, watch, reloads, fetches, Activities
    <3>3. QED BY <3>1, <3>2
  <2>3. QED BY <1>6, <2>1, <2>2 DEF TickerLine
<1>7. CASE ~watchlistOnly /\ ToggleWatchlist
  <2>1. UNCHANGED view BY <1>7 DEF ToggleWatchlist, view
  <2>2. ViewOK' BY <2>1, ViewStutter
  <2>3. watchlist' \subseteq Ticker
    BY <1>7, SelectedIs DEF ToggleWatchlist, RestOK
  <2>4. keys' \in 0 .. MaxKeys
    BY <1>7, TableAssumption DEF ToggleWatchlist, Press, RestOK
  <2>5. RestOK' /\ subscribed' = subscribed
    BY <1>7, <2>3, <2>4 DEF ToggleWatchlist, RestOK, input, reloads, fetches
  <2>6. QED BY <2>2, <2>5
<1>8. ASSUME NEW tickers \in SUBSET Holdable, Press, Hold(tickers) PROVE Inv'
  <2>1. ViewOK' BY <1>8, ViewStutter DEF Hold
  <2>2. fetching' \subseteq Ticker
    BY <1>8, TableAssumption DEF Hold, RestOK
  <2>3. keys' \in 0 .. MaxKeys BY <1>8, TableAssumption DEF Press, RestOK
  <2>4. RestOK' BY <1>8, <2>2, <2>3 DEF Hold, RestOK, input, watch, reloads
  <2>5. subscribed' \subseteq Ticker
    BY <1>8, <2>1, <2>4, SubscribeStep DEF Hold, RestOK
  <2>6. QED BY <2>1, <2>4, <2>5
<1>9. ASSUME NEW tickers \in SUBSET Holdable, PortfolioLoaded(tickers) PROVE Inv'
  BY <1>8, <1>9 DEF PortfolioLoaded
<1>10. ASSUME NEW t \in Holdable, SaveHolding(t) PROVE Inv'
  <2>1. held \cup {t} \in SUBSET Holdable BY DEF RestOK
  <2>2. QED BY <1>8, <1>10, <2>1 DEF SaveHolding
<1>11. QED BY <1>1, <1>2, <1>3, <1>4, <1>5, <1>6, <1>7, <1>9, <1>10

LEMMA InvStep == Inv /\ [Next]_vars => Inv'
<1> SUFFICES ASSUME Inv, [Next]_vars PROVE Inv'
  OBVIOUS
<1>1. ASSUME RestOK', UNCHANGED view, subscribed' \subseteq Ticker PROVE Inv'
  BY <1>1, ViewStutter DEF Inv
<1>2. QED
  BY <1>1, OtherSteps, FilterSteps, MovingSteps DEF Next

LEMMA InvHolds == Spec => []Inv
BY InvInit, InvStep, PTL DEF Spec

\* The master list and the rows never hold a ticker twice, and every variable
\* keeps its range, however reloads, fetched rows and ticks interleave.
THEOREM TypeCorrect == Spec => []TypeOK
BY InvHolds, InvTypes, PTL

\* The page shown exists and the selection is on a row of it, whatever list,
\* filter or resize came last (apply_filter, reset_selection, set_page_size).
THEOREM CursorOnRowHolds == Spec => []CursorOnRow
BY InvHolds, InvTypes, PTL

\* Only a resize changes the page size.
LEMMA OnlyResizes ==
  ASSUME Next, pageSize' # pageSize
  PROVE  \E size \in Sizes : SetPageSize(size)
BY DEF Next, ChangeSort, ReadTable, ReloadFails, PageLoaded, SubmitInput,
       FetchStored, FetchFails, FetchCompleted, Materialize, RecordSnapshot,
       Paginate, TurnTo, MoveSelection, StartFuzzySearch, AcceptFuzzySearch,
       TypeQuery, CancelFuzzySearch, TickerLine, ToggleWatchlistOnly,
       ToggleWatchlist, WatchlistLoaded, PortfolioLoaded, SaveHolding, Hold,
       DeleteHolding, Filtering, view

\* A resize never moves the selection to another row (set_page_size).
THEOREM ResizeKeepsRowHolds == Spec => ResizeKeepsRow
<1>1. Inv /\ [Next]_vars =>
        [pageSize' # pageSize /\ selected # None => SelectedRow' = SelectedRow]_vars
  BY OnlyResizes, ResizeStep
<1>2. QED BY <1>1, InvHolds, PTL DEF Spec, ResizeKeepsRow

-----------------------------------------------------------------------------
(***************************************************************************)
(* The calm regime.                                                        *)
(***************************************************************************)
\* A calm step is a step, and what the calm regime rules out does not happen.
LEMMA CalmStep ==
  ASSUME Calmly!Next
  PROVE  \/ \E s \in Sorts : (AtRest /\ ChangeSort(s)) \/ ReadTable(s)
         \/ \E list \in Lists : PageLoaded(list)
         \/ \E t \in Ticker : \/ FetchStored(t) \/ FetchFails(t)
                              \/ FetchCompleted(t)
                              \/ Materialize(t) \/ RecordSnapshot(t)
         \/ Paginate
         \/ \E delta \in {1, -1} : MoveSelection(delta)
         \/ \E size \in Sizes : SetPageSize(size)
         \/ StartFuzzySearch \/ AcceptFuzzySearch
         \/ \E q \in Queries \cup {Empty} : TypeQuery(q)
         \/ CancelFuzzySearch("idle")
         \/ TickerLine
         \/ ~listLoading /\ ToggleWatchlistOnly
         \/ ToggleWatchlist
         \/ \E list \in Watchlists : WatchlistLoaded(list)
         \/ \E tickers \in SUBSET Holdable :
              tickers \subseteq ToSet(allRows) /\ PortfolioLoaded(tickers)
         \/ \E t \in Holdable : \/ /\ held \cup {t} \subseteq ToSet(allRows)
                                   /\ SaveHolding(t)
                                \/ DeleteHolding(t)
<1>s. ASSUME NEW seq, NEW S PROVE Calmly!Select(seq, S) = Select(seq, S)
  BY DEF Calmly!Select, Select
<1>u. \A q : Calmly!ToSet(q) = ToSet(q) BY DEF Calmly!ToSet, ToSet
<1>l. Calmly!Lists = Lists BY DEF Calmly!Lists, Lists, Calmly!Orders, Orders
<1>a. Calmly!AtRest <=> AtRest
  BY DEF Calmly!AtRest, AtRest, Calmly!NoReload, NoReload, Calmly!NoList,
         NoList, Calmly!Lists, Lists, Calmly!Orders, Orders
<1>f. Calmly!ApplyFilter <=> ApplyFilter
  BY <1>s DEF Calmly!ApplyFilter, ApplyFilter, Calmly!Filtered, Filtered,
     Calmly!Admitted, Admitted, Calmly!IsFuzzy, IsFuzzy, Calmly!FirstOrNone,
     FirstOrNone, Calmly!None, None
<1>w. /\ Calmly!WindowLen = WindowLen /\ Calmly!WindowStart = WindowStart
      /\ Calmly!Window = Window
  BY DEF Calmly!WindowLen, WindowLen, Calmly!WindowEnd, WindowEnd,
     Calmly!WindowStart, WindowStart, Calmly!Window, Window, Calmly!Least, Least
<1>r. Calmly!Resubscribe <=> Resubscribe
  BY DEF Calmly!Resubscribe, Resubscribe, Calmly!StreamSymbols, StreamSymbols,
     Calmly!Window, Window, Calmly!WindowEnd, WindowEnd,
     Calmly!WindowStart, WindowStart, Calmly!Least, Least
<1>q. Calmly!Filtering => Filtering
  BY <1>f DEF Calmly!Filtering, Filtering, Calmly!reloads, reloads,
     Calmly!fetches, fetches
<1> USE DEF Calmly!view, view, Calmly!input, input, Calmly!watch, watch,
            Calmly!reloads, reloads, Calmly!fetches, fetches,
            Calmly!CommandKey, CommandKey, Calmly!IsFocused, IsFocused,
            Calmly!IsFuzzy, IsFuzzy, Calmly!Press, Press, Calmly!None, None
<1>1. ASSUME NEW x \in Sorts, Calmly!ChangeSort(x) PROVE AtRest /\ ChangeSort(x)
  BY <1>1, <1>a DEF Calmly!ChangeSort, ChangeSort, Calmly!Reload, Reload
<1>2. ASSUME NEW x \in Sorts, Calmly!ReadTable(x) PROVE ReadTable(x)
  BY <1>2 DEF Calmly!ReadTable, ReadTable
<1>3. ASSUME NEW x \in Sorts, Calmly!ReloadFails(x) PROVE FALSE
  BY <1>3 DEF Calmly!ReloadFails
<1>4. ASSUME NEW x \in Lists, Calmly!PageLoaded(x) PROVE PageLoaded(x)
  BY <1>4, <1>s, <1>f, <1>r DEF Calmly!PageLoaded, PageLoaded
<1>5. ASSUME NEW t \in Ticker, Calmly!SubmitInput(t) PROVE FALSE
  BY <1>5 DEF Calmly!SubmitInput
<1>6. ASSUME NEW t \in Ticker, Calmly!FetchStored(t) PROVE FetchStored(t)
  BY <1>6 DEF Calmly!FetchStored, FetchStored
<1>7. ASSUME NEW t \in Ticker, Calmly!FetchFails(t) PROVE FetchFails(t)
  BY <1>7 DEF Calmly!FetchFails, FetchFails
<1>8. ASSUME NEW t \in Ticker, Calmly!FetchCompleted(t) PROVE FetchCompleted(t)
  BY <1>8, <1>s, <1>f DEF Calmly!FetchCompleted, FetchCompleted
<1>9. ASSUME NEW t \in Ticker, Calmly!Materialize(t) PROVE Materialize(t)
  BY <1>9, <1>u DEF Calmly!Materialize, Materialize
<1>10. ASSUME NEW t \in Ticker, Calmly!RecordSnapshot(t) PROVE RecordSnapshot(t)
  BY <1>10, <1>u DEF Calmly!RecordSnapshot, RecordSnapshot
<1>t. ASSUME NEW p, Calmly!TurnTo(p) PROVE TurnTo(p)
  BY <1>t, <1>r DEF Calmly!TurnTo, TurnTo, Calmly!FirstOrNone, FirstOrNone
<1>11. ASSUME Calmly!Paginate PROVE Paginate
  <2>1. Calmly!Least(page + 1, Calmly!TotalPages(Len(rows), pageSize) - 1)
          = Least(page + 1, TotalPages(Len(rows), pageSize) - 1)
    BY DEF Calmly!Least, Least, Calmly!TotalPages, TotalPages
  <2>2. QED BY <1>11, <1>t, <2>1 DEF Calmly!Paginate, Paginate
<1>12. ASSUME NEW d \in {1, -1}, Calmly!MoveSelection(d) PROVE MoveSelection(d)
  BY <1>12, <1>w DEF Calmly!MoveSelection, MoveSelection
<1>13. ASSUME NEW z \in Sizes, Calmly!SetPageSize(z) PROVE SetPageSize(z)
  <2>1. Calmly!WindowLen' = WindowLen'
    BY DEF Calmly!WindowLen, WindowLen, Calmly!WindowEnd, WindowEnd,
       Calmly!WindowStart, WindowStart, Calmly!Least, Least
  <2>2. \A a, b : /\ Calmly!PageOf(a, b) = PageOf(a, b)
                  /\ Calmly!LocalOf(a, b) = LocalOf(a, b)
                  /\ Calmly!Least(a, b) = Least(a, b)
    BY DEF Calmly!PageOf, PageOf, Calmly!LocalOf, LocalOf, Calmly!Least, Least,
       Calmly!TotalPages, TotalPages
  <2>3. QED BY <1>13, <1>r, <2>1, <2>2 DEF Calmly!SetPageSize, SetPageSize
<1>14. ASSUME Calmly!StartFuzzySearch PROVE StartFuzzySearch
  BY <1>14, <1>q DEF Calmly!StartFuzzySearch, StartFuzzySearch
<1>15. ASSUME Calmly!AcceptFuzzySearch PROVE AcceptFuzzySearch
  BY <1>15, <1>r DEF Calmly!AcceptFuzzySearch, AcceptFuzzySearch
<1>16. ASSUME NEW q \in Queries \cup {Empty}, Calmly!TypeQuery(q) PROVE TypeQuery(q)
  BY <1>16, <1>q DEF Calmly!TypeQuery, TypeQuery
<1>17. ASSUME NEW next, Calmly!CancelFuzzySearch(next) PROVE CancelFuzzySearch(next)
  BY <1>17, <1>q, <1>r DEF Calmly!CancelFuzzySearch, CancelFuzzySearch
<1>18. ASSUME Calmly!TickerLine PROVE TickerLine
  BY <1>18, <1>17 DEF Calmly!TickerLine, TickerLine
<1>19. ASSUME Calmly!ToggleWatchlistOnly PROVE ~listLoading /\ ToggleWatchlistOnly
  BY <1>19, <1>q, <1>r DEF Calmly!ToggleWatchlistOnly, ToggleWatchlistOnly
<1>20. ASSUME Calmly!ToggleWatchlist PROVE ToggleWatchlist
  <2>1. Calmly!SelectedRow = SelectedRow
    BY <1>w DEF Calmly!SelectedRow, SelectedRow
  <2>2. QED
    BY <1>20, <1>f, <1>r, <2>1 DEF Calmly!ToggleWatchlist, ToggleWatchlist
<1>21. ASSUME NEW x \in Watchlists, Calmly!WatchlistLoaded(x) PROVE WatchlistLoaded(x)
  BY <1>21 DEF Calmly!WatchlistLoaded, WatchlistLoaded
<1>h. ASSUME NEW x, Calmly!Hold(x) PROVE Hold(x) /\ x \subseteq ToSet(allRows)
  BY <1>h, <1>r, <1>u DEF Calmly!Hold, Hold
<1>22. ASSUME NEW x \in SUBSET Holdable, Calmly!PortfolioLoaded(x)
       PROVE  x \subseteq ToSet(allRows) /\ PortfolioLoaded(x)
  BY <1>22, <1>h DEF Calmly!PortfolioLoaded, PortfolioLoaded
<1>23. ASSUME NEW t \in Holdable, Calmly!SaveHolding(t)
       PROVE  held \cup {t} \subseteq ToSet(allRows) /\ SaveHolding(t)
  BY <1>23, <1>h DEF Calmly!SaveHolding, SaveHolding
<1>24. ASSUME NEW t \in Holdable, Calmly!DeleteHolding(t) PROVE DeleteHolding(t)
  BY <1>24 DEF Calmly!DeleteHolding, DeleteHolding
<1>25. QED
  BY <1>l, <1>1, <1>2, <1>3, <1>4, <1>5, <1>6, <1>7, <1>8, <1>9, <1>10, <1>11,
     <1>12, <1>13, <1>14, <1>15, <1>16, <1>17, <1>18, <1>19, <1>20, <1>21,
     <1>22, <1>23, <1>24
  DEF Calmly!Next

\* In the calm regime no quote is fetched, every listed ticker is stored, every
\* held one listed, and the one reload there may be is for the sort shown.
Quiet ==
  /\ fetching = {} /\ fetched = {}
  /\ ToSet(allRows) \subseteq stored
  /\ held \subseteq ToSet(allRows)
  /\ \A list \in Lists : loaded[list] > 0 => list.tickers = stored /\ list.sort = sort
  /\ \A s \in Sorts : reading[s] > 0 => s = sort
  /\ listLoading => ~watchlistOnly

CalmInv ==
  Inv /\ Quiet /\ LiveUnlessTyping /\ ViewIsFiltered /\ HeaderNamesOrder

LEMMA CalmInit == Init => CalmInv
<1> SUFFICES ASSUME Init PROVE CalmInv
  OBVIOUS
<1>1. Inv BY InvInit
<1>2. ToSet(allRows) = {} /\ Window = {}
  <2>1. WindowStart = 0 /\ WindowEnd = 0
    <3>1. /\ rows = <<>> /\ page = 0 /\ pageSize \in Nat /\ Len(rows) = 0
      BY SizesPositive DEF Init
    <3>2. QED BY <3>1 DEF WindowStart, WindowEnd, Least
  <2>2. QED BY <2>1 DEF Init, ToSet, Window
<1>3. Quiet BY <1>2 DEF Init, Quiet, NoReload, NoList, Lists
<1>4. LiveUnlessTyping
  BY <1>2 DEF Init, LiveUnlessTyping, VisibleIsLive, StreamSymbols
<1>5. ViewIsFiltered
  <2>1. ToSet(Filtered) = {} /\ Filtered \in Seq(Ticker)
    BY <1>2, <1>1, SelectIs DEF Filtered, Inv, ViewOK, ShapeOK
  <2>2. Filtered = <<>>
    <3>1. DOMAIN Filtered = 1..Len(Filtered) /\ Len(Filtered) \in Nat BY <2>1
    <3>2. 1 \notin DOMAIN Filtered BY <2>1 DEF ToSet
    <3>3. QED BY <2>1, <3>1, <3>2
  <2>3. QED BY <2>2 DEF Init, ViewIsFiltered
<1>6. HeaderNamesOrder
  <2>1. reading[sort] = 1 /\ NoReload[sort] = 0 BY DEF Init, NoReload
  <2>2. QED BY <2>1 DEF HeaderNamesOrder, AtRest
<1>7. QED BY <1>1, <1>3, <1>4, <1>5, <1>6 DEF CalmInv

\* A step that leaves the list, the sort, the reloads and the fetches alone.
LEMMA QuietStep ==
  ASSUME CalmInv, UNCHANGED <<allRows, stored, sort, reading, loaded, listed>>,
         fetching' = {}, fetched' = {}, held' \subseteq ToSet(allRows),
         listLoading' => ~watchlistOnly'
  PROVE  Quiet' /\ HeaderNamesOrder'
BY DEF CalmInv, Quiet, HeaderNamesOrder, AtRest, ToSet

\* A step after which the stream follows, or nothing new is to be followed.
LEMMA LiveStep ==
  ASSUME CalmInv,
         \/ Resubscribe
         \/ activity' = "fuzzy"
         \/ /\ UNCHANGED <<rows, page, pageSize, subscribed>>
            /\ held' \subseteq held
            /\ activity # "fuzzy"
  PROVE  LiveUnlessTyping'
BY DEF CalmInv, LiveUnlessTyping, VisibleIsLive, Resubscribe, StreamSymbols,
       Window, WindowEnd, WindowStart

\* A step that filters, or after which the filters let the same rows through.
LEMMA FilteredStep ==
  ASSUME CalmInv,
         \/ ApplyFilter
         \/ UNCHANGED <<allRows, rows>> /\ Admitted' = Admitted
  PROVE  ViewIsFiltered'
BY DEF CalmInv, ViewIsFiltered, ApplyFilter, Filtered

\* A list that arrives is the stored tickers in an order of the header's column.
LEMMA CalmPageLoaded ==
  ASSUME CalmInv, NEW list \in Lists, PageLoaded(list)
  PROVE  Quiet' /\ LiveUnlessTyping' /\ ViewIsFiltered' /\ HeaderNamesOrder'
<1>1. list.tickers = stored /\ list.sort = sort /\ list.order \in SortedBy[sort]
      /\ sort \in Sorts
  BY ListIs DEF CalmInv, Quiet, PageLoaded
<1>2. allRows' = Select(list.order, stored) /\ ToSet(allRows') = stored
  <2>1. list.order \in Seq(Ticker) /\ ToSet(list.order) = Ticker
    BY <1>1, TableAssumption
  <2>2. allRows' = Select(list.order, stored) BY <1>1 DEF PageLoaded
  <2>3. stored \subseteq Ticker BY DEF CalmInv, Inv, RestOK
  <2>4. ToSet(Select(list.order, stored)) = ToSet(list.order) \cap stored
    BY <2>1, SelectIs
  <2>5. QED BY <2>1, <2>2, <2>3, <2>4
<1>3. UNCHANGED <<stored, sort, held, reading, fetching, fetched, listLoading, watchlistOnly>>
  BY DEF PageLoaded, fetches, watch
<1>4. \A l \in Lists : loaded'[l] > 0 => loaded[l] > 0
  BY DEF PageLoaded, CalmInv, Inv, RestOK
<1>5. Quiet' BY <1>2, <1>3, <1>4 DEF CalmInv, Quiet
<1>6. HeaderNamesOrder'
  <2>1. listed' = {[sort |-> list.sort, order |-> list.order]} BY DEF PageLoaded
  <2>2. [sort |-> list.sort, order |-> list.order].sort = sort'
        /\ allRows' = Select([sort |-> list.sort, order |-> list.order].order, ToSet(allRows'))
    BY <1>1, <1>2, <1>3
  <2>3. QED BY <2>1, <2>2 DEF HeaderNamesOrder
<1>7. QED BY <1>5, <1>6, LiveStep, FilteredStep DEF PageLoaded

\* A reload that starts or reads the table leaves the table not at rest.
LEMMA CalmReloads ==
  ASSUME CalmInv, NEW s \in Sorts, \/ AtRest /\ ChangeSort(s)
                                   \/ ReadTable(s)
  PROVE  Quiet' /\ LiveUnlessTyping' /\ ViewIsFiltered' /\ HeaderNamesOrder'
<1> USE DEF view, input, watch, fetches
<1>t. reading \in [Sorts -> 0 .. MaxReloads] /\ loaded \in [Lists -> 0 .. MaxReloads]
  BY DEF CalmInv, Inv, RestOK
<1>n. MaxReloads \in Nat BY TableAssumption
<1>1. CASE AtRest /\ ChangeSort(s)
  <2>1. /\ reading' = [reading EXCEPT ![s] = @ + 1] /\ sort' = s
        /\ UNCHANGED <<allRows, rows, page, pageSize, held, subscribed, stored,
                       loaded, fetching, fetched, activity, listLoading, watchlistOnly>>
    BY <1>1 DEF ChangeSort, Reload
  <2>2. \A l \in Lists : loaded[l] = 0 BY <1>1 DEF AtRest, NoList
  <2>3. \A r \in Sorts : reading[r] = 0 BY <1>1 DEF AtRest, NoReload
  <2>4. \A r \in Sorts : reading'[r] > 0 => r = s
    BY <1>t, <2>1, <2>3
  <2>5. Quiet' BY <2>1, <2>2, <2>4 DEF CalmInv, Quiet
  <2>6. reading'[s] = 1 /\ NoReload'[s] = 0 BY <1>t, <2>1, <2>3 DEF NoReload
  <2>7. HeaderNamesOrder' BY <2>6 DEF HeaderNamesOrder, AtRest
  <2>8. QED
    <3>1. LiveUnlessTyping'
      BY <2>1, <1>1, LiveStep DEF ChangeSort, CommandKey, IsFocused
    <3>2. Admitted' = Admitted
      BY <1>1 DEF Admitted, IsFuzzy, ChangeSort
    <3>3. QED BY <2>1, <2>5, <2>7, <3>1, <3>2, FilteredStep
<1>2. CASE ReadTable(s)
  <2>0. PICK order \in SortedBy[s] :
          loaded' = [loaded EXCEPT ![[sort |-> s, order |-> order, tickers |-> stored]] = @ + 1]
    BY <1>2 DEF ReadTable
  <2> DEFINE new == [sort |-> s, order |-> order, tickers |-> stored]
  <2>1. /\ reading[s] > 0 /\ reading' = [reading EXCEPT ![s] = @ - 1]
        /\ loaded' = [loaded EXCEPT ![new] = @ + 1]
        /\ UNCHANGED <<allRows, rows, page, pageSize, held, subscribed, stored, sort,
                       fetching, fetched, activity, listLoading, watchlistOnly>>
    BY <1>2, <2>0 DEF ReadTable
  <2>2. new \in Lists /\ new.sort = sort /\ new.tickers = stored
    BY <2>1, ListMade DEF CalmInv, Inv, RestOK, Quiet
  <2> HIDE DEF new
  <2>3. \A r \in Sorts : reading'[r] > 0 => reading[r] > 0 BY <1>t, <1>n, <2>1
  <2>4. \A l \in Lists : loaded'[l] > 0 => loaded[l] > 0 \/ l = new BY <1>t, <1>n, <2>1
  <2>5. Quiet' BY <2>1, <2>2, <2>3, <2>4 DEF CalmInv, Quiet
  <2>6. loaded'[new] > 0 BY <1>t, <1>n, <2>1, <2>2
  <2>7. HeaderNamesOrder'
    <3>1. NoList'[new] = 0 BY <2>2 DEF NoList
    <3>2. QED BY <2>6, <3>1 DEF HeaderNamesOrder, AtRest
  <2>8. QED
    <3>1. LiveUnlessTyping'
      BY <2>1 DEF CalmInv, LiveUnlessTyping, VisibleIsLive, StreamSymbols,
                  Window, WindowEnd, WindowStart
    <3>2. Admitted' = Admitted
      BY <1>2 DEF Admitted, IsFuzzy, ReadTable
    <3>3. QED BY <2>1, <2>5, <2>7, <3>1, <3>2, FilteredStep
<1>3. QED BY <1>1, <1>2

\* The other calm steps: those that filter, those that move in the view, and
\* those that change what is held or watched.
LEMMA CalmFilters ==
  ASSUME CalmInv,
         \/ StartFuzzySearch
         \/ \E q \in Queries \cup {Empty} : TypeQuery(q)
         \/ \E next \in {"idle", "ticker"} : CancelFuzzySearch(next)
         \/ ~listLoading /\ ToggleWatchlistOnly
         \/ watchlistOnly /\ ToggleWatchlist
  PROVE  Quiet' /\ LiveUnlessTyping' /\ ViewIsFiltered' /\ HeaderNamesOrder'
<1> USE DEF view, input, watch, reloads, fetches
<1>1. /\ fetching = {} /\ fetched = {} /\ held \subseteq ToSet(allRows)
      /\ listLoading => ~watchlistOnly
  BY DEF CalmInv, Quiet
<1>2. CASE StartFuzzySearch
  BY <1>1, <1>2, QuietStep, LiveStep, FilteredStep DEF StartFuzzySearch, Filtering
<1>3. ASSUME NEW q \in Queries \cup {Empty}, TypeQuery(q)
      PROVE  Quiet' /\ LiveUnlessTyping' /\ ViewIsFiltered' /\ HeaderNamesOrder'
  BY <1>1, <1>3, QuietStep, LiveStep, FilteredStep DEF TypeQuery, Filtering
<1>4. ASSUME NEW next \in {"idle", "ticker"}, CancelFuzzySearch(next)
      PROVE  Quiet' /\ LiveUnlessTyping' /\ ViewIsFiltered' /\ HeaderNamesOrder'
  BY <1>1, <1>4, QuietStep, LiveStep, FilteredStep DEF CancelFuzzySearch, Filtering
<1>5. CASE ~listLoading /\ ToggleWatchlistOnly
  BY <1>1, <1>5, QuietStep, LiveStep, FilteredStep DEF ToggleWatchlistOnly, Filtering
<1>6. CASE watchlistOnly /\ ToggleWatchlist
  BY <1>1, <1>6, QuietStep, LiveStep, FilteredStep DEF ToggleWatchlist
<1>7. QED BY <1>2, <1>3, <1>4, <1>5, <1>6

LEMMA CalmMoves ==
  ASSUME CalmInv,
         \/ Paginate
         \/ \E delta \in {1, -1} : MoveSelection(delta)
         \/ \E size \in Sizes : SetPageSize(size)
         \/ AcceptFuzzySearch
         \/ TickerLine
  PROVE  Quiet' /\ LiveUnlessTyping' /\ ViewIsFiltered' /\ HeaderNamesOrder'
<1> USE DEF view, input, watch, reloads, fetches
<1>1. /\ fetching = {} /\ fetched = {} /\ held \subseteq ToSet(allRows)
      /\ listLoading => ~watchlistOnly
  BY DEF CalmInv, Quiet
<1>2. UNCHANGED <<query, watchlist, watchlistOnly>> /\ (IsFuzzy' <=> IsFuzzy)
        => Admitted' = Admitted
  BY DEF Admitted
<1>3. ASSUME NEW p, TurnTo(p)
      PROVE  Quiet' /\ LiveUnlessTyping' /\ ViewIsFiltered' /\ HeaderNamesOrder'
  BY <1>1, <1>2, <1>3, QuietStep, LiveStep, FilteredStep DEF TurnTo, IsFuzzy
<1>4. CASE Paginate BY <1>3, <1>4 DEF Paginate
<1>5. ASSUME NEW delta \in {1, -1}, MoveSelection(delta)
      PROVE  Quiet' /\ LiveUnlessTyping' /\ ViewIsFiltered' /\ HeaderNamesOrder'
  BY <1>1, <1>2, <1>5, QuietStep, LiveStep, FilteredStep
  DEF MoveSelection, IsFuzzy, CommandKey, IsFocused
<1>6. ASSUME NEW size \in Sizes, SetPageSize(size)
      PROVE  Quiet' /\ LiveUnlessTyping' /\ ViewIsFiltered' /\ HeaderNamesOrder'
  BY <1>1, <1>2, <1>6, QuietStep, LiveStep, FilteredStep DEF SetPageSize, IsFuzzy
<1>7. CASE AcceptFuzzySearch
  <2>1. IsFuzzy' <=> IsFuzzy BY <1>7 DEF AcceptFuzzySearch, IsFuzzy
  <2>2. QED
    BY <1>1, <1>2, <1>7, <2>1, QuietStep, LiveStep, FilteredStep DEF AcceptFuzzySearch
<1>8. CASE TickerLine
  <2>1. CASE activity = "applied" /\ CancelFuzzySearch("ticker")
    BY <2>1, CalmFilters
  <2>2. CASE /\ \/ activity = "idle" /\ activity' = "ticker"
                \/ activity = "ticker" /\ activity' = "idle"
             /\ UNCHANGED <<view, sort, query, watch, held, subscribed, stored,
                            reloads, fetches, keys>>
    <3>1. (IsFuzzy' <=> IsFuzzy) /\ activity # "fuzzy" BY <2>2 DEF IsFuzzy
    <3>2. QED BY <1>1, <1>2, <2>2, <3>1, QuietStep, LiveStep, FilteredStep
  <2>3. QED BY <1>8, <2>1, <2>2 DEF TickerLine
<1>9. QED BY <1>4, <1>5, <1>6, <1>7, <1>8

LEMMA CalmHoldings ==
  ASSUME CalmInv,
         \/ ~watchlistOnly /\ ToggleWatchlist
         \/ \E list \in Watchlists : WatchlistLoaded(list)
         \/ \E tickers \in SUBSET Holdable :
              tickers \subseteq ToSet(allRows) /\ PortfolioLoaded(tickers)
         \/ \E t \in Holdable :
              held \cup {t} \subseteq ToSet(allRows) /\ SaveHolding(t)
         \/ \E t \in Holdable : DeleteHolding(t)
  PROVE  Quiet' /\ LiveUnlessTyping' /\ ViewIsFiltered' /\ HeaderNamesOrder'
<1> USE DEF view, input, watch, reloads, fetches
<1>1. /\ fetching = {} /\ fetched = {} /\ held \subseteq ToSet(allRows)
      /\ listLoading => ~watchlistOnly
  BY DEF CalmInv, Quiet
<1>2. UNCHANGED <<query, activity, watchlistOnly>>
        /\ (watchlistOnly => watchlist' = watchlist) => Admitted' = Admitted
  BY DEF Admitted, IsFuzzy
<1>3. CASE ~watchlistOnly /\ ToggleWatchlist
  BY <1>1, <1>2, <1>3, QuietStep, LiveStep, FilteredStep
  DEF ToggleWatchlist, CommandKey, IsFocused
<1>4. ASSUME NEW list \in Watchlists, WatchlistLoaded(list)
      PROVE  Quiet' /\ LiveUnlessTyping' /\ ViewIsFiltered' /\ HeaderNamesOrder'
  <2>1. LiveUnlessTyping'
    BY <1>4 DEF WatchlistLoaded, CalmInv, LiveUnlessTyping, VisibleIsLive,
                StreamSymbols, Window, WindowEnd, WindowStart
  <2>2. QED BY <1>1, <1>2, <1>4, <2>1, QuietStep, FilteredStep DEF WatchlistLoaded
<1>5. ASSUME NEW tickers, tickers \subseteq ToSet(allRows), Hold(tickers)
      PROVE  Quiet' /\ LiveUnlessTyping' /\ ViewIsFiltered' /\ HeaderNamesOrder'
  <2>1. fetching' = {} BY <1>1, <1>5 DEF Hold
  <2>2. QED BY <1>1, <1>2, <1>5, <2>1, QuietStep, LiveStep, FilteredStep DEF Hold
<1>6. ASSUME NEW t \in Holdable, DeleteHolding(t)
      PROVE  Quiet' /\ LiveUnlessTyping' /\ ViewIsFiltered' /\ HeaderNamesOrder'
  <2>1. LiveUnlessTyping'
    BY <1>6 DEF DeleteHolding, CalmInv, LiveUnlessTyping, VisibleIsLive,
                StreamSymbols, Window, WindowEnd, WindowStart
  <2>2. held' \subseteq ToSet(allRows) BY <1>1, <1>6 DEF DeleteHolding
  <2>3. QED BY <1>1, <1>2, <1>6, <2>1, <2>2, QuietStep, FilteredStep DEF DeleteHolding
<1>7. QED BY <1>3, <1>4, <1>5, <1>6 DEF PortfolioLoaded, SaveHolding

\* Nothing is fetched, held without a row, or listed without being stored.
LEMMA CalmRulesOut ==
  ASSUME CalmInv, NEW t \in Ticker
  PROVE  ~(\/ FetchStored(t) \/ FetchFails(t) \/ FetchCompleted(t)
           \/ Materialize(t) \/ RecordSnapshot(t))
BY DEF CalmInv, Quiet, FetchStored, FetchFails, FetchCompleted, Materialize,
       RecordSnapshot

\* A calm step is a step of the table.
LEMMA CalmStepsAreSteps == Calmly!Next => Next
BY CalmStep DEF Next

LEMMA CalmInvStep == CalmInv /\ Calmly!Next => CalmInv'
<1> SUFFICES ASSUME CalmInv, Calmly!Next PROVE CalmInv'
  OBVIOUS
<1>1. Next BY CalmStepsAreSteps
<1>2. Inv' BY <1>1, InvStep DEF CalmInv
<1>3. Quiet' /\ LiveUnlessTyping' /\ ViewIsFiltered' /\ HeaderNamesOrder'
  BY CalmStep, CalmRulesOut, CalmPageLoaded, CalmReloads, CalmFilters, CalmMoves,
     CalmHoldings
<1>4. QED BY <1>2, <1>3 DEF CalmInv

LEMMA CalmInvStutter == CalmInv /\ UNCHANGED vars => CalmInv'
<1> SUFFICES ASSUME CalmInv, UNCHANGED vars PROVE CalmInv'
  OBVIOUS
<1> USE DEF vars, view, input, watch, reloads, fetches
<1>1. Inv' BY InvStep DEF CalmInv
<1>2. Quiet' /\ HeaderNamesOrder'
  BY QuietStep DEF CalmInv, Quiet
<1>3. LiveUnlessTyping' /\ ViewIsFiltered'
  BY DEF CalmInv, LiveUnlessTyping, VisibleIsLive, StreamSymbols, Window,
         WindowEnd, WindowStart, ViewIsFiltered, Filtered, Admitted, IsFuzzy
<1>4. QED BY <1>1, <1>2, <1>3 DEF CalmInv

\* Without fetches, failures and overlapping reloads, every visible and every
\* held ticker is live unless a query is being typed, the table shows what the
\* search and the watchlist let through, and the rows at rest are in an order that
\* a reload read for the column and the direction in the header, whatever prices
\* have done since (apply_filter, spawn_reload, stream_symbols).
THEOREM CalmViewHolds == MCSpec => []CalmView
<1> DEFINE I == regime = "calm" => CalmInv
<1>1. MCInit => I
  BY CalmInit DEF MCInit
<1>2. I /\ [MCNext]_<<vars, regime>> => I'
  <2> SUFFICES ASSUME I, [MCNext]_<<vars, regime>>, regime' = "calm" PROVE CalmInv'
    OBVIOUS
  <2>1. CASE MCNext
    <3>1. regime = "calm" /\ Calmly!Next BY <2>1 DEF MCNext
    <3>2. QED BY <3>1, CalmInvStep
  <2>2. CASE UNCHANGED <<vars, regime>>
    BY <2>2, CalmInvStutter
  <2>3. QED BY <2>1, <2>2
<1>3. I => CalmView
  BY DEF CalmInv, CalmView
<1>4. QED BY <1>1, <1>2, <1>3, PTL DEF MCSpec
=============================================================================
