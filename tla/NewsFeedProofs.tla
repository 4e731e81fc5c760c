--------------------------- MODULE NewsFeedProofs ---------------------------
(***************************************************************************)
(* Proofs about the watchlist and the news feed, for any finite set of     *)
(* tickers, any headlines and any bounds.                                  *)
(***************************************************************************)
EXTENDS MCNewsFeed, FiniteSetTheorems, WellFoundedInduction, TLAPS

-----------------------------------------------------------------------------
(***************************************************************************)
(* Sums over a finite set.  MapThenSumSet is a recursive function on the   *)
(* subsets; it exists because it does on those of at most k elements, for  *)
(* every k.                                                                *)
(***************************************************************************)
\* A set of natural numbers that is not empty has a least element.
LEMMA NatMin ==
  ASSUME NEW S \in SUBSET Nat, S # {}
  PROVE  \E m \in S : \A n \in S : m <= n
<1>1. PICK m \in S : \A n \in S : ~(<<n, m>> \in OpToRel(<, Nat))
  BY NatLessThanWellFounded, WFMin, Zenon
<1>2. \A n \in S : ~(n < m)
  BY <1>1 DEF OpToRel
<1>3. QED BY <1>2

Total(f, A) == MapThenSumSet(LAMBDA x : f[x], A)

Chosen(s) == CHOOSE x \in s : TRUE

Small(A, k) == {s \in SUBSET A : Cardinality(s) <= k}

\* g follows the recursion of the sum on the subsets of at most k elements.
IsSum(g, f, A, k) ==
  g = [s \in Small(A, k) |->
         IF s = {} THEN 0 ELSE f[Chosen(s)] + g[s \ {Chosen(s)}]]

LEMMA ChosenIs ==
  ASSUME NEW A, IsFiniteSet(A), NEW s \in SUBSET A, s # {}
  PROVE  /\ Chosen(s) \in s
         /\ s \ {Chosen(s)} \in SUBSET A
         /\ Cardinality(s) \in Nat \ {0}
         /\ Cardinality(s \ {Chosen(s)}) = Cardinality(s) - 1
<1>1. Chosen(s) \in s BY DEF Chosen
<1>2. IsFiniteSet(s) BY FS_Subset
<1>3. Cardinality(s) \in Nat /\ Cardinality(s) # 0
  BY <1>2, FS_CardinalityType, FS_EmptySet
<1>4. Cardinality(s \ {Chosen(s)}) = Cardinality(s) - 1
  BY <1>1, <1>2, FS_RemoveElement
<1>5. QED BY <1>1, <1>3, <1>4

LEMMA SumValue ==
  ASSUME NEW A, NEW f, NEW k, NEW g, IsSum(g, f, A, k), NEW s \in Small(A, k)
  PROVE  /\ s = {} => g[s] = 0
         /\ s # {} => g[s] = f[Chosen(s)] + g[s \ {Chosen(s)}]
BY DEF IsSum

LEMMA SumExists ==
  ASSUME NEW A, IsFiniteSet(A), NEW f, NEW k \in Nat
  PROVE  \E g : IsSum(g, f, A, k)
<1> DEFINE Bad == {m \in Nat : ~\E g : IsSum(g, f, A, m)}
<1>1. SUFFICES ASSUME Bad # {} PROVE FALSE
  OBVIOUS
<1>s. Bad \in SUBSET Nat
  OBVIOUS
<1>2. PICK m \in Bad : \A n \in Bad : m <= n
  <2> HIDE DEF Bad
  <2>1. QED BY <1>1, <1>s, NatMin
<1>3. m # 0
  <2> DEFINE g == [s \in Small(A, 0) |-> 0]
  <2>1. ASSUME NEW s \in Small(A, 0) PROVE s = {}
    <3>1. s \in SUBSET A /\ Cardinality(s) <= 0 BY DEF Small
    <3>2. s # {} => Cardinality(s) \in Nat \ {0} BY <3>1, ChosenIs
    <3>3. QED BY <3>1, <3>2
  <2>2. g = [s \in Small(A, 0) |->
               IF s = {} THEN 0 ELSE f[Chosen(s)] + g[s \ {Chosen(s)}]]
    BY <2>1
  <2>3. IsSum(g, f, A, 0) BY <2>2 DEF IsSum
  <2>4. QED BY <2>3
<1>4. PICK g : IsSum(g, f, A, m - 1)
  BY <1>2, <1>3
<1>5. PICK h : h = [s \in Small(A, m) |->
                      IF s = {} THEN 0 ELSE f[Chosen(s)] + g[s \ {Chosen(s)}]]
  OBVIOUS
<1>6. ASSUME NEW s \in Small(A, m), s # {}
      PROVE  s \ {Chosen(s)} \in Small(A, m - 1) /\ s \ {Chosen(s)} \in Small(A, m)
  BY <1>6, <1>2, ChosenIs DEF Small
<1>7. ASSUME NEW s \in Small(A, m - 1) PROVE h[s] = g[s]
  <2>1. s \in Small(A, m)
    <3>1. IsFiniteSet(s) /\ Cardinality(s) \in Nat
      BY FS_Subset, FS_CardinalityType DEF Small
    <3>2. QED BY <3>1, <1>2 DEF Small
  <2>2. QED BY <1>4, <1>5, <2>1, SumValue
<1>8. \A s \in Small(A, m) :
        h[s] = IF s = {} THEN 0 ELSE f[Chosen(s)] + h[s \ {Chosen(s)}]
  BY <1>5, <1>6, <1>7
<1>9. IsSum(h, f, A, m)
  BY <1>5, <1>8 DEF IsSum
<1>10. QED BY <1>9

\* The sum over A, as the value at A of a function that follows the recursion.
Sums(g, f, A) ==
  /\ g[{}] = 0
  /\ \A s \in SUBSET A : s # {} => g[s] = f[Chosen(s)] + g[s \ {Chosen(s)}]

LEMMA TotalIs ==
  ASSUME NEW A, IsFiniteSet(A), NEW f
  PROVE  \E g : Total(f, A) = g[A] /\ Sums(g, f, A)
<1> DEFINE n == Cardinality(A)
<1>1. n \in Nat BY FS_CardinalityType
<1>2. Small(A, n) = SUBSET A
  BY FS_Subset DEF Small
<1>3. \E g : IsSum(g, f, A, n) /\ Total(f, A) = g[A]
  <2> DEFINE g == CHOOSE g : IsSum(g, f, A, n)
  <2>1. IsSum(g, f, A, n)
    BY <1>1, SumExists
  <2>2. Total(f, A) = g[A]
    BY <1>2 DEF Total, MapThenSumSet, MapThenFoldSet, IsSum, Chosen
  <2>3. QED BY <2>1, <2>2
<1>4. PICK g : IsSum(g, f, A, n) /\ Total(f, A) = g[A]
  BY <1>3
<1>5. ASSUME NEW s \in SUBSET A
      PROVE  /\ s = {} => g[s] = 0
             /\ s # {} => g[s] = f[Chosen(s)] + g[s \ {Chosen(s)}]
  <2>1. s \in Small(A, n) BY <1>2
  <2>2. QED BY <1>4, <2>1, SumValue
<1>6. Sums(g, f, A) BY <1>5 DEF Sums
<1>7. QED BY <1>4, <1>6

\* Among the subsets in a set of subsets there is one that is smallest.
LEMMA SmallestIs ==
  ASSUME NEW A, IsFiniteSet(A), NEW Bad \in SUBSET SUBSET A, Bad # {}
  PROVE  \E s \in Bad : \A t \in Bad : Cardinality(s) <= Cardinality(t)
<1> DEFINE Sizes == {Cardinality(s) : s \in Bad}
<1>1. Sizes \in SUBSET Nat /\ Sizes # {}
  BY FS_Subset, FS_CardinalityType
<1>2. PICK m \in Sizes : \A n \in Sizes : m <= n
  <2> HIDE DEF Sizes
  <2>1. QED BY <1>1, NatMin
<1>3. QED BY <1>2

\* A sum of natural numbers is one, and zero if they all are.
LEMMA TotalNat ==
  ASSUME NEW A, IsFiniteSet(A), NEW f \in [A -> Nat]
  PROVE  /\ Total(f, A) \in Nat
         /\ (\A x \in A : f[x] = 0) => Total(f, A) = 0
<1>g. PICK g : Total(f, A) = g[A] /\ Sums(g, f, A)
  BY TotalIs
<1>1. /\ Total(f, A) = g[A] /\ g[{}] = 0
      /\ \A s \in SUBSET A :
           s # {} => g[s] = f[Chosen(s)] + g[s \ {Chosen(s)}]
  BY <1>g DEF Sums
<1> DEFINE Good(s) == g[s] \in Nat /\ ((\A x \in A : f[x] = 0) => g[s] = 0)
           Bad == {s \in SUBSET A : ~Good(s)}
<1>2. SUFFICES ASSUME Bad # {} PROVE FALSE
  BY <1>1
<1>3. PICK s \in Bad : \A t \in Bad : Cardinality(s) <= Cardinality(t)
  <2>1. Bad \in SUBSET SUBSET A OBVIOUS
  <2> HIDE DEF Bad
  <2>2. QED BY <1>2, <2>1, SmallestIs
<1>4. s # {}
  <2>1. Good({}) BY <1>1
  <2>2. QED BY <1>3, <2>1
<1> DEFINE x == Chosen(s)  rest == s \ {x}
<1>5. /\ x \in A /\ rest \in SUBSET A /\ Cardinality(s) \in Nat \ {0}
      /\ Cardinality(rest) = Cardinality(s) - 1
  BY <1>3, <1>4, ChosenIs
<1>6. Good(rest) BY <1>3, <1>5
<1>7. g[s] = f[x] + g[rest] BY <1>1, <1>3, <1>4
<1>8. f[x] \in Nat BY <1>5
<1> HIDE DEF x, rest
<1>9. Good(s) BY <1>5, <1>6, <1>7, <1>8
<1>10. QED BY <1>3, <1>9

\* One more for each element of B adds as many as there are in B.
LEMMA TotalPlus ==
  ASSUME NEW A, IsFiniteSet(A), NEW f \in [A -> Nat], NEW B \in SUBSET A
  PROVE  Total([x \in A |-> f[x] + IF x \in B THEN 1 ELSE 0], A)
           = Total(f, A) + Cardinality(B)
<1> DEFINE h == [x \in A |-> f[x] + IF x \in B THEN 1 ELSE 0]
<1>g. PICK g : Total(f, A) = g[A] /\ Sums(g, f, A)
  BY TotalIs
<1>1. /\ Total(f, A) = g[A] /\ g[{}] = 0
      /\ \A s \in SUBSET A :
           s # {} => g[s] = f[Chosen(s)] + g[s \ {Chosen(s)}]
  BY <1>g DEF Sums
<1>k. PICK k : Total(h, A) = k[A] /\ Sums(k, h, A)
  BY TotalIs
<1>2. /\ Total(h, A) = k[A] /\ k[{}] = 0
      /\ \A s \in SUBSET A :
           s # {} => k[s] = h[Chosen(s)] + k[s \ {Chosen(s)}]
  BY <1>k DEF Sums
<1> DEFINE Good(s) == g[s] \in Nat /\ k[s] = g[s] + Cardinality(s \cap B)
           Bad == {s \in SUBSET A : ~Good(s)}
<1>3. SUFFICES ASSUME Bad # {} PROVE FALSE
  <2>1. Good(A) BY <1>3
  <2>2. A \cap B = B OBVIOUS
  <2>3. QED BY <1>1, <1>2, <2>1, <2>2
<1>4. PICK s \in Bad : \A t \in Bad : Cardinality(s) <= Cardinality(t)
  <2>1. Bad \in SUBSET SUBSET A OBVIOUS
  <2> HIDE DEF Bad
  <2>2. QED BY <1>3, <2>1, SmallestIs
<1>5. s # {}
  <2>1. Cardinality({} \cap B) = 0
    <3>1. {} \cap B = {} OBVIOUS
    <3>2. QED BY <3>1, FS_EmptySet
  <2>2. Good({}) BY <1>1, <1>2, <2>1
  <2>3. QED BY <1>4, <2>2
<1> DEFINE x == Chosen(s)  rest == s \ {x}
<1>6. /\ x \in s /\ x \in A /\ rest \in SUBSET A /\ Cardinality(s) \in Nat \ {0}
      /\ Cardinality(rest) = Cardinality(s) - 1
  BY <1>4, <1>5, ChosenIs
<1>7. Good(rest) BY <1>4, <1>6
<1>8. g[s] = f[x] + g[rest] /\ k[s] = h[x] + k[rest]
  BY <1>1, <1>2, <1>4, <1>5
<1>9. f[x] \in Nat /\ h[x] = f[x] + IF x \in B THEN 1 ELSE 0 BY <1>6
<1>10. /\ Cardinality(rest \cap B) \in Nat
       /\ Cardinality(s \cap B) = Cardinality(rest \cap B) + IF x \in B THEN 1 ELSE 0
  <2>1. IsFiniteSet(s \cap B)
    BY <1>4, FS_Subset
  <2>2. rest \cap B = (s \cap B) \ {x} OBVIOUS
  <2>3. /\ IsFiniteSet((s \cap B) \ {x})
        /\ Cardinality((s \cap B) \ {x})
             = IF x \in s \cap B THEN Cardinality(s \cap B) - 1 ELSE Cardinality(s \cap B)
    BY <2>1, FS_RemoveElement
  <2>4. Cardinality((s \cap B) \ {x}) \in Nat /\ Cardinality(s \cap B) \in Nat
    BY <2>1, <2>3, FS_CardinalityType
  <2>5. x \in s \cap B <=> x \in B BY <1>6
  <2>6. /\ Cardinality(rest \cap B) \in Nat
        /\ Cardinality(rest \cap B) = IF x \in B THEN Cardinality(s \cap B) - 1
                                     ELSE Cardinality(s \cap B)
    BY <2>2, <2>3, <2>4, <2>5
  <2> HIDE DEF x, rest
  <2>7. QED BY <2>4, <2>6
<1> HIDE DEF x, rest, h
<1>11. Good(s) BY <1>7, <1>8, <1>9, <1>10
<1>12. QED BY <1>4, <1>11

\* One less at one element takes one off.
LEMMA TotalMinus ==
  ASSUME NEW A, IsFiniteSet(A), NEW f \in [A -> Nat], NEW x \in A, f[x] > 0
  PROVE  /\ [f EXCEPT ![x] = @ - 1] \in [A -> Nat]
         /\ Total([f EXCEPT ![x] = @ - 1], A) = Total(f, A) - 1
         /\ Total(f, A) > 0
<1> DEFINE less == [f EXCEPT ![x] = @ - 1]
<1>1. less \in [A -> Nat] OBVIOUS
<1>2. f = [y \in A |-> less[y] + IF y \in {x} THEN 1 ELSE 0]
  OBVIOUS
<1>3. Cardinality({x}) = 1 BY FS_Singleton
<1> HIDE DEF less
<1>4. Total([y \in A |-> less[y] + IF y \in {x} THEN 1 ELSE 0], A)
        = Total(less, A) + Cardinality({x})
  BY <1>1, TotalPlus
<1>5. Total(less, A) \in Nat BY <1>1, TotalNat
<1>6. Total(f, A) = Total(less, A) + 1 BY <1>2, <1>3, <1>4
<1>7. QED BY <1>1, <1>5, <1>6 DEF less

-----------------------------------------------------------------------------
(***************************************************************************)
(* The invariant: types, finite feeds, and the answers the feed waits for. *)
(***************************************************************************)
Fetching == Total(fetching, Ticker)

LEMMA CoveredIs ==
  PendingIsCovered <=> loading = (pending > 0) /\ pending <= Fetching + Len(queue)
BY Zenon DEF PendingIsCovered, Fetching, Total

News == UNION {Headlines[t] : t \in Ticker}

Event == {e \in [ticker : Ticker, news : SUBSET News] : IsFiniteSet(e.news)}

FeedOK ==
  /\ requested \in BOOLEAN /\ loading \in BOOLEAN
  /\ pending \in Nat /\ refreshes \in 0..MaxRefreshes
  /\ items \subseteq Item /\ IsFiniteSet(items)
  /\ fetching \in [Ticker -> Nat]
  /\ queue \in Seq(Event)
  /\ asked \subseteq Ticker
  /\ (loading <=> pending > 0) /\ pending <= Fetching + Len(queue)

Inv == WatchTypeOK /\ selected \in Nat /\ FeedOK

LEMMA InvTypes == Inv => TypeOK /\ PendingIsCovered
<1> SUFFICES ASSUME Inv PROVE TypeOK /\ PendingIsCovered
  OBVIOUS
<1>0. loading = (pending > 0) BY DEF Inv, FeedOK
<1>1. PendingIsCovered BY <1>0, CoveredIs DEF Inv, FeedOK
<1>2. \A i \in DOMAIN queue : queue[i].ticker \in Ticker
  <2>1. ASSUME NEW i \in DOMAIN queue PROVE queue[i] \in Event
    BY DEF Inv, FeedOK
  <2>2. QED BY <2>1 DEF Event
<1>3. QED BY <1>1, <1>2 DEF Inv, FeedOK, TypeOK

LEMMA TickersFinite == IsFiniteSet(Ticker) /\ MaxToggles \in Nat
BY WatchlistAssumption

\* The watchlist's steps keep its types.
LEMMA WatchSteps ==
  ASSUME WatchTypeOK,
         \/ \E t \in Ticker : Toggle(t)
         \/ \E w \in writes : WriteRuns(w) \/ WriteFails(w)
         \/ ReadTable \/ LoadFails \/ WatchlistLoaded \/ Restart
         \/ UNCHANGED watchVars
  PROVE  WatchTypeOK'
<1> USE DEF WatchTypeOK
<1>1. ASSUME NEW t \in Ticker, Toggle(t) PROVE WatchTypeOK'
  <2>1. toggles + 1 \in 1..MaxToggles /\ toggles' \in 0..MaxToggles
    BY <1>1, TickersFinite DEF Toggle
  <2>2. [save |-> t \notin watch, ticker |-> t, n |-> toggles + 1] \in Write
    BY <2>1 DEF Write
  <2>3. writes' \subseteq Write BY <1>1, <2>2 DEF Toggle
  <2>4. watch' \subseteq Ticker BY <1>1 DEF Toggle
  <2>5. QED BY <1>1, <2>1, <2>3, <2>4 DEF Toggle, Write
<1>2. ASSUME NEW w \in writes, WriteRuns(w) PROVE WatchTypeOK'
  BY <1>2 DEF WriteRuns, Write
<1>3. ASSUME NEW w \in writes, WriteFails(w) PROVE WatchTypeOK'
  BY <1>3 DEF WriteFails, Write
<1>4. CASE ReadTable BY <1>4 DEF ReadTable, Write
<1>5. CASE LoadFails BY <1>5 DEF LoadFails, Write
<1>6. CASE WatchlistLoaded BY <1>6 DEF WatchlistLoaded, Write
<1>7. CASE Restart
  <2>1. 0 \in 0..MaxToggles BY TickersFinite
  <2>2. QED BY <1>7, <2>1 DEF Restart
<1>8. CASE UNCHANGED watchVars BY <1>8 DEF watchVars, Write
<1>9. QED BY <1>1, <1>2, <1>3, <1>4, <1>5, <1>6, <1>7, <1>8

\* A refresh asks at most the tickers there are, each once more.
LEMMA SourceIs ==
  ASSUME NEW w \in SUBSET Ticker
  PROVE  /\ FeedSource(w) \in SUBSET Ticker
         /\ Cardinality(FeedSource(w)) \in Nat
         /\ FeedSource(w) # {} <=> Cardinality(FeedSource(w)) > 0
<1>1. FeedSource(w) \in SUBSET Ticker BY DEF FeedSource
<1>2. IsFiniteSet(FeedSource(w)) BY <1>1, TickersFinite, FS_Subset
<1>3. QED BY <1>1, <1>2, FS_CardinalityType, FS_EmptySet

LEMMA RefreshTotal ==
  ASSUME FeedOK, NEW w \in SUBSET Ticker, Refresh(w)
  PROVE  /\ fetching' \in [Ticker -> Nat]
         /\ Fetching' = Fetching + Cardinality(FeedSource(w))
<1>1. fetching \in [Ticker -> Nat] /\ FeedSource(w) \in SUBSET Ticker
  BY SourceIs DEF FeedOK
<1>2. fetching' = [t \in Ticker |-> fetching[t] + IF t \in FeedSource(w) THEN 1 ELSE 0]
  BY DEF Refresh
<1>3. Total([t \in Ticker |-> fetching[t] + IF t \in FeedSource(w) THEN 1 ELSE 0], Ticker)
        = Total(fetching, Ticker) + Cardinality(FeedSource(w))
  BY <1>1, TickersFinite, TotalPlus
<1>4. QED BY <1>1, <1>2, <1>3 DEF Fetching

LEMMA RefreshStep ==
  ASSUME FeedOK, NEW w \in SUBSET Ticker, Refresh(w)
  PROVE  FeedOK'
<1>1. /\ FeedSource(w) \in SUBSET Ticker /\ Cardinality(FeedSource(w)) \in Nat
      /\ FeedSource(w) # {} <=> Cardinality(FeedSource(w)) > 0
  BY SourceIs
<1>2. /\ fetching' \in [Ticker -> Nat]
      /\ Fetching' = Fetching + Cardinality(FeedSource(w))
  BY RefreshTotal
<1>3. Fetching \in Nat /\ Len(queue) \in Nat
  BY TickersFinite, TotalNat DEF FeedOK, Fetching
<1>4. refreshes' \in 0..MaxRefreshes BY FeedAssumption DEF FeedOK, Refresh
<1>5. IsFiniteSet({}) BY FS_EmptySet
<1>6. pending' <= Fetching' + Len(queue')
  BY <1>1, <1>2, <1>3 DEF Refresh
<1>7. loading' \in BOOLEAN /\ (loading' <=> pending' > 0) BY <1>1 DEF Refresh
<1>8. QED BY <1>1, <1>2, <1>4, <1>5, <1>6, <1>7 DEF FeedOK, Refresh

LEMMA FetchEndsStep ==
  ASSUME FeedOK, NEW t \in Ticker, FetchEnds(t)
  PROVE  /\ FeedOK' /\ Fetching' = Fetching - 1 /\ Fetching > 0
         /\ \E e \in Event : queue' = Append(queue, e) /\ e.ticker = t
<1> USE DEF FeedOK
<1>1. fetching \in [Ticker -> Nat] /\ fetching[t] > 0
  BY DEF FetchEnds
<1>2. fetching' = [fetching EXCEPT ![t] = @ - 1] BY DEF FetchEnds
<1>3. fetching' \in [Ticker -> Nat] /\ Fetching' = Fetching - 1 /\ Fetching > 0
  BY <1>1, <1>2, TickersFinite, TotalMinus DEF Fetching
<1>4. PICK news \in {Headlines[t], {}} :
        queue' = Append(queue, [ticker |-> t, news |-> news])
  BY DEF FetchEnds
<1>5. [ticker |-> t, news |-> news] \in Event
  <2>1. IsFiniteSet(news) BY FeedAssumption, FS_EmptySet
  <2>2. news \subseteq News BY DEF News
  <2>3. QED BY <2>1, <2>2 DEF Event
<1>6. queue' \in Seq(Event) /\ Len(queue') = Len(queue) + 1 /\ Len(queue) \in Nat
  BY <1>4, <1>5
<1>7. Fetching \in Int BY <1>1, TickersFinite, TotalNat DEF Fetching
<1>8. pending' <= Fetching' + Len(queue')
  BY <1>3, <1>6, <1>7 DEF FetchEnds
<1>9. FeedOK' BY <1>3, <1>6, <1>8 DEF FetchEnds
<1>10. QED BY <1>3, <1>4, <1>5, <1>9

LEMMA MergeIs ==
  ASSUME NEW feed \in SUBSET Item, IsFiniteSet(feed), NEW e \in Event
  PROVE  /\ Merge(feed, e.ticker, e.news) \in SUBSET Item
         /\ IsFiniteSet(Merge(feed, e.ticker, e.news))
         /\ \A i \in Merge(feed, e.ticker, e.news) : i \in feed \/ i.ticker = e.ticker
<1> DEFINE fresh == {g \in e.news : \A i \in feed : i.headline # g}
           new == {[ticker |-> e.ticker, headline |-> h] : h \in fresh}
<1>1. /\ e.ticker \in Ticker /\ e.news \subseteq News /\ IsFiniteSet(e.news)
  BY DEF Event
<1>2. IsFiniteSet(fresh) BY <1>1, FS_Subset
<1>3. IsFiniteSet(new)
  <2> DEFINE tag == [h \in fresh |-> [ticker |-> e.ticker, headline |-> h]]
  <2>1. tag \in Surjection(fresh, new) BY DEF Surjection
  <2>2. QED BY <1>2, <2>1, FS_Surjection
<1>4. new \subseteq Item BY <1>1 DEF Item, News
<1>5. \A i \in new : i.ticker = e.ticker OBVIOUS
<1>6. Merge(feed, e.ticker, e.news) = feed \cup new BY DEF Merge
<1> HIDE DEF new
<1>7. IsFiniteSet(feed \cup new) BY <1>3, FS_Union
<1>8. QED BY <1>4, <1>5, <1>6, <1>7

LEMMA ReadyStep ==
  ASSUME FeedOK, NewsFeedItemReady
  PROVE  /\ FeedOK' /\ Fetching' = Fetching
         /\ Len(queue) > 0 /\ Len(queue') = Len(queue) - 1
         /\ Head(queue) \in Event
<1> USE DEF FeedOK
<1>1. /\ Head(queue) \in Event /\ queue' \in Seq(Event)
      /\ Len(queue') = Len(queue) - 1 /\ Len(queue) \in Nat \ {0}
  BY DEF NewsFeedItemReady
<1>2. items' = Merge(items, Head(queue).ticker, Head(queue).news)
  BY DEF NewsFeedItemReady
<1>3. items' \in SUBSET Item /\ IsFiniteSet(items') BY <1>1, <1>2, MergeIs
<1>4. fetching' = fetching /\ Fetching' = Fetching
  BY DEF NewsFeedItemReady, Fetching
<1>5. Fetching \in Nat BY TickersFinite, TotalNat DEF Fetching
<1>p. /\ pending' = IF pending = 0 THEN 0 ELSE pending - 1
      /\ loading' = (loading /\ pending' # 0)
  BY DEF NewsFeedItemReady
<1>6. /\ pending' \in Nat
      /\ pending' <= Fetching' + Len(queue')
      /\ pending' # 0 => pending > 0
      /\ pending' > 0 <=> pending' # 0
  BY <1>1, <1>4, <1>5, <1>p
<1>q. loading <=> pending > 0
  OBVIOUS
<1>l. loading' \in BOOLEAN /\ (loading' <=> pending' > 0) BY <1>p, <1>q, <1>6
<1>7. FeedOK' BY <1>1, <1>3, <1>4, <1>6, <1>l DEF NewsFeedItemReady
<1>8. QED BY <1>1, <1>4, <1>7

\* A feed left alone stays in order.
LEMMA FeedStutter ==
  ASSUME FeedOK, UNCHANGED <<requested, pending, loading, items, refreshes,
                             fetching, queue, asked>>
  PROVE  FeedOK' /\ Fetching' = Fetching
BY DEF FeedOK, Fetching

LEMMA EnsureStep ==
  ASSUME FeedOK, NEW w \in SUBSET Ticker, EnsureRequested(w)
  PROVE  FeedOK'
BY RefreshStep, FeedStutter DEF EnsureRequested

LEMMA InvInit == Init => Inv
<1> SUFFICES ASSUME Init PROVE Inv
  OBVIOUS
<1>1. WatchTypeOK
  <2>1. 0 \in 0..MaxToggles BY TickersFinite
  <2>2. QED BY <2>1 DEF Init, WatchInit, WatchTypeOK
<1>2. FeedOK
  <2>1. fetching \in [Ticker -> Nat] /\ \A t \in Ticker : fetching[t] = 0
    BY DEF Init, FeedInit
  <2>2. Fetching = 0 BY <2>1, TickersFinite, TotalNat DEF Fetching
  <2>3. IsFiniteSet({}) BY FS_EmptySet
  <2>4. 0 \in 0..MaxRefreshes BY FeedAssumption
  <2>5. queue \in Seq(Event) /\ Len(queue) = 0 BY DEF Init, FeedInit
  <2>6. /\ pending = 0 /\ loading = FALSE /\ items = {} /\ asked = {}
        /\ requested = FALSE /\ refreshes = 0
    BY DEF Init, FeedInit
  <2>7. (loading <=> pending > 0) /\ pending <= Fetching + Len(queue)
    BY <2>2, <2>5, <2>6
  <2>8. QED BY <2>1, <2>3, <2>4, <2>5, <2>6, <2>7 DEF FeedOK
<1>3. QED BY <1>1, <1>2 DEF Init, FeedInit, Inv

LEMMA RestartStep == RestartFeed /\ Inv => Inv'
<1> SUFFICES ASSUME RestartFeed, Inv PROVE Inv'
  OBVIOUS
<1>1. WatchTypeOK' BY WatchSteps DEF RestartFeed, Inv
<1>2. FeedOK'
  <2>1. fetching' \in [Ticker -> Nat] /\ \A t \in Ticker : fetching'[t] = 0
    BY DEF RestartFeed
  <2>2. Fetching' = 0 BY <2>1, TickersFinite, TotalNat DEF Fetching
  <2>3. IsFiniteSet({}) BY FS_EmptySet
  <2>4. 0 \in 0..MaxRefreshes BY FeedAssumption
  <2>5. queue' \in Seq(Event) /\ Len(queue') = 0 BY DEF RestartFeed
  <2>6. /\ pending' = 0 /\ loading' = FALSE /\ items' = {} /\ asked' = {}
        /\ requested' = FALSE /\ refreshes' = 0
    BY DEF RestartFeed
  <2>7. (loading' <=> pending' > 0) /\ pending' <= Fetching' + Len(queue')
    BY <2>2, <2>5, <2>6
  <2>8. QED BY <2>1, <2>3, <2>4, <2>5, <2>6, <2>7 DEF FeedOK
<1>3. QED BY <1>1, <1>2 DEF RestartFeed, Inv

LEMMA InvStep == Inv /\ [Next]_vars => Inv'
<1> SUFFICES ASSUME Inv, [Next]_vars PROVE Inv'
  OBVIOUS
<1> USE DEF Inv
<1>w. watch \in SUBSET Ticker BY DEF WatchTypeOK
<1>1. CASE EnterNews
  BY <1>1, <1>w, WatchSteps, EnsureStep DEF EnterNews
<1>2. CASE PressRefresh
  BY <1>2, <1>w, WatchSteps, RefreshStep DEF PressRefresh
<1>3. CASE LoadedAndEnsured
  <2>1. WatchTypeOK' BY <1>3, WatchSteps DEF LoadedAndEnsured
  <2>2. watch' \in SUBSET Ticker BY <2>1 DEF WatchTypeOK
  <2>3. QED BY <1>3, <2>1, <2>2, EnsureStep DEF LoadedAndEnsured
<1>4. CASE RestartFeed BY <1>4, RestartStep
<1>5. ASSUME NEW d \in {-1, 1}, Move(d) PROVE Inv'
  <2>1. Cardinality(items) \in Nat /\ Cardinality(items) # 0
    BY <1>5, FS_CardinalityType, FS_EmptySet DEF Move, FeedOK
  <2>2. selected' \in Nat BY <1>5, <2>1 DEF Move
  <2>3. QED BY <1>5, <2>2, WatchSteps, FeedStutter DEF Move
<1>6. ASSUME NEW t \in Ticker, ToggleAndRefresh(t) PROVE Inv'
  <2>1. WatchTypeOK' BY <1>6, WatchSteps DEF ToggleAndRefresh
  <2>2. watch' \in SUBSET Ticker BY <2>1 DEF WatchTypeOK
  <2>3. QED BY <1>6, <2>1, <2>2, RefreshStep DEF ToggleAndRefresh
<1>7. ASSUME NEW t \in Ticker, FetchEnds(t) PROVE Inv'
  <2>1. FeedOK' BY <1>7, FetchEndsStep
  <2>2. UNCHANGED <<watchVars, selected>> BY <1>7 DEF FetchEnds
  <2>3. QED BY <2>1, <2>2, WatchSteps
<1>8. CASE NewsFeedItemReady
  <2>1. FeedOK' BY <1>8, ReadyStep
  <2>2. UNCHANGED <<watchVars, selected>> BY <1>8 DEF NewsFeedItemReady
  <2>3. QED BY <2>1, <2>2, WatchSteps
<1>9. CASE /\ \/ ReadTable \/ LoadFails
              \/ \E w \in writes : WriteRuns(w) \/ WriteFails(w)
           /\ UNCHANGED feedVars
  BY <1>9, WatchSteps, FeedStutter DEF feedVars
<1>10. CASE UNCHANGED vars
  BY <1>10, WatchSteps, FeedStutter DEF vars, feedVars
<1>11. QED
  BY <1>1, <1>2, <1>3, <1>4, <1>5, <1>6, <1>7, <1>8, <1>9, <1>10 DEF Next

LEMMA InvHolds == Spec => []Inv
BY InvInit, InvStep, PTL DEF Spec

\* Every variable of the watchlist and the feed keeps its range, through any
\* overlap of loads, writes, refreshes, fetches and restarts.
THEOREM TypeCorrect == Spec => []TypeOK
BY InvHolds, InvTypes, PTL

\* As long as the feed says it is loading, the answers it waits for are running
\* or on their way, whichever refreshes have overtaken each other
\* (refresh_news_feed, NewsFeedItemReady).
THEOREM PendingIsCoveredHolds == Spec => []PendingIsCovered
BY InvHolds, InvTypes, PTL

-----------------------------------------------------------------------------
(***************************************************************************)
(* The patient regime.                                                     *)
(***************************************************************************)
\* A patient step is a step: a refresh finds the feed at rest, a toggle finds
\* the watchlist loaded and no write of its ticker outstanding.
Unhurried(t) == load = "done" /\ \A w \in writes : w.ticker # t

PatientNext ==
  \/ \E t \in Ticker : FetchEnds(t)
  \/ NewsFeedItemReady
  \/ \E d \in {-1, 1} : Move(d)
  \/ RestartFeed
  \/ /\ \/ ReadTable \/ LoadFails
        \/ \E w \in writes : WriteRuns(w) \/ WriteFails(w)
     /\ UNCHANGED feedVars
  \/ EnterNews /\ (~requested => FeedAtRest)
  \/ PressRefresh /\ FeedAtRest
  \/ LoadedAndEnsured /\ (~requested => FeedAtRest)
  \/ \E t \in Ticker : ToggleAndRefresh(t) /\ FeedAtRest /\ Unhurried(t)

LEMMA PatientIsNext == PatientNext => Next
BY DEF PatientNext, Next

LEMMA PatientStep ==
  ASSUME Patiently!Next
  PROVE  PatientNext
<1>c. \A q : Patiently!Cardinality(q) = Cardinality(q)
  BY DEF Patiently!Cardinality, Cardinality
<1>r. ASSUME NEW w, Patiently!Refresh(w) PROVE Refresh(w) /\ FeedAtRest
  <2>1. Patiently!FeedSource(w) = FeedSource(w)
    BY <1>c DEF Patiently!FeedSource, FeedSource
  <2>2. FeedAtRest
    BY <1>r DEF Patiently!Refresh, Patiently!FeedAtRest, FeedAtRest,
                Patiently!Fetches, Fetches
  <2>3. QED BY <1>r, <1>c, <2>1, <2>2 DEF Patiently!Refresh, Refresh
<1>e. ASSUME NEW w, Patiently!EnsureRequested(w)
      PROVE  EnsureRequested(w) /\ (~requested => FeedAtRest)
  BY <1>e, <1>r DEF Patiently!EnsureRequested, EnsureRequested
<1> USE DEF Patiently!watchVars, watchVars
<1>1. ASSUME Patiently!EnterNews PROVE EnterNews /\ (~requested => FeedAtRest)
  BY <1>1, <1>e DEF Patiently!EnterNews, EnterNews
<1>2. ASSUME Patiently!PressRefresh PROVE PressRefresh /\ FeedAtRest
  BY <1>2, <1>r DEF Patiently!PressRefresh, PressRefresh
<1>3. ASSUME Patiently!LoadedAndEnsured
      PROVE  LoadedAndEnsured /\ (~requested => FeedAtRest)
  <2>1. WatchlistLoaded
    BY <1>3 DEF Patiently!LoadedAndEnsured, Patiently!WatchlistLoaded, WatchlistLoaded
  <2>2. QED BY <1>3, <1>e, <2>1 DEF Patiently!LoadedAndEnsured, LoadedAndEnsured
<1>4. ASSUME Patiently!RestartFeed PROVE RestartFeed
  BY <1>4 DEF Patiently!RestartFeed, RestartFeed, Patiently!Restart, Restart
<1>5. ASSUME NEW d \in {-1, 1}, Patiently!Move(d) PROVE Move(d)
  BY <1>5, <1>c DEF Patiently!Move, Move
<1>6. ASSUME NEW t \in Ticker, Patiently!ToggleAndRefresh(t)
      PROVE  ToggleAndRefresh(t) /\ FeedAtRest /\ Unhurried(t)
  <2>1. Toggle(t) /\ Unhurried(t)
    BY <1>6 DEF Patiently!ToggleAndRefresh, Patiently!Toggle, Toggle, Unhurried
  <2>2. QED BY <1>6, <1>r, <2>1 DEF Patiently!ToggleAndRefresh, ToggleAndRefresh
<1>7. ASSUME NEW t \in Ticker, Patiently!FetchEnds(t) PROVE FetchEnds(t)
  BY <1>7 DEF Patiently!FetchEnds, FetchEnds
<1>8. ASSUME Patiently!NewsFeedItemReady PROVE NewsFeedItemReady
  <2>1. Patiently!Merge(items, Head(queue).ticker, Head(queue).news)
          = Merge(items, Head(queue).ticker, Head(queue).news)
    BY DEF Patiently!Merge, Merge
  <2>2. QED BY <1>8, <2>1 DEF Patiently!NewsFeedItemReady, NewsFeedItemReady
<1>9. Patiently!ReadTable => ReadTable
  BY DEF Patiently!ReadTable, ReadTable
<1>10. Patiently!LoadFails => LoadFails
  BY DEF Patiently!LoadFails, LoadFails
<1>11. \A w : /\ Patiently!WriteRuns(w) => WriteRuns(w)
              /\ Patiently!WriteFails(w) => WriteFails(w)
  BY DEF Patiently!WriteRuns, WriteRuns, Patiently!WriteFails, WriteFails
<1>12. UNCHANGED Patiently!feedVars => UNCHANGED feedVars
  BY DEF Patiently!feedVars, feedVars
<1>13. CASE /\ \/ Patiently!ReadTable \/ Patiently!LoadFails
               \/ \E w \in writes : Patiently!WriteRuns(w) \/ Patiently!WriteFails(w)
            /\ UNCHANGED Patiently!feedVars
  BY <1>9, <1>10, <1>11, <1>12, <1>13 DEF PatientNext
<1>14. QED
  BY <1>1, <1>2, <1>3, <1>4, <1>5, <1>6, <1>7, <1>8, <1>13
  DEF Patiently!Next, PatientNext

\* Memory and table: until the load has arrived nothing is written; then every
\* write outstanding is the last toggle of its ticker.
Written ==
  /\ load # "done" => writes = {}
  /\ load = "read" => list = table
  /\ \A w \in writes : w.save = (w.ticker \in watch)
  /\ load = "done" /\ ~faulted =>
       \A t \in Ticker : (t \in watch) = (t \in table) \/ \E w \in writes : w.ticker = t

\* The feed waits for exactly the answers there are, all of the latest refresh.
Awaited ==
  /\ pending = Fetching + Len(queue)
  /\ \A t \in Ticker : fetching[t] > 0 => t \in asked
  /\ \A i \in 1..Len(queue) : queue[i].ticker \in asked
  /\ \A i \in items : i.ticker \in asked

PatientInv == Inv /\ Written /\ Awaited

LEMMA WrittenSteps ==
  ASSUME WatchTypeOK, Written,
         \/ \E t \in Ticker : Toggle(t) /\ Unhurried(t)
         \/ \E w \in writes : WriteRuns(w) \/ WriteFails(w)
         \/ ReadTable \/ LoadFails \/ WatchlistLoaded \/ Restart
         \/ UNCHANGED watchVars
  PROVE  Written'
<1> USE DEF Written
<1>1. ASSUME NEW t \in Ticker, Toggle(t), Unhurried(t) PROVE Written'
  <2> DEFINE new == [save |-> t \notin watch, ticker |-> t, n |-> toggles + 1]
  <2>1. /\ load = "done" /\ load' = load /\ table' = table /\ faulted' = faulted
        /\ list' = list /\ writes' = writes \cup {new}
        /\ \A w \in writes : w.ticker # t
    BY <1>1 DEF Toggle, Unhurried
  <2>2. /\ t \in watch' <=> t \notin watch
        /\ \A u : u # t => (u \in watch' <=> u \in watch)
    BY <1>1 DEF Toggle
  <2>3. new.ticker = t /\ new.save = (t \in watch') BY <2>2
  <2> HIDE DEF new
  <2>4. \A w \in writes' : w.save = (w.ticker \in watch')
    BY <2>1, <2>2, <2>3
  <2>5. ASSUME ~faulted, NEW u \in Ticker
        PROVE  (u \in watch') = (u \in table') \/ \E w \in writes' : w.ticker = u
    BY <2>1, <2>2, <2>3, <2>5
  <2>6. QED BY <2>1, <2>4, <2>5
<1>2. ASSUME NEW w \in writes, WriteRuns(w) PROVE Written'
  <2>1. /\ load' = load /\ watch' = watch /\ faulted' = faulted /\ list' = list
        /\ writes' = writes \ {w} /\ load = "done"
        /\ table' = IF w.save THEN table \cup {w.ticker} ELSE table \ {w.ticker}
    BY <1>2 DEF WriteRuns
  <2>2. w.save <=> w.ticker \in watch BY <2>1
  <2>3. ASSUME ~faulted, NEW u \in Ticker
        PROVE  (u \in watch') = (u \in table') \/ \E x \in writes' : x.ticker = u
    <3>1. CASE u = w.ticker BY <2>1, <2>2, <3>1
    <3>2. CASE u # w.ticker
      <4>1. u \in table' <=> u \in table BY <2>1, <3>2
      <4>2. (u \in watch) = (u \in table) \/ \E x \in writes : x.ticker = u
        BY <2>1, <2>3
      <4>3. QED BY <2>1, <3>2, <4>1, <4>2
    <3>3. QED BY <3>1, <3>2
  <2>4. QED BY <2>1, <2>3
<1>3. ASSUME NEW w \in writes, WriteFails(w) PROVE Written'
  BY <1>3 DEF WriteFails
<1>4. CASE ReadTable BY <1>4 DEF ReadTable
<1>5. CASE LoadFails BY <1>5 DEF LoadFails
<1>6. CASE WatchlistLoaded BY <1>6 DEF WatchlistLoaded
<1>7. CASE Restart BY <1>7 DEF Restart
<1>8. CASE UNCHANGED watchVars BY <1>8 DEF watchVars
<1>9. QED BY <1>1, <1>2, <1>3, <1>4, <1>5, <1>6, <1>7, <1>8

LEMMA AtRestIs == FeedAtRest /\ FeedOK => Fetching = 0 /\ Len(queue) = 0
<1> SUFFICES ASSUME FeedAtRest, FeedOK PROVE Fetching = 0 /\ Len(queue) = 0
  OBVIOUS
<1>1. \A t \in Ticker : fetching[t] = 0
  BY DEF FeedAtRest, FeedOK, Fetches
<1>2. Fetching = 0
  BY <1>1, TickersFinite, TotalNat DEF FeedOK, Fetching
<1>3. QED BY <1>2 DEF FeedAtRest

LEMMA AwaitedRefresh ==
  ASSUME FeedOK, NEW w \in SUBSET Ticker, Refresh(w), FeedAtRest
  PROVE  Awaited'
<1>1. Fetching = 0 /\ Len(queue) = 0 BY AtRestIs
<1>2. Fetching' = Fetching + Cardinality(FeedSource(w)) BY RefreshTotal
<1>3. Cardinality(FeedSource(w)) \in Nat BY SourceIs
<1>4. queue' = queue /\ items' = {} /\ asked' = FeedSource(w) /\ requested'
      /\ pending' = Cardinality(FeedSource(w))
      /\ fetching' = [t \in Ticker |-> fetching[t] + IF t \in FeedSource(w) THEN 1 ELSE 0]
  BY DEF Refresh
<1>5. \A t \in Ticker : fetching[t] = 0
  BY DEF FeedAtRest, FeedOK, Fetches
<1>6. \A t \in Ticker : fetching'[t] > 0 => t \in asked'
  BY <1>4, <1>5
<1>7. pending' = Fetching' + Len(queue') BY <1>1, <1>2, <1>3, <1>4
<1>8. QED BY <1>1, <1>4, <1>6, <1>7 DEF Awaited

\* A feed left alone waits as before.
LEMMA AwaitedStutter ==
  ASSUME FeedOK, Awaited,
         UNCHANGED <<pending, items, fetching, queue, asked>>
  PROVE  Awaited'
BY DEF Awaited, Fetching

LEMMA AwaitedFetchEnds ==
  ASSUME FeedOK, Awaited, NEW t \in Ticker, FetchEnds(t)
  PROVE  Awaited'
<1> USE DEF FeedOK
<1>1. PICK e \in Event : queue' = Append(queue, e) /\ e.ticker = t
  BY FetchEndsStep
<1>2. Fetching' = Fetching - 1 /\ Fetching \in Nat
  BY FetchEndsStep, TickersFinite, TotalNat DEF Fetching
<1>3. /\ Len(queue') = Len(queue) + 1 /\ Len(queue) \in Nat
      /\ queue'[Len(queue) + 1] = e
      /\ \A i \in 1..Len(queue) : queue'[i] = queue[i]
  BY <1>1
<1>4. /\ fetching[t] > 0 /\ fetching' = [fetching EXCEPT ![t] = @ - 1]
      /\ UNCHANGED <<pending, items, asked>>
  BY DEF FetchEnds
<1>5. t \in asked BY <1>4 DEF Awaited
<1>6. \A u \in Ticker : fetching'[u] > 0 => fetching[u] > 0 BY <1>4
<1>7. \A i \in 1..Len(queue') : queue'[i].ticker \in asked'
  BY <1>1, <1>3, <1>4, <1>5 DEF Awaited
<1>8. QED BY <1>2, <1>3, <1>4, <1>6, <1>7 DEF Awaited

LEMMA AwaitedReady ==
  ASSUME FeedOK, Awaited, NewsFeedItemReady
  PROVE  Awaited'
<1> USE DEF FeedOK
<1>1. /\ Fetching' = Fetching /\ Len(queue) > 0 /\ Len(queue') = Len(queue) - 1
      /\ Head(queue) \in Event
  BY ReadyStep
<1>2. Fetching \in Nat /\ Len(queue) \in Nat
  BY TickersFinite, TotalNat DEF Fetching
<1>3. /\ pending' = IF pending = 0 THEN 0 ELSE pending - 1
      /\ queue' = Tail(queue) /\ queue # <<>>
      /\ items' = Merge(items, Head(queue).ticker, Head(queue).news)
      /\ UNCHANGED <<fetching, asked>>
  BY DEF NewsFeedItemReady
<1>4. pending' = Fetching' + Len(queue') BY <1>1, <1>2, <1>3 DEF Awaited
<1>5. Head(queue) = queue[1] /\ \A i \in 1..Len(queue') : queue'[i] = queue[i + 1]
  BY <1>1, <1>2, <1>3
<1>6. Head(queue).ticker \in asked
  <2>1. 1 \in 1..Len(queue) BY <1>1, <1>2
  <2>2. QED BY <1>5, <2>1 DEF Awaited
<1>7. \A i \in 1..Len(queue') : queue'[i].ticker \in asked'
  BY <1>1, <1>2, <1>3, <1>5 DEF Awaited
<1>8. \A i \in items' : i.ticker \in asked'
  BY <1>1, <1>3, <1>6, MergeIs DEF Awaited
<1>9. QED BY <1>3, <1>4, <1>7, <1>8 DEF Awaited

LEMMA PatientInit == Init => PatientInv
<1> SUFFICES ASSUME Init PROVE PatientInv
  OBVIOUS
<1>1. Inv BY InvInit
<1>2. Written BY DEF Init, WatchInit, Written
<1>3. \A t \in Ticker : fetching[t] = 0 BY DEF Init, FeedInit
<1>4. Fetching = 0
  BY <1>1, <1>3, TickersFinite, TotalNat DEF Inv, FeedOK, Fetching
<1>5. Awaited BY <1>3, <1>4 DEF Init, FeedInit, Awaited
<1>6. QED BY <1>1, <1>2, <1>5 DEF PatientInv

LEMMA PatientInvStep ==
  ASSUME PatientInv, PatientNext \/ UNCHANGED vars
  PROVE  Written' /\ Awaited'
<1> USE DEF PatientInv, Inv
<1>w. watch \in SUBSET Ticker BY DEF WatchTypeOK
<1>e. ASSUME NEW w \in SUBSET Ticker, EnsureRequested(w), ~requested => FeedAtRest
      PROVE  Awaited'
  BY <1>e, AwaitedRefresh, AwaitedStutter DEF EnsureRequested
<1>1. ASSUME NEW t \in Ticker, FetchEnds(t) PROVE Written' /\ Awaited'
  BY <1>1, AwaitedFetchEnds, WrittenSteps DEF FetchEnds
<1>2. CASE NewsFeedItemReady
  BY <1>2, AwaitedReady, WrittenSteps DEF NewsFeedItemReady
<1>3. ASSUME NEW d \in {-1, 1}, Move(d) PROVE Written' /\ Awaited'
  BY <1>3, AwaitedStutter, WrittenSteps DEF Move
<1>4. CASE RestartFeed
  <2>1. Written' BY <1>4, WrittenSteps DEF RestartFeed
  <2>2. /\ fetching' \in [Ticker -> Nat] /\ \A t \in Ticker : fetching'[t] = 0
        /\ queue' = <<>> /\ items' = {} /\ pending' = 0
    BY <1>4 DEF RestartFeed
  <2>3. Fetching' = 0 BY <2>2, TickersFinite, TotalNat DEF Fetching
  <2>4. QED BY <2>1, <2>2, <2>3 DEF Awaited
<1>5. CASE /\ \/ ReadTable \/ LoadFails
              \/ \E w \in writes : WriteRuns(w) \/ WriteFails(w)
           /\ UNCHANGED feedVars
  BY <1>5, AwaitedStutter, WrittenSteps DEF feedVars
<1>6. CASE EnterNews /\ (~requested => FeedAtRest)
  BY <1>6, <1>e, <1>w, WrittenSteps DEF EnterNews
<1>7. CASE PressRefresh /\ FeedAtRest
  BY <1>7, <1>w, AwaitedRefresh, WrittenSteps DEF PressRefresh
<1>8. CASE LoadedAndEnsured /\ (~requested => FeedAtRest)
  <2>1. WatchTypeOK' BY <1>8, WatchSteps DEF LoadedAndEnsured
  <2>2. watch' \in SUBSET Ticker BY <2>1 DEF WatchTypeOK
  <2>3. QED BY <1>8, <1>e, <2>2, WrittenSteps DEF LoadedAndEnsured
<1>9. ASSUME NEW t \in Ticker, ToggleAndRefresh(t), FeedAtRest, Unhurried(t)
      PROVE  Written' /\ Awaited'
  <2>1. WatchTypeOK' BY <1>9, WatchSteps DEF ToggleAndRefresh
  <2>2. watch' \in SUBSET Ticker BY <2>1 DEF WatchTypeOK
  <2>3. QED BY <1>9, <2>2, AwaitedRefresh, WrittenSteps DEF ToggleAndRefresh
<1>10. CASE UNCHANGED vars
  BY <1>10, AwaitedStutter, WrittenSteps DEF vars, feedVars
<1>11. QED
  BY <1>1, <1>2, <1>3, <1>4, <1>5, <1>6, <1>7, <1>8, <1>9, <1>10 DEF PatientNext

\* Waiting for nothing, the feed is at rest.
LEMMA NothingAwaited ==
  ASSUME PatientInv, ~loading
  PROVE  FeedAtRest
<1> USE DEF PatientInv, Inv, FeedOK
<1>1. pending = 0 OBVIOUS
<1>2. Fetching \in Nat /\ Len(queue) \in Nat
  BY TickersFinite, TotalNat DEF Fetching
<1>3. Fetching = 0 /\ Len(queue) = 0 BY <1>1, <1>2 DEF Awaited
<1>4. ASSUME NEW t \in Ticker PROVE ~(fetching[t] > 0)
  <2>1. fetching[t] > 0 => Fetching > 0
    BY TickersFinite, TotalMinus DEF Fetching
  <2>2. QED BY <1>3, <2>1
<1>5. QED BY <1>3, <1>4 DEF FeedAtRest, Fetches

LEMMA PatientKept ==
  PatientInv => OnlyWritesDiffer /\ FeedFromLatestRefresh /\ EmptyIsFinal
<1> SUFFICES ASSUME PatientInv
             PROVE  OnlyWritesDiffer /\ FeedFromLatestRefresh /\ EmptyIsFinal
  OBVIOUS
<1>1. OnlyWritesDiffer
  BY DEF PatientInv, Written, OnlyWritesDiffer
<1>2. FeedFromLatestRefresh
  BY DEF PatientInv, Awaited, FeedFromLatestRefresh
<1>3. EmptyIsFinal
  <2>1. Shown \in {"no headlines", "follow a ticker"} => ~loading
    BY DEF Shown
  <2>2. QED BY <2>1, NothingAwaited DEF EmptyIsFinal
<1>4. QED BY <1>1, <1>2, <1>3

\* When no ticker is toggled before the watchlist has arrived or while a write
\* for it is outstanding, and no refresh overtakes the one before, memory and
\* table differ only in the tickers being written, the feed lists headlines of
\* the latest refresh only, and the page says that there are none only when
\* every answer has arrived (spawn_save_to_watchlist, refresh_news_feed).
THEOREM PatientPromiseHolds == MCSpec => []PatientPromise
<1> DEFINE I == regime = "patient" => PatientInv
<1>1. MCInit => I
  BY PatientInit DEF MCInit
<1>2. I /\ [MCNext]_<<vars, regime>> => I'
  <2> SUFFICES ASSUME I, [MCNext]_<<vars, regime>>, regime' = "patient"
               PROVE  PatientInv'
    OBVIOUS
  <2>1. PatientInv BY DEF MCNext
  <2>2. PatientNext \/ UNCHANGED vars
    <3>1. CASE MCNext
      <4>1. Patiently!Next BY <3>1 DEF MCNext
      <4>2. QED BY <4>1, PatientStep
    <3>2. CASE UNCHANGED <<vars, regime>> BY <3>2
    <3>3. QED BY <3>1, <3>2
  <2>3. Inv' BY <2>1, <2>2, PatientIsNext, InvStep DEF PatientInv
  <2>4. QED BY <2>1, <2>2, <2>3, PatientInvStep DEF PatientInv
<1>3. I => PatientPromise
  BY PatientKept DEF PatientPromise
<1>4. QED BY <1>1, <1>2, <1>3, PTL DEF MCSpec
=============================================================================
