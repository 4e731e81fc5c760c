-------------------------- MODULE SnapshotRunProofs -------------------------
(***************************************************************************)
(* Proofs about the quotes table, the history of totals and the scheduled  *)
(* run, for any tickers, any retention and any bounds, and about the batch *)
(* fetch the run makes, for any set of tasks, any number of permits and    *)
(* any channel capacity.                                                   *)
(***************************************************************************)
EXTENDS MCSnapshotRun, FetchPipeline, FiniteSetTheorems, WellFoundedInduction, TLAPS

-----------------------------------------------------------------------------
(***************************************************************************)
(* Least and greatest numbers                                              *)
(***************************************************************************)
\* A set of natural numbers that is not empty has a least element.
LEMMA NatMin ==
  ASSUME NEW S \in SUBSET Nat, S # {}
  PROVE  \E m \in S : \A n \in S : m <= n
<1>1. PICK m \in S : \A n \in S : ~(<<n, m>> \in OpToRel(<, Nat))
  BY NatLessThanWellFounded, WFMin, Zenon
<1>2. \A n \in S : ~(n < m)
  BY <1>1 DEF OpToRel
<1>3. QED BY <1>2

\* One that is bounded has a greatest.
LEMMA NatMax ==
  ASSUME NEW b \in Nat, NEW S \in SUBSET (0..b), S # {}
  PROVE  \E m \in S : \A n \in S : n <= m
<1> DEFINE Bounds == {m \in Nat : \A n \in S : n <= m}
<1>1. b \in Bounds /\ Bounds \subseteq Nat
  OBVIOUS
<1>2. PICK m \in Bounds : \A n \in Bounds : m <= n
  BY <1>1, NatMin
<1>3. m \in S
  <2>1. SUFFICES ASSUME m \notin S PROVE FALSE
    OBVIOUS
  <2>2. PICK s \in S : TRUE OBVIOUS
  <2>3. m > 0 BY <2>1, <2>2
  <2>4. \A n \in S : n <= m - 1 BY <2>1
  <2>5. m - 1 \in Bounds BY <2>3, <2>4
  <2>6. QED BY <1>2, <2>5
<1>4. QED BY <1>3

-----------------------------------------------------------------------------
(***************************************************************************)
(* The rows of one ticker                                                  *)
(***************************************************************************)
\* What the constraint of the table and the types say of a ticker's rows.
Proper(rows) ==
  /\ rows \subseteq Row
  /\ \A r, q \in rows : r.at = q.at => r = q
  /\ IsFiniteSet(rows)

Newer(rows, c) == {q \in rows : q.at > c.at}

LEMMA LatestIs ==
  ASSUME NEW rows, rows \subseteq Row, rows # {}
  PROVE  Latest(rows) \in rows /\ \A q \in rows : q.at <= Latest(rows).at
<1> DEFINE Ats == {r.at : r \in rows}
<1>1. Ats \subseteq 0..MaxClock /\ Ats # {} /\ MaxClock \in Nat
  BY QuoteHistoryAssumption DEF Row, Time
<1>2. PICK m \in Ats : \A n \in Ats : n <= m
  BY <1>1, NatMax
<1>3. PICK r \in rows : \A q \in rows : q.at <= r.at
  BY <1>2
<1>4. QED BY <1>3 DEF Latest

\* Storing keeps one row per time, the newest among them, and adds at most one.
LEMMA StoredIs ==
  ASSUME NEW rows, Proper(rows), NEW r \in Row
  PROVE  /\ Proper(Stored(rows, r))
         /\ rows \subseteq Stored(rows, r)
         /\ Cardinality(Stored(rows, r)) <= Cardinality(rows) + 1
<1>1. CASE \E q \in rows : q.at = r.at
  BY <1>1, FS_CardinalityType DEF Stored, Proper
<1>2. CASE ~\E q \in rows : q.at = r.at
  <2>1. Stored(rows, r) = rows \cup {r} BY <1>2 DEF Stored
  <2>2. IsFiniteSet(rows \cup {r}) /\ Cardinality(rows \cup {r}) <= Cardinality(rows) + 1
    BY FS_AddElement, FS_CardinalityType DEF Proper
  <2>3. QED BY <1>2, <2>1, <2>2 DEF Proper
<1>3. QED BY <1>1, <1>2

\* With Keep rows or more, one of them is the Keep-th newest.
LEMMA KeepthExists ==
  ASSUME NEW rows, Proper(rows), Cardinality(rows) >= Keep
  PROVE  \E c \in rows : Cardinality(Newer(rows, c)) = Keep - 1
<1> USE QuoteHistoryAssumption
<1>1. \A c \in rows : /\ Newer(rows, c) \subseteq rows
                      /\ IsFiniteSet(Newer(rows, c))
                      /\ Cardinality(Newer(rows, c)) \in Nat
  BY FS_Subset, FS_CardinalityType DEF Newer, Proper
<1> DEFINE Deep == {c \in rows : Cardinality(Newer(rows, c)) >= Keep - 1}
<1> DEFINE Ats == {c.at : c \in Deep}
<1>2. \A c \in rows : c.at \in 0..MaxClock
  BY DEF Proper, Row, Time
<1>3. Deep # {}
  <2>1. rows # {} BY FS_EmptySet
  <2>2. PICK m \in {r.at : r \in rows} : \A n \in {r.at : r \in rows} : m <= n
    <3>1. {r.at : r \in rows} \subseteq Nat /\ {r.at : r \in rows} # {}
      BY <1>2, <2>1
    <3>2. QED BY <3>1, NatMin
  <2>3. PICK c \in rows : \A q \in rows : c.at <= q.at
    BY <2>2
  <2>4. Newer(rows, c) = rows \ {c}
    BY <1>2, <2>3 DEF Newer, Proper
  <2>5. Cardinality(Newer(rows, c)) = Cardinality(rows) - 1
    BY <2>4, FS_RemoveElement DEF Proper
  <2>6. QED BY <2>5, FS_CardinalityType DEF Proper
<1>4. PICK a \in Ats : \A n \in Ats : n <= a
  <2>1. Ats \subseteq 0..MaxClock /\ Ats # {} BY <1>2, <1>3
  <2>2. QED BY <2>1, NatMax
<1>5. PICK c \in Deep : \A d \in Deep : d.at <= c.at
  BY <1>4
<1>6. SUFFICES ASSUME Cardinality(Newer(rows, c)) # Keep - 1 PROVE FALSE
  BY <1>5
<1>7. Cardinality(Newer(rows, c)) >= Keep
  BY <1>1, <1>5, <1>6
<1>8. PICK m \in {r.at : r \in Newer(rows, c)} : \A n \in {r.at : r \in Newer(rows, c)} : m <= n
  <2>1. Newer(rows, c) # {}
    <3>1. SUFFICES ASSUME Newer(rows, c) = {} PROVE FALSE
      OBVIOUS
    <3>2. Cardinality(Newer(rows, c)) = 0 BY <3>1, FS_EmptySet
    <3>3. QED BY <1>7, <3>2
  <2>2. {r.at : r \in Newer(rows, c)} \subseteq Nat /\ {r.at : r \in Newer(rows, c)} # {}
    BY <1>1, <1>2, <2>1
  <2>3. QED BY <2>2, NatMin
<1>9. PICK d \in Newer(rows, c) : \A q \in Newer(rows, c) : d.at <= q.at
  BY <1>8
<1>10. d \in rows /\ d.at > c.at
  BY <1>9 DEF Newer
<1>11. Newer(rows, d) = Newer(rows, c) \ {d}
  BY <1>2, <1>5, <1>9, <1>10 DEF Newer, Proper
<1>12. Cardinality(Newer(rows, d)) = Cardinality(Newer(rows, c)) - 1
  <2>1. IsFiniteSet(Newer(rows, c)) BY <1>1, <1>5
  <2>2. QED BY <1>9, <1>11, <2>1, FS_RemoveElement
<1>13. d \in Deep
  BY <1>1, <1>7, <1>10, <1>12
<1>14. d.at <= c.at /\ c.at \in Nat /\ d.at \in Nat
  BY <1>2, <1>5, <1>10, <1>13
<1>15. QED BY <1>10, <1>14

\* Pruning leaves the newest row and at most Keep of them.
LEMMA PrunedIs ==
  ASSUME NEW rows, Proper(rows)
  PROVE  /\ Proper(Pruned(rows)) /\ Pruned(rows) \subseteq rows
         /\ rows # {} => Latest(rows) \in Pruned(rows)
         /\ Cardinality(Pruned(rows)) <= Keep
<1> USE QuoteHistoryAssumption
<1>1. Pruned(rows) \subseteq rows /\ IsFiniteSet(Pruned(rows))
  <2>1. Pruned(rows) \subseteq rows BY DEF Pruned
  <2>2. QED BY <2>1, FS_Subset DEF Proper
<1>2. Proper(Pruned(rows)) BY <1>1 DEF Proper
<1>3. \A c \in rows : c.at \in 0..MaxClock
  BY DEF Proper, Row, Time
<1> DEFINE Drops(r, c) == Cardinality(Newer(rows, c)) = Keep - 1 /\ r.at < c.at
<1>p. Pruned(rows) = {r \in rows : ~\E c \in rows : Drops(r, c)}
  BY DEF Pruned, Newer
<1>4. ASSUME rows # {} PROVE Latest(rows) \in Pruned(rows)
  <2>1. Latest(rows) \in rows /\ \A c \in rows : c.at <= Latest(rows).at
    BY <1>4, LatestIs DEF Proper
  <2>2. \A c \in rows : ~Drops(Latest(rows), c)
    BY <1>3, <2>1
  <2>3. QED BY <1>p, <2>1, <2>2
<1>5. Cardinality(Pruned(rows)) <= Keep
  <2>1. CASE Cardinality(rows) >= Keep
    <3>1. PICK c \in rows : Cardinality(Newer(rows, c)) = Keep - 1
      BY <2>1, KeepthExists
    <3>2. Pruned(rows) \subseteq Newer(rows, c) \cup {c}
      <4>1. \A r \in Pruned(rows) : r \in rows /\ ~(r.at < c.at)
        BY <1>p, <3>1
      <4>2. QED BY <1>3, <4>1 DEF Newer, Proper
    <3>3. IsFiniteSet(Newer(rows, c))
      BY FS_Subset DEF Newer, Proper
    <3>4. IsFiniteSet(Newer(rows, c) \cup {c}) /\ Cardinality(Newer(rows, c) \cup {c}) = Keep
      <4>1. c \notin Newer(rows, c) BY <1>3 DEF Newer
      <4>2. QED BY <3>1, <3>3, <4>1, FS_AddElement
    <3>5. QED BY <1>1, <3>2, <3>4, FS_Subset
  <2>2. CASE ~(Cardinality(rows) >= Keep)
    <3>1. Cardinality(Pruned(rows)) <= Cardinality(rows)
      BY <1>1, FS_Subset DEF Proper
    <3>2. QED BY <1>1, <2>2, <3>1, FS_CardinalityType DEF Proper
  <2>3. QED BY <2>1, <2>2
<1>6. QED BY <1>1, <1>2, <1>4, <1>5

LEMMA LatestGrows ==
  ASSUME NEW rows, NEW new, Proper(rows), Proper(new), rows # {},
         Latest(rows) \in new
  PROVE  new # {} /\ Latest(new).at >= Latest(rows).at
<1>1. Latest(new) \in new /\ Latest(rows).at <= Latest(new).at
  BY LatestIs DEF Proper
<1>2. Latest(new).at \in Int /\ Latest(rows).at \in Int
  BY <1>1, LatestIs DEF Proper, Row, Time
<1>3. QED BY <1>1, <1>2

-----------------------------------------------------------------------------
(***************************************************************************)
(* The table                                                               *)
(***************************************************************************)
\* The rows of every ticker, finite and bounded by what was stored since they
\* were last pruned.
RowsInv ==
  /\ quotes \in [Ticker -> SUBSET Row] /\ unpruned \in [Ticker -> Nat]
  /\ \A t \in Ticker : Proper(quotes[t])
  /\ Retained

LEMMA StoreStep ==
  ASSUME RowsInv, NEW t \in Ticker, NEW r \in Row, Store(t, r)
  PROVE  RowsInv' /\ NewestKept
<1>1. /\ Proper(Stored(quotes[t], r)) /\ quotes[t] \subseteq Stored(quotes[t], r)
      /\ Cardinality(Stored(quotes[t], r)) <= Cardinality(quotes[t]) + 1
  BY StoredIs DEF RowsInv
<1>2. /\ quotes'[t] = Stored(quotes[t], r) /\ unpruned'[t] = unpruned[t] + 1
      /\ \A u \in Ticker \ {t} : quotes'[u] = quotes[u] /\ unpruned'[u] = unpruned[u]
  BY DEF Store, RowsInv
<1>3. quotes' \in [Ticker -> SUBSET Row] /\ unpruned' \in [Ticker -> Nat]
  BY <1>1 DEF Store, RowsInv, Proper
<1>4. \A u \in Ticker : Proper(quotes'[u])
  BY <1>1, <1>2 DEF RowsInv
<1>5. Retained'
  <2>1. \A u \in Ticker : Cardinality(quotes'[u]) \in Nat /\ Cardinality(quotes[u]) \in Nat
    BY <1>4, FS_CardinalityType DEF Proper, RowsInv
  <2>2. Cardinality(quotes'[t]) <= Keep + unpruned'[t]
    <3>1. Cardinality(quotes'[t]) <= Cardinality(quotes[t]) + 1 BY <1>1, <1>2
    <3>2. Cardinality(quotes[t]) <= Keep + unpruned[t] BY DEF RowsInv, Retained
    <3>3. Keep \in Nat /\ unpruned[t] \in Nat BY QuoteHistoryAssumption DEF RowsInv
    <3>4. QED BY <1>2, <2>1, <3>1, <3>2, <3>3
  <2>3. QED BY <1>2, <2>2 DEF RowsInv, Retained
<1>6. NewestKept
  <2>1. \A u \in Ticker : quotes[u] # {} => Latest(quotes[u]) \in quotes'[u]
    BY <1>1, <1>2, LatestIs DEF RowsInv, Proper
  <2>2. QED BY <1>4, <2>1, LatestGrows DEF RowsInv, NewestKept
<1>7. QED BY <1>3, <1>4, <1>5, <1>6 DEF RowsInv

LEMMA PruneStep ==
  ASSUME RowsInv, NEW t \in Ticker, Prune(t)
  PROVE  RowsInv' /\ NewestKept
<1>1. /\ Proper(Pruned(quotes[t])) /\ Pruned(quotes[t]) \subseteq quotes[t]
      /\ quotes[t] # {} => Latest(quotes[t]) \in Pruned(quotes[t])
      /\ Cardinality(Pruned(quotes[t])) <= Keep
  BY PrunedIs DEF RowsInv
<1>2. /\ quotes'[t] = Pruned(quotes[t]) /\ unpruned'[t] = 0
      /\ \A u \in Ticker \ {t} : quotes'[u] = quotes[u] /\ unpruned'[u] = unpruned[u]
  BY DEF Prune, RowsInv
<1>3. quotes' \in [Ticker -> SUBSET Row] /\ unpruned' \in [Ticker -> Nat]
  BY <1>1 DEF Prune, RowsInv, Proper
<1>4. \A u \in Ticker : Proper(quotes'[u])
  BY <1>1, <1>2 DEF RowsInv
<1>5. Retained'
  <2>1. Cardinality(quotes'[t]) <= Keep + unpruned'[t]
    BY <1>1, <1>2, QuoteHistoryAssumption
  <2>2. QED BY <1>2, <2>1 DEF RowsInv, Retained
<1>6. NewestKept
  <2>1. \A u \in Ticker : quotes[u] # {} => Latest(quotes[u]) \in quotes'[u]
    BY <1>1, <1>2, LatestIs DEF RowsInv, Proper
  <2>2. QED BY <1>4, <2>1, LatestGrows DEF RowsInv, NewestKept
<1>7. QED BY <1>3, <1>4, <1>5, <1>6 DEF RowsInv

LEMMA RowsStutter ==
  ASSUME RowsInv, UNCHANGED <<quotes, unpruned>>
  PROVE  RowsInv' /\ NewestKept
<1>1. RowsInv' BY DEF RowsInv, Retained
<1>2. \A t \in Ticker : quotes[t] # {} => Latest(quotes[t]) \in quotes[t]
  BY LatestIs DEF RowsInv
<1>3. NewestKept BY <1>2, LatestGrows DEF RowsInv, NewestKept
<1>4. QED BY <1>1, <1>3

-----------------------------------------------------------------------------
(***************************************************************************)
(* Types, and which steps move rows                                        *)
(***************************************************************************)
RowsMove ==
  \/ \E t \in Ticker, r \in Row : Store(t, r)
  \/ \E t \in Ticker : Prune(t)
  \/ UNCHANGED <<quotes, unpruned>>

LEMMA RowsStep ==
  ASSUME RowsInv, RowsMove PROVE RowsInv' /\ NewestKept
BY StoreStep, PruneStep, RowsStutter DEF RowsMove

\* A ticker that is not one leaves the table as it is.
LEMMA NoTicker ==
  ASSUME NEW t, t \notin Ticker, RowsInv,
         (\E r : Store(t, r)) \/ Prune(t)
  PROVE  UNCHANGED <<quotes, unpruned>>
BY DEF Store, Prune, RowsInv

LEMMA SeenIsTime ==
  ASSUME RowsInv, NEW t \in Ticker PROVE LatestSeen(t) \in Time
<1>1. CASE quotes[t] = {}
  BY <1>1, QuoteHistoryAssumption DEF LatestSeen, Time
<1>2. CASE quotes[t] # {}
  <2>1. quotes[t] \subseteq Row BY DEF RowsInv
  <2>2. Latest(quotes[t]) \in Row BY <1>2, <2>1, LatestIs
  <2>3. QED BY <1>2, <2>2 DEF LatestSeen, Row
<1>3. QED BY <1>1, <1>2

Snap == [at : Time, seen : Prices, left : SUBSET Ticker, now : {"store", "prune"}]

\* The prices in memory and the tasks.
MemoryOK ==
  /\ clock \in Time /\ snapped \in Time
  /\ shown \in Prices
  /\ snaps \subseteq Snap
  /\ fetches \subseteq [ticker : Ticker, seen : Time]
  /\ asked \in 0..MaxFetches
  /\ reload \in Prices \cup {NoReload}

LEMMA QuoteTypes == MemoryOK /\ RowsInv => QuoteTypeOK
BY DEF MemoryOK, RowsInv, QuoteTypeOK, Proper, Snap

memory == <<clock, shown, snaps, snapped, fetches, asked, reload>>

\* What a snapshot task leaves of itself is a task again.
LEMMA SnapGoesOn ==
  ASSUME NEW s \in Snap
  PROVE  /\ Continued(s) \subseteq Snap
         /\ [s EXCEPT !.now = "prune"] \in Snap
<1>1. ASSUME NEW rest \in SUBSET Ticker
      PROVE  [s EXCEPT !.left = rest, !.now = "store"] \in Snap
  BY DEF Snap
<1>2. s.left \ {At(s)} \in SUBSET Ticker BY DEF Snap
<1>3. Continued(s) \subseteq Snap BY <1>1, <1>2 DEF Continued
<1>4. [s EXCEPT !.now = "prune"] \in Snap BY DEF Snap
<1>5. QED BY <1>3, <1>4

LEMMA SnapMoves ==
  ASSUME MemoryOK, RowsInv, NEW s \in snaps,
         SnapStore(s) \/ SnapStoreFails(s) \/ SnapPrune(s) \/ SnapPruneFails(s)
  PROVE  MemoryOK' /\ RowsMove
<1>1. s \in Snap BY DEF MemoryOK
<1>2. snaps' \subseteq Snap
  BY <1>1, SnapGoesOn DEF SnapStore, SnapStoreFails, SnapPrune, SnapPruneFails, MemoryOK
<1>3. MemoryOK'
  BY <1>2 DEF MemoryOK, SnapStore, SnapStoreFails, SnapPrune, SnapPruneFails
<1>4. RowsMove
  <2>1. CASE At(s) \in Ticker
    <3>1. [at |-> s.at, seen |-> s.seen[At(s)]] \in Row
      BY <1>1, <2>1 DEF Snap, Row, Prices
    <3>2. QED
      BY <2>1, <3>1 DEF RowsMove, SnapStore, SnapStoreFails, SnapPrune, SnapPruneFails
  <2>2. CASE At(s) \notin Ticker
    BY <2>2, NoTicker DEF RowsMove, SnapStore, SnapStoreFails, SnapPrune, SnapPruneFails
  <2>3. QED BY <2>1, <2>2
<1>5. QED BY <1>3, <1>4

LEMMA QuoteStep ==
  ASSUME MemoryOK, RowsInv, [SnapNext]_allVars
  PROVE  MemoryOK' /\ RowsMove
<1> USE QuoteHistoryAssumption
<1>0. 0 \in Time /\ MaxFetches \in Nat /\ MaxClock \in Nat
  BY DEF Time
<1>s. ASSUME UNCHANGED quoteVars PROVE MemoryOK' /\ RowsMove
  BY <1>s DEF quoteVars, MemoryOK, RowsMove
<1>1. ASSUME NEW t \in Ticker, QuoteTick(t) PROVE MemoryOK' /\ RowsMove
  BY <1>1 DEF QuoteTick, MemoryOK, RowsMove, Prices
<1>2. ASSUME NEW f \in fetches, FetchCompleted(f) PROVE MemoryOK' /\ RowsMove
  BY <1>2 DEF FetchCompleted, MemoryOK, RowsMove, Prices
<1>3. CASE LivePrice
  BY <1>1, <1>2, <1>3 DEF LivePrice
<1>4. CASE ReloadReads
  <2>1. reload' \in Prices BY <1>4, SeenIsTime DEF ReloadReads, Prices
  <2>2. asked' \in 0..MaxFetches BY <1>0, <1>4 DEF ReloadReads, MayAsk, MemoryOK
  <2>3. QED BY <1>4, <2>1, <2>2 DEF ReloadReads, MemoryOK, RowsMove
<1>5. CASE PageLoaded
  BY <1>5 DEF PageLoaded, MemoryOK, RowsMove
<1>6. CASE RecordSnapshots
  <2>1. Priced \subseteq Ticker BY DEF Priced
  <2>2. [at |-> clock, seen |-> shown, left |-> Priced, now |-> "store"] \in Snap
    BY <2>1 DEF Snap, MemoryOK
  <2>3. snaps' \subseteq Snap BY <1>6, <2>2 DEF RecordSnapshots, MemoryOK
  <2>4. QED BY <1>6, <2>3 DEF RecordSnapshots, MemoryOK, RowsMove
<1>7. ASSUME NEW t \in Ticker, NEW m \in 1..clock, FetchStored(t, m)
      PROVE  MemoryOK' /\ RowsMove
  <2>1. m \in Time BY <1>0 DEF MemoryOK, Time
  <2>2. [at |-> m, seen |-> m] \in Row BY <2>1 DEF Row
  <2>3. asked' \in 0..MaxFetches BY <1>0, <1>7 DEF FetchStored, MayAsk, MemoryOK
  <2>4. fetches' \subseteq [ticker : Ticker, seen : Time]
    BY <1>7, <2>1 DEF FetchStored, MemoryOK
  <2>5. QED BY <1>7, <2>2, <2>3, <2>4 DEF FetchStored, MemoryOK, RowsMove
<1>8. CASE PricesMove
  BY <1>4, <1>5, <1>6, <1>7, <1>8, SnapMoves DEF PricesMove
<1>9. CASE StartInterface
  <2>1. shown' \in Prices BY <1>0, <1>9 DEF StartInterface, Prices
  <2>2. asked' \in 0..MaxFetches BY <1>0, <1>9 DEF StartInterface
  <2>3. QED BY <1>9, <2>1, <2>2 DEF StartInterface, MemoryOK, RowsMove
<1>10. CASE TimePasses
  <2>1. clock' \in Time BY <1>0, <1>10 DEF TimePasses, Advance, MemoryOK, Time
  <2>2. QED BY <1>10, <2>1 DEF TimePasses, Advance, MemoryOK, RowsMove
<1>11. CASE HistoryNext
  <2>1. CASE \/ HoldingsLoaded \/ RecordHistorySample
             \/ \E w \in samples : SampleWrites(w)
             \/ HistoryRead \/ HistoryLoaded \/ HistoryFailed
             \/ LeaveLoop \/ FinalWrite \/ FinalTimesOut \/ Killed
    <3>1. UNCHANGED quoteVars
      BY <2>1 DEF HoldingsLoaded, RecordHistorySample, SampleWrites, HistoryRead,
        HistoryLoaded, HistoryFailed, LeaveLoop, FinalWrite, FinalTimesOut, Killed
    <3>2. QED BY <1>s, <3>1
  <2>2. QED BY <1>3, <1>8, <1>9, <1>10, <1>11, <2>1 DEF HistoryNext
<1>12. ASSUME NEW t \in Ticker, RunFetches(t) PROVE MemoryOK' /\ RowsMove
  <2>1. \A m \in 1..clock : [at |-> m, seen |-> m] \in Row
    BY <1>0 DEF MemoryOK, Row, Time
  <2>2. QED BY <1>12, <2>1 DEF RunFetches, MemoryOK, RowsMove
<1>13. CASE RunPrunes
  <2> DEFINE t == CHOOSE u \in todo : \A v \in todo : u <= v
  <2>1. Prune(t) \/ UNCHANGED <<quotes, unpruned>>
    BY <1>13 DEF RunPrunes
  <2>2. RowsMove BY <2>1, NoTicker DEF RowsMove
  <2>3. QED BY <1>13, <2>2 DEF RunPrunes, MemoryOK
<1>14. CASE RunReads \/ RunRecords \/ RunStarts \/ RunStops \/ UNCHANGED allVars
  <2>1. UNCHANGED quoteVars
    BY <1>14 DEF RunReads, RunRecords, RunStarts, RunStops, allVars, vars
  <2>2. QED BY <1>s, <2>1
<1>15. QED
  BY <1>11, <1>12, <1>13, <1>14 DEF SnapNext, RunStep

-----------------------------------------------------------------------------
(***************************************************************************)
(* The history and the run                                                 *)
(***************************************************************************)
RunOK ==
  /\ step \in {"idle", "fetch", "prune", "read", "record"}
  /\ todo \subseteq Ticker /\ day \in Days /\ read \in Prices /\ runs \in 0..MaxRuns

\* Whatever is on its way to the history leaves no holding out.
WholeOnTheWay ==
  /\ \A w \in samples : Persistable(w.totals)
  /\ phase = "final" => final \in [day : Days, totals : Totals] /\ Persistable(final.totals)

HistoryInv == HistoryTypeOK /\ WholeTotals /\ WholeOnTheWay

LEMMA TotalsType ==
  ASSUME NEW prices \in Prices
  PROVE  Valued(prices) \in Totals /\ Today \in Days
BY PortfolioHistoryAssumption DEF Prices, Valued, Totals, Today, Days

\* Writing whole totals for a day leaves every day whole.
LEMMA Upserts ==
  ASSUME NEW h \in Rows, NEW d \in Days, NEW w \in Totals
  PROVE  /\ [h EXCEPT ![d] = w] \in Rows
         /\ Persistable(w) /\ (\A e \in Days : h[e] # None => \A t \in Held : h[e][t] # 0)
              => \A e \in Days : [h EXCEPT ![d] = w][e] # None =>
                   \A t \in Held : [h EXCEPT ![d] = w][e][t] # 0
BY DEF Rows, Persistable

LEMMA UpsertDayStep ==
  ASSUME HistoryInv, NEW d \in Days, NEW w \in Totals, Persistable(w), UpsertDay(d, w)
  PROVE  hist' \in Rows /\ WholeTotals'
BY Upserts DEF HistoryInv, HistoryTypeOK, UpsertDay, WholeTotals

LEMMA HistoryStep ==
  ASSUME MemoryOK, HistoryInv, RunOK, [SnapNext]_allVars
  PROVE  HistoryInv'
<1> USE DEF HistoryInv, HistoryTypeOK, WholeOnTheWay
<1>v. shown \in Prices /\ Valued(shown) \in Totals /\ Today \in Days
  BY TotalsType DEF MemoryOK
<1>h. ASSUME UNCHANGED hist PROVE WholeTotals'
  BY <1>h DEF WholeTotals
<1>s. ASSUME UNCHANGED historyVars PROVE HistoryInv'
  BY <1>s, <1>h DEF historyVars
<1>1. CASE LivePrice
  BY <1>1, <1>h DEF LivePrice
<1>2. CASE PricesMove \/ TimePasses
  BY <1>s, <1>2 DEF PricesMove, TimePasses
<1>3. CASE HoldingsLoaded
  BY <1>3, <1>h DEF HoldingsLoaded
<1>4. CASE RecordHistorySample
  <2>1. modal' \in Rows /\ last' \in Rows
    BY <1>4, <1>v, Upserts DEF RecordHistorySample
  <2>2. samples' \subseteq [day : Days, totals : Totals, at : Time]
    BY <1>4, <1>v DEF RecordHistorySample, MemoryOK
  <2>3. sampled' \in Time BY <1>4 DEF RecordHistorySample, MemoryOK
  <2>4. \A w \in samples' : Persistable(w.totals)
    BY <1>4 DEF RecordHistorySample, PersistableNow
  <2>5. QED BY <1>4, <1>h, <2>1, <2>2, <2>3, <2>4 DEF RecordHistorySample
<1>5. ASSUME NEW w \in samples, SampleWrites(w) PROVE HistoryInv'
  <2>1. hist' \in Rows /\ WholeTotals'
    BY <1>5, <1>h, UpsertDayStep DEF SampleWrites
  <2>2. faulted' \in BOOLEAN BY <1>5 DEF SampleWrites
  <2>3. QED BY <1>5, <2>1, <2>2 DEF SampleWrites
<1>6. CASE HistoryRead \/ HistoryLoaded \/ HistoryFailed
  BY <1>6, <1>h DEF HistoryRead, HistoryLoaded, HistoryFailed
<1>7. CASE LeaveLoop
  <2>1. CASE PersistableNow
    <3>1. last' \in Rows
      BY <1>7, <1>v, <2>1, Upserts DEF LeaveLoop
    <3>2. final' \in [day : Days, totals : Totals] /\ Persistable(final'.totals)
      BY <1>7, <1>v, <2>1 DEF LeaveLoop, PersistableNow
    <3>3. phase' = "final" /\ faulted' \in BOOLEAN
      BY <1>7, <2>1 DEF LeaveLoop
    <3>4. QED BY <1>7, <1>h, <3>1, <3>2, <3>3 DEF LeaveLoop
  <2>2. CASE ~PersistableNow
    <3>1. phase' = "ended" /\ UNCHANGED <<final, last>> /\ faulted' \in BOOLEAN
      BY <1>7, <2>2 DEF LeaveLoop
    <3>2. QED BY <1>7, <1>h, <3>1 DEF LeaveLoop
  <2>3. QED BY <2>1, <2>2
<1>8. CASE FinalWrite \/ FinalTimesOut
  <2>1. phase = "final" /\ phase' = "ended" /\ faulted' \in BOOLEAN
    BY <1>8 DEF FinalWrite, FinalTimesOut
  <2>2. hist' \in Rows /\ WholeTotals'
    BY <1>8, <1>h, <2>1, UpsertDayStep DEF FinalWrite, FinalTimesOut
  <2>3. QED BY <1>8, <2>1, <2>2 DEF FinalWrite, FinalTimesOut
<1>9. CASE Killed
  BY <1>9, <1>h DEF Killed
<1>10. CASE StartInterface
  <2>1. Empty \in Rows BY DEF Empty, Rows
  <2>2. session' \in 1..MaxSessions
    BY <1>10, PortfolioHistoryAssumption DEF StartInterface
  <2>3. 0 \in Time BY QuoteHistoryAssumption DEF Time
  <2>4. QED BY <1>10, <1>h, <2>1, <2>2, <2>3 DEF StartInterface
<1>11. CASE RunRecords
  <2>1. Valued(read) \in Totals BY TotalsType DEF RunOK
  <2>2. CASE Persistable(Valued(read))
    <3>1. hist' \in Rows /\ WholeTotals'
      BY <1>11, <2>1, <2>2, UpsertDayStep DEF RunRecords, RunOK
    <3>2. last' \in Rows
      BY <1>11, <2>1, <2>2, Upserts DEF RunRecords, RunOK
    <3>3. QED BY <1>11, <3>1, <3>2 DEF RunRecords
  <2>3. CASE ~Persistable(Valued(read))
    BY <1>11, <1>h, <2>3 DEF RunRecords
  <2>4. QED BY <2>2, <2>3
<1>12. CASE HistoryNext
  BY <1>1, <1>2, <1>3, <1>4, <1>5, <1>6, <1>7, <1>8, <1>9, <1>10, <1>12 DEF HistoryNext
<1>13. ASSUME NEW t \in Ticker, RunFetches(t) PROVE HistoryInv'
  BY <1>13, <1>s DEF RunFetches
<1>14. CASE RunPrunes \/ RunReads \/ RunStarts \/ RunStops \/ UNCHANGED allVars
  <2>1. UNCHANGED historyVars
    BY <1>14 DEF RunPrunes, RunReads, RunStarts, RunStops, allVars, vars
  <2>2. QED BY <2>1, <1>s
<1>15. QED BY <1>11, <1>12, <1>13, <1>14 DEF SnapNext, RunStep

LEMMA RunTypeStep ==
  ASSUME MemoryOK, RowsInv, RunOK, [SnapNext]_allVars
  PROVE  RunOK'
<1> USE DEF RunOK
<1>1. CASE UNCHANGED runVars
  BY <1>1 DEF runVars
<1>2. CASE RunStarts
  <2>1. Today \in Days BY DEF Today, Days
  <2>2. runs' \in 0..MaxRuns BY <1>2, SnapshotRunAssumption DEF RunStarts
  <2>3. QED BY <1>2, <2>1, <2>2 DEF RunStarts
<1>3. ASSUME NEW t \in Ticker, RunFetches(t) PROVE RunOK'
  BY <1>3 DEF RunFetches
<1>4. CASE RunPrunes
  <2>1. todo' \subseteq todo /\ step' \in {step, "read"} /\ UNCHANGED <<day, read, runs>>
    BY <1>4 DEF RunPrunes
  <2>2. QED BY <2>1
<1>5. CASE RunReads
  <2>1. read' \in Prices BY <1>5, SeenIsTime DEF RunReads, Prices
  <2>2. QED BY <1>5, <2>1 DEF RunReads
<1>6. CASE RunRecords
  BY <1>6 DEF RunRecords
<1>7. CASE RunStops
  BY <1>7 DEF RunStops
<1>8. CASE UNCHANGED allVars
  BY <1>1, <1>8 DEF allVars
<1>9. QED
  BY <1>1, <1>2, <1>3, <1>4, <1>5, <1>6, <1>7, <1>8 DEF SnapNext, RunStep

-----------------------------------------------------------------------------
(***************************************************************************)
(* Theorems about the interface and the run                                *)
(***************************************************************************)
Inv == MemoryOK /\ RowsInv /\ HistoryInv /\ RunOK

LEMMA InvInit == SnapInit => Inv
<1> SUFFICES ASSUME SnapInit PROVE Inv
  OBVIOUS
<1> USE DEF SnapInit, Init, QuoteInit, HistoryInit
<1>1. 0 \in Time /\ 1 \in Time /\ 0 \in 0..MaxFetches /\ 0 \in 0..MaxRuns /\ 1 \in 1..MaxSessions
  BY QuoteHistoryAssumption, PortfolioHistoryAssumption, SnapshotRunAssumption DEF Time
<1>2. MemoryOK
  BY <1>1 DEF MemoryOK, Prices
<1>3. RowsInv
  <2>1. Proper({}) BY FS_EmptySet DEF Proper
  <2>2. \A t \in Ticker : Cardinality(quotes[t]) <= Keep + unpruned[t]
    BY FS_EmptySet, QuoteHistoryAssumption
  <2>3. QED BY <2>1, <2>2 DEF RowsInv, Retained
<1>4. HistoryInv
  <2>1. Empty \in Rows /\ \A d \in Days : Empty[d] = None BY DEF Empty, Rows
  <2>2. QED BY <1>1, <2>1 DEF HistoryInv, HistoryTypeOK, WholeTotals, WholeOnTheWay
<1>5. RunOK
  BY <1>1 DEF RunOK, Prices, Days
<1>6. QED BY <1>2, <1>3, <1>4, <1>5 DEF Inv

LEMMA InvStep == Inv /\ [SnapNext]_allVars => Inv'
BY QuoteStep, RowsStep, HistoryStep, RunTypeStep DEF Inv

LEMMA InvHolds == SnapSpec => []Inv
BY InvInit, InvStep, PTL DEF SnapSpec

\* Every state of the tables, the interface and the run is well typed, and a
\* ticker has one row per time, whoever stores it first.
THEOREM TypeCorrect == SnapSpec => []TypeOK
<1>1. Inv => TypeOK
  BY QuoteTypes DEF Inv, TypeOK, HistoryInv, RunOK
<1>2. QED BY <1>1, InvHolds, PTL

\* No day is ever recorded with totals that leave a holding out, by the
\* samples, by the final write or by the scheduled run (persistable_totals).
THEOREM WholeTotalsHolds == SnapSpec => []WholeTotals
<1>1. Inv => WholeTotals BY DEF Inv, HistoryInv
<1>2. QED BY <1>1, InvHolds, PTL

\* No step leaves a ticker with more rows than are retained and what was stored
\* since its last prune, or loses its newest row, with any number of tasks and
\* runs storing and pruning at the same time (prune_quotes_history).
THEOREM RetentionHolds == SnapSpec => Retention
<1>1. Inv /\ [SnapNext]_allVars => [Retained' /\ NewestKept]_quoteVars
  BY QuoteStep, RowsStep DEF Inv, RowsInv
<1>2. QED BY <1>1, InvHolds, PTL DEF SnapSpec, Retention

-----------------------------------------------------------------------------
(***************************************************************************)
(* The calm regime                                                         *)
(***************************************************************************)
\* At most one write is outstanding, and with it the history is what was
\* recorded last; what the modal has or has read is that already.
OneWrite ==
  /\ samples # {} =>
       /\ phase = "running" /\ load = "done"
       /\ \E w \in samples : samples = {w} /\ last = [hist EXCEPT ![w.day] = w.totals]
  /\ samples = {} /\ phase # "final" => hist = last
  /\ phase = "final" =>
       samples = {} /\ last = [hist EXCEPT ![final.day] = final.totals]
ModalIsLast ==
  phase = "running" =>
    /\ load = "done" => modal = last
    /\ load = "read" => listed = last

\* The run works on the tables while the interface is closed.
CalmInv ==
  /\ faulted \in BOOLEAN
  /\ step # "idle" => phase = "ended"
  /\ ~faulted => OneWrite /\ ModalIsLast

LEMMA CalmInit == SnapInit => CalmInv
BY DEF SnapInit, Init, HistoryInit, CalmInv, OneWrite, ModalIsLast

LEMMA CalmStep == CalmInv /\ Calmly!SnapNext => CalmInv'
<1> SUFFICES ASSUME CalmInv, Calmly!SnapNext PROVE CalmInv'
  OBVIOUS
<1> USE DEF CalmInv, OneWrite, ModalIsLast, Calmly!Running
<1>s. ASSUME UNCHANGED <<hist, modal, load, listed, samples, phase, final, last, faulted>>,
             step' # "idle" => step # "idle" \/ phase = "ended"
      PROVE  CalmInv'
  BY <1>s
<1>1. CASE Calmly!RecordHistorySample /\ UNCHANGED step
  <2> DEFINE w == [day |-> Calmly!Today, totals |-> Calmly!Valued(shown), at |-> clock]
  <2>1. samples = {} /\ load = "done" /\ phase = "running"
    BY <1>1 DEF Calmly!RecordHistorySample
  <2>2. /\ samples' = {w} /\ UNCHANGED <<hist, load, phase, faulted>>
        /\ last' = [last EXCEPT ![w.day] = w.totals]
        /\ modal' = [modal EXCEPT ![w.day] = w.totals]
    BY <1>1, <2>1 DEF Calmly!RecordHistorySample
  <2>3. ~faulted => hist = last /\ modal = last BY <2>1
  <2>4. ~faulted => last' = [hist' EXCEPT ![w.day] = w.totals] /\ modal' = last'
    BY <2>2, <2>3
  <2>5. w \in samples' BY <2>2
  <2>6. QED BY <1>1, <2>1, <2>2, <2>4, <2>5
<1>2. ASSUME NEW w \in samples, Calmly!SampleWrites(w), UNCHANGED step PROVE CalmInv'
  <2>1. CASE faulted' = TRUE
    BY <1>2, <2>1 DEF Calmly!SampleWrites
  <2>2. CASE UNCHANGED faulted /\ Calmly!UpsertDay(w.day, w.totals)
    <3>1. ~faulted => samples = {w} /\ last = [hist EXCEPT ![w.day] = w.totals]
                      /\ phase = "running" /\ load = "done"
      BY <1>2
    <3>2. UNCHANGED <<modal, load, listed, phase, final, last>> /\ samples' = samples \ {w}
      BY <1>2 DEF Calmly!SampleWrites
    <3>3. ~faulted => hist' = last' /\ samples' = {}
      BY <2>2, <3>1, <3>2 DEF Calmly!UpsertDay
    <3>4. QED BY <1>2, <2>2, <3>1, <3>2, <3>3
  <2>3. QED BY <1>2, <2>1, <2>2 DEF Calmly!SampleWrites
<1>3. CASE Calmly!HistoryRead /\ UNCHANGED step
  BY <1>3 DEF Calmly!HistoryRead
<1>4. CASE Calmly!HistoryLoaded /\ UNCHANGED step
  BY <1>4 DEF Calmly!HistoryLoaded
<1>5. CASE Calmly!HistoryFailed /\ UNCHANGED step
  BY <1>5 DEF Calmly!HistoryFailed
<1>6. CASE Calmly!LeaveLoop /\ UNCHANGED step
  <2>1. samples = {} /\ phase = "running" /\ UNCHANGED <<hist, samples>>
    BY <1>6 DEF Calmly!LeaveLoop
  <2>2. step = "idle" BY <2>1
  <2>3. CASE Calmly!PersistableNow
    <3>1. /\ phase' = "final" /\ faulted' = faulted
          /\ last' = [last EXCEPT ![final'.day] = final'.totals]
      BY <1>6, <2>3, <2>1 DEF Calmly!LeaveLoop
    <3>2. QED BY <1>6, <2>1, <2>2, <3>1
  <2>4. CASE ~Calmly!PersistableNow
    <3>1. phase' = "ended" /\ faulted' = faulted /\ UNCHANGED last
      BY <1>6, <2>4, <2>1 DEF Calmly!LeaveLoop
    <3>2. QED BY <1>6, <2>1, <2>2, <3>1
  <2>5. QED BY <2>3, <2>4
<1>7. CASE Calmly!FinalWrite /\ UNCHANGED step
  BY <1>7 DEF Calmly!FinalWrite, Calmly!UpsertDay
<1>8. CASE Calmly!FinalTimesOut /\ UNCHANGED step
  BY <1>8 DEF Calmly!FinalTimesOut
<1>9. CASE Calmly!Killed /\ UNCHANGED step
  BY <1>9 DEF Calmly!Killed
<1>10. CASE Calmly!StartInterface /\ UNCHANGED step /\ step = "idle"
  BY <1>10 DEF Calmly!StartInterface
<1>11. CASE Calmly!HistoryNext /\ UNCHANGED runVars /\ (step = "idle" \/ phase' = "ended")
  <2>1. UNCHANGED step BY <1>11 DEF runVars
  <2>2. CASE \/ Calmly!LivePrice \/ Calmly!PricesMove \/ Calmly!HoldingsLoaded
             \/ Calmly!TimePasses
    <3>1. UNCHANGED <<hist, modal, load, listed, samples, phase, final, last, faulted>>
      BY <2>2 DEF Calmly!LivePrice, Calmly!PricesMove, Calmly!HoldingsLoaded,
        Calmly!TimePasses, Calmly!historyVars
    <3>2. QED BY <1>s, <2>1, <3>1
  <2>3. CASE Calmly!StartInterface
    <3>1. step = "idle" BY <1>11, <2>3 DEF Calmly!StartInterface
    <3>2. QED BY <1>10, <2>1, <2>3, <3>1
  <2>4. QED
    BY <1>1, <1>2, <1>3, <1>4, <1>5, <1>6, <1>7, <1>8, <1>9, <1>11, <2>1, <2>2, <2>3
    DEF Calmly!HistoryNext
<1>12. CASE Calmly!RunStarts
  BY <1>12, <1>s DEF Calmly!RunStarts, Calmly!vars, Calmly!historyVars
<1>13. ASSUME NEW t \in Ticker, Calmly!RunFetches(t) PROVE CalmInv'
  BY <1>13, <1>s DEF Calmly!RunFetches, Calmly!historyVars
<1>14. CASE Calmly!RunPrunes \/ Calmly!RunReads \/ Calmly!RunStops
  BY <1>14, <1>s DEF Calmly!RunPrunes, Calmly!RunReads, Calmly!RunStops,
    Calmly!vars, Calmly!historyVars
<1>15. CASE Calmly!RunRecords
  <2>1. phase = "ended" /\ step' = "idle" /\ UNCHANGED <<samples, phase, faulted>>
    BY <1>15 DEF Calmly!RunRecords
  <2>2. hist = last => hist' = last'
    BY <1>15 DEF Calmly!RunRecords, Calmly!UpsertDay
  <2>3. QED BY <2>1, <2>2
<1>16. QED
  BY <1>11, <1>12, <1>13, <1>14, <1>15
  DEF Calmly!SnapNext, Calmly!RunStep, Calmly!runVars, runVars

\* With the run scheduled while the interface is closed and one write at a time,
\* the history holds the totals recorded last for each day and the modal shows
\* them (upsert_day, record_history_sample).
THEOREM CalmHistoryHolds == MCSpec => []CalmHistory
<1> DEFINE I == regime = "calm" => CalmInv
<1>1. MCInit => I
  BY CalmInit DEF MCInit
<1>2. I /\ [MCNext]_<<allVars, regime>> => I'
  <2>1. CalmInv /\ UNCHANGED allVars => CalmInv'
    BY DEF CalmInv, OneWrite, ModalIsLast, allVars, vars, historyVars, runVars
  <2>2. QED BY <2>1, CalmStep DEF MCNext
<1>3. I => CalmHistory
  BY DEF CalmInv, OneWrite, ModalIsLast, CalmHistory, LastSampleWins, ModalIsTable, Running
<1>4. QED BY <1>1, <1>2, <1>3, PTL DEF MCSpec

-----------------------------------------------------------------------------
(***************************************************************************)
(* The batch fetch                                                         *)
(***************************************************************************)
\* The caller stores one quote at a time.
StoresOne == \A t, u \in storing : t = u

\* The inductive invariant: the types, where every quote is, and that the
\* caller left its receive loop only when all that was over.
PipelineInv == PipelineTypeOK /\ StoresOne /\ QuotesConserved /\ ReturnsComplete

LEMMA PipelineStarts == PipelineInit => PipelineInv
BY DEF PipelineInit, PipelineInv, StoresOne, PipelineTypeOK, PC, Caller, QuotesConserved, ReturnsComplete

LEMMA PipelineSteps == PipelineInv /\ [PipelineNext]_pipelineVars => PipelineInv'
<1> SUFFICES ASSUME PipelineInv, [PipelineNext]_pipelineVars PROVE PipelineInv'
  OBVIOUS
<1> USE DEF PipelineInv, StoresOne, PipelineTypeOK, PC, Caller, QuotesConserved, ReturnsComplete, Ended
<1>1. ASSUME NEW t \in Task, Acquire(t) PROVE PipelineInv'
  BY <1>1 DEF Acquire
<1>2. ASSUME NEW t \in Task, Fetched(t) PROVE PipelineInv'
  BY <1>2 DEF Fetched
<1>3. ASSUME NEW t \in Task, Send(t) PROVE PipelineInv'
  <2>1. PipelineTypeOK' BY <1>3 DEF Send
  <2>2. {u \in Task : pc[u] = "sent"}' = {u \in Task : pc[u] = "sent"} \cup {t}
    BY <1>3 DEF Send
  <2>3. QuotesConserved' BY <1>3, <2>2 DEF Send
  <2>4. ReturnsComplete' BY <1>3 DEF Send
  <2>5. StoresOne' BY <1>3 DEF Send
  <2>6. QED BY <2>1, <2>3, <2>4, <2>5
<1>4. ASSUME NEW t \in Task, Receive(t) PROVE PipelineInv'
  BY <1>4 DEF Receive
<1>5. ASSUME NEW t \in Task, StoreQuote(t) PROVE PipelineInv'
  <2>1. storing = {t} BY <1>5 DEF StoreQuote
  <2>2. caller = "receiving" BY <2>1
  <2>3. QED BY <1>5, <2>1, <2>2 DEF StoreQuote
<1>6. ASSUME NEW t \in Task, Join(t) PROVE PipelineInv'
  BY <1>6 DEF Join
<1>7. CASE Closed
  BY <1>7 DEF Closed
<1>8. CASE Return
  BY <1>8 DEF Return
<1>9. CASE UNCHANGED pipelineVars
  BY <1>9 DEF pipelineVars
<1>10. QED
  BY <1>1, <1>2, <1>3, <1>4, <1>5, <1>6, <1>7, <1>8, <1>9 DEF PipelineNext

LEMMA PipelineInvHolds == PipelineSpec => []PipelineInv
BY PipelineStarts, PipelineSteps, PTL DEF PipelineSpec

\* Every state of the pipeline has the declared types.
THEOREM PipelineTypeCorrect == PipelineSpec => []PipelineTypeOK
<1>1. PipelineInv => PipelineTypeOK BY DEF PipelineInv
<1>2. QED BY <1>1, PipelineInvHolds, PTL

\* No quote handed over is dropped, stored twice or counted twice.
THEOREM QuotesConservedHolds == PipelineSpec => []QuotesConserved
<1>1. PipelineInv => QuotesConserved BY DEF PipelineInv
<1>2. QED BY <1>1, PipelineInvHolds, PTL

\* The call returns with complete totals, whatever the order of the tasks.
THEOREM ReturnsCompleteHolds == PipelineSpec => []ReturnsComplete
<1>1. PipelineInv => ReturnsComplete BY DEF PipelineInv
<1>2. QED BY <1>1, PipelineInvHolds, PTL

-----------------------------------------------------------------------------
(***************************************************************************)
(* Back-pressure                                                           *)
(***************************************************************************)
\* The permits bound the tasks that fetch or send, the buffer the channel.
Bounds == Cardinality(Holding) <= MaxConcurrent /\ Cardinality(channel) <= Buffer

LEMMA SetsFinite ==
  ASSUME PipelineTypeOK
  PROVE  /\ IsFiniteSet(Holding) /\ Cardinality(Holding) \in Nat
         /\ IsFiniteSet(channel) /\ Cardinality(channel) \in Nat
<1>1. Holding \in SUBSET Task /\ channel \in SUBSET Task
  BY DEF PipelineTypeOK, Holding
<1>2. QED BY <1>1, PipelineAssumption, FS_Subset, FS_CardinalityType

LEMMA BoundsInit == PipelineInit => Bounds
<1> SUFFICES ASSUME PipelineInit PROVE Bounds
  OBVIOUS
<1>1. Holding = {} /\ channel = {} BY DEF PipelineInit, Holding
<1>2. QED BY <1>1, PipelineAssumption, FS_EmptySet DEF Bounds

\* One more element adds at most one.
LEMMA OneMore ==
  ASSUME NEW S, IsFiniteSet(S), NEW x
  PROVE  /\ Cardinality(S \cup {x}) \in Nat
         /\ Cardinality(S \cup {x}) <= Cardinality(S) + 1
<1>1. IsFiniteSet(S \cup {x}) BY FS_AddElement
<1>2. Cardinality(S \cup {x}) \in Nat /\ Cardinality(S) \in Nat
  BY <1>1, FS_CardinalityType
<1>3. \/ Cardinality(S \cup {x}) = Cardinality(S)
      \/ Cardinality(S \cup {x}) = Cardinality(S) + 1
  BY FS_AddElement
<1>4. QED BY <1>2, <1>3

LEMMA BoundsStep ==
  ASSUME PipelineTypeOK, Bounds, [PipelineNext]_pipelineVars
  PROVE  Bounds'
<1> USE SetsFinite, PipelineAssumption DEF Bounds
<1>h. ASSUME Holding' \in SUBSET Holding PROVE Cardinality(Holding') <= MaxConcurrent
  <2>1. Cardinality(Holding') <= Cardinality(Holding) /\ Cardinality(Holding') \in Nat
    BY <1>h, FS_Subset, FS_CardinalityType
  <2>2. QED BY <2>1
<1>c. ASSUME channel' \in SUBSET channel PROVE Cardinality(channel') <= Buffer
  <2>1. Cardinality(channel') <= Cardinality(channel) /\ Cardinality(channel') \in Nat
    BY <1>c, FS_Subset, FS_CardinalityType
  <2>2. QED BY <2>1
<1>1. ASSUME NEW t \in Task, Acquire(t) PROVE Bounds'
  <2>1. Holding' = Holding \cup {t}
    BY <1>1 DEF Acquire, Holding, PipelineTypeOK
  <2>2. Cardinality(Holding') \in Nat /\ Cardinality(Holding') <= Cardinality(Holding) + 1
    BY <2>1, OneMore
  <2>3. Cardinality(Holding') <= MaxConcurrent
    BY <1>1, <2>2 DEF Acquire
  <2>4. channel' = channel BY <1>1 DEF Acquire
  <2>5. QED BY <1>c, <2>3, <2>4
<1>2. ASSUME NEW t \in Task, Fetched(t) PROVE Bounds'
  <2>1. Holding' \in SUBSET Holding /\ channel' = channel
    BY <1>2 DEF Fetched, Holding, PipelineTypeOK
  <2>2. QED BY <1>h, <1>c, <2>1
<1>3. ASSUME NEW t \in Task, Send(t) PROVE Bounds'
  <2>1. Holding' \in SUBSET Holding /\ channel' = channel \cup {t}
    BY <1>3 DEF Send, Holding, PipelineTypeOK
  <2>2. Cardinality(channel') \in Nat /\ Cardinality(channel') <= Cardinality(channel) + 1
    BY <2>1, OneMore
  <2>3. Cardinality(channel') <= Buffer
    BY <1>3, <2>2 DEF Send
  <2>4. QED BY <1>h, <2>1, <2>3
<1>4. ASSUME NEW t \in Task, Receive(t) PROVE Bounds'
  <2>1. Holding' = Holding /\ channel' \in SUBSET channel
    BY <1>4 DEF Receive, Holding
  <2>2. QED BY <1>h, <1>c, <2>1
<1>5. ASSUME UNCHANGED <<pc, channel>> PROVE Bounds'
  <2>1. Holding' = Holding BY <1>5 DEF Holding
  <2>2. QED BY <1>5, <1>h, <1>c, <2>1
<1>6. QED
  BY <1>1, <1>2, <1>3, <1>4, <1>5 DEF PipelineNext, StoreQuote, Join, Closed, Return, pipelineVars

\* However slow the database is, no more quotes are requested and unsaved than
\* the permits, the buffer and the caller's hands hold (run.rs, the semaphore
\* and the bounded channel).
THEOREM BackpressureHolds == PipelineSpec => []Backpressure
<1>1. PipelineInv /\ Bounds => Backpressure
  <2> SUFFICES ASSUME PipelineInv, Bounds PROVE Backpressure
    OBVIOUS
  <2>1. PipelineTypeOK BY DEF PipelineInv
  <2>2. Cardinality(storing) \in {0, 1}
    <3>1. CASE storing = {} BY <3>1, FS_EmptySet
    <3>2. CASE storing # {}
      <4>1. PICK t : storing = {t} BY <3>2 DEF PipelineInv, StoresOne
      <4>2. QED BY <4>1, FS_Singleton
    <3>3. QED BY <3>1, <3>2
  <2>3. QED BY <2>1, <2>2, SetsFinite, PipelineAssumption DEF Bounds, Backpressure
<1>2. PipelineInv /\ Bounds /\ [PipelineNext]_pipelineVars => Bounds'
  BY BoundsStep DEF PipelineInv
<1>3. QED BY <1>1, <1>2, BoundsInit, PipelineInvHolds, PTL DEF PipelineSpec

-----------------------------------------------------------------------------
(***************************************************************************)
(* Refinement of BatchFetch.                                               *)
(***************************************************************************)
LEMMA BatchInit == PipelineInit => Batch!Init
BY DEF PipelineInit, Batch!Init, OutcomeOf

\* A step that leaves every outcome and the caller's return alone stutters.
LEMMA BatchStutter ==
  ASSUME \A t \in Task : OutcomeOf(t)' = OutcomeOf(t),
         (caller = "returned")' = (caller = "returned")
  PROVE  UNCHANGED <<[t \in Task |-> OutcomeOf(t)], caller = "returned">>
OBVIOUS

LEMMA BatchStep ==
  PipelineInv /\ [PipelineNext]_pipelineVars =>
    [Batch!Next]_<<[t \in Task |-> OutcomeOf(t)], caller = "returned">>
<1> SUFFICES ASSUME PipelineInv, [PipelineNext]_pipelineVars
             PROVE  \/ Batch!Next
                    \/ UNCHANGED <<[t \in Task |-> OutcomeOf(t)], caller = "returned">>
  OBVIOUS
<1> USE DEF PipelineInv, StoresOne, PipelineTypeOK, PC, Caller, QuotesConserved, ReturnsComplete, Ended
<1>1. ASSUME NEW t \in Task, Acquire(t)
      PROVE  UNCHANGED <<[u \in Task |-> OutcomeOf(u)], caller = "returned">>
  <2>1. \A u \in Task : OutcomeOf(u)' = OutcomeOf(u)
    BY <1>1 DEF Acquire, OutcomeOf
  <2>2. QED BY <1>1, <2>1, BatchStutter DEF Acquire
<1>2. ASSUME NEW t \in Task, Fetched(t) PROVE Batch!Next \/
        UNCHANGED <<[u \in Task |-> OutcomeOf(u)], caller = "returned">>
  <2>1. CASE pc' = [pc EXCEPT ![t] = "sending"]
    <3>1. \A u \in Task : OutcomeOf(u)' = OutcomeOf(u)
      BY <1>2, <2>1 DEF Fetched, OutcomeOf
    <3>2. QED BY <1>2, <3>1, BatchStutter DEF Fetched
  <2>2. CASE pc' = [pc EXCEPT ![t] = "none"]
    <3>1. OutcomeOf(t) = "pending" /\ OutcomeOf(t)' = "none"
      BY <1>2, <2>2 DEF Fetched, OutcomeOf
    <3>2. \A u \in Task \ {t} : OutcomeOf(u)' = OutcomeOf(u)
      BY <1>2, <2>2 DEF Fetched, OutcomeOf
    <3>3. Batch!Resolve(t, "none")
      BY <1>2, <3>1, <3>2 DEF Fetched, Batch!Resolve, Batch!Outcome
    <3>4. QED BY <3>3 DEF Batch!Next, Batch!Outcome
  <2>3. QED BY <1>2, <2>1, <2>2 DEF Fetched
<1>3. ASSUME NEW t \in Task, Send(t)
      PROVE  UNCHANGED <<[u \in Task |-> OutcomeOf(u)], caller = "returned">>
  <2>1. \A u \in Task : OutcomeOf(u)' = OutcomeOf(u)
    BY <1>3 DEF Send, OutcomeOf
  <2>2. QED BY <1>3, <2>1, BatchStutter DEF Send
<1>4. ASSUME NEW t \in Task, Receive(t)
      PROVE  UNCHANGED <<[u \in Task |-> OutcomeOf(u)], caller = "returned">>
  <2>1. \A u \in Task : OutcomeOf(u)' = OutcomeOf(u)
    BY <1>4 DEF Receive, OutcomeOf
  <2>2. QED BY <1>4, <2>1, BatchStutter DEF Receive
<1>5. ASSUME NEW t \in Task, StoreQuote(t) PROVE Batch!Next
  <2>1. PICK o \in {"stored", "failed"} :
          OutcomeOf(t)' = o
    BY <1>5 DEF StoreQuote, OutcomeOf
  <2>2. OutcomeOf(t) = "pending"
    BY <1>5 DEF StoreQuote, OutcomeOf
  <2>3. \A u \in Task \ {t} : OutcomeOf(u)' = OutcomeOf(u)
    BY <1>5 DEF StoreQuote, OutcomeOf
  <2>4. Batch!Resolve(t, o)
    BY <1>5, <2>1, <2>2, <2>3 DEF StoreQuote, Batch!Resolve, Batch!Outcome
  <2>5. QED BY <2>4 DEF Batch!Next, Batch!Outcome
<1>6. ASSUME NEW t \in Task, Join(t)
      PROVE  UNCHANGED <<[u \in Task |-> OutcomeOf(u)], caller = "returned">>
  <2>1. \A u \in Task : OutcomeOf(u)' = OutcomeOf(u)
    BY <1>6 DEF Join, OutcomeOf
  <2>2. QED BY <1>6, <2>1, BatchStutter DEF Join
<1>7. ASSUME Closed
      PROVE  UNCHANGED <<[u \in Task |-> OutcomeOf(u)], caller = "returned">>
  <2>1. \A u \in Task : OutcomeOf(u)' = OutcomeOf(u)
    BY <1>7 DEF Closed, OutcomeOf
  <2>2. QED BY <1>7, <2>1, BatchStutter DEF Closed
<1>8. ASSUME Return PROVE Batch!Next
  <2>1. \A u \in Task : OutcomeOf(u)' = OutcomeOf(u)
    BY <1>8 DEF Return, OutcomeOf
  <2>2. \A u \in Task : OutcomeOf(u) # "pending"
    BY <1>8 DEF Return, OutcomeOf
  <2>3. Batch!Return
    BY <1>8, <2>1, <2>2 DEF Return, Batch!Return
  <2>4. QED BY <2>3 DEF Batch!Next
<1>9. CASE UNCHANGED pipelineVars
  <2>1. \A u \in Task : OutcomeOf(u)' = OutcomeOf(u)
    BY <1>9 DEF pipelineVars, OutcomeOf
  <2>2. QED BY <1>9, <2>1, BatchStutter DEF pipelineVars
<1>10. QED
  BY <1>1, <1>2, <1>3, <1>4, <1>5, <1>6, <1>7, <1>8, <1>9 DEF PipelineNext

\* The pipeline implements BatchFetch: each ticker comes to one outcome and
\* the call returns after the last of them.
THEOREM PipelineRefinement == PipelineSpec => ImplementsBatch
BY BatchInit, BatchStep, PipelineInvHolds, PTL DEF PipelineSpec, ImplementsBatch, Batch!Spec
=============================================================================
