---------------------------- MODULE QuoteHistory ----------------------------
(***************************************************************************)
(* The quotes table as a history: what is stored for each ticker by        *)
(* fetches and by the periodic snapshots of streamed prices, what the      *)
(* retention prune deletes, and the prices in memory that snapshots copy.  *)
(*                                                                         *)
(* A price is the time it was observed on the market.  A row also carries  *)
(* the time it is filed under, as_of: the same for a fetched quote, the    *)
(* time of the snapshot for a copied one.                                  *)
(***************************************************************************)
EXTENDS Integers, Sequences, FiniteSets

CONSTANTS
  Ticker,      \* the tickers, as numbers
  Keep,        \* QUOTE_HISTORY_RETENTION
  MaxClock,    \* bound on time
  MaxFetches,  \* bound on the fetches and reloads of one session
  Overlapping, \* whether fetches, reloads and snapshots overlap
  Parts        \* which of "snapshots", "samples" and "run" take place

ASSUME QuoteHistoryAssumption ==
  /\ Ticker \subseteq Nat /\ IsFiniteSet(Ticker)
  /\ Keep \in Nat \ {0}
  /\ MaxClock \in Nat \ {0} /\ MaxFetches \in Nat
  /\ Overlapping \in BOOLEAN
  /\ Parts \subseteq {"snapshots", "samples", "run"}

VARIABLES
  clock,     \* the time
  quotes,    \* the quotes table: the rows of each ticker
  shown,     \* the price of each row of all_rows, 0 when there is none
  snaps,     \* snapshot tasks under way
  snapped,   \* the time of the latest record_snapshots
  fetches,   \* fetch tasks and their FetchCompleted events
  asked,     \* fetches and reloads of this session
  reload,    \* prices a reload has read and PageLoaded will bring
  unpruned   \* history: rows stored since the ticker was last pruned

quoteVars == <<clock, quotes, shown, snaps, snapped, fetches, asked, reload, unpruned>>

Time == 0..MaxClock
Prices == [Ticker -> Time]
NoReload == [t \in {} |-> 0]

\* Rows with the time they are filed under; Postgres keeps (ticker, as_of)
\* unique.
Row == [at : Time, seen : Time]

Latest(rows) == CHOOSE r \in rows : \A q \in rows : q.at <= r.at

\* What `SELECT DISTINCT ON (ticker) ... ORDER BY ticker, as_of DESC` returns.
LatestSeen(t) == IF quotes[t] = {} THEN 0 ELSE Latest(quotes[t]).seen

\* Mutant of Stored: without the conflict clause and its constraint.
Stored_Duplicates(rows, r) == rows \cup {r}

\* store_quote_to_db: a row under the same time stays as it is.
Stored(rows, r) == IF \E q \in rows : q.at = r.at THEN rows ELSE rows \cup {r}

\* Mutant of Pruned: OFFSET $2, one row off.
Pruned_KeepsOneMore(rows) ==
  {r \in rows : ~\E c \in rows :
     /\ Cardinality({q \in rows : q.at > c.at}) = Keep
     /\ r.at < c.at}

\* prune_quotes_history: rows older than the Keep-th newest are deleted; with
\* fewer rows the subquery is empty, the comparison NULL, and nothing is.
Pruned(rows) ==
  {r \in rows : ~\E c \in rows :
     /\ Cardinality({q \in rows : q.at > c.at}) = Keep - 1
     /\ r.at < c.at}

Store(t, r) ==
  /\ quotes' = [quotes EXCEPT ![t] = Stored(@, r)]
  /\ unpruned' = [unpruned EXCEPT ![t] = @ + 1]

Prune(t) ==
  /\ quotes' = [quotes EXCEPT ![t] = Pruned(@)]
  /\ unpruned' = [unpruned EXCEPT ![t] = 0]

Idle == snaps = {} /\ fetches = {} /\ reload = NoReload

MayAsk == "snapshots" \in Parts /\ asked < MaxFetches /\ (Overlapping \/ Idle)

QuoteInit ==
  /\ clock = 1
  /\ quotes = [t \in Ticker |-> {}]
  /\ shown = [t \in Ticker |-> 0]
  /\ snaps = {} /\ snapped = clock
  /\ fetches = {} /\ asked = 0
  /\ reload = NoReload
  /\ unpruned = [t \in Ticker |-> 0]

-----------------------------------------------------------------------------
Advance ==
  /\ clock < MaxClock
  /\ clock' = clock + 1
  /\ UNCHANGED <<quotes, shown, snaps, snapped, fetches, asked, reload, unpruned>>

\* QuoteTick of a subscribed ticker.
QuoteTick(t) ==
  /\ shown' = [shown EXCEPT ![t] = clock]
  /\ UNCHANGED <<clock, quotes, snaps, snapped, fetches, asked, reload, unpruned>>

\* The tickers snapshot_records takes, in the order of all_rows.
Priced == {t \in Ticker : shown[t] # 0}

\* record_snapshots, when snapshot_age has run out; spawn_snapshot returns at
\* once when there is no record.
RecordSnapshots ==
  /\ "snapshots" \in Parts
  /\ snapped < clock
  /\ Overlapping \/ Idle
  /\ snapped' = clock
  /\ snaps' = IF Priced = {} THEN snaps
              ELSE snaps \cup {[at |-> clock, seen |-> shown, left |-> Priced, now |-> "store"]}
  /\ UNCHANGED <<clock, quotes, shown, fetches, asked, reload, unpruned>>

\* The ticker a snapshot task is at.
At(s) == CHOOSE t \in s.left : \A u \in s.left : t <= u

\* What is left of the task when it is through with that ticker.
Continued(s) ==
  LET rest == s.left \ {At(s)}
  IN IF rest = {} THEN {} ELSE {[s EXCEPT !.left = rest, !.now = "store"]}

\* spawn_snapshot stores one record.
SnapStore(s) ==
  /\ s.now = "store"
  /\ Store(At(s), [at |-> s.at, seen |-> s.seen[At(s)]])
  /\ snaps' = (snaps \ {s}) \cup {[s EXCEPT !.now = "prune"]}
  /\ UNCHANGED <<clock, shown, snapped, fetches, asked, reload>>

\* The store fails: a line is logged and the task continues with the next.
SnapStoreFails(s) ==
  /\ s.now = "store"
  /\ snaps' = (snaps \ {s}) \cup Continued(s)
  /\ UNCHANGED <<clock, quotes, shown, snapped, fetches, asked, reload, unpruned>>

\* It prunes the ticker it has stored.
SnapPrune(s) ==
  /\ s.now = "prune"
  /\ Prune(At(s))
  /\ snaps' = (snaps \ {s}) \cup Continued(s)
  /\ UNCHANGED <<clock, shown, snapped, fetches, asked, reload>>

SnapPruneFails(s) ==
  /\ s.now = "prune"
  /\ snaps' = (snaps \ {s}) \cup Continued(s)
  /\ UNCHANGED <<clock, quotes, shown, snapped, fetches, asked, reload, unpruned>>

\* spawn_fetch, and fetch_quote_and_store in its task: a quote as of now or,
\* with the market closed, as of an earlier time.  Nothing is pruned.
FetchStored(t, m) ==
  /\ MayAsk
  /\ asked' = asked + 1
  /\ Store(t, [at |-> m, seen |-> m])
  /\ fetches' = fetches \cup {[ticker |-> t, seen |-> m]}
  /\ UNCHANGED <<clock, shown, snaps, snapped, reload>>

\* FetchCompleted puts the row into all_rows.
FetchCompleted(f) ==
  /\ fetches' = fetches \ {f}
  /\ shown' = [shown EXCEPT ![f.ticker] = f.seen]
  /\ UNCHANGED <<clock, quotes, snaps, snapped, asked, reload, unpruned>>

\* spawn_reload reads the latest row of each ticker,
ReloadReads ==
  /\ MayAsk /\ reload = NoReload
  /\ asked' = asked + 1
  /\ reload' = [t \in Ticker |-> LatestSeen(t)]
  /\ UNCHANGED <<clock, quotes, shown, snaps, snapped, fetches, unpruned>>

\* and PageLoaded puts them in place of all_rows.
PageLoaded ==
  /\ reload # NoReload
  /\ shown' = reload
  /\ reload' = NoReload
  /\ UNCHANGED <<clock, quotes, snaps, snapped, fetches, asked, unpruned>>

-----------------------------------------------------------------------------
(***************************************************************************)
(* Properties                                                              *)
(***************************************************************************)
\* Types, and that the table holds one row per ticker and time, whoever
\* stores it first (ON CONFLICT (ticker, as_of) in store_quote_to_db).
QuoteTypeOK ==
  /\ clock \in Time /\ snapped \in Time
  /\ quotes \in [Ticker -> SUBSET Row]
  /\ \A t \in Ticker : \A r, q \in quotes[t] : r.at = q.at => r = q
  /\ shown \in Prices
  /\ snaps \subseteq [at : Time, seen : Prices, left : SUBSET Ticker, now : {"store", "prune"}]
  /\ fetches \subseteq [ticker : Ticker, seen : Time]
  /\ asked \in 0..MaxFetches
  /\ reload \in Prices \cup {NoReload}
  /\ unpruned \in [Ticker -> Nat]

\* A ticker has no more rows than are retained and what has been stored since
\* its last prune, with tasks that fail, overlap or are killed between storing
\* and pruning ("Rows kept per ticker", db/quotes.rs:12).
Retained == \A t \in Ticker : Cardinality(quotes[t]) <= Keep + unpruned[t]

\* The newest row of a ticker is still there after the step, or a newer one.
NewestKept ==
  \A t \in Ticker : quotes[t] # {} =>
    quotes'[t] # {} /\ Latest(quotes'[t]).at >= Latest(quotes[t]).at

\* No step leaves more rows than that or loses the newest of a ticker, whatever
\* is stored and pruned by whom in whatever order (prune_quotes_history).
Retention == [][Retained' /\ NewestKept]_quoteVars
=============================================================================
