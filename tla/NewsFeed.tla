------------------------------ MODULE NewsFeed ------------------------------
(***************************************************************************)
(* The merged news feed (market.news_feed) over the watchlist, and the     *)
(* News page's cursor.  A refresh empties the feed and starts one fetch    *)
(* per source ticker; the fetches of earlier refreshes go on, and their    *)
(* answers are merged and counted like those of the latest one.            *)
(*                                                                         *)
(* A headline is modelled by its dedup key; the feed by the tagged         *)
(* headlines it holds.  Its order matters only to the cursor, an index.    *)
(***************************************************************************)
EXTENDS Watchlist, Sequences, FiniteSetsExt

CONSTANTS
  FeedMax,      \* NEWS_FEED_MAX_TICKERS
  Headlines,    \* the headlines each ticker's news consists of
  MaxRefreshes, \* bound on the refreshes of one session
  MaxCursor,    \* bound on the cursor
  Patient       \* whether a refresh waits for the fetches of the one before

ASSUME FeedAssumption ==
  /\ FeedMax \in Nat /\ MaxRefreshes \in Nat /\ MaxCursor \in Nat
  /\ DOMAIN Headlines = Ticker
  /\ \A t \in Ticker : IsFiniteSet(Headlines[t])
  /\ Patient \in BOOLEAN

VARIABLES
  requested,  \* news_feed.requested
  pending,    \* news_feed.pending
  loading,    \* news_feed.loading
  items,      \* news_feed.items
  selected,   \* news_page.selected
  refreshes,  \* how many refreshes this session has made
  fetching,   \* how many fetch tasks run for each ticker
  queue,      \* NewsFeedItemReady events on their way
  asked       \* history: the tickers of the latest refresh

feedVars == <<requested, pending, loading, items, selected, refreshes, fetching,
              queue, asked>>
vars == <<watchVars, feedVars>>

Item == [ticker : Ticker, headline : UNION {Headlines[t] : t \in Ticker}]

\* feed_source_tickers: the first FeedMax tickers of the watchlist by name.
FeedSource(w) == {t \in w : Cardinality({u \in w : u < t}) < FeedMax}

\* merge_feed: a headline that is in the feed, under any ticker, is skipped.
Merge(feed, t, news) ==
  feed \cup {[ticker |-> t, headline |-> h] :
               h \in {g \in news : \A i \in feed : i.headline # g}}

Fetches == {t \in Ticker : fetching[t] > 0}
FeedAtRest == Fetches = {} /\ queue = <<>>

\* news_empty_message, draw_news_cube, draw_news_page: what the page shows.
Shown ==
  IF items # {} THEN "headlines"
  ELSE IF loading THEN "loading"
  ELSE IF watch = {} THEN "follow a ticker"
  ELSE "no headlines"

FeedInit ==
  /\ requested = FALSE
  /\ pending = 0
  /\ loading = FALSE
  /\ items = {}
  /\ selected = 0
  /\ refreshes = 0
  /\ fetching = [t \in Ticker |-> 0]
  /\ queue = <<>>
  /\ asked = {}

Init == WatchInit /\ FeedInit

(***************************************************************************)
(* refresh_news_feed and the handlers that call it                         *)
(***************************************************************************)

\* Mutants of Refresh: every ticker of the watchlist is counted, those beyond
\* the cap too; the feed is not emptied.
Refresh_CountsAll(w) ==
  LET source == FeedSource(w) IN
  /\ refreshes < MaxRefreshes
  /\ Patient => FeedAtRest
  /\ refreshes' = refreshes + 1
  /\ requested' = TRUE
  /\ items' = {}
  /\ pending' = Cardinality(w)
  /\ loading' = (w # {})
  /\ fetching' = [t \in Ticker |-> fetching[t] + IF t \in source THEN 1 ELSE 0]
  /\ asked' = source
  /\ UNCHANGED queue
Refresh_KeepsItems(w) ==
  LET source == FeedSource(w) IN
  /\ refreshes < MaxRefreshes
  /\ Patient => FeedAtRest
  /\ refreshes' = refreshes + 1
  /\ requested' = TRUE
  /\ pending' = Cardinality(source)
  /\ loading' = (source # {})
  /\ fetching' = [t \in Ticker |-> fetching[t] + IF t \in source THEN 1 ELSE 0]
  /\ asked' = source
  /\ UNCHANGED <<items, queue>>

\* Refreshing for the watchlist w.
Refresh(w) ==
  LET source == FeedSource(w) IN
  /\ refreshes < MaxRefreshes
  /\ Patient => FeedAtRest
  /\ refreshes' = refreshes + 1
  /\ requested' = TRUE
  /\ items' = {}
  /\ pending' = Cardinality(source)
  /\ loading' = (source # {})
  /\ fetching' = [t \in Ticker |-> fetching[t] + IF t \in source THEN 1 ELSE 0]
  /\ asked' = source
  /\ UNCHANGED queue

\* ensure_news_feed_requested.
EnsureRequested(w) ==
  \/ ~requested /\ Refresh(w)
  \/ /\ requested
     /\ UNCHANGED <<requested, pending, loading, items, refreshes, fetching, queue, asked>>

\* Going to the News page.
EnterNews ==
  /\ selected' = 0
  /\ EnsureRequested(watch)
  /\ UNCHANGED watchVars

\* `r` on the News page.
PressRefresh ==
  /\ Refresh(watch)
  /\ UNCHANGED <<watchVars, selected>>

\* `w` on the Market page.
ToggleAndRefresh(t) ==
  /\ Toggle(t)
  /\ Refresh(watch')
  /\ UNCHANGED selected

\* WatchlistLoaded: the feed is fetched unless it has been before.
LoadedAndEnsured ==
  /\ WatchlistLoaded
  /\ EnsureRequested(watch')
  /\ UNCHANGED selected

\* news_move: from the cursor, clamped to the feed, one step down or up.
Move(d) ==
  LET last == Cardinality(items) - 1
      at == IF selected < last THEN selected ELSE last
      to == at + d
  IN
  /\ items # {}
  /\ selected' = IF to < 0 THEN 0 ELSE IF to > last THEN last ELSE to
  /\ selected' <= MaxCursor
  /\ UNCHANGED <<watchVars, requested, pending, loading, items, refreshes,
                 fetching, queue, asked>>

(***************************************************************************)
(* The fetch tasks and their answers                                       *)
(***************************************************************************)

\* Mutant of FetchEnds: a failed fetch sends nothing.
FetchEnds_SilentError(t) ==
  /\ fetching[t] > 0
  /\ fetching' = [fetching EXCEPT ![t] = @ - 1]
  /\ queue' \in {Append(queue, [ticker |-> t, news |-> Headlines[t]]), queue}
  /\ UNCHANGED <<watchVars, requested, pending, loading, items, selected,
                 refreshes, asked>>

\* spawn_news_feed's task: it sends one event, empty when the fetch fails.
FetchEnds(t) ==
  /\ fetching[t] > 0
  /\ fetching' = [fetching EXCEPT ![t] = @ - 1]
  /\ \E news \in {Headlines[t], {}} :
       queue' = Append(queue, [ticker |-> t, news |-> news])
  /\ UNCHANGED <<watchVars, requested, pending, loading, items, selected,
                 refreshes, asked>>

\* Mutant of NewsFeedItemReady: the counter is not saturating.
NewsFeedItemReady_Wraps ==
  /\ queue # <<>>
  /\ LET e == Head(queue) IN items' = Merge(items, e.ticker, e.news)
  /\ pending' = pending - 1
  /\ loading' = (loading /\ pending' # 0)
  /\ queue' = Tail(queue)
  /\ UNCHANGED <<watchVars, requested, selected, refreshes, fetching, asked>>

\* NewsFeedItemReady: the headlines are merged and the count goes down,
\* whichever refresh the fetch was started by.
NewsFeedItemReady ==
  /\ queue # <<>>
  /\ LET e == Head(queue) IN items' = Merge(items, e.ticker, e.news)
  /\ pending' = IF pending = 0 THEN 0 ELSE pending - 1
  /\ loading' = (loading /\ pending' # 0)
  /\ queue' = Tail(queue)
  /\ UNCHANGED <<watchVars, requested, selected, refreshes, fetching, asked>>

\* A new session starts with an empty feed.
RestartFeed ==
  /\ Restart
  /\ requested' = FALSE /\ pending' = 0 /\ loading' = FALSE
  /\ items' = {} /\ selected' = 0 /\ refreshes' = 0
  /\ fetching' = [t \in Ticker |-> 0]
  /\ queue' = <<>>
  /\ asked' = {}

Next ==
  \/ EnterNews \/ PressRefresh \/ LoadedAndEnsured \/ RestartFeed
  \/ \E d \in {-1, 1} : Move(d)
  \/ \E t \in Ticker : ToggleAndRefresh(t) \/ FetchEnds(t)
  \/ NewsFeedItemReady
  \/ /\ \/ ReadTable \/ LoadFails
        \/ \E w \in writes : WriteRuns(w) \/ WriteFails(w)
     /\ UNCHANGED feedVars

\* A fetch ends, with headlines or without; the loop drains its queue.
Fairness == (\A t \in Ticker : WF_vars(FetchEnds(t))) /\ WF_vars(NewsFeedItemReady)

Spec == Init /\ [][Next]_vars
FairSpec == Spec /\ Fairness

-----------------------------------------------------------------------------
(***************************************************************************)
(* Properties                                                              *)
(***************************************************************************)

\* Type invariant of the feed.
TypeOK ==
  /\ WatchTypeOK
  /\ requested \in BOOLEAN /\ loading \in BOOLEAN
  /\ pending \in Nat /\ selected \in Nat /\ refreshes \in 0..MaxRefreshes
  /\ items \subseteq Item
  /\ fetching \in [Ticker -> Nat]
  /\ \A i \in DOMAIN queue : queue[i].ticker \in Ticker
  /\ asked \subseteq Ticker

\* The spinner is never left on: as long as the feed says it is loading, at
\* least as many answers as it waits for are running or on their way.
PendingIsCovered ==
  /\ loading = (pending > 0)
  /\ pending <= MapThenSumSet(LAMBDA t : fetching[t], Ticker) + Len(queue)

\* A refresh replaces the feed: every headline listed was fetched for a ticker
\* of the latest refresh.
FeedFromLatestRefresh == \A i \in items : i.ticker \in asked

\* The page never says that there is no news, nor asks for a watchlist, while an
\* answer is on its way.
EmptyIsFinal == Shown \in {"no headlines", "follow a ticker"} => FeedAtRest

\* The feed stops loading, for the last refresh of a session at the latest.
LoadingEnds == loading ~> ~loading
=============================================================================
