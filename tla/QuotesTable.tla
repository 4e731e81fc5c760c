----------------------------- MODULE QuotesTable -----------------------------
(***************************************************************************)
(* The quotes table of the Market page (market.db_display): the master     *)
(* list, the filtered rows, the page and the selection, and the symbols    *)
(* the live stream is subscribed to.                                       *)
(*                                                                         *)
(* A key that changes the sort starts a reload, and several may run at     *)
(* once.  A reload reads the latest quote of every ticker in the order it  *)
(* was started for; its list, and the rows of fetched quotes, are handled  *)
(* in any order.                                                           *)
(*                                                                         *)
(* A row is modelled by its ticker and a query by the tickers it matches.  *)
(* A sort column with its direction is modelled by the orders it may put   *)
(* the tickers in: which of them a reload finds depends on what is stored  *)
(* when it reads.  A tick moves the prices in the rows and not the rows,   *)
(* so a row may leave the order it was read in as soon as it is shown.     *)
(***************************************************************************)
EXTENDS Integers, Sequences, SequencesExt

CONSTANTS
  Ticker,      \* the tickers
  Sorts,       \* the sort columns with their directions
  SortedBy,    \* the orders each of them may put all tickers in
  Queries,     \* the queries a user may type
  Matching,    \* the tickers each of them matches
  Empty,       \* the query that has not been typed yet
  Sizes,       \* the page sizes the terminal may have
  Holdable,    \* the tickers the user may hold
  Watchlists,  \* what the watchlist table may contain at startup
  MaxReloads,  \* bound on the reloads of one sort at one stage
  MaxKeys,     \* bound on the keys that start a task
  Calm         \* no reload overlaps another or fails, no quote is fetched,
               \* and the watchlist is loaded before it filters

ASSUME TableAssumption ==
  /\ SortedBy \in [Sorts -> SUBSET Seq(Ticker)]
  /\ \A s \in Sorts : \A order \in SortedBy[s] :
       IsInjective(order) /\ ToSet(order) = Ticker
  /\ Matching \in [Queries \cup {Empty} -> SUBSET Ticker]
  /\ Matching[Empty] = Ticker
  /\ Empty \notin Queries
  /\ Sizes \subseteq Nat \ {0}
  /\ Holdable \subseteq Ticker
  /\ Watchlists \subseteq SUBSET Ticker
  /\ MaxReloads \in Nat \ {0} /\ MaxKeys \in Nat
  /\ Calm \in BOOLEAN

None == -1  \* no row is selected

VARIABLES
  stored,      \* the tickers with a row in the quotes table
  allRows,     \* db_display.all_rows
  rows,        \* db_display.rows
  page, pageSize,  \* db_display.page, page_size
  selected,    \* table_state.selected(), counted from 0
  sort,        \* sort_mode and sort_order
  activity,    \* input_mode.activity
  query,       \* input_mode.input, while it is a query
  watchlist,   \* db_display.watchlist
  watchlistOnly,
  listLoading, \* the startup load of the watchlist has not arrived
  held,        \* the tickers of App.holdings
  subscribed,  \* App.subscribed_symbols
  reading,     \* how many reloads for each sort have not read the table
  loaded,      \* lists read on their way to the loop, counted
  listed,      \* history: sort and order of the list handled last, if any
  fetching,    \* the tickers being fetched
  fetched,     \* FetchCompleted events on their way
  keys         \* how many keys have started a task

view  == <<allRows, rows, page, pageSize, selected>>
input == <<activity, query>>
watch == <<watchlist, watchlistOnly, listLoading>>
reloads == <<reading, loaded, listed>>
fetches == <<fetching, fetched>>
vars  == <<view, sort, input, watch, held, subscribed, stored, reloads,
           fetches, keys>>

Orders == UNION {[sort : {s}, order : SortedBy[s]] : s \in Sorts}
Lists == {[sort |-> o.sort, order |-> o.order, tickers |-> T] :
            o \in Orders, T \in SUBSET Ticker}
NoReload == [s \in Sorts |-> 0]
NoList   == [l \in Lists |-> 0]
AtRest   == reading = NoReload /\ loaded = NoList

Activities == {"idle", "ticker", "fuzzy", "applied"}

(***************************************************************************)
(* Pages and windows                                                       *)
(***************************************************************************)
Least(a, b) == IF a < b THEN a ELSE b

\* total_pages: an empty table has one page.
TotalPages(n, size) == IF n = 0 THEN 1 ELSE (n + size - 1) \div size

\* window_range: the rows of the page, clipped to the rows there are.
WindowStart == Least(page * pageSize, Len(rows))
WindowEnd   == Least(WindowStart + pageSize, Len(rows))
WindowLen   == WindowEnd - WindowStart
Window      == {rows[i] : i \in WindowStart + 1 .. WindowEnd}

\* stream_symbols: the visible window and every held ticker.
StreamSymbols == Window \cup held

\* The row under the selection.
SelectedRow == rows[WindowStart + selected + 1]

IsFuzzy   == activity \in {"fuzzy", "applied"}
IsFocused == activity \in {"fuzzy", "ticker"}

\* The elements of seq in S, in their order: SelectSeq by membership, with the
\* recursion in the open.
Select(seq, S) ==
  LET kept[i \in 0..Len(seq)] ==
        IF i = 0 THEN <<>>
        ELSE IF seq[i] \in S THEN Append(kept[i - 1], seq[i]) ELSE kept[i - 1]
  IN  kept[Len(seq)]

\* The tickers the filters let through.
Admitted == {t \in Ticker : /\ IsFuzzy => t \in Matching[query]
                            /\ watchlistOnly => t \in watchlist}

\* The rows of these, in the order of the master list.
Filtered == Select(allRows, Admitted)

\* reset_selection
FirstOrNone(shown) == IF shown = <<>> THEN None ELSE 0

\* The page is kept.
ApplyFilter_KeepsPage ==
  /\ rows' = Filtered'
  /\ page' = page
  /\ selected' = FirstOrNone(rows')

(***************************************************************************)
(* The steps shared by the handlers                                        *)
(***************************************************************************)
ApplyFilter ==
  /\ rows' = Filtered'
  /\ page' = 0
  /\ selected' = FirstOrNone(rows')

\* A stream is started over when the symbols have changed: here only the
\* symbols are of interest.
Resubscribe == subscribed' = StreamSymbols'

\* spawn_reload: the sort is captured when the task is spawned.
Reload(s) ==
  /\ reading[s] < MaxReloads
  /\ Calm => AtRest
  /\ reading' = [reading EXCEPT ![s] = @ + 1]

\* A key that starts a task.
Press == keys < MaxKeys /\ keys' = keys + 1

CommandKey == ~IsFocused

Init ==
  /\ stored \in SUBSET Ticker
  /\ allRows = <<>> /\ rows = <<>>
  /\ page = 0 /\ selected = None
  /\ pageSize \in Sizes
  /\ sort \in Sorts
  /\ activity = "idle" /\ query = Empty
  /\ watchlist = {} /\ watchlistOnly = FALSE /\ listLoading = TRUE
  /\ held = {} /\ subscribed = {}
  /\ reading = [NoReload EXCEPT ![sort] = 1]
  /\ loaded = NoList /\ listed = {}
  /\ fetching = {} /\ fetched = {}
  /\ keys = 0

(***************************************************************************)
(* Reloads                                                                 *)
(***************************************************************************)
\* set_sort_mode, toggle_sort_order
ChangeSort(s) ==
  /\ CommandKey
  /\ Press
  /\ sort' = s
  /\ Reload(s)
  /\ UNCHANGED <<view, input, watch, held, subscribed, stored, loaded, listed,
                 fetches>>

\* fetch_latest_per_ticker runs in the database: the order is that of the
\* values stored by then.
ReadTable(s) ==
  /\ reading[s] > 0
  /\ reading' = [reading EXCEPT ![s] = @ - 1]
  /\ \E order \in SortedBy[s] :
       LET list == [sort |-> s, order |-> order, tickers |-> stored]
       IN  /\ loaded[list] < MaxReloads
           /\ loaded' = [loaded EXCEPT ![list] = @ + 1]
  /\ UNCHANGED <<view, sort, input, watch, held, subscribed, stored, listed,
                 fetches, keys>>

\* The query fails: a toast, and the table stays as it is.
ReloadFails(s) ==
  /\ ~Calm
  /\ reading[s] > 0
  /\ reading' = [reading EXCEPT ![s] = @ - 1]
  /\ UNCHANGED <<view, sort, input, watch, held, subscribed, stored, loaded,
                 listed, fetches, keys>>

PageLoaded(list) ==
  /\ loaded[list] > 0
  /\ loaded' = [loaded EXCEPT ![list] = @ - 1]
  /\ listed' = {[sort |-> list.sort, order |-> list.order]}
  /\ allRows' = Select(list.order, list.tickers)
  /\ UNCHANGED <<pageSize, sort, input, watch, held, stored, reading, fetches,
                 keys>>
  /\ ApplyFilter
  /\ Resubscribe

(***************************************************************************)
(* Fetched quotes and ticks                                                *)
(***************************************************************************)
\* submit_input: Enter in the ticker line fetches the symbol typed.
SubmitInput(t) ==
  /\ ~Calm
  /\ activity = "ticker"
  /\ Press
  /\ fetching' = fetching \cup {t}
  /\ UNCHANGED <<view, sort, input, watch, held, subscribed, stored, reloads,
                 fetched>>

\* fetch_quote_and_store: the quote is in the database and the event sent.
FetchStored(t) ==
  /\ t \in fetching
  /\ fetching' = fetching \ {t}
  /\ fetched' = fetched \cup {t}
  /\ stored' = stored \cup {t}
  /\ UNCHANGED <<view, sort, input, watch, held, subscribed, reloads, keys>>

\* No such quote, or fetching or storing fails: a line in the log or a toast.
FetchFails(t) ==
  /\ t \in fetching
  /\ fetching' = fetching \ {t}
  /\ UNCHANGED <<view, sort, input, watch, held, subscribed, stored, reloads,
                 fetched, keys>>

\* The row there was is left in the list.
FetchCompleted_Duplicates(t) ==
  /\ t \in fetched
  /\ fetched' = fetched \ {t}
  /\ allRows' = <<t>> \o allRows
  /\ UNCHANGED <<pageSize, sort, input, watch, held, subscribed, stored,
                 reloads, fetching, keys>>
  /\ ApplyFilter

\* The fetched row replaces the one of its ticker and comes first.
FetchCompleted(t) ==
  /\ t \in fetched
  /\ fetched' = fetched \ {t}
  /\ allRows' = <<t>> \o Select(allRows, Ticker \ {t})
  /\ UNCHANGED <<pageSize, sort, input, watch, held, subscribed, stored,
                 reloads, fetching, keys>>
  /\ ApplyFilter

\* materialize_held_ticker_row: a tick of a held ticker that has no row adds
\* one to the end of the master list only.  Other ticks change prices and leave
\* every row in its place.
Materialize(t) ==
  /\ t \in held /\ t \notin ToSet(allRows)
  /\ t \in subscribed
  /\ allRows' = Append(allRows, t)
  /\ UNCHANGED <<rows, page, pageSize, selected, sort, input, watch, held,
                 subscribed, stored, reloads, fetches, keys>>

\* record_snapshots stores a streamed row; only the first time matters here.
RecordSnapshot(t) ==
  /\ t \in ToSet(allRows) \cap subscribed
  /\ t \notin stored
  /\ stored' = stored \cup {t}
  /\ UNCHANGED <<view, sort, input, watch, held, subscribed, reloads, fetches,
                 keys>>

\* The stream keeps the symbols of the page left.
TurnTo_NoResubscribe(p) ==
  /\ p # page
  /\ page' = p
  /\ selected' = FirstOrNone(rows)
  /\ UNCHANGED <<allRows, rows, pageSize, sort, input, watch, held, subscribed,
                 stored, reloads, fetches, keys>>

(***************************************************************************)
(* Pages, selection and the size of the terminal                           *)
(***************************************************************************)
TurnTo(p) ==
  /\ p # page
  /\ page' = p
  /\ selected' = FirstOrNone(rows)
  /\ UNCHANGED <<allRows, rows, pageSize, sort, input, watch, held, stored,
                 reloads, fetches, keys>>
  /\ Resubscribe

Paginate ==
  /\ CommandKey
  /\ \/ TurnTo(Least(page + 1, TotalPages(Len(rows), pageSize) - 1))
     \/ page > 0 /\ TurnTo(page - 1)

\* The selection wraps at the ends of the page.
MoveSelection(delta) ==
  /\ CommandKey
  /\ WindowLen > 0
  /\ selected' = IF selected = None THEN 0
                 ELSE (selected + delta) % WindowLen
  /\ UNCHANGED <<allRows, rows, page, pageSize, sort, input, watch, held,
                 subscribed, stored, reloads, fetches, keys>>

\* The index on the old page is kept.
LocalOf_KeepsIndex(row, size) == selected

\* Where a resize leaves page and selection: on the row that was selected.
PageOf(row, size)  == Least(row \div size, TotalPages(Len(rows), size) - 1)
LocalOf(row, size) == row % size

SetPageSize(size) ==
  LET row == IF selected = None THEN 0 ELSE page * pageSize + selected
  IN /\ size # pageSize
     /\ pageSize' = size
     /\ page' = PageOf(row, size)
     /\ UNCHANGED <<allRows, rows, sort, input, watch, held, stored, reloads,
                    fetches, keys>>
     /\ selected' = IF WindowLen' = 0 THEN None
                    ELSE Least(LocalOf(row, size), WindowLen' - 1)
     /\ Resubscribe

(***************************************************************************)
(* The search line                                                         *)
(***************************************************************************)
\* The rest of a key that changes the filter.
Filtering == UNCHANGED <<allRows, pageSize, sort, held, stored, reloads,
                         fetches, keys>> /\ ApplyFilter

StartFuzzySearch ==
  /\ CommandKey
  /\ activity' = "fuzzy" /\ query' = Empty
  /\ UNCHANGED <<watch, subscribed>>
  /\ Filtering

\* A character typed or deleted.
TypeQuery(q) ==
  /\ activity = "fuzzy"
  /\ query' = q
  /\ UNCHANGED <<activity, watch, subscribed>>
  /\ Filtering

\* Esc, or Enter without a query.
CancelFuzzySearch(next) ==
  /\ IsFuzzy
  /\ activity' = next /\ query' = Empty
  /\ UNCHANGED watch
  /\ Filtering
  /\ Resubscribe

AcceptFuzzySearch ==
  /\ activity = "fuzzy" /\ query # Empty
  /\ activity' = "applied"
  /\ UNCHANGED <<view, sort, query, watch, held, stored, reloads, fetches,
                 keys>>
  /\ Resubscribe

\* `i` cancels an applied search and turns to the ticker line, which Esc
\* leaves.
TickerLine ==
  \/ activity = "applied" /\ CancelFuzzySearch("ticker")
  \/ /\ \/ activity = "idle" /\ activity' = "ticker"
        \/ activity = "ticker" /\ activity' = "idle"
     /\ UNCHANGED <<view, sort, query, watch, held, subscribed, stored,
                    reloads, fetches, keys>>

(***************************************************************************)
(* The watchlist and the holdings                                          *)
(***************************************************************************)
\* `W`
ToggleWatchlistOnly ==
  /\ CommandKey
  /\ Calm => ~listLoading
  /\ watchlistOnly' = ~watchlistOnly
  /\ UNCHANGED <<input, watchlist, listLoading>>
  /\ Filtering
  /\ Resubscribe

\* `w`: the ticker of the selected row joins or leaves the watchlist.
ToggleWatchlist ==
  /\ CommandKey
  /\ selected # None
  /\ Press
  /\ watchlist' = IF SelectedRow \in watchlist THEN watchlist \ {SelectedRow}
                  ELSE watchlist \cup {SelectedRow}
  /\ UNCHANGED <<allRows, pageSize, sort, input, watchlistOnly, listLoading,
                 held, stored, reloads, fetches>>
  /\ IF watchlistOnly THEN ApplyFilter /\ Resubscribe
     ELSE UNCHANGED <<rows, page, selected, subscribed>>

\* The startup load: the rows are not filtered again.
WatchlistLoaded(list) ==
  /\ listLoading
  /\ listLoading' = FALSE
  /\ watchlist' = list
  /\ UNCHANGED <<view, sort, input, watchlistOnly, held, subscribed, stored,
                 reloads, fetches, keys>>

\* The holdings held next: the ones without a priced row are fetched.
Hold(tickers) ==
  /\ Calm => tickers \subseteq ToSet(allRows)
  /\ held' = tickers
  /\ fetching' = fetching \cup (tickers \ ToSet(allRows))
  /\ UNCHANGED <<view, sort, input, watch, stored, reloads, fetched>>
  /\ Resubscribe

\* PortfolioLoaded, and a holding saved on the Manage page.
PortfolioLoaded(tickers) == tickers # held /\ Press /\ Hold(tickers)
SaveHolding(t) == Press /\ Hold(held \cup {t})

DeleteHolding(t) ==
  /\ t \in held
  /\ held' = held \ {t}
  /\ UNCHANGED <<view, sort, input, watch, subscribed, stored, reloads,
                 fetches, keys>>

Next ==
  \/ \E s \in Sorts : ChangeSort(s) \/ ReadTable(s) \/ ReloadFails(s)
  \/ \E list \in Lists : PageLoaded(list)
  \/ \E t \in Ticker : \/ SubmitInput(t) \/ FetchStored(t) \/ FetchFails(t)
                       \/ FetchCompleted(t)
                       \/ Materialize(t) \/ RecordSnapshot(t)
  \/ Paginate
  \/ \E delta \in {1, -1} : MoveSelection(delta)
  \/ \E size \in Sizes : SetPageSize(size)
  \/ StartFuzzySearch \/ AcceptFuzzySearch
  \/ \E q \in Queries \cup {Empty} : TypeQuery(q)
  \/ CancelFuzzySearch("idle")
  \/ TickerLine
  \/ ToggleWatchlistOnly \/ ToggleWatchlist
  \/ \E list \in Watchlists : WatchlistLoaded(list)
  \/ \E tickers \in SUBSET Holdable : PortfolioLoaded(tickers)
  \/ \E t \in Holdable : SaveHolding(t) \/ DeleteHolding(t)

Spec == Init /\ [][Next]_vars

(***************************************************************************)
(* What the table promises                                                 *)
(***************************************************************************)
\* A row per ticker, and every variable in its range.
TypeOK ==
  /\ stored \subseteq Ticker /\ held \subseteq Holdable
  /\ allRows \in Seq(Ticker) /\ IsInjective(allRows)
  /\ rows \in Seq(Ticker) /\ IsInjective(rows)
  /\ page \in Nat /\ pageSize \in Sizes
  /\ selected \in Nat \cup {None}
  /\ sort \in Sorts
  /\ activity \in Activities /\ query \in Queries \cup {Empty}
  /\ watchlist \subseteq Ticker
  /\ watchlistOnly \in BOOLEAN /\ listLoading \in BOOLEAN
  /\ subscribed \subseteq Ticker
  /\ reading \in [Sorts -> 0 .. MaxReloads]
  /\ loaded \in [Lists -> 0 .. MaxReloads] /\ listed \subseteq Orders
  /\ fetching \subseteq Ticker /\ fetched \subseteq Ticker
  /\ keys \in 0 .. MaxKeys

\* Whatever order lists, fetched rows, filters and resizes come in, the page is
\* one the table has, and a row of it is selected as soon as there is one: the
\* keys that open a modal act on the row the user sees.
CursorOnRow ==
  /\ page < TotalPages(Len(rows), pageSize)
  /\ IF rows = <<>> THEN selected = None ELSE selected \in 0 .. WindowLen - 1

\* A resize moves pages under the selection, never the selection to another
\* row (set_page_size).
ResizeKeepsRow ==
  [][pageSize' # pageSize /\ selected # None => SelectedRow' = SelectedRow]_vars

\* README: the stream is subscribed to the tickers on the current page; the
\* comment on stream_symbols: it must cover the visible window and every held
\* ticker.
VisibleIsLive == StreamSymbols \subseteq subscribed

\* The same, except while a query is being typed.
LiveUnlessTyping == activity # "fuzzy" => VisibleIsLive

\* The rows are those of the master list the search and the watchlist let
\* through.
ViewIsFiltered == rows = Filtered

\* Once nothing is on its way, the list handled last is one the header asked
\* for, and the master list is in the order it was read in.  Not that the values
\* shown are still in that order: ticks have changed them and sort nothing.
HeaderNamesOrder ==
  AtRest => \E o \in listed : o.sort = sort /\ allRows = Select(o.order, ToSet(allRows))
=============================================================================
