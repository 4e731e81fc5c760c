# A TLA+ model of assetui

assetui is a terminal market dashboard written in Rust: a terminal interface over
Yahoo quotes, a Postgres database and a live quote stream, and a few command-line
commands over the same database. Nearly all of its logic that is hard to get right is
concurrency of one kind: **one event loop with atomic handlers, and unordered spawned
tasks** that carry requests away from it and answers back. This directory models that
logic in TLA+, checks it with TLC and proves its safety properties with
TLAPS.

Paths below are relative to the crate (`src/` is `src/src/` in `PROJECT.json`).

## The system

The interface (`src/tui/run.rs`) runs on a single-threaded runtime. The loop takes key
presses, timer ticks and `AppEvent`s, and every handler of `App` runs to its end before
the next one starts. A handler never waits: it calls `tokio::spawn`, and the task does
the request or the query and sends its answer to the loop's one unbounded channel. Tasks
are not ordered among themselves, so answers arrive in any order, and whatever a handler
has captured when it spawned the task may be out of date when the answer comes back.

| Component | State | Operations | Interacts with |
|---|---|---|---|
| Price alerts | `App.alerts`, the `alerts` table | enter, delete, fire on a tick, mark, reload | stream (ticks), database, Manage page |
| Quotes table | `all_rows`, `rows`, page, page size, selection, sort, search line | reload, fetch, filter, page, resize, tick | database, watchlist, holdings, stream |
| Live stream | `subscribed_symbols`, `stream_handle` | resubscribe, connect, replace, stop | quotes table, holdings, loop |
| Stock modals | `stock_modal`, `overlay`, `Inflight`, `earnings_modal` | open, close, cycle expiry, answers | quotes table (selected row), client |
| Watchlist | `watchlist`, the `watchlist` table | toggle, load, save, remove | quotes table, news feed, database |
| News feed | `news_feed`, the News page's cursor | refresh, merge, enter page | watchlist, client |
| Holdings, Manage page | `holdings`, the `portfolio_holdings` table, cursor, entry line | upsert, delete, reload | stream, quotes table, optimizer |
| Portfolio history | `portfolio_modal.history`, the history table, `has_live_prices` | sample, load, final write | holdings, quotes, loop |
| Price snapshots | the `quotes` table, prices in `all_rows` | record, store, prune | quotes table, stream, database |
| Scheduled snapshot | none of its own | fetch, prune, read, record the day (`src/snapshot.rs`) | batch pipeline, both tables |
| Sectors, Optimizer | `sectors`, `optimizer`: requested, loading, result | enter, refresh, answers | client, holdings |
| Batch pipeline | semaphore, channel, counters | `fetch_and_store` (`src/run.rs`) | client, database |
| Key routing | help, portfolio modal, picker, page, overlay, input, entry line | keys, one layer at a time | all pages |
| Figures and layout | none: functions of the state | cubes, rows, charts, lists, treemap, formulas | all pages |

What is hard here, and where: a list read from the database before a write and delivered
after it (alerts, holdings, watchlist, history); an answer for something the user has
turned away from (modals, feed); two answers of one kind delivered in the opposite order
(reloads, streams, modals); an optimistic entry without an id (alerts); a count of
outstanding requests reset while they run (feed), or a flag raised again (sectors,
optimizer); failure of one write among several; quitting between a toast and its write,
or while a sample is being written; a scheduled process killed between two statements
while the interface works on the same tables; seven layers that may take a key; and, in
the batch pipeline, tasks that hold a permit while they wait for room in a channel.
`PROJECT.json` lists each of these at its line with the properties that would notice it
going wrong.

What makes each part correct:

- *alerts*: an alert fires once, is retired in the table when it has fired, is never
  retired unseen, and is not lost between entry and table;
- *pipeline*: no quote lost or counted twice, bounded outstanding work, it returns;
- *stream*: the connection held carries the symbols subscribed, no connection is leaked;
- *quotes table*: page and selection always denote a row, the rows are what the filters
  let through, in an order the database gave for the header's column, and what is visible
  is subscribed;
- *modals*: what is shown belongs to the stock and the expiry selected; a panel that says
  it is loading will be filled;
- *watchlist, feed*: memory and table agree up to outstanding writes; the feed is that of
  the current watchlist; "loading" ends;
- *holdings*: list and table settle on the same holdings, each ticker once;
- *history, snapshots*: one row per day and per ticker and time, no total with a holding
  left out, the last totals of a day stay, at most the retained number of quotes per
  ticker and the newest always among them, quitting ends;
- *pages*: a key reaches what the user sees, the status bar names the layer that takes it,
  "loading" is shown while something is under way and ends, and one can leave;
- *figures*: the panels say of their inputs what the definitions of what they show say, and
  fit the room.

## Modules

| Module | Models | Code |
|---|---|---|
| `AlertLifecycle` | abstract: an alert is armed once and fires or is removed once | the README's promise |
| `Alerts` | the list in memory, the table and the five kinds of task | `app.rs`, `app/tasks.rs`, `db/alerts.rs`, `models/alerts.rs` |
| `AlertsProofs` | theorems about `Alerts` | |
| `BatchFetch` | abstract: every ticker comes to one outcome, then the call returns | what `fetch_and_store` is called for |
| `FetchPipeline` | semaphore, bounded channel, receiver, joins | `run.rs` |
| `LiveStream` | resubscription, starting streams, the handle in hand | `app/tasks.rs`, `tui/stream.rs`, `tui/run.rs` |
| `QuotesTable` | master list, filter, pages, selection, search line, reloads, fetched rows, subscribed symbols | `app.rs`, `app/tasks.rs`, `fetch.rs` |
| `QuotesTableProofs` | theorems about `QuotesTable` | |
| `Watchlist` | set in memory, table, unordered writes, startup load | `app.rs`, `app/tasks.rs`, `db/watchlist.rs` |
| `NewsFeed` | extends `Watchlist`: refreshes, fetches, count, merge, cursor, the cube's message | `app.rs`, `news_feed.rs`, `app/tasks.rs`, `draw.rs` |
| `NewsFeedProofs` | theorems about `Watchlist` and `NewsFeed` | |
| `StockPanels` | info and chart modals, `Inflight` | `app.rs`, `tui/inflight.rs`, `app/tasks.rs` |
| `OptionsModal` | chain, expiry index, spot price | `app.rs`, `app/tasks.rs` |
| `EarningsModal` | ticker, data, flag, fetches outside `Inflight` | `tui/components/earnings.rs`, `app.rs`, `app/tasks.rs` |
| `StockModals` | composes the three over one selected stock and one overlay | `app.rs` |
| `StockModalsProofs` | theorems about the modals | |
| `Holdings` | list, table, tasks, reloads, the Manage page's cursor and entry line | `app.rs`, `app/tasks.rs`, `db/portfolio.rs` |
| `QuoteHistory` | rows by ticker and time, store and prune, snapshots of prices in memory, fetches, reloads | `db/quotes.rs`, `app.rs`, `app/tasks.rs`, `fetch.rs` |
| `PortfolioHistory` | extends `QuoteHistory`: daily totals, samples, the modal's copy, shutdown, restart | `app.rs`, `db/portfolio_history.rs`, `tui/run.rs`, `portfolio.rs` |
| `SnapshotRun` | extends `PortfolioHistory`: the scheduled process beside the interface | `snapshot.rs`, `fetch.rs` |
| `SnapshotRunProofs` | theorems about both histories, the shutdown and the run, and about `FetchPipeline`, refinement included | |
| `Navigation` | which layer takes a key, what is on top, what the status bar says | `app.rs`, `tui/components/`, `draw.rs` |
| `PageLoads` | queries of the Sectors page, fetch and computation of the Optimizer page | `app.rs`, `app/tasks.rs`, `sectors.rs` |
| `Pages` | composes the two: entering a page and `r` on it load | `app.rs` |
| `PagesProofs` | theorems about `Pages` and its parts, and about `Holdings` | |
| `PortfolioFigures` | entries, positions, summaries, totals, returns | `portfolio.rs`, `models/alerts.rs` |
| `Dashboard` | extends it: ticks on rows, rankings, cubes, sparklines, rows, search | `draw.rs`, `models/quote.rs`, `search.rs`, `app.rs` |
| `Screens` | extends `Dashboard`: modals, charts, lists, tiles | `draw.rs`, `tui/components/`, `sectors.rs`, `earnings.rs`, `fetch.rs` |
| `Treemap` | squarified treemap, a strip per step | `tui/treemap.rs` |
| `Optimizer` | aligned returns, means, covariances, inversion a column per step, portfolios | `optimizer.rs` |
| `ImpliedVolatility` | a contract's figures, the solver an iteration per step | `black_scholes.rs`, `models/options.rs` |
| `BlackScholes`, `Indicators` | price and Greeks; averages and RSI | `black_scholes.rs`, `indicators.rs` |
| `Fractions` | exact fractions, used by the figures | |
| `FiguresProofs` | theorems about the panels, the search, the treemap and the solver | |
| `MathematicsProofs` | theorems about options, indicators and portfolios, and about `LiveStream` | |
| `MC*` | instances for TLC; `FetchPipeline` needs none beyond its configuration | |

State variables name the field they stand for in a comment at their declaration. One
action is one handler or one step of a task between two awaits; a handler that
ends with a call such as `apply_filter`, `resubscribe_stream` or `spawn_reload` includes
it. Where a task waits (for the database, the network, the channel) its state is a
variable of its own: a set or a count of tasks that have not run yet, and a bag or
sequence of answers on their way. Bags stand for answers of tasks that are not ordered; a
sequence stands for the loop's channel once the order of sending is fixed. `history:`
variables record what happened for the properties and are read by no action.

Names with an underscore such as `ApplyFilter_KeepsPage` are mutants: a definition as a
plausible mistake would have written it. Every property of a passing run is violated when
one of them takes the place of the definition it mutates, so none of the properties holds
for want of anything that could break it.

### Abstractions

- **Data.** Tickers, alerts, headlines and queries are small values; a row of `QuotesTable`
  is its ticker; a panel's content is the ticker (and expiry) it was fetched for; an
  alert's price is an integer compared with a threshold; a sort column with its direction
  stands for the orders its values may put the tickers in, one of which each read of the
  table meets, and a query for the set of tickers it matches. In
  `QuoteHistory` a price is the time it was observed, which tells a stale one from a new
  one, and totals in `PortfolioHistory` are the prices they were computed from.
- **Database.** A statement is one atomic step. A write may fail before it takes effect or
  lose its reply after it (`Alerts`, the final write of `PortfolioHistory`), or fail
  (elsewhere).
- **Provider** (`yfinance_rs`). A request returns an answer or an error at any time. A
  symbol has a fixed number of expirations and a chain fetched without an expiry is that
  of the first. Whether dropping a stream's handle closes its connection is the constant
  `DropStops`: the properties that need it say so.
- **Queues.** `StockModals` gives each modal its own queue. The loop's single queue is one
  of the interleavings these allow, and the answers touch disjoint state.
- **Keys.** `Navigation` keeps what decides which layer is next. Whether a row is selected
  and whether an entry parses is left open at every key; an unassigned character stands
  for all of them. What commands do to data is in the module of the data.
- **Figures.** f64 is replaced by exact fractions. Roots, exponentials, logarithms and the
  normal distribution are left open: `BlackScholes` takes arbitrary values for them and
  states identities that hold whatever they are, `ImpliedVolatility` any prices that rise
  with the volatility, so what is found does not rest on their accuracy. Rounding to cells
  is modelled. Text is left out; a panel is the message in it or the record of its content.
- `QuotesTable` leaves out the limit of 200 rows of a reload; a row counts as priced; a
  fetch requested twice at once counts once.

## Regimes

Most of the promises in the program's documentation hold when the user lets one request
finish before the next and fail when requests overlap. Both facts matter, so the MC
modules check the two together: a variable `regime`, chosen in the initial state, is
*free*, where everything the code allows can happen, or *serial / calm / patient*, where
the component is instantiated with `Overlapping <- FALSE` (or `Calm <- TRUE`, `Patient <-
TRUE`, `Impatient <- FALSE`, as the component words it) and, where
the module says so, without failures. Type invariants and safety properties are checked
in both; a property whose comment names the calm regime in that one only.

`MCSnapshotRun` and `MCPages` also use the regime to look at one part at a time where
parts share nothing but the clock or the page: the quotes table (`prices`) and the totals
(`daily`, `calm`); the layers (`keys`), the sectors, and the optimizer (`optimizer`,
`calm`). A behaviour of `MCFigures` is about one `figure`; what it is `given` is chosen in
the initial state or grows by one element per step.

## Runs

Sizes are distinct states.

| Run | Instance | Shows |
|---|---|---|
| `alerts` (467k) | two alerts on one ticker, thresholds from either side, three prices; each fires at most twice; one list at each stage | `FiredIsRecorded`, `NoSilentTrigger`, `NothingLost` under write and query failures and restarts; a retired alert stays quiet; a toast ends in the table or in a reported failure; the serial regime implements `AlertLifecycle` |
| `pipeline` | five tasks, two permits, buffer of one | no quote lost or counted twice, back-pressure, termination, refinement of `BatchFetch` |
| `stream` (355k) | two symbols, four streams | `StreamInHand`: no connection that nobody can close, and calmly the stream held carries the subscribed symbols; `CalmCoveredInTheEnd`: it comes to do so |
| `news` (331k) | three tickers, a feed of two, a shared headline, two refreshes, two toggles per session | loading is covered by outstanding fetches and ends; `PatientPromise`: the feed is the latest refresh's, memory and table differ only in the tickers being written, and "no news" is final |
| `modals` (447k) | two stocks, three expirations and none, four keys | `FetchesAreClaimed`: no duplicate fetch, none without its claim, and what is loading waits for one; the expiry index stays in range; `ModalsFill`: panels, chain and earnings arrive; `ShownIsSelected`: no earnings of another stock, and calmly everything shown is of the stock and expiry selected and priced by it |
| `quotes` (2.4M) | three tickers, pages of 1 to 3 rows, a sort by ticker and one by price, whose order may change between reads, one query, one ticker that may be held, two keys that start tasks | the selection is always on a row of a page that exists; a resize keeps the selected row; `CalmView`: visible rows are live and filtered, and at rest in an order read for the header |
| `portfolio` (175k) | two tickers, two lots, two edits per session, two sessions | a ticker is listed once; `SerialSettles`: with one edit at a time list and table agree at rest and again and again, also after failed writes and restarts |
| `persist` (2.5M) | two tickers, both held, two rows retained, three points in time over two days, two sessions, one scheduled run | `WholeTotals`: no day is stored with a holding left out; `Retention`: at most the retained rows and those stored since the last prune, and no step loses the newest; `CalmHistory`: the last totals of a day win, and the modal shows the table; `Quits`: closing ends although the database hangs |
| `pages` (195k) | all pages, layers and keys, two sectors, up to two holdings, two runs at once | `PagesTellTheTruth`: keys reach the layer on top, which the status bar names, one modal at a time, a page that says it is loading is; `PagesEnd`: loading ends, and Esc and q lead out |
| `figures` (60k) | lists of up to 3 rows, 5 closes, 4 tiles, 4 fields, 3 days; rooms of up to 40 cells | `LayoutsFit`, `MathematicsHolds`, `FiguresAgree` |
| `alerts_refire`, `keys_hidden` | the instances of `alerts` and `pages` | counterexamples, see below |

**What the figures are compared with.** `LayoutsFit`: the treemap is a tiling in which each
tile has the area its weight is due; bars add up to their cells; lists show the selected
row and waste no room; strikes rise; no larger stock is left out of the map.
`MathematicsHolds`: the bracket of the solver never loses the volatility that prices the
contract, wherever Newton's step lands; put-call parity and the Black-Scholes equation tie
price and Greeks together; the inversion keeps `left = right * matrix` in every step, and
the portfolios made from the inverse have no better neighbour; averages and RSI meet their
definitions; the optimizer's series run over exactly the days its usable tickers share.
`FiguresAgree`: each cube says of the rows what it should (`CubesAgree`: no change left out
of the movers is greater; the breadth is left out just when no quote moved, and then movers
that are shown are flat; alerts and portfolio wait for prices just when none of theirs is
known); each position adds its own figures to the totals, and the day's change is the
difference of two values; a tick erases nothing; sparklines keep the order; the greedy
search finds a query just when it can be read in the text at all. The panels are compared
with their inputs. Where two of them compute the same figure they are compared with each
other: the arrow, colour and percentage of a row and its modal, the stored return and the
dashboard's profit, the movers and the breadth.

**Bounds.** Every bound is a constant named in its module (`MaxFires`, `MaxReloads`,
`MaxConns`, `MaxToggles`, `MaxRefreshes`, `MaxPending`, `MaxPresses`, `MaxKeys`,
`MaxEdits`, `MaxAlerts`, `MaxSessions`, `MaxClock`, `MaxFetches`, `MaxRuns`, and `MaxRows`
to `MaxDays` of `MCFigures`). Each instance holds the smallest number of actors among
which the hazard exists with one to spare: two lists or streams or answers that can
overtake each other and a third step between them; two alerts, so that a tick fires one,
the other or both; more tasks than permits and buffer together, so that tasks wait for
permits while others wait for room; three rows, so that a page can be full, partly filled
or out of range after a resize; three points in time, so that a ticker reaches its
retained rows and one more, and a day ends between a sample and the final write; two runs
of a page's load, so that an older answer can end the loading of the newer. The theorems
below do not depend on these bounds. Ticks, resizes, page turns, keys that open and close
layers, and closing a modal are unbounded: their state is finite.

**Deadlock.** Checked for `alerts`, `news` and `quotes`. Elsewhere the system may stop: the
batch has returned, the user has quit or presses no more keys, the computation is done.

**Fairness.** Only tasks and the loop are fair, never the user, the stream's ticks, a
failure or a restart. Weak fairness of a task's step: the runtime polls every ready task,
and every request ends, with an answer or with an error (the client and the pool have
timeouts). Weak fairness of handling an event: the loop drains its channel for as long as
it runs. `Terminates` additionally uses the fairness of the semaphore and the channel,
one task at a time: tokio's semaphore and mpsc channel serve waiters in order. In `persist`
nothing is assumed of the database, only that the timer of the final write fires. In
`pages`, leaving is the promise to a user who wants to leave: `Leave` is unfair, and after
it Esc and q are pressed again and again.

## Where the code and its documents differ

Runs that end in a counterexample, each against a sentence quoted in `PROJECT.json`:

- `alerts_refire`: "fire once" (`models/alerts.rs:82`). A tick that comes before the
  reload has brought the entry's id marks row 0, or a list read before the mark brings
  the entry back: the same alert pops a second toast.
- `keys_hidden`: "The Manage page is focused with no inline entry active" (`app.rs:190`).
  Open a stock modal on Market, press Tab, go to Manage: the overlay is still there and
  takes every key (`app.rs:1258`), although nothing of it is drawn on that page; the
  status bar says Manage.

Met while modelling: behaviours of the free regimes for which a restricted property above
does not hold, or that the models show without a property.

*Overlapping requests.* `StreamStarted` keeps the handle that comes last, which may be the
older one, and nothing resubscribes (`app.rs:964`). A fetched quote, starting a search and
typing it change the visible rows without resubscribing (`app.rs:885`). On the News page
before the watchlist is loaded, the feed is requested for no ticker and not again
(`app.rs:1139`); a later toggle does not refresh it either. A late answer of another stock
is stored and stays in the info and chart modals (`app.rs:923`), a late chain also gets
another stock's price (`app.rs:936`). The chart modal keeps the previous stock's candles
under the new title until new ones arrive (`app.rs:1819`). `h`/`l` while a chain is being
fetched is refused by `Inflight`, and the contracts of one expiry stay under the index of
another. A chain whose fetch fails leaves "Loading options" on screen. A refresh of the
feed resets the count of outstanding fetches, so its spinner ends early (`app.rs:1150`);
headlines of a ticker no longer watched are merged late (`app.rs:977`). A failed earnings
fetch of an earlier opening clears the flag of the next one. `W` before the watchlist is
loaded leaves an empty table, since `WatchlistLoaded` does not filter again
(`app.rs:911`). A sort key whose reload fails leaves the new header over the old order
(`tasks.rs:58`). Sorted is what the database gave: a tick changes the price, the volume and
the time of a row where it stands (`app.rs:953`), and the row made for a tick of a held
ticker is appended (`app.rs:950`), so the values on screen need not be in the order of the
header until the next reload; no document promises more. An alert deleted while its insert is on the way comes back with the
reload, and so does a holding. `r` on the Optimizer page while a run is under way: the
first result ends the loading of both (`app.rs:1003`); on the Sectors page the flag goes
down at the first answer after every sector is on the map (`app.rs:973`).

*Persistence.* `record_snapshots` files a price under the present time however old it is
(a row a reload brought from the table counts as priced), so a copied price can hide a
later observed one. Quotes fetched from the interface are stored without pruning. "The last sample
of the day wins" holds between tasks that do not overlap: two samples, or a sample and the
final write, run in any order.

*Keys and figures.* The portfolio modal is not in `status_mode`, which keeps naming the
page under it; `README.md:105` says that `?` and Enter work whether or not a modal is open:
Enter opens the chart over the other overlays of the Market page, but `?` reaches
`open_help_modal` under none of them (each branch of the `match` at `app.rs:1412` returns
first), and an overlay left open over the Manage page takes both (`app.rs:1258`); the comment at `open_help_modal` (`app.rs:1913`) speaks of closing a stock
modal and nothing does or needs to. News: the page highlights the last headline when the
cursor is beyond a shorter feed, and Enter opens none (`app.rs:1177`). `total_pnl_pct`
divides the profit of the priced positions by the cost of all. The breadth cube says "no
quotes yet" when none has moved (`draw.rs:433`), while the movers cube lists them with bars
of nothing: `BreadthAgrees` states that this is the only case in which one has something to
show and the other has not. The RSI of flat closes
is 100. Rounded to cells, tiles of the treemap may overlap by one. One usable ticker whose
dates miss the others' takes the whole optimisation away. With line wrapping the log panel
may push its newest lines out.

*Read, not modelled.* The project README says streamed ticks are not written to Postgres,
while `record_snapshots` stores them; it lists a key `d` that `sort_mode_for_key` does not
have; a held ticker off the page keeps its old price in `rows` when a tick arrives
(`app.rs:957`).

## Theorems

Proved by TLAPS for all values of the constants that satisfy the modules' assumptions:
any number of tickers, tasks, streams, sessions and requests. Every safety invariant and
action property that a run checks and expects to hold is among them. `MCSpec` theorems are about the specification TLC checks, with its regimes;
the others about the component alone.

**Assumptions.** What a constant has to satisfy is an `ASSUME` of the module that declares
it and TLC evaluates it on the instance. The proofs use: tickers, sectors and the
headlines of a ticker are finite sets (they are what a user, an index or a provider has
listed); there is room for one permit, one place in the channel, one reload of the quotes table,
one run of a page's load, one session and one point of time; rows per page are positive (`size.max(1)`), and so are the sides of a treemap that is drawn; `None` is not a value
it stands beside. `StreamInHandHolds` has a hypothesis, `DropStops`: that the library closes a
connection whose handle is dropped, which the code relies on and cannot force. TLC's instance
sets it to the same value; `CalmKeepsOneStream` does without.

**`AlertsProofs`** (any alerts, tickers, thresholds, prices, faults and bounds,
overlapping or not):

- `TypeCorrect`, from the lemma `WriteChangesOneRow` on what a database write does;
- `FiredIsRecordedHolds`, `NoSilentTriggerHolds`, `NothingLostHolds`. None of the three is
  inductive. A stale list could mark a row that does not exist yet, unless ids only ever
  name rows (`IdsNameRows`); an insert could resurrect a deleted row, unless inserts
  are fresh (`InsertsAreFresh`); and a mark could run for an alert that has not fired,
  unless marks follow fires (`MarksFollowFires`). `Accounting` is the conjunction of all
  six with the types, and the inductive invariant;
- `RetiredStaysQuietHolds`, an action property, from `Accounting` and the step lemma
  `RetiredStep`: nothing brings back an alert whose row is triggered or deleted once no
  list in flight holds it;
- `SerialListIsTableHolds`: the serial regime is a sequence of phases (`OneAtATime`): at
  rest, inserting one alert, deleting one, reading the table, list on its way, marking
  those a tick fired (one task each); in each it is known how memory differs from the table, and every step
  leads from one phase to another;
- `SerialRefinement`: with that, the serial regime implements `AlertLifecycle`. Each step
  maps to the arming, the firing or the removal of one alert, or to a stutter; a second
  toast would need a list that still holds what has fired, which no phase has.

**`FiguresProofs`** and **`MathematicsProofs`**, the figures. Options, indicators, the
optimizer and the theorem about all states are in the second, the rest in the first. Each computation has a theorem for every input of its type,
not only the ones TLC tries, and `FiguresLayoutsFit`, `FiguresAllAgree` and
`FiguresMathematicsHolds` put them together for every state of the run's specification:

- *Fractions.* A fraction in lowest terms is the only one with its value (`Is...`), so
  equations between fractions are equations between integers; from Euclid's algorithm
  (`GcdDivides`, by the least counterexample) follow the laws of an ordered field.
- *Sums and ranks.* `SumOf` folds a set in an order that is not known: it exists and any
  element may be taken off first, by induction over the subsets of a finite set. The place
  of an element in a finite set under a strict total order numbers the set without a gap;
  rankings, tiles and option tables are read off it.
- *Panels.* `AllCubesAgree`, `AllTotalsAddUp`, `AllRowsConsistent`, `AllSparksFollow`,
  `AllTicksAdd`, `AllEntriesSound`, `AllEarningsNewest`, `AllHistoryShown`,
  `AllChartsHold`, `AllBarsCompare`, `AllBarsFit`, `AllRoomIsShared`, `AllChainsSorted`,
  `AllTilesGreatest`. Each hypothesis is what the code gives the panel: a threshold is
  above zero, a close lies between low and high.
- *Search.* `AllSearchesComplete`: a way to find the query exists just when the greedy one
  does not fail, because the greedy one is at no letter later than any other way.
- *Treemap.* `TreemapTiles`, with `TreeInv`: what is left is a box inside the area whose
  area is the sum of the weights due (the strips take exactly theirs), the tiles laid lie
  apart from it and from each other, and the cells are clamped to the terminal.
- *Solver.* `SolverKeepsItsRoot`, with `SolverInv`: the guess stays in the bracket,
  and since premiums do not fall with the volatility one comparison excludes half of it.
- *Options.* `ParityOfEveryContract`, `GreeksSolveTheEquation`, for any spot, volatility and
  time that are not zero and any other terms (`Terms`). Both are equations between sums of
  products: the products are brought into one shape (`Regroup`, `Shuffles`), the rest is
  addition over one denominator (`Together`, `Balance`). The normal distribution is given
  by its values; what it is does not matter to either.
- *Indicators.* `AllAveragesMeans`: the running sum is the sum of its window (`RunningIs`).
  `AllStrengthBounded`: Wilder's average is not negative, and zero just as long as no move
  has counted (`AveragesSign`). With period 1 it forgets every move but the last, so that
  the index is 100 after a fall and a rise: the theorem and the run leave that period out
  (the program uses 14).
- *Optimizer.* `OptInv` says of every row of the matrix being eliminated that its left half
  is its right half times the covariance matrix (`Keeps`) and that the columns done are
  those of the unit matrix (`Grown`). Exchanging two rows keeps it, and so does taking a
  multiple of one from another, because `Keeps` is linear in the row (`RowCombines`). At
  the end the right half inverts the covariance matrix, which is symmetric, so it inverts
  it from the other side as well (`InverseTurns`). That no shift between two assets
  lowers the variance then follows from the variance of the shift itself not being
  negative (`Rising`): it is a sum of squares, because the matrix is one of covariances
  (`CrossIs`). `AllWeightsAddUp` and `AllSeriesAlign` hold of any holdings and any
  histories. `OptInv` asks of the returns only that there is an asset, that all have as
  many and that there is one at least, so the argument does not depend on the two and three
  assets that the run starts with.

**`MathematicsProofs`**, the live stream: `TypeCorrect`; `CalmKeepsOneStream`; `StreamInHandHolds`. A
connection is open only if it was spawned (`UsedAreSpawned`), and then it is in hand or
in the loop's queue (`NoOrphan`). Calmly only the stream spawned last can be
anywhere: starting, queued, in hand, open (`LastIs...`, together `CalmInv`).

**`QuotesTableProofs`**: `TypeCorrect`, `CursorOnRowHolds`, `ResizeKeepsRowHolds`,
`CalmViewHolds`. The types say that master list and rows have no duplicates, so the proof
rests on lemmas about selecting from, prepending to and appending to a list. That
`Select` returns the elements in their order is proved by induction on prefixes, which is
why the filter is written out as a recursive function rather than taken from a library.
The cursor lemmas are arithmetic on pages: a global index divided by the new page size is
a page that exists (`PageOf`, `LocalOf`). `CalmInv` adds what makes rows live and sorted:
whatever a reload carries is what the table holds, in an order read for the sort it was
started with, which calmly is still the header's (`Quiet`). Nothing is assumed of the
orders but that each lists every ticker once.

**`NewsFeedProofs`**: `TypeCorrect`, `PendingIsCoveredHolds`, `PatientPromiseHolds`. The
outstanding fetches are a sum over the tickers; `TotalPlus` and `TotalMinus` say what a
step at one ticker does to such a sum, from the existence of the fold (`SumExists`). Then
`pending <= Fetching + Len(queue)` is inductive: a refresh sets the count to what it
starts, an answer moves one fetch into the queue, a handled answer lowers both sides. The
patient regime makes it an equation (`Awaited`), and each ticker has at most one write
outstanding, which carries what memory says (`Written`).

**`StockModalsProofs`**: `TypeCorrect`, `FetchesAreClaimedHolds`, `ShownIsSelectedHolds`.
The claim of `Inflight` is held exactly while a request of the key runs (`OneFetchPerKey`),
and an info panel that is empty waits for a request or an answer in the queue, or has
failed (`LoadingIsPending`). The earnings modal has no
claim and needs none: it stores what comes back for its own ticker. In the calm regime
everything fetched, on its way or shown is of the selected stock and expiry (`CalmInv`).

**`SnapshotRunProofs`**: `TypeCorrect`, `WholeTotalsHolds`, `RetentionHolds`,
`CalmHistoryHolds`, for the interface and any number of scheduled runs, one after the other,
over the same tables. Retention counts the rows of a ticker against what was stored since its last prune
(`RowsInv`) and follows the newest row through both (`StoreStep`, the prune lemmas).
Whole totals need that everything on its way to the history is whole (`WholeOnTheWay`):
a sample carries the totals it was started with. Calmly at most one write is under way and
what is read is what was recorded last (`OneWrite`, `ModalIsLast`).

**`SnapshotRunProofs`**, the batch fetch (any finite set of tasks, any positive number of
permits and any positive buffer):

- `PipelineTypeCorrect`, `QuotesConservedHolds`, `ReturnsCompleteHolds` from the inductive `PipelineInv`,
  whose addition to the three is `StoresOne`: the caller has at most one quote in hand,
  and joins only with empty hands;
- `BackpressureHolds`: tasks with a permit, places in the channel and the caller's hands
  are counted, as cardinalities of sets that gain and lose one element per step;
- `PipelineRefinement`: the pipeline implements `BatchFetch`. Initial states map to initial states
  (`BatchInit`); every step resolves one task, returns, or stutters (`BatchStep`).

**`PagesProofs`**: `PagesTellTheTruthHolds` for every regime. Of the layers, `NavInv` adds
to `OneModal` that an overlay and a focused input box exclude each other; who takes the
next key, what is on top and which mode is shown then follow case by case (`TakerIs`,
`VisibleIs`, `StatusIs`, the last from what it means to be the first of a list of
conditions). Of the loads, `LoadInv` adds that until the first `r` a query is a sector's
only one (`FirstAnswers`) and that nothing is under way on a page not entered yet
(`Unvisited`); in the calm regime at most one run is, a fetch or a computation (`OneRun`).

Of the holdings, in the same module: `HoldingsTypeCorrect` and `SerialMemoryIsTable`, the
safety half of `SerialSettles`. A list that is read from the table names each ticker once
and says of each what the table says (`ListedIs`, which needs that a finite set can be
listed in ascending order, `AscendingExists`); memory keeps this through upserts and
removals; the number of tasks is bounded by counting the copies in the bag. With one edit
at a time there is at most one thing outstanding, a write, a read or a list that is still
the table (`Settling`).

**Only model-checked.** Liveness (`FireReachesTable`, `Terminates`, `LoadingEnds`,
`ModalsFill`, `CalmCoveredInTheEnd`, `SerialSettles`, `Quits`, `PagesEnd`): fairness and
ENABLED are beyond the prover. Every invariant and every action property that a run checks
and expects to hold is proved. (Where a proof above needs an induction,
over a list, a finite set or a number, it goes through a least counterexample: `NatMin`; the
library's induction theorems take an operator as a parameter.)

## Not modelled

- Argument parsing, CSV and table output, log files (`cli/`, `logging.rs`,
  `dump_table_to_csv`): input and output without state.
- Connection pool, migrations and numeric conversion (`db/connection.rs`,
  `db/numeric.rs`): the pool's timeouts are why a task may fail in every module.
- Mapping of the provider's answers into records (`fetch_analysis`,
  `fetch_key_statistics`, `fetch_option_chain_inner` and others of `fetch.rs`): field by
  field, without a decision but "missing".
- Wording, number formats, colours and the drawing calls of `draw.rs`; blinking, the
  ageing of toasts, the appearance watcher; opening a browser.
- Of the mathematics: the approximation of the error function, square roots, logarithms
  and the random cloud of the frontier, whose properties are about floating point.

## Plan

Every invariant and action property is proved; liveness stays with TLC. What could be added
is what the theorems about the figures take as given: the approximation of the normal
distribution and the rounding of floating point, which need real analysis, not this prover.
