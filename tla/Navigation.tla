----------------------------- MODULE Navigation -----------------------------
(***************************************************************************)
(* Pages, modals and the routing of keys (tui/app.rs, the components help, *)
(* portfolio, page_picker and earnings; what is drawn where is tui/draw.rs).*)
(*                                                                         *)
(* A key goes to one layer: help, the portfolio modal, the page picker, or *)
(* the page, which gives it to its entry line, its overlay or its input    *)
(* box first.  The module keeps what decides who is next; the effects of a *)
(* command on the table, the feed or the holdings are other modules'.      *)
(* Whether a table row is selected, and whether an entry parses, is left   *)
(* open: both answers are possible at every key.                           *)
(***************************************************************************)
EXTENDS Integers, Sequences

Page == {"Market", "Manage", "Sectors", "News", "Optimizer"}
Overlay == {"None", "Info", "Chart", "Options", "Earnings"}
Activity == {"Idle", "Ticker", "Fuzzy", "FuzzyApplied"}
Mode == {"Help", "Picker", "ManageInput", "Manage", "Sectors", "News",
         "Optimizer", "Options", "View", "Search", "Input", "Filter", "Normal"}

\* The keys some layer tells apart; "y" stands for every other character, a
\* blank included.
Char == {"q", "?", "p", "P", "s", "x", "e", "i", "/", "a", "j", "k", "y"}
Key == Char \cup {"Esc", "Enter", "Tab", "Backspace"}

\* The picker's order (components/page_picker.rs).
PAGE_ORDER == <<"Market", "Manage", "Sectors", "News", "Optimizer">>

VARIABLES
  page,        \* App.page
  overlay,     \* App.overlay
  help,        \* help_modal.is_open
  portfolio,   \* portfolio_modal.is_open
  picker,      \* the highlighted page of an open page_picker, or "closed"
  activity,    \* market.input_mode.activity
  typed,       \* whether market.input_mode.input holds more than blanks
  entry,       \* whether manage.input is Some
  leaving,     \* history: the user presses nothing but Esc and q any more
  should_quit

navVars == <<page, overlay, help, portfolio, picker, activity, typed, entry,
             leaving, should_quit>>

NavTypeOK ==
  /\ page \in Page /\ overlay \in Overlay
  /\ {help, portfolio, typed, entry, leaving, should_quit} \subseteq BOOLEAN
  /\ picker \in Page \cup {"closed"}
  /\ activity \in Activity

NavInit ==
  /\ page = "Market" /\ overlay = "None"
  /\ help = FALSE /\ portfolio = FALSE /\ picker = "closed"
  /\ activity = "Idle" /\ typed = FALSE /\ entry = FALSE
  /\ leaving = FALSE /\ should_quit = FALSE

is_focused == activity \in {"Ticker", "Fuzzy"}
is_fuzzy == activity \in {"Fuzzy", "FuzzyApplied"}

(***************************************************************************)
(* Who takes the next key, what is drawn on top, and what the status bar   *)
(* says (handle_key and the page handlers; draw; status_mode).             *)
(***************************************************************************)
PageTaker ==
  CASE page = "Manage" /\ entry -> "entry"
    [] page \in {"Market", "Manage"} /\ ~(page = "Manage" /\ entry)
         /\ overlay # "None" -> "overlay"
    [] page = "Market" /\ overlay = "None" /\ is_focused -> "line"
    [] OTHER -> "page"

Taker ==
  CASE help -> "help"
    [] ~help /\ portfolio -> "portfolio"
    [] ~help /\ ~portfolio /\ picker # "closed" -> "picker"
    [] OTHER -> PageTaker

OnTop ==
  CASE picker # "closed" -> "picker"
    [] picker = "closed" /\ portfolio -> "portfolio"
    [] picker = "closed" /\ ~portfolio /\ help -> "help"
    [] OTHER -> CASE page = "Manage" /\ entry -> "entry"
                  [] page = "Market" /\ overlay # "None" -> "overlay"
                  [] page = "Market" /\ overlay = "None" /\ is_focused -> "line"
                  [] OTHER -> "page"

\* App::status_mode: the first of its conditions that holds.
status_mode ==
  LET modes == <<
        <<picker # "closed", "Picker">>, <<help, "Help">>,
        <<entry, "ManageInput">>, <<page = "Manage", "Manage">>,
        <<overlay = "Options", "Options">>, <<overlay # "None", "View">>,
        <<page = "Sectors", "Sectors">>, <<page = "News", "News">>,
        <<page = "Optimizer", "Optimizer">>, <<activity = "Fuzzy", "Search">>,
        <<is_focused, "Input">>, <<is_fuzzy, "Filter">>, <<TRUE, "Normal">> >>
      first == CHOOSE i \in DOMAIN modes :
                 modes[i][1] /\ \A j \in 1..(i - 1) : ~modes[j][1]
  IN  modes[first][2]

\* The layer a mode of the status bar announces.
Announced ==
  CASE status_mode = "Picker" -> "picker"
    [] status_mode = "Help" -> "help"
    [] status_mode = "ManageInput" -> "entry"
    [] status_mode \in {"Options", "View"} -> "overlay"
    [] status_mode \in {"Search", "Input"} -> "line"
    [] OTHER -> "page"

(***************************************************************************)
(* The modal layers.                                                       *)
(***************************************************************************)
HelpKey(k) ==
  /\ Taker = "help"
  /\ help' = (k \notin {"Esc", "q", "?"})
  /\ UNCHANGED <<page, overlay, portfolio, picker, activity, typed, entry,
                 should_quit>>

PortfolioKey(k) ==
  /\ Taker = "portfolio"
  /\ portfolio' = (k \notin {"Esc", "q", "p", "P"})
  /\ UNCHANGED <<page, overlay, help, picker, activity, typed, entry,
                 should_quit>>

TogglePicker_DuringEntry ==
  /\ Taker \notin {"help", "portfolio"}
  /\ picker' = IF picker = "closed" THEN page ELSE "closed"
  /\ UNCHANGED <<page, overlay, help, portfolio, activity, typed, entry,
                 should_quit>>

\* Tab works from every page, unless a line is being entered on Manage.
TogglePicker ==
  /\ Taker \notin {"help", "portfolio"} /\ ~entry
  /\ picker' = IF picker = "closed" THEN page ELSE "closed"
  /\ UNCHANGED <<page, overlay, help, portfolio, activity, typed, entry,
                 should_quit>>

\* The neighbour of page p in PAGE_ORDER, around the ends.
Neighbour(p, delta) ==
  LET n == Len(PAGE_ORDER)
      i == CHOOSE x \in 1..n : PAGE_ORDER[x] = p
  IN  PAGE_ORDER[((i - 1 + delta + n) % n) + 1]

PickerKey(k) ==
  /\ Taker = "picker" /\ k \notin {"Tab", "Enter"}
  /\ picker' = CASE k = "Esc" -> "closed"
                 [] k = "j" -> Neighbour(picker, 1)
                 [] k = "k" -> Neighbour(picker, -1)
                 [] OTHER -> picker
  /\ should_quit' = (k = "q")
  /\ UNCHANGED <<page, overlay, help, portfolio, activity, typed, entry>>

\* Enter on the picker: goto_page, but for what entering a page starts.
GoToPage ==
  /\ Taker = "picker"
  /\ page' = picker /\ picker' = "closed"
  /\ UNCHANGED <<overlay, help, portfolio, activity, typed, entry, should_quit>>

(***************************************************************************)
(* The Manage page.                                                        *)
(***************************************************************************)
\* The entry line: Enter closes it when the entry parses.
EntryKey(k) ==
  /\ Taker = "entry" /\ k # "Tab"
  /\ \/ k \in {"Esc", "Enter"} /\ entry' = FALSE
     \/ k # "Esc" /\ UNCHANGED entry
  /\ UNCHANGED <<page, overlay, help, portfolio, picker, activity, typed,
                 should_quit>>

ManageKey(k) ==
  /\ page = "Manage" /\ Taker = "page" /\ k # "Tab"
  /\ page' = IF k = "Esc" THEN "Market" ELSE page
  /\ should_quit' = (k = "q")
  /\ help' = (k = "?")
  /\ portfolio' = (k = "P")
  /\ entry' \in CASE k = "a" -> {TRUE}
                  [] k = "e" -> BOOLEAN  \* only with a holding under the cursor
                  [] OTHER -> {FALSE}
  /\ UNCHANGED <<overlay, picker, activity, typed>>

\* An overlay left open on Market takes every key of Manage as well.
HiddenOverlayKey_IgnoresEsc(k) ==
  /\ page = "Manage" /\ Taker = "overlay" /\ k # "Tab"
  /\ UNCHANGED navVars

HiddenOverlayKey(k) ==
  /\ page = "Manage" /\ Taker = "overlay" /\ k # "Tab"
  /\ overlay' = IF k = "Esc" THEN "None" ELSE overlay
  /\ UNCHANGED <<page, help, portfolio, picker, activity, typed, entry,
                 should_quit>>

(***************************************************************************)
(* The Market page.                                                        *)
(***************************************************************************)
\* open_*_modal: nothing happens unless a row is selected.
Opens(o) == overlay' \in {overlay, o}

cancel_fuzzy_search == activity' = "Idle" /\ typed' = FALSE

\* Escape closes one thing: the overlay, the search, the focus.
MarketEsc ==
  /\ page = "Market" /\ Taker \in {"overlay", "line", "page"}
  /\ overlay' = "None"
  /\ CASE overlay # "None" -> UNCHANGED <<activity, typed>>
       [] overlay = "None" /\ is_fuzzy -> cancel_fuzzy_search
       [] OTHER -> activity' = "Idle" /\ UNCHANGED typed
  /\ UNCHANGED <<page, help, portfolio, picker, entry, should_quit>>

\* A character or a backspace in the focused input box.
MarketType(k) ==
  /\ page = "Market" /\ Taker \in {"overlay", "line"} /\ is_focused
  /\ \/ k \in Char /\ typed' \in IF k = "y" THEN {typed, TRUE} ELSE {TRUE}
     \/ k = "Backspace" /\ typed' \in {typed, FALSE}
  /\ UNCHANGED <<page, overlay, help, portfolio, picker, activity, entry,
                 should_quit>>

\* Enter applies the search or fetches the tickers; elsewhere it opens the
\* chart, over another overlay too.
MarketEnter ==
  /\ page = "Market" /\ Taker \in {"overlay", "line", "page"}
  /\ CASE activity = "Fuzzy" /\ typed ->
            activity' = "FuzzyApplied" /\ UNCHANGED <<overlay, typed>>
       [] activity = "Fuzzy" /\ ~typed ->
            cancel_fuzzy_search /\ UNCHANGED overlay
       [] activity = "Ticker" -> typed' = FALSE /\ UNCHANGED <<overlay, activity>>
       [] OTHER -> Opens("Chart") /\ UNCHANGED <<activity, typed>>
  /\ UNCHANGED <<page, help, portfolio, picker, entry, should_quit>>

\* A command key while an overlay is open.
OverlayCommand(k) ==
  /\ page = "Market" /\ Taker = "overlay" /\ ~is_focused /\ k \in Char
  /\ CASE overlay \in {"Info", "Chart"} /\ k = "s" -> Opens("Info")
       [] overlay = "Earnings" /\ k \in {"q", "e"} -> overlay' = "None"
       [] OTHER -> UNCHANGED overlay
  /\ UNCHANGED <<page, help, portfolio, picker, activity, typed, entry,
                 should_quit>>

\* A command key on the table.
TableCommand(k) ==
  /\ page = "Market" /\ Taker = "page" /\ k \in Char
  /\ CASE k = "s" -> Opens("Info")
       [] k = "x" -> Opens("Options")
       [] k = "e" -> Opens("Earnings")
       [] OTHER -> UNCHANGED overlay
  /\ help' = (k = "?")
  /\ portfolio' = (k = "P")
  /\ should_quit' = (k = "q")
  /\ CASE k = "i" -> /\ activity' = "Ticker"
                     /\ typed' = (typed /\ ~is_fuzzy)
       [] k = "/" -> activity' = "Fuzzy" /\ typed' = FALSE
       [] OTHER -> UNCHANGED <<activity, typed>>
  /\ UNCHANGED <<page, picker, entry>>

(***************************************************************************)
(* The other pages: q quits; r, j, k and Enter leave the layers alone.     *)
(***************************************************************************)
PlainPageKey(k) ==
  /\ page \in {"Sectors", "News", "Optimizer"} /\ Taker = "page" /\ k # "Tab"
  /\ should_quit' = (k = "q")
  /\ UNCHANGED <<page, overlay, help, portfolio, picker, activity, typed, entry>>

\* A key that goes to no other page.
Press(k) ==
  /\ ~should_quit
  /\ leaving => k \in {"Esc", "q"}
  /\ UNCHANGED leaving
  /\ \/ HelpKey(k) \/ PortfolioKey(k) \/ PickerKey(k)
     \/ k = "Tab" /\ TogglePicker
     \/ EntryKey(k) \/ ManageKey(k) \/ HiddenOverlayKey(k)
     \/ k = "Esc" /\ MarketEsc
     \/ k = "Enter" /\ MarketEnter
     \/ MarketType(k) \/ OverlayCommand(k) \/ TableCommand(k)
     \/ PlainPageKey(k)

\* Enter on the picker.
Visit ==
  /\ ~should_quit /\ ~leaving /\ UNCHANGED leaving
  /\ GoToPage

\* The user decides to leave.
Leave == ~should_quit /\ ~leaving /\ leaving' = TRUE /\
         UNCHANGED <<page, overlay, help, portfolio, picker, activity, typed,
                     entry, should_quit>>

\* For leaving: a user who wants to go presses Esc and q again and again.
NavFairness == WF_navVars(leaving /\ Press("Esc")) /\ WF_navVars(leaving /\ Press("q"))

(***************************************************************************)
(* Properties.                                                             *)
(***************************************************************************)
\* At most one of help, portfolio modal and picker is open, the first two
\* never over an overlay of the page they were opened from, and an entry line
\* is open on Manage only, with no picker over it (handle_key, open_help_modal).
OneModal ==
  /\ help => ~portfolio /\ picker = "closed" /\ overlay = "None"
  /\ portfolio => picker = "closed" /\ overlay = "None"
  /\ entry => page = "Manage" /\ picker = "closed" /\ ~help /\ ~portfolio
  /\ page = "Market" /\ overlay # "None" => ~is_focused

\* The layer that takes the next key is the one drawn on top, except that an
\* overlay left behind on another page takes the keys of Manage unseen.
VisibleTakesKeys ==
  Taker = OnTop \/ (page = "Manage" /\ overlay # "None" /\ ~entry)

\* The mode the status bar shows is that of the layer that takes the next key,
\* except under the portfolio modal and with an overlay left behind.
StatusIsHonest ==
  portfolio \/ (page # "Market" /\ overlay # "None") \/ Announced = Taker

\* "The Manage page is focused with no inline entry active" (StatusMode::Manage,
\* app.rs:190): in that mode, with no modal over it, the page takes the keys.
ManageIsFocused ==
  status_mode = "Manage" /\ OnTop = "page" => Taker = "page"

\* Whoever presses only Esc and q leaves the program, from whatever state the
\* layers are in.
CanLeave == leaving ~> should_quit
=============================================================================
