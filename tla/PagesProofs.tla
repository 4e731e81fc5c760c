----------------------------- MODULE PagesProofs ----------------------------
(***************************************************************************)
(* Proofs about the layers, the routing of keys and what the Sectors and   *)
(* the Optimizer page load, and about the holdings of the Manage page, for *)
(* any sectors, tickers, lots and bounds.                                  *)
(***************************************************************************)
EXTENDS MCPages, Holdings, FiniteSetTheorems, WellFoundedInduction, TLAPS

-----------------------------------------------------------------------------
(***************************************************************************)
(* The layers.                                                             *)
(***************************************************************************)
\* What OneModal says of the Market page holds of every page: an overlay and a
\* focused input box exclude each other.
NavInv == NavTypeOK /\ OneModal /\ (overlay # "None" => ~is_focused)

LEMMA NavTypes ==
  NavTypeOK => /\ page \in Page /\ overlay \in Overlay /\ activity \in Activity
               /\ picker \in Page \cup {"closed"}
               /\ help \in BOOLEAN /\ portfolio \in BOOLEAN /\ typed \in BOOLEAN
               /\ entry \in BOOLEAN /\ leaving \in BOOLEAN /\ should_quit \in BOOLEAN
BY DEF NavTypeOK

\* Who takes the next key, layer by layer.
LEMMA PageTakerIs ==
  /\ PageTaker \in {"entry", "overlay", "line", "page"}
  /\ PageTaker = "entry" <=> page = "Manage" /\ entry
  /\ PageTaker = "overlay" <=>
       page \in {"Market", "Manage"} /\ ~(page = "Manage" /\ entry) /\ overlay # "None"
  /\ PageTaker = "line" <=> page = "Market" /\ overlay = "None" /\ is_focused
BY DEF PageTaker

LEMMA TakerIs ==
  /\ Taker = "help" <=> help
  /\ Taker = "portfolio" <=> ~help /\ portfolio
  /\ Taker = "picker" <=> ~help /\ ~portfolio /\ picker # "closed"
  /\ ~help /\ ~portfolio /\ picker = "closed" => Taker = PageTaker
BY PageTakerIs DEF Taker

\* The picker moves from page to page.
LEMMA NeighbourIs ==
  ASSUME NEW p \in Page, NEW delta \in {1, -1}
  PROVE  Neighbour(p, delta) \in Page
<1> DEFINE At(x) == PAGE_ORDER[x] = p
           i == CHOOSE x \in 1..Len(PAGE_ORDER) : At(x)
<1>1. Len(PAGE_ORDER) = 5 /\ \A x \in 1..5 : PAGE_ORDER[x] \in Page
  BY DEF PAGE_ORDER, Page
<1>2. \E x \in 1..5 : At(x)
  BY DEF PAGE_ORDER, Page
<1> HIDE DEF At
<1>3. i \in 1..5 BY <1>1, <1>2
<1>4. Neighbour(p, delta) = PAGE_ORDER[((i - 1 + delta + 5) % 5) + 1]
  BY <1>1 DEF Neighbour, At
<1> HIDE DEF i
<1>5. ((i - 1 + delta + 5) % 5) + 1 \in 1..5 BY <1>3
<1>6. QED BY <1>1, <1>4, <1>5

LEMMA NavInvInit == NavInit => NavInv
BY DEF NavInit, NavInv, NavTypeOK, OneModal, Page, Overlay, Activity, is_focused

\* The modal layers.
LEMMA ModalKeys ==
  ASSUME NavInv, UNCHANGED leaving, NEW k \in Key,
         \/ HelpKey(k) \/ PortfolioKey(k) \/ PickerKey(k) \/ TogglePicker \/ GoToPage
  PROVE  NavInv'
<1> USE DEF NavInv, OneModal, is_focused
<1>t. /\ page \in Page /\ overlay \in Overlay /\ activity \in Activity
      /\ picker \in Page \cup {"closed"}
      /\ help \in BOOLEAN /\ portfolio \in BOOLEAN /\ typed \in BOOLEAN
      /\ entry \in BOOLEAN /\ leaving \in BOOLEAN /\ should_quit \in BOOLEAN
  BY NavTypes
<1>p. "closed" \notin Page BY DEF Page
<1>1. CASE HelpKey(k)
  BY <1>1, <1>t, TakerIs DEF HelpKey, NavTypeOK
<1>2. CASE PortfolioKey(k)
  BY <1>2, <1>t, TakerIs DEF PortfolioKey, NavTypeOK
<1>3. CASE PickerKey(k)
  <2>1. Taker = "picker" /\ picker \in Page BY <1>3, <1>t, TakerIs DEF PickerKey
  <2>2. picker' \in Page \cup {"closed"}
    BY <1>3, <2>1, NeighbourIs DEF PickerKey
  <2>3. should_quit' \in BOOLEAN BY <1>3 DEF PickerKey
  <2>4. QED BY <1>3, <1>t, <2>1, <2>2, <2>3, TakerIs DEF PickerKey, NavTypeOK
<1>4. CASE TogglePicker
  BY <1>4, <1>t, TakerIs DEF TogglePicker, NavTypeOK
<1>5. CASE GoToPage
  BY <1>5, <1>t, <1>p, TakerIs DEF GoToPage, NavTypeOK
<1>6. QED BY <1>1, <1>2, <1>3, <1>4, <1>5

LEMMA PageLevel ==
  Taker \in {"entry", "overlay", "line", "page"} =>
    /\ ~help /\ ~portfolio /\ picker = "closed"
    /\ Taker = "entry" <=> page = "Manage" /\ entry
    /\ Taker = "overlay" <=>
         page \in {"Market", "Manage"} /\ ~(page = "Manage" /\ entry) /\ overlay # "None"
    /\ Taker = "line" <=> page = "Market" /\ overlay = "None" /\ is_focused
BY TakerIs, PageTakerIs

\* The Manage page and the pages without layers of their own.
LEMMA ManageKeys ==
  ASSUME NavInv, UNCHANGED leaving, NEW k \in Key,
         \/ EntryKey(k) \/ ManageKey(k) \/ HiddenOverlayKey(k) \/ PlainPageKey(k)
  PROVE  NavInv'
<1> USE DEF NavInv, OneModal, is_focused
<1>t. /\ page \in Page /\ overlay \in Overlay /\ activity \in Activity
      /\ picker \in Page \cup {"closed"}
      /\ help \in BOOLEAN /\ portfolio \in BOOLEAN /\ typed \in BOOLEAN
      /\ entry \in BOOLEAN /\ leaving \in BOOLEAN /\ should_quit \in BOOLEAN
  BY NavTypes
<1>1. CASE EntryKey(k)
  BY <1>1, <1>t, PageLevel DEF EntryKey, NavTypeOK
<1>2. CASE ManageKey(k)
  <2>1. /\ page = "Manage" /\ Taker = "page" /\ ~help /\ ~portfolio
        /\ picker = "closed" /\ overlay = "None" /\ ~entry
    BY <1>2, PageLevel DEF ManageKey
  <2>2. page' \in Page /\ (page' # "Manage" => k = "Esc")
    BY <1>2, <2>1 DEF ManageKey, Page
  <2>3. /\ help' = (k = "?") /\ portfolio' = (k = "P") /\ should_quit' = (k = "q")
        /\ UNCHANGED <<overlay, picker, activity, typed>>
    BY <1>2 DEF ManageKey
  <2>4. entry' \in BOOLEAN /\ (entry' => k \in {"a", "e"})
    BY <1>2 DEF ManageKey
  <2>5. QED BY <1>t, <2>1, <2>2, <2>3, <2>4 DEF NavTypeOK
<1>3. CASE HiddenOverlayKey(k)
  BY <1>3, <1>t, PageLevel DEF HiddenOverlayKey, NavTypeOK, Overlay
<1>4. CASE PlainPageKey(k)
  BY <1>4, <1>t, PageLevel DEF PlainPageKey, NavTypeOK
<1>5. QED BY <1>1, <1>2, <1>3, <1>4

\* The Market page.
LEMMA MarketKeys ==
  ASSUME NavInv, UNCHANGED leaving, NEW k \in Key,
         MarketEsc \/ MarketEnter \/ MarketType(k) \/ OverlayCommand(k) \/ TableCommand(k)
  PROVE  NavInv'
<1> USE DEF NavInv, OneModal, is_focused
<1>t. /\ page \in Page /\ overlay \in Overlay /\ activity \in Activity
      /\ picker \in Page \cup {"closed"}
      /\ help \in BOOLEAN /\ portfolio \in BOOLEAN /\ typed \in BOOLEAN
      /\ entry \in BOOLEAN /\ leaving \in BOOLEAN /\ should_quit \in BOOLEAN
  BY NavTypes
<1>o. \A o \in {"Info", "Chart", "Options", "Earnings"} : Opens(o) => overlay' \in Overlay
  BY <1>t DEF Opens, Overlay
<1>m. ASSUME page = "Market", Taker \in {"overlay", "line", "page"},
             overlay' \in Overlay, activity' \in Activity, typed' \in BOOLEAN,
             overlay' # "None" => activity' \notin {"Ticker", "Fuzzy"},
             help' \in BOOLEAN, portfolio' \in BOOLEAN, should_quit' \in BOOLEAN,
             help' => ~portfolio' /\ overlay' = "None",
             portfolio' => overlay' = "None",
             UNCHANGED <<page, picker, entry>>
      PROVE  NavInv'
  BY <1>m, <1>t, PageLevel DEF NavTypeOK
<1>l. Taker \in {"overlay", "line", "page"} => ~help /\ ~portfolio
  BY PageLevel
<1>1. CASE MarketEsc
  <2>1. overlay' = "None" /\ activity' \in Activity /\ typed' \in BOOLEAN
    BY <1>1, <1>t DEF MarketEsc, cancel_fuzzy_search, Activity
  <2>2. QED BY <1>1, <1>m, <1>l, <1>t, <2>1 DEF MarketEsc, Overlay
<1>2. CASE MarketEnter
  <2>1. CASE activity = "Fuzzy" /\ typed
    BY <1>2, <1>m, <1>l, <1>t, <2>1 DEF MarketEnter, Activity
  <2>2. CASE activity = "Fuzzy" /\ ~typed
    BY <1>2, <1>m, <1>l, <1>t, <2>2 DEF MarketEnter, cancel_fuzzy_search, Activity
  <2>3. CASE activity = "Ticker"
    BY <1>2, <1>m, <1>l, <1>t, <2>3 DEF MarketEnter, Activity
  <2>4. CASE activity \notin {"Fuzzy", "Ticker"}
    BY <1>2, <1>m, <1>l, <1>t, <1>o, <2>4 DEF MarketEnter, Activity
  <2>5. QED BY <2>1, <2>2, <2>3, <2>4
<1>3. CASE MarketType(k)
  <2>1. typed' \in BOOLEAN BY <1>3, <1>t DEF MarketType
  <2>2. QED BY <1>3, <1>m, <1>l, <1>t, <2>1 DEF MarketType
<1>4. CASE OverlayCommand(k)
  <2>1. overlay' \in Overlay BY <1>4, <1>t, <1>o DEF OverlayCommand, Overlay
  <2>2. QED BY <1>4, <1>m, <1>l, <1>t, <2>1 DEF OverlayCommand
<1>5. CASE TableCommand(k)
  <2>1. overlay = "None" /\ ~is_focused BY <1>5, PageLevel DEF TableCommand
  <2>2. /\ overlay' \in Overlay
        /\ overlay' # "None" => k \in {"s", "x", "e"}
    BY <1>5, <1>o, <2>1 DEF TableCommand, Overlay
  <2>3. /\ activity' \in Activity /\ typed' \in BOOLEAN
        /\ k \in {"s", "x", "e"} => activity' = activity
    BY <1>5, <1>t DEF TableCommand, Activity
  <2>4. help' = (k = "?") /\ portfolio' = (k = "P") /\ should_quit' = (k = "q")
    BY <1>5 DEF TableCommand
  <2>5. QED BY <1>5, <1>m, <2>1, <2>2, <2>3, <2>4 DEF TableCommand
<1>6. QED BY <1>1, <1>2, <1>3, <1>4, <1>5

LEMMA NavStep ==
  ASSUME NavInv, \/ \E k \in Key : Press(k)
                 \/ Visit \/ Leave
                 \/ UNCHANGED navVars
  PROVE  NavInv'
<1>1. ASSUME NEW k \in Key, Press(k) PROVE NavInv'
  BY <1>1, ModalKeys, ManageKeys, MarketKeys DEF Press
<1>2. CASE Visit
  <2>1. "Enter" \in Key BY DEF Key
  <2>2. QED BY <1>2, <2>1, ModalKeys DEF Visit
<1>3. CASE Leave
  BY <1>3 DEF Leave, NavInv, NavTypeOK, OneModal, is_focused
<1>4. CASE UNCHANGED navVars
  BY <1>4 DEF navVars, NavInv, NavTypeOK, OneModal, is_focused
<1>5. QED BY <1>1, <1>2, <1>3, <1>4

\* What is drawn on top takes the keys.
LEMMA VisibleIs == NavInv => VisibleTakesKeys
<1> SUFFICES ASSUME NavInv PROVE VisibleTakesKeys
  OBVIOUS
<1> USE DEF NavInv, OneModal
<1>1. CASE help
  BY <1>1 DEF VisibleTakesKeys, Taker, OnTop
<1>2. CASE ~help /\ portfolio
  BY <1>2 DEF VisibleTakesKeys, Taker, OnTop
<1>3. CASE ~help /\ ~portfolio /\ picker # "closed"
  BY <1>3 DEF VisibleTakesKeys, Taker, OnTop
<1>4. CASE ~help /\ ~portfolio /\ picker = "closed"
  <2>1. Taker = PageTaker BY <1>4 DEF Taker
  <2>2. OnTop = CASE page = "Manage" /\ entry -> "entry"
                  [] page = "Market" /\ overlay # "None" -> "overlay"
                  [] page = "Market" /\ overlay = "None" /\ is_focused -> "line"
                  [] OTHER -> "page"
    BY <1>4 DEF OnTop
  <2>3. QED BY <2>1, <2>2 DEF VisibleTakesKeys, PageTaker
<1>5. QED BY <1>1, <1>2, <1>3, <1>4

\* The status bar shows the first of its modes that applies.
LEMMA StatusIs ==
  ASSUME NavTypeOK
  PROVE  /\ picker # "closed" => status_mode = "Picker"
         /\ picker = "closed" /\ help => status_mode = "Help"
         /\ picker = "closed" /\ ~help /\ entry => status_mode = "ManageInput"
         /\ picker = "closed" /\ ~help /\ ~entry =>
              /\ page = "Manage" => status_mode = "Manage"
              /\ page # "Manage" /\ overlay # "None" => status_mode \in {"Options", "View"}
              /\ page # "Manage" /\ overlay = "None" =>
                   /\ page \in {"Sectors", "News", "Optimizer"} => status_mode = page
                   /\ page = "Market" /\ is_focused => status_mode \in {"Search", "Input"}
                   /\ page = "Market" /\ ~is_focused => status_mode \in {"Filter", "Normal"}
<1> DEFINE modes == <<
        <<picker # "closed", "Picker">>, <<help, "Help">>,
        <<entry, "ManageInput">>, <<page = "Manage", "Manage">>,
        <<overlay = "Options", "Options">>, <<overlay # "None", "View">>,
        <<page = "Sectors", "Sectors">>, <<page = "News", "News">>,
        <<page = "Optimizer", "Optimizer">>, <<activity = "Fuzzy", "Search">>,
        <<is_focused, "Input">>, <<is_fuzzy, "Filter">>, <<TRUE, "Normal">> >>
   First(i) == modes[i][1] /\ \A j \in 1..(i - 1) : ~modes[j][1]
<1>1. DOMAIN modes = 1..13 OBVIOUS
<1>2. /\ (modes[1][1] <=> picker # "closed") /\ modes[1][2] = "Picker"
      /\ (modes[2][1] <=> help) /\ modes[2][2] = "Help"
      /\ (modes[3][1] <=> entry) /\ modes[3][2] = "ManageInput"
      /\ (modes[4][1] <=> page = "Manage") /\ modes[4][2] = "Manage"
      /\ (modes[5][1] <=> overlay = "Options") /\ modes[5][2] = "Options"
      /\ (modes[6][1] <=> overlay # "None") /\ modes[6][2] = "View"
      /\ (modes[7][1] <=> page = "Sectors") /\ modes[7][2] = "Sectors"
      /\ (modes[8][1] <=> page = "News") /\ modes[8][2] = "News"
      /\ (modes[9][1] <=> page = "Optimizer") /\ modes[9][2] = "Optimizer"
      /\ (modes[10][1] <=> activity = "Fuzzy") /\ modes[10][2] = "Search"
      /\ (modes[11][1] <=> is_focused) /\ modes[11][2] = "Input"
      /\ (modes[12][1] <=> is_fuzzy) /\ modes[12][2] = "Filter"
      /\ (modes[13][1] <=> TRUE) /\ modes[13][2] = "Normal"
  OBVIOUS
<1>3. status_mode = modes[CHOOSE i \in DOMAIN modes : First(i)][2]
  BY DEF status_mode
<1> HIDE DEF modes
<1>4. ASSUME NEW i \in 1..13, First(i) PROVE status_mode = modes[i][2]
  <2>1. \A j \in 1..13 : First(j) => j = i
    <3>1. ASSUME NEW j \in 1..13, First(j), j < i PROVE FALSE
      <4>1. j \in 1..(i - 1) BY <3>1
      <4>2. QED BY <1>4, <3>1, <4>1
    <3>2. ASSUME NEW j \in 1..13, First(j), i < j PROVE FALSE
      <4>1. i \in 1..(j - 1) BY <3>2
      <4>2. QED BY <1>4, <3>2, <4>1
    <3>3. QED BY <3>1, <3>2
  <2> HIDE DEF First
  <2>2. (CHOOSE j \in DOMAIN modes : First(j)) = i
    BY <1>1, <1>4, <2>1
  <2>3. QED BY <1>3, <2>2
<1>5. picker # "closed" => status_mode = "Picker"
  <2>1. picker # "closed" => First(1) BY <1>2
  <2>2. QED BY <1>2, <1>4, <2>1
<1>6. picker = "closed" /\ help => status_mode = "Help"
  <2>1. picker = "closed" /\ help => First(2) BY <1>2
  <2>2. QED BY <1>2, <1>4, <2>1
<1>7. picker = "closed" /\ ~help /\ entry => status_mode = "ManageInput"
  <2>1. picker = "closed" /\ ~help /\ entry => First(3) BY <1>2
  <2>2. QED BY <1>2, <1>4, <2>1
<1>8. ASSUME picker = "closed", ~help, ~entry
      PROVE  /\ page = "Manage" => status_mode = "Manage"
             /\ page # "Manage" /\ overlay # "None" => status_mode \in {"Options", "View"}
             /\ page # "Manage" /\ overlay = "None" =>
                  /\ page \in {"Sectors", "News", "Optimizer"} => status_mode = page
                  /\ page = "Market" /\ is_focused => status_mode \in {"Search", "Input"}
                  /\ page = "Market" /\ ~is_focused => status_mode \in {"Filter", "Normal"}
  <2>1. ~modes[1][1] /\ ~modes[2][1] /\ ~modes[3][1] BY <1>2, <1>8
  <2>2. CASE page = "Manage"
    <3>1. First(4) BY <1>2, <2>1, <2>2
    <3>2. QED BY <1>2, <1>4, <2>2, <3>1
  <2>3. CASE page # "Manage" /\ overlay # "None"
    <3>1. overlay = "Options" => First(5) BY <1>2, <2>1, <2>3
    <3>2. overlay # "Options" => First(6) BY <1>2, <2>1, <2>3
    <3>3. modes[5][2] = "Options" /\ modes[6][2] = "View" BY <1>2
    <3> HIDE DEF First
    <3>4. QED BY <1>4, <2>3, <3>1, <3>2, <3>3
  <2>4. CASE page # "Manage" /\ overlay = "None"
    <3>1. \A j \in 1..6 : ~modes[j][1] BY <1>2, <2>1, <2>4
    <3>2. CASE page = "Sectors"
      <4>1. First(7) BY <1>2, <3>1, <3>2
      <4>2. QED BY <1>2, <1>4, <3>2, <4>1
    <3>3. CASE page = "News"
      <4>1. First(8) BY <1>2, <3>1, <3>3
      <4>2. QED BY <1>2, <1>4, <3>3, <4>1
    <3>4. CASE page = "Optimizer"
      <4>1. First(9) BY <1>2, <3>1, <3>4
      <4>2. QED BY <1>2, <1>4, <3>4, <4>1
    <3>5. CASE page = "Market"
      <4>1. \A j \in 1..9 : ~modes[j][1] BY <1>2, <3>1, <3>5
      <4>2. activity = "Fuzzy" => First(10) BY <1>2, <4>1
      <4>3. activity # "Fuzzy" /\ is_focused => First(11) BY <1>2, <4>1
      <4>4. activity # "Fuzzy" /\ ~is_focused /\ is_fuzzy => First(12) BY <1>2, <4>1
      <4>5. activity # "Fuzzy" /\ ~is_focused /\ ~is_fuzzy => First(13) BY <1>2, <4>1
      <4>6. activity = "Fuzzy" => is_focused BY DEF is_focused
      <4>7. /\ modes[10][2] = "Search" /\ modes[11][2] = "Input"
            /\ modes[12][2] = "Filter" /\ modes[13][2] = "Normal"
        BY <1>2
      <4> HIDE DEF First
      <4>8. activity = "Fuzzy" => status_mode = "Search"
        <5>1. activity = "Fuzzy" => status_mode = modes[10][2] BY <1>4, <4>2
        <5>2. QED BY <4>7, <5>1
      <4>9. activity # "Fuzzy" /\ is_focused => status_mode = "Input"
        <5>1. activity # "Fuzzy" /\ is_focused => status_mode = modes[11][2] BY <1>4, <4>3
        <5>2. QED BY <4>7, <5>1
      <4>10. activity # "Fuzzy" /\ ~is_focused /\ is_fuzzy => status_mode = "Filter"
        <5>1. activity # "Fuzzy" /\ ~is_focused /\ is_fuzzy => status_mode = modes[12][2]
          BY <1>4, <4>4
        <5>2. QED BY <4>7, <5>1
      <4>11. activity # "Fuzzy" /\ ~is_focused /\ ~is_fuzzy => status_mode = "Normal"
        <5>1. activity # "Fuzzy" /\ ~is_focused /\ ~is_fuzzy => status_mode = modes[13][2]
          BY <1>4, <4>5
        <5>2. QED BY <4>7, <5>1
      <4>12. QED BY <2>4, <3>5, <4>6, <4>8, <4>9, <4>10, <4>11
    <3>6. page \in Page BY NavTypes
    <3>7. QED BY <3>2, <3>3, <3>4, <3>5, <3>6, <2>4 DEF Page
  <2>5. QED BY <2>2, <2>3, <2>4
<1>9. QED BY <1>5, <1>6, <1>7, <1>8

\* The mode the status bar shows is that of the layer that takes the next key.
LEMMA StatusIsHonestIs == NavInv => StatusIsHonest
<1> SUFFICES ASSUME NavInv, ~portfolio, ~(page # "Market" /\ overlay # "None")
             PROVE  Announced = Taker
  BY DEF StatusIsHonest
<1> USE DEF NavInv, OneModal
<1>t. page \in Page BY NavTypes
<1>1. CASE picker # "closed"
  BY <1>1, StatusIs, TakerIs DEF Announced
<1>2. CASE help
  BY <1>2, StatusIs, TakerIs DEF Announced
<1>3. CASE entry
  <2>1. status_mode = "ManageInput" BY <1>3, StatusIs
  <2>2. Taker = "entry" BY <1>3, TakerIs, PageTakerIs
  <2>3. QED BY <2>1, <2>2 DEF Announced
<1>4. CASE picker = "closed" /\ ~help /\ ~entry
  <2>1. Taker = PageTaker BY <1>4, TakerIs
  <2>2. CASE page = "Manage"
    <3>1. status_mode = "Manage" BY <1>4, <2>2, StatusIs
    <3>2. Taker = "page" BY <1>4, <2>1, <2>2, PageTakerIs
    <3>3. QED BY <3>1, <3>2 DEF Announced
  <2>3. CASE page # "Manage" /\ overlay # "None"
    <3>1. status_mode \in {"Options", "View"} BY <1>4, <2>3, StatusIs
    <3>2. Taker = "overlay" BY <1>4, <2>1, <2>3, PageTakerIs
    <3>3. QED BY <3>1, <3>2 DEF Announced
  <2>4. CASE page \in {"Sectors", "News", "Optimizer"} /\ overlay = "None"
    <3>1. status_mode \in {"Sectors", "News", "Optimizer"} BY <1>4, <2>4, StatusIs
    <3>2. Taker = "page" BY <1>4, <2>1, <2>4, PageTakerIs
    <3>3. QED BY <3>1, <3>2 DEF Announced
  <2>5. CASE page = "Market" /\ overlay = "None" /\ is_focused
    <3>1. status_mode \in {"Search", "Input"} BY <1>4, <2>5, StatusIs
    <3>2. Taker = "line" BY <1>4, <2>1, <2>5, PageTakerIs
    <3>3. QED BY <3>1, <3>2 DEF Announced
  <2>6. CASE page = "Market" /\ overlay = "None" /\ ~is_focused
    <3>1. status_mode \in {"Filter", "Normal"} BY <1>4, <2>6, StatusIs
    <3>2. Taker = "page" BY <1>4, <2>1, <2>6, PageTakerIs
    <3>3. QED BY <3>1, <3>2 DEF Announced
  <2>7. QED BY <1>t, <2>2, <2>3, <2>4, <2>5, <2>6 DEF Page
<1>5. QED BY <1>1, <1>2, <1>3, <1>4
-----------------------------------------------------------------------------
(***************************************************************************)
(* The loads.                                                              *)
(***************************************************************************)
\* What LoadingIsCovered rests on.  Until the first `r` a query is a sector's
\* only one and its answer the first; until a page is entered nothing of it is
\* under way.
FirstAnswers ==
  ~refreshed => /\ \A s \in Sector : queries[s] <= 1
                /\ \A s \in Sector : queries[s] > 0 => groups[s] = "absent"
Unvisited ==
  /\ ~refreshed /\ ~sectors.requested =>
       \A s \in Sector : queries[s] = 0 /\ groups[s] = "absent"
  /\ ~optimizer.requested => ~Running
LoadInv == LoadTypeOK /\ LoadingIsCovered /\ FirstAnswers /\ Unvisited

\* In the calm regime one run at most is under way, shown as loading: a fetch,
\* then the computation that follows it.
AloneIn(f, g, n) ==
  /\ f[n] = 1 /\ (\A m \in Count \ {n} : f[m] = 0)
  /\ \A m \in Count : g[m] = 0
OneRun ==
  ~Running \/ (/\ optimizer.loading
               /\ \E n \in Count : \/ AloneIn(fetches, computes, n)
                                   \/ AloneIn(computes, fetches, n))

LEMMA LoadInvInit == LoadInit => LoadInv /\ OneRun
<1> SUFFICES ASSUME LoadInit PROVE LoadInv /\ OneRun
  OBVIOUS
<1> USE DEF LoadInit
<1>1. LoadTypeOK
  <2>1. 0 \in 0..MaxRuns BY LoadsAssumption
  <2>2. queries \in [Sector -> 0..MaxRuns] BY <2>1
  <2>3. fetches \in [Count -> Nat] /\ computes \in [Count -> Nat] OBVIOUS
  <2>4. QED BY <2>2, <2>3 DEF LoadTypeOK
<1>2. ~Running /\ ~Asking BY DEF Running, Asking
<1>3. LoadingIsCovered BY <1>2 DEF LoadingIsCovered
<1>4. FirstAnswers /\ Unvisited BY <1>2 DEF FirstAnswers, Unvisited
<1>5. QED BY <1>1, <1>2, <1>3, <1>4 DEF LoadInv, OneRun

\* A refresh of the sectors asks every one of them.
LEMMA AskedTypes ==
  ASSUME LoadTypeOK, spawn_sector_map
  PROVE  /\ queries' \in [Sector -> 0..MaxRuns]
         /\ \A s \in Sector : queries'[s] = queries[s] + 1 /\ queries'[s] > 0
         /\ Asking'
<1>1. \A s \in Sector : queries[s] \in 0..MaxRuns /\ queries[s] < MaxRuns
  BY DEF LoadTypeOK, spawn_sector_map
<1>2. \A s \in Sector : queries[s] + 1 \in 0..MaxRuns /\ queries[s] + 1 > 0
  BY <1>1, LoadsAssumption
<1>3. QED BY <1>2, LoadsAssumption DEF spawn_sector_map, Asking

LEMMA SectorSteps ==
  ASSUME LoadInv, EnterSectors \/ RefreshSectors
  PROVE  LoadInv'
<1> USE DEF LoadInv
<1>o. UNCHANGED optimizerVars BY DEF EnterSectors, RefreshSectors
<1>r. Running' = Running BY <1>o DEF optimizerVars, Running, Count
<1>1. CASE EnterSectors /\ sectors.requested
  <2>1. UNCHANGED <<sectors, groups, queries, refreshed>>
    BY <1>1 DEF EnterSectors
  <2>2. QED BY <1>o, <1>r, <2>1 DEF LoadTypeOK, LoadingIsCovered, FirstAnswers,
                                     Unvisited, Asking, optimizerVars
<1>2. CASE EnterSectors /\ ~sectors.requested
  <2>1. /\ sectors' = [requested |-> TRUE, loading |-> TRUE]
        /\ spawn_sector_map /\ UNCHANGED <<groups, refreshed>>
    BY <1>2 DEF EnterSectors
  <2>2. LoadTypeOK' BY <1>o, <2>1, AskedTypes DEF LoadTypeOK, optimizerVars
  <2>3. LoadingIsCovered'
    BY <1>o, <1>r, <2>1, AskedTypes DEF LoadingIsCovered, optimizerVars
  <2>4. FirstAnswers'
    BY <1>2, <2>1, AskedTypes DEF FirstAnswers, Unvisited
  <2>5. Unvisited' BY <1>o, <1>r, <2>1 DEF Unvisited, optimizerVars
  <2>6. QED BY <2>2, <2>3, <2>4, <2>5
<1>3. CASE RefreshSectors
  <2>1. /\ sectors' = [sectors EXCEPT !.loading = TRUE] /\ refreshed'
        /\ spawn_sector_map /\ UNCHANGED groups
    BY <1>3 DEF RefreshSectors
  <2>2. LoadTypeOK'
    BY <1>3, <1>o, <2>1, AskedTypes DEF RefreshSectors, LoadTypeOK, optimizerVars
  <2>3. LoadingIsCovered'
    BY <1>o, <1>r, <2>1, AskedTypes DEF LoadingIsCovered, LoadTypeOK, optimizerVars
  <2>4. FirstAnswers' /\ Unvisited'
    BY <1>o, <1>r, <2>1 DEF FirstAnswers, Unvisited, optimizerVars
  <2>5. QED BY <2>2, <2>3, <2>4
<1>4. QED BY <1>1, <1>2, <1>3

LEMMA SectorAnswers ==
  ASSUME LoadInv, NEW s \in Sector, NEW tiles \in {"tiles", "empty"},
         SectorDataReady(s, tiles)
  PROVE  LoadInv'
<1> USE DEF LoadInv
<1>o. UNCHANGED <<refreshed, optimizer, nholdings, fetches, computes>>
  BY DEF SectorDataReady, optimizerVars
<1>r. Running' = Running BY <1>o DEF Running, Count
<1>1. /\ queries' = [queries EXCEPT ![s] = @ - 1] /\ queries[s] > 0
      /\ groups' = [groups EXCEPT ![s] = tiles]
      /\ sectors' = [sectors EXCEPT !.loading =
                       @ /\ \E x \in Sector : groups'[x] = "absent"]
  BY DEF SectorDataReady
<1>2. /\ sectors'.requested = sectors.requested
      /\ sectors'.loading <=> sectors.loading /\ \E x \in Sector : groups'[x] = "absent"
      /\ sectors' \in [requested : BOOLEAN, loading : BOOLEAN]
  BY <1>1 DEF LoadTypeOK
<1>3. /\ queries[s] - 1 \in 0..MaxRuns
      /\ queries'[s] = queries[s] - 1 /\ queries' \in [Sector -> 0..MaxRuns]
      /\ \A x \in Sector : x # s => queries'[x] = queries[x]
  <2>1. queries[s] \in 0..MaxRuns BY DEF LoadTypeOK
  <2>2. queries[s] - 1 \in 0..MaxRuns BY <1>1, <2>1, LoadsAssumption
  <2>3. QED BY <1>1, <2>2 DEF LoadTypeOK
<1>4. /\ groups'[s] = tiles /\ groups' \in [Sector -> {"absent", "tiles", "empty"}]
      /\ \A x \in Sector : x # s => groups'[x] = groups[x]
  BY <1>1 DEF LoadTypeOK
<1>5. LoadTypeOK' BY <1>o, <1>2, <1>3, <1>4 DEF LoadTypeOK
<1>6. \A x \in Sector : groups'[x] = "absent" => x # s /\ groups[x] = "absent"
  BY <1>4
<1>7. ASSUME sectors'.loading
      PROVE  (\A x \in Sector : groups'[x] = "absent" => queries'[x] > 0) /\ Asking'
  <2>1. \A x \in Sector : groups'[x] = "absent" => queries[x] > 0
    BY <1>2, <1>6, <1>7 DEF LoadingIsCovered
  <2>2. \A x \in Sector : groups'[x] = "absent" => queries'[x] > 0
    BY <1>3, <1>6, <2>1
  <2>3. QED BY <1>2, <1>7, <2>2 DEF Asking
<1>8. ASSUME ~refreshed'
      PROVE  /\ \A x \in Sector : queries'[x] <= 1
             /\ \A x \in Sector : queries'[x] > 0 => x # s /\ groups'[x] = "absent"
  <2>1. /\ \A x \in Sector : queries[x] <= 1 /\ queries[x] \in Nat
        /\ \A x \in Sector : queries[x] > 0 => groups[x] = "absent"
    BY <1>8, <1>o DEF FirstAnswers, LoadTypeOK
  <2>2. queries'[s] = 0 BY <1>1, <1>3, <2>1
  <2>3. QED BY <1>3, <1>4, <2>1, <2>2
<1>9. ~refreshed' /\ Asking' => sectors'.loading
  <2> SUFFICES ASSUME ~refreshed', Asking' PROVE sectors'.loading
    OBVIOUS
  <2>1. \E x \in Sector : groups'[x] = "absent" BY <1>8 DEF Asking
  <2>2. sectors.loading BY <1>1, <1>o DEF LoadingIsCovered, Asking
  <2>3. QED BY <1>2, <2>1, <2>2
<1>10. LoadingIsCovered' BY <1>o, <1>r, <1>7, <1>9 DEF LoadingIsCovered
<1>11. FirstAnswers' BY <1>8 DEF FirstAnswers
<1>12. Unvisited'
  <2>1. refreshed \/ sectors.requested BY <1>1 DEF Unvisited
  <2>2. QED BY <1>o, <1>r, <1>2, <2>1 DEF Unvisited
<1>13. QED BY <1>5, <1>10, <1>11, <1>12

\* The steps of the optimizer leave the sectors as they are.
LEMMA OptimizerSteps ==
  ASSUME LoadInv,
         \/ StartOptimizer
         \/ \E n \in Count, m \in Count : OptimizerDataReady(n, m)
         \/ \E m \in Count, result \in BOOLEAN : OptimizerComputed(m, result)
         \/ \E n \in Count : EditHoldings(n)
  PROVE  LoadInv'
<1> USE DEF LoadInv
<1>s. UNCHANGED <<sectors, groups, queries, refreshed>>
  BY DEF StartOptimizer, OptimizerDataReady, OptimizerComputed, EditHoldings, sectorVars
<1>t. /\ optimizer \in [requested : BOOLEAN, loading : BOOLEAN, result : BOOLEAN,
                        error : BOOLEAN]
      /\ nholdings \in Count
      /\ fetches \in [Count -> Nat] /\ computes \in [Count -> Nat]
  BY DEF LoadTypeOK
<1>c. /\ optimizer.loading => Running
      /\ ~optimizer.requested => ~Running
  BY DEF LoadingIsCovered, Unvisited
<1>f. FirstAnswers' BY <1>s DEF FirstAnswers
<1>k. ASSUME /\ optimizer' \in [requested : BOOLEAN, loading : BOOLEAN,
                                result : BOOLEAN, error : BOOLEAN]
             /\ nholdings' \in Count
             /\ fetches' \in [Count -> Nat] /\ computes' \in [Count -> Nat]
             /\ optimizer'.loading => Running'
             /\ ~optimizer'.requested => ~Running'
      PROVE  LoadInv'
  <2>1. LoadTypeOK' BY <1>k, <1>s DEF LoadTypeOK
  <2>2. LoadingIsCovered' BY <1>k, <1>s DEF LoadingIsCovered, Asking
  <2>3. Unvisited' BY <1>k, <1>s DEF Unvisited
  <2>4. QED BY <1>f, <2>1, <2>2, <2>3
<1>1. CASE StartOptimizer
  <2>1. fetches'[nholdings] > 0 /\ fetches' \in [Count -> Nat]
    <3>1. fetches[nholdings] \in Nat BY <1>t
    <3>2. fetches[nholdings] + 1 \in Nat /\ fetches[nholdings] + 1 > 0 BY <3>1
    <3>3. fetches' = [fetches EXCEPT ![nholdings] = fetches[nholdings] + 1]
      BY <1>1 DEF StartOptimizer, spawn_optimizer_data
    <3>4. QED BY <1>t, <3>2, <3>3
  <2>2. Running' BY <1>t, <2>1 DEF Running, Count
  <2>3. /\ optimizer' = [optimizer EXCEPT !.requested = TRUE, !.loading = TRUE]
        /\ UNCHANGED <<nholdings, computes>>
    BY <1>1 DEF StartOptimizer
  <2>4. /\ optimizer'.requested
        /\ optimizer' \in [requested : BOOLEAN, loading : BOOLEAN, result : BOOLEAN,
                           error : BOOLEAN]
    BY <1>t, <2>3
  <2>5. QED BY <1>k, <1>t, <2>1, <2>2, <2>3, <2>4
<1>2. ASSUME NEW n \in Count, NEW m \in Count, OptimizerDataReady(n, m)
      PROVE  LoadInv'
  <2>1. /\ fetches[n] > 0
        /\ fetches' = [fetches EXCEPT ![n] = fetches[n] - 1]
        /\ computes' = [computes EXCEPT ![m] = computes[m] + 1]
        /\ UNCHANGED <<optimizer, nholdings>>
    BY <1>2 DEF OptimizerDataReady
  <2>2. fetches[n] - 1 \in Nat /\ computes[m] + 1 \in Nat /\ computes[m] + 1 > 0
    <3>1. fetches[n] \in Nat /\ computes[m] \in Nat BY <1>t
    <3>2. QED BY <2>1, <3>1
  <2>3. fetches' \in [Count -> Nat] /\ computes' \in [Count -> Nat] /\ computes'[m] > 0
    BY <1>t, <2>1, <2>2
  <2>4. Running /\ Running' BY <2>1, <2>3 DEF Running, Count
  <2>5. QED BY <1>c, <1>k, <1>t, <2>1, <2>3, <2>4
<1>3. ASSUME NEW m \in Count, NEW result \in BOOLEAN, OptimizerComputed(m, result)
      PROVE  LoadInv'
  <2>1. /\ computes[m] > 0
        /\ computes' = [computes EXCEPT ![m] = computes[m] - 1]
        /\ optimizer' = [optimizer EXCEPT !.loading = FALSE, !.result = result,
                                          !.error = ~result /\ m < 2]
        /\ UNCHANGED <<nholdings, fetches>>
    BY <1>3 DEF OptimizerComputed
  <2>2. computes[m] - 1 \in Nat
    <3>1. computes[m] \in Nat BY <1>t
    <3>2. QED BY <2>1, <3>1
  <2>3. computes' \in [Count -> Nat] BY <1>t, <2>1, <2>2
  <2>4. optimizer.requested
    <3>1. Running BY <2>1 DEF Running
    <3>2. QED BY <1>c, <3>1
  <2>5. /\ optimizer' \in [requested : BOOLEAN, loading : BOOLEAN, result : BOOLEAN,
                           error : BOOLEAN]
        /\ ~optimizer'.loading /\ optimizer'.requested
    BY <1>t, <2>1, <2>4
  <2>6. QED BY <1>k, <1>t, <2>1, <2>3, <2>5
<1>4. ASSUME NEW n \in Count, EditHoldings(n) PROVE LoadInv'
  <2>1. nholdings' = n /\ UNCHANGED <<optimizer, fetches, computes>>
    BY <1>4 DEF EditHoldings
  <2>2. Running' = Running BY <2>1 DEF Running, Count
  <2>3. QED BY <1>c, <1>k, <1>t, <2>1, <2>2
<1>5. QED BY <1>1, <1>2, <1>3, <1>4
\* An answer leaves the keys alone; any of them keeps what the loads rest on.
LEMMA LoadStep ==
  ASSUME LoadInv,
         \/ EnterSectors \/ RefreshSectors \/ EnterOptimizer \/ RefreshOptimizer
         \/ Answer \/ (\E n \in Count : EditHoldings(n))
         \/ UNCHANGED loadVars
  PROVE  LoadInv'
<1>1. CASE EnterSectors \/ RefreshSectors
  BY <1>1, SectorSteps
<1>2. ASSUME NEW s \in Sector, NEW tiles \in {"tiles", "empty"}, SectorDataReady(s, tiles)
      PROVE  LoadInv'
  BY <1>2, SectorAnswers
<1>3. CASE \/ StartOptimizer
           \/ \E n \in Count, m \in Count : OptimizerDataReady(n, m)
           \/ \E m \in Count, result \in BOOLEAN : OptimizerComputed(m, result)
           \/ \E n \in Count : EditHoldings(n)
  BY <1>3, OptimizerSteps
<1>4. CASE UNCHANGED loadVars
  BY <1>4 DEF loadVars, LoadInv, LoadTypeOK, LoadingIsCovered, FirstAnswers, Unvisited,
              Asking, Running, Count
<1>5. QED BY <1>1, <1>2, <1>3, <1>4 DEF EnterOptimizer, RefreshOptimizer, Answer

\* Without an `r` while one is under way, no second run starts.
LEMMA OneRunStep ==
  ASSUME LoadInv, OneRun,
         \/ EnterOptimizer \/ (~Running /\ RefreshOptimizer)
         \/ (\E n \in Count, m \in Count : OptimizerDataReady(n, m))
         \/ (\E m \in Count, result \in BOOLEAN : OptimizerComputed(m, result))
         \/ UNCHANGED <<optimizer, fetches, computes>>
  PROVE  OneRun'
<1>t. /\ optimizer \in [requested : BOOLEAN, loading : BOOLEAN, result : BOOLEAN,
                        error : BOOLEAN]
      /\ nholdings \in Count
      /\ fetches \in [Count -> Nat] /\ computes \in [Count -> Nat]
  BY DEF LoadInv, LoadTypeOK
<1>1. ASSUME ~Running, StartOptimizer PROVE OneRun'
  <2>1. \A n \in Count : fetches[n] = 0 /\ computes[n] = 0
    <3>1. \A n \in Count : fetches[n] \in Nat /\ computes[n] \in Nat BY <1>t
    <3>2. QED BY <1>1, <3>1 DEF Running
  <2>2. /\ optimizer' = [optimizer EXCEPT !.requested = TRUE, !.loading = TRUE]
        /\ fetches' = [fetches EXCEPT ![nholdings] = fetches[nholdings] + 1]
        /\ UNCHANGED computes
    BY <1>1 DEF StartOptimizer, spawn_optimizer_data
  <2>3. fetches'[nholdings] = 1 BY <1>t, <2>1, <2>2
  <2>4. \A m \in Count \ {nholdings} : fetches'[m] = 0 BY <1>t, <2>1, <2>2
  <2>5. AloneIn(fetches', computes', nholdings) BY <2>1, <2>2, <2>3, <2>4 DEF AloneIn
  <2>6. optimizer'.loading BY <1>t, <2>2
  <2>7. QED BY <1>t, <2>5, <2>6 DEF OneRun, Count
<1>2. CASE EnterOptimizer
  <2>1. CASE optimizer.requested
    BY <1>2, <2>1 DEF EnterOptimizer, loadVars, OneRun, AloneIn, Running, Count
  <2>2. CASE ~optimizer.requested
    BY <1>1, <1>2, <2>2 DEF EnterOptimizer, LoadInv, Unvisited
  <2>3. QED BY <2>1, <2>2
<1>3. CASE ~Running /\ RefreshOptimizer
  BY <1>1, <1>3 DEF RefreshOptimizer
<1>4. ASSUME NEW n \in Count, NEW m \in Count, OptimizerDataReady(n, m)
      PROVE  OneRun'
  <2>1. /\ fetches[n] > 0
        /\ fetches' = [fetches EXCEPT ![n] = fetches[n] - 1]
        /\ computes' = [computes EXCEPT ![m] = computes[m] + 1]
        /\ UNCHANGED optimizer
    BY <1>4 DEF OptimizerDataReady
  <2>2. optimizer.loading /\ AloneIn(fetches, computes, n)
    <3>1. Running BY <2>1 DEF Running
    <3>2. PICK x \in Count : AloneIn(fetches, computes, x) \/ AloneIn(computes, fetches, x)
      BY <3>1 DEF OneRun
    <3>3. optimizer.loading BY <3>1 DEF OneRun
    <3>4. fetches[n] # 0 BY <2>1
    <3>5. AloneIn(fetches, computes, x) /\ x = n BY <3>2, <3>4 DEF AloneIn
    <3>6. QED BY <3>3, <3>5
  <2>3. AloneIn(computes', fetches', m)
    <3>1. computes'[m] = 1 BY <1>t, <2>1, <2>2 DEF AloneIn
    <3>2. \A x \in Count \ {m} : computes'[x] = 0 BY <1>t, <2>1, <2>2 DEF AloneIn
    <3>3. \A x \in Count : fetches'[x] = 0
      <4>1. fetches'[n] = 0 BY <1>t, <2>1, <2>2 DEF AloneIn
      <4>2. \A x \in Count \ {n} : fetches'[x] = 0 BY <1>t, <2>1, <2>2 DEF AloneIn
      <4>3. QED BY <4>1, <4>2
    <3>4. QED BY <3>1, <3>2, <3>3 DEF AloneIn
  <2>4. QED BY <2>1, <2>2, <2>3 DEF OneRun, Count
<1>5. ASSUME NEW m \in Count, NEW result \in BOOLEAN, OptimizerComputed(m, result)
      PROVE  OneRun'
  <2>1. /\ computes[m] > 0
        /\ computes' = [computes EXCEPT ![m] = computes[m] - 1]
        /\ UNCHANGED fetches
    BY <1>5 DEF OptimizerComputed
  <2>2. AloneIn(computes, fetches, m)
    <3>1. Running BY <2>1 DEF Running
    <3>2. PICK x \in Count : AloneIn(fetches, computes, x) \/ AloneIn(computes, fetches, x)
      BY <3>1 DEF OneRun
    <3>3. computes[m] # 0 BY <2>1
    <3>4. AloneIn(computes, fetches, x) /\ x = m BY <3>2, <3>3 DEF AloneIn
    <3>5. QED BY <3>4
  <2>3. \A x \in Count : computes'[x] = 0
    <3>1. computes'[m] = 0 BY <1>t, <2>1, <2>2 DEF AloneIn
    <3>2. \A x \in Count \ {m} : computes'[x] = 0 BY <1>t, <2>1, <2>2 DEF AloneIn
    <3>3. QED BY <3>1, <3>2
  <2>4. \A x \in Count : fetches'[x] = 0 BY <2>1, <2>2 DEF AloneIn
  <2>5. ~Running' BY <2>3, <2>4 DEF Running, Count
  <2>6. QED BY <2>5 DEF OneRun
<1>6. CASE UNCHANGED <<optimizer, fetches, computes>>
  BY <1>6 DEF OneRun, AloneIn, Running, Count
<1>7. QED BY <1>2, <1>3, <1>4, <1>5, <1>6

\* The query of a sector and the run of the optimizer keep the page's promise.
LEMMA OneRunShown == LoadInv /\ OneRun => OneRunIsShown
BY DEF OneRun, OneRunIsShown

-----------------------------------------------------------------------------
(***************************************************************************)
(* The pages together.                                                     *)
(***************************************************************************)
PagesInv == NavInv /\ LoadInv /\ (regime = "calm" => OneRun)

LEMMA CalmPressIs ==
  Calm!PressR => PressR /\ (page = "Optimizer" => ~Running)
<1>1. Calm!Taker = Taker
  BY DEF Calm!Taker, Taker, Calm!PageTaker, PageTaker, Calm!is_focused, is_focused
<1>2. Calm!Running <=> Running
  BY DEF Calm!Running, Running, Calm!Count, Count
<1>3. Calm!Asking <=> Asking
  BY DEF Calm!Asking, Asking
<1>4. Calm!Runs = Runs
  BY DEF Calm!Runs, Runs, Calm!Count, Count, Calm!MapThenSumSet, MapThenSumSet,
         Calm!MapThenFoldSet, MapThenFoldSet
<1>5. Calm!RefreshSectors => RefreshSectors
  BY DEF Calm!RefreshSectors, RefreshSectors, Calm!spawn_sector_map, spawn_sector_map,
         Calm!optimizerVars, optimizerVars
<1>6. Calm!RefreshOptimizer => RefreshOptimizer
  BY <1>4 DEF Calm!RefreshOptimizer, RefreshOptimizer, Calm!StartOptimizer, StartOptimizer,
         Calm!spawn_optimizer_data, spawn_optimizer_data, Calm!sectorVars, sectorVars
<1>7. UNCHANGED Calm!navVars => UNCHANGED navVars
  BY DEF Calm!navVars, navVars
<1>8. QED BY <1>1, <1>2, <1>3, <1>5, <1>6, <1>7 DEF Calm!PressR, PressR

LEMMA PagesInvInit == MCInit => PagesInv
BY NavInvInit, LoadInvInit DEF MCInit, PagesInit, PagesInv

LEMMA PagesInvStep ==
  ASSUME PagesInv, [MCNext]_<<pageVars, regime>> PROVE PagesInv'
<1> USE DEF PagesInv
<1>1. CASE UNCHANGED <<pageVars, regime>>
  <2>1. UNCHANGED navVars /\ UNCHANGED loadVars /\ UNCHANGED regime
    BY <1>1 DEF pageVars
  <2>2. UNCHANGED <<optimizer, fetches, computes>> BY <2>1 DEF loadVars
  <2>3. QED BY <2>1, <2>2, NavStep, LoadStep, OneRunStep
<1>2. CASE MCNext
  <2>1. NavInv' /\ LoadInv'
    <3>1. CASE Keys
      BY <3>1, NavStep, LoadStep DEF Keys
    <3>2. CASE Travel
      <4>1. {"Tab", "j", "q"} \subseteq Key BY DEF Key, Char
      <4>2. QED BY <3>2, <4>1, NavStep, LoadStep DEF Travel
    <3>3. CASE EnterPage
      BY <3>3, NavStep, LoadStep DEF EnterPage
    <3>4. CASE PressR
      BY <3>4, NavStep, LoadStep DEF PressR
    <3>5. CASE Answers
      BY <3>5, NavStep, LoadStep DEF Answers
    <3>6. CASE Edits
      BY <3>6, NavStep, LoadStep DEF Edits
    <3>7. QED BY <1>2, <3>1, <3>2, <3>3, <3>4, <3>5, <3>6, CalmPressIs DEF MCNext
  <2>2. ASSUME regime = "calm" PROVE OneRun'
    <3>1. /\ UNCHANGED sectorVars
          /\ Travel \/ EnterPage \/ Calm!PressR \/ Answers \/ Edits
      BY <1>2, <2>2 DEF MCNext
    <3>2. CASE Travel
      BY <2>2, <3>2, OneRunStep DEF Travel, loadVars
    <3>3. CASE EnterPage
      <4>1. EnterOptimizer \/ UNCHANGED <<optimizer, fetches, computes>>
        BY <3>3 DEF EnterPage, EnterSectors, loadVars, optimizerVars
      <4>2. QED BY <2>2, <4>1, OneRunStep
    <3>4. CASE Calm!PressR
      <4>1. (~Running /\ RefreshOptimizer) \/ UNCHANGED <<optimizer, fetches, computes>>
        BY <3>4, CalmPressIs DEF PressR, RefreshSectors, optimizerVars
      <4>2. QED BY <2>2, <4>1, OneRunStep
    <3>5. CASE Answers
      <4>1. \/ \E n \in Count, m \in Count : OptimizerDataReady(n, m)
            \/ \E m \in Count, result \in BOOLEAN : OptimizerComputed(m, result)
            \/ UNCHANGED <<optimizer, fetches, computes>>
        BY <3>5 DEF Answers, Answer, SectorDataReady, optimizerVars
      <4>2. QED BY <2>2, <4>1, OneRunStep
    <3>6. CASE Edits
      BY <2>2, <3>6, OneRunStep DEF Edits, EditHoldings
    <3>7. QED BY <3>1, <3>2, <3>3, <3>4, <3>5, <3>6
  <2>3. regime' = regime BY <1>2 DEF MCNext
  <2>4. QED BY <2>1, <2>2, <2>3
<1>3. QED BY <1>1, <1>2

\* In every regime, whatever is pressed and whatever answers: what is drawn on
\* top takes the keys, the status bar names it, and a page that says it is
\* loading has a query, a fetch or a computation under way that will end it
\* (handle_key, status_mode, on_page_entered, handle_event).
THEOREM PagesTellTheTruthHolds == MCSpec => []PagesTellTheTruth
<1>1. MCInit => PagesInv
  BY PagesInvInit
<1>2. PagesInv /\ [MCNext]_<<pageVars, regime>> => PagesInv'
  BY PagesInvStep
<1>3. PagesInv => PagesTellTheTruth
  BY VisibleIs, StatusIsHonestIs, OneRunShown
     DEF PagesInv, PagesTellTheTruth, PagesTypeOK, NavInv, LoadInv
<1>4. QED BY <1>1, <1>2, <1>3, PTL DEF MCSpec
-----------------------------------------------------------------------------
(***************************************************************************)
(* The holdings.  First: a finite set of numbers can be listed in          *)
(* ascending order, and the list names each of them.                       *)
(***************************************************************************)
\* A set of natural numbers that is not empty has a least element.
LEMMA NatMin ==
  ASSUME NEW S \in SUBSET Nat, S # {}
  PROVE  \E m \in S : \A n \in S : m <= n
<1>1. PICK m \in S : \A n \in S : ~(<<n, m>> \in OpToRel(<, Nat))
  BY NatLessThanWellFounded, WFMin, Zenon
<1>2. \A n \in S : ~(n < m)
  BY <1>1 DEF OpToRel
<1>3. QED BY <1>2

Ascends(s, T) ==
  /\ s \in [1..Cardinality(T) -> T]
  /\ \A i, j \in 1..Cardinality(T) : i < j => s[i] < s[j]

\* By induction on the size: the least element, then the rest.
LEMMA AscendingExists ==
  ASSUME NEW U \in SUBSET Nat, IsFiniteSet(U)
  PROVE  \A T \in SUBSET U : \E s : Ascends(s, T)
<1> DEFINE Bad == {n \in Nat : \E T \in SUBSET U : Cardinality(T) = n /\ ~\E s : Ascends(s, T)}
<1>1. \A T \in SUBSET U : IsFiniteSet(T) /\ Cardinality(T) \in Nat
  BY FS_Subset, FS_CardinalityType
<1>2. SUFFICES ASSUME Bad # {} PROVE FALSE
  BY <1>1
<1>3. PICK n \in Bad : \A m \in Bad : n <= m
  <2>1. Bad \in SUBSET Nat OBVIOUS
  <2> HIDE DEF Bad
  <2>2. QED BY <1>2, <2>1, NatMin
<1>4. PICK T \in SUBSET U : Cardinality(T) = n /\ ~\E s : Ascends(s, T)
  BY <1>3
<1>n. n \in Nat BY <1>3
<1>5. T # {}
  <2>1. ASSUME T = {} PROVE FALSE
    <3>1. n = 0 BY <1>4, <2>1, FS_EmptySet
    <3>2. Ascends(<<>>, T) BY <1>4, <3>1 DEF Ascends
    <3>3. QED BY <1>4, <3>2
  <2>2. QED BY <2>1
<1>6. PICK t \in T : \A u \in T : t <= u
  BY <1>5, NatMin
<1> DEFINE R == T \ {t}
<1>7. n # 0 /\ Cardinality(R) = n - 1
  BY <1>1, <1>4, <1>5, FS_EmptySet, FS_RemoveElement
<1>8. PICK r : Ascends(r, R)
  <2>1. n - 1 \in Nat /\ n - 1 < n BY <1>n, <1>7
  <2>2. n - 1 \notin Bad
    <3>1. ASSUME n - 1 \in Bad PROVE FALSE
      <4>1. n <= n - 1 BY <1>3, <3>1
      <4>2. QED BY <1>n, <4>1
    <3>2. QED BY <3>1
  <2>3. R \in SUBSET U OBVIOUS
  <2>4. QED BY <1>7, <2>1, <2>2, <2>3
<1>9. PICK s : s = [i \in 1..n |-> IF i = 1 THEN t ELSE r[i - 1]]
  OBVIOUS
<1>10. r \in [1..(n - 1) -> R] /\ \A i, j \in 1..(n - 1) : i < j => r[i] < r[j]
  BY <1>7, <1>8 DEF Ascends
<1>11. \A i \in 1..n : i # 1 => i - 1 \in 1..(n - 1) /\ s[i] = r[i - 1] /\ s[i] \in R
  BY <1>n, <1>9, <1>10
<1>12. s[1] = t BY <1>n, <1>7, <1>9
<1>13. s \in [1..n -> T] BY <1>9, <1>11, <1>12
<1>14. ASSUME NEW i \in 1..n, NEW j \in 1..n, i < j PROVE s[i] < s[j]
  <2>1. j # 1 BY <1>14, <1>n
  <2>2. CASE i = 1
    <3>1. s[j] \in Nat /\ t \in Nat /\ t <= s[j] /\ s[j] # t BY <1>6, <1>11, <2>1
    <3>2. QED BY <1>12, <2>2, <3>1
  <2>3. CASE i # 1
    <3>1. i - 1 < j - 1 BY <1>14, <1>n
    <3>2. QED BY <1>10, <1>11, <2>1, <2>3, <3>1
  <2>4. QED BY <2>2, <2>3
<1>15. Ascends(s, T) BY <1>4, <1>13, <1>14 DEF Ascends
<1>16. QED BY <1>4, <1>15

LEMMA AscendingIs ==
  ASSUME NEW T \in SUBSET Nat, IsFiniteSet(T)
  PROVE  /\ Cardinality(T) \in Nat
         /\ Ascending(T) \in [1..Cardinality(T) -> T]
         /\ \A i, j \in 1..Cardinality(T) : Ascending(T)[i] = Ascending(T)[j] => i = j
         /\ \A t \in T : \E i \in 1..Cardinality(T) : Ascending(T)[i] = t
<1> DEFINE n == Cardinality(T)
           s == Ascending(T)
<1>1. n \in Nat /\ IsFiniteSet(1..n) /\ Cardinality(1..n) = n
  <2>1. n \in Nat BY FS_CardinalityType
  <2>2. QED BY <2>1, FS_Interval
<1>2. \E q : Ascends(q, T) BY AscendingExists
<1>3. s \in [1..n -> T] /\ \A i, j \in DOMAIN s : i < j => s[i] < s[j]
  <2>1. \E q \in [1..n -> T] : \A i, j \in DOMAIN q : i < j => q[i] < q[j]
    BY <1>2 DEF Ascends
  <2>2. QED BY <2>1 DEF Ascending
<1> HIDE DEF s
<1>4. \A i, j \in 1..n : s[i] = s[j] => i = j
  <2>1. SUFFICES ASSUME NEW i \in 1..n, NEW j \in 1..n, s[i] = s[j], i # j PROVE FALSE
    OBVIOUS
  <2>2. s[i] \in Nat /\ s[j] \in Nat BY <1>3
  <2>3. i < j \/ j < i BY <1>1, <2>1
  <2>4. s[i] < s[j] \/ s[j] < s[i] BY <1>3, <2>3
  <2>5. QED BY <2>1, <2>2, <2>4
<1>5. s \in Injection(1..n, T) BY <1>3, <1>4 DEF Injection, IsInjective
<1>6. s \in Surjection(1..n, T) BY <1>1, <1>5, FS_Injection
<1>7. \A t \in T : \E i \in 1..n : s[i] = t
  BY <1>6 DEF Surjection
<1>8. QED BY <1>1, <1>3, <1>4, <1>7 DEF s

\* A list of holdings, each ticker once.
Lists == {list \in Seq(Holding) :
            \A i, j \in DOMAIN list : list[i].ticker = list[j].ticker => i = j}

\* Reading the table lists every ticker once, and says of each what it holds.
LEMMA ListedIs ==
  ASSUME NEW table \in [Ticker -> Lot \cup {None}]
  PROVE  Listed(table) \in Lists /\ Book(Listed(table)) = table
<1> DEFINE T == Held(table)
           n == Cardinality(T)
           s == Ascending(T)
           list == Listed(table)
<1>1. T \in SUBSET Ticker /\ T \in SUBSET Nat /\ IsFiniteSet(T)
  <2>1. T \in SUBSET Ticker BY DEF Held
  <2>2. QED BY <2>1, HoldingsAssumption, FS_Subset
<1>2. /\ n \in Nat /\ s \in [1..n -> T]
      /\ \A i, j \in 1..n : s[i] = s[j] => i = j
      /\ \A t \in T : \E i \in 1..n : s[i] = t
  <2> HIDE DEF T
  <2>1. QED BY <1>1, AscendingIs
<1>3. list = [i \in 1..n |-> [ticker |-> s[i], lot |-> table[s[i]]]]
  BY <1>2 DEF Listed
<1>t. \A t \in Ticker : t \in T <=> table[t] # None BY DEF Held
<1> HIDE DEF T, n, s, list
<1>4. \A i \in 1..n : s[i] \in Ticker /\ table[s[i]] \in Lot
  BY <1>1, <1>2, <1>t
<1>5. \A i \in 1..n : list[i] \in Holding /\ list[i].ticker = s[i] /\ list[i].lot = table[s[i]]
  BY <1>3, <1>4 DEF Holding
<1>6. list \in [1..n -> Holding] BY <1>3, <1>5
<1>7. list \in Seq(Holding) /\ DOMAIN list = 1..n BY <1>2, <1>6
<1>8. list \in Lists BY <1>2, <1>5, <1>7 DEF Lists
<1>9. ASSUME NEW t \in Ticker PROVE Book(list)[t] = table[t]
  <2>1. CASE table[t] # None
    <3>1. PICK i \in 1..n : s[i] = t BY <1>2, <1>t, <2>1
    <3>2. list[i] \in ToSet(list) /\ list[i].ticker = t BY <1>5, <1>7, <3>1 DEF ToSet
    <3>3. \A h \in ToSet(list) : h.ticker = t => h = list[i]
      BY <1>2, <1>5, <1>7, <3>1 DEF ToSet
    <3>4. (CHOOSE h \in ToSet(list) : h.ticker = t) = list[i] BY <3>2, <3>3
    <3>5. \E j \in DOMAIN list : list[j].ticker = t BY <1>7, <3>2
    <3>6. QED BY <1>5, <3>1, <3>4, <3>5 DEF Book
  <2>2. CASE table[t] = None
    <3>1. \A i \in 1..n : s[i] # t BY <1>2, <1>t, <2>2
    <3>2. ~\E j \in DOMAIN list : list[j].ticker = t BY <1>5, <1>7, <3>1
    <3>3. QED BY <2>2, <3>2 DEF Book
  <2>3. QED BY <2>1, <2>2
<1>10. Book(list) = table BY <1>9 DEF Book
<1>11. QED BY <1>8, <1>10 DEF list
-----------------------------------------------------------------------------
(***************************************************************************)
(* Bags of tasks and of answers.                                           *)
(***************************************************************************)
LEMMA BagAdd ==
  ASSUME NEW B, IsABag(B), NEW k
  PROVE  LET C == B (+) SetToBag({k})
         IN  /\ IsABag(C) /\ DOMAIN C = DOMAIN B \cup {k}
             /\ C[k] = (IF k \in DOMAIN B THEN B[k] ELSE 0) + 1
             /\ \A e \in DOMAIN B : e # k => C[e] = B[e]
<1>1. \A e \in DOMAIN B : B[e] \in Nat /\ B[e] > 0 BY DEF IsABag
<1>2. SetToBag({k}) = [e \in {k} |-> 1] BY DEF SetToBag
<1> DEFINE C == [e \in DOMAIN B \cup {k} |->
                   (IF e \in DOMAIN B THEN B[e] ELSE 0) + (IF e \in {k} THEN 1 ELSE 0)]
<1>3. C = B (+) SetToBag({k}) BY <1>2 DEF (+)
<1>4. \A e \in DOMAIN C : C[e] \in {n \in Nat : n > 0} BY <1>1
<1>5. IsABag(C) BY <1>4 DEF IsABag
<1>6. QED BY <1>1, <1>3, <1>5

LEMMA BagDrop ==
  ASSUME NEW B, IsABag(B), NEW k \in DOMAIN B
  PROVE  LET C == B (-) SetToBag({k})
         IN  /\ IsABag(C) /\ DOMAIN C = IF B[k] = 1 THEN DOMAIN B \ {k} ELSE DOMAIN B
             /\ B[k] # 1 => C[k] = B[k] - 1
             /\ \A e \in DOMAIN B : e # k => C[e] = B[e]
<1>1. \A e \in DOMAIN B : B[e] \in Nat /\ B[e] > 0 BY DEF IsABag
<1>2. SetToBag({k}) = [e \in {k} |-> 1] BY DEF SetToBag
<1> DEFINE D == [e \in DOMAIN B |-> IF e \in {k} THEN B[e] - 1 ELSE B[e]]
           C == [e \in {d \in DOMAIN D : D[d] > 0} |-> D[e]]
<1>3. C = B (-) SetToBag({k}) BY <1>2 DEF (-)
<1>4. DOMAIN C = IF B[k] = 1 THEN DOMAIN B \ {k} ELSE DOMAIN B BY <1>1
<1>5. \A e \in DOMAIN C : C[e] \in {n \in Nat : n > 0} BY <1>1
<1>6. IsABag(C) BY <1>5 DEF IsABag
<1>7. QED BY <1>1, <1>3, <1>4, <1>6

\* The copies in a bag, told apart by a number each, so that a bag has as many
\* elements as the set of its copies.
Copies(B) == UNION {{<<e, n>> : n \in 1..B[e]} : e \in DOMAIN B}

LEMMA CopiesAre ==
  ASSUME NEW B, NEW p
  PROVE  p \in Copies(B) <=> \E e \in DOMAIN B, n \in Nat : n \in 1..B[e] /\ p = <<e, n>>
BY DEF Copies

LEMMA CopiesAdd ==
  ASSUME NEW B, IsABag(B), IsFiniteSet(Copies(B)), NEW k
  PROVE  LET C == B (+) SetToBag({k})
         IN  IsFiniteSet(Copies(C)) /\ Cardinality(Copies(C)) = Cardinality(Copies(B)) + 1
<1> DEFINE C == B (+) SetToBag({k})
           c == IF k \in DOMAIN B THEN B[k] ELSE 0
<1>1. /\ DOMAIN C = DOMAIN B \cup {k} /\ C[k] = c + 1
      /\ \A e \in DOMAIN B : e # k => C[e] = B[e]
  BY BagAdd
<1>2. c \in Nat /\ \A e \in DOMAIN B : B[e] \in Nat BY DEF IsABag
<1>c. (k \in DOMAIN B => c = B[k]) /\ (k \notin DOMAIN B => c = 0) OBVIOUS
<1> HIDE DEF C, c
<1>3. <<k, c + 1>> \notin Copies(B)
  <2>1. SUFFICES ASSUME NEW e \in DOMAIN B, NEW n \in Nat, n \in 1..B[e], <<k, c + 1>> = <<e, n>>
                 PROVE  FALSE
    BY CopiesAre
  <2>2. e = k /\ n = c + 1 /\ c = B[k] BY <1>c, <2>1
  <2>3. QED BY <1>2, <2>1, <2>2
<1>4. Copies(C) = Copies(B) \cup {<<k, c + 1>>}
  <2>1. ASSUME NEW p \in Copies(C) PROVE p \in Copies(B) \cup {<<k, c + 1>>}
    <3>1. PICK e \in DOMAIN C, n \in Nat : n \in 1..C[e] /\ p = <<e, n>> BY CopiesAre
    <3>2. CASE e # k
      <4>1. e \in DOMAIN B /\ n \in 1..B[e] BY <3>1, <1>1, <3>2
      <4>2. QED BY <3>1, <4>1, CopiesAre
    <3>3. CASE e = k /\ n = c + 1
      BY <3>1, <3>3
    <3>4. CASE e = k /\ n # c + 1
      <4>1. n \in 1..c /\ c # 0 BY <3>1, <1>1, <1>2, <3>4
      <4>2. k \in DOMAIN B /\ n \in 1..B[k] BY <1>c, <4>1
      <4>3. QED BY <3>1, <3>4, <4>2, CopiesAre
    <3>5. QED BY <3>2, <3>3, <3>4
  <2>2. ASSUME NEW p \in Copies(B) PROVE p \in Copies(C)
    <3>1. PICK e \in DOMAIN B, n \in Nat : n \in 1..B[e] /\ p = <<e, n>> BY CopiesAre
    <3>2. e \in DOMAIN C /\ n \in 1..C[e]
      <4>1. CASE e # k BY <3>1, <1>1, <4>1
      <4>2. CASE e = k BY <3>1, <1>1, <1>2, <1>c, <4>2
      <4>3. QED BY <4>1, <4>2
    <3>3. QED BY <3>1, <3>2, CopiesAre
  <2>3. <<k, c + 1>> \in Copies(C)
    <3>1. k \in DOMAIN C /\ c + 1 \in 1..C[k] BY <1>1, <1>2
    <3>2. QED BY <3>1, CopiesAre
  <2>4. QED BY <2>1, <2>2, <2>3
<1>5. QED BY <1>3, <1>4, FS_AddElement DEF C

LEMMA CopiesDrop ==
  ASSUME NEW B, IsABag(B), IsFiniteSet(Copies(B)), NEW k \in DOMAIN B
  PROVE  LET C == B (-) SetToBag({k})
         IN  IsFiniteSet(Copies(C)) /\ Cardinality(Copies(C)) = Cardinality(Copies(B)) - 1
<1> DEFINE C == B (-) SetToBag({k})
<1>1. /\ DOMAIN C = IF B[k] = 1 THEN DOMAIN B \ {k} ELSE DOMAIN B
      /\ B[k] # 1 => C[k] = B[k] - 1
      /\ \A e \in DOMAIN B : e # k => C[e] = B[e]
  BY BagDrop
<1>2. \A e \in DOMAIN B : B[e] \in Nat /\ B[e] > 0 BY DEF IsABag
<1> HIDE DEF C
<1>3. <<k, B[k]>> \in Copies(B)
  <2>1. B[k] \in 1..B[k] BY <1>2
  <2>2. QED BY <2>1, CopiesAre
<1>4. Copies(C) = Copies(B) \ {<<k, B[k]>>}
  <2>1. ASSUME NEW p \in Copies(C) PROVE p \in Copies(B) /\ p # <<k, B[k]>>
    <3>1. PICK e \in DOMAIN C, n \in Nat : n \in 1..C[e] /\ p = <<e, n>> BY CopiesAre
    <3>2. CASE e # k
      <4>1. e \in DOMAIN B /\ n \in 1..B[e] BY <3>1, <1>1, <3>2
      <4>2. QED BY <3>1, <3>2, <4>1, CopiesAre
    <3>3. CASE e = k
      <4>1. B[k] # 1 BY <1>1, <3>3
      <4>2. n \in 1..B[k] /\ n # B[k] BY <3>1, <1>1, <1>2, <3>3, <4>1
      <4>3. QED BY <3>1, <3>3, <4>2, CopiesAre
    <3>4. QED BY <3>2, <3>3
  <2>2. ASSUME NEW p \in Copies(B), p # <<k, B[k]>> PROVE p \in Copies(C)
    <3>1. PICK e \in DOMAIN B, n \in Nat : n \in 1..B[e] /\ p = <<e, n>> BY CopiesAre
    <3>2. CASE e # k
      <4>1. e \in DOMAIN C /\ n \in 1..C[e] BY <3>1, <1>1, <3>2
      <4>2. QED BY <3>1, <4>1, CopiesAre
    <3>3. CASE e = k
      <4>1. n # B[k] BY <2>2, <3>1, <3>3
      <4>2. B[k] # 1 /\ n \in 1..(B[k] - 1) BY <3>1, <1>2, <3>3, <4>1
      <4>3. e \in DOMAIN C /\ n \in 1..C[e] BY <1>1, <3>3, <4>2
      <4>4. QED BY <3>1, <4>3, CopiesAre
    <3>4. QED BY <3>2, <3>3
  <2>3. QED BY <2>1, <2>2
<1>5. QED BY <1>3, <1>4, FS_RemoveElement DEF C

LEMMA EmptyIs ==
  /\ IsABag(EmptyBag) /\ DOMAIN EmptyBag = {}
  /\ Copies(EmptyBag) = {}
BY DEF EmptyBag, SetToBag, IsABag, Copies
-----------------------------------------------------------------------------
(***************************************************************************)
(* The holdings: types, and what every list says.                          *)
(***************************************************************************)
\* No list on its way or in memory names a ticker twice; a session has as many
\* tasks outstanding as it made edits, and the load it starts with.
BooksOK == holdings \in Lists /\ rows \in [Ticker -> Lot \cup {None}]
TasksOK ==
  /\ IsABag(writing) /\ BagToSet(writing) \subseteq Task
  /\ IsABag(answers) /\ BagToSet(answers) \subseteq Lists
  /\ listing \in Nat /\ edits \in 0..MaxEdits
  /\ IsFiniteSet(Copies(writing))
  /\ Cardinality(Copies(writing)) + listing <= edits + 1
LineOK ==
  /\ section \in {"holdings", "alerts"} /\ selected \in Nat
  /\ input \in {"none", "holding", "alert"}
  /\ nalerts \in 0..MaxAlerts /\ session \in 1..MaxSessions
HoldingsInv == BooksOK /\ TasksOK /\ LineOK

LEMMA Bounds == MaxEdits \in Nat /\ MaxAlerts \in Nat /\ MaxSessions \in Nat \ {0}
BY HoldingsAssumption

LEMMA CopiesNat == TasksOK => Cardinality(Copies(writing)) \in Nat
BY FS_CardinalityType DEF TasksOK

LEMMA HoldingsTypes == HoldingsInv => TypeOK
<1> SUFFICES ASSUME HoldingsInv PROVE TypeOK
  OBVIOUS
<1> USE DEF HoldingsInv
<1>1. listing \in 0..(MaxEdits + 1)
  BY CopiesNat, Bounds DEF TasksOK
<1>2. BagToSet(answers) \subseteq Seq(Holding) BY DEF TasksOK, Lists
<1>3. QED BY <1>1, <1>2 DEF BooksOK, TasksOK, LineOK, Lists, TypeOK

LEMMA LineIs == ASSUME NEW n \in Int PROVE Max({0, n}) \in Nat
<1>1. \E x \in {0, n} : \A y \in {0, n} : x >= y OBVIOUS
<1>2. Max({0, n}) \in {0, n} /\ Max({0, n}) >= 0 BY <1>1 DEF Max
<1>3. QED BY <1>2

LEMMA ClampedIs == ASSUME selected \in Nat, NEW n \in Int PROVE Clamped(n) \in Nat
BY LineIs DEF Clamped

LEMMA LenIs == BooksOK => Len(holdings) \in Nat
BY DEF BooksOK, Lists

\* upsert_holding_in_memory.
LEMMA UpsertedIs ==
  ASSUME NEW list \in Lists, NEW h \in Holding
  PROVE  Upserted(list, h) \in Lists
<1> USE DEF Lists
<1>h. h.ticker \in Ticker BY DEF Holding
<1>1. CASE \E i \in DOMAIN list : list[i].ticker = h.ticker
  <2> DEFINE new == [i \in DOMAIN list |-> IF list[i].ticker = h.ticker THEN h ELSE list[i]]
  <2>1. new \in Seq(Holding) /\ DOMAIN new = DOMAIN list OBVIOUS
  <2>2. \A i \in DOMAIN list : new[i].ticker = list[i].ticker OBVIOUS
  <2>3. new = Upserted(list, h) BY <1>1 DEF Upserted
  <2> HIDE DEF new
  <2>4. QED BY <2>1, <2>2, <2>3
<1>2. CASE ~\E i \in DOMAIN list : list[i].ticker = h.ticker
  <2>1. Upserted(list, h) = Append(list, h) BY <1>2 DEF Upserted
  <2>2. /\ Append(list, h) \in Seq(Holding)
        /\ DOMAIN Append(list, h) = 1..(Len(list) + 1)
        /\ Append(list, h)[Len(list) + 1] = h
        /\ \A i \in 1..Len(list) : Append(list, h)[i] = list[i]
    OBVIOUS
  <2> DEFINE new == Append(list, h)
  <2>l. Len(list) \in Nat /\ DOMAIN list = 1..Len(list) OBVIOUS
  <2> HIDE DEF new
  <2>3. ASSUME NEW i \in DOMAIN new, NEW j \in DOMAIN new, new[i].ticker = new[j].ticker
        PROVE  i = j
    <3>1. i \in 1..Len(list) \/ i = Len(list) + 1 BY <2>2, <2>l DEF new
    <3>2. j \in 1..Len(list) \/ j = Len(list) + 1 BY <2>2, <2>l DEF new
    <3>3. \A m \in 1..Len(list) : new[m] = list[m] /\ new[m].ticker # h.ticker
      BY <1>2, <2>2, <2>l DEF new
    <3>4. new[Len(list) + 1] = h BY <2>2 DEF new
    <3>5. CASE i \in 1..Len(list) /\ j \in 1..Len(list)
      BY <2>3, <2>l, <3>3, <3>5
    <3>6. QED BY <2>3, <3>1, <3>2, <3>3, <3>4, <3>5
  <2>4. new \in Lists BY <2>2, <2>3 DEF new
  <2>5. QED BY <2>1, <2>4 DEF new
<1>3. QED BY <1>1, <1>2

LEMMA RemovedIs ==
  ASSUME NEW list \in Lists, NEW n \in 1..Len(list)
  PROVE  RemoveAt(list, n) \in Lists
<1> DEFINE new == RemoveAt(list, n)
<1>1. list \in Seq(Holding) /\ Len(list) \in Nat BY DEF Lists
<1>2. /\ new \in Seq(Holding) /\ DOMAIN new = 1..(Len(list) - 1)
      /\ \A i \in 1..(Len(list) - 1) : new[i] = IF i < n THEN list[i] ELSE list[i + 1]
  <2> DEFINE before == SubSeq(list, 1, n - 1)
             after == SubSeq(list, n + 1, Len(list))
  <2>n. n \in Nat /\ 1 <= n /\ n <= Len(list) BY <1>1
  <2>1. /\ before \in Seq(Holding) /\ Len(before) = n - 1
        /\ \A i \in 1..(n - 1) : before[i] = list[i]
    BY <1>1, <2>n
  <2>2. /\ after \in Seq(Holding) /\ Len(after) = Len(list) - n
        /\ \A i \in 1..(Len(list) - n) : after[i] = list[n + i]
    BY <1>1, <2>n
  <2> HIDE DEF before, after
  <2>3. /\ before \o after \in Seq(Holding)
        /\ Len(before \o after) = Len(list) - 1
        /\ \A i \in 1..(Len(list) - 1) :
             (before \o after)[i] = IF i < n THEN before[i] ELSE after[i - (n - 1)]
    BY <1>1, <2>n, <2>1, <2>2
  <2>4. \A i \in 1..(Len(list) - 1) :
          (before \o after)[i] = IF i < n THEN list[i] ELSE list[i + 1]
    BY <1>1, <2>n, <2>1, <2>2, <2>3
  <2>5. new = before \o after BY DEF RemoveAt, before, after
  <2>6. QED BY <2>3, <2>4, <2>5
<1> HIDE DEF new
<1>3. ASSUME NEW i \in DOMAIN new, NEW j \in DOMAIN new, new[i].ticker = new[j].ticker
      PROVE  i = j
  <2> DEFINE a == IF i < n THEN i ELSE i + 1
             b == IF j < n THEN j ELSE j + 1
  <2>1. a \in DOMAIN list /\ b \in DOMAIN list /\ new[i] = list[a] /\ new[j] = list[b]
    BY <1>1, <1>2
  <2>2. list[a].ticker = list[b].ticker BY <1>3, <2>1
  <2>3. a = b BY <2>1, <2>2 DEF Lists
  <2>4. i \in Nat /\ j \in Nat /\ n \in Nat BY <1>2
  <2>5. QED BY <2>3, <2>4
<1>4. QED BY <1>2, <1>3 DEF Lists, new

\* A task more, for an edit; the task writes or fails, and lists.
LEMMA TaskAdded ==
  ASSUME TasksOK, NEW k \in Task, edits < MaxEdits,
         writing' = writing (+) SetToBag({k}), edits' = edits + 1,
         UNCHANGED <<listing, answers>>
  PROVE  TasksOK'
<1>1. /\ IsABag(writing') /\ DOMAIN writing' = DOMAIN writing \cup {k}
      /\ IsFiniteSet(Copies(writing'))
      /\ Cardinality(Copies(writing')) = Cardinality(Copies(writing)) + 1
  BY BagAdd, CopiesAdd DEF TasksOK
<1>2. edits' \in 0..MaxEdits BY Bounds DEF TasksOK
<1>3. Cardinality(Copies(writing')) + listing' <= edits' + 1
  BY <1>1, CopiesNat DEF TasksOK
<1>4. QED BY <1>1, <1>2, <1>3 DEF TasksOK, BagToSet

LEMMA TaskWritten ==
  ASSUME TasksOK, NEW k, BagIn(k, writing),
         writing' = writing (-) SetToBag({k}), listing' = listing + 1,
         UNCHANGED <<edits, answers>>
  PROVE  TasksOK'
<1>0. k \in DOMAIN writing BY DEF BagIn, BagToSet
<1>1. /\ IsABag(writing') /\ DOMAIN writing' \subseteq DOMAIN writing
      /\ IsFiniteSet(Copies(writing'))
      /\ Cardinality(Copies(writing')) = Cardinality(Copies(writing)) - 1
  BY <1>0, BagDrop, CopiesDrop DEF TasksOK
<1>3. listing' \in Nat /\ Cardinality(Copies(writing')) + listing' <= edits' + 1
  BY <1>1, CopiesNat DEF TasksOK
<1>4. QED BY <1>1, <1>3 DEF TasksOK, BagToSet

LEMMA TaskListed ==
  ASSUME TasksOK, rows \in [Ticker -> Lot \cup {None}],
         listing > 0, listing' = listing - 1, UNCHANGED <<edits, writing>>,
         answers' = answers (+) SetToBag({Listed(rows)}) \/ UNCHANGED answers
  PROVE  TasksOK'
<1>1. IsABag(answers') /\ DOMAIN answers' \subseteq Lists
  <2>1. CASE UNCHANGED answers BY <2>1 DEF TasksOK, BagToSet
  <2>2. CASE answers' = answers (+) SetToBag({Listed(rows)})
    <3>1. Listed(rows) \in Lists BY ListedIs
    <3>2. /\ IsABag(answers (+) SetToBag({Listed(rows)}))
          /\ DOMAIN (answers (+) SetToBag({Listed(rows)})) = DOMAIN answers \cup {Listed(rows)}
      BY BagAdd DEF TasksOK
    <3>3. QED BY <2>2, <3>1, <3>2 DEF TasksOK, BagToSet
  <2>3. QED BY <2>1, <2>2
<1>2. listing' \in Nat /\ Cardinality(Copies(writing)) + listing' <= edits + 1
  BY CopiesNat DEF TasksOK
<1>3. QED BY <1>1, <1>2 DEF TasksOK, BagToSet

LEMMA AnswerTaken ==
  ASSUME TasksOK, NEW list, BagIn(list, answers),
         answers' = answers (-) SetToBag({list}), UNCHANGED <<edits, writing, listing>>
  PROVE  TasksOK'
<1>0. list \in DOMAIN answers BY DEF BagIn, BagToSet
<1>1. IsABag(answers') /\ DOMAIN answers' \subseteq DOMAIN answers
  BY <1>0, BagDrop DEF TasksOK
<1>2. QED BY <1>1 DEF TasksOK, BagToSet

LEMMA SessionStarted ==
  ASSUME StartSession, rows \in [Ticker -> Lot \cup {None}], UNCHANGED rows,
         session' \in 1..MaxSessions
  PROVE  HoldingsInv'
<1> USE DEF StartSession
<1>1. <<>> \in Lists BY DEF Lists
<1>2. BooksOK' BY <1>1 DEF BooksOK
<1>3. Cardinality({}) = 0 /\ IsFiniteSet({}) BY FS_EmptySet
<1>4. TasksOK'
  <2>1. IsFiniteSet(Copies(writing')) /\ Cardinality(Copies(writing')) + listing' <= edits' + 1
    BY <1>3, EmptyIs
  <2>2. edits' \in 0..MaxEdits BY Bounds
  <2>3. QED BY <2>1, <2>2, EmptyIs DEF TasksOK, BagToSet
<1>5. LineOK' BY Bounds DEF LineOK
<1>6. QED BY <1>2, <1>4, <1>5 DEF HoldingsInv
LEMMA HoldingsInvInit == Init => HoldingsInv
<1> SUFFICES ASSUME Init PROVE HoldingsInv
  OBVIOUS
<1> USE DEF Init
<1>1. <<>> \in Lists BY DEF Lists
<1>2. BooksOK BY <1>1 DEF BooksOK
<1>3. Cardinality({}) = 0 /\ IsFiniteSet({}) BY FS_EmptySet
<1>4. TasksOK
  <2>1. IsFiniteSet(Copies(writing)) /\ Cardinality(Copies(writing)) + listing <= edits + 1
    BY <1>3, EmptyIs
  <2>2. edits \in 0..MaxEdits BY Bounds
  <2>3. QED BY <2>1, <2>2, EmptyIs DEF TasksOK, BagToSet
<1>5. LineOK BY Bounds DEF LineOK
<1>6. QED BY <1>2, <1>4, <1>5 DEF HoldingsInv

\* The user: the cursor, the entry line, edits of holdings and of alerts.
LEMMA UserKeeps ==
  ASSUME HoldingsInv, User \/ AlertsChange PROVE HoldingsInv'
<1> USE DEF HoldingsInv
<1>k. ASSUME UNCHANGED <<holdings, rows, writing, listing, answers, edits>>, LineOK'
      PROVE  HoldingsInv'
  BY <1>k DEF BooksOK, TasksOK
<1>1. CASE MoveDown
  <2>1. selected' \in Nat /\ section' \in {"holdings", "alerts"}
    BY <1>1 DEF MoveDown, LineOK
  <2>2. QED BY <1>1, <1>k, <2>1 DEF MoveDown, LineOK
<1>2. CASE MoveUp
  <2>1. Max({0, Len(holdings) - 1}) \in Nat BY LenIs, LineIs
  <2>2. selected' \in Nat /\ section' \in {"holdings", "alerts"}
    BY <1>2, <2>1 DEF MoveUp, LineOK
  <2>3. QED BY <1>2, <1>k, <2>2 DEF MoveUp, LineOK
<1>3. CASE StartAdd \/ StartEdit \/ CancelEntry
  BY <1>3, <1>k DEF StartAdd, StartEdit, CancelEntry, LineOK
<1>4. CASE SubmitAlert \/ AlertsChange
  <2>1. nalerts' \in 0..MaxAlerts BY <1>4, Bounds DEF SubmitAlert, AlertsChange, LineOK
  <2>2. QED BY <1>4, <1>k, <2>1 DEF SubmitAlert, AlertsChange, LineOK
<1>5. CASE DeleteAlert
  <2>1. nalerts' \in 0..MaxAlerts /\ nalerts - 1 \in Int
    BY <1>5, Bounds DEF DeleteAlert, LineOK
  <2>2. selected' \in Nat BY <1>5, <2>1, ClampedIs DEF DeleteAlert, LineOK
  <2>3. QED BY <1>5, <1>k, <2>1, <2>2 DEF DeleteAlert, LineOK
<1>6. ASSUME NEW h \in Holding, SubmitHolding(h) PROVE HoldingsInv'
  <2> USE <1>6 DEF SubmitHolding
  <2>1. BooksOK' BY UpsertedIs DEF BooksOK
  <2>2. h \in Task BY DEF Holding, Task
  <2>3. TasksOK' BY <2>2, TaskAdded DEF MayEdit
  <2>4. LineOK' BY DEF LineOK
  <2>5. QED BY <2>1, <2>3, <2>4
<1>7. CASE DeleteHolding
  <2> USE <1>7 DEF DeleteHolding
  <2>1. selected + 1 \in 1..Len(holdings) BY LenIs DEF LineOK
  <2>2. BooksOK' BY <2>1, RemovedIs DEF BooksOK
  <2>3. holdings[selected + 1] \in Holding BY <2>1 DEF BooksOK, Lists
  <2>4. [ticker |-> holdings[selected + 1].ticker, lot |-> None] \in Task
    BY <2>3 DEF Holding, Task
  <2>5. TasksOK' BY <2>4, TaskAdded DEF MayEdit
  <2>6. selected' \in Nat BY LenIs, ClampedIs DEF LineOK
  <2>7. LineOK' BY <2>6 DEF LineOK
  <2>8. QED BY <2>2, <2>5, <2>7
<1>8. QED BY <1>1, <1>2, <1>3, <1>4, <1>5, <1>6, <1>7 DEF User

\* The tasks, their answers, and a restart.
LEMMA TasksKeep ==
  ASSUME HoldingsInv, Tasks \/ Deliver \/ Restart PROVE HoldingsInv'
<1> USE DEF HoldingsInv
<1>1. ASSUME NEW k \in BagToSet(writing), Write(k) \/ WriteFails(k) PROVE HoldingsInv'
  <2>1. TasksOK' BY <1>1, TaskWritten DEF Write, WriteFails
  <2>2. k.lot \in Lot \cup {None} BY DEF TasksOK, Task
  <2>3. BooksOK' BY <1>1, <2>2 DEF Write, WriteFails, BooksOK
  <2>4. LineOK' BY <1>1 DEF Write, WriteFails, LineOK
  <2>5. QED BY <2>1, <2>3, <2>4
<1>2. CASE List \/ ListFails
  <2>1. TasksOK' BY <1>2, TaskListed DEF List, ListFails, BooksOK
  <2>2. BooksOK' /\ LineOK' BY <1>2 DEF List, ListFails, BooksOK, LineOK
  <2>3. QED BY <2>1, <2>2
<1>3. ASSUME NEW list \in BagToSet(answers), PortfolioLoaded(list) PROVE HoldingsInv'
  <2>1. TasksOK' BY <1>3, AnswerTaken DEF PortfolioLoaded
  <2>2. list \in Lists BY DEF TasksOK
  <2>3. BooksOK' /\ LineOK' BY <1>3, <2>2 DEF PortfolioLoaded, BooksOK, LineOK
  <2>4. QED BY <2>1, <2>3
<1>4. CASE Restart
  <2>1. session' \in 1..MaxSessions BY <1>4, Bounds DEF Restart, LineOK
  <2>2. QED BY <1>4, <2>1, SessionStarted DEF Restart, BooksOK
<1>5. QED BY <1>1, <1>2, <1>3, <1>4 DEF Tasks, Deliver

LEMMA HoldingsInvStep ==
  ASSUME HoldingsInv, [Next]_vars PROVE HoldingsInv'
<1>1. CASE UNCHANGED vars
  BY <1>1 DEF vars, HoldingsInv, BooksOK, TasksOK, LineOK
<1>2. QED BY <1>1, UserKeeps, TasksKeep DEF Next

\* No interleaving of entries, deletions, writes, reloads and restarts makes
\* memory list a ticker twice, or leaves a task or a cursor out of its range
\* (upsert_holding_in_memory, reload_portfolio, clamp_manage_selected).
THEOREM HoldingsTypeCorrect == Spec => []TypeOK
BY HoldingsInvInit, HoldingsInvStep, HoldingsTypes, PTL DEF Spec

-----------------------------------------------------------------------------
(***************************************************************************)
(* The holdings: one edit at a time.                                       *)
(***************************************************************************)
\* At most one thing is outstanding: a write, then the reading of the table,
\* then the list read, which is the table as it still is.
Only(B, e) == DOMAIN B = {e} /\ B[e] = 1
Settling ==
  \/ Quiet /\ Book(holdings) = rows
  \/ (\E k \in Task : Only(writing, k)) /\ listing = 0 /\ answers = EmptyBag
  \/ writing = EmptyBag /\ listing = 1 /\ answers = EmptyBag
  \/ writing = EmptyBag /\ listing = 0 /\ Only(answers, Listed(rows))

LEMMA EmptyAlone ==
  ASSUME NEW B, IsABag(B) PROVE DOMAIN B = {} <=> B = EmptyBag
<1>1. B = [e \in DOMAIN B |-> B[e]] BY DEF IsABag
<1>2. DOMAIN B = {} => B = EmptyBag BY <1>1 DEF EmptyBag, SetToBag
<1>3. QED BY <1>2, EmptyIs

LEMMA OnlyAdded == \A k : Only(EmptyBag (+) SetToBag({k}), k)
<1> TAKE k
<1> DEFINE C == EmptyBag (+) SetToBag({k})
<1>1. /\ DOMAIN C = DOMAIN EmptyBag \cup {k}
      /\ C[k] = (IF k \in DOMAIN EmptyBag THEN EmptyBag[k] ELSE 0) + 1
  BY BagAdd, EmptyIs
<1> HIDE DEF C
<1>2. DOMAIN C = {k} /\ C[k] = 1 BY <1>1, EmptyIs
<1>3. QED BY <1>2 DEF Only, C

LEMMA OnlyDropped ==
  ASSUME NEW B, IsABag(B), NEW e, Only(B, e), NEW k \in DOMAIN B
  PROVE  k = e /\ B (-) SetToBag({k}) = EmptyBag
<1>1. k = e /\ B[k] = 1 BY DEF Only
<1>2. IsABag(B (-) SetToBag({k})) /\ DOMAIN (B (-) SetToBag({k})) = {}
  <2> DEFINE C == B (-) SetToBag({k})
  <2>1. IsABag(C) /\ DOMAIN C = IF B[k] = 1 THEN DOMAIN B \ {k} ELSE DOMAIN B
    BY BagDrop
  <2> HIDE DEF C
  <2>2. DOMAIN C = {} BY <1>1, <2>1 DEF Only
  <2>3. QED BY <2>1, <2>2 DEF C
<1>3. QED BY <1>1, <1>2, EmptyAlone

LEMMA SettlingUser ==
  ASSUME ~Overlapping, HoldingsInv, Settling, User \/ AlertsChange PROVE Settling'
<1>1. CASE UNCHANGED <<holdings, rows, writing, listing, answers>>
  BY <1>1 DEF Settling, Quiet
<1>2. ASSUME NEW k \in Task, Quiet, writing' = writing (+) SetToBag({k}),
             UNCHANGED <<listing, answers>>
      PROVE  Settling'
  <2>1. Only(writing', k) BY <1>2, OnlyAdded DEF Quiet
  <2>2. QED BY <1>2, <2>1 DEF Settling, Quiet
<1>3. ASSUME NEW h \in Holding, SubmitHolding(h) PROVE Settling'
  <2>1. h \in Task BY DEF Holding, Task
  <2>2. QED BY <1>2, <1>3, <2>1 DEF SubmitHolding, MayEdit
<1>4. CASE DeleteHolding
  <2>1. selected + 1 \in 1..Len(holdings)
    BY <1>4, LenIs DEF DeleteHolding, HoldingsInv, LineOK
  <2>2. holdings[selected + 1] \in Holding BY <2>1 DEF HoldingsInv, BooksOK, Lists
  <2>3. [ticker |-> holdings[selected + 1].ticker, lot |-> None] \in Task
    BY <2>2 DEF Holding, Task
  <2>4. QED BY <1>2, <1>4, <2>3 DEF DeleteHolding, MayEdit
<1>5. QED BY <1>1, <1>3, <1>4
  DEF User, AlertsChange, MoveDown, MoveUp, StartAdd, StartEdit, CancelEntry, SubmitAlert,
      DeleteAlert

LEMMA SettlingTasks ==
  ASSUME ~Overlapping, HoldingsInv, Settling, Tasks \/ Deliver \/ Restart PROVE Settling'
<1>b. /\ IsABag(writing) /\ IsABag(answers)
      /\ rows \in [Ticker -> Lot \cup {None}]
  BY DEF HoldingsInv, TasksOK, BooksOK
<1>e. DOMAIN EmptyBag = {} BY EmptyIs
<1>1. ASSUME NEW k \in BagToSet(writing), Write(k) \/ WriteFails(k) PROVE Settling'
  <2>1. k \in DOMAIN writing BY DEF BagToSet
  <2>2. writing # EmptyBag BY <1>e, <2>1
  <2>3. (\E j \in Task : Only(writing, j)) /\ listing = 0 /\ answers = EmptyBag
    BY <2>2 DEF Settling, Quiet
  <2>4. writing' = EmptyBag
    BY <1>1, <1>b, <2>1, <2>3, OnlyDropped DEF Write, WriteFails
  <2>5. listing' = 1 /\ answers' = EmptyBag BY <1>1, <2>3 DEF Write, WriteFails
  <2>6. QED BY <2>4, <2>5 DEF Settling
<1>2. CASE List
  <2>1. writing = EmptyBag /\ listing = 1 /\ answers = EmptyBag
    BY <1>2 DEF List, Settling, Quiet
  <2>2. writing' = EmptyBag /\ listing' = 0 /\ rows' = rows
    BY <1>2, <2>1 DEF List
  <2>3. Only(answers', Listed(rows)) BY <1>2, <2>1, OnlyAdded DEF List
  <2>4. Listed(rows') = Listed(rows) BY <2>2
  <2>5. QED BY <2>2, <2>3, <2>4 DEF Settling
<1>3. ASSUME NEW list \in BagToSet(answers), PortfolioLoaded(list) PROVE Settling'
  <2>1. list \in DOMAIN answers BY DEF BagToSet
  <2>2. answers # EmptyBag BY <1>e, <2>1
  <2>3. writing = EmptyBag /\ listing = 0 /\ Only(answers, Listed(rows))
    BY <2>2 DEF Settling, Quiet
  <2>4. list = Listed(rows) /\ answers' = EmptyBag
    BY <1>3, <1>b, <2>1, <2>3, OnlyDropped DEF PortfolioLoaded
  <2>5. holdings' = Listed(rows) /\ UNCHANGED <<rows, writing, listing>>
    BY <1>3, <2>4 DEF PortfolioLoaded
  <2>6. Book(Listed(rows)) = rows BY <1>b, ListedIs
  <2>7. Quiet' BY <2>3, <2>4, <2>5 DEF Quiet
  <2>8. Book(holdings') = rows' BY <2>5, <2>6
  <2>9. QED BY <2>7, <2>8 DEF Settling
<1>4. CASE Restart
  BY <1>4 DEF Restart, StartSession, Settling
<1>5. QED BY <1>1, <1>2, <1>3, <1>4 DEF Tasks, ListFails, Deliver

\* When the user waits for an edit to settle before the next, what is on screen
\* at rest is what the table holds: the reload after every write repairs memory
\* also when the write has failed (tasks.rs, spawn_upsert_holding).
THEOREM SerialMemoryIsTable ==
  ASSUME ~Overlapping
  PROVE  Spec => []MemoryIsTable
<1>1. Init => HoldingsInv /\ Settling
  BY HoldingsInvInit DEF Init, Settling
<1>2. HoldingsInv /\ Settling /\ [Next]_vars => (HoldingsInv /\ Settling)'
  <2> SUFFICES ASSUME HoldingsInv, Settling, [Next]_vars PROVE HoldingsInv' /\ Settling'
    OBVIOUS
  <2>1. CASE UNCHANGED vars
    BY <2>1, HoldingsInvStep DEF vars, Settling, Quiet
  <2>2. QED BY <2>1, HoldingsInvStep, SettlingUser, SettlingTasks DEF Next
<1>3. HoldingsInv /\ Settling => MemoryIsTable
  <2> SUFFICES ASSUME HoldingsInv, Settling, Quiet PROVE Book(holdings) = rows
    BY DEF MemoryIsTable
  <2>1. ~(\E k \in Task : Only(writing, k)) /\ listing # 1 /\ ~Only(answers, Listed(rows))
    BY EmptyIs DEF Quiet, Only
  <2>2. QED BY <2>1 DEF Settling
<1>4. QED BY <1>1, <1>2, <1>3, PTL DEF Spec
=============================================================================
