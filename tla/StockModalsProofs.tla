------------------------- MODULE StockModalsProofs --------------------------
(***************************************************************************)
(* Proofs about the four modals of a stock, in both regimes of             *)
(* MCStockModals, for any tickers, panels and option chains.               *)
(***************************************************************************)
EXTENDS MCStockModals, TLAPS

-----------------------------------------------------------------------------
(***************************************************************************)
(* Queues                                                                  *)
(***************************************************************************)
Holds(q, x) == \E i \in DOMAIN q : q[i] = x

\* What a queue holds once an answer is sent.
LEMMA AppendHolds ==
  ASSUME NEW S, NEW q \in Seq(S), NEW e \in S
  PROVE  /\ Append(q, e) \in Seq(S)
         /\ \A x : Holds(Append(q, e), x) <=> Holds(q, x) \/ x = e
<1>1. /\ DOMAIN q = 1..Len(q) /\ Len(q) \in Nat
      /\ DOMAIN Append(q, e) = 1..(Len(q) + 1)
      /\ \A i \in 1..Len(q) : Append(q, e)[i] = q[i]
      /\ Append(q, e)[Len(q) + 1] = e
  OBVIOUS
<1>2. ASSUME NEW x, Holds(Append(q, e), x) PROVE Holds(q, x) \/ x = e
  BY <1>1, <1>2 DEF Holds
<1>3. ASSUME NEW x, Holds(q, x) PROVE Holds(Append(q, e), x)
  <2>1. PICK i \in 1..Len(q) : q[i] = x BY <1>1, <1>3 DEF Holds
  <2>2. i \in 1..(Len(q) + 1) /\ Append(q, e)[i] = x BY <1>1, <2>1
  <2>3. QED BY <1>1, <2>2 DEF Holds
<1>4. Holds(Append(q, e), e)
  <2>1. Len(q) + 1 \in 1..(Len(q) + 1) BY <1>1
  <2>2. QED BY <1>1, <2>1 DEF Holds
<1>5. QED BY <1>2, <1>3, <1>4

\* What it holds once the loop has taken the first.
LEMMA TailHolds ==
  ASSUME NEW S, NEW q \in Seq(S), q # <<>>
  PROVE  /\ Tail(q) \in Seq(S) /\ Head(q) \in S /\ Holds(q, Head(q))
         /\ \A x : Holds(q, x) <=> x = Head(q) \/ Holds(Tail(q), x)
<1>1. /\ DOMAIN q = 1..Len(q) /\ Len(q) \in Nat \ {0} /\ q[1] = Head(q)
      /\ DOMAIN Tail(q) = 1..(Len(q) - 1)
      /\ \A i \in 1..(Len(q) - 1) : Tail(q)[i] = q[i + 1]
      /\ Tail(q) \in Seq(S) /\ Head(q) \in S
  OBVIOUS
<1>2. ASSUME NEW x, Holds(Tail(q), x) PROVE Holds(q, x)
  <2>1. PICK i \in 1..(Len(q) - 1) : q[i + 1] = x BY <1>1, <1>2 DEF Holds
  <2>2. i + 1 \in 1..Len(q) BY <1>1, <2>1
  <2>3. QED BY <1>1, <2>1, <2>2 DEF Holds
<1>3. ASSUME NEW x, Holds(q, x), x # Head(q) PROVE Holds(Tail(q), x)
  <2>1. PICK i \in 1..Len(q) : q[i] = x BY <1>1, <1>3 DEF Holds
  <2>2. i # 1 BY <1>1, <1>3, <2>1
  <2>3. i - 1 \in 1..(Len(q) - 1) /\ Tail(q)[i - 1] = x BY <1>1, <2>1, <2>2
  <2>4. QED BY <1>1, <2>3 DEF Holds
<1>4. Holds(q, Head(q))
  <2>1. 1 \in 1..Len(q) BY <1>1
  <2>2. QED BY <1>1, <2>1 DEF Holds
<1>5. QED BY <1>1, <1>2, <1>3, <1>4

-----------------------------------------------------------------------------
(***************************************************************************)
(* Invariants                                                              *)
(***************************************************************************)
\* The inductive invariant: the type invariant with the domain of the chain
\* fetches, the claims, and that the earnings modal holds its own ticker's data.
Inv ==
  /\ ModalTypeOK /\ fetching \in [Ticker -> Int]
  /\ FetchesAreClaimed
  /\ EarningsOfStock /\ earnings \in {NoTicker, ticker}

\* In the calm regime, what is fetched, on its way or shown is for the selected
\* stock and, for a chain, for the selected expiry.
CalmInv ==
  /\ \A k \in Key : running[k] > 0 \/ Queued(k) => k[2] = stock
  /\ PanelMatchesStock
  /\ \A t \in Ticker : fetching[t] # Options!Idle => t = stock /\ fetching[t] = selected
  /\ \A i \in DOMAIN chains : chains[i].ticker = stock /\ chains[i].expiry = selected
  /\ ShowsSelectedExpiry
  /\ overlay = "options" /\ chain # NoChain => chain.ticker = stock /\ chain.spot = stock

panelsOnly == <<data, inflight, running, queue, failed>>

LEMMA Constants ==
  /\ NoTicker \notin Ticker /\ Chart \notin InfoPanel
  /\ Expirations \in [Ticker -> Nat] /\ NoChain \notin Options!Chain
  /\ MaxPresses \in Nat
BY PanelsAssumption, ModalsAssumption DEF Options!OptionsAssumption

LEMMA InvInit == ModalInit => Inv
<1> SUFFICES ASSUME ModalInit PROVE Inv
  OBVIOUS
<1> USE DEF ModalInit, Init, Options!Init, Earnings!Init
<1>1. TypeOK
  <2>1. <<>> \in Seq(Key) OBVIOUS
  <2>2. QED BY <2>1 DEF TypeOK, Overlays
<1>2. Options!TypeOK
  <2>1. <<>> \in Seq(Options!Reply) OBVIOUS
  <2>2. QED BY <2>1 DEF Options!TypeOK
<1>3. Earnings!TypeOK
  <2>1. <<>> \in Seq(Earnings!Event) OBVIOUS
  <2>2. QED BY <2>1 DEF Earnings!TypeOK
<1>4. ModalTypeOK
  BY <1>1, <1>2, <1>3, Constants DEF ModalTypeOK, Options!SelectedInRange
<1>5. fetching \in [Ticker -> Int]
  BY DEF Options!Idle
<1>6. FetchesAreClaimed
  BY DEF FetchesAreClaimed, OneFetchPerKey, LoadingIsPending
<1>7. QED BY <1>4, <1>5, <1>6 DEF Inv, EarningsOfStock

-----------------------------------------------------------------------------
(***************************************************************************)
(* The info and chart panels                                               *)
(***************************************************************************)
\* Begun fetches run, and whatever was wanted runs.
LEMMA FetchClaims ==
  ASSUME TypeOK, OneFetchPerKey, NEW wanted \in SUBSET Key, Fetch(wanted)
  PROVE  /\ inflight' \subseteq Key /\ running' \in [Key -> Nat] /\ failed' \subseteq Key
         /\ OneFetchPerKey'
         /\ \A k \in wanted : running'[k] > 0
         /\ \A k \in Key \ wanted : running'[k] = running[k] /\ (k \in failed <=> k \in failed')
<1> USE DEF TypeOK, OneFetchPerKey, Fetch
<1>1. /\ inflight' = inflight \cup wanted
      /\ running' = [k \in Key |-> running[k] + IF k \in wanted \ inflight THEN 1 ELSE 0]
      /\ failed' = failed \ (wanted \ inflight)
  OBVIOUS
<1> HIDE DEF Fetch
<1>2. \A k \in Key : running'[k] = running[k] + IF k \in wanted \ inflight THEN 1 ELSE 0
  BY <1>1
<1>3. \A k \in Key : running'[k] = IF k \in inflight' THEN 1 ELSE 0
  BY <1>1, <1>2
<1>4. QED BY <1>1, <1>2, <1>3

\* What an empty panel of the info modal waits for.
Waits(p) ==
  <<p, stock>> \in Outstanding \/ Queued(<<p, stock>>) \/ <<p, stock>> \in failed

PanelsInv == TypeOK /\ OneFetchPerKey /\ LoadingIsPending

LEMMA OpenPanelsStep ==
  ASSUME PanelsInv, NEW t \in Ticker, OpenInfo(t) \/ OpenChart(t)
  PROVE  PanelsInv'
<1> USE DEF PanelsInv
<1>1. CASE OpenInfo(t)
  <2> DEFINE missing == {p \in InfoPanel : data[p] # t}
             wanted == {<<p, t>> : p \in missing}
  <2>1. wanted \in SUBSET Key /\ Fetch(wanted)
    BY <1>1 DEF OpenInfo, Key, Panel
  <2>2. /\ stock' = t /\ overlay' = "info" /\ queue' = queue
        /\ data' = [p \in Panel |-> IF p \in missing THEN NoTicker ELSE data[p]]
    BY <1>1 DEF OpenInfo, Opens
  <2> HIDE DEF wanted
  <2>3. TypeOK' /\ OneFetchPerKey'
    BY <2>1, <2>2, FetchClaims DEF TypeOK, Overlays
  <2>4. ASSUME NEW p \in InfoPanel, data'[p] = NoTicker PROVE <<p, t>> \in Outstanding'
    <3>1. p \in missing /\ <<p, t>> \in Key
      BY <2>2, <2>4, Constants DEF Panel, Key
    <3>2. <<p, t>> \in wanted BY <3>1 DEF wanted
    <3>3. running'[<<p, t>>] > 0 BY <2>1, <3>2, FetchClaims
    <3>4. QED BY <3>1, <3>3 DEF Outstanding
  <2>5. QED BY <2>2, <2>3, <2>4 DEF LoadingIsPending, SectionLoading
<1>2. CASE OpenChart(t)
  <2>1. {<<Chart, t>>} \in SUBSET Key /\ Fetch({<<Chart, t>>})
    BY <1>2 DEF OpenChart, Key, Panel
  <2>2. stock' = t /\ overlay' = "chart" /\ UNCHANGED <<data, queue>>
    BY <1>2 DEF OpenChart, Opens
  <2>3. TypeOK' /\ OneFetchPerKey'
    BY <2>1, <2>2, FetchClaims DEF TypeOK, Overlays
  <2>4. QED BY <2>2, <2>3 DEF LoadingIsPending
<1>3. QED BY <1>1, <1>2

LEMMA PanelTasksStep ==
  ASSUME PanelsInv, NEW k \in Key, Answer(k) \/ Fail(k)
  PROVE  PanelsInv'
<1> USE DEF PanelsInv, TypeOK, OneFetchPerKey
<1>1. /\ running' = [running EXCEPT ![k] = 0] /\ inflight' = inflight \ {k}
      /\ running[k] = 1 /\ UNCHANGED <<stock, overlay, data>>
  BY DEF Answer, Fail, Ends
<1>2. OneFetchPerKey' /\ inflight' \subseteq Key /\ running' \in [Key -> Nat]
  BY <1>1
<1>3. /\ queue' \in Seq(Key) /\ failed' \subseteq Key
      /\ \A x : Queued(x) => Queued(x)'
      /\ Queued(k)' \/ k \in failed'
      /\ failed \subseteq failed'
  <2>1. CASE Answer(k)
    <3>1. queue' = Append(queue, k) /\ UNCHANGED failed BY <2>1 DEF Answer
    <3>2. queue' \in Seq(Key) /\ \A x : Queued(x)' <=> Queued(x) \/ x = k
      BY <3>1, AppendHolds DEF Queued, Holds
    <3>3. QED BY <3>1, <3>2
  <2>2. CASE Fail(k)
    BY <2>2 DEF Fail, Queued
  <2>3. QED BY <2>1, <2>2
<1>4. LoadingIsPending'
  <2> SUFFICES ASSUME overlay' = "info", NEW p \in InfoPanel, data'[p] = NoTicker
               PROVE  Waits(p)'
    BY DEF LoadingIsPending, SectionLoading, Waits
  <2>1. Waits(p)
    BY <1>1 DEF LoadingIsPending, SectionLoading, Waits
  <2>2. CASE <<p, stock>> = k
    BY <1>1, <1>3, <2>2 DEF Waits
  <2>3. CASE <<p, stock>> # k
    BY <1>1, <1>3, <2>1, <2>3 DEF Waits, Outstanding
  <2>4. QED BY <2>2, <2>3
<1>5. QED BY <1>1, <1>2, <1>3, <1>4

LEMMA DeliverStep ==
  ASSUME PanelsInv, Deliver
  PROVE  PanelsInv'
<1> USE DEF PanelsInv, TypeOK
<1> DEFINE k == Head(queue)
<1>1. /\ queue # <<>> /\ queue' = Tail(queue) /\ data' = [data EXCEPT ![k[1]] = k[2]]
      /\ UNCHANGED <<stock, overlay, inflight, running, failed>>
  BY DEF Deliver
<1>2. /\ queue' \in Seq(Key) /\ k \in Key
      /\ \A x : Queued(x) => x = k \/ Queued(x)'
  BY <1>1, TailHolds DEF Queued, Holds
<1> HIDE DEF k
<1>3. k[1] \in Panel /\ k[2] \in Ticker /\ k = <<k[1], k[2]>>
  BY <1>2 DEF Key
<1>4. TypeOK' /\ OneFetchPerKey'
  BY <1>1, <1>2, <1>3 DEF OneFetchPerKey
<1>5. LoadingIsPending'
  <2> SUFFICES ASSUME overlay' = "info", NEW p \in InfoPanel, data'[p] = NoTicker
               PROVE  Waits(p)'
    BY DEF LoadingIsPending, SectionLoading, Waits
  <2>1. p # k[1] /\ data[p] = NoTicker
    BY <1>1, <1>3, Constants DEF Panel
  <2>2. Waits(p)
    BY <1>1, <2>1 DEF LoadingIsPending, SectionLoading, Waits
  <2>3. <<p, stock>> # k BY <1>3, <2>1
  <2>4. QED BY <1>1, <1>2, <2>2, <2>3 DEF Waits, Outstanding
<1>6. QED BY <1>4, <1>5

\* Another modal on screen waits for no panel.
LEMMA PanelsStay ==
  ASSUME PanelsInv, UNCHANGED panelsOnly,
         stock' \in Ticker \cup {NoTicker}, overlay' \in Overlays,
         overlay' = "info" => overlay = "info" /\ stock' = stock
  PROVE  PanelsInv'
BY DEF PanelsInv, panelsOnly, TypeOK, OneFetchPerKey, LoadingIsPending, SectionLoading,
  Outstanding, Queued

-----------------------------------------------------------------------------
(***************************************************************************)
(* The options and the earnings modal                                      *)
(***************************************************************************)
OptionsInv ==
  Options!TypeOK /\ Options!SelectedInRange /\ fetching \in [Ticker -> Int]

\* The expiries a ticker has can be asked for, and the first one always.
LEMMA Expiries ==
  ASSUME NEW t \in Ticker, NEW e \in Nat, e = 0 \/ e < Expirations[t]
  PROVE  /\ [ticker |-> t, expiry |-> e] \in Options!Reply
         /\ e \in Int /\ e # Options!Idle
BY DEF Options!Reply, Options!Idle

LEMMA OptionFetch ==
  ASSUME OptionsInv, NEW t \in Ticker, NEW e \in Nat, e = 0 \/ e < Expirations[t],
         Options!Fetch(t, e)
  PROVE  /\ fetching' \in [Ticker -> Int] /\ asked' \in Ticker
         /\ \A u \in Ticker : fetching'[u] = Options!Idle
                                \/ [ticker |-> u, expiry |-> fetching'[u]] \in Options!Reply
         /\ \A u \in Ticker \ {t} : fetching'[u] = fetching[u]
         /\ fetching[t] = Options!Idle => fetching'[t] = e
         /\ chainFailed' \subseteq Ticker
BY Expiries DEF OptionsInv, Options!TypeOK, Options!Fetch

LEMMA OpenOptionsStep ==
  ASSUME OptionsInv, NEW t \in Ticker, Options!OpenOptions(t)
  PROVE  OptionsInv'
<1> USE DEF OptionsInv, Options!TypeOK, Options!SelectedInRange
<1>1. CASE Options!HasChain(t)
  <2>1. chain \in Options!Chain BY <1>1 DEF Options!HasChain
  <2>2. [chain EXCEPT !.spot = t] \in Options!Chain
    BY <2>1 DEF Options!Chain
  <2>3. [chain EXCEPT !.spot = t].ticker = chain.ticker
    BY <2>1 DEF Options!Chain
  <2>4. chain' = [chain EXCEPT !.spot = t] /\ UNCHANGED <<selected, asked, fetching, chainFailed>>
    BY <1>1 DEF Options!OpenOptions
  <2>5. QED BY <1>1, <2>1, <2>2, <2>3, <2>4 DEF Options!OpenOptions, Options!HasChain
<1>2. CASE ~Options!HasChain(t)
  <2>1. Options!Fetch(t, 0) /\ chain' = NoChain /\ selected' = 0
    BY <1>2 DEF Options!OpenOptions
  <2>2. QED BY <2>1, OptionFetch DEF Options!OpenOptions
<1>3. QED BY <1>1, <1>2

LEMMA CycleExpiryStep ==
  ASSUME OptionsInv, NEW d \in {-1, 1}, Options!CycleExpiry(d)
  PROVE  /\ OptionsInv'
         /\ chain \in Options!Chain /\ chain' = NoChain /\ overlay = "options"
         /\ selected' \in Nat /\ Options!Fetch(chain.ticker, selected')
<1> USE DEF OptionsInv, Options!TypeOK
<1>1. /\ chain \in Options!Chain /\ chain.ticker \in Ticker /\ Expirations[chain.ticker] \in Nat
      /\ chain' = NoChain /\ overlay = "options"
  BY Constants DEF Options!CycleExpiry, Options!Chain
<1>2. selected' \in Nat /\ selected' < Expirations[chain.ticker]
  BY <1>1 DEF Options!CycleExpiry, Options!AtMost
<1>3. Options!Fetch(chain.ticker, selected')
  BY DEF Options!CycleExpiry
<1>4. OptionsInv'
  BY <1>1, <1>2, <1>3, OptionFetch DEF Options!CycleExpiry, Options!SelectedInRange
<1>5. QED BY <1>1, <1>2, <1>3, <1>4

LEMMA OptionTasksStep ==
  ASSUME OptionsInv, NEW t \in Ticker, Options!Answer(t) \/ Options!Fail(t)
  PROVE  OptionsInv'
<1> USE DEF OptionsInv, Options!TypeOK, Options!SelectedInRange
<1>1. fetching' \in [Ticker -> Int] /\ \A u \in Ticker : fetching'[u] \in {Options!Idle, fetching[u]}
  BY DEF Options!Answer, Options!Fail, Options!Idle
<1>2. CASE Options!Answer(t)
  <2>1. [ticker |-> t, expiry |-> fetching[t]] \in Options!Reply
    BY <1>2 DEF Options!Answer
  <2>2. chains' \in Seq(Options!Reply)
    BY <1>2, <2>1, AppendHolds DEF Options!Answer
  <2>3. QED BY <1>1, <1>2, <2>2 DEF Options!Answer
<1>3. CASE Options!Fail(t)
  BY <1>1, <1>3 DEF Options!Fail
<1>4. QED BY <1>2, <1>3

LEMMA ChainReadyStep ==
  ASSUME OptionsInv, Options!OptionChainReady
  PROVE  OptionsInv'
<1> USE DEF OptionsInv, Options!TypeOK
<1> DEFINE r == Head(chains)
<1>1. /\ chains # <<>> /\ chains' = Tail(chains)
      /\ chain' = [ticker |-> r.ticker, expiry |-> r.expiry, spot |-> stock]
      /\ selected' = Options!AtMost(selected, Options!LastIndex(Expirations[r.ticker]))
      /\ UNCHANGED <<stock, overlay, asked, fetching, chainFailed>>
  BY DEF Options!OptionChainReady
<1>2. r \in Options!Reply /\ chains' \in Seq(Options!Reply)
  BY <1>1, TailHolds
<1> HIDE DEF r
<1>3. chain' \in Options!Chain /\ chain'.ticker = r.ticker /\ Expirations[r.ticker] \in Nat
  BY <1>1, <1>2, Constants DEF Options!Chain, Options!Reply
<1>4. selected' \in Nat /\ selected' <= Options!LastIndex(Expirations[r.ticker])
  BY <1>1, <1>3 DEF Options!AtMost, Options!LastIndex
<1>5. QED BY <1>1, <1>2, <1>3, <1>4 DEF Options!SelectedInRange

LEMMA OptionsStay ==
  ASSUME OptionsInv, UNCHANGED optionVars,
         stock' \in Ticker \cup {NoTicker}, overlay' \in Overlays
  PROVE  OptionsInv'
BY DEF OptionsInv, optionVars, Options!TypeOK, Options!SelectedInRange, Overlays

\* The earnings modal holds its own ticker's figures or none.
EarningsInv == Earnings!TypeOK /\ earnings \in {NoTicker, ticker} /\ EarningsOfStock

LEMMA OpenEarningsStep ==
  ASSUME EarningsInv, NEW t \in Ticker, Earnings!Open(t), stock' = t
  PROVE  EarningsInv'
<1> USE DEF EarningsInv, Earnings!TypeOK, EarningsOfStock
<1>1. CASE earnings = t
  BY <1>1, Constants DEF Earnings!Open
<1>2. CASE earnings # t
  <2>1. earnings' = NoTicker /\ loading' = TRUE /\ ticker' = t /\ reports' = reports
    BY <1>2 DEF Earnings!Open
  <2>2. asking' \in [Ticker -> Nat]
    BY <1>2 DEF Earnings!Open
  <2>3. QED BY <2>1, <2>2
<1>3. QED BY <1>1, <1>2

LEMMA EarningsTasksStep ==
  ASSUME EarningsInv, (\E t \in Ticker : Earnings!Answer(t)) \/ Earnings!Deliver,
         UNCHANGED <<stock, overlay>>
  PROVE  EarningsInv'
<1> USE DEF EarningsInv, Earnings!TypeOK
<1>1. ASSUME NEW t \in Ticker, Earnings!Answer(t) PROVE EarningsInv'
  <2>1. reports' \in Seq(Earnings!Event)
    <3>1. PICK ok \in BOOLEAN : reports' = Append(reports, [ticker |-> t, ok |-> ok])
      BY <1>1 DEF Earnings!Answer
    <3>2. [ticker |-> t, ok |-> ok] \in Earnings!Event BY DEF Earnings!Event
    <3>3. QED BY <3>1, <3>2, AppendHolds
  <2>2. asking' \in [Ticker -> Nat] BY <1>1 DEF Earnings!Answer
  <2>3. QED BY <1>1, <2>1, <2>2 DEF Earnings!Answer, EarningsOfStock
<1>2. CASE Earnings!Deliver
  <2>1. reports' \in Seq(Earnings!Event)
    BY <1>2, TailHolds DEF Earnings!Deliver
  <2>2. earnings' \in {earnings, ticker} /\ loading' \in BOOLEAN
    BY <1>2 DEF Earnings!Deliver
  <2>3. Head(reports).ticker = ticker \/ earnings' = earnings
    BY <1>2 DEF Earnings!Deliver
  <2>4. reports # <<>> /\ Head(reports) \in Earnings!Event
    BY <1>2, TailHolds DEF Earnings!Deliver
  <2>5. earnings' \in Ticker \cup {NoTicker}
    BY <2>2, <2>3, <2>4 DEF Earnings!Event
  <2>6. QED BY <1>2, <2>1, <2>2, <2>5 DEF Earnings!Deliver, EarningsOfStock
<1>3. QED BY <1>1, <1>2

LEMMA EarningsStay ==
  ASSUME EarningsInv, UNCHANGED earningsVars,
         overlay' = "earnings" => overlay = "earnings" /\ stock' = stock
  PROVE  EarningsInv'
BY DEF EarningsInv, earningsVars, Earnings!TypeOK, EarningsOfStock

-----------------------------------------------------------------------------
(***************************************************************************)
(* The modals together                                                     *)
(***************************************************************************)
LEMMA InvParts ==
  Inv <=> PanelsInv /\ OptionsInv /\ EarningsInv /\ presses \in 0..MaxPresses
BY DEF Inv, ModalTypeOK, FetchesAreClaimed, PanelsInv, OptionsInv, EarningsInv

LEMMA InvStep == Inv /\ [ModalNext]_modalVars => Inv'
<1> SUFFICES ASSUME PanelsInv, OptionsInv, EarningsInv, presses \in 0..MaxPresses,
                    [ModalNext]_modalVars
             PROVE  PanelsInv' /\ OptionsInv' /\ EarningsInv' /\ presses' \in 0..MaxPresses
  <2>1. Inv' <=> (PanelsInv /\ OptionsInv /\ EarningsInv /\ presses \in 0..MaxPresses)'
    BY InvParts, PTL
  <2>2. QED BY <2>1, InvParts
<1> DEFINE AllInv == PanelsInv' /\ OptionsInv' /\ EarningsInv' /\ presses' \in 0..MaxPresses
<1>t. stock \in Ticker \cup {NoTicker} /\ overlay \in Overlays
  BY DEF PanelsInv, TypeOK
<1>p. Press => presses' \in 0..MaxPresses
  BY Constants DEF Press
<1>1. ASSUME NEW t \in Ticker, OpenPanels(t) PROVE AllInv
  <2>1. stock' = t /\ overlay' \in {"info", "chart"}
    BY <1>1 DEF OpenPanels, OpenInfo, OpenChart, Opens
  <2>2. UNCHANGED optionVars /\ UNCHANGED earningsVars
    BY <1>1 DEF OpenPanels, optionVars
  <2>3. PanelsInv' BY <1>1, OpenPanelsStep DEF OpenPanels
  <2>4. OptionsInv' BY <2>1, <2>2, OptionsStay DEF Overlays
  <2>5. EarningsInv' BY <2>1, <2>2, EarningsStay
  <2>6. QED BY <1>1, <1>p, <2>3, <2>4, <2>5 DEF OpenPanels
<1>2. ASSUME NEW t \in Ticker, OpenOptions(t) PROVE AllInv
  <2>1. stock' = t /\ overlay' = "options"
    BY <1>2 DEF OpenOptions, Options!OpenOptions
  <2>2. UNCHANGED panelsOnly /\ UNCHANGED earningsVars
    BY <1>2 DEF OpenOptions, panelsOnly
  <2>3. PanelsInv' BY <2>1, <2>2, PanelsStay DEF Overlays
  <2>4. OptionsInv' BY <1>2, OpenOptionsStep DEF OpenOptions
  <2>5. EarningsInv' BY <2>1, <2>2, EarningsStay
  <2>6. QED BY <1>2, <1>p, <2>3, <2>4, <2>5 DEF OpenOptions
<1>3. ASSUME NEW t \in Ticker, OpenEarnings(t) PROVE AllInv
  <2>1. stock' = t /\ overlay' = "earnings"
    BY <1>3 DEF OpenEarnings
  <2>2. UNCHANGED panelsOnly /\ UNCHANGED optionVars
    BY <1>3 DEF OpenEarnings, panelsOnly, optionVars
  <2>3. PanelsInv' BY <2>1, <2>2, PanelsStay DEF Overlays
  <2>4. OptionsInv' BY <2>1, <2>2, OptionsStay DEF Overlays
  <2>5. EarningsInv' BY <1>3, <2>1, OpenEarningsStep DEF OpenEarnings
  <2>6. QED BY <1>3, <1>p, <2>3, <2>4, <2>5 DEF OpenEarnings
<1>4. ASSUME NEW d \in {-1, 1}, CycleExpiry(d) PROVE AllInv
  <2>1. UNCHANGED <<stock, overlay>>
    BY <1>4 DEF CycleExpiry, Options!CycleExpiry
  <2>2. UNCHANGED panelsOnly /\ UNCHANGED earningsVars
    BY <1>4 DEF CycleExpiry, panelsOnly
  <2>3. PanelsInv' BY <1>t, <2>1, <2>2, PanelsStay
  <2>4. OptionsInv' BY <1>4, CycleExpiryStep DEF CycleExpiry
  <2>5. EarningsInv' BY <2>1, <2>2, EarningsStay
  <2>6. QED BY <1>4, <1>p, <2>3, <2>4, <2>5 DEF CycleExpiry
<1>5. ASSUME Close, UNCHANGED <<optionVars, earningsVars, presses>> PROVE AllInv
  <2>1. stock' = stock /\ overlay' = "none" /\ UNCHANGED panelsOnly
    BY <1>5 DEF Close, panelsOnly
  <2>2. UNCHANGED optionVars /\ UNCHANGED earningsVars
    BY <1>5 DEF optionVars
  <2>3. PanelsInv' BY <1>t, <2>1, PanelsStay DEF Overlays
  <2>4. OptionsInv' BY <1>t, <2>1, <2>2, OptionsStay DEF Overlays
  <2>5. EarningsInv' BY <2>1, <2>2, EarningsStay
  <2>6. QED BY <1>5, <2>3, <2>4, <2>5
<1>6. CASE PanelTasks
  <2>1. PanelsInv' BY <1>6, PanelTasksStep, DeliverStep DEF PanelTasks
  <2>2. UNCHANGED <<stock, overlay>>
    BY <1>6 DEF PanelTasks, Answer, Fail, Deliver
  <2>3. UNCHANGED optionVars /\ UNCHANGED earningsVars
    BY <1>6 DEF PanelTasks, optionVars
  <2>4. OptionsInv' BY <1>t, <2>2, <2>3, OptionsStay
  <2>5. EarningsInv' BY <2>2, <2>3, EarningsStay
  <2>6. QED BY <1>6, <2>1, <2>4, <2>5 DEF PanelTasks
<1>7. CASE OptionTasks
  <2>1. OptionsInv' BY <1>7, OptionTasksStep, ChainReadyStep DEF OptionTasks
  <2>2. UNCHANGED <<stock, overlay>> /\ UNCHANGED panelsOnly /\ UNCHANGED earningsVars
    BY <1>7 DEF OptionTasks, vars, panelsOnly
  <2>3. PanelsInv' BY <1>t, <2>2, PanelsStay
  <2>4. EarningsInv' BY <2>2, EarningsStay
  <2>5. QED BY <1>7, <2>1, <2>3, <2>4 DEF OptionTasks
<1>8. CASE EarningsTasks
  <2>1. UNCHANGED <<stock, overlay>> /\ UNCHANGED panelsOnly /\ UNCHANGED optionVars
    BY <1>8 DEF EarningsTasks, vars, panelsOnly, optionVars
  <2>2. EarningsInv' BY <1>8, <2>1, EarningsTasksStep DEF EarningsTasks
  <2>3. PanelsInv' BY <1>t, <2>1, PanelsStay
  <2>4. OptionsInv' BY <1>t, <2>1, OptionsStay
  <2>5. QED BY <1>8, <2>2, <2>3, <2>4 DEF EarningsTasks
<1>9. CASE UNCHANGED modalVars
  <2>1. /\ UNCHANGED <<stock, overlay, presses>> /\ UNCHANGED panelsOnly
        /\ UNCHANGED optionVars /\ UNCHANGED earningsVars
    BY <1>9 DEF modalVars, vars, panelsOnly, optionVars
  <2>2. QED BY <1>t, <2>1, PanelsStay, OptionsStay, EarningsStay
<1>10. QED
  BY <1>1, <1>2, <1>3, <1>4, <1>5, <1>6, <1>7, <1>8, <1>9 DEF ModalNext

LEMMA InvHolds == ModalSpec => []Inv
BY InvInit, InvStep, PTL DEF ModalSpec

\* Every state of the modals is well typed, and the expiry index never points
\* past the expirations of the chain on screen, whatever chain arrives late.
THEOREM TypeCorrect == ModalSpec => []ModalTypeOK
<1>1. Inv => ModalTypeOK BY DEF Inv
<1>2. QED BY <1>1, InvHolds, PTL

\* No request is made twice at the same time, and an info panel that says it is
\* loading waits for a request that runs or for its answer (Inflight.begin).
THEOREM FetchesAreClaimedHolds == ModalSpec => []FetchesAreClaimed
<1>1. Inv => FetchesAreClaimed BY DEF Inv
<1>2. QED BY <1>1, InvHolds, PTL

-----------------------------------------------------------------------------
(***************************************************************************)
(* The calm regime                                                         *)
(***************************************************************************)
\* A step of the calm regime is a step, and a key is pressed at rest.
LEMMA CalmPress == Calm!Press => Press /\ AllAtRest
BY DEF Calm!Press, Press, Calm!AllAtRest, AllAtRest, Calm!AtRest, AtRest,
  Calm!Outstanding, Outstanding, Calm!Key, Key, Calm!Panel, Panel,
  Calm!Options!AtRest, Options!AtRest, Calm!Options!Idle, Options!Idle

LEMMA CalmOpens == ASSUME NEW t, Calm!Opens(t) PROVE Opens(t)
BY DEF Calm!Opens, Opens, Calm!AtRest, AtRest,
  Calm!Outstanding, Outstanding, Calm!Key, Key, Calm!Panel, Panel

LEMMA CalmFetch == ASSUME NEW w, Calm!Fetch(w) PROVE Fetch(w)
BY DEF Calm!Fetch, Fetch, Calm!Key, Key, Calm!Panel, Panel

LEMMA CalmMayAct == Calm!Options!MayAct => Options!MayAct
BY DEF Calm!Options!MayAct, Options!MayAct, Calm!Options!AtRest, Options!AtRest,
  Calm!Options!Idle, Options!Idle

LEMMA CalmIsStep ==
  ASSUME Calm!ModalNext PROVE ModalNext /\ (presses' # presses => AllAtRest)
<1>o. ASSUME NEW t, NEW e, Calm!Options!Fetch(t, e) PROVE Options!Fetch(t, e)
  BY <1>o DEF Calm!Options!Fetch, Options!Fetch, Calm!Options!Idle, Options!Idle
<1>v. /\ Calm!vars = vars /\ Calm!optionVars = optionVars /\ Calm!earningsVars = earningsVars
      /\ Calm!vars' = vars' /\ Calm!optionVars' = optionVars' /\ Calm!earningsVars' = earningsVars'
  BY DEF Calm!vars, vars, Calm!optionVars, optionVars, Calm!earningsVars, earningsVars
<1>1. ASSUME NEW t \in Ticker, Calm!OpenPanels(t) PROVE OpenPanels(t) /\ AllAtRest
  <2>1. Press /\ AllAtRest /\ UNCHANGED <<optionVars, earningsVars>>
    BY <1>1, <1>v, CalmPress DEF Calm!OpenPanels
  <2>2. Calm!OpenInfo(t) => OpenInfo(t)
    BY CalmOpens, CalmFetch DEF Calm!OpenInfo, OpenInfo, Calm!Panel, Panel
  <2>3. Calm!OpenChart(t) => OpenChart(t)
    BY CalmOpens, CalmFetch DEF Calm!OpenChart, OpenChart
  <2>4. QED BY <1>1, <2>1, <2>2, <2>3 DEF Calm!OpenPanels, OpenPanels
<1>2. ASSUME NEW t \in Ticker, Calm!OpenOptions(t) PROVE OpenOptions(t) /\ AllAtRest
  <2>1. Options!OpenOptions(t)
    BY <1>2, <1>o, CalmMayAct
    DEF Calm!OpenOptions, Calm!Options!OpenOptions, Options!OpenOptions,
      Calm!Options!HasChain, Options!HasChain
  <2>2. QED BY <1>2, <1>v, <2>1, CalmPress DEF Calm!OpenOptions, OpenOptions
<1>3. ASSUME NEW t \in Ticker, Calm!OpenEarnings(t) PROVE OpenEarnings(t) /\ AllAtRest
  BY <1>3, <1>v, CalmPress
  DEF Calm!OpenEarnings, OpenEarnings, Calm!Earnings!Open, Earnings!Open
<1>4. ASSUME NEW d \in {-1, 1}, Calm!CycleExpiry(d) PROVE CycleExpiry(d) /\ AllAtRest
  <2>1. Options!CycleExpiry(d)
    BY <1>4, <1>o, CalmMayAct
    DEF Calm!CycleExpiry, Calm!Options!CycleExpiry, Options!CycleExpiry,
      Calm!Options!AtMost, Options!AtMost
  <2>2. QED BY <1>4, <1>v, <2>1, CalmPress DEF Calm!CycleExpiry, CycleExpiry
<1>5. ASSUME Calm!Close, UNCHANGED <<optionVars, earningsVars, presses>>
      PROVE  Close
  BY <1>5 DEF Calm!Close, Close
<1>6. ASSUME Calm!PanelTasks PROVE PanelTasks /\ presses' = presses
  BY <1>6, <1>v DEF Calm!PanelTasks, PanelTasks, Calm!Answer, Answer, Calm!Fail, Fail,
    Calm!Deliver, Deliver, Calm!Ends, Ends, Calm!Key, Key, Calm!Panel, Panel
<1>7. ASSUME Calm!OptionTasks PROVE OptionTasks /\ presses' = presses
  BY <1>7, <1>v DEF Calm!OptionTasks, OptionTasks, Calm!Options!Answer, Options!Answer,
    Calm!Options!Fail, Options!Fail, Calm!Options!OptionChainReady,
    Options!OptionChainReady, Calm!Options!AtMost, Options!AtMost,
    Calm!Options!LastIndex, Options!LastIndex, Calm!Options!Idle, Options!Idle
<1>8. ASSUME Calm!EarningsTasks PROVE EarningsTasks /\ presses' = presses
  BY <1>8, <1>v DEF Calm!EarningsTasks, EarningsTasks, Calm!Earnings!Answer,
    Earnings!Answer, Calm!Earnings!Deliver, Earnings!Deliver
<1>9. QED
  BY <1>v, <1>1, <1>2, <1>3, <1>4, <1>5, <1>6, <1>7, <1>8 DEF Calm!ModalNext, ModalNext

LEMMA CalmInvStep ==
  ASSUME Inv, CalmInv, ModalNext, presses' # presses => AllAtRest
  PROVE  CalmInv'
<1>t. PanelsInv /\ OptionsInv /\ presses \in 0..MaxPresses
  BY InvParts
<1>r. ASSUME AllAtRest
      PROVE  /\ \A k \in Key : running[k] = 0 /\ ~Queued(k)
             /\ \A t \in Ticker : fetching[t] = Options!Idle
             /\ chains = <<>>
  <2>1. \A k \in Key : ~(running[k] > 0) /\ running[k] \in Nat
    BY <1>r, <1>t DEF AllAtRest, AtRest, Outstanding, PanelsInv, TypeOK
  <2>2. queue = <<>> BY <1>r DEF AllAtRest, AtRest
  <2>3. QED BY <1>r, <2>1, <2>2 DEF AllAtRest, Options!AtRest, Queued
<1>q. Press => AllAtRest
  BY <1>t DEF Press
<1>1. ASSUME NEW t \in Ticker, OpenPanels(t) PROVE CalmInv'
  <2>1. /\ \A k \in Key : running[k] = 0 /\ ~Queued(k)
        /\ \A u \in Ticker : fetching[u] = Options!Idle
        /\ chains = <<>> /\ UNCHANGED optionVars
    BY <1>1, <1>q, <1>r DEF OpenPanels
  <2>2. stock' = t /\ queue' = queue /\ overlay' \in {"info", "chart"}
    BY <1>1 DEF OpenPanels, OpenInfo, OpenChart, Opens
  <2>3. \A k \in Key : running'[k] > 0 => k[2] = t
    <3>1. CASE OpenInfo(t)
      <4> DEFINE wanted == {<<p, t>> : p \in {p \in InfoPanel : data[p] # t}}
      <4>1. Fetch(wanted) /\ wanted \in SUBSET Key
        BY <3>1 DEF OpenInfo, Key, Panel
      <4>2. \A k \in wanted : k[2] = t OBVIOUS
      <4> HIDE DEF wanted
      <4>3. \A k \in Key \ wanted : running'[k] = 0
        BY <1>t, <2>1, <4>1, FetchClaims DEF PanelsInv
      <4>4. QED BY <4>2, <4>3
    <3>2. CASE OpenChart(t)
      <4>1. Fetch({<<Chart, t>>}) /\ {<<Chart, t>>} \in SUBSET Key
        BY <3>2 DEF OpenChart, Key, Panel
      <4>2. \A k \in Key \ {<<Chart, t>>} : running'[k] = 0
        BY <1>t, <2>1, <4>1, FetchClaims DEF PanelsInv
      <4>3. QED BY <4>2
    <3>3. QED BY <1>1, <3>1, <3>2 DEF OpenPanels
  <2>4. PanelMatchesStock'
    BY <1>1, <2>2, Constants DEF OpenPanels, OpenInfo, OpenChart, PanelMatchesStock, Panel
  <2>5. \A k \in Key : ~Queued(k)' BY <2>1, <2>2 DEF Queued
  <2>6. QED
    BY <2>1, <2>2, <2>3, <2>4, <2>5
    DEF CalmInv, optionVars, ShowsSelectedExpiry, Options!ShowsSelectedExpiry
<1>2. ASSUME NEW t \in Ticker, OpenOptions(t) PROVE CalmInv'
  <2>1. /\ \A k \in Key : running[k] = 0 /\ ~Queued(k)
        /\ \A u \in Ticker : fetching[u] = Options!Idle
        /\ chains = <<>> /\ UNCHANGED panelsOnly /\ UNCHANGED chains
    BY <1>2, <1>q, <1>r DEF OpenOptions, panelsOnly, Options!OpenOptions
  <2>2. stock' = t /\ overlay' = "options"
    BY <1>2 DEF OpenOptions, Options!OpenOptions
  <2>3. \A k \in Key : running'[k] = 0 /\ ~Queued(k)'
    BY <2>1 DEF panelsOnly, Queued
  <2>4. CASE Options!HasChain(t)
    <3>1. chain \in Options!Chain /\ chain.ticker = t
      BY <1>t, <2>4 DEF Options!HasChain, OptionsInv, Options!TypeOK
    <3>2. chain' = [chain EXCEPT !.spot = t] /\ UNCHANGED <<selected, fetching>>
      BY <1>2, <2>4 DEF OpenOptions, Options!OpenOptions
    <3>3. chain'.ticker = t /\ chain'.spot = t /\ chain'.expiry = chain.expiry /\ chain # NoChain
      BY <3>1, <3>2, Constants DEF Options!Chain
    <3>4. QED
      BY <2>1, <2>2, <2>3, <3>2, <3>3
      DEF CalmInv, PanelMatchesStock, ShowsSelectedExpiry, Options!ShowsSelectedExpiry
  <2>5. CASE ~Options!HasChain(t)
    <3>1. chain' = NoChain /\ selected' = 0 /\ Options!Fetch(t, 0)
      BY <1>2, <2>5 DEF OpenOptions, Options!OpenOptions
    <3>2. fetching'[t] = 0 /\ \A u \in Ticker \ {t} : fetching'[u] = Options!Idle
      BY <1>t, <2>1, <3>1, OptionFetch
    <3>3. QED
      BY <2>1, <2>2, <2>3, <3>1, <3>2
      DEF CalmInv, PanelMatchesStock, ShowsSelectedExpiry, Options!ShowsSelectedExpiry
  <2>6. QED BY <2>4, <2>5
<1>3. ASSUME NEW t \in Ticker, OpenEarnings(t) PROVE CalmInv'
  <2>1. /\ \A k \in Key : running[k] = 0 /\ ~Queued(k)
        /\ \A u \in Ticker : fetching[u] = Options!Idle
        /\ chains = <<>>
        /\ UNCHANGED <<running, queue, chain, selected, fetching, chains>>
    BY <1>3, <1>q, <1>r DEF OpenEarnings, optionVars
  <2>2. stock' = t /\ overlay' = "earnings" BY <1>3 DEF OpenEarnings
  <2>3. QED
    BY <2>1, <2>2
    DEF CalmInv, Queued, PanelMatchesStock, ShowsSelectedExpiry, Options!ShowsSelectedExpiry
<1>4. ASSUME NEW d \in {-1, 1}, CycleExpiry(d) PROVE CalmInv'
  <2>1. /\ \A u \in Ticker : fetching[u] = Options!Idle
        /\ chains = <<>> /\ UNCHANGED chains
        /\ UNCHANGED <<stock, overlay, data, running, queue>>
    BY <1>4, <1>q, <1>r DEF CycleExpiry, Options!CycleExpiry
  <2>2. /\ chain \in Options!Chain /\ chain' = NoChain /\ overlay = "options"
        /\ Options!Fetch(chain.ticker, selected')
    BY <1>t, <1>4, CycleExpiryStep DEF CycleExpiry
  <2>3. chain.ticker \in Ticker /\ chain.ticker = stock
    BY <2>2, Constants DEF CalmInv, Options!Chain
  <2>4. /\ fetching'[stock] = selected'
        /\ \A u \in Ticker \ {stock} : fetching'[u] = Options!Idle
    BY <1>t, <2>1, <2>2, <2>3 DEF Options!Fetch, OptionsInv
  <2>5. QED
    BY <2>1, <2>2, <2>4
    DEF CalmInv, Queued, PanelMatchesStock, ShowsSelectedExpiry, Options!ShowsSelectedExpiry
<1>5. ASSUME Close, UNCHANGED <<optionVars, earningsVars, presses>> PROVE CalmInv'
  BY <1>5 DEF Close, optionVars, CalmInv, Queued, PanelMatchesStock, ShowsSelectedExpiry,
    Options!ShowsSelectedExpiry
<1>6. CASE PanelTasks
  <2>1. UNCHANGED optionVars /\ UNCHANGED <<stock, overlay>>
    BY <1>6 DEF PanelTasks, Answer, Fail, Deliver
  <2>2. \A k \in Key : running'[k] > 0 \/ Queued(k)' => running[k] > 0 \/ Queued(k)
    <3>1. ASSUME NEW k \in Key, Answer(k)
          PROVE  \A j \in Key : running'[j] > 0 \/ Queued(j)' => running[j] > 0 \/ Queued(j)
      <4>1. running[k] > 0 /\ running' = [running EXCEPT ![k] = @ - 1] /\ queue' = Append(queue, k)
        BY <3>1 DEF Answer, Ends
      <4>2. \A j : Queued(j)' <=> Queued(j) \/ j = k
        <5>1. queue \in Seq(Key) BY <1>t DEF PanelsInv, TypeOK
        <5>2. QED BY <4>1, <5>1, AppendHolds DEF Queued, Holds
      <4>3. QED BY <1>t, <4>1, <4>2 DEF PanelsInv, TypeOK
    <3>2. ASSUME NEW k \in Key, Fail(k)
          PROVE  \A j \in Key : running'[j] > 0 \/ Queued(j)' => running[j] > 0 \/ Queued(j)
      BY <1>t, <3>2 DEF Fail, Ends, Queued, PanelsInv, TypeOK
    <3>3. CASE Deliver
      BY <1>t, <3>3, TailHolds DEF Deliver, Queued, Holds, PanelsInv, TypeOK
    <3>4. QED BY <1>6, <3>1, <3>2, <3>3 DEF PanelTasks
  <2>3. PanelMatchesStock'
    <3>1. CASE Deliver
      <4>1. Head(queue) \in Key /\ Queued(Head(queue))
        BY <1>t, <3>1, TailHolds DEF Deliver, Queued, Holds, PanelsInv, TypeOK
      <4>2. data' = [data EXCEPT ![Head(queue)[1]] = stock]
        BY <3>1, <4>1 DEF Deliver, CalmInv
      <4>3. QED
        BY <1>t, <2>1, <4>2 DEF CalmInv, PanelMatchesStock, PanelsInv, TypeOK, Panel
    <3>2. CASE ~Deliver
      BY <1>6, <2>1, <3>2 DEF PanelTasks, Answer, Fail, CalmInv, PanelMatchesStock
    <3>3. QED BY <3>1, <3>2
  <2>4. QED
    BY <2>1, <2>2, <2>3
    DEF CalmInv, optionVars, ShowsSelectedExpiry, Options!ShowsSelectedExpiry
<1>7. CASE OptionTasks
  <2>1. UNCHANGED <<stock, overlay, data, running, queue>>
    BY <1>7 DEF OptionTasks, vars
  <2>2. ASSUME NEW t \in Ticker, Options!Answer(t) PROVE CalmInv'
    <3> DEFINE r == [ticker |-> t, expiry |-> fetching[t]]
    <3>1. /\ t = stock /\ fetching[t] = selected /\ chains' = Append(chains, r)
          /\ fetching' = [fetching EXCEPT ![t] = Options!Idle]
          /\ UNCHANGED <<chain, selected>>
      BY <2>2 DEF Options!Answer, CalmInv
    <3>2. chains \in Seq(Options!Reply) /\ r \in Options!Reply
      BY <1>t, <2>2 DEF Options!Answer, OptionsInv, Options!TypeOK
    <3>3. r.ticker = stock /\ r.expiry = selected BY <3>1
    <3> HIDE DEF r
    <3>4. \A i \in DOMAIN chains' : chains'[i] = r \/ \E j \in DOMAIN chains : chains[j] = chains'[i]
      BY <3>1, <3>2, AppendHolds DEF Holds
    <3>5. \A i \in DOMAIN chains' : chains'[i].ticker = stock /\ chains'[i].expiry = selected
      BY <3>3, <3>4 DEF CalmInv
    <3>6. QED
      BY <1>t, <2>1, <3>1, <3>5
      DEF CalmInv, OptionsInv, Queued, PanelMatchesStock, ShowsSelectedExpiry,
        Options!ShowsSelectedExpiry
  <2>3. ASSUME NEW t \in Ticker, Options!Fail(t) PROVE CalmInv'
    BY <1>t, <2>1, <2>3
    DEF Options!Fail, CalmInv, OptionsInv, Queued, PanelMatchesStock, ShowsSelectedExpiry,
      Options!ShowsSelectedExpiry
  <2>4. CASE Options!OptionChainReady
    <3> DEFINE r == Head(chains)
    <3>1. /\ chains # <<>> /\ chains' = Tail(chains)
          /\ chain' = [ticker |-> r.ticker, expiry |-> r.expiry, spot |-> stock]
          /\ selected' = Options!AtMost(selected, Options!LastIndex(Expirations[r.ticker]))
          /\ UNCHANGED fetching
      BY <2>4 DEF Options!OptionChainReady
    <3>2. chains \in Seq(Options!Reply) BY <1>t DEF OptionsInv, Options!TypeOK
    <3>3. r \in Options!Reply /\ Holds(chains, r) /\ \A x : Holds(Tail(chains), x) => Holds(chains, x)
      BY <3>1, <3>2, TailHolds
    <3> HIDE DEF r
    <3>4. r.ticker = stock /\ r.expiry = selected BY <3>3 DEF Holds, CalmInv
    <3>5. selected' = selected
      <4>1. Expirations[r.ticker] \in Nat /\ r.expiry \in Nat
            /\ (r.expiry = 0 \/ r.expiry < Expirations[r.ticker])
        BY <3>3, Constants DEF Options!Reply
      <4>2. QED BY <3>1, <3>4, <4>1 DEF Options!AtMost, Options!LastIndex
    <3>6. \A i \in DOMAIN chains' : chains'[i].ticker = stock /\ chains'[i].expiry = selected
      BY <3>1, <3>3 DEF Holds, CalmInv
    <3>7. QED
      BY <2>1, <3>1, <3>4, <3>5, <3>6
      DEF CalmInv, Queued, PanelMatchesStock, ShowsSelectedExpiry, Options!ShowsSelectedExpiry
  <2>5. QED BY <1>7, <2>2, <2>3, <2>4 DEF OptionTasks
<1>8. CASE EarningsTasks
  BY <1>8 DEF EarningsTasks, vars, optionVars, CalmInv, Queued, PanelMatchesStock,
    ShowsSelectedExpiry, Options!ShowsSelectedExpiry
<1>9. QED
  BY <1>1, <1>2, <1>3, <1>4, <1>5, <1>6, <1>7, <1>8 DEF ModalNext

\* In either regime the earnings modal shows the figures of the selected stock;
\* in the calm one the info modal and the options modal show that stock and the
\* selected expiry too.
THEOREM ShownIsSelectedHolds == MCSpec => []ShownIsSelected
<1> DEFINE I == Inv /\ (regime = "calm" => CalmInv)
<1>1. MCInit => I
  BY InvInit DEF MCInit, ModalInit, Init, Options!Init, CalmInv, Queued, PanelMatchesStock,
    ShowsSelectedExpiry, Options!ShowsSelectedExpiry
<1>2. I /\ [MCNext]_<<modalVars, regime>> => I'
  <2> SUFFICES ASSUME I, [MCNext]_<<modalVars, regime>> PROVE I'
    OBVIOUS
  <2>1. CASE regime = "free" /\ ModalNext /\ UNCHANGED regime
    BY <2>1, InvStep
  <2>2. CASE regime = "calm" /\ Calm!ModalNext /\ UNCHANGED regime
    BY <2>2, InvStep, CalmIsStep, CalmInvStep
  <2>3. CASE UNCHANGED <<modalVars, regime>>
    <3>1. CalmInv => CalmInv'
      BY <2>3 DEF modalVars, vars, optionVars, CalmInv, Queued, PanelMatchesStock,
        ShowsSelectedExpiry, Options!ShowsSelectedExpiry
    <3>2. QED BY <2>3, <3>1, InvStep
  <2>4. QED BY <2>1, <2>2, <2>3 DEF MCNext
<1>3. I => ShownIsSelected
  BY DEF Inv, CalmInv, ShownIsSelected, PricedByUnderlying, Options!PricedByUnderlying
<1>4. QED BY <1>1, <1>2, <1>3, PTL DEF MCSpec
=============================================================================
