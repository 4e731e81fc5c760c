------------------------------ MODULE Holdings ------------------------------
(***************************************************************************)
(* The holdings on the Manage page: the list in memory, the                *)
(* portfolio_holdings table, the tasks between them, and the page's cursor *)
(* and entry line.                                                         *)
(*                                                                         *)
(* An entry or a deletion changes memory at once and spawns a task that    *)
(* writes the table, whether that works or not reads the whole table       *)
(* again, and sends the list that replaces memory.  Tasks are in no order. *)
(* A lot stands for the shares and the average cost of a holding.          *)
(***************************************************************************)
EXTENDS Integers, FiniteSets, Sequences, SequencesExt, Bags

CONSTANTS
  Ticker,      \* the tickers, as numbers in the order of their names
  Lot,         \* what may be held of a ticker
  None,        \* no lot: the table has no row for the ticker
  MaxEdits,    \* bound on the entries and deletions of one session
  MaxAlerts,   \* bound on the length of the alerts section
  MaxSessions, \* bound on the starts of the program
  Overlapping  \* whether the user edits before earlier edits have settled

ASSUME HoldingsAssumption ==
  /\ Ticker \subseteq Nat /\ IsFiniteSet(Ticker) /\ None \notin Lot
  /\ {MaxEdits, MaxAlerts} \subseteq Nat /\ MaxSessions \in Nat \ {0}
  /\ Overlapping \in BOOLEAN

VARIABLES
  holdings,  \* App.holdings
  rows,      \* the portfolio_holdings table: a lot or None for each ticker
  writing,   \* bag of tasks that have not written
  listing,   \* tasks that read the table next, the startup load among them
  answers,   \* bag of PortfolioLoaded events on their way
  section,   \* manage.section
  selected,  \* manage.selected
  input,     \* manage.input: "none" or the kind of entry being typed
  nalerts,   \* App.alerts.len()
  edits,     \* edits made in this session
  session    \* starts of the program

vars == <<holdings, rows, writing, listing, answers, section, selected,
          input, nalerts, edits, session>>

Holding == [ticker : Ticker, lot : Lot]

\* A task: an upsert of a lot, or a removal when there is none.
Task == [ticker : Ticker, lot : Lot \cup {None}]

\* What a list of holdings says of each ticker.
Book(list) == [t \in Ticker |->
  IF \E i \in DOMAIN list : list[i].ticker = t
  THEN (CHOOSE h \in ToSet(list) : h.ticker = t).lot ELSE None]

\* list_holdings: the rows in the order of their tickers.
Held(table) == {t \in Ticker : table[t] # None}
Ascending(T) == CHOOSE s \in [1..Cardinality(T) -> T] :
                  \A i, j \in DOMAIN s : i < j => s[i] < s[j]
Listed(table) ==
  LET order == Ascending(Held(table))
  IN  [i \in DOMAIN order |-> [ticker |-> order[i], lot |-> table[order[i]]]]

\* ManageSection::item_count.
ItemCount(sec) == IF sec = "holdings" THEN Len(holdings) ELSE nalerts

\* No task and no event is outstanding.
Quiet == writing = EmptyBag /\ listing = 0 /\ answers = EmptyBag

MayEdit == edits < MaxEdits /\ (Overlapping \/ Quiet)

\* App::new and the spawn_load_portfolio of run.
StartSession ==
  /\ holdings' = <<>>
  /\ writing' = EmptyBag /\ listing' = 1 /\ answers' = EmptyBag
  /\ section' = "holdings" /\ selected' = 0 /\ input' = "none"
  /\ nalerts' = 0 /\ edits' = 0

Init ==
  /\ rows \in [Ticker -> Lot \cup {None}]
  /\ holdings = <<>>
  /\ writing = EmptyBag /\ listing = 1 /\ answers = EmptyBag
  /\ section = "holdings" /\ selected = 0 /\ input = "none"
  /\ nalerts = 0 /\ edits = 0 /\ session = 1

-----------------------------------------------------------------------------
(***************************************************************************)
(* The cursor                                                              *)
(***************************************************************************)
Typing == input # "none"

\* manage_move(1): past the last holding the cursor goes to the alerts.
MoveDown ==
  /\ ~Typing
  /\ IF selected + 1 < ItemCount(section)
     THEN selected' = selected + 1 /\ UNCHANGED section
     ELSE IF section = "holdings"
          THEN section' = "alerts" /\ selected' = 0
          ELSE UNCHANGED <<section, selected>>
  /\ UNCHANGED <<holdings, rows, writing, listing, answers, input, nalerts, edits, session>>

\* manage_move(-1): above the first alert the cursor goes to the last holding.
MoveUp ==
  /\ ~Typing
  /\ IF selected > 0
     THEN selected' = selected - 1 /\ UNCHANGED section
     ELSE IF section = "alerts"
          THEN section' = "holdings" /\ selected' = Max({0, Len(holdings) - 1})
          ELSE UNCHANGED <<section, selected>>
  /\ UNCHANGED <<holdings, rows, writing, listing, answers, input, nalerts, edits, session>>

\* clamp_manage_selected, for a section of n items.
Clamped(n) == IF selected >= n THEN Max({0, n - 1}) ELSE selected

-----------------------------------------------------------------------------
(***************************************************************************)
(* Entry line and deletion                                                 *)
(***************************************************************************)
\* `a`: start_manage_add, an empty line for the section of the cursor.
StartAdd ==
  /\ ~Typing
  /\ input' = IF section = "holdings" THEN "holding" ELSE "alert"
  /\ UNCHANGED <<holdings, rows, writing, listing, answers, section, selected,
                 nalerts, edits, session>>

\* `e`: start_manage_edit, a line filled from the holding under the cursor.
StartEdit ==
  /\ ~Typing
  /\ section = "holdings" /\ selected < Len(holdings)
  /\ input' = "holding"
  /\ UNCHANGED <<holdings, rows, writing, listing, answers, section, selected,
                 nalerts, edits, session>>

\* Esc closes the line.  (Enter on an entry that does not parse keeps it.)
CancelEntry ==
  /\ Typing
  /\ input' = "none"
  /\ UNCHANGED <<holdings, rows, writing, listing, answers, section, selected,
                 nalerts, edits, session>>

\* Mutant of Upserted: an edit is appended like a new holding.
Upserted_Appends(list, h) == Append(list, h)

\* upsert_holding_in_memory.
Upserted(list, h) ==
  IF \E i \in DOMAIN list : list[i].ticker = h.ticker
  THEN [i \in DOMAIN list |-> IF list[i].ticker = h.ticker THEN h ELSE list[i]]
  ELSE Append(list, h)

\* Enter on a holding that parses: memory, then a task.
SubmitHolding(h) ==
  /\ input = "holding" /\ MayEdit
  /\ holdings' = Upserted(holdings, h)
  /\ writing' = writing (+) SetToBag({h})
  /\ edits' = edits + 1
  /\ input' = "none"
  /\ UNCHANGED <<rows, listing, answers, section, selected, nalerts, session>>

\* Enter on an alert that parses; what becomes of it is the module Alerts.
SubmitAlert ==
  /\ input = "alert"
  /\ nalerts < MaxAlerts
  /\ nalerts' = nalerts + 1
  /\ input' = "none"
  /\ UNCHANGED <<holdings, rows, writing, listing, answers, section, selected,
                 edits, session>>

\* `d` on a holding.
DeleteHolding ==
  /\ ~Typing /\ MayEdit
  /\ section = "holdings" /\ selected < Len(holdings)
  /\ holdings' = RemoveAt(holdings, selected + 1)
  /\ writing' = writing (+) SetToBag({[ticker |-> holdings[selected + 1].ticker, lot |-> None]})
  /\ selected' = Clamped(Len(holdings) - 1)
  /\ edits' = edits + 1
  /\ UNCHANGED <<rows, listing, answers, section, input, nalerts, session>>

\* `d` on an alert.
DeleteAlert ==
  /\ ~Typing
  /\ section = "alerts" /\ selected < nalerts
  /\ nalerts' = nalerts - 1
  /\ selected' = Clamped(nalerts - 1)
  /\ UNCHANGED <<holdings, rows, writing, listing, answers, section, input, edits, session>>

\* Alerts fire or are loaded: the section's length changes, the cursor stays.
AlertsChange ==
  /\ nalerts' \in 0..MaxAlerts
  /\ nalerts' # nalerts
  /\ UNCHANGED <<holdings, rows, writing, listing, answers, section, selected,
                 input, edits, session>>

-----------------------------------------------------------------------------
(***************************************************************************)
(* Tasks                                                                   *)
(***************************************************************************)
\* upsert_holding or remove_holding runs.
Write(k) ==
  /\ BagIn(k, writing)
  /\ writing' = writing (-) SetToBag({k})
  /\ listing' = listing + 1
  /\ rows' = [rows EXCEPT ![k.ticker] = k.lot]
  /\ UNCHANGED <<holdings, answers, section, selected, input, nalerts, edits, session>>

\* It fails: an error is sent, and the table is read again all the same.
WriteFails(k) ==
  /\ BagIn(k, writing)
  /\ writing' = writing (-) SetToBag({k})
  /\ listing' = listing + 1
  /\ UNCHANGED <<holdings, rows, answers, section, selected, input, nalerts, edits, session>>

\* reload_portfolio, or the startup load, reads the table and sends the list.
List ==
  /\ listing > 0
  /\ listing' = listing - 1
  /\ answers' = answers (+) SetToBag({Listed(rows)})
  /\ UNCHANGED <<holdings, rows, writing, section, selected, input, nalerts, edits, session>>

\* The query fails: an error is sent instead.
ListFails ==
  /\ Overlapping
  /\ listing > 0
  /\ listing' = listing - 1
  /\ UNCHANGED <<holdings, rows, writing, answers, section, selected, input, nalerts,
                 edits, session>>

\* Mutant of PortfolioLoaded: an empty list is taken for a failed load.
PortfolioLoaded_KeepsOnEmpty(list) ==
  /\ BagIn(list, answers)
  /\ answers' = answers (-) SetToBag({list})
  /\ holdings' = IF list = <<>> THEN holdings ELSE list
  /\ UNCHANGED <<rows, writing, listing, section, selected, input, nalerts, edits, session>>

\* PortfolioLoaded: the list replaces memory; the cursor stays where it is.
PortfolioLoaded(list) ==
  /\ BagIn(list, answers)
  /\ answers' = answers (-) SetToBag({list})
  /\ holdings' = list
  /\ UNCHANGED <<rows, writing, listing, section, selected, input, nalerts, edits, session>>

\* The program ends, by `q` or by a crash, and starts again: tasks that have
\* not run are gone.
Restart ==
  /\ session < MaxSessions
  /\ session' = session + 1
  /\ StartSession
  /\ UNCHANGED rows

-----------------------------------------------------------------------------
User ==
  \/ MoveDown \/ MoveUp
  \/ StartAdd \/ StartEdit \/ CancelEntry
  \/ \E h \in Holding : SubmitHolding(h)
  \/ SubmitAlert \/ DeleteHolding \/ DeleteAlert

Tasks ==
  \/ \E k \in BagToSet(writing) : Write(k) \/ WriteFails(k)
  \/ List \/ ListFails

Deliver == \E list \in BagToSet(answers) : PortfolioLoaded(list)

Next == User \/ AlertsChange \/ Tasks \/ Deliver \/ Restart

Fairness == WF_vars(Tasks) /\ WF_vars(Deliver)

Spec == Init /\ [][Next]_vars /\ Fairness

-----------------------------------------------------------------------------
(***************************************************************************)
(* Properties                                                              *)
(***************************************************************************)
\* Types, and that memory never lists a ticker twice, however entries and
\* reloads interleave (upsert_holding_in_memory, the table's primary key).
TypeOK ==
  /\ holdings \in Seq(Holding)
  /\ \A i, j \in DOMAIN holdings : holdings[i].ticker = holdings[j].ticker => i = j
  /\ rows \in [Ticker -> Lot \cup {None}]
  /\ IsABag(writing) /\ BagToSet(writing) \subseteq Task
  /\ listing \in 0..(MaxEdits + 1)
  /\ IsABag(answers) /\ BagToSet(answers) \subseteq Seq(Holding)
  /\ section \in {"holdings", "alerts"}
  /\ selected \in Nat
  /\ input \in {"none", "holding", "alert"}
  /\ nalerts \in 0..MaxAlerts
  /\ edits \in 0..MaxEdits /\ session \in 1..MaxSessions

\* Once everything is delivered, memory shows what the table holds: what the
\* reload after every write is for (tasks.rs, spawn_upsert_holding).
MemoryIsTable == Quiet => Book(holdings) = rows
=============================================================================
