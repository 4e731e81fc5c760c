------------------------------- MODULE Alerts -------------------------------
(***************************************************************************)
(* Price alerts: the list the event loop keeps in memory (App.alerts), the *)
(* alerts table behind it, and the spawned tasks that carry writes to the  *)
(* table and fresh lists back.                                             *)
(*                                                                         *)
(* The loop is one thread and its handlers are atomic, but every database  *)
(* call runs in a task of its own: tasks are not ordered among themselves, *)
(* and the list a task has read may wait while other tasks and handlers    *)
(* run.  An alert the user has just entered is in memory with id 0 until a *)
(* reload brings its row.                                                  *)
(***************************************************************************)
EXTENDS Integers, FiniteSets

CONSTANTS
  Alert,        \* the alerts a user may enter, each at most once
  TickerOf,     \* the ticker an alert watches
  AboveAlerts,  \* the alerts whose direction is Above; the others are Below
  ThresholdOf,  \* the threshold of an alert
  Ticker,       \* the tickers the stream ticks
  Price,        \* the prices of those ticks
  Faults,       \* which of "db_error" and "restart" may happen
  Overlapping,  \* whether handlers may run while a task is in flight
  MaxFires,     \* bound on the times one alert fires
  MaxReloads    \* bound on the lists waiting at one stage

ASSUME AlertAssumption ==
  /\ TickerOf \in [Alert -> Ticker]
  /\ AboveAlerts \subseteq Alert
  /\ ThresholdOf \in [Alert -> Int]
  /\ Price \subseteq Int
  /\ Faults \subseteq {"db_error", "restart"}
  /\ Overlapping \in BOOLEAN
  /\ MaxFires \in Nat
  /\ MaxReloads \in Nat

VARIABLES
  row,         \* the alerts table: what became of each alert's row
  listed,      \* App.alerts, the entries that carry their row's id
  optimistic,  \* App.alerts, the entries pushed with id 0
  adding,      \* spawn_add_alert tasks that have not reached the table
  removing,    \* how many spawn_remove_alert tasks have not, per alert
  marking,     \* how many spawn_mark_alert_triggered tasks have not
  listing,     \* how many tasks are about to run list_alerts
  lists,       \* results of list_alerts on their way to the loop, counted
  submitted,   \* history: the alerts entered in this or an earlier session
  fires,       \* history: how many times each alert has popped its toast
  unlisted,    \* history: the alerts that fired while their id was 0
  failed       \* history: the alerts with a write that failed or was cut off

table   == <<row>>
memory  == <<listed, optimistic>>
tasks   == <<adding, removing, marking, listing, lists>>
history == <<submitted, fires, unlisted, failed>>
vars    == <<row, listed, optimistic, adding, removing, marking, listing,
             lists, submitted, fires, unlisted, failed>>

RowState == {"absent", "active", "triggered", "deleted"}

(***************************************************************************)
(* Helpers                                                                 *)
(***************************************************************************)

\* models/alerts.rs crosses
Crosses(a, price) ==
  IF a \in AboveAlerts THEN price >= ThresholdOf[a] ELSE price <= ThresholdOf[a]

\* The entries of App.alerts that a tick fires.
Hits(ticker, price) ==
  {a \in listed \cup optimistic : TickerOf[a] = ticker /\ Crosses(a, price)}

\* Mutant of ActiveRows: the query forgets triggered_at IS NULL.
ActiveRows_WithTriggered == {a \in Alert : row[a] \in {"active", "triggered"}}

\* db/alerts.rs list_alerts: the rows whose triggered_at IS NULL.
ActiveRows == {a \in Alert : row[a] = "active"}

NoTask  == [a \in Alert |-> 0]
NoLists == [s \in SUBSET Alert |-> 0]

\* No spawned task is running and no list is waiting for the loop.
Quiet == adding = {} /\ removing = NoTask /\ marking = NoTask
         /\ listing = 0 /\ lists = NoLists

\* When Overlapping is FALSE the user and the stream wait for the tasks.
MayHandle == Overlapping \/ Quiet

\* Mutant of Write: the error of a failed write is dropped.
Write_SilentFailure(a, effect) ==
  /\ row' \in {row, [row EXCEPT ![a] = effect]}
  /\ failed' = failed

(***************************************************************************)
(* A write reaches the table, or fails before it does, or takes effect but *)
(* loses its reply; the last two are reported to the user as an error.     *)
(***************************************************************************)
Write(a, effect) ==
  \/ /\ row' = [row EXCEPT ![a] = effect]
     /\ failed' = failed
  \/ /\ "db_error" \in Faults
     /\ row' \in {row, [row EXCEPT ![a] = effect]}
     /\ failed' = failed \cup {a}

-----------------------------------------------------------------------------
Init ==
  /\ row \in [Alert -> {"absent", "active"}]
  /\ listed = {} /\ optimistic = {}
  /\ adding = {} /\ removing = NoTask /\ marking = NoTask
  /\ listing = 1 /\ lists = NoLists
  /\ submitted = ActiveRows
  /\ fires = NoTask
  /\ unlisted = {}
  /\ failed = {}

(***************************************************************************)
(* Handlers of the event loop                                              *)
(***************************************************************************)

\* submit_manage_input: the entry goes into memory at once, with id 0.
Submit(a) ==
  /\ MayHandle
  /\ a \notin submitted
  /\ optimistic' = optimistic \cup {a}
  /\ adding' = adding \cup {a}
  /\ submitted' = submitted \cup {a}
  /\ UNCHANGED <<row, listed, removing, marking, listing, lists, fires,
                 unlisted, failed>>

\* delete_selected_manage on an entry that has its id.
Delete(a) ==
  /\ MayHandle
  /\ a \in listed
  /\ removing[a] < MaxReloads
  /\ listed' = listed \ {a}
  /\ removing' = [removing EXCEPT ![a] = @ + 1]
  /\ UNCHANGED <<row, optimistic, adding, marking, listing, lists, history>>

\* delete_selected_manage on an entry whose id is still 0: remove_alert(0)
\* deletes no row, and the task goes on to reload the list.
DeleteUnlisted(a) ==
  /\ MayHandle
  /\ a \in optimistic
  /\ listing < MaxReloads
  /\ optimistic' = optimistic \ {a}
  /\ listing' = listing + 1
  /\ UNCHANGED <<row, listed, adding, removing, marking, lists, history>>

\* One toast per hit; the entries gone leave the list, and for those marked a
\* task is spawned that will record the trigger.
Fire(hit, gone, marked) ==
  /\ MayHandle
  /\ hit # {}
  /\ \A a \in hit : fires[a] < MaxFires
  /\ listed' = listed \ gone
  /\ optimistic' = optimistic \ gone
  /\ marking' = [a \in Alert |-> marking[a] + (IF a \in marked THEN 1 ELSE 0)]
  /\ fires' = [a \in Alert |-> fires[a] + (IF a \in hit THEN 1 ELSE 0)]
  /\ unlisted' = unlisted \cup (hit \cap optimistic)
  /\ UNCHANGED <<row, adding, removing, listing, lists, submitted, failed>>

\* Mutants of Tick: the hits are never marked; every alert on the ticker is.
Tick_NoMark(ticker, price) ==
  LET hit == Hits(ticker, price) IN Fire(hit, hit, {})
Tick_MarksTicker(ticker, price) ==
  LET hit == Hits(ticker, price)
  IN  Fire(hit, hit, {a \in listed : TickerOf[a] = ticker})

\* evaluate_alerts: the hits leave the list, pop a toast and spawn
\* mark_alert_triggered(id); for id 0 that updates no row.
Tick(ticker, price) ==
  LET hit == Hits(ticker, price) IN Fire(hit, hit, hit \cap listed)

\* AppEvent::AlertsLoaded replaces the whole list, whatever it holds by now.
AlertsLoaded(s) ==
  /\ lists[s] > 0
  /\ lists' = [lists EXCEPT ![s] = @ - 1]
  /\ listed' = s
  /\ optimistic' = {}
  /\ UNCHANGED <<row, adding, removing, marking, listing, history>>

(***************************************************************************)
(* Steps of the spawned tasks                                              *)
(***************************************************************************)

\* Mutant of AddAlert: no reload follows the insert.
AddAlert_NoReload(a) ==
  /\ a \in adding
  /\ Write(a, "active")
  /\ adding' = adding \ {a}
  /\ UNCHANGED <<memory, removing, marking, listing, lists, submitted, fires,
                 unlisted>>

\* spawn_add_alert: insert, then reload whether or not the insert succeeded.
AddAlert(a) ==
  /\ a \in adding
  /\ listing < MaxReloads
  /\ Write(a, "active")
  /\ adding' = adding \ {a}
  /\ listing' = listing + 1
  /\ UNCHANGED <<memory, removing, marking, lists, submitted, fires, unlisted>>

\* spawn_remove_alert: delete, then reload whether or not it succeeded.
RemoveAlert(a) ==
  /\ removing[a] > 0
  /\ listing < MaxReloads
  /\ Write(a, "deleted")
  /\ removing' = [removing EXCEPT ![a] = @ - 1]
  /\ listing' = listing + 1
  /\ UNCHANGED <<memory, adding, marking, lists, submitted, fires, unlisted>>

\* A marking task that leaves the row as given.
Mark(a, marked) ==
  /\ Write(a, marked)
  /\ marking' = [marking EXCEPT ![a] = @ - 1]
  /\ UNCHANGED <<memory, adding, removing, listing, lists, submitted, fires,
                 unlisted>>

\* Mutants of MarkTriggered: the UPDATE matches no row; a finished task runs
\* once more.
MarkTriggered_NoRow(a) == marking[a] > 0 /\ Mark(a, row[a])
MarkTriggered_Again(a) == marking[a] >= 0 /\ Mark(a, row[a])

\* spawn_mark_alert_triggered: an UPDATE that finds no row if it was deleted.
MarkTriggered(a) ==
  /\ marking[a] > 0
  /\ Mark(a, IF row[a] = "deleted" THEN "deleted" ELSE "triggered")

\* reload_alerts and spawn_load_alerts: list_alerts reads the table now, and
\* the result joins the events on their way to the loop; a failed query sends
\* only an error.
ListAlerts ==
  /\ listing > 0
  /\ listing' = listing - 1
  /\ \/ /\ lists[ActiveRows] < MaxReloads
        /\ lists' = [lists EXCEPT ![ActiveRows] = @ + 1]
     \/ /\ "db_error" \in Faults
        /\ UNCHANGED lists
  /\ UNCHANGED <<row, memory, adding, removing, marking, history>>

\* The user quits and starts again: memory and tasks are gone, the table
\* stays, and App::new is followed by spawn_load_alerts.
Restart ==
  /\ "restart" \in Faults
  /\ MayHandle
  /\ listed' = {} /\ optimistic' = {}
  /\ adding' = {} /\ removing' = NoTask /\ marking' = NoTask
  /\ listing' = 1 /\ lists' = NoLists
  /\ failed' = failed \cup adding
                 \cup {a \in Alert : removing[a] > 0 \/ marking[a] > 0}
  /\ UNCHANGED <<row, submitted, fires, unlisted>>

-----------------------------------------------------------------------------
TaskStep ==
  \/ \E a \in Alert : AddAlert(a) \/ RemoveAlert(a) \/ MarkTriggered(a)
  \/ ListAlerts
  \/ \E s \in SUBSET Alert : AlertsLoaded(s)

Next ==
  \/ \E a \in Alert : Submit(a) \/ Delete(a) \/ DeleteUnlisted(a)
  \/ \E t \in Ticker, p \in Price : Tick(t, p)
  \/ TaskStep
  \/ Restart

\* The runtime polls every ready task and the loop drains its channel.
Fairness ==
  /\ \A a \in Alert : WF_vars(AddAlert(a)) /\ WF_vars(RemoveAlert(a))
                      /\ WF_vars(MarkTriggered(a))
  /\ WF_vars(ListAlerts)
  /\ \A s \in SUBSET Alert : WF_vars(AlertsLoaded(s))

Spec == Init /\ [][Next]_vars
FairSpec == Spec /\ Fairness

-----------------------------------------------------------------------------
(***************************************************************************)
(* Properties                                                              *)
(***************************************************************************)

\* Type invariant of the table, the memory, the tasks and the histories.
TypeOK ==
  /\ row \in [Alert -> RowState]
  /\ listed \subseteq Alert /\ optimistic \subseteq Alert
  /\ adding \subseteq Alert
  /\ removing \in [Alert -> Nat] /\ marking \in [Alert -> Nat]
  /\ listing \in Nat
  /\ lists \in [SUBSET Alert -> Nat]
  /\ submitted \subseteq Alert
  /\ fires \in [Alert -> Nat]
  /\ unlisted \subseteq Alert
  /\ failed \subseteq Alert

\* An alert that has popped its toast is retired in the table, or its write is
\* still on the way, or that write failed; the one exception is an alert that
\* fired before its reload brought its id (evaluate_alerts marks id 0).
FiredIsRecorded ==
  \A a \in Alert : fires[a] > 0 =>
    \/ row[a] \in {"triggered", "deleted"}
    \/ marking[a] > 0
    \/ a \in failed \cup unlisted

\* No row is marked triggered without the user having seen the toast, whatever
\* lists were delivered in between.
NoSilentTrigger ==
  \A a \in Alert : row[a] = "triggered" => fires[a] > 0

\* An alert the user entered is never lost between the optimistic entry that a
\* stale reload may wipe and the row its task inserts, unless a write failed.
NothingLost ==
  \A a \in submitted \ failed : a \in adding \/ row[a] # "absent"

\* The inductive invariant behind these three: an id is known to memory, a list
\* or a task only once its row exists, an insert runs once per alert, and only
\* alerts that fired are being marked.
IdsNameRows ==
  \A a \in Alert : row[a] = "absent" =>
    /\ a \notin listed
    /\ removing[a] = 0 /\ marking[a] = 0
    /\ \A s \in SUBSET Alert : lists[s] > 0 => a \notin s

InsertsAreFresh ==
  /\ adding \subseteq submitted
  /\ \A a \in adding : row[a] = "absent"
  /\ \A a \in Alert : row[a] # "absent" => a \in submitted

MarksFollowFires == \A a \in Alert : marking[a] > 0 => fires[a] > 0

Accounting ==
  /\ TypeOK
  /\ IdsNameRows
  /\ InsertsAreFresh
  /\ MarksFollowFires
  /\ FiredIsRecorded
  /\ NoSilentTrigger
  /\ NothingLost

\* An alert is retired once its row is triggered or deleted and neither memory
\* nor any list on its way to the loop still holds it.
Retired(a) ==
  /\ row[a] \in {"triggered", "deleted"}
  /\ a \notin listed \cup optimistic
  /\ \A s \in SUBSET Alert : lists[s] > 0 => a \notin s

\* Retirement is for good: a retired alert never fires again and nothing brings
\* it back, because list_alerts leaves triggered rows out.
RetiredStaysQuiet ==
  [][\A a \in Alert : Retired(a) => Retired(a)' /\ fires'[a] = fires[a]]_vars

\* An alert fires at most once, over all sessions.
FiresOnce == \A a \in Alert : fires[a] <= 1

\* At rest the list in memory is exactly the active rows.
AtRestListIsTable ==
  Quiet /\ failed = {} => listed = ActiveRows /\ optimistic = {}

\* A toast for an alert that had its id ends in the table, or in a failure the
\* user is told of.
FireReachesTable ==
  \A a \in Alert :
    (fires[a] > 0 /\ a \notin unlisted) ~> (row[a] # "active" \/ a \in failed)

(***************************************************************************)
(* Refinement of AlertLifecycle: an alert is armed while its row is active *)
(* or still being inserted and no task is about to retire it.              *)
(***************************************************************************)
Armed ==
  {a \in Alert : /\ a \in adding \/ row[a] = "active"
                 /\ marking[a] = 0 /\ removing[a] = 0}
=============================================================================
