---------------------------- MODULE AlertsProofs ----------------------------
(***************************************************************************)
(* Proofs about Alerts, for any set of alerts, any prices, any bounds and  *)
(* any faults.  The last part is about the two regimes of MCAlerts, whose  *)
(* steps are all steps of Alerts.                                          *)
(***************************************************************************)
EXTENDS MCAlerts, TLAPS

USE DEF table, memory, tasks, history, vars

\* The table after a write is a table of row states, and only the row written
\* changes: it keeps its state or takes the effect.
LEMMA WriteChangesOneRow ==
  ASSUME TypeOK, NEW a \in Alert, NEW effect \in RowState, Write(a, effect)
  PROVE  /\ row' \in [Alert -> RowState]
         /\ \A b \in Alert : b # a => row'[b] = row[b]
         /\ row'[a] \in {row[a], effect}
         /\ row'[a] = effect \/ a \in failed'
         /\ failed \subseteq failed' /\ failed' \subseteq Alert
BY DEF TypeOK, Write

\* Every step keeps the types of the table, the memory, the tasks and the
\* histories.
THEOREM TypeCorrect == Spec => []TypeOK
<1>1. Init => TypeOK
  BY DEF Init, TypeOK, RowState, NoTask, NoLists, ActiveRows
<1>2. TypeOK /\ [Next]_vars => TypeOK'
  <2> SUFFICES ASSUME TypeOK, [Next]_vars PROVE TypeOK'
    OBVIOUS
  <2>1. ASSUME NEW a \in Alert, Submit(a) PROVE TypeOK'
    BY <2>1 DEF Submit, TypeOK
  <2>2. ASSUME NEW a \in Alert, Delete(a) PROVE TypeOK'
    BY <2>2 DEF Delete, TypeOK
  <2>3. ASSUME NEW a \in Alert, DeleteUnlisted(a) PROVE TypeOK'
    BY <2>3 DEF DeleteUnlisted, TypeOK
  <2>4. ASSUME NEW t \in Ticker, NEW p \in Price, Tick(t, p) PROVE TypeOK'
    BY <2>4 DEF Tick, Fire, Hits, TypeOK
  <2>5. ASSUME NEW a \in Alert, AddAlert(a) PROVE TypeOK'
    <3>1. Write(a, "active") BY <2>5 DEF AddAlert
    <3>2. QED BY <2>5, <3>1, WriteChangesOneRow DEF AddAlert, TypeOK, RowState
  <2>6. ASSUME NEW a \in Alert, RemoveAlert(a) PROVE TypeOK'
    <3>1. Write(a, "deleted") BY <2>6 DEF RemoveAlert
    <3>2. QED BY <2>6, <3>1, WriteChangesOneRow DEF RemoveAlert, TypeOK, RowState
  <2>7. ASSUME NEW a \in Alert, MarkTriggered(a) PROVE TypeOK'
    <3> DEFINE marked == IF row[a] = "deleted" THEN "deleted" ELSE "triggered"
    <3>1. Write(a, marked) BY <2>7 DEF MarkTriggered, Mark
    <3>2. marked \in RowState BY DEF RowState
    <3>3. QED
      BY <2>7, <3>1, <3>2, WriteChangesOneRow DEF MarkTriggered, Mark, TypeOK
  <2>8. CASE ListAlerts
    <3>1. ActiveRows \in SUBSET Alert BY DEF ActiveRows
    <3>2. lists' \in [SUBSET Alert -> Nat] BY <2>8, <3>1 DEF ListAlerts, TypeOK
    <3>3. listing' \in Nat BY <2>8 DEF ListAlerts, TypeOK
    <3>4. QED BY <2>8, <3>2, <3>3 DEF ListAlerts, TypeOK
  <2>9. ASSUME NEW s \in SUBSET Alert, AlertsLoaded(s) PROVE TypeOK'
    BY <2>9 DEF AlertsLoaded, TypeOK
  <2>10. CASE Restart
    BY <2>10 DEF Restart, TypeOK, NoTask, NoLists
  <2>11. CASE UNCHANGED vars
    BY <2>11 DEF TypeOK
  <2>12. QED
    BY <2>1, <2>2, <2>3, <2>4, <2>5, <2>6, <2>7, <2>8, <2>9, <2>10, <2>11
    DEF Next, TaskStep
<1>3. QED BY <1>1, <1>2, PTL DEF Spec

-----------------------------------------------------------------------------
(***************************************************************************)
(* The invariants of Accounting.  Each action is taken in turn; the task   *)
(* actions that write the table rest on WriteChangesOneRow.                *)
(***************************************************************************)
LEMMA AccountingInit == Init => Accounting
BY DEF Init, Accounting, TypeOK, RowState, NoTask, NoLists, ActiveRows,
       IdsNameRows, InsertsAreFresh, MarksFollowFires, FiredIsRecorded,
       NoSilentTrigger, NothingLost

LEMMA AccountingStep == Accounting /\ TypeOK' /\ [Next]_vars => Accounting'
<1> SUFFICES ASSUME Accounting, TypeOK', [Next]_vars PROVE Accounting'
  OBVIOUS
<1> USE DEF Accounting, IdsNameRows, InsertsAreFresh, MarksFollowFires,
            FiredIsRecorded, NoSilentTrigger, NothingLost
<1>1. ASSUME NEW a \in Alert, Submit(a) PROVE Accounting'
  BY <1>1 DEF Submit, TypeOK
<1>2. ASSUME NEW a \in Alert, Delete(a) PROVE Accounting'
  BY <1>2 DEF Delete, TypeOK
<1>3. ASSUME NEW a \in Alert, DeleteUnlisted(a) PROVE Accounting'
  BY <1>3 DEF DeleteUnlisted, TypeOK
<1>4. ASSUME NEW t \in Ticker, NEW p \in Price, Tick(t, p) PROVE Accounting'
  <2> DEFINE hit == Hits(t, p)
  <2>1. Fire(hit, hit, hit \cap listed) BY <1>4 DEF Tick
  <2>2. hit \subseteq listed \cup optimistic BY DEF Hits
  <2> HIDE DEF hit
  <2>3. QED BY <2>1, <2>2 DEF Fire, TypeOK
<1>5. ASSUME NEW a \in Alert, AddAlert(a) PROVE Accounting'
  <2>1. Write(a, "active") BY <1>5 DEF AddAlert
  <2>2. QED BY <1>5, <2>1, WriteChangesOneRow DEF AddAlert, TypeOK, RowState
<1>6. ASSUME NEW a \in Alert, RemoveAlert(a) PROVE Accounting'
  <2>1. Write(a, "deleted") BY <1>6 DEF RemoveAlert
  <2>2. QED BY <1>6, <2>1, WriteChangesOneRow DEF RemoveAlert, TypeOK, RowState
<1>7. ASSUME NEW a \in Alert, MarkTriggered(a) PROVE Accounting'
  <2> DEFINE marked == IF row[a] = "deleted" THEN "deleted" ELSE "triggered"
  <2>1. Write(a, marked) BY <1>7 DEF MarkTriggered, Mark
  <2>2. marked \in RowState BY DEF RowState
  <2>3. QED
    BY <1>7, <2>1, <2>2, WriteChangesOneRow DEF MarkTriggered, Mark, TypeOK
<1>8. CASE ListAlerts
  <2>1. ActiveRows \in SUBSET Alert BY DEF ActiveRows
  <2>2. \A s \in SUBSET Alert : lists'[s] > 0 => lists[s] > 0 \/ s = ActiveRows
    BY <1>8, <2>1 DEF ListAlerts, TypeOK
  <2>3. IdsNameRows' BY <1>8, <2>2 DEF ListAlerts, ActiveRows
  <2>4. QED BY <1>8, <2>3 DEF ListAlerts
<1>9. ASSUME NEW s \in SUBSET Alert, AlertsLoaded(s) PROVE Accounting'
  BY <1>9 DEF AlertsLoaded, TypeOK
<1>10. CASE Restart
  BY <1>10 DEF Restart, TypeOK, NoTask, NoLists
<1>11. CASE UNCHANGED vars
  BY <1>11
<1>12. QED
  BY <1>1, <1>2, <1>3, <1>4, <1>5, <1>6, <1>7, <1>8, <1>9, <1>10, <1>11
  DEF Next, TaskStep

LEMMA AccountingHolds == Spec => []Accounting
<1>1. Accounting /\ TypeOK' /\ [Next]_vars => Accounting'
  BY AccountingStep
<1>2. QED BY AccountingInit, <1>1, TypeCorrect, PTL DEF Spec

\* A popped toast is in the table, on its way there, or its write failed,
\* unless the alert had no id yet: evaluate_alerts never drops a trigger.
THEOREM FiredIsRecordedHolds == Spec => []FiredIsRecorded
<1>1. Accounting => FiredIsRecorded BY DEF Accounting
<1>2. QED BY <1>1, AccountingHolds, PTL

\* No reload, delete or restart makes a row triggered without a toast.
THEOREM NoSilentTriggerHolds == Spec => []NoSilentTrigger
<1>1. Accounting => NoSilentTrigger BY DEF Accounting
<1>2. QED BY <1>1, AccountingHolds, PTL

\* An alert entered by the user is on its way to the table, in it, or failed,
\* even when a stale list has wiped its optimistic entry.
THEOREM NothingLostHolds == Spec => []NothingLost
<1>1. Accounting => NothingLost BY DEF Accounting
<1>2. QED BY <1>1, AccountingHolds, PTL

(***************************************************************************)
(* Retirement.  Of the steps that could bring a retired alert back, Submit *)
(* needs an alert never entered, AddAlert one with no row, and ListAlerts  *)
(* reads active rows only.                                                 *)
(***************************************************************************)
LEMMA RetiredStep ==
  ASSUME Accounting, [Next]_vars, NEW a \in Alert, Retired(a)
  PROVE  Retired(a)' /\ fires'[a] = fires[a]
<1> USE DEF Accounting, TypeOK, InsertsAreFresh, Retired
<1>1. ASSUME NEW b \in Alert, Submit(b) PROVE Retired(a)' /\ fires'[a] = fires[a]
  BY <1>1 DEF Submit
<1>2. ASSUME NEW b \in Alert, Delete(b) PROVE Retired(a)' /\ fires'[a] = fires[a]
  BY <1>2 DEF Delete
<1>3. ASSUME NEW b \in Alert, DeleteUnlisted(b)
      PROVE  Retired(a)' /\ fires'[a] = fires[a]
  BY <1>3 DEF DeleteUnlisted
<1>4. ASSUME NEW t \in Ticker, NEW p \in Price, Tick(t, p)
      PROVE  Retired(a)' /\ fires'[a] = fires[a]
  BY <1>4 DEF Tick, Fire, Hits
<1>5. ASSUME NEW b \in Alert, AddAlert(b)
      PROVE  Retired(a)' /\ fires'[a] = fires[a]
  <2>1. Write(b, "active") BY <1>5 DEF AddAlert
  <2>2. QED BY <1>5, <2>1, WriteChangesOneRow DEF AddAlert, RowState
<1>6. ASSUME NEW b \in Alert, RemoveAlert(b)
      PROVE  Retired(a)' /\ fires'[a] = fires[a]
  <2>1. Write(b, "deleted") BY <1>6 DEF RemoveAlert
  <2>2. QED BY <1>6, <2>1, WriteChangesOneRow DEF RemoveAlert, RowState
<1>7. ASSUME NEW b \in Alert, MarkTriggered(b)
      PROVE  Retired(a)' /\ fires'[a] = fires[a]
  <2> DEFINE marked == IF row[b] = "deleted" THEN "deleted" ELSE "triggered"
  <2>1. Write(b, marked) BY <1>7 DEF MarkTriggered, Mark
  <2>2. marked \in RowState BY DEF RowState
  <2>3. QED BY <1>7, <2>1, <2>2, WriteChangesOneRow DEF MarkTriggered, Mark
<1>8. CASE ListAlerts
  <2>1. ActiveRows \in SUBSET Alert /\ a \notin ActiveRows BY DEF ActiveRows
  <2>2. \A s \in SUBSET Alert : lists'[s] > 0 => lists[s] > 0 \/ s = ActiveRows
    BY <1>8, <2>1 DEF ListAlerts
  <2>3. QED BY <1>8, <2>1, <2>2 DEF ListAlerts
<1>9. ASSUME NEW s \in SUBSET Alert, AlertsLoaded(s)
      PROVE  Retired(a)' /\ fires'[a] = fires[a]
  BY <1>9 DEF AlertsLoaded
<1>10. CASE Restart
  BY <1>10 DEF Restart, NoTask, NoLists
<1>11. CASE UNCHANGED vars
  BY <1>11
<1>12. QED
  BY <1>1, <1>2, <1>3, <1>4, <1>5, <1>6, <1>7, <1>8, <1>9, <1>10, <1>11
  DEF Next, TaskStep

\* Once nothing in memory or on its way holds a triggered or deleted alert, it
\* stays out of the list and silent in every later session.
THEOREM RetiredStaysQuietHolds == Spec => RetiredStaysQuiet
<1>1. Accounting /\ [Next]_vars =>
        [\A a \in Alert : Retired(a) => Retired(a)' /\ fires'[a] = fires[a]]_vars
  BY RetiredStep
<1>2. QED BY <1>1, AccountingHolds, PTL DEF Spec, RetiredStaysQuiet

-----------------------------------------------------------------------------
(***************************************************************************)
(* The serial regime: no handler runs while a task is in flight, and no    *)
(* write fails.                                                            *)
(***************************************************************************)
\* A serial step is a step: handlers that wait may run, and writes that
\* succeed are writes.
LEMMA SerialStep ==
  ASSUME Serial!Next
  PROVE  \/ \E a \in Alert : Quiet /\ (Submit(a) \/ Delete(a) \/ DeleteUnlisted(a))
         \/ \E t \in Ticker, p \in Price : Quiet /\ Tick(t, p)
         \/ /\ failed' = failed
            /\ \/ \E a \in Alert : /\ row' = [row EXCEPT ![a] = "active"]
                                  /\ AddAlert(a)
               \/ \E a \in Alert : /\ row' = [row EXCEPT ![a] = "deleted"]
                                  /\ RemoveAlert(a)
               \/ \E a \in Alert :
                    /\ row' = [row EXCEPT ![a] = IF row[a] = "deleted"
                                                 THEN "deleted" ELSE "triggered"]
                    /\ MarkTriggered(a)
               \/ /\ lists' = [lists EXCEPT ![ActiveRows] = @ + 1]
                  /\ ListAlerts
               \/ \E s \in SUBSET Alert : AlertsLoaded(s)
         \/ Quiet /\ Restart
<1>q. Serial!MayHandle => Quiet /\ MayHandle
  BY DEF Serial!MayHandle, MayHandle, Serial!Quiet, Quiet, Serial!NoTask,
         NoTask, Serial!NoLists, NoLists
<1>w. ASSUME NEW a, NEW effect, Serial!Write(a, effect)
      PROVE  /\ Write(a, effect)
             /\ row' = [row EXCEPT ![a] = effect] /\ failed' = failed
  BY <1>w DEF Serial!Write, Write
<1>1. ASSUME NEW a \in Alert, Serial!Submit(a) PROVE Quiet /\ Submit(a)
  BY <1>1, <1>q DEF Serial!Submit, Submit
<1>2. ASSUME NEW a \in Alert, Serial!Delete(a) PROVE Quiet /\ Delete(a)
  BY <1>2, <1>q DEF Serial!Delete, Delete, Serial!history
<1>3. ASSUME NEW a \in Alert, Serial!DeleteUnlisted(a)
      PROVE  Quiet /\ DeleteUnlisted(a)
  BY <1>3, <1>q DEF Serial!DeleteUnlisted, DeleteUnlisted, Serial!history
<1>4. ASSUME NEW t \in Ticker, NEW p \in Price, Serial!Tick(t, p)
      PROVE  Quiet /\ Tick(t, p)
  <2>1. Serial!Hits(t, p) = Hits(t, p)
    BY DEF Serial!Hits, Hits, Serial!Crosses, Crosses
  <2>2. ASSUME NEW h, NEW g, NEW m, Serial!Fire(h, g, m)
        PROVE  Quiet /\ Fire(h, g, m)
    BY <2>2, <1>q DEF Serial!Fire, Fire
  <2>3. QED BY <1>4, <2>1, <2>2 DEF Serial!Tick, Tick
<1>5. ASSUME NEW a \in Alert, Serial!AddAlert(a)
      PROVE  /\ AddAlert(a)
             /\ row' = [row EXCEPT ![a] = "active"] /\ failed' = failed
  BY <1>5, <1>w DEF Serial!AddAlert, AddAlert, Serial!memory
<1>6. ASSUME NEW a \in Alert, Serial!RemoveAlert(a)
      PROVE  /\ RemoveAlert(a)
             /\ row' = [row EXCEPT ![a] = "deleted"] /\ failed' = failed
  BY <1>6, <1>w DEF Serial!RemoveAlert, RemoveAlert, Serial!memory
<1>7. ASSUME NEW a \in Alert, Serial!MarkTriggered(a)
      PROVE  /\ MarkTriggered(a) /\ failed' = failed
             /\ row' = [row EXCEPT ![a] = IF row[a] = "deleted"
                                          THEN "deleted" ELSE "triggered"]
  BY <1>7, <1>w
  DEF Serial!MarkTriggered, MarkTriggered, Serial!Mark, Mark, Serial!memory
<1>8. ASSUME Serial!ListAlerts
      PROVE  /\ ListAlerts /\ failed' = failed
             /\ lists' = [lists EXCEPT ![ActiveRows] = @ + 1]
  BY <1>8 DEF Serial!ListAlerts, ListAlerts, Serial!ActiveRows, ActiveRows,
              Serial!memory, Serial!history
<1>9. ASSUME NEW s \in SUBSET Alert, Serial!AlertsLoaded(s)
      PROVE  AlertsLoaded(s) /\ failed' = failed
  BY <1>9 DEF Serial!AlertsLoaded, AlertsLoaded, Serial!history
<1>10. ASSUME Serial!Restart PROVE Quiet /\ Restart
  BY <1>10, <1>q DEF Serial!Restart, Restart, Serial!NoTask, NoTask,
                     Serial!NoLists, NoLists
<1>11. QED
  BY <1>1, <1>2, <1>3, <1>4, <1>5, <1>6, <1>7, <1>8, <1>9, <1>10
  DEF Serial!Next, Serial!TaskStep

\* Where the work of one handler has come to; at most one is under way.
NoneElse(listing_, lists_) ==
  /\ adding = {} /\ removing = NoTask /\ marking = NoTask
  /\ listing = listing_ /\ lists = lists_

Inserting(a) ==
  /\ adding = {a} /\ removing = NoTask /\ marking = NoTask
  /\ listing = 0 /\ lists = NoLists
Deleting(a) ==
  /\ adding = {} /\ removing = [NoTask EXCEPT ![a] = 1] /\ marking = NoTask
  /\ listing = 0 /\ lists = NoLists
Reloading  == NoneElse(1, NoLists)
Delivering == NoneElse(0, [NoLists EXCEPT ![ActiveRows] = 1])

\* A tick may leave several marking tasks, and at rest there are none: memory
\* then holds the active rows that no task is about to retire.
Marking ==
  /\ adding = {} /\ removing = NoTask
  /\ listing = 0 /\ lists = NoLists
  /\ optimistic = {}
  /\ listed = {a \in ActiveRows : marking[a] = 0}

\* The inductive invariant of the serial regime.
OneAtATime ==
  /\ TypeOK /\ failed = {}
  /\ \/ \E a \in Alert : Inserting(a) \/ Deleting(a)
     \/ Reloading \/ Delivering \/ Marking

LEMMA OneAtATimeInit == Init => OneAtATime
<1> SUFFICES ASSUME Init PROVE OneAtATime
  OBVIOUS
<1>1. TypeOK
  BY DEF Init, TypeOK, RowState, NoTask, NoLists, ActiveRows
<1>2. QED BY <1>1 DEF Init, OneAtATime, Reloading, NoneElse

\* Only rest admits a handler, and rest is the end of Marking.
LEMMA AtRest ==
  ASSUME OneAtATime, Quiet
  PROVE  Marking /\ listed = ActiveRows /\ optimistic = {}
<1> USE DEF Quiet
<1>1. ASSUME NEW a \in Alert, Inserting(a) PROVE FALSE
  BY <1>1 DEF Inserting
<1>2. ASSUME NEW a \in Alert, Deleting(a) PROVE FALSE
  <2>1. removing[a] = 1 /\ removing[a] = 0 BY <1>2 DEF Deleting, NoTask
  <2>2. QED BY <2>1
<1>3. ~Reloading BY DEF Reloading, NoneElse
<1>4. ~Delivering
  <2> SUFFICES ASSUME Delivering PROVE FALSE
    OBVIOUS
  <2>1. ActiveRows \in SUBSET Alert BY DEF ActiveRows
  <2>2. lists[ActiveRows] = 1 /\ lists[ActiveRows] = 0
    BY <2>1 DEF Delivering, NoneElse, NoLists
  <2>3. QED BY <2>2
<1>5. Marking BY <1>1, <1>2, <1>3, <1>4 DEF OneAtATime
<1>6. \A a \in Alert : marking[a] = 0 BY DEF NoTask
<1>7. listed = ActiveRows BY <1>5, <1>6 DEF Marking, ActiveRows
<1>8. QED BY <1>5, <1>7 DEF Marking

LEMMA OneAtATimeStep ==
  ASSUME OneAtATime, TypeOK', Serial!Next
  PROVE  OneAtATime'
<1> USE DEF OneAtATime
<1>1. ASSUME Quiet, NEW a \in Alert, Submit(a) PROVE OneAtATime'
  <2>1. Inserting(a)'
    BY <1>1 DEF Submit, Quiet, Inserting, NoTask, NoLists
  <2>2. QED BY <1>1, <2>1 DEF Submit
<1>2. ASSUME Quiet, NEW a \in Alert, Delete(a) PROVE OneAtATime'
  <2>1. Deleting(a)'
    BY <1>2 DEF Delete, Quiet, Deleting, NoTask, NoLists
  <2>2. QED BY <1>2, <2>1 DEF Delete
<1>3. ASSUME Quiet, NEW a \in Alert, DeleteUnlisted(a) PROVE OneAtATime'
  BY <1>3, AtRest DEF DeleteUnlisted
<1>4. ASSUME Quiet, NEW t \in Ticker, NEW p \in Price, Tick(t, p)
      PROVE  OneAtATime'
  <2> DEFINE hit == Hits(t, p)
  <2>1. Fire(hit, hit, hit \cap listed) BY <1>4 DEF Tick
  <2>2. listed = ActiveRows /\ optimistic = {} BY <1>4, AtRest
  <2>3. hit \subseteq listed BY <2>2 DEF Hits
  <2> HIDE DEF hit
  <2>4. \A a \in Alert : marking'[a] = IF a \in hit THEN 1 ELSE 0
    BY <1>4, <2>1, <2>3 DEF Fire, Quiet, NoTask
  <2>5. ActiveRows' = ActiveRows BY <2>1 DEF Fire, ActiveRows
  <2>6. listed' = ActiveRows \ hit BY <2>1, <2>2 DEF Fire
  <2>7. listed' = {a \in ActiveRows' : marking'[a] = 0}
    BY <2>4, <2>5, <2>6 DEF ActiveRows
  <2>8. Marking'
    BY <1>4, <2>1, <2>2, <2>7 DEF Fire, Marking, Quiet, NoTask, NoLists
  <2>9. QED BY <2>1, <2>8 DEF Fire
<1>5. ASSUME NEW a \in Alert, AddAlert(a), failed' = failed PROVE OneAtATime'
  <2>1. Inserting(a)
    BY <1>5 DEF AddAlert, Inserting, Deleting, Reloading, Delivering, NoneElse,
                Marking
  <2>2. Reloading'
    BY <1>5, <2>1 DEF AddAlert, Inserting, Reloading, NoneElse, NoTask, NoLists
  <2>3. QED BY <1>5, <2>2
<1>6. ASSUME NEW a \in Alert, RemoveAlert(a), failed' = failed PROVE OneAtATime'
  <2>1. removing[a] # 0 /\ removing # NoTask
    BY <1>6 DEF RemoveAlert, NoTask
  <2>2. PICK b \in Alert : Deleting(b)
    BY <2>1 DEF Inserting, Reloading, Delivering, NoneElse, Marking
  <2>3. b = a
    BY <2>1, <2>2 DEF Deleting, NoTask
  <2>4. removing' = NoTask
    BY <1>6, <2>2, <2>3 DEF RemoveAlert, Deleting, NoTask
  <2>5. Reloading'
    BY <1>6, <2>2, <2>4 DEF RemoveAlert, Deleting, Reloading, NoneElse, NoTask, NoLists
  <2>6. QED BY <1>6, <2>5
<1>7. ASSUME NEW a \in Alert, MarkTriggered(a), failed' = failed,
             row' = [row EXCEPT ![a] = IF row[a] = "deleted"
                                       THEN "deleted" ELSE "triggered"]
      PROVE  OneAtATime'
  <2>1. marking[a] > 0 /\ marking # NoTask
    BY <1>7 DEF MarkTriggered, NoTask
  <2>2. Marking
    BY <2>1 DEF Inserting, Deleting, Reloading, Delivering, NoneElse
  <2>3. \A b \in Alert \ {a} : row'[b] = row[b] /\ marking'[b] = marking[b]
    BY <1>7 DEF MarkTriggered, Mark, TypeOK
  <2>4. row'[a] # "active" /\ a \notin listed
    BY <1>7, <2>1, <2>2 DEF Marking, TypeOK
  <2>5. listed' = listed BY <1>7 DEF MarkTriggered, Mark
  <2>6. listed' = {b \in ActiveRows' : marking'[b] = 0}
    BY <2>2, <2>3, <2>4, <2>5 DEF Marking, ActiveRows
  <2>7. Marking'
    BY <1>7, <2>2, <2>6 DEF MarkTriggered, Mark, Marking, NoTask, NoLists
  <2>8. QED BY <1>7, <2>7
<1>8. ASSUME ListAlerts, failed' = failed,
             lists' = [lists EXCEPT ![ActiveRows] = @ + 1]
      PROVE  OneAtATime'
  <2>1. Reloading
    BY <1>8 DEF ListAlerts, Inserting, Deleting, Delivering, NoneElse, Marking
  <2>2. ActiveRows' = ActiveRows /\ ActiveRows \in SUBSET Alert
    BY <1>8 DEF ListAlerts, ActiveRows
  <2>3. lists' = [NoLists EXCEPT ![ActiveRows] = 1]
    BY <1>8, <2>1, <2>2 DEF Reloading, NoneElse, NoLists
  <2>4. Delivering'
    BY <1>8, <2>1, <2>2, <2>3
    DEF ListAlerts, Reloading, Delivering, NoneElse, NoTask, NoLists
  <2>5. QED BY <1>8, <2>4
<1>9. ASSUME NEW s \in SUBSET Alert, AlertsLoaded(s), failed' = failed
      PROVE  OneAtATime'
  <2>0. ActiveRows \in SUBSET Alert BY DEF ActiveRows
  <2>1. lists[s] # 0 /\ lists # NoLists
    BY <1>9 DEF AlertsLoaded, NoLists
  <2>2. Delivering
    BY <2>1 DEF Inserting, Deleting, Reloading, NoneElse, Marking
  <2>3. s = ActiveRows
    BY <2>0, <2>1, <2>2 DEF Delivering, NoneElse, NoLists
  <2>4. lists' = NoLists
    BY <1>9, <2>2, <2>3 DEF AlertsLoaded, Delivering, NoneElse, NoLists
  <2>5. ActiveRows' = ActiveRows BY <1>9 DEF AlertsLoaded, ActiveRows
  <2>6. \A a \in Alert : marking'[a] = 0
    BY <1>9, <2>2 DEF AlertsLoaded, Delivering, NoneElse, NoTask
  <2>7. listed' = {a \in ActiveRows' : marking'[a] = 0}
    BY <1>9, <2>3, <2>5, <2>6 DEF AlertsLoaded, ActiveRows
  <2>8. Marking'
    BY <1>9, <2>2, <2>4, <2>7
    DEF AlertsLoaded, Delivering, NoneElse, Marking, NoTask, NoLists
  <2>9. QED BY <1>9, <2>8
<1>10. ASSUME Quiet, Restart PROVE OneAtATime'
  <2>1. failed' = failed BY <1>10 DEF Restart, Quiet, NoTask
  <2>2. Reloading'
    BY <1>10 DEF Restart, Reloading, NoneElse, NoTask, NoLists
  <2>3. QED BY <2>1, <2>2
<1>11. QED
  BY SerialStep, <1>1, <1>2, <1>3, <1>4, <1>5, <1>6, <1>7, <1>8, <1>9, <1>10

LEMMA SerialIsNext == Serial!Next => Next
BY SerialStep DEF Next, TaskStep

\* Both regimes only take steps of Alerts, so what is proved of Spec holds of
\* them.
LEMMA RegimesAreSteps == MCSpec => Spec
<1>1. MCInit => Init BY DEF MCInit
<1>2. [MCNext]_<<vars, regime>> => [Next]_vars BY SerialIsNext DEF MCNext
<1>3. QED BY <1>1, <1>2, PTL DEF MCSpec, Spec

\* The serial regime is serial throughout.
SerialInv == regime = "serial" => OneAtATime

LEMMA SerialInvHolds == MCSpec => []SerialInv
<1>1. MCInit => SerialInv
  BY OneAtATimeInit DEF MCInit, SerialInv
<1>2. SerialInv /\ TypeOK' /\ [MCNext]_<<vars, regime>> => SerialInv'
  <2> SUFFICES ASSUME SerialInv, TypeOK', [MCNext]_<<vars, regime>>,
                      regime' = "serial"
               PROVE  OneAtATime'
    BY DEF SerialInv
  <2>1. CASE regime = "serial" /\ Serial!Next
    BY <2>1, OneAtATimeStep DEF SerialInv
  <2>2. CASE UNCHANGED <<vars, regime>>
    BY <2>2
    DEF SerialInv, OneAtATime, TypeOK, Inserting, Deleting, Reloading,
        Delivering, NoneElse, Marking, ActiveRows
  <2>3. QED BY <2>1, <2>2 DEF MCNext
<1>3. MCSpec => []TypeOK BY TypeCorrect, RegimesAreSteps, PTL
<1>4. QED BY <1>1, <1>2, <1>3, PTL DEF MCSpec

\* Left alone between its tasks, the list the user sees at rest is the active
\* rows of the table: optimistic entries, reloads and restarts add up.
THEOREM SerialListIsTableHolds == MCSpec => []SerialListIsTable
<1>1. SerialInv => SerialListIsTable
  BY AtRest DEF SerialInv, SerialListIsTable, AtRestListIsTable
<1>2. QED BY <1>1, SerialInvHolds, PTL

-----------------------------------------------------------------------------
(***************************************************************************)
(* Refinement of AlertLifecycle by the serial regime.                      *)
(***************************************************************************)
LEMMA PromiseInit == MCInit => Promise!Init
<1> SUFFICES ASSUME MCInit PROVE Promise!Init
  OBVIOUS
<1>1. Armed = ActiveRows
  BY DEF MCInit, Init, Armed, ActiveRows, NoTask
<1>2. submitted \in SUBSET Alert /\ submitted = ActiveRows
  BY DEF MCInit, Init, ActiveRows
<1>3. QED BY <1>1, <1>2 DEF MCInit, Init, Promise!Init, NoTask

LEMMA PromiseStep ==
  ASSUME OneAtATime, Serial!Next, TypeOK'
  PROVE  \/ \E a \in Alert :
              \/ /\ a \notin submitted /\ submitted' = submitted \cup {a}
                 /\ Armed' = Armed \cup {a} /\ fires' = fires
              \/ /\ a \in Armed /\ Armed' = Armed \ {a}
                 /\ submitted' = submitted /\ fires' = fires
         \/ \E hit \in SUBSET Alert :
              /\ hit # {} /\ hit \subseteq Armed
              /\ Armed' = Armed \ hit
              /\ fires' = [a \in Alert |-> fires[a] + (IF a \in hit THEN 1 ELSE 0)]
              /\ submitted' = submitted
         \/ /\ submitted' = submitted /\ Armed' = Armed /\ fires' = fires
<1>q. ASSUME Quiet PROVE Armed = ActiveRows /\ listed = ActiveRows /\ optimistic = {}
  <2>1. Armed = ActiveRows BY <1>q DEF Quiet, Armed, ActiveRows, NoTask
  <2>2. QED BY <1>q, <2>1, AtRest
<1>1. ASSUME Quiet, NEW a \in Alert, Submit(a)
      PROVE  /\ a \notin submitted /\ submitted' = submitted \cup {a}
             /\ Armed' = Armed \cup {a} /\ fires' = fires
  BY <1>1 DEF Submit, Armed, Quiet, NoTask
<1>2. ASSUME Quiet, NEW a \in Alert, Delete(a)
      PROVE  /\ a \in Armed /\ Armed' = Armed \ {a}
             /\ submitted' = submitted /\ fires' = fires
  <2>1. a \in Armed BY <1>2, <1>q DEF Delete
  <2>2. \A b \in Alert : removing'[b] = IF b = a THEN 1 ELSE 0
    BY <1>2 DEF Delete, Quiet, NoTask
  <2>3. Armed' = Armed \ {a}
    BY <1>2, <2>2 DEF Delete, Quiet, NoTask, Armed
  <2>4. QED BY <1>2, <2>1, <2>3 DEF Delete, history
<1>3. ASSUME Quiet, NEW a \in Alert, DeleteUnlisted(a) PROVE FALSE
  BY <1>3, <1>q DEF DeleteUnlisted
<1>4. ASSUME Quiet, NEW t \in Ticker, NEW p \in Price, Tick(t, p)
      PROVE  \E hit \in SUBSET Alert :
                /\ hit # {} /\ hit \subseteq Armed
                /\ Armed' = Armed \ hit
                /\ fires' = [a \in Alert |-> fires[a] + (IF a \in hit THEN 1 ELSE 0)]
                /\ submitted' = submitted
  <2> DEFINE hit == Hits(t, p)
  <2>1. Fire(hit, hit, hit \cap listed) BY <1>4 DEF Tick
  <2>2. hit \subseteq Armed /\ hit \subseteq listed /\ hit \in SUBSET Alert
    BY <1>4, <1>q DEF Hits, ActiveRows
  <2> HIDE DEF hit
  <2>3. \A a \in Alert : marking'[a] = IF a \in hit THEN 1 ELSE 0
    BY <1>4, <2>1, <2>2 DEF Fire, Quiet, NoTask
  <2>4. Armed' = Armed \ hit
    BY <1>4, <2>1, <2>3 DEF Fire, Quiet, NoTask, Armed
  <2>5. QED BY <2>1, <2>2, <2>4 DEF Fire
<1>5. ASSUME NEW a \in Alert, AddAlert(a), row' = [row EXCEPT ![a] = "active"]
      PROVE  submitted' = submitted /\ Armed' = Armed /\ fires' = fires
  <2>1. \A b \in Alert : (b \in adding' \/ row'[b] = "active")
                            = (b \in adding \/ row[b] = "active")
    BY <1>5 DEF AddAlert, OneAtATime, TypeOK
  <2>2. QED BY <1>5, <2>1 DEF AddAlert, Armed
<1>6. ASSUME NEW a \in Alert, RemoveAlert(a), row' = [row EXCEPT ![a] = "deleted"]
      PROVE  submitted' = submitted /\ Armed' = Armed /\ fires' = fires
  <2>1. a \notin Armed /\ adding' = adding /\ a \notin adding
    BY <1>6 DEF RemoveAlert, Armed, OneAtATime, Inserting, Deleting, Reloading,
                Delivering, NoneElse, Marking, NoTask
  <2>2. \A b \in Alert \ {a} : row'[b] = row[b] /\ removing'[b] = removing[b]
    BY <1>6 DEF RemoveAlert, OneAtATime, TypeOK
  <2>3. row'[a] # "active" BY <1>6 DEF OneAtATime, TypeOK
  <2>4. QED BY <1>6, <2>1, <2>2, <2>3 DEF RemoveAlert, Armed
<1>7. ASSUME NEW a \in Alert, MarkTriggered(a),
             row' = [row EXCEPT ![a] = IF row[a] = "deleted"
                                       THEN "deleted" ELSE "triggered"]
      PROVE  submitted' = submitted /\ Armed' = Armed /\ fires' = fires
  <2>1. a \notin Armed /\ adding' = adding /\ a \notin adding
    BY <1>7 DEF MarkTriggered, Mark, Armed, OneAtATime, Inserting, Deleting,
                Reloading, Delivering, NoneElse, Marking, NoTask
  <2>2. \A b \in Alert \ {a} : row'[b] = row[b] /\ marking'[b] = marking[b]
    BY <1>7 DEF MarkTriggered, Mark, OneAtATime, TypeOK
  <2>3. row'[a] # "active" BY <1>7 DEF OneAtATime, TypeOK
  <2>4. QED BY <1>7, <2>1, <2>2, <2>3 DEF MarkTriggered, Mark, Armed
<1>8. ASSUME ListAlerts
      PROVE  submitted' = submitted /\ Armed' = Armed /\ fires' = fires
  BY <1>8 DEF ListAlerts, Armed
<1>9. ASSUME NEW s \in SUBSET Alert, AlertsLoaded(s)
      PROVE  submitted' = submitted /\ Armed' = Armed /\ fires' = fires
  BY <1>9 DEF AlertsLoaded, Armed
<1>10. ASSUME Quiet, Restart
       PROVE  submitted' = submitted /\ Armed' = Armed /\ fires' = fires
  BY <1>10 DEF Restart, Quiet, Armed
<1>11. QED
  BY SerialStep, <1>1, <1>2, <1>3, <1>4, <1>5, <1>6, <1>7, <1>8, <1>9, <1>10

\* Left alone between its tasks, an alert lives as the README promises: armed
\* once, it fires once or is removed once, in whatever session.
THEOREM SerialRefinement == MCSpec => SerialImplementsLifecycle
<1>1. SerialInv /\ TypeOK' /\ [MCNext]_<<vars, regime>> =>
        [Promise!Next]_<<IF regime = "serial" THEN submitted ELSE {},
                         IF regime = "serial" THEN Armed ELSE {},
                         IF regime = "serial" THEN fires ELSE NoTask>>
  <2> SUFFICES ASSUME SerialInv, TypeOK', [MCNext]_<<vars, regime>>
               PROVE  Promise!Next \/ UNCHANGED Promise!vars
    BY DEF Promise!vars
  <2>1. CASE regime = "serial" /\ regime' = "serial" /\ Serial!Next
    <3> DEFINE Arms(a) ==
            /\ a \notin submitted /\ submitted' = submitted \cup {a}
            /\ Armed' = Armed \cup {a} /\ fires' = fires
          Removes(a) ==
            /\ a \in Armed /\ Armed' = Armed \ {a}
            /\ submitted' = submitted /\ fires' = fires
          Fires(hit) ==
            /\ hit # {} /\ hit \subseteq Armed
            /\ Armed' = Armed \ hit
            /\ fires' = [a \in Alert |-> fires[a] + (IF a \in hit THEN 1 ELSE 0)]
            /\ submitted' = submitted
    <3>1. ASSUME NEW a \in Alert, Arms(a) PROVE Promise!Arm(a)
      BY <2>1, <3>1 DEF Promise!Arm
    <3>2. ASSUME NEW a \in Alert, Removes(a) PROVE Promise!Remove(a)
      BY <2>1, <3>2 DEF Promise!Remove
    <3>3. ASSUME NEW hit \in SUBSET Alert, Fires(hit) PROVE Promise!Fire(hit)
      BY <2>1, <3>3 DEF Promise!Fire
    <3>4. ASSUME submitted' = submitted /\ Armed' = Armed /\ fires' = fires
          PROVE  UNCHANGED Promise!vars
      BY <2>1, <3>4 DEF Promise!vars
    <3>5. \/ \E a \in Alert : Arms(a) \/ Removes(a)
          \/ \E hit \in SUBSET Alert : Fires(hit)
          \/ submitted' = submitted /\ Armed' = Armed /\ fires' = fires
      BY <2>1, PromiseStep DEF SerialInv
    <3> HIDE DEF Arms, Removes, Fires
    <3>6. QED BY <3>1, <3>2, <3>3, <3>4, <3>5 DEF Promise!Next
  <2>2. CASE regime = "free" /\ regime' = "free"
    BY <2>2 DEF Promise!vars, NoTask
  <2>3. CASE UNCHANGED <<vars, regime>>
    <3>1. Armed' = Armed BY <2>3 DEF Armed
    <3>2. QED BY <2>3, <3>1 DEF Promise!vars, NoTask
  <2>4. QED BY <2>1, <2>2, <2>3 DEF MCNext
<1>2. MCSpec => []TypeOK BY TypeCorrect, RegimesAreSteps, PTL
<1>3. QED
  BY <1>1, <1>2, PromiseInit, SerialInvHolds, PTL
  DEF MCSpec, SerialImplementsLifecycle, Promise!Spec, Promise!vars
=============================================================================
