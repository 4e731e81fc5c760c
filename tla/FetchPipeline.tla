--------------------------- MODULE FetchPipeline ----------------------------
(***************************************************************************)
(* The batch pipeline behind `fetch-and-store` and `snapshot`              *)
(* (src/run.rs): one task per ticker, a semaphore, a bounded channel, and  *)
(* the calling task as the only receiver.                                  *)
(*                                                                         *)
(* The runtime is single-threaded and the spawning loop has no await, so   *)
(* every task exists and the caller's own sender is dropped before any     *)
(* task runs: PipelineInit is the state at the first rx.recv().            *)
(***************************************************************************)
EXTENDS Integers, FiniteSets

CONSTANTS
  Task,           \* the fetch tasks, one per ticker given
  MaxConcurrent,  \* MAX_CONCURRENT_FETCHES, the permits of the semaphore
  Buffer          \* CHANNEL_BUFFER, the capacity of the channel

ASSUME PipelineAssumption ==
  /\ IsFiniteSet(Task)
  /\ MaxConcurrent \in Nat \ {0}
  /\ Buffer \in Nat \ {0}

VARIABLES
  pc,       \* where each task is
  channel,  \* the tasks whose quote is in the channel; order is immaterial
  caller,   \* where the receiving task is
  storing,  \* the quotes taken from the channel and not yet stored: at most one
  joining,  \* the tasks whose handle the caller has not awaited yet
  stored,   \* the quotes counted as stored
  failed    \* the quotes counted as failed

pipelineVars == <<pc, channel, caller, storing, joining, stored, failed>>

PC == {"waiting", "fetching", "sending", "sent", "none"}
Caller == {"receiving", "joining", "returned"}

\* A permit is held from acquire_owned until the task ends.
Holding == {t \in Task : pc[t] \in {"fetching", "sending"}}

\* A task's sender is dropped when it ends, by returning or by panicking.
Ended(t) == pc[t] \in {"sent", "none"}

-----------------------------------------------------------------------------
PipelineInit ==
  /\ pc = [t \in Task |-> "waiting"]
  /\ channel = {}
  /\ caller = "receiving"
  /\ storing = {}
  /\ joining = Task
  /\ stored = {} /\ failed = {}

(***************************************************************************)
(* A fetch task                                                            *)
(***************************************************************************)

\* Mutant of Acquire: the permit covers the request but not the send.
Acquire_SendUnguarded(t) ==
  /\ pc[t] = "waiting"
  /\ Cardinality({u \in Task : pc[u] = "fetching"}) < MaxConcurrent
  /\ pc' = [pc EXCEPT ![t] = "fetching"]
  /\ UNCHANGED <<channel, caller, storing, joining, stored, failed>>

\* semaphore.acquire_owned().await; the semaphore is never closed.
Acquire(t) ==
  /\ pc[t] = "waiting"
  /\ Cardinality(Holding) < MaxConcurrent
  /\ pc' = [pc EXCEPT ![t] = "fetching"]
  /\ UNCHANGED <<channel, caller, storing, joining, stored, failed>>

\* Mutant of Fetched: a task that panicked is not told apart from one that
\* still runs.
Fetched_Panics(t) ==
  /\ pc[t] = "fetching"
  /\ pc' \in {[pc EXCEPT ![t] = "sending"], [pc EXCEPT ![t] = "panicked"]}
  /\ UNCHANGED <<channel, caller, storing, joining, stored, failed>>

\* fetch_quote returns a quote, or nothing: no quote, an error, or a panic.
Fetched(t) ==
  /\ pc[t] = "fetching"
  /\ pc' \in {[pc EXCEPT ![t] = "sending"], [pc EXCEPT ![t] = "none"]}
  /\ UNCHANGED <<channel, caller, storing, joining, stored, failed>>

\* Mutant of Send: try_send, which drops the quote when the channel is full.
Send_OrDrop(t) ==
  /\ pc[t] = "sending"
  /\ channel' = IF Cardinality(channel) < Buffer THEN channel \cup {t} ELSE channel
  /\ pc' = [pc EXCEPT ![t] = "sent"]
  /\ UNCHANGED <<caller, storing, joining, stored, failed>>

\* tx.send(quote).await waits for room; the receiver outlives every task, so
\* it never fails.  The task then ends and releases its permit.
Send(t) ==
  /\ pc[t] = "sending"
  /\ Cardinality(channel) < Buffer
  /\ channel' = channel \cup {t}
  /\ pc' = [pc EXCEPT ![t] = "sent"]
  /\ UNCHANGED <<caller, storing, joining, stored, failed>>

(***************************************************************************)
(* The caller                                                              *)
(***************************************************************************)

\* rx.recv().await yields a quote.
Receive(t) ==
  /\ caller = "receiving" /\ storing = {}
  /\ t \in channel
  /\ channel' = channel \ {t}
  /\ storing' = {t}
  /\ UNCHANGED <<pc, caller, joining, stored, failed>>

\* Mutant of StoreQuote: a failed store is retried later instead of being counted.
StoreQuote_Requeues(t) ==
  /\ t \in storing
  /\ storing' = {}
  /\ \/ stored' = stored \cup {t} /\ UNCHANGED channel
     \/ channel' = channel \cup {t} /\ UNCHANGED stored
  /\ UNCHANGED <<pc, caller, joining, failed>>

\* store_quote_to_db: refused without a ticker and as_of, or the insert fails.
StoreQuote(t) ==
  /\ t \in storing
  /\ storing' = {}
  /\ \/ stored' = stored \cup {t} /\ UNCHANGED failed
     \/ failed' = failed \cup {t} /\ UNCHANGED stored
  /\ UNCHANGED <<pc, channel, caller, joining>>

\* Mutants of Closed: the caller stops at an empty channel; the caller keeps
\* its own sender, so that the channel never closes.
Closed_WhenEmpty ==
  /\ caller = "receiving" /\ storing = {} /\ channel = {}
  /\ caller' = "joining"
  /\ UNCHANGED <<pc, channel, storing, joining, stored, failed>>
Closed_Never == FALSE /\ UNCHANGED pipelineVars

\* rx.recv().await yields None: the channel is empty and no sender is left.
Closed ==
  /\ caller = "receiving" /\ storing = {} /\ channel = {}
  /\ \A t \in Task : Ended(t)
  /\ caller' = "joining"
  /\ UNCHANGED <<pc, channel, storing, joining, stored, failed>>

\* handle.await for every task, in order; a panic is logged.
Join(t) ==
  /\ caller = "joining"
  /\ t \in joining /\ Ended(t)
  /\ joining' = joining \ {t}
  /\ UNCHANGED <<pc, channel, caller, storing, stored, failed>>

Return ==
  /\ caller = "joining" /\ joining = {}
  /\ caller' = "returned"
  /\ UNCHANGED <<pc, channel, storing, joining, stored, failed>>

PipelineNext ==
  \/ \E t \in Task : \/ Acquire(t) \/ Fetched(t) \/ Send(t)
                     \/ Receive(t) \/ StoreQuote(t) \/ Join(t)
  \/ Closed
  \/ Return

\* The runtime polls ready tasks; a request and a store come back, by answer
\* or by timeout.  The semaphore and the channel serve waiters in turn.
PipelineFairness ==
  /\ \A t \in Task : /\ WF_pipelineVars(Acquire(t)) /\ WF_pipelineVars(Fetched(t))
                     /\ WF_pipelineVars(Send(t)) /\ WF_pipelineVars(StoreQuote(t))
  /\ WF_pipelineVars(\E t \in Task : Receive(t) \/ Join(t))
  /\ WF_pipelineVars(Closed) /\ WF_pipelineVars(Return)

PipelineSpec == PipelineInit /\ [][PipelineNext]_pipelineVars
FairPipelineSpec == PipelineSpec /\ PipelineFairness

-----------------------------------------------------------------------------
(***************************************************************************)
(* Properties                                                              *)
(***************************************************************************)

\* Type invariant of the tasks, the channel and the caller.
PipelineTypeOK ==
  /\ pc \in [Task -> PC]
  /\ channel \subseteq Task
  /\ caller \in Caller
  /\ storing \subseteq Task
  /\ joining \subseteq Task
  /\ stored \subseteq Task /\ failed \subseteq Task

\* Every quote a task has handed over is in exactly one place: in the channel,
\* being stored, or counted once as stored or failed.
QuotesConserved ==
  /\ {t \in Task : pc[t] = "sent"} = channel \cup storing \cup stored \cup failed
  /\ channel \cap storing = {}
  /\ (channel \cup storing) \cap (stored \cup failed) = {}
  /\ stored \cap failed = {}

\* Back-pressure: however slow the database is, no more quotes are requested
\* and unsaved than the permits, the buffer and the caller's hands hold.
Backpressure ==
  Cardinality(Holding) + Cardinality(channel) + Cardinality(storing)
    <= MaxConcurrent + Buffer + 1

\* The call returns only after every task has ended and every quote that was
\* fetched has been counted: the log line's totals are complete.
ReturnsComplete ==
  caller # "receiving" =>
    /\ \A t \in Task : Ended(t)
    /\ {t \in Task : pc[t] = "sent"} = stored \cup failed

\* fetch_and_store returns: no task waits for a permit, for room in the channel
\* or for the receiver for ever.
Terminates == <>(caller = "returned")

\* The pipeline implements the promise of BatchFetch: a task that produced no
\* quote is resolved when it ends, the others when their store is counted.
OutcomeOf(t) ==
  IF t \in stored THEN "stored"
  ELSE IF t \in failed THEN "failed"
  ELSE IF pc[t] = "none" THEN "none"
  ELSE "pending"

Batch == INSTANCE BatchFetch WITH
  outcome <- [t \in Task |-> OutcomeOf(t)], returned <- (caller = "returned")

ImplementsBatch == Batch!Spec
=============================================================================
