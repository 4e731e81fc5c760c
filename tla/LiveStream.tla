----------------------------- MODULE LiveStream -----------------------------
(***************************************************************************)
(* The live quote subscription: App.subscribed_symbols, App.stream_handle  *)
(* and the tasks spawn_stream starts.  A handler that changes what the     *)
(* table shows or what is held ends with resubscribe_stream; connecting    *)
(* takes time, and the handle of a new connection comes back to the loop   *)
(* as the event StreamStarted.                                             *)
(*                                                                         *)
(* The connection itself belongs to yfinance_rs and is external: it opens  *)
(* or fails, may be ended by the server, is closed by abort or stop, and   *)
(* is closed when its handle is dropped if DropStops holds.                *)
(***************************************************************************)
EXTENDS Integers, Sequences

CONSTANTS
  Symbol,      \* the symbols that may be streamed
  MaxConns,    \* bound on the streams one session spawns
  DropStops,   \* whether dropping a StreamHandle closes its connection
  Faults,      \* which of "start_fails" and "server_ends" may happen
  Overlapping  \* whether handlers may resubscribe while a stream is starting

ASSUME StreamAssumption ==
  /\ MaxConns \in Nat
  /\ DropStops \in BOOLEAN
  /\ Faults \subseteq {"start_fails", "server_ends"}
  /\ Overlapping \in BOOLEAN

Conn == 1..MaxConns
NoConn == 0

VARIABLES
  wanted,      \* what stream_symbols() returns now
  subscribed,  \* App.subscribed_symbols
  handle,      \* App.stream_handle, NoConn for None
  spawned,     \* how many streams have been spawned
  symbols,     \* the symbols each stream was spawned for
  phase,       \* where each stream is
  queue,       \* StreamStarted events on their way to the loop
  running,     \* the event loop has not ended
  faulted      \* history: a start failed or the server ended a stream

vars == <<wanted, subscribed, handle, spawned, symbols, phase, queue, running,
          faulted>>

Phase == {"unused", "starting", "open", "closed"}

\* Closing the connection of h, if there is one and it is still open.
Close(h, ph) == [c \in Conn |-> IF c = h /\ ph[c] = "open" THEN "closed" ELSE ph[c]]

Starting == {c \in Conn : phase[c] = "starting"}
AtRest == Starting = {} /\ queue = <<>>

Init ==
  /\ wanted = {} /\ subscribed = {}
  /\ handle = NoConn
  /\ spawned = 0
  /\ symbols = [c \in Conn |-> {}]
  /\ phase = [c \in Conn |-> "unused"]
  /\ queue = <<>>
  /\ running = TRUE
  /\ faulted = FALSE

(***************************************************************************)
(* resubscribe_stream, and the handlers around it                          *)
(***************************************************************************)

\* Nothing changes when the symbols are those already subscribed; otherwise
\* the connection in hand is aborted and a stream for w is spawned.
Resubscribe(w) ==
  \/ /\ w = subscribed
     /\ UNCHANGED <<subscribed, handle, spawned, symbols, phase>>
  \/ /\ w # subscribed
     /\ spawned < MaxConns
     /\ phase' = [Close(handle, phase) EXCEPT ![spawned + 1] = "starting"]
     /\ handle' = NoConn
     /\ spawned' = spawned + 1
     /\ symbols' = [symbols EXCEPT ![spawned + 1] = w]
     /\ subscribed' = w

\* PageLoaded, PortfolioLoaded, paginate, set_page_size, accepting or
\* cancelling a search, `W`, and submitting a holding.
ChangeView(w) ==
  /\ running
  /\ Overlapping \/ AtRest
  /\ wanted' = w
  /\ Resubscribe(w)
  /\ UNCHANGED <<queue, running, faulted>>

\* FetchCompleted, typing a search, deleting a holding: the visible window or
\* the held tickers change and the subscription is left alone.
DriftView(w) ==
  /\ running
  /\ wanted' = w
  /\ UNCHANGED <<subscribed, handle, spawned, symbols, phase, queue, running,
                 faulted>>

\* Mutant of StreamStarted: the handle in hand is kept aside, never dropped.
StreamStarted_KeepsOld ==
  /\ running
  /\ queue # <<>>
  /\ handle' = Head(queue)
  /\ queue' = Tail(queue)
  /\ UNCHANGED <<wanted, subscribed, spawned, symbols, phase, running, faulted>>

\* AppEvent::StreamStarted: the handle is overwritten, whichever stream it
\* belongs to; the one it replaces is dropped.
StreamStarted ==
  /\ running
  /\ queue # <<>>
  /\ handle' = Head(queue)
  /\ queue' = Tail(queue)
  /\ phase' = IF DropStops THEN Close(handle, phase) ELSE phase
  /\ UNCHANGED <<wanted, subscribed, spawned, symbols, running, faulted>>

\* run_loop stops the stream in hand; the tasks and events end with it.
Quit ==
  /\ running
  /\ running' = FALSE
  /\ phase' = [c \in Conn |-> IF phase[c] = "unused" THEN "unused" ELSE "closed"]
  /\ handle' = NoConn
  /\ queue' = <<>>
  /\ UNCHANGED <<wanted, subscribed, spawned, symbols, faulted>>

(***************************************************************************)
(* spawn_stream's task                                                     *)
(***************************************************************************)

\* Mutants of Connected: an event is sent without a connection; no event is
\* sent.
Connected_Announces(c) ==
  /\ phase[c] = "starting"
  /\ phase' = [phase EXCEPT ![c] = "open"]
  /\ queue' = Append(queue, IF symbols[c] = {} THEN NoConn ELSE c)
  /\ UNCHANGED <<wanted, subscribed, handle, spawned, symbols, running, faulted>>
Connected_Silently(c) ==
  /\ phase[c] = "starting"
  /\ phase' = [phase EXCEPT ![c] = "open"]
  /\ UNCHANGED <<wanted, subscribed, handle, spawned, symbols, queue, running,
                 faulted>>

\* start_quote_stream connects and the handle is sent to the loop; without
\* symbols it returns None and there is no connection.
Connected(c) ==
  /\ phase[c] = "starting"
  /\ IF symbols[c] = {}
     THEN /\ phase' = [phase EXCEPT ![c] = "closed"]
          /\ UNCHANGED queue
     ELSE /\ phase' = [phase EXCEPT ![c] = "open"]
          /\ queue' = Append(queue, c)
  /\ UNCHANGED <<wanted, subscribed, handle, spawned, symbols, running, faulted>>

\* start_quote_stream fails: one error, no retry.
StartFails(c) ==
  /\ "start_fails" \in Faults
  /\ phase[c] = "starting"
  /\ phase' = [phase EXCEPT ![c] = "closed"]
  /\ faulted' = TRUE
  /\ UNCHANGED <<wanted, subscribed, handle, spawned, symbols, queue, running>>

\* The receiver runs dry: one log line; the handle stays where it is.
ServerEnds(c) ==
  /\ "server_ends" \in Faults
  /\ phase[c] = "open"
  /\ phase' = [phase EXCEPT ![c] = "closed"]
  /\ faulted' = TRUE
  /\ UNCHANGED <<wanted, subscribed, handle, spawned, symbols, queue, running>>

Next ==
  \/ \E w \in SUBSET Symbol : ChangeView(w) \/ DriftView(w)
  \/ StreamStarted
  \/ Quit
  \/ \E c \in Conn : Connected(c) \/ StartFails(c) \/ ServerEnds(c)

\* A connection attempt ends one way or the other, and the loop drains its
\* channel while it runs.
Fairness ==
  /\ \A c \in Conn : WF_vars(Connected(c))
  /\ WF_vars(StreamStarted)

Spec == Init /\ [][Next]_vars
FairSpec == Spec /\ Fairness

-----------------------------------------------------------------------------
(***************************************************************************)
(* Properties                                                              *)
(***************************************************************************)

\* Type invariant of the subscription and its streams.
TypeOK ==
  /\ wanted \subseteq Symbol /\ subscribed \subseteq Symbol
  /\ handle \in Conn \cup {NoConn}
  /\ spawned \in 0..MaxConns
  /\ symbols \in [Conn -> SUBSET Symbol]
  /\ phase \in [Conn -> Phase]
  /\ queue \in Seq(Conn)
  /\ running \in BOOLEAN /\ faulted \in BOOLEAN

\* No connection is orphaned: one that is open is in the loop's hand or its
\* handle is still on the way, so that a later resubscribe or quit closes it.
NoOrphan ==
  \A c \in Conn : phase[c] = "open" =>
    c = handle \/ \E i \in DOMAIN queue : queue[i] = c

\* The full symbol set the live stream must cover is covered: with nothing
\* starting and nothing failed, the stream in hand is open and carries exactly
\* the subscribed symbols (app.rs stream_symbols).
LiveCoversSubscribed ==
  running /\ AtRest /\ ~faulted =>
    IF subscribed = {} THEN handle = NoConn
    ELSE handle # NoConn /\ phase[handle] = "open" /\ symbols[handle] = subscribed

\* Unless a start fails or the server hangs up, the session ends or comes to a
\* stream that covers the symbols subscribed last.
CoveredInTheEnd ==
  <>[](~running \/ faulted
       \/ (subscribed = {} /\ handle = NoConn)
       \/ (handle # NoConn /\ symbols[handle] = subscribed))
=============================================================================
