----------------------------- MODULE Lifecycle -----------------------------
(***************************************************************************)
(* The process: main and gracefulShutdown of cmd/api/main.go, the          *)
(* connections of the http.Server that server.go sets up, the pool of      *)
(* database/database.go, its health probe and the WebSocket loop.          *)
(*                                                                         *)
(* What a handler does is left to the other modules; here it is statements *)
(* that each hold a connection of the pool.  Whenever this process ends, a *)
(* handler that still runs is cut off between two of them: the Crash of    *)
(* the other modules.                                                      *)
(*                                                                         *)
(* Time is abstract: the 5 seconds of a shutdown and the 1 second of a     *)
(* ping may pass at any moment, the 5 seconds surely do.                   *)
(***************************************************************************)
EXTENDS Naturals, FiniteSets

CONSTANTS
  Conns,       \* connections of clients
  PoolSize,    \* pgxpool's MaxConns
  SlowPings,   \* whether a ping may time out with a connection to be had
  MaxSignals   \* bound: signals sent to the process

ASSUME PoolAssumption == PoolSize \in Nat /\ SlowPings \in BOOLEAN
ASSUME SignalAssumption == MaxSignals \in Nat

VARIABLES
  main,      \* where main is
  shutdown,  \* where gracefulShutdown is
  conn,      \* what http.Server knows of each connection
  handler,   \* what each connection's goroutine is doing
  timedOut,  \* whether the 5 seconds were over before the requests
  signals,   \* signals sent so far
  ended      \* how the process ended, or "no"

vars == <<main, shutdown, conn, handler, timedOut, signals, ended>>

----------------------------------------------------------------------------

MainStage == {"start", "serve", "wait"}

\* deaf and heard end with NotifyContext and stop(); drain is Shutdown.
ShutdownStage == {"deaf", "armed", "heard", "stopped", "drain", "over", "done"}

\* What http.Server knows of a connection.  none is closed, or never opened;
\* forgotten is closed as idle with a request already read from it.
ConnState == {"none", "new", "idle", "active", "forgotten", "hijacked"}

HandlerStage == {"none", "read", "run", "query", "ping", "socket", "left"}

\* The http.Server takes no connection any more.
ShuttingDown == shutdown \in {"drain", "over", "done"}

Up == ended = "no"

Init ==
  /\ main = "start"
  /\ shutdown = "deaf"
  /\ conn = [c \in Conns |-> "none"]
  /\ handler = [c \in Conns |-> "none"]
  /\ timedOut = FALSE
  /\ signals = 0
  /\ ended = "no"

----------------------------------------------------------------------------
(* main.                                                                   *)

\* ListenAndServe returns at once when the shutdown is ahead of it.
Listen ==
  /\ Up /\ main = "start"
  /\ main' = IF ShuttingDown THEN "wait" ELSE "serve"
  /\ UNCHANGED <<shutdown, conn, handler, timedOut, signals, ended>>

ListenFails ==
  /\ Up /\ main \in {"start", "serve"} /\ ~ShuttingDown
  /\ ended' = "panic"
  /\ UNCHANGED <<main, shutdown, conn, handler, timedOut, signals>>

\* ErrServerClosed, as soon as Shutdown has closed the listener.
ServeReturns ==
  /\ Up /\ main = "serve" /\ ShuttingDown
  /\ main' = "wait"
  /\ UNCHANGED <<shutdown, conn, handler, timedOut, signals, ended>>

\* Mutant: main does not receive from done.
ExitsAtOnce ==
  /\ Up /\ main = "wait"
  /\ ended' = "exit"
  /\ UNCHANGED <<main, shutdown, conn, handler, timedOut, signals>>

MainExits ==
  /\ Up /\ main = "wait" /\ shutdown = "done"
  /\ ended' = "exit"
  /\ UNCHANGED <<main, shutdown, conn, handler, timedOut, signals>>

----------------------------------------------------------------------------
(* gracefulShutdown.                                                       *)

NotifyContext ==
  /\ Up /\ shutdown = "deaf"
  /\ shutdown' = "armed"
  /\ UNCHANGED <<main, conn, handler, timedOut, signals, ended>>

\* SIGINT or SIGTERM: caught between NotifyContext and stop(), where a
\* second one does nothing, and otherwise the end of the process.
Signal ==
  /\ Up /\ signals < MaxSignals
  /\ signals' = signals + 1
  /\ \/ /\ shutdown \in {"armed", "heard"}
        /\ shutdown' = "heard"
        /\ UNCHANGED ended
     \/ /\ shutdown \notin {"armed", "heard"}
        /\ ended' = "signal"
        /\ UNCHANGED shutdown
  /\ UNCHANGED <<main, conn, handler, timedOut>>

Stop ==
  /\ Up /\ shutdown = "heard"
  /\ shutdown' = "stopped"
  /\ UNCHANGED <<main, conn, handler, timedOut, signals, ended>>

\* Shutdown closes the listener and waits for Serve to return.
Shutdown ==
  /\ Up /\ shutdown = "stopped"
  /\ shutdown' = "drain"
  /\ UNCHANGED <<main, conn, handler, timedOut, signals, ended>>

Draining == Up /\ shutdown = "drain" /\ main # "serve"

\* closeIdleConns takes a new connection that is 5 seconds old for idle.
CloseIdle(c) ==
  /\ Draining /\ conn[c] \in {"idle", "new"}
  /\ conn' = [conn EXCEPT
       ![c] = IF handler[c] = "none" THEN "none" ELSE "forgotten"]
  /\ UNCHANGED <<main, shutdown, handler, timedOut, signals, ended>>

\* Hijacked connections are not the server's any more.
Unknown == {"none", "forgotten", "hijacked"}

Drained ==
  /\ Draining /\ \A c \in Conns : conn[c] \in Unknown
  /\ shutdown' = "over"
  /\ UNCHANGED <<main, conn, handler, timedOut, signals, ended>>

\* Mutant: Shutdown is given context.Background().
NeverUp == FALSE /\ UNCHANGED vars

TimeUp ==
  /\ Draining
  /\ shutdown' = "over"
  /\ timedOut' = TRUE
  /\ UNCHANGED <<main, conn, handler, signals, ended>>

SendDone ==
  /\ Up /\ shutdown = "over"
  /\ shutdown' = "done"
  /\ UNCHANGED <<main, conn, handler, timedOut, signals, ended>>

----------------------------------------------------------------------------
(* Connections: a goroutine each.                                          *)

Accept(c) ==
  /\ Up /\ main = "serve" /\ ~ShuttingDown
  /\ conn[c] = "none" /\ handler[c] = "none"
  /\ conn' = [conn EXCEPT ![c] = "new"]
  /\ UNCHANGED <<main, shutdown, handler, timedOut, signals, ended>>

\* The client closes, or IdleTimeout and ReadTimeout do.
HangUp(c) ==
  /\ Up /\ conn[c] \in {"new", "idle"} /\ handler[c] = "none"
  /\ conn' = [conn EXCEPT ![c] = "none"]
  /\ UNCHANGED <<main, shutdown, handler, timedOut, signals, ended>>

\* A request has been read; the connection still counts as new or idle.
Read(c) ==
  /\ Up /\ conn[c] \in {"new", "idle"} /\ handler[c] = "none"
  /\ handler' = [handler EXCEPT ![c] = "read"]
  /\ UNCHANGED <<main, shutdown, conn, timedOut, signals, ended>>

\* setState(StateActive) does not make a connection known again that
\* closeIdleConns has closed in between: its handler runs untracked.
Begin(c) ==
  /\ Up /\ handler[c] = "read"
  /\ \E stage \in {"run", "ping"} :
       handler' = [handler EXCEPT ![c] = stage]
  /\ conn' = [conn EXCEPT ![c] = IF @ = "forgotten" THEN @ ELSE "active"]
  /\ UNCHANGED <<main, shutdown, timedOut, signals, ended>>

\* A connection that still serves when the shutdown begins is closed.
Answer(c) ==
  /\ Up /\ handler[c] = "run"
  /\ handler' = [handler EXCEPT ![c] = "none"]
  /\ conn' = [conn EXCEPT
       ![c] = IF @ = "forgotten" \/ ShuttingDown THEN "none" ELSE "idle"]
  /\ UNCHANGED <<main, shutdown, timedOut, signals, ended>>

----------------------------------------------------------------------------
(* The pool.                                                               *)

Available == Cardinality({c \in Conns : handler[c] = "query"}) < PoolSize

Query(c) ==
  /\ Up /\ handler[c] = "run" /\ Available
  /\ handler' = [handler EXCEPT ![c] = "query"]
  /\ UNCHANGED <<main, shutdown, conn, timedOut, signals, ended>>

QueryDone(c) ==
  /\ Up /\ handler[c] = "query"
  /\ handler' = [handler EXCEPT ![c] = "run"]
  /\ UNCHANGED <<main, shutdown, conn, timedOut, signals, ended>>

Health(c) ==
  /\ Up /\ handler[c] = "ping" /\ Available
  /\ handler' = [handler EXCEPT ![c] = "run"]
  /\ UNCHANGED <<main, shutdown, conn, timedOut, signals, ended>>

\* log.Fatalf when a second has passed.
HealthFails(c) ==
  /\ Up /\ handler[c] = "ping" /\ (SlowPings \/ ~Available)
  /\ ended' = "fatal"
  /\ UNCHANGED <<main, shutdown, conn, handler, timedOut, signals>>

----------------------------------------------------------------------------
(* The WebSocket loop.                                                     *)

WebSocket(c) ==
  /\ Up /\ handler[c] = "run" /\ conn[c] = "active"
  /\ handler' = [handler EXCEPT ![c] = "socket"]
  /\ conn' = [conn EXCEPT ![c] = "hijacked"]
  /\ UNCHANGED <<main, shutdown, timedOut, signals, ended>>

\* CloseRead notices and cancels the context of the next Write.
Leave(c) ==
  /\ Up /\ handler[c] = "socket"
  /\ handler' = [handler EXCEPT ![c] = "left"]
  /\ UNCHANGED <<main, shutdown, conn, timedOut, signals, ended>>

\* Mutant: no deferred Close.
WriteFailsOpen(c) ==
  /\ Up /\ handler[c] = "left"
  /\ handler' = [handler EXCEPT ![c] = "none"]
  /\ UNCHANGED <<main, shutdown, conn, timedOut, signals, ended>>

WriteFails(c) ==
  /\ Up /\ handler[c] = "left"
  /\ handler' = [handler EXCEPT ![c] = "none"]
  /\ conn' = [conn EXCEPT ![c] = "none"]
  /\ UNCHANGED <<main, shutdown, timedOut, signals, ended>>

----------------------------------------------------------------------------

Main == Listen \/ ServeReturns \/ MainExits

\* What gracefulShutdown does once the signal is there.
GracefulShutdown == Stop \/ Shutdown \/ Drained \/ TimeUp \/ SendDone

Serve(c) ==
  \/ Accept(c) \/ HangUp(c) \/ Read(c) \/ Begin(c) \/ Answer(c)
  \/ Query(c) \/ QueryDone(c) \/ Health(c) \/ HealthFails(c)
  \/ WebSocket(c) \/ Leave(c) \/ WriteFails(c)
  \/ CloseIdle(c)

Next ==
  \/ Main
  \/ ListenFails
  \/ NotifyContext
  \/ Signal
  \/ GracefulShutdown
  \/ \E c \in Conns : Serve(c)

Spec == Init /\ [][Next]_vars

\* Two goroutines get to run, and five seconds pass.  Nothing is assumed
\* of handlers, clients or the database.
FairSpec == Spec /\ WF_vars(Main) /\ WF_vars(GracefulShutdown)

----------------------------------------------------------------------------
(* Properties.                                                             *)

\* Goroutines and connections are in one of their stages; a hijacked
\* connection and the WebSocket loop on it come and go together.
TypeOK ==
  /\ main \in MainStage
  /\ shutdown \in ShutdownStage
  /\ conn \in [Conns -> ConnState]
  /\ handler \in [Conns -> HandlerStage]
  /\ \A c \in Conns :
       conn[c] = "hijacked" <=> handler[c] \in {"socket", "left"}
  /\ timedOut \in BOOLEAN
  /\ signals \in 0..MaxSignals
  /\ ended \in {"no", "exit", "panic", "signal", "fatal"}

\* A process that exits by itself within the 5 seconds of its shutdown has
\* let its handlers finish: ListenAndServe returning is not the end.  Two
\* kinds of handler are cut off all the same: sockets, which the server gives
\* away, and a request that was read while the shutdown took its connection
\* for idle and closed it.
NotCutShort ==
  ended = "exit" /\ ~timedOut =>
    \A c \in Conns : handler[c] = "none" \/ conn[c] \in {"forgotten", "hijacked"}

\* A signal ends the process although handlers, statements and sockets may
\* take for ever.
Ends == signals > 0 ~> ~Up

\* The probe answers, with "down" if it must.
HealthAnswers == ended # "fatal"

=============================================================================
