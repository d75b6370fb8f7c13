-------------------------- MODULE LifecycleProofs --------------------------
(***************************************************************************)
(* Theorems about Lifecycle for any number of connections, any pool and    *)
(* any number of signals.                                                  *)
(***************************************************************************)
EXTENDS Lifecycle, TLAPS

\* Once Shutdown has come back in time no connection is known any more, and
\* there is nobody left to accept another.
Quiet ==
  shutdown \in {"over", "done"} =>
    /\ main = "wait" \/ main = "start"
    /\ ~timedOut => \A c \in Conns : conn[c] \in Unknown

ExitedAfterShutdown == ended = "exit" => shutdown = "done"

\* A goroutine has a connection that is known, or one that was.
Connected == \A c \in Conns : conn[c] = "none" => handler[c] = "none"

IInv == TypeOK /\ Quiet /\ ExitedAfterShutdown /\ Connected

LEMMA IInvInit == Init => IInv
  <1> SUFFICES ASSUME Init PROVE IInv
    OBVIOUS
  <1>1. main \in MainStage /\ shutdown \in ShutdownStage
    BY DEF Init, MainStage, ShutdownStage
  <1>2. conn \in [Conns -> ConnState] /\ handler \in [Conns -> HandlerStage]
    BY DEF Init, ConnState, HandlerStage
  <1>3. signals \in 0..MaxSignals
    BY SignalAssumption DEF Init
  <1>4. TypeOK
    BY <1>1, <1>2, <1>3 DEF Init, TypeOK
  <1> QED
    BY <1>4 DEF Init, IInv, Quiet, ExitedAfterShutdown, Connected

\* The steps of main and of gracefulShutdown, and a signal.
LEMMA ProcessStep ==
  ASSUME IInv, Main \/ ListenFails \/ NotifyContext \/ Signal \/ GracefulShutdown
  PROVE  IInv'
  <1>1. CASE Main
    BY <1>1 DEF Main, Listen, ServeReturns, MainExits, IInv, TypeOK, Quiet,
       ExitedAfterShutdown, Connected, MainStage, Up, ShuttingDown
  <1>2. CASE ListenFails \/ NotifyContext
    BY <1>2 DEF ListenFails, NotifyContext, IInv, TypeOK, Quiet,
       ExitedAfterShutdown, Connected, ShutdownStage, Up, ShuttingDown
  <1>3. CASE Signal
    BY <1>3, SignalAssumption DEF Signal, IInv, TypeOK, Quiet,
       ExitedAfterShutdown, Connected, ShutdownStage, Up
  <1>4. CASE Stop \/ Shutdown \/ SendDone
    BY <1>4 DEF Stop, Shutdown, SendDone, IInv, TypeOK, Quiet,
       ExitedAfterShutdown, Connected, ShutdownStage, Up
  <1>5. CASE Drained \/ TimeUp
    BY <1>5 DEF Drained, TimeUp, Draining, IInv, TypeOK, Quiet,
       ExitedAfterShutdown, Connected, ShutdownStage, MainStage, Up
  <1> QED
    BY <1>1, <1>2, <1>3, <1>4, <1>5 DEF GracefulShutdown

\* A connection's step: only a connection that the server knows becomes
\* active, and only while main serves does it get to know one.
LEMMA ServeStep ==
  ASSUME IInv, NEW c \in Conns, Serve(c)
  PROVE  IInv'
  <1>1. /\ Up /\ UNCHANGED <<main, shutdown, timedOut, signals>>
        /\ ended' \in {ended, "fatal"}
    BY DEF Serve, Accept, HangUp, Read, Begin, Answer, Query, QueryDone, Health,
       HealthFails, WebSocket, Leave, WriteFails, CloseIdle, Draining
  <1>2. /\ conn' \in [Conns -> ConnState]
        /\ \A d \in Conns : d # c => conn'[d] = conn[d]
        /\ conn[c] \in Unknown /\ main # "serve" => conn'[c] \in Unknown
    <2> USE DEF IInv, TypeOK, ConnState, Unknown, Connected
    <2>1. CASE Accept(c) \/ HangUp(c) \/ CloseIdle(c)
      BY <2>1 DEF Accept, HangUp, CloseIdle
    <2>2. CASE Begin(c) \/ Answer(c)
      BY <2>2 DEF Begin, Answer
    <2>3. CASE WebSocket(c) \/ WriteFails(c)
      BY <2>3 DEF WebSocket, WriteFails
    <2>4. CASE UNCHANGED conn
      BY <2>4
    <2> QED
      BY <2>1, <2>2, <2>3, <2>4
         DEF Serve, Read, Query, QueryDone, Health, HealthFails, Leave
  <1>3. handler' \in [Conns -> HandlerStage]
    BY DEF IInv, TypeOK, HandlerStage, Serve, Accept, HangUp, Read, Begin,
       Answer, Query, QueryDone, Health, HealthFails, WebSocket, Leave,
       WriteFails, CloseIdle
  <1>4. /\ conn'[c] = "hijacked" <=> handler'[c] \in {"socket", "left"}
        /\ conn'[c] = "none" => handler'[c] = "none"
    <2> USE DEF IInv, TypeOK, ConnState, HandlerStage, Connected
    <2>1. CASE Accept(c) \/ HangUp(c) \/ CloseIdle(c)
      BY <2>1 DEF Accept, HangUp, CloseIdle
    <2>2. CASE Read(c) \/ Begin(c) \/ Answer(c)
      BY <2>2 DEF Read, Begin, Answer
    <2>3. CASE Query(c) \/ QueryDone(c) \/ Health(c) \/ HealthFails(c)
      BY <2>3 DEF Query, QueryDone, Health, HealthFails
    <2>4. CASE WebSocket(c) \/ Leave(c) \/ WriteFails(c)
      BY <2>4 DEF WebSocket, Leave, WriteFails
    <2> QED
      BY <2>1, <2>2, <2>3, <2>4 DEF Serve
  <1>5. \A d \in Conns : d # c => handler'[d] = handler[d]
    BY DEF IInv, TypeOK, Serve, Accept, HangUp, Read, Begin, Answer, Query,
       QueryDone, Health, HealthFails, WebSocket, Leave, WriteFails, CloseIdle
  <1>6. TypeOK' /\ Connected'
    BY <1>1, <1>2, <1>3, <1>4, <1>5 DEF IInv, TypeOK, Connected
  <1>7. Quiet'
    BY <1>1, <1>2 DEF IInv, Quiet
  <1>8. ExitedAfterShutdown'
    BY <1>1 DEF IInv, ExitedAfterShutdown, Up
  <1> QED
    BY <1>6, <1>7, <1>8 DEF IInv

LEMMA IInvStep == IInv /\ [Next]_vars => IInv'
  <1> SUFFICES ASSUME IInv, [Next]_vars PROVE IInv'
    OBVIOUS
  <1>1. CASE UNCHANGED vars
    BY <1>1 DEF vars, IInv, TypeOK, Quiet, ExitedAfterShutdown, Connected
  <1> QED
    BY <1>1, ProcessStep, ServeStep DEF Next

\* Goroutines and connections are in one of their stages, and hijacked
\* connections are those of the sockets.
THEOREM TypeCorrect == Spec => []TypeOK
  <1>1. IInv => TypeOK
    BY DEF IInv
  <1> QED
    BY <1>1, IInvInit, IInvStep, PTL DEF Spec

\* A process that exits by itself within the 5 seconds cuts short no handler
\* but sockets and those whose connection the shutdown closed as idle.
THEOREM RequestsAreFinished == Spec => []NotCutShort
  <1>1. IInv => NotCutShort
    BY DEF IInv, Quiet, ExitedAfterShutdown, Connected, Unknown, NotCutShort
  <1> QED
    BY <1>1, IInvInit, IInvStep, PTL DEF Spec

=============================================================================
