---------------------------- MODULE ServerProofs ----------------------------
(***************************************************************************)
(* Theorems about the life of the process, for any number of gRPC threads, *)
(* calls, scrapes and signals.                                             *)
(***************************************************************************)
EXTENDS Server, TLAPS

HandlerPlaces == {"free", "entered", "reading", "inCache"}

ThreadPlaces ==
    {"none", "loop", "calling", "accepting", "reading", "inCache", "ended"}

\* main() has a server: from BuildAndStart until Wait returns.
Up == {"metrics", "install", "wait"}

\* main() is inside stop(), which found the metrics thread running.
Stopping == {"unblock", "close", "join"}

\* main() is behind stop().
Behind == {"reset", "return"}

Places == {"init", "build", "stop", "exit", "killed"} \cup Up \cup Stopping \cup Behind

Types ==
    /\ main \in Places
    /\ cache \in BOOLEAN
    /\ grpc \in {"off", "serving", "draining", "down"}
    /\ running \in BOOLEAN
    /\ handler \in [Handlers -> HandlerPlaces]
    /\ thread \in ThreadPlaces

\* cache_ is there from initialize() to shutdown().
CacheLife == main \in {"build", "stop", "reset"} \cup Up \cup Stopping => cache

\* Nobody runs a handler before the server serves, or once it is down; and
\* main() does not get past Wait before it is down.
Serving ==
    /\ grpc \in {"off", "down"} => \A h \in Handlers : handler[h] = "free"
    /\ main \in {"init", "build"} => grpc = "off"
    /\ main \in {"stop"} \cup Stopping \cup Behind => grpc = "down"
    /\ main = "exit" => grpc \in {"off", "down"}
    /\ installed => main \in {"wait", "stop", "exit"} \cup Stopping \cup Behind

\* The thread's socket is closed and it has been joined, or there is none.
Collected == thread # "none" => thread = "ended" /\ joined /\ fd = "closed"

\* running_ says, until stop() clears it, whether there is a thread; who is
\* behind stop() has collected it.
ThreadLife ==
    /\ main \in {"init", "build", "metrics"} => thread = "none" /\ ~running
    /\ main \in {"install", "wait", "stop"} => (thread # "none" => running)
    /\ main = "join" => fd = "closed"
    /\ main \in Behind \cup {"exit"} => Collected

ServerInv == Types /\ CacheLife /\ Serving /\ ThreadLife

-----------------------------------------------------------------------------
\* The process begins in the invariant.
LEMMA InitServer == Init => ServerInv
  BY DEF Init, ServerInv, Types, CacheLife, Serving, ThreadLife, Collected, Places,
         Up, Stopping, Behind, HandlerPlaces, ThreadPlaces

\* The steps of main(), each in its place (server.cc:142-216).
LEMMA MainServer ==
    ASSUME ServerInv, Main
    PROVE  ServerInv'
  <1> USE DEF ServerInv, Places, Up, Stopping, Behind, MainGoes, socketVars
  <1> USE DEF Types, CacheLife, Serving, ThreadLife, Collected
  <1>1. CASE InitCache
    BY <1>1 DEF InitCache
  <1>2. CASE BuildAndStart
    BY <1>2 DEF BuildAndStart
  <1>3. CASE ReturnOne
    BY <1>3 DEF ReturnOne
  <1>4. CASE StartMetrics
    BY <1>4 DEF StartMetrics, ThreadPlaces
  <1>5. CASE SkipMetrics \/ InstallHandlers \/ WaitReturns
    BY <1>5 DEF SkipMetrics, InstallHandlers, WaitReturns
  <1>6. CASE Stop \/ ShutSocket \/ CloseSocket \/ Join
    BY <1>6 DEF Stop, ShutSocket, CloseSocket, Join
  <1>7. CASE ResetCache \/ ReturnZero
    BY <1>7 DEF ResetCache, ReturnZero
  <1> QED
    BY <1>1, <1>2, <1>3, <1>4, <1>5, <1>6, <1>7 DEF Main

\* Signals, and the end of Shutdown.
LEMMA SignalServer ==
    ASSUME ServerInv, SignalKills \/ SignalShutdown \/ Drained
    PROVE  ServerInv'
  <1> USE DEF ServerInv, Places, Up, Stopping, Behind, rpcVars, signalVars,
              socketVars, threadVars
  <1>1. CASE SignalKills
    BY <1>1 DEF SignalKills, Types, CacheLife, Serving, ThreadLife, Collected
  <1>2. CASE SignalShutdown
    BY <1>2 DEF SignalShutdown, Alive, Types, CacheLife, Serving, ThreadLife,
                Collected
  <1>3. CASE Drained
    BY <1>3 DEF Drained, Types, CacheLife, Serving, ThreadLife, Collected
  <1> QED
    BY <1>1, <1>2, <1>3

\* A handler only starts while the server serves; once it runs it cannot be
\* left behind, because Shutdown waits for it.
LEMMA HandlerServer ==
    ASSUME ServerInv, NEW h \in Handlers,
           \/ \E isStream \in BOOLEAN : Arrive(h, isStream)
           \/ Serve(h) \/ StreamRequest(h) \/ StreamEnds(h)
    PROVE  ServerInv'
  <1>1. UNCHANGED handlerOnly
    BY DEF Arrive, Serve, Checked, LeaveCache, StreamRequest, StreamEnds, HandlerGoes
  <1>2. \E to \in HandlerPlaces : handler' = [handler EXCEPT ![h] = to]
    BY DEF Arrive, Serve, Checked, LeaveCache, StreamRequest, StreamEnds, HandlerGoes,
           HandlerPlaces
  <1>3. grpc \notin {"off", "down"}
    BY DEF Arrive, Serve, Checked, LeaveCache, StreamRequest, StreamEnds, HandlerGoes,
           ServerInv, Serving
  <1> QED
    BY <1>1, <1>2, <1>3
    DEF handlerOnly, signalVars, socketVars, threadVars, ServerInv, Types, CacheLife,
        Serving, ThreadLife, Collected

\* The metrics thread, once there is one, ends for good.
LEMMA ThreadServer ==
    ASSUME ServerInv, Thread
    PROVE  ServerInv'
  <1>1. UNCHANGED threadOnly /\ Alive
    BY DEF Thread, Loop, CallAccept, Accepted, AcceptWoken, ReadMetrics, ReadOther,
           ReadNothing, SendMetrics, ThreadGoes
  <1>2. thread \notin {"none", "ended"} /\ thread' \in ThreadPlaces \ {"none"}
    BY DEF Thread, Loop, CallAccept, Accepted, AcceptWoken, ReadMetrics, ReadOther,
           ReadNothing, SendMetrics, ThreadGoes, ThreadPlaces
  <1> QED
    BY <1>1, <1>2
    DEF threadOnly, rpcVars, signalVars, socketVars, ServerInv, Types, CacheLife,
        Serving, ThreadLife, Collected, Places, Up, Stopping, Behind, Alive

\* Every step keeps the invariant.
LEMMA NextServer ==
    ASSUME ServerInv, [Next]_vars
    PROVE  ServerInv'
  <1>1. CASE Connect \/ ScraperSends \/ Done \/ UNCHANGED vars
    BY <1>1
    DEF Connect, ScraperSends, Done, vars, threadOnly, rpcVars, signalVars, socketVars,
        threadVars, ServerInv, Types, CacheLife, Serving, ThreadLife, Collected
  <1> QED
    BY <1>1, MainServer, SignalServer, HandlerServer, ThreadServer DEF Next

\* The invariant holds throughout.
LEMMA ServerInvariance == Spec => []ServerInv
  BY InitServer, NextServer, PTL DEF Spec

\* cache_ is never reset under a handler or under the metrics thread, whatever
\* signals, calls, streams and scrapes there are: main() gets to shutdown() only
\* when Wait has returned, which is when every handler has, and when stop() has
\* joined the thread or there was none (server.cc:200-211, MetricsServer.cc:74-92).
THEOREM CacheOutlivesUsersHolds == Spec => []CacheOutlivesUsers
  <1>1. ServerInv => CacheOutlivesUsers
    BY DEF ServerInv, Types, CacheLife, Serving, ThreadLife, Collected,
           CacheOutlivesUsers, Alive, Places, Up, Stopping, Behind
  <1> QED
    BY <1>1, ServerInvariance, PTL

\* When main() returns, on either path, no handler is under way, and the
\* MetricsServer it destroys has its thread joined and its socket closed
\* (server.cc:146-181, 205-216; MetricsServer.cc:74-92).
THEOREM CleanExitHolds == Spec => []CleanExit
  <1>1. ServerInv => CleanExit
    BY DEF ServerInv, Serving, ThreadLife, Collected, CleanExit, Behind
  <1> QED
    BY <1>1, ServerInvariance, PTL
=============================================================================
