------------------------------- MODULE Server -------------------------------
(***************************************************************************)
(* The life of the process: main() of server.cc, its signal handler, the   *)
(* gRPC threads that run the handlers of CacheServiceImpl, and the one     *)
(* thread of MetricsServer.  They share the CacheManager, whose cache_     *)
(* main() resets last.                                                     *)
(*                                                                         *)
(* A handler is inside CacheManager or between two calls into it; what it  *)
(* does there is in CacheManager and CacheService.  A Pipeline handler     *)
(* goes in and out until its client ends the stream.                       *)
(***************************************************************************)
EXTENDS Naturals, FiniteSets

CONSTANTS
    Handlers,       \* gRPC threads
    MaxCalls,       \* bound: calls that arrive
    MaxScrapes,     \* bound: connections to the metrics port
    MaxSignals      \* bound: SIGINTs and SIGTERMs

ASSUME ServerAssumption ==
    /\ IsFiniteSet(Handlers)
    /\ MaxCalls \in Nat /\ MaxScrapes \in Nat /\ MaxSignals \in Nat

VARIABLES
    main,       \* where main() is
    cache,      \* cache_ is allocated
    grpc,       \* "off", "serving", "draining" (in Shutdown) or "down"
    installed,  \* the signal handlers are installed
    signals,    \* signals so far
    calls,      \* calls so far
    handler,    \* where each gRPC thread is
    stream,     \* it runs Pipeline
    running,    \* running_
    fd,         \* serverFd_: "none", "listening" or "closed"
    shut,       \* ::shutdown was called on it
    thread,     \* where serverThread_ is
    joined,     \* it has been joined
    conn,       \* what the client of the accepted connection has sent
    waiting,    \* connections in the backlog
    scrapes     \* connections so far

rpcVars     == <<grpc, calls, handler, stream>>
threadVars  == <<thread, conn, waiting, scrapes>>
socketVars  == <<running, fd, shut, joined>>
signalVars  == <<installed, signals>>
vars == <<main, cache, rpcVars, signalVars, socketVars, threadVars>>

Init ==
    /\ main = "init"
    /\ cache = FALSE
    /\ grpc = "off"
    /\ installed = FALSE
    /\ signals = 0
    /\ calls = 0
    /\ handler = [h \in Handlers |-> "free"]
    /\ stream = [h \in Handlers |-> FALSE]
    /\ running = FALSE
    /\ fd = "none"
    /\ shut = FALSE
    /\ thread = "none"
    /\ joined = FALSE
    /\ conn = "none"
    /\ waiting = 0
    /\ scrapes = 0

Alive == main \notin {"exit", "killed"}

-----------------------------------------------------------------------------
MainGoes(from, to) ==
    /\ main = from
    /\ main' = to
    /\ UNCHANGED <<calls, handler, stream, signals, conn, waiting, scrapes>>

\* cacheManager->initialize()
InitCache ==
    /\ MainGoes("init", "build")
    /\ cache' = TRUE
    /\ UNCHANGED <<grpc, installed, socketVars, thread>>

\* builder.BuildAndStart().  Calls may arrive from here on.
BuildAndStart ==
    /\ MainGoes("build", "metrics")
    /\ grpc' = "serving"
    /\ UNCHANGED <<cache, installed, socketVars, thread>>

\* Either of them failed: return 1.
ReturnOne ==
    /\ MainGoes("init", "exit") \/ MainGoes("build", "exit")
    /\ UNCHANGED <<cache, grpc, installed, socketVars, thread>>

\* metricsServer->start(): the thread runs once the socket listens.
StartMetrics ==
    /\ MainGoes("metrics", "install")
    /\ running' = TRUE
    /\ fd' = "listening"
    /\ thread' = "loop"
    /\ UNCHANGED <<cache, grpc, installed, shut, joined>>

\* No metrics port, or start() failed: the server goes on without.
SkipMetrics ==
    /\ MainGoes("metrics", "install")
    /\ UNCHANGED <<cache, grpc, installed, socketVars, thread>>

InstallHandlers ==
    /\ MainGoes("install", "wait")
    /\ installed' = TRUE
    /\ UNCHANGED <<cache, grpc, socketVars, thread>>

\* g_server->Wait() returns when Shutdown has finished.
WaitReturns ==
    /\ MainGoes("wait", "stop")
    /\ grpc = "down"
    /\ UNCHANGED <<cache, grpc, installed, socketVars, thread>>

\* stop() returns at once, or tells the thread to stop.
Stop ==
    /\ MainGoes("stop", IF running THEN "unblock" ELSE "reset")
    /\ running' = FALSE
    /\ UNCHANGED <<cache, grpc, installed, fd, shut, joined, thread>>

\* ::shutdown(serverFd_, SHUT_RDWR): wakes a thread blocked in accept().
ShutSocket ==
    /\ MainGoes("unblock", "close")
    /\ shut' = TRUE
    /\ UNCHANGED <<cache, grpc, installed, running, fd, joined, thread>>

\* close(serverFd_); serverFd_ = -1
CloseSocket ==
    /\ MainGoes("close", "join")
    /\ fd' = "closed"
    /\ UNCHANGED <<cache, grpc, installed, running, shut, joined, thread>>

\* A stop() that returns without waiting for its thread.
JoinNobody ==
    /\ MainGoes("join", "reset")
    /\ joined' = TRUE
    /\ UNCHANGED <<cache, grpc, installed, running, fd, shut, thread>>

\* serverThread_.join()
Join ==
    /\ MainGoes("join", "reset")
    /\ thread = "ended"
    /\ joined' = TRUE
    /\ UNCHANGED <<cache, grpc, installed, running, fd, shut, thread>>

\* cacheManager->shutdown()
ResetCache ==
    /\ MainGoes("reset", "return")
    /\ cache' = FALSE
    /\ UNCHANGED <<grpc, installed, socketVars, thread>>

\* return 0
ReturnZero ==
    /\ MainGoes("return", "exit")
    /\ UNCHANGED <<cache, grpc, installed, socketVars, thread>>

Main ==
    \/ InitCache \/ BuildAndStart \/ ReturnOne \/ StartMetrics \/ SkipMetrics
    \/ InstallHandlers \/ WaitReturns \/ Stop \/ ShutSocket \/ CloseSocket
    \/ Join \/ ResetCache \/ ReturnZero

-----------------------------------------------------------------------------
\* A signal before the handlers are installed ends the process at once.
SignalKills ==
    /\ Alive
    /\ ~installed
    /\ signals < MaxSignals
    /\ signals' = signals + 1
    /\ main' = "killed"
    /\ UNCHANGED <<cache, rpcVars, installed, socketVars, threadVars>>

\* signalHandler: g_server->Shutdown() without a deadline.  It runs on the main
\* thread, which has then nothing to do but wait for it; a second signal finds
\* the server shutting down.
SignalShutdown ==
    /\ Alive
    /\ installed
    /\ signals < MaxSignals
    /\ signals' = signals + 1
    /\ grpc' = IF grpc = "serving" THEN "draining" ELSE grpc
    /\ UNCHANGED <<main, cache, calls, handler, stream, installed, socketVars,
                   threadVars>>

\* A Shutdown that does not wait for the handlers.
DrainedAtOnce ==
    /\ grpc = "draining"
    /\ grpc' = "down"
    /\ UNCHANGED <<main, cache, calls, handler, stream, signalVars, socketVars,
                   threadVars>>

\* Shutdown waits until every handler has returned.
Drained ==
    /\ grpc = "draining"
    /\ \A h \in Handlers : handler[h] = "free"
    /\ grpc' = "down"
    /\ UNCHANGED <<main, cache, calls, handler, stream, signalVars, socketVars,
                   threadVars>>

-----------------------------------------------------------------------------
handlerOnly == <<main, cache, grpc, signalVars, socketVars, threadVars>>

HandlerGoes(h, from, to) ==
    /\ Alive
    /\ handler[h] = from
    /\ handler' = [handler EXCEPT ![h] = to]
    /\ UNCHANGED handlerOnly

\* A call arrives on a free thread; isStream for Pipeline.
Arrive(h, isStream) ==
    /\ HandlerGoes(h, "free", "entered")
    /\ grpc = "serving"
    /\ calls < MaxCalls
    /\ calls' = calls + 1
    /\ stream' = [stream EXCEPT ![h] = isStream]

\* isReady() was true, as it always is while the server serves: a unary
\* handler calls CacheManager, Pipeline reads.
Checked(h) ==
    /\ HandlerGoes(h, "entered", IF stream[h] THEN "reading" ELSE "inCache")
    /\ cache
    /\ UNCHANGED <<calls, stream>>

\* stream->Read returned a request, which is applied.
StreamRequest(h) ==
    HandlerGoes(h, "reading", "inCache") /\ UNCHANGED <<calls, stream>>

\* The handler leaves CacheManager: it replies, or goes back to Read.
LeaveCache(h) ==
    /\ HandlerGoes(h, "inCache", IF stream[h] THEN "reading" ELSE "free")
    /\ UNCHANGED <<calls, stream>>

\* The client half-closes or cancels: Read returns false and Pipeline returns.
StreamEnds(h) ==
    HandlerGoes(h, "reading", "free") /\ UNCHANGED <<calls, stream>>

-----------------------------------------------------------------------------
threadOnly == <<main, cache, rpcVars, signalVars, socketVars>>

ThreadGoes(from, to) ==
    /\ Alive
    /\ thread = from
    /\ thread' = to
    /\ UNCHANGED <<threadOnly, scrapes>>

\* An accept loop that retries without looking at running_.
LoopForever ==
    ThreadGoes("loop", "calling") /\ UNCHANGED <<conn, waiting>>

\* while (running_), and the call of accept(serverFd_).
Loop ==
    /\ ThreadGoes("loop", IF running THEN "calling" ELSE "ended")
    /\ UNCHANGED <<conn, waiting>>

\* accept() of a socket that listens blocks; of a socket that was shut down, of
\* a closed one and of -1 it fails at once, so it does not matter which value
\* of serverFd_ the unsynchronised read of it returned.
CallAccept ==
    /\ ThreadGoes("calling", IF fd = "listening" /\ ~shut THEN "accepting"
                             ELSE "loop")
    /\ UNCHANGED <<conn, waiting>>

Accepted ==
    /\ ThreadGoes("accepting", "reading")
    /\ waiting > 0
    /\ waiting' = waiting - 1
    /\ conn' = "silent"

AcceptWoken ==
    /\ ThreadGoes("accepting", "loop")
    /\ shut
    /\ UNCHANGED <<conn, waiting>>

\* read() returned a request that begins with GET /metrics.
ReadMetrics ==
    /\ ThreadGoes("reading", "inCache")
    /\ conn = "full"
    /\ UNCHANGED <<conn, waiting>>

\* read() returned something else: a request for another page, or as much of
\* a GET /metrics as had come by then.  Both are answered 404.
ReadOther ==
    /\ ThreadGoes("reading", "loop")
    /\ conn \in {"part", "other"}
    /\ conn' = "none"
    /\ UNCHANGED waiting

\* read() returned 0: the client hung up.
ReadNothing ==
    /\ ThreadGoes("reading", "loop")
    /\ conn = "gone"
    /\ conn' = "none"
    /\ UNCHANGED waiting

\* generateMetrics calls getStats; the answer is written, the socket closed.
SendMetrics ==
    /\ ThreadGoes("inCache", "loop")
    /\ conn' = "none"
    /\ UNCHANGED waiting

Thread ==
    \/ Loop \/ CallAccept \/ Accepted \/ AcceptWoken \/ ReadMetrics
    \/ ReadOther \/ ReadNothing \/ SendMetrics

\* A scraper connects to the metrics port, and sends its GET /metrics in one
\* segment or in two, or a request for another page.
Connect ==
    /\ Alive
    /\ fd = "listening" /\ ~shut
    /\ scrapes < MaxScrapes
    /\ scrapes' = scrapes + 1
    /\ waiting' = waiting + 1
    /\ UNCHANGED <<threadOnly, thread, conn>>

ScraperSends ==
    /\ Alive
    /\ \/ conn = "silent" /\ conn' \in {"part", "full", "other", "gone"}
       \/ conn = "part" /\ conn' = "full"
    /\ UNCHANGED <<threadOnly, thread, waiting, scrapes>>

-----------------------------------------------------------------------------
\* The process is gone.
Done == ~Alive /\ UNCHANGED vars

Serve(h) == Checked(h) \/ LeaveCache(h)

Next ==
    \/ Main \/ SignalKills \/ SignalShutdown \/ Drained
    \/ \E h \in Handlers :
          \/ \E isStream \in BOOLEAN : Arrive(h, isStream)
          \/ Serve(h) \/ StreamRequest(h) \/ StreamEnds(h)
    \/ Thread \/ Connect \/ ScraperSends
    \/ Done

Spec == Init /\ [][Next]_vars

\* Every thread of the process is scheduled.
ServerSpec ==
    /\ Spec
    /\ WF_vars(Main) /\ WF_vars(Drained) /\ WF_vars(Thread)
    /\ \A h \in Handlers : WF_vars(Serve(h))

\* And every client sends what it has begun to send or hangs up, and ends its
\* stream, no matter how many requests it has sent before.
PatientSpec ==
    /\ ServerSpec
    /\ WF_vars(ScraperSends)
    /\ \A h \in Handlers : SF_vars(StreamEnds(h))

-----------------------------------------------------------------------------
\* cache_ is never reset under anybody: while a handler is under way, or the
\* metrics thread is in getStats, cache_ is allocated.  cache_ is a plain
\* pointer and isReady() tests it once; what makes that enough is the order in
\* which main takes the server down (server.cc:200-211, MetricsServer.cc:74-92).
CacheOutlivesUsers ==
    Alive /\ ((\E h \in Handlers : handler[h] # "free") \/ thread = "inCache")
    => cache

\* When main returns, no handler is cut off in the middle of a call, and the
\* MetricsServer is destroyed with its thread joined and its socket closed
\* (a joinable thread would end the process with std::terminate).
CleanExit ==
    main = "exit" =>
        /\ \A h \in Handlers : handler[h] = "free"
        /\ thread # "none" => thread = "ended" /\ joined /\ fd = "closed"

\* A signal that was caught ends the process (server.cc:69-74, 197-215): with
\* clients that finish what they began, whatever the threads are in the middle
\* of.  "ServerShutdownWithOpenStreamDoesNotHang" (tests/PipelineTest.cc:575)
\* says it of clients that do not, too.
StopsAfterSignal == (installed /\ signals > 0) ~> ~Alive
=============================================================================
