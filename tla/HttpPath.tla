------------------------------ MODULE HttpPath ------------------------------
(***************************************************************************)
(* The HTTP path of the benchmarks.  A client asks an adapter for objects; *)
(* the adapter answers from the cache or fetches from an origin, the same  *)
(* program in its other mode, and fills the cache.  There are two clients  *)
(* and three adapters, in three pairs:                                     *)
(*   bench/investigation/http_client.py with http_service.py next to it;   *)
(*   bench/strong/httpbench.go with bench/strong/http_service.py, which    *)
(*   keeps a connection to the origin and tries a fetch twice (reuse);     *)
(*   httpbench.go with strong/provenance/http_service.before_reuse.py.     *)
(*                                                                         *)
(* A worker is a connection of the client and the adapter's handler thread *)
(* for it.  A client that waits too long closes its connection and goes on *)
(* with another, or fails; the handler, which does not notice before it    *)
(* answers, is lost but works on.  The origin has a thread for each        *)
(* connection it was given.  A fetch fails when the connection breaks or   *)
(* the answer takes too long; the origin may still handle the request.     *)
(***************************************************************************)
EXTENDS Naturals, Sequences, FiniteSets

CONSTANTS
    Objects,     \* the objects that are loaded before anything else
    WarmKeys,    \* what httpbench asks in its warm-up
    Keys,        \* the client's trace: what is asked in the measurement
    Workers,
    Concurrency, \* how many requests the client has under way
    None,
    MaxFaults    \* bound: broken connections, late answers and failed RPCs

VARIABLES
    go,          \* the client is httpbench
    reuse,       \* the adapter keeps its connections
    cache,       \* object -> body, for what the cache holds
    worker,      \* each worker: where it is, its object, attempt, body, status;
                 \* how much of the trace was left with it; lost to the client
    conn,        \* the worker's connection to the origin
    pipe,        \* connection -> requests not yet handled, answers not yet read
    busy,        \* what the origin's thread of a connection is doing
    lock, seen,  \* Handler.lock, and the count its holder has read
    count,       \* Handler.count
    client,      \* the client: phase, trace left, the two counts, the results of
                 \* the phase; the pool's earliest exception and broken threads
    faults,
    handled      \* (history) requests the origin has handled

vars == <<go, reuse, cache, worker, conn, pipe, busy, lock, seen, count,
          client, faults, handled>>

\* A worker opens one connection for each fetch, and one more for each fault.
Connections ==
    Workers \X (1..(Cardinality(Objects) + Len(WarmKeys) + Len(Keys) + MaxFaults))
ASSUME HttpAssumption ==
    /\ IsFiniteSet(Objects) /\ IsFiniteSet(Workers)
    /\ Keys \in Seq({Keys[i] : i \in DOMAIN Keys})
    /\ WarmKeys \in Seq({WarmKeys[i] : i \in DOMAIN WarmKeys})
    /\ Concurrency \in Nat \ {0} /\ MaxFaults \in Nat
    /\ None \notin Connections

unused(w) == {c \in Connections : c[1] = w /\ busy[c] = "unused"}
fresh(w)  == {c \in unused(w) : \A d \in unused(w) : c[2] <= d[2]}

Idle == [at |-> "idle", obj |-> None, attempt |-> 0, body |-> None, status |-> None,
         togo |-> 0, lost |-> FALSE]
at(w, where) == worker[w].at = where
lost(w) == worker[w].lost
move(w, where) == worker' = [worker EXCEPT ![w].at = where]
Fault == faults < MaxFaults /\ faults' = faults + 1
originSide == <<busy, lock, seen, count, handled>>

-----------------------------------------------------------------------------
\* The clients.

\* The requests the client waits for.
underWay == {w \in Workers : ~at(w, "idle") /\ ~lost(w)}
quiet == client.left = <<>> /\ underWay = {}

\* get, client.Get: the next object.  The first ones are asked one after the
\* other; then there are Concurrency threads, except that one which timed out in
\* http_client has a connection it cannot use again.
Ask(w) ==
    /\ client.phase \in {"preload", "warmup", "run"}
    /\ client.left # <<>>
    /\ at(w, "idle")
    /\ Cardinality(underWay) < IF client.phase = "preload" THEN 1
                               ELSE Concurrency - client.broken
    /\ Concurrency = 1 => client.raised = 0
    /\ worker' = [worker EXCEPT ![w] = [Idle EXCEPT !.at = "get", !.obj = Head(client.left),
                                                    !.togo = Len(client.left)]]
    /\ client' = [client EXCEPT !.left = Tail(@)]
    /\ UNCHANGED <<go, reuse, cache, conn, pipe, originSide, faults>>

\* That thread takes the next one all the same, and raises at once.
AskRaises ==
    /\ client.phase = "run" /\ client.broken > 0
    /\ client.left # <<>> /\ Concurrency > 1
    /\ client' = [client EXCEPT !.left = Tail(@)]
    /\ UNCHANGED <<go, reuse, cache, worker, conn, pipe, originSide, faults>>

\* runPhase goes on until its time is up.
TimeUp ==
    /\ go /\ client.phase \in {"warmup", "run"}
    /\ client.left # <<>>
    /\ client' = [client EXCEPT !.left = <<>>]
    /\ UNCHANGED <<go, reuse, cache, worker, conn, pipe, originSide, faults>>

\* A phase begins on new connections: those the client has no use for are closed,
\* and the handlers of them end.
closed == [w \in Workers |-> IF at(w, "idle") THEN None ELSE conn[w]]
WarmUp ==
    /\ go /\ client.phase = "preload" /\ quiet
    /\ client' = [client EXCEPT !.phase = "warmup", !.left = WarmKeys]
    /\ conn' = closed
    /\ UNCHANGED <<go, reuse, cache, worker, pipe, originSide, faults>>

\* (Mutant) The first count is the one from before the warm-up.
ReadBefore_early ==
    /\ client.phase = (IF go THEN "warmup" ELSE "preload") /\ quiet /\ lock = None
    /\ client' = [client EXCEPT !.phase = "run", !.left = Keys,
                                !.before = 0, !.results = <<>>]
    /\ conn' = closed
    /\ UNCHANGED <<go, reuse, cache, worker, pipe, originSide, faults>>

\* origin_count, stats: before and after, /stats reads the count under the lock.
ReadBefore ==
    /\ client.phase = (IF go THEN "warmup" ELSE "preload") /\ quiet /\ lock = None
    /\ client' = [client EXCEPT !.phase = "run", !.left = Keys,
                                !.before = count, !.results = <<>>]
    /\ conn' = closed
    /\ UNCHANGED <<go, reuse, cache, worker, pipe, originSide, faults>>
ReadAfter ==
    /\ client.phase = "run" /\ quiet /\ client.raised = 0 /\ lock = None
    /\ client' = [client EXCEPT !.phase = "done", !.after = count]
    /\ UNCHANGED <<go, reuse, cache, worker, conn, pipe, originSide, faults>>

\* Either raises.
StatsFail ==
    /\ \/ client.phase = (IF go THEN "warmup" ELSE "preload")
       \/ client.phase = "run" /\ client.raised = 0
    /\ quiet /\ Fault
    /\ client' = [client EXCEPT !.phase = "failed"]
    /\ UNCHANGED <<go, reuse, cache, worker, conn, pipe, originSide>>

\* pool.map hands the results on in order: main sees an exception when all that was
\* asked before has ended, cancels what no thread has taken, and leaves the pool
\* when its threads have finished.
SeeRaised ==
    /\ client.phase = "run" /\ client.raised > 0
    /\ \A w \in underWay : worker[w].togo <= client.raised
    /\ client' = [client EXCEPT !.phase = "stopping", !.left = <<>>]
    /\ UNCHANGED <<go, reuse, cache, worker, conn, pipe, originSide, faults>>
Stopped ==
    /\ client.phase = "stopping" /\ underWay = {}
    /\ client' = [client EXCEPT !.phase = "failed"]
    /\ UNCHANGED <<go, reuse, cache, worker, conn, pipe, originSide, faults>>

\* A request has failed.  The first ones must not; httpbench counts an error and
\* goes on; a thread of http_client raises into the pool.
failsOn(w) ==
    IF client.phase = "preload" THEN [client EXCEPT !.phase = "failed", !.left = <<>>]
    ELSE IF go \/ worker[w].togo <= client.raised THEN client
    ELSE [client EXCEPT !.raised = worker[w].togo]

\* The handler raises: its connections are closed, without an answer.  (Go's
\* transport may send a request again that had gone out on a kept connection.)
giveUp(w) ==
    /\ conn' = [conn EXCEPT ![w] = None]
    /\ \/ /\ worker' = [worker EXCEPT ![w] = Idle]
          /\ client' = IF lost(w) THEN client ELSE failsOn(w)
       \/ /\ go /\ ~lost(w)
          /\ worker' = [worker EXCEPT ![w] = [Idle EXCEPT !.at = "get", !.obj = worker[w].obj,
                                                          !.togo = worker[w].togo]]
          /\ UNCHANGED client

\* The client waits no longer, 30 or 15 seconds; the handler does not know.
RequestTimesOut(w) ==
    /\ w \in underWay
    /\ Fault
    /\ worker' = [worker EXCEPT ![w].lost = TRUE]
    /\ client' = IF go \/ client.phase = "preload" THEN failsOn(w)
                 ELSE [failsOn(w) EXCEPT !.broken = @ + 1]
    /\ UNCHANGED <<go, reuse, cache, conn, pipe, originSide>>

-----------------------------------------------------------------------------
\* do_GET of the adapter.

CacheGet(w) ==
    /\ at(w, "get")
    /\ worker' = [worker EXCEPT ![w] =
          IF @.obj \in DOMAIN cache
          THEN [@ EXCEPT !.at = "reply", !.body = cache[worker[w].obj], !.status = "HIT"]
          ELSE [@ EXCEPT !.at = "fetch"]]
    /\ UNCHANGED <<go, reuse, cache, conn, pipe, originSide, client, faults>>

\* Get or Set raises.
RpcFails(w) ==
    /\ at(w, "get") \/ at(w, "fill")
    /\ Fault
    /\ giveUp(w)
    /\ UNCHANGED <<go, reuse, cache, pipe, originSide>>

\* fetch_origin: request on the kept connection or on a new one.
Request(w) ==
    /\ at(w, "fetch")
    /\ \E c \in IF conn[w] = None THEN fresh(w) ELSE {conn[w]} :
       /\ conn' = [conn EXCEPT ![w] = c]
       /\ busy' = [busy EXCEPT ![c] = IF @ = "unused" THEN "idle" ELSE @]
       /\ pipe' = [pipe EXCEPT ![c].requests = Append(@, worker[w].obj)]
    /\ move(w, "await")
    /\ UNCHANGED <<go, reuse, cache, lock, seen, count, handled, client, faults>>

\* getresponse and read: the first answer on the connection.
Response(w) ==
    /\ at(w, "await")
    /\ pipe[conn[w]].answers # <<>>
    /\ worker' = [worker EXCEPT ![w].at = "fill",
                                ![w].body = Head(pipe[conn[w]].answers)]
    /\ pipe' = [pipe EXCEPT ![conn[w]].answers = Tail(@)]
    /\ conn' = IF reuse THEN conn ELSE [conn EXCEPT ![w] = None]
    /\ UNCHANGED <<go, reuse, cache, originSide, client, faults>>

again(w) ==
    /\ worker' = [worker EXCEPT ![w].at = "fetch", ![w].attempt = 1]
    /\ UNCHANGED client

\* (Mutant) The second attempt goes out on the connection of the first.
retry_sameConnection(w) == again(w) /\ UNCHANGED conn

\* After a failure the connection is closed and the second attempt opens its own.
retry(w) == again(w) /\ conn' = [conn EXCEPT ![w] = None]

\* What the origin does with a request whose fetch was given up: it may have got
\* it and handle it late, or never see it.
FetchFails(w) ==
    /\ at(w, "await")
    /\ Fault
    /\ \/ UNCHANGED pipe
       \/ /\ busy[conn[w]] = "idle"
          /\ pipe' = [pipe EXCEPT ![conn[w]].requests = <<>>]
    /\ IF reuse /\ worker[w].attempt = 0
       THEN retry(w) ELSE giveUp(w)
    /\ UNCHANGED <<go, reuse, cache, originSide>>

\* Set, which may not succeed; the object is delivered all the same.
Fill(w) ==
    /\ at(w, "fill")
    /\ \E success \in BOOLEAN :
       /\ cache' = IF success
                   THEN [o \in DOMAIN cache \cup {worker[w].obj} |->
                            IF o = worker[w].obj THEN worker[w].body ELSE cache[o]]
                   ELSE cache
       /\ worker' = [worker EXCEPT ![w].at = "reply",
                        ![w].status = IF success THEN "MISS" ELSE "FILL_FAILED"]
    /\ UNCHANGED <<go, reuse, conn, pipe, originSide, client, faults>>

\* The answer; a handler that was lost finds its connection closed, and ends.
Reply(w) ==
    /\ at(w, "reply")
    /\ worker' = [worker EXCEPT ![w] = Idle]
    /\ IF lost(w) THEN conn' = [conn EXCEPT ![w] = None] /\ UNCHANGED client
       ELSE /\ client' = [client EXCEPT !.results =
                   Append(@, [obj |-> worker[w].obj, body |-> worker[w].body,
                              status |-> worker[w].status])]
            /\ UNCHANGED conn
    /\ UNCHANGED <<go, reuse, cache, pipe, originSide, faults>>

\* The cache evicts.
Evict ==
    /\ \E o \in DOMAIN cache : cache' = [p \in DOMAIN cache \ {o} |-> cache[p]]
    /\ UNCHANGED <<go, reuse, worker, conn, pipe, originSide, client, faults>>

-----------------------------------------------------------------------------
\* do_GET of the origin: count under the lock, sleep, answer.

\* (Mutant) The count is read and written without the lock.
mayCount_unlocked(c) == TRUE

mayCount(c) == lock = None

ReadCount(c) ==
    /\ busy[c] = "idle" /\ pipe[c].requests # <<>>
    /\ mayCount(c)
    /\ lock' = c
    /\ seen' = [seen EXCEPT ![c] = count]
    /\ busy' = [busy EXCEPT ![c] = "counting"]
    /\ UNCHANGED <<go, reuse, cache, worker, conn, pipe, count, client, faults, handled>>

\* (Mutant) The lock is not released.
WriteCount_keepsLock(c) ==
    /\ busy[c] = "counting"
    /\ count' = seen[c] + 1
    /\ busy' = [busy EXCEPT ![c] = "serving"]
    /\ handled' = handled + 1
    /\ UNCHANGED <<go, reuse, cache, worker, conn, pipe, lock, seen, client, faults>>

WriteCount(c) ==
    /\ busy[c] = "counting"
    /\ count' = seen[c] + 1
    /\ lock' = None
    /\ busy' = [busy EXCEPT ![c] = "serving"]
    /\ handled' = handled + 1
    /\ UNCHANGED <<go, reuse, cache, worker, conn, pipe, seen, client, faults>>

Serve(c) ==
    /\ busy[c] = "serving"
    /\ pipe' = [pipe EXCEPT ![c] = [requests |-> Tail(@.requests),
                                    answers  |-> Append(@.answers, Head(@.requests))]]
    /\ busy' = [busy EXCEPT ![c] = "idle"]
    /\ UNCHANGED <<go, reuse, cache, worker, conn, lock, seen, count, client,
                   faults, handled>>

-----------------------------------------------------------------------------
\* With the pattern repeated the objects are loaded first.
Init ==
    /\ go \in BOOLEAN /\ reuse \in BOOLEAN /\ (reuse => go)
    /\ cache = [o \in {} |-> None]
    /\ worker = [w \in Workers |-> Idle]
    /\ conn = [w \in Workers |-> None]
    /\ pipe = [c \in Connections |-> [requests |-> <<>>, answers |-> <<>>]]
    /\ busy = [c \in Connections |-> "unused"]
    /\ lock = None
    /\ seen = [c \in Connections |-> 0]
    /\ count = 0
    /\ \E objects \in {{}, Objects} : \E first \in [1..Cardinality(objects) -> objects] :
          /\ {first[i] : i \in DOMAIN first} = objects
          /\ client = [phase |-> "preload", left |-> first, before |-> 0, after |-> 0,
                       results |-> <<>>, raised |-> 0, broken |-> 0]
    /\ faults = 0 /\ handled = 0

ClientStep == \/ \E w \in Workers : Ask(w)
              \/ AskRaises \/ WarmUp \/ ReadBefore \/ ReadAfter \/ SeeRaised \/ Stopped
WorkerStep(w) == CacheGet(w) \/ Request(w) \/ Response(w) \/ Fill(w) \/ Reply(w)
OriginStep(c) == ReadCount(c) \/ WriteCount(c) \/ Serve(c)

Next == \/ ClientStep \/ TimeUp \/ StatsFail
        \/ \E w \in Workers :
              WorkerStep(w) \/ RpcFails(w) \/ FetchFails(w) \/ RequestTimesOut(w)
        \/ \E c \in Connections : OriginStep(c)
        \/ Evict

\* Threads that can run do run.
Spec == /\ Init /\ [][Next]_vars
        /\ WF_vars(ClientStep)
        /\ \A w \in Workers : WF_vars(WorkerStep(w))
        /\ \A c \in Connections : WF_vars(OriginStep(c))

-----------------------------------------------------------------------------
\* An object is never delivered for another: not after a retry on a connection
\* that once had an answer outstanding, and not from the cache, which a late or
\* wrong answer would have poisoned (http_service.py:28-47, 72-83).
BodyIsOfTheObject ==
    /\ \A i \in DOMAIN client.results : client.results[i].body = client.results[i].obj
    /\ \A o \in DOMAIN cache : cache[o] = o

\* Every request the origin handles is counted, whatever its threads do at the
\* same time (http_service.py:67-68).
EveryRequestCounted ==
    (\A c \in Connections : busy[c] # "counting") => count = handled

\* What the client reports as origin requests covers every object it got that did
\* not come from the cache, and each thing that went wrong, before the measurement or
\* in it, adds one at most: a fetch that failed or was tried again, a fill that
\* raised, a request the client gave up and its handler went on with.  A delta of
\* zero means that every object was a hit; without faults it is the misses
\* (http_client.py:59-73, httpbench.go:187-206).
missed == {i \in DOMAIN client.results : client.results[i].status # "HIT"}
DeltaCoversMisses ==
    client.phase = "done" =>
        /\ Cardinality(missed) <= client.after - client.before
        /\ client.after - client.before <= Cardinality(missed) + faults

\* The client ends: its requests are answered, or fail and it goes on or fails in
\* its turn, after the exception has come through the pool and its threads have
\* finished (http_client.py:55-66, httpbench.go:92-136, 168-191).
ClientEnds == <>(client.phase \in {"done", "failed"})
=============================================================================
