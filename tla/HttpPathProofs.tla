--------------------------- MODULE HttpPathProofs ---------------------------
(***************************************************************************)
(* Theorems about HttpPath for any objects, trace, workers and number of   *)
(* faults: objects are not mixed up, the origin counts exactly, and what    *)
(* the client reports of the count covers its misses.                      *)
(***************************************************************************)
EXTENDS HttpPath, FiniteSetTheorems, TLAPS

Thing == Objects \cup {WarmKeys[i] : i \in DOMAIN WarmKeys}
         \cup {Keys[i] : i \in DOMAIN Keys} \cup {None}
Worker == [at : {"idle", "get", "fetch", "await", "fill", "reply"}, obj : Thing,
           attempt : {0, 1}, body : Thing, status : {None, "HIT", "MISS", "FILL_FAILED"},
           togo : Nat, lost : BOOLEAN]
Pipe == [requests : Seq(Thing), answers : Seq(Thing)]
Result == [obj : Thing, body : Thing, status : {None, "HIT", "MISS", "FILL_FAILED"}]
Client == [phase : {"preload", "warmup", "run", "stopping", "done", "failed"},
           left : Seq(Thing), before : Nat, after : Nat, results : Seq(Result),
           raised : Nat, broken : Nat]

Types ==
    /\ worker \in [Workers -> Worker]
    /\ conn \in [Workers -> Connections \cup {None}]
    /\ pipe \in [Connections -> Pipe]
    /\ busy \in [Connections -> {"unused", "idle", "counting", "serving"}]
    /\ seen \in [Connections -> Nat]
    /\ count \in Nat /\ handled \in Nat /\ faults \in Nat
    /\ client \in Client

\* The lock has one holder, and what the holder has read is still the count.
Counting ==
    /\ count = handled
    /\ \A c \in Connections : busy[c] = "counting" => lock = c /\ seen[c] = count

\* On a connection in use is what its worker waits for, or nothing.
Empty == [requests |-> <<>>, answers |-> <<>>]
Asked(o) == [requests |-> <<o>>, answers |-> <<>>]
Answered(o) == [requests |-> <<>>, answers |-> <<o>>]

Link(w) ==
    /\ conn[w] # None => conn[w][1] = w /\ busy[conn[w]] # "unused"
    /\ at(w, "await") =>
         /\ conn[w] # None
         /\ pipe[conn[w]] \in {Asked(worker[w].obj), Answered(worker[w].obj)}
    /\ ~at(w, "await") /\ conn[w] # None => pipe[conn[w]] = Empty

Connected ==
    /\ \A w \in Workers : Link(w)
    /\ \A c \in Connections :
         /\ busy[c] = "unused" => pipe[c] = Empty
         /\ busy[c] \in {"counting", "serving"} => pipe[c].requests # <<>>

\* What has been fetched is what was asked for.
Fetched ==
    /\ \A w \in Workers : at(w, "fill") \/ at(w, "reply") => worker[w].body = worker[w].obj
    /\ cache = [o \in DOMAIN cache |-> o]
    /\ \A i \in DOMAIN client.results : client.results[i].body = client.results[i].obj

PathInv == Types /\ Counting /\ Connected /\ Fetched

-----------------------------------------------------------------------------
\* Two workers never share a connection.
LEMMA OwnConnection ==
    ASSUME Connected, NEW w \in Workers, NEW v \in Workers, conn[w] # None, conn[w] = conn[v]
    PROVE  w = v
  BY DEF Connected, Link

\* A worker is not concerned by what happens on other connections.
LEMMA LinkKept ==
    ASSUME NEW v \in Workers, Link(v), conn'[v] = conn[v], worker'[v] = worker[v],
           conn[v] # None => /\ busy'[conn[v]] # "unused" \/ busy[conn[v]] = "unused"
                             /\ pipe'[conn[v]] = pipe[conn[v]]
    PROVE  Link(v)'
  BY DEF Link, at

\* What one answer, or one request served, leaves on a connection.
LEMMA OneOnThePipe ==
    ASSUME NEW o \in Thing
    PROVE  /\ Append(<<>>, o) = <<o>>
           /\ Tail(<<o>>) = <<>>
           /\ Head(<<o>>) = o
           /\ <<o>> # <<>>
           /\ <<o>> \in Seq(Thing)
  OBVIOUS

\* The empty sequence is one of each kind.
LEMMA NothingIsASequence == <<>> \in Seq(Thing) /\ <<>> \in Seq(Result)
  OBVIOUS

\* The invariant holds at the start.
LEMMA PathInit == Init => PathInv
  <1> SUFFICES ASSUME Init PROVE PathInv
    OBVIOUS
  <1>1. Cardinality(Objects) \in Nat
    BY HttpAssumption, FS_CardinalityType
  <1>2. Types
    <2>1. client \in Client
      <3>1. PICK objects \in {{}, Objects} : \E first \in [1..Cardinality(objects) -> objects] :
                client = [phase |-> "preload", left |-> first, before |-> 0, after |-> 0,
                          results |-> <<>>, raised |-> 0, broken |-> 0]
        BY DEF Init
      <3>2. PICK first \in [1..Cardinality(objects) -> objects] :
                client = [phase |-> "preload", left |-> first, before |-> 0, after |-> 0,
                          results |-> <<>>, raised |-> 0, broken |-> 0]
        BY <3>1
      <3>3. Cardinality(objects) \in Nat /\ objects \subseteq Thing
        BY <1>1, FS_EmptySet DEF Thing
      <3>4. first \in Seq(Thing)
        BY <3>3
      <3> QED
        BY <3>2, <3>4, NothingIsASequence DEF Client
    <2>2. Idle \in Worker
      BY DEF Idle, Worker, Thing
    <2>3. Empty \in Pipe
      BY DEF Empty, Pipe
    <2> QED
      BY <2>1, <2>2, <2>3 DEF Init, Types, Empty
  <1>3. Counting
    BY DEF Init, Counting
  <1>4. Connected
    BY DEF Init, Connected, Link, at, Idle, Empty
  <1>5. Fetched
    <2>1. client.results = <<>>
      BY DEF Init
    <2>2. \A w \in Workers : worker[w].at = "idle"
      BY DEF Init, Idle
    <2> QED
      BY <2>1, <2>2 DEF Init, Fetched, at
  <1> QED
    BY <1>2, <1>3, <1>4, <1>5 DEF PathInv

-----------------------------------------------------------------------------
\* The client.

\* get, client.Get: the next object.
LEMMA PathAsk == ASSUME PathInv, NEW w \in Workers, Ask(w) PROVE PathInv'
  <1> USE DEF PathInv
  <1> DEFINE n == [Idle EXCEPT !.at = "get", !.obj = Head(client.left),
                               !.togo = Len(client.left)]
  <1>1. /\ at(w, "idle")
        /\ worker' = [worker EXCEPT ![w] = n]
        /\ client.left # <<>>
        /\ client' = [client EXCEPT !.left = Tail(@)]
        /\ UNCHANGED <<cache, conn, pipe, busy, lock, seen, count, handled, faults>>
    BY DEF Ask, originSide
  <1>2. client.left \in Seq(Thing) /\ client.left # <<>>
    BY <1>1 DEF Types, Client
  <1>3. /\ Head(client.left) \in Thing /\ Tail(client.left) \in Seq(Thing)
        /\ Len(client.left) \in Nat
    BY <1>2
  <1>4. client' \in Client /\ client'.results = client.results
    BY <1>1, <1>3 DEF Types, Client
  <1>5. n \in Worker /\ n.at = "get"
    BY <1>3 DEF Idle, Worker, Thing
  <1> HIDE DEF n
  <1>6. Types'
    BY <1>1, <1>4, <1>5 DEF Types
  <1>7. Counting'
    BY <1>1 DEF Counting
  <1>8. worker'[w].at = "get" /\ \A v \in Workers \ {w} : worker'[v] = worker[v]
    BY <1>1, <1>5 DEF Types
  <1>9. Connected'
    BY <1>1, <1>8 DEF Connected, Link, at
  <1>10. Fetched'
    BY <1>1, <1>4, <1>8 DEF Fetched, at
  <1> QED
    BY <1>6, <1>7, <1>9, <1>10

\* What the client does by itself: it moves between its phases, and reads the count.
LEMMA ClientMoves ==
    ASSUME PathInv,
           AskRaises \/ TimeUp \/ WarmUp \/ ReadBefore \/ ReadAfter \/ StatsFail
              \/ SeeRaised \/ Stopped
    PROVE  /\ client' \in Client
           /\ client'.results = <<>> \/ client'.results = client.results
           /\ UNCHANGED <<cache, worker, pipe, busy, lock, seen, count, handled>>
           /\ conn' = conn \/ conn' = closed
           /\ faults' = faults \/ faults' = faults + 1
  <1>0. client \in Client /\ count \in Nat /\ client.left \in Seq(Thing)
    BY DEF PathInv, Types, Client
  <1>1. Keys \in Seq(Thing) /\ WarmKeys \in Seq(Thing)
    BY HttpAssumption DEF Thing
  <1>2. /\ UNCHANGED <<cache, worker, pipe, busy, lock, seen, count, handled>>
        /\ conn' = conn \/ conn' = closed
        /\ faults' = faults \/ faults' = faults + 1
    BY DEF AskRaises, TimeUp, WarmUp, ReadBefore, ReadAfter, StatsFail, SeeRaised,
           Stopped, Fault, originSide
  <1> DEFINE Fine == /\ client' \in Client
                     /\ client'.results = <<>> \/ client'.results = client.results
  <1>3. CASE AskRaises
    <2>1. client' = [client EXCEPT !.left = Tail(client.left)] /\ client.left # <<>>
      BY <1>3 DEF AskRaises
    <2>2. Tail(client.left) \in Seq(Thing)
      BY <1>0, <2>1
    <2> QED
      BY <1>0, <1>2, <2>1, <2>2 DEF Client
  <1>4. CASE TimeUp \/ SeeRaised
    <2>1. \/ client' = [client EXCEPT !.left = <<>>]
          \/ client' = [client EXCEPT !.phase = "stopping", !.left = <<>>]
      BY <1>4 DEF TimeUp, SeeRaised
    <2>2. Fine
      BY <1>0, <2>1, NothingIsASequence DEF Client
    <2> QED
      BY <1>2, <2>2
  <1>5. CASE WarmUp
    <2>1. client' = [client EXCEPT !.phase = "warmup", !.left = WarmKeys]
      BY <1>5 DEF WarmUp
    <2>2. Fine
      BY <1>0, <1>1, <2>1 DEF Client
    <2> QED
      BY <1>2, <2>2
  <1>6. CASE ReadBefore
    <2>1. client' = [client EXCEPT !.phase = "run", !.left = Keys, !.before = count,
                                   !.results = <<>>]
      BY <1>6 DEF ReadBefore
    <2>2. Fine
      BY <1>0, <1>1, <2>1, NothingIsASequence DEF Client
    <2> QED
      BY <1>2, <2>2
  <1>7. CASE ReadAfter
    <2>1. client' = [client EXCEPT !.phase = "done", !.after = count]
      BY <1>7 DEF ReadAfter
    <2>2. Fine
      BY <1>0, <2>1 DEF Client
    <2> QED
      BY <1>2, <2>2
  <1>8. CASE StatsFail \/ Stopped
    <2>1. client' = [client EXCEPT !.phase = "failed"]
      BY <1>8 DEF StatsFail, Stopped
    <2>2. Fine
      BY <1>0, <2>1 DEF Client
    <2> QED
      BY <1>2, <2>2
  <1> QED
    BY <1>3, <1>4, <1>5, <1>6, <1>7, <1>8

\* The connections of idle workers that a new phase closes.
LEMMA ClosedConnections ==
    ASSUME PathInv, conn' = conn \/ conn' = closed
    PROVE  /\ conn' \in [Workers -> Connections \cup {None}]
           /\ \A w \in Workers : conn'[w] = conn[w] \/ (conn'[w] = None /\ at(w, "idle"))
  BY DEF closed, PathInv, Types

\* Those steps keep the invariant.
LEMMA PathClient ==
    ASSUME PathInv,
           AskRaises \/ TimeUp \/ WarmUp \/ ReadBefore \/ ReadAfter \/ StatsFail
              \/ SeeRaised \/ Stopped
    PROVE  PathInv'
  <1> USE DEF PathInv
  <1>1. /\ client' \in Client
        /\ client'.results = <<>> \/ client'.results = client.results
        /\ UNCHANGED <<cache, worker, pipe, busy, lock, seen, count, handled>>
        /\ faults' \in Nat
    BY ClientMoves DEF Types
  <1>2. /\ conn' \in [Workers -> Connections \cup {None}]
        /\ \A w \in Workers : conn'[w] = conn[w] \/ (conn'[w] = None /\ at(w, "idle"))
    BY ClientMoves, ClosedConnections
  <1>3. Types' /\ Counting'
    BY <1>1, <1>2 DEF Types, Counting
  <1>4. Connected'
    BY <1>1, <1>2 DEF Connected, Link, at
  <1>5. Fetched'
    BY <1>1 DEF Fetched, at
  <1> QED
    BY <1>3, <1>4, <1>5

\* What a failed request makes of the client.
LEMMA FailsOn ==
    ASSUME Types, NEW w \in Workers
    PROVE  /\ failsOn(w) \in Client /\ failsOn(w).results = client.results
           /\ failsOn(w).before = client.before /\ failsOn(w).after = client.after
           /\ failsOn(w).phase \in {client.phase, "failed"}
  <1>1. client \in Client /\ worker[w].togo \in Nat
    BY DEF Types, Worker
  <1>2. \/ failsOn(w) = client
        \/ failsOn(w) = [client EXCEPT !.phase = "failed", !.left = <<>>]
        \/ failsOn(w) = [client EXCEPT !.raised = worker[w].togo]
    BY DEF failsOn
  <1> QED
    BY <1>1, <1>2, NothingIsASequence DEF Client

\* The handler raises: what giveUp does to its worker and the client.
LEMMA GiveUp ==
    ASSUME Types, NEW w \in Workers, giveUp(w)
    PROVE  /\ worker' \in [Workers -> Worker]
           /\ worker'[w].at \in {"idle", "get"} /\ ~worker'[w].lost
           /\ \A v \in Workers \ {w} : worker'[v] = worker[v]
           /\ conn' = [conn EXCEPT ![w] = None]
           /\ client' \in Client /\ client'.results = client.results
           /\ client'.before = client.before /\ client'.after = client.after
           /\ client'.phase \in {client.phase, "failed"}
  <1>0. worker \in [Workers -> Worker] /\ worker[w] \in Worker /\ client \in Client
    BY DEF Types
  <1> DEFINE n == [Idle EXCEPT !.at = "get", !.obj = worker[w].obj, !.togo = worker[w].togo]
  <1>1. Idle \in Worker /\ Idle.at = "idle" /\ ~Idle.lost
    BY DEF Idle, Worker, Thing
  <1>2. n \in Worker /\ n.at = "get" /\ ~n.lost
    BY <1>0 DEF Idle, Worker, Thing
  <1>3. worker' = [worker EXCEPT ![w] = Idle] \/ worker' = [worker EXCEPT ![w] = n]
    BY DEF giveUp
  <1>4. client' = client \/ client' = failsOn(w)
    BY DEF giveUp
  <1>5. /\ client' \in Client /\ client'.results = client.results
        /\ client'.before = client.before /\ client'.after = client.after
        /\ client'.phase \in {client.phase, "failed"}
    BY <1>0, <1>4, FailsOn
  <1> HIDE DEF n
  <1>6. /\ worker' \in [Workers -> Worker]
        /\ \A v \in Workers \ {w} : worker'[v] = worker[v]
        /\ worker'[w] = Idle \/ worker'[w] = n
    BY <1>0, <1>1, <1>2, <1>3
  <1>7. worker'[w].at \in {"idle", "get"} /\ ~worker'[w].lost
    BY <1>1, <1>2, <1>6
  <1> QED
    BY <1>5, <1>6, <1>7 DEF giveUp

\* The client waits no longer.
LEMMA TimesOut ==
    ASSUME Types, NEW w \in Workers, RequestTimesOut(w)
    PROVE  /\ worker' \in [Workers -> Worker]
           /\ worker'[w] = [worker[w] EXCEPT !.lost = TRUE]
           /\ worker'[w].at = worker[w].at /\ worker'[w].obj = worker[w].obj
           /\ worker'[w].body = worker[w].body /\ worker'[w].lost
           /\ \A v \in Workers \ {w} : worker'[v] = worker[v]
           /\ client' \in Client /\ client'.results = client.results
           /\ client'.before = client.before /\ client'.after = client.after
           /\ client'.phase \in {client.phase, "failed"}
           /\ faults' = faults + 1
           /\ UNCHANGED <<cache, conn, pipe, busy, lock, seen, count, handled>>
  <1>0. worker \in [Workers -> Worker] /\ worker[w] \in Worker /\ client \in Client
    BY DEF Types
  <1>1. /\ worker' = [worker EXCEPT ![w].lost = TRUE] /\ faults' = faults + 1
        /\ UNCHANGED <<cache, conn, pipe, busy, lock, seen, count, handled>>
    BY DEF RequestTimesOut, Fault, originSide
  <1>2. worker'[w] = [worker[w] EXCEPT !.lost = TRUE]
    BY <1>0, <1>1
  <1>3. /\ worker'[w] \in Worker /\ worker'[w].at = worker[w].at
        /\ worker'[w].obj = worker[w].obj /\ worker'[w].body = worker[w].body
        /\ worker'[w].lost
    BY <1>0, <1>2 DEF Worker
  <1>4. /\ worker' \in [Workers -> Worker]
        /\ \A v \in Workers \ {w} : worker'[v] = worker[v]
    BY <1>0, <1>1, <1>3
  <1> PICK f : f = failsOn(w)
    OBVIOUS
  <1>5. f \in Client /\ f.results = client.results /\ f.before = client.before
        /\ f.after = client.after /\ f.phase \in {client.phase, "failed"}
    BY FailsOn
  <1>6. client' = f \/ client' = [f EXCEPT !.broken = @ + 1]
    BY DEF RequestTimesOut
  <1>7. /\ client' \in Client /\ client'.results = client.results
        /\ client'.before = client.before /\ client'.after = client.after
        /\ client'.phase \in {client.phase, "failed"}
    BY <1>5, <1>6 DEF Client
  <1> QED
    BY <1>1, <1>2, <1>3, <1>4, <1>7

\* It keeps the invariant.
LEMMA PathTimesOut == ASSUME PathInv, NEW w \in Workers, RequestTimesOut(w) PROVE PathInv'
  <1> USE DEF PathInv
  <1>1. /\ worker' \in [Workers -> Worker] /\ client' \in Client
        /\ client'.results = client.results /\ faults' = faults + 1
        /\ UNCHANGED <<cache, conn, pipe, busy, lock, seen, count, handled>>
    BY TimesOut
  <1>2. \A v \in Workers : /\ worker'[v].at = worker[v].at
                            /\ worker'[v].obj = worker[v].obj
                            /\ worker'[v].body = worker[v].body
    BY TimesOut
  <1>3. Types' /\ Counting'
    BY <1>1 DEF Types, Counting
  <1>4. Connected'
    BY <1>1, <1>2 DEF Connected, Link, at
  <1>5. Fetched'
    BY <1>1, <1>2 DEF Fetched, at
  <1> QED
    BY <1>3, <1>4, <1>5

-----------------------------------------------------------------------------
\* The adapter.

\* The lookup in the cache.
LEMMA PathCacheGet == ASSUME PathInv, NEW w \in Workers, CacheGet(w) PROVE PathInv'
  <1> USE DEF PathInv
  <1> DEFINE o == worker[w].obj
  <1>1. /\ worker[w].at = "get"
        /\ UNCHANGED <<cache, conn, pipe, busy, lock, seen, count, client, handled, faults>>
    BY DEF CacheGet, at, originSide
  <1>2. worker[w] \in Worker
    BY DEF Types
  <1>3. \/ worker' = [worker EXCEPT ![w] = [@ EXCEPT !.at = "reply", !.body = o, !.status = "HIT"]]
        \/ worker' = [worker EXCEPT ![w] = [@ EXCEPT !.at = "fetch"]]
    BY DEF CacheGet, Fetched
  <1>4. /\ worker' \in [Workers -> Worker]
        /\ worker'[w].at \in {"reply", "fetch"}
        /\ worker'[w].at = "reply" => worker'[w].body = worker'[w].obj
        /\ \A v \in Workers \ {w} : worker'[v] = worker[v]
    <2>1. CASE worker' = [worker EXCEPT ![w] = [@ EXCEPT !.at = "reply", !.body = o, !.status = "HIT"]]
      <3>1. worker'[w] = [worker[w] EXCEPT !.at = "reply", !.body = o, !.status = "HIT"]
        BY <2>1 DEF Types
      <3>2. worker'[w] \in Worker /\ worker'[w].at = "reply" /\ worker'[w].body = worker'[w].obj
        BY <1>2, <3>1 DEF Worker
      <3> QED
        BY <2>1, <3>2 DEF Types
    <2>2. CASE worker' = [worker EXCEPT ![w] = [@ EXCEPT !.at = "fetch"]]
      <3>1. worker'[w] = [worker[w] EXCEPT !.at = "fetch"]
        BY <2>2 DEF Types
      <3>2. worker'[w] \in Worker /\ worker'[w].at = "fetch"
        BY <1>2, <3>1 DEF Worker
      <3> QED
        BY <2>2, <3>2 DEF Types
    <2> QED
      BY <1>3, <2>1, <2>2
  <1>5. Types' /\ Counting'
    BY <1>1, <1>4 DEF Types, Counting
  <1>6. Connected'
    BY <1>1, <1>4 DEF Connected, Link, at
  <1>7. Fetched'
    BY <1>1, <1>4 DEF Fetched, at
  <1> QED
    BY <1>5, <1>6, <1>7

\* A failed RPC.
LEMMA PathRpcFails == ASSUME PathInv, NEW w \in Workers, RpcFails(w) PROVE PathInv'
  <1> USE DEF PathInv
  <1>1. /\ giveUp(w) /\ faults' = faults + 1
        /\ UNCHANGED <<cache, pipe, busy, lock, seen, count, handled>>
    BY DEF RpcFails, Fault, originSide
  <1>r. /\ conn' \in [Workers -> Connections \cup {None}] /\ conn'[w] = None
        /\ \A v \in Workers \ {w} : conn'[v] = conn[v]
    BY <1>1, GiveUp DEF Types
  <1>2. Types' /\ Counting'
    BY <1>1, <1>r, GiveUp DEF Types, Counting
  <1>3. Connected'
    BY <1>1, <1>r, GiveUp DEF Connected, Link, at
  <1>4. Fetched'
    BY <1>1, GiveUp DEF Fetched, at
  <1> QED
    BY <1>2, <1>3, <1>4

\* A request to the origin, on a connection with nothing on it.
LEMMA PathRequest == ASSUME PathInv, NEW w \in Workers, Request(w) PROVE PathInv'
  <1> USE DEF PathInv
  <1> DEFINE o == worker[w].obj
  <1>1. PICK c \in IF conn[w] = None THEN fresh(w) ELSE {conn[w]} :
            /\ conn' = [conn EXCEPT ![w] = c]
            /\ busy' = [busy EXCEPT ![c] = IF @ = "unused" THEN "idle" ELSE @]
            /\ pipe' = [pipe EXCEPT ![c].requests = Append(@, o)]
    BY DEF Request
  <1>2. /\ worker[w].at = "fetch" /\ worker' = [worker EXCEPT ![w].at = "await"]
        /\ UNCHANGED <<cache, lock, seen, count, client, handled, faults>>
    BY DEF Request, move, at
  <1>3. /\ c \in Connections /\ c # None /\ c[1] = w
        /\ pipe[c] = Empty
        /\ \A v \in Workers \ {w} : conn[v] # c
        /\ busy[c] \in {"unused", "idle", "counting", "serving"}
        /\ busy[c] \notin {"counting", "serving"}
    <2>1. CASE conn[w] = None
      BY <1>1, <2>1, HttpAssumption DEF fresh, unused, Connected, Link, Types
    <2>2. CASE conn[w] # None
      <3>1. c = conn[w] /\ c \in Connections
        BY <1>1, <2>2 DEF Types
      <3>2. pipe[c] = Empty /\ c[1] = w
        BY <1>2, <2>2, <3>1 DEF Connected, Link, at
      <3>3. busy[c] \notin {"counting", "serving"}
        BY <3>1, <3>2 DEF Connected, Link, Empty
      <3> QED
        BY <2>2, <3>1, <3>2, <3>3 DEF Connected, Link, Types
    <2> QED
      BY <2>1, <2>2
  <1>4. o \in Thing
    BY DEF Types, Worker
  <1>5. /\ worker' \in [Workers -> Worker] /\ worker'[w].at = "await" /\ worker'[w].obj = o
        /\ \A v \in Workers \ {w} : worker'[v] = worker[v]
    BY <1>2 DEF Types, Worker
  <1>6. /\ conn' \in [Workers -> Connections \cup {None}] /\ conn'[w] = c
        /\ \A v \in Workers \ {w} : conn'[v] = conn[v]
    BY <1>1, <1>3 DEF Types
  <1>7. /\ busy' \in [Connections -> {"unused", "idle", "counting", "serving"}]
        /\ busy'[c] = "idle"
        /\ \A d \in Connections \ {c} : busy'[d] = busy[d]
    BY <1>1, <1>3 DEF Types
  <1>8. /\ pipe' \in [Connections -> Pipe] /\ pipe'[c] = Asked(o)
        /\ \A d \in Connections \ {c} : pipe'[d] = pipe[d]
    <2>1. [pipe[c] EXCEPT !.requests = Append(@, o)] = Asked(o)
      BY <1>3, <1>4, OneOnThePipe DEF Empty, Asked
    <2>2. Asked(o) \in Pipe
      BY <1>4, OneOnThePipe DEF Asked, Pipe
    <2>3. pipe' = [pipe EXCEPT ![c] = Asked(o)]
      BY <1>1, <2>1
    <2> QED
      BY <1>3, <2>2, <2>3 DEF Types
  <1>9. Types'
    BY <1>2, <1>5, <1>6, <1>7, <1>8 DEF Types
  <1>10. Counting'
    BY <1>2, <1>3, <1>7 DEF Counting
  <1>11. Connected'
    <2> HIDE DEF o
    <2>1. ASSUME NEW d \in Connections
          PROVE  /\ busy'[d] = "unused" => pipe'[d] = Empty
                 /\ busy'[d] \in {"counting", "serving"} => pipe'[d].requests # <<>>
      BY <1>3, <1>7, <1>8 DEF Connected, Link
    <2>2. ASSUME NEW v \in Workers, v # w
          PROVE  Link(v)'
      <3>1. conn'[v] = conn[v] /\ worker'[v] = worker[v] /\ conn[v] # c
        BY <1>3, <1>5, <1>6, <2>2
      <3>2. conn[v] # None => /\ conn[v] \in Connections
                              /\ busy'[conn[v]] # "unused" \/ busy[conn[v]] = "unused"
                              /\ pipe'[conn[v]] = pipe[conn[v]]
        BY <1>7, <1>8, <3>1 DEF Types
      <3> QED
        BY <3>1, <3>2, LinkKept DEF Connected
    <2>3. /\ conn'[w] # None /\ conn'[w][1] = w /\ busy'[conn'[w]] # "unused"
          /\ worker'[w].at = "await" /\ pipe'[conn'[w]] = Asked(worker'[w].obj)
      BY <1>3, <1>5, <1>6, <1>7, <1>8
    <2> QED
      BY <2>1, <2>2, <2>3 DEF Connected, Link, at
  <1>12. Fetched'
    BY <1>2, <1>5 DEF Fetched, at
  <1> QED
    BY <1>9, <1>10, <1>11, <1>12

\* The answer is the one to the request.
LEMMA PathResponse == ASSUME PathInv, NEW w \in Workers, Response(w) PROVE PathInv'
  <1> USE DEF PathInv
  <1> DEFINE o == worker[w].obj
             c == conn[w]
  <1>1. /\ worker[w].at = "await" /\ pipe[c].answers # <<>>
        /\ worker' = [worker EXCEPT ![w].at = "fill", ![w].body = Head(pipe[c].answers)]
        /\ pipe' = [pipe EXCEPT ![c].answers = Tail(@)]
        /\ conn' = IF reuse THEN conn ELSE [conn EXCEPT ![w] = None]
        /\ UNCHANGED <<cache, busy, lock, seen, count, client, handled, faults>>
    BY DEF Response, at, originSide
  <1>2. c # None /\ c \in Connections /\ pipe[c] = Answered(o) /\ c[1] = w
    BY <1>1 DEF Connected, Link, at, Types, Asked
  <1>3. o \in Thing /\ worker[w] \in Worker
    BY DEF Types, Worker
  <1>4. Head(pipe[c].answers) = o
    BY <1>2, <1>3, OneOnThePipe DEF Answered
  <1>5. /\ worker' \in [Workers -> Worker] /\ worker'[w].at = "fill"
        /\ worker'[w].body = worker'[w].obj
        /\ \A v \in Workers \ {w} : worker'[v] = worker[v]
    <2>1. worker'[w] = [worker[w] EXCEPT !.at = "fill", !.body = o]
      BY <1>1, <1>4 DEF Types
    <2>2. worker'[w] \in Worker /\ worker'[w].at = "fill" /\ worker'[w].body = worker'[w].obj
      BY <1>3, <2>1 DEF Worker
    <2> QED
      BY <1>1, <2>2 DEF Types
  <1>6. /\ pipe' \in [Connections -> Pipe] /\ pipe'[c] = Empty
        /\ \A d \in Connections \ {c} : pipe'[d] = pipe[d]
    <2>1. [pipe[c] EXCEPT !.answers = Tail(@)] = Empty
      BY <1>2, <1>3, OneOnThePipe DEF Empty, Answered
    <2>2. Empty \in Pipe
      BY NothingIsASequence DEF Empty, Pipe
    <2>3. pipe' = [pipe EXCEPT ![c] = Empty]
      BY <1>1, <2>1
    <2> QED
      BY <1>2, <2>2, <2>3 DEF Types
  <1>7. /\ conn' \in [Workers -> Connections \cup {None}] /\ conn'[w] \in {c, None}
        /\ \A v \in Workers \ {w} : conn'[v] = conn[v]
    BY <1>1 DEF Types
  <1>8. Types' /\ Counting'
    BY <1>1, <1>5, <1>6, <1>7 DEF Types, Counting
  <1>9. Connected'
    <2>1. ASSUME NEW v \in Workers, v # w PROVE Link(v)'
      <3>1. conn[v] # None => conn[v] \in Connections \ {c}
        BY <1>2, <2>1, OwnConnection DEF Types
      <3> QED
        BY <1>1, <1>5, <1>6, <1>7, <2>1, <3>1, LinkKept DEF Connected
    <2>2. Link(w)'
      BY <1>1, <1>2, <1>5, <1>6, <1>7 DEF Connected, Link, at
    <2>3. ASSUME NEW d \in Connections
          PROVE  /\ busy'[d] = "unused" => pipe'[d] = Empty
                 /\ busy'[d] \in {"counting", "serving"} => pipe'[d].requests # <<>>
      BY <1>1, <1>2, <1>6 DEF Connected, Answered, Link
    <2> QED
      BY <2>1, <2>2, <2>3 DEF Connected
  <1>10. Fetched'
    BY <1>1, <1>5 DEF Fetched, at
  <1> QED
    BY <1>8, <1>9, <1>10

\* A fetch is given up, and its connection with it.
LEMMA PathFetchFails == ASSUME PathInv, NEW w \in Workers, FetchFails(w) PROVE PathInv'
  <1> USE DEF PathInv
  <1> DEFINE c == conn[w]
  <1>1. /\ worker[w].at = "await"
        /\ conn' = [conn EXCEPT ![w] = None] /\ faults' = faults + 1
        /\ UNCHANGED <<cache, busy, lock, seen, count, handled>>
    BY DEF FetchFails, retry, giveUp, Fault, at, originSide
  <1>2. c # None /\ c \in Connections /\ busy[c] # "unused"
    BY <1>1 DEF Connected, Link, at, Types
  <1>3. /\ pipe' \in [Connections -> Pipe]
        /\ \A d \in Connections \ {c} : pipe'[d] = pipe[d]
        /\ pipe'[c] = pipe[c] \/ busy[c] = "idle"
    <2>1. CASE UNCHANGED pipe
      BY <2>1 DEF Types
    <2>2. CASE busy[c] = "idle" /\ pipe' = [pipe EXCEPT ![c].requests = <<>>]
      <3>1. [pipe[c] EXCEPT !.requests = <<>>] \in Pipe
        BY <1>2, NothingIsASequence DEF Types, Pipe
      <3> QED
        BY <1>2, <2>2, <3>1 DEF Types
    <2> QED
      BY <2>1, <2>2 DEF FetchFails
  <1>4. /\ worker' \in [Workers -> Worker] /\ worker'[w].at \in {"fetch", "idle", "get"}
        /\ \A v \in Workers \ {w} : worker'[v] = worker[v]
        /\ client' \in Client /\ client'.results = client.results
    <2>1. CASE worker' = [worker EXCEPT ![w].at = "fetch", ![w].attempt = 1] /\ UNCHANGED client
      <3>1. worker'[w] = [worker[w] EXCEPT !.at = "fetch", !.attempt = 1] /\ worker[w] \in Worker
        BY <2>1 DEF Types
      <3>2. worker'[w] \in Worker /\ worker'[w].at = "fetch"
        BY <3>1 DEF Worker
      <3> QED
        BY <2>1, <3>2 DEF Types
    <2>2. CASE giveUp(w)
      BY <2>2, GiveUp
    <2> QED
      BY <2>1, <2>2 DEF FetchFails, retry, again
  <1>5. /\ conn' \in [Workers -> Connections \cup {None}] /\ conn'[w] = None
        /\ \A v \in Workers \ {w} : conn'[v] = conn[v]
    BY <1>1 DEF Types
  <1>6. Types' /\ Counting'
    BY <1>1, <1>3, <1>4, <1>5 DEF Types, Counting
  <1>7. Connected'
    <2>1. ASSUME NEW v \in Workers, v # w PROVE Link(v)'
      <3>1. conn[v] # None => conn[v] \in Connections \ {c}
        BY <1>2, <2>1, OwnConnection DEF Types
      <3> QED
        BY <1>1, <1>3, <1>4, <1>5, <2>1, <3>1, LinkKept DEF Connected
    <2>2. Link(w)'
      BY <1>4, <1>5 DEF Link, at
    <2>3. ASSUME NEW d \in Connections
          PROVE  /\ busy'[d] = "unused" => pipe'[d] = Empty
                 /\ busy'[d] \in {"counting", "serving"} => pipe'[d].requests # <<>>
      BY <1>1, <1>2, <1>3 DEF Connected
    <2> QED
      BY <2>1, <2>2, <2>3 DEF Connected
  <1>8. Fetched'
    BY <1>1, <1>4 DEF Fetched, at
  <1> QED
    BY <1>6, <1>7, <1>8

\* The cache is filled.
LEMMA PathFill == ASSUME PathInv, NEW w \in Workers, Fill(w) PROVE PathInv'
  <1> USE DEF PathInv
  <1> DEFINE o == worker[w].obj
  <1>1. /\ worker[w].at = "fill" /\ worker[w].body = o /\ worker[w] \in Worker
        /\ UNCHANGED <<conn, pipe, busy, lock, seen, count, client, handled, faults>>
    BY DEF Fill, at, originSide, Fetched, Types
  <1>2. PICK success \in BOOLEAN :
          /\ cache' = IF success
                      THEN [p \in DOMAIN cache \cup {o} |-> IF p = o THEN worker[w].body ELSE cache[p]]
                      ELSE cache
          /\ worker' = [worker EXCEPT ![w].at = "reply",
                           ![w].status = IF success THEN "MISS" ELSE "FILL_FAILED"]
    BY DEF Fill
  <1>3. cache' = [p \in DOMAIN cache' |-> p]
    <2>1. cache = [p \in DOMAIN cache |-> p]
      BY DEF Fetched
    <2>2. CASE success
      BY <1>1, <1>2, <2>1, <2>2
    <2>3. CASE ~success
      BY <1>2, <2>1, <2>3
    <2> QED
      BY <2>2, <2>3
  <1>4. PICK status \in {"MISS", "FILL_FAILED"} :
            worker' = [worker EXCEPT ![w] = [@ EXCEPT !.at = "reply", !.status = status]]
    BY <1>2
  <1>5. /\ worker' \in [Workers -> Worker] /\ worker'[w].at = "reply"
        /\ worker'[w].body = worker'[w].obj
        /\ \A v \in Workers \ {w} : worker'[v] = worker[v]
    <2>1. worker'[w] = [worker[w] EXCEPT !.at = "reply", !.status = status]
      BY <1>4 DEF Types
    <2>2. worker'[w] \in Worker /\ worker'[w].at = "reply" /\ worker'[w].body = worker'[w].obj
      BY <1>1, <2>1 DEF Worker
    <2> QED
      BY <1>4, <2>2 DEF Types
  <1>6. Types' /\ Counting'
    BY <1>1, <1>5 DEF Types, Counting
  <1>7. Connected'
    BY <1>1, <1>5 DEF Connected, Link, at
  <1>8. Fetched'
    BY <1>1, <1>3, <1>5 DEF Fetched, at
  <1> QED
    BY <1>6, <1>7, <1>8

\* The client is answered, if it still waits.
LEMMA PathReply == ASSUME PathInv, NEW w \in Workers, Reply(w) PROVE PathInv'
  <1> USE DEF PathInv
  <1> DEFINE r == [obj |-> worker[w].obj, body |-> worker[w].body, status |-> worker[w].status]
  <1>1. /\ worker[w].at = "reply" /\ worker[w].body = worker[w].obj
        /\ worker' = [worker EXCEPT ![w] = Idle]
        /\ client' = client \/ client' = [client EXCEPT !.results = Append(@, r)]
        /\ conn' = conn \/ conn' = [conn EXCEPT ![w] = None]
        /\ UNCHANGED <<cache, pipe, busy, lock, seen, count, handled, faults>>
    BY DEF Reply, at, originSide, Fetched
  <1>2. r \in Result /\ r.body = r.obj
    BY <1>1 DEF Types, Worker, Result
  <1>3. client \in Client /\ client.results \in Seq(Result)
    BY DEF Types, Client
  <1> HIDE DEF r
  <1>4. Append(client.results, r) \in Seq(Result)
    BY <1>2, <1>3
  <1>5. /\ client' \in Client
        /\ client'.results = client.results \/ client'.results = Append(client.results, r)
    BY <1>1, <1>3, <1>4 DEF Client
  <1>6. \A i \in DOMAIN client'.results : client'.results[i].body = client'.results[i].obj
    BY <1>2, <1>3, <1>5 DEF Fetched
  <1>7. Idle \in Worker /\ Idle.at = "idle"
    BY DEF Idle, Worker, Thing
  <1>8. /\ worker' \in [Workers -> Worker] /\ worker'[w].at = "idle"
        /\ \A v \in Workers \ {w} : worker'[v] = worker[v]
    BY <1>1, <1>7 DEF Types
  <1>c. /\ conn' \in [Workers -> Connections \cup {None}]
        /\ conn'[w] = conn[w] \/ conn'[w] = None
        /\ \A v \in Workers \ {w} : conn'[v] = conn[v]
    BY <1>1 DEF Types
  <1>9. Types' /\ Counting'
    BY <1>1, <1>5, <1>8, <1>c DEF Types, Counting
  <1>10. Connected'
    BY <1>1, <1>8, <1>c DEF Connected, Link, at
  <1>11. Fetched'
    BY <1>1, <1>6, <1>8 DEF Fetched, at
  <1> QED
    BY <1>9, <1>10, <1>11

\* An eviction.
LEMMA PathEvict == ASSUME PathInv, Evict PROVE PathInv'
  <1> USE DEF PathInv
  <1>1. UNCHANGED <<worker, conn, pipe, busy, lock, seen, count, client, handled, faults>>
    BY DEF Evict, originSide
  <1>2. cache' = [o \in DOMAIN cache' |-> o]
    BY DEF Evict, Fetched
  <1>3. Types' /\ Counting' /\ Connected'
    BY <1>1 DEF Types, Counting, Connected, Link, at
  <1>4. Fetched'
    BY <1>1, <1>2 DEF Fetched, at
  <1> QED
    BY <1>3, <1>4

-----------------------------------------------------------------------------
\* The origin.

\* The count is read under the lock.
LEMMA PathReadCount == ASSUME PathInv, NEW c \in Connections, ReadCount(c) PROVE PathInv'
  <1> USE DEF PathInv
  <1>1. /\ busy[c] = "idle" /\ pipe[c].requests # <<>> /\ lock = None /\ lock' = c
        /\ seen' = [seen EXCEPT ![c] = count]
        /\ busy' = [busy EXCEPT ![c] = "counting"]
        /\ UNCHANGED <<cache, worker, conn, pipe, count, client, handled, faults>>
    BY DEF ReadCount, mayCount
  <1>2. Types'
    BY <1>1 DEF Types
  <1>3. Counting'
    BY <1>1, HttpAssumption DEF Counting, Types
  <1>4. Connected'
    BY <1>1 DEF Connected, Link, at, Types
  <1>5. Fetched'
    BY <1>1 DEF Fetched, at
  <1> QED
    BY <1>2, <1>3, <1>4, <1>5

\* The count is written, and the lock released.
LEMMA PathWriteCount == ASSUME PathInv, NEW c \in Connections, WriteCount(c) PROVE PathInv'
  <1> USE DEF PathInv
  <1>1. /\ busy[c] = "counting" /\ lock' = None
        /\ count' = seen[c] + 1 /\ handled' = handled + 1
        /\ busy' = [busy EXCEPT ![c] = "serving"]
        /\ UNCHANGED <<cache, worker, conn, pipe, seen, client, faults>>
    BY DEF WriteCount
  <1>2. Types'
    BY <1>1 DEF Types
  <1>3. Counting'
    BY <1>1 DEF Counting, Types
  <1>4. Connected'
    BY <1>1 DEF Connected, Link, at, Types
  <1>5. Fetched'
    BY <1>1 DEF Fetched, at
  <1> QED
    BY <1>2, <1>3, <1>4, <1>5

\* The request is answered.
LEMMA PathServe == ASSUME PathInv, NEW c \in Connections, Serve(c) PROVE PathInv'
  <1> USE DEF PathInv
  <1> DEFINE p == [requests |-> Tail(pipe[c].requests),
                   answers  |-> Append(pipe[c].answers, Head(pipe[c].requests))]
  <1>1. /\ busy[c] = "serving" /\ busy' = [busy EXCEPT ![c] = "idle"]
        /\ pipe' = [pipe EXCEPT ![c] = p]
        /\ UNCHANGED <<cache, worker, conn, lock, seen, count, client, handled, faults>>
    BY DEF Serve
  <1>2. pipe[c].requests # <<>> /\ pipe[c].requests \in Seq(Thing) /\ pipe[c].answers \in Seq(Thing)
    BY <1>1 DEF Connected, Types, Pipe
  <1>3. p \in Pipe
    BY <1>2 DEF Pipe
  <1>4. ASSUME NEW w \in Workers, conn[w] = c, conn[w] # None
        PROVE  worker[w].at = "await" /\ p = Answered(worker[w].obj)
    <2>1. pipe[c] = Asked(worker[w].obj) /\ worker[w].at = "await"
      <3>1. Link(w)
        BY DEF Connected
      <3>2. Empty.requests = <<>> /\ Answered(worker[w].obj).requests = <<>>
        BY DEF Empty, Answered
      <3>3. worker[w].at = "await"
        BY <1>2, <1>4, <3>1, <3>2 DEF Link, at
      <3> QED
        BY <1>2, <1>4, <3>1, <3>2, <3>3 DEF Link, at
    <2>2. worker[w].obj \in Thing
      BY DEF Types, Worker
    <2> QED
      BY <2>1, <2>2, OneOnThePipe DEF Asked, Answered
  <1> HIDE DEF p
  <1>5. pipe' \in [Connections -> Pipe] /\ pipe'[c] = p
        /\ \A d \in Connections \ {c} : pipe'[d] = pipe[d]
    BY <1>1, <1>3 DEF Types
  <1>6. /\ busy' \in [Connections -> {"unused", "idle", "counting", "serving"}]
        /\ busy'[c] = "idle"
        /\ \A d \in Connections \ {c} : busy'[d] = busy[d]
    BY <1>1 DEF Types
  <1>7. Types' /\ Counting'
    BY <1>1, <1>5, <1>6 DEF Types, Counting
  <1>8. Connected'
    <2>1. ASSUME NEW w \in Workers PROVE Link(w)'
      <3>1. CASE conn[w] = c /\ c # None
        BY <1>1, <1>4, <1>5, <1>6, <3>1 DEF Connected, Link, at
      <3>2. CASE conn[w] # c \/ conn[w] = None
        <4>1. conn[w] # None => conn[w] \in Connections \ {c}
          BY <3>2 DEF Types
        <4> QED
          BY <1>1, <1>5, <1>6, <4>1, LinkKept DEF Connected
      <3> QED
        BY <3>1, <3>2
    <2>2. ASSUME NEW d \in Connections
          PROVE  /\ busy'[d] = "unused" => pipe'[d] = Empty
                 /\ busy'[d] \in {"counting", "serving"} => pipe'[d].requests # <<>>
      <3>1. CASE d = c
        BY <1>6, <3>1
      <3>2. CASE d # c
        BY <1>5, <1>6, <3>2 DEF Connected
      <3> QED
        BY <3>1, <3>2
    <2> QED
      BY <2>1, <2>2 DEF Connected
  <1>9. Fetched'
    BY <1>1 DEF Fetched, at
  <1> QED
    BY <1>7, <1>8, <1>9

-----------------------------------------------------------------------------
\* Every step keeps the invariant.
LEMMA PathNext == ASSUME PathInv, [Next]_vars PROVE PathInv'
  <1>1. CASE ClientStep \/ TimeUp \/ StatsFail
    BY <1>1, PathAsk, PathClient DEF ClientStep
  <1>2. CASE \E w \in Workers : \/ WorkerStep(w) \/ RpcFails(w) \/ FetchFails(w)
                                \/ RequestTimesOut(w)
    BY <1>2, PathCacheGet, PathRequest, PathResponse, PathFill, PathReply, PathRpcFails,
       PathFetchFails, PathTimesOut DEF WorkerStep
  <1>3. CASE \E c \in Connections : OriginStep(c)
    BY <1>3, PathReadCount, PathWriteCount, PathServe DEF OriginStep
  <1>4. CASE Evict
    BY <1>4, PathEvict
  <1>5. CASE UNCHANGED vars
    BY <1>5 DEF vars, PathInv, Types, Counting, Connected, Link, Fetched, at
  <1> QED
    BY <1>1, <1>2, <1>3, <1>4, <1>5 DEF Next

\* The invariant holds throughout.
THEOREM PathInvariant == Spec => []PathInv
  BY PathInit, PathNext, PTL DEF Spec

\* No object is delivered or cached for another, whatever breaks on the way to the
\* origin and however late an abandoned answer comes (http_service.py:28-47, 72-83).
THEOREM BodyIsOfTheObjectHolds == Spec => []BodyIsOfTheObject
  <1>1. PathInv => BodyIsOfTheObject
    BY DEF PathInv, Fetched, BodyIsOfTheObject
  <1> QED
    BY <1>1, PathInvariant, PTL

\* Every request the origin handles is counted (http_service.py:67-68).
THEOREM EveryRequestCountedHolds == Spec => []EveryRequestCounted
  <1>1. PathInv => EveryRequestCounted
    BY DEF PathInv, Counting, EveryRequestCounted
  <1> QED
    BY <1>1, PathInvariant, PTL

-----------------------------------------------------------------------------
\* What a request is to the count.  The origin has counted w's fetch, and the client
\* will hear of it; the client will hear of w's fetch, counted or not; nobody will
\* hear of the fetch that w may still make; c holds a request to be counted.
Owes(w) ==
    /\ ~lost(w)
    /\ \/ at(w, "fill")
       \/ at(w, "reply") /\ worker[w].status # "HIT"
       \/ /\ at(w, "await")
          /\ busy[conn[w]] = "serving" \/ pipe[conn[w]].requests = <<>>
Fetches(w) ==
    /\ ~lost(w)
    /\ \/ at(w, "await") \/ at(w, "fill")
       \/ at(w, "reply") /\ worker[w].status # "HIT"
Strays(w) == lost(w) /\ (at(w, "get") \/ at(w, "fetch"))
Pending(c) == pipe[c].requests # <<>> /\ busy[c] \in {"idle", "counting"}

owed == {w \in Workers : Owes(w)}
fetching == {w \in Workers : Fetches(w)}
stray == {w \in Workers : Strays(w)}
pending == {c \in Connections : Pending(c)}

\* What was counted since the measurement began covers what it was for, and no more
\* than one request for each fault is, or can still be, counted for nothing.
Lower == client.before + Cardinality(missed) + Cardinality(owed) <= count
Upper == count + Cardinality(pending) + Cardinality(stray)
            <= client.before + Cardinality(missed) + Cardinality(fetching) + faults

\* No connection has two requests on it.
OneRequest ==
    \A c \in Connections : pipe[c].requests # <<>> => Tail(pipe[c].requests) = <<>>

\* The inductive invariant of DeltaCoversMisses.
DeltaInv ==
    /\ OneRequest /\ Lower /\ Upper
    /\ client.phase = "done" => underWay = {}
    /\ DeltaCoversMisses

-----------------------------------------------------------------------------
\* The results that did not come from the cache, of a sequence of results.
MissedIn(q) == {i \in DOMAIN q : q[i].status # "HIT"}

\* They are finitely many.
LEMMA MissedFinite ==
    ASSUME NEW q \in Seq(Result)
    PROVE  /\ MissedIn(q) \subseteq 1..Len(q)
           /\ IsFiniteSet(MissedIn(q)) /\ Cardinality(MissedIn(q)) \in Nat
  <1>1. Len(q) \in Nat /\ DOMAIN q = 1..Len(q)
    OBVIOUS
  <1>2. IsFiniteSet(1..Len(q)) /\ MissedIn(q) \subseteq 1..Len(q)
    BY <1>1, FS_Interval DEF MissedIn
  <1> QED
    BY <1>2, FS_Subset, FS_CardinalityType

\* One more result adds one at most.
LEMMA MissedGrows ==
    ASSUME NEW q \in Seq(Result), NEW r \in Result
    PROVE  Cardinality(MissedIn(Append(q, r))) =
              Cardinality(MissedIn(q)) + IF r.status = "HIT" THEN 0 ELSE 1
  <1>1. Len(q) \in Nat /\ DOMAIN q = 1..Len(q)
    OBVIOUS
  <1>2. MissedIn(q) \subseteq 1..Len(q)
    BY MissedFinite
  <1>3. IsFiniteSet(MissedIn(q)) /\ Cardinality(MissedIn(q)) \in Nat
    BY MissedFinite
  <1>4. Len(q) + 1 \notin MissedIn(q)
    BY <1>1, <1>2
  <1>5. /\ DOMAIN Append(q, r) = 1..(Len(q) + 1)
        /\ \A i \in 1..Len(q) : Append(q, r)[i] = q[i]
        /\ Append(q, r)[Len(q) + 1] = r
    OBVIOUS
  <1>6. CASE r.status = "HIT"
    <2>1. MissedIn(Append(q, r)) = MissedIn(q)
      BY <1>1, <1>5, <1>6 DEF MissedIn
    <2> QED
      BY <1>3, <1>6, <2>1
  <1>7. CASE r.status # "HIT"
    <2>1. MissedIn(Append(q, r)) = MissedIn(q) \cup {Len(q) + 1}
      BY <1>1, <1>5, <1>7 DEF MissedIn
    <2>2. Cardinality(MissedIn(q) \cup {Len(q) + 1}) = Cardinality(MissedIn(q)) + 1
      BY <1>3, <1>4, FS_AddElement
    <2> QED
      BY <1>3, <1>7, <2>1, <2>2
  <1> QED
    BY <1>3, <1>6, <1>7

\* How sizes follow from inclusions that allow for one element.
LEMMA Sizes ==
    ASSUME NEW A, NEW B, NEW x, IsFiniteSet(A), IsFiniteSet(B)
    PROVE  /\ Cardinality(A) \in Nat /\ Cardinality(B) \in Nat
           /\ A \subseteq B => Cardinality(A) <= Cardinality(B)
           /\ A \subseteq B \cup {x} => Cardinality(A) <= Cardinality(B) + 1
           /\ A \subseteq B \ {x} /\ x \in B => Cardinality(A) + 1 <= Cardinality(B)
           /\ A \cup {x} \subseteq B /\ x \notin A => Cardinality(A) + 1 <= Cardinality(B)
           /\ A \ {x} \subseteq B => Cardinality(A) <= Cardinality(B) + 1
  <1>1. Cardinality(A) \in Nat /\ Cardinality(B) \in Nat
    BY FS_CardinalityType
  <1>2. A \subseteq B => Cardinality(A) <= Cardinality(B)
    BY FS_Subset
  <1>3. /\ IsFiniteSet(B \cup {x}) /\ Cardinality(B \cup {x}) \in Nat
        /\ Cardinality(B \cup {x}) <= Cardinality(B) + 1
    <2>1. /\ IsFiniteSet(B \cup {x})
          /\ Cardinality(B \cup {x}) =
                IF x \in B THEN Cardinality(B) ELSE Cardinality(B) + 1
      BY FS_AddElement
    <2> QED
      BY <1>1, <2>1
  <1>4. /\ IsFiniteSet(A \cup {x})
        /\ x \notin A => Cardinality(A \cup {x}) = Cardinality(A) + 1
    BY <1>1, FS_AddElement
  <1>5. /\ IsFiniteSet(B \ {x})
        /\ x \in B => Cardinality(B \ {x}) = Cardinality(B) - 1
    BY <1>1, FS_RemoveElement
  <1>6. A \subseteq B \cup {x} => Cardinality(A) <= Cardinality(B) + 1
    <2>1. A \subseteq B \cup {x} => Cardinality(A) <= Cardinality(B \cup {x})
      BY <1>3, FS_Subset
    <2> QED
      BY <1>1, <1>3, <2>1
  <1>7. A \subseteq B \ {x} /\ x \in B => Cardinality(A) + 1 <= Cardinality(B)
    <2>1. A \subseteq B \ {x} => Cardinality(A) <= Cardinality(B \ {x})
      BY <1>5, FS_Subset
    <2> QED
      BY <1>1, <1>5, <2>1
  <1>8. A \cup {x} \subseteq B /\ x \notin A => Cardinality(A) + 1 <= Cardinality(B)
    <2>1. A \cup {x} \subseteq B => Cardinality(A \cup {x}) <= Cardinality(B)
      BY FS_Subset
    <2> QED
      BY <1>1, <1>4, <2>1
  <1>9. A \ {x} \subseteq B => A \subseteq B \cup {x}
    OBVIOUS
  <1> QED
    BY <1>1, <1>2, <1>6, <1>7, <1>8, <1>9

\* There are finitely many connections.
LEMMA ConnectionsFinite == IsFiniteSet(Connections)
  <1> DEFINE n == Cardinality(Objects) + Len(WarmKeys) + Len(Keys) + MaxFaults
  <1>1. Cardinality(Objects) \in Nat
    BY HttpAssumption, FS_CardinalityType
  <1>2. Len(WarmKeys) \in Nat /\ Len(Keys) \in Nat /\ MaxFaults \in Nat
    BY HttpAssumption
  <1>3. n \in Nat
    BY <1>1, <1>2
  <1> HIDE DEF n
  <1>4. IsFiniteSet(1..n)
    BY <1>3, FS_Interval
  <1>5. IsFiniteSet(Workers)
    BY HttpAssumption
  <1>6. IsFiniteSet(Workers \X (1..n))
    BY <1>4, <1>5, FS_Product
  <1> QED
    BY <1>6 DEF Connections, n

\* The sets are finite, in a state and the next one.
LEMMA SetsFinite ==
    /\ IsFiniteSet(owed) /\ IsFiniteSet(fetching) /\ IsFiniteSet(stray)
    /\ IsFiniteSet(pending)
    /\ IsFiniteSet(owed') /\ IsFiniteSet(fetching') /\ IsFiniteSet(stray')
    /\ IsFiniteSet(pending')
  <1>1. IsFiniteSet(Workers) /\ IsFiniteSet(Connections)
    BY HttpAssumption, ConnectionsFinite
  <1>2. /\ owed \subseteq Workers /\ fetching \subseteq Workers /\ stray \subseteq Workers
        /\ pending \subseteq Connections
        /\ owed' \subseteq Workers /\ fetching' \subseteq Workers /\ stray' \subseteq Workers
        /\ pending' \subseteq Connections
    BY DEF owed, fetching, stray, pending
  <1> QED
    BY <1>1, <1>2, FS_Subset

\* The numbers of the invariant are numbers.
LEMMA DeltaNumbers ==
    ASSUME PathInv
    PROVE  /\ count \in Nat /\ client.before \in Nat /\ client.after \in Nat
           /\ faults \in Nat /\ client.results \in Seq(Result)
           /\ missed = MissedIn(client.results) /\ Cardinality(missed) \in Nat
  <1>1. /\ client.results \in Seq(Result) /\ count \in Nat /\ client.before \in Nat
        /\ client.after \in Nat /\ faults \in Nat
    BY DEF PathInv, Types, Client
  <1>2. missed = MissedIn(client.results)
    BY DEF missed, MissedIn
  <1>3. Cardinality(missed) \in Nat
    <2> PICK q : q = client.results
      OBVIOUS
    <2> QED
      BY <1>1, <1>2, MissedFinite
  <1> QED
    BY <1>1, <1>2, <1>3

\* A step that counts nothing and delivers nothing, and at which each of the sets
\* moves one way only.
LEMMA NothingLost ==
    ASSUME PathInv, Lower, Upper, count' = count, client'.before = client.before,
           client'.results = client.results, faults' \in Nat, faults <= faults',
           owed' \subseteq owed, pending' \subseteq pending, stray' \subseteq stray,
           fetching \subseteq fetching'
    PROVE  Lower' /\ Upper'
  <1>1. /\ Cardinality(owed) \in Nat /\ Cardinality(owed') \in Nat
        /\ Cardinality(owed') <= Cardinality(owed)
    BY SetsFinite, Sizes
  <1>2. /\ Cardinality(pending) \in Nat /\ Cardinality(pending') \in Nat
        /\ Cardinality(pending') <= Cardinality(pending)
    BY SetsFinite, Sizes
  <1>3. /\ Cardinality(stray) \in Nat /\ Cardinality(stray') \in Nat
        /\ Cardinality(stray') <= Cardinality(stray)
    BY SetsFinite, Sizes
  <1>4. /\ Cardinality(fetching) \in Nat /\ Cardinality(fetching') \in Nat
        /\ Cardinality(fetching) <= Cardinality(fetching')
    BY SetsFinite, Sizes
  <1>5. missed' = missed
    BY DEF missed
  <1>6. /\ count \in Nat /\ client.before \in Nat /\ faults \in Nat
        /\ Cardinality(missed) \in Nat
    BY DeltaNumbers
  <1>7. Lower'
    BY <1>1, <1>5, <1>6 DEF Lower
  <1>8. Upper'
    BY <1>2, <1>3, <1>4, <1>5, <1>6 DEF Upper
  <1> QED
    BY <1>7, <1>8

\* A fault: one fetch the client will not hear of, or one that nobody will.
LEMMA FaultCovers ==
    ASSUME PathInv, Lower, Upper, count' = count, client'.before = client.before,
           client'.results = client.results, faults' = faults + 1, NEW w,
           owed' \subseteq owed, pending' \subseteq pending,
           \/ stray' \subseteq stray /\ fetching \ {w} \subseteq fetching'
           \/ stray' \subseteq stray \cup {w} /\ fetching \subseteq fetching'
    PROVE  Lower' /\ Upper'
  <1>1. /\ Cardinality(owed) \in Nat /\ Cardinality(owed') \in Nat
        /\ Cardinality(owed') <= Cardinality(owed)
    BY SetsFinite, Sizes
  <1>2. /\ Cardinality(pending) \in Nat /\ Cardinality(pending') \in Nat
        /\ Cardinality(pending') <= Cardinality(pending)
    BY SetsFinite, Sizes
  <1>3. /\ Cardinality(stray) \in Nat /\ Cardinality(stray') \in Nat
        /\ stray' \subseteq stray => Cardinality(stray') <= Cardinality(stray)
        /\ stray' \subseteq stray \cup {w} => Cardinality(stray') <= Cardinality(stray) + 1
    BY SetsFinite, Sizes
  <1>4. /\ Cardinality(fetching) \in Nat /\ Cardinality(fetching') \in Nat
        /\ fetching \subseteq fetching' => Cardinality(fetching) <= Cardinality(fetching')
        /\ fetching \ {w} \subseteq fetching'
              => Cardinality(fetching) <= Cardinality(fetching') + 1
    BY SetsFinite, Sizes
  <1>5. missed' = missed
    BY DEF missed
  <1>6. /\ count \in Nat /\ client.before \in Nat /\ faults \in Nat
        /\ Cardinality(missed) \in Nat
    BY DeltaNumbers
  <1>7. Lower'
    BY <1>1, <1>5, <1>6 DEF Lower
  <1>8. Cardinality(stray') + Cardinality(fetching)
           <= Cardinality(stray) + Cardinality(fetching') + 1
    BY <1>3, <1>4
  <1>9. Upper'
    BY <1>2, <1>3, <1>4, <1>5, <1>6, <1>8 DEF Upper
  <1> QED
    BY <1>7, <1>9

-----------------------------------------------------------------------------
\* A worker that does not move, on a connection where nothing moves for it.
LEMMA WorkerKept ==
    ASSUME NEW v \in Workers, worker'[v] = worker[v]
    PROVE  /\ Fetches(v)' <=> Fetches(v)
           /\ Strays(v)' <=> Strays(v)
           /\ /\ at(v, "await") =>
                   /\ conn'[v] = conn[v]
                   /\ busy'[conn[v]] = "serving" <=> busy[conn[v]] = "serving"
                   /\ pipe'[conn[v]].requests = pipe[conn[v]].requests
              => (Owes(v)' <=> Owes(v))
  BY DEF Owes, Fetches, Strays, at, lost

\* A step of w that does not concern the others.
LEMMA OneMoves ==
    ASSUME NEW w \in Workers,
           \A v \in Workers \ {w} :
              /\ worker'[v] = worker[v]
              /\ at(v, "await") =>
                   /\ conn'[v] = conn[v]
                   /\ busy'[conn[v]] = "serving" <=> busy[conn[v]] = "serving"
                   /\ pipe'[conn[v]].requests = pipe[conn[v]].requests
    PROVE  /\ owed' \ {w} = owed \ {w}
           /\ fetching' \ {w} = fetching \ {w}
           /\ stray' \ {w} = stray \ {w}
           /\ (w \in owed <=> Owes(w)) /\ (w \in owed' <=> Owes(w)')
           /\ (w \in fetching <=> Fetches(w)) /\ (w \in fetching' <=> Fetches(w)')
           /\ (w \in stray <=> Strays(w)) /\ (w \in stray' <=> Strays(w)')
  <1>1. \A v \in Workers \ {w} : /\ Owes(v)' <=> Owes(v)
                                 /\ Fetches(v)' <=> Fetches(v)
                                 /\ Strays(v)' <=> Strays(v)
    BY WorkerKept
  <1> QED
    BY <1>1 DEF owed, fetching, stray

\* The same while the origin rests.
LEMMA OwnStep ==
    ASSUME NEW w \in Workers,
           \A v \in Workers \ {w} : worker'[v] = worker[v] /\ conn'[v] = conn[v],
           UNCHANGED <<busy, pipe>>
    PROVE  /\ owed' \ {w} = owed \ {w}
           /\ fetching' \ {w} = fetching \ {w}
           /\ stray' \ {w} = stray \ {w}
           /\ (w \in owed <=> Owes(w)) /\ (w \in owed' <=> Owes(w)')
           /\ (w \in fetching <=> Fetches(w)) /\ (w \in fetching' <=> Fetches(w)')
           /\ (w \in stray <=> Strays(w)) /\ (w \in stray' <=> Strays(w)')
           /\ pending' = pending
  <1>1. pending' = pending
    BY DEF pending, Pending
  <1> QED
    BY <1>1, OneMoves

\* The next object is asked.
LEMMA DeltaAsk ==
    ASSUME PathInv, OneRequest, Lower, Upper, NEW w \in Workers, Ask(w)
    PROVE  OneRequest' /\ Lower' /\ Upper'
  <1> DEFINE n == [Idle EXCEPT !.at = "get", !.obj = Head(client.left),
                               !.togo = Len(client.left)]
  <1>0. worker \in [Workers -> Worker] /\ client \in Client /\ faults \in Nat
    BY DEF PathInv, Types
  <1>1. /\ worker[w].at = "idle" /\ worker' = [worker EXCEPT ![w] = n]
        /\ client' = [client EXCEPT !.left = Tail(@)]
        /\ UNCHANGED <<conn, pipe, busy, count, faults>>
    BY DEF Ask, at, originSide
  <1>2. n.at = "get" /\ ~n.lost
    BY DEF Idle
  <1> HIDE DEF n
  <1>3. /\ worker'[w] = n /\ \A v \in Workers \ {w} : worker'[v] = worker[v]
    BY <1>0, <1>1
  <1>4. ~Owes(w)' /\ ~Fetches(w) /\ ~Strays(w)'
    BY <1>1, <1>2, <1>3 DEF Owes, Fetches, Strays, at, lost
  <1>5. /\ owed' \subseteq owed /\ stray' \subseteq stray /\ fetching \subseteq fetching'
        /\ pending' \subseteq pending
    BY <1>1, <1>3, <1>4, OwnStep
  <1>6. client'.results = client.results /\ client'.before = client.before
    BY <1>0, <1>1 DEF Client
  <1>7. OneRequest'
    BY <1>1 DEF OneRequest
  <1> QED
    BY <1>0, <1>1, <1>5, <1>6, <1>7, NothingLost

\* The lookup in the cache, and the fill.
LEMMA DeltaCache ==
    ASSUME PathInv, OneRequest, Lower, Upper, NEW w \in Workers, CacheGet(w) \/ Fill(w)
    PROVE  OneRequest' /\ Lower' /\ Upper'
  <1>0. worker \in [Workers -> Worker] /\ worker[w] \in Worker /\ faults \in Nat
    BY DEF PathInv, Types
  <1>1. UNCHANGED <<conn, pipe, busy, count, client, faults>>
    BY DEF CacheGet, Fill, originSide
  <1>2. \A v \in Workers \ {w} : worker'[v] = worker[v]
    BY <1>0 DEF CacheGet, Fill
  <1>3. (Owes(w)' => Owes(w)) /\ (Fetches(w) => Fetches(w)') /\ (Strays(w)' => Strays(w))
    <2>1. CASE CacheGet(w)
      <3>1. worker[w].at = "get"
        BY <2>1 DEF CacheGet, at
      <3>2. /\ worker'[w].lost = worker[w].lost
            /\ \/ worker'[w].at = "reply" /\ worker'[w].status = "HIT"
               \/ worker'[w].at = "fetch"
        <4> PICK b : b = cache[worker[w].obj]
          OBVIOUS
        <4>1. \/ worker'[w] = [worker[w] EXCEPT !.at = "reply", !.body = b, !.status = "HIT"]
              \/ worker'[w] = [worker[w] EXCEPT !.at = "fetch"]
          BY <1>0, <2>1 DEF CacheGet
        <4> QED
          BY <1>0, <4>1 DEF Worker
      <3> QED
        BY <3>1, <3>2 DEF Owes, Fetches, Strays, at, lost
    <2>2. CASE Fill(w)
      <3>1. worker[w].at = "fill"
        BY <2>2 DEF Fill, at
      <3>2. PICK status \in {"MISS", "FILL_FAILED"} :
                worker' = [worker EXCEPT ![w] = [@ EXCEPT !.at = "reply", !.status = status]]
        BY <2>2 DEF Fill
      <3>3. worker'[w] = [worker[w] EXCEPT !.at = "reply", !.status = status]
        BY <1>0, <3>2
      <3>4. /\ worker'[w].lost = worker[w].lost /\ worker'[w].at = "reply"
            /\ worker'[w].status # "HIT"
        BY <1>0, <3>3 DEF Worker
      <3> QED
        BY <3>1, <3>4 DEF Owes, Fetches, Strays, at, lost
    <2> QED
      BY <2>1, <2>2
  <1>4. /\ owed' \subseteq owed /\ stray' \subseteq stray /\ fetching \subseteq fetching'
        /\ pending' \subseteq pending
    BY <1>1, <1>2, <1>3, OwnStep
  <1>5. OneRequest'
    BY <1>1 DEF OneRequest
  <1> QED
    BY <1>0, <1>1, <1>4, <1>5, NothingLost

\* A failed RPC: the fetch before a failed fill is one the client does not hear of.
LEMMA DeltaRpcFails ==
    ASSUME PathInv, OneRequest, Lower, Upper, NEW w \in Workers, RpcFails(w)
    PROVE  OneRequest' /\ Lower' /\ Upper'
  <1>0. Types /\ conn \in [Workers -> Connections \cup {None}]
    BY DEF PathInv, Types
  <1>1. giveUp(w) /\ faults' = faults + 1 /\ UNCHANGED <<pipe, busy, count>>
    BY DEF RpcFails, Fault, originSide
  <1>2. /\ \A v \in Workers \ {w} : worker'[v] = worker[v] /\ conn'[v] = conn[v]
        /\ worker'[w].at \in {"idle", "get"} /\ ~worker'[w].lost
        /\ client'.results = client.results /\ client'.before = client.before
    BY <1>0, <1>1, GiveUp
  <1>3. ~Owes(w)' /\ ~Strays(w)'
    BY <1>2 DEF Owes, Strays, at, lost
  <1>4. /\ owed' \subseteq owed /\ stray' \subseteq stray
        /\ fetching \ {w} \subseteq fetching' /\ pending' \subseteq pending
    BY <1>1, <1>2, <1>3, OwnStep
  <1>5. OneRequest'
    BY <1>1 DEF OneRequest
  <1> QED
    BY <1>1, <1>2, <1>4, <1>5, FaultCovers

\* The client waits no longer: for a fetch under way, or one still to come.
LEMMA DeltaTimesOut ==
    ASSUME PathInv, OneRequest, Lower, Upper, NEW w \in Workers, RequestTimesOut(w)
    PROVE  OneRequest' /\ Lower' /\ Upper'
  <1>0. Types
    BY DEF PathInv
  <1>1. /\ worker'[w].at = worker[w].at /\ worker'[w].lost
        /\ \A v \in Workers \ {w} : worker'[v] = worker[v]
        /\ client'.results = client.results /\ client'.before = client.before
        /\ faults' = faults + 1
        /\ UNCHANGED <<conn, pipe, busy, count>>
    BY <1>0, TimesOut
  <1>2. ~Owes(w)' /\ (Strays(w)' => ~Fetches(w))
    BY <1>1 DEF Owes, Strays, Fetches, at, lost
  <1>3. /\ owed' \subseteq owed /\ pending' \subseteq pending
        /\ \/ stray' \subseteq stray /\ fetching \ {w} \subseteq fetching'
           \/ stray' \subseteq stray \cup {w} /\ fetching \subseteq fetching'
    BY <1>1, <1>2, OwnStep
  <1>4. OneRequest'
    BY <1>1 DEF OneRequest
  <1> QED
    BY <1>1, <1>3, <1>4, FaultCovers

\* A fetch goes out: the client will hear of it, or it was expected of a lost handler.
LEMMA DeltaRequest ==
    ASSUME PathInv, OneRequest, Lower, Upper, NEW w \in Workers, Request(w)
    PROVE  OneRequest' /\ Lower' /\ Upper'
  <1> DEFINE o == worker[w].obj
  <1>0. Types /\ Connected /\ o \in Thing /\ worker[w] \in Worker
    BY DEF PathInv, Types, Worker
  <1>1. PICK c \in IF conn[w] = None THEN fresh(w) ELSE {conn[w]} :
            /\ conn' = [conn EXCEPT ![w] = c]
            /\ busy' = [busy EXCEPT ![c] = IF @ = "unused" THEN "idle" ELSE @]
            /\ pipe' = [pipe EXCEPT ![c].requests = Append(@, o)]
    BY DEF Request
  <1>2. /\ worker[w].at = "fetch" /\ worker' = [worker EXCEPT ![w].at = "await"]
        /\ UNCHANGED <<count, client, faults>>
    BY DEF Request, move, at
  <1>3. /\ c \in Connections /\ pipe[c] = Empty
        /\ \A v \in Workers \ {w} : conn[v] # c
        /\ busy[c] \notin {"counting", "serving"}
    <2>1. CASE conn[w] = None
      BY <1>0, <1>1, <2>1, HttpAssumption DEF fresh, unused, Connected, Link, Types
    <2>2. CASE conn[w] # None
      <3>1. c = conn[w] /\ c \in Connections
        BY <1>0, <1>1, <2>2 DEF Types
      <3>2. pipe[c] = Empty /\ c[1] = w
        BY <1>0, <1>2, <2>2, <3>1 DEF Connected, Link, at
      <3>3. busy[c] \notin {"counting", "serving"}
        BY <1>0, <3>1, <3>2 DEF Connected, Link, Empty
      <3> QED
        BY <1>0, <2>2, <3>1, <3>2, <3>3 DEF Connected, Link, Types
    <2> QED
      BY <2>1, <2>2
  <1>4. pipe[c].requests = <<>>
    BY <1>3 DEF Empty
  <1>5. /\ pipe'[c].requests = <<o>> /\ \A d \in Connections \ {c} : pipe'[d] = pipe[d]
    <2>1. pipe'[c].requests = Append(pipe[c].requests, o)
      BY <1>0, <1>1, <1>3 DEF Types, Pipe
    <2> QED
      BY <1>0, <1>1, <1>4, <2>1, OneOnThePipe DEF Types
  <1>6. busy'[c] = "idle" /\ \A d \in Connections \ {c} : busy'[d] = busy[d]
    BY <1>0, <1>1, <1>3 DEF Types
  <1>7. conn'[w] = c /\ \A v \in Workers \ {w} : conn'[v] = conn[v]
    BY <1>0, <1>1 DEF Types
  <1>8. /\ worker'[w].at = "await" /\ worker'[w].lost = worker[w].lost
        /\ \A v \in Workers \ {w} : worker'[v] = worker[v]
    BY <1>0, <1>2 DEF Types, Worker
  <1>9. <<o>> # <<>> /\ Tail(<<o>>) = <<>>
    BY <1>0, OneOnThePipe
  <1> HIDE DEF o
  <1>10. OneRequest'
    BY <1>5, <1>9 DEF OneRequest
  <1>11. ~Owes(w)' /\ ~Strays(w)' /\ ~Fetches(w)
         /\ (Fetches(w)' \/ Strays(w))
    BY <1>2, <1>5, <1>6, <1>7, <1>8, <1>9 DEF Owes, Strays, Fetches, at, lost
  <1>12. ASSUME NEW v \in Workers \ {w}, at(v, "await")
         PROVE  /\ conn'[v] = conn[v]
                /\ busy'[conn[v]] = "serving" <=> busy[conn[v]] = "serving"
                /\ pipe'[conn[v]].requests = pipe[conn[v]].requests
    <2>1. conn[v] \in Connections \ {c}
      BY <1>0, <1>3, <1>12 DEF Connected, Link, Types
    <2> QED
      BY <1>5, <1>6, <1>7, <2>1
  <1>13. /\ owed' \subseteq owed /\ stray' \subseteq stray /\ fetching \subseteq fetching'
         /\ \/ w \notin fetching /\ fetching \cup {w} \subseteq fetching'
            \/ w \in stray /\ stray' \subseteq stray \ {w}
    BY <1>8, <1>11, <1>12, OneMoves
  <1>14. pending' \subseteq pending \cup {c}
    BY <1>5, <1>6 DEF pending, Pending
  <1>15. /\ Cardinality(owed) \in Nat /\ Cardinality(owed') \in Nat
         /\ Cardinality(owed') <= Cardinality(owed)
    BY <1>13, SetsFinite, Sizes
  <1>16. /\ Cardinality(pending) \in Nat /\ Cardinality(pending') \in Nat
         /\ Cardinality(pending') <= Cardinality(pending) + 1
    BY <1>14, SetsFinite, Sizes
  <1>17. /\ Cardinality(stray) \in Nat /\ Cardinality(stray') \in Nat
         /\ Cardinality(stray') <= Cardinality(stray)
         /\ w \in stray /\ stray' \subseteq stray \ {w}
               => Cardinality(stray') + 1 <= Cardinality(stray)
    BY <1>13, SetsFinite, Sizes
  <1>18. /\ Cardinality(fetching) \in Nat /\ Cardinality(fetching') \in Nat
         /\ Cardinality(fetching) <= Cardinality(fetching')
         /\ w \notin fetching /\ fetching \cup {w} \subseteq fetching'
               => Cardinality(fetching) + 1 <= Cardinality(fetching')
    BY <1>13, SetsFinite, Sizes
  <1>19. Cardinality(stray') + Cardinality(fetching) + 1
            <= Cardinality(stray) + Cardinality(fetching')
    BY <1>13, <1>17, <1>18
  <1>20. missed' = missed
    BY <1>2 DEF missed
  <1>21. /\ count \in Nat /\ client.before \in Nat /\ faults \in Nat
         /\ Cardinality(missed) \in Nat
    BY DeltaNumbers
  <1>22. Lower'
    BY <1>2, <1>15, <1>20, <1>21 DEF Lower
  <1>23. Upper'
    BY <1>2, <1>16, <1>17, <1>18, <1>19, <1>20, <1>21 DEF Upper
  <1> QED
    BY <1>10, <1>22, <1>23

\* The answer is read: the fetch had been counted.
LEMMA DeltaResponse ==
    ASSUME PathInv, OneRequest, Lower, Upper, NEW w \in Workers, Response(w)
    PROVE  OneRequest' /\ Lower' /\ Upper'
  <1> PICK c : c = conn[w]
    OBVIOUS
  <1>0. Types /\ Connected /\ faults \in Nat
    BY DEF PathInv, Types
  <1>1. /\ worker[w].at = "await" /\ pipe[c].answers # <<>>
        /\ pipe' = [pipe EXCEPT ![c].answers = Tail(@)]
        /\ conn' = IF reuse THEN conn ELSE [conn EXCEPT ![w] = None]
        /\ UNCHANGED <<busy, count, client, faults>>
    BY DEF Response, at, originSide
  <1>2. /\ worker'[w].at = "fill" /\ worker'[w].lost = worker[w].lost
        /\ \A v \in Workers \ {w} : worker'[v] = worker[v]
    BY <1>0 DEF Response, Types, Worker
  <1>3. c # None /\ c \in Connections /\ pipe[c] = Answered(worker[w].obj)
    BY <1>0, <1>1 DEF Connected, Link, at, Types, Asked
  <1>4. pipe[c].requests = <<>>
    BY <1>3 DEF Answered
  <1>5. \A d \in Connections : pipe'[d].requests = pipe[d].requests
    BY <1>0, <1>1, <1>3 DEF Types, Pipe
  <1>6. \A v \in Workers \ {w} : conn'[v] = conn[v]
    BY <1>0, <1>1 DEF Types
  <1>7. (Owes(w)' => Owes(w)) /\ (Fetches(w) => Fetches(w)') /\ ~Strays(w)'
    BY <1>1, <1>2, <1>4 DEF Owes, Fetches, Strays, at, lost
  <1>8. ASSUME NEW v \in Workers \ {w}, at(v, "await")
        PROVE  pipe'[conn[v]].requests = pipe[conn[v]].requests
    <2>1. conn[v] \in Connections
      BY <1>0, <1>8 DEF Connected, Link, Types
    <2> QED
      BY <1>5, <2>1
  <1>9. pending' \subseteq pending
    BY <1>1, <1>5 DEF pending, Pending
  <1>10. owed' \subseteq owed /\ stray' \subseteq stray /\ fetching \subseteq fetching'
    BY <1>1, <1>2, <1>6, <1>7, <1>8, OneMoves
  <1>11. OneRequest'
    BY <1>5 DEF OneRequest
  <1> QED
    BY <1>0, <1>1, <1>9, <1>10, <1>11, NothingLost

\* A fetch fails: it stays pending, or is tried again for nobody.
LEMMA DeltaFetchFails ==
    ASSUME PathInv, OneRequest, Lower, Upper, NEW w \in Workers, FetchFails(w)
    PROVE  OneRequest' /\ Lower' /\ Upper'
  <1> PICK c : c = conn[w]
    OBVIOUS
  <1>0. Types /\ Connected /\ worker[w] \in Worker
    BY DEF PathInv, Types
  <1>1. /\ worker[w].at = "await" /\ faults' = faults + 1
        /\ conn' = [conn EXCEPT ![w] = None]
        /\ UNCHANGED <<busy, count>>
    BY DEF FetchFails, retry, giveUp, Fault, at, originSide
  <1>2. c # None /\ c \in Connections
    BY <1>0, <1>1 DEF Connected, Link, at, Types
  <1>3. /\ pipe'[c].requests \in {pipe[c].requests, <<>>}
        /\ \A d \in Connections \ {c} : pipe'[d] = pipe[d]
    BY <1>0, <1>2 DEF FetchFails, Types, Pipe
  <1>4. /\ \A v \in Workers \ {w} : worker'[v] = worker[v]
        /\ worker'[w].at \in {"fetch", "idle", "get"}
        /\ ~worker[w].lost => ~worker'[w].lost
        /\ client'.results = client.results /\ client'.before = client.before
    <2>1. CASE worker' = [worker EXCEPT ![w].at = "fetch", ![w].attempt = 1] /\ UNCHANGED client
      <3>1. worker'[w] = [worker[w] EXCEPT !.at = "fetch", !.attempt = 1]
        BY <1>0, <2>1 DEF Types
      <3>2. worker'[w].at = "fetch" /\ worker'[w].lost = worker[w].lost
        BY <1>0, <3>1 DEF Worker
      <3> QED
        BY <1>0, <2>1, <3>2 DEF Types
    <2>2. CASE giveUp(w)
      BY <1>0, <2>2, GiveUp
    <2> QED
      BY <2>1, <2>2 DEF FetchFails, retry, again
  <1>5. \A v \in Workers \ {w} : conn'[v] = conn[v] /\ conn[v] # c
    BY <1>0, <1>1, <1>2, OwnConnection DEF Types
  <1>6. ~Owes(w)' /\ (Strays(w)' => ~Fetches(w))
    BY <1>4 DEF Owes, Strays, Fetches, at, lost
  <1>7. ASSUME NEW v \in Workers \ {w}, at(v, "await")
        PROVE  pipe'[conn[v]].requests = pipe[conn[v]].requests
    <2>1. conn[v] \in Connections \ {c}
      BY <1>0, <1>5, <1>7 DEF Connected, Link, Types
    <2> QED
      BY <1>3, <2>1
  <1>8. pending' \subseteq pending
    BY <1>1, <1>3 DEF pending, Pending
  <1>9. /\ owed' \subseteq owed
        /\ \/ stray' \subseteq stray /\ fetching \ {w} \subseteq fetching'
           \/ stray' \subseteq stray \cup {w} /\ fetching \subseteq fetching'
    BY <1>1, <1>4, <1>5, <1>6, <1>7, OneMoves
  <1>10. OneRequest'
    BY <1>3 DEF OneRequest
  <1> QED
    BY <1>1, <1>4, <1>8, <1>9, <1>10, FaultCovers

\* A bound is kept by what takes no more from one side than from the other.
LEMMA StillBounded ==
    ASSUME NEW n \in Nat, NEW p \in Nat, NEW s \in Nat, NEW t \in Nat,
           NEW b \in Nat, NEW m \in Nat, NEW f \in Nat, NEW k \in Nat,
           NEW x \in Nat, NEW y \in Nat,
           n + p + s <= b + m + f + k, t <= s, m + f <= x + y
    PROVE  n + p + t <= b + x + y + k
  OBVIOUS

\* A result reaches the client: what its worker owed is now a miss.
LEMMA DeltaReply ==
    ASSUME PathInv, OneRequest, Lower, Upper, NEW w \in Workers, Reply(w)
    PROVE  OneRequest' /\ Lower' /\ Upper'
  <1>0. Types /\ faults \in Nat /\ client \in Client
    BY DEF PathInv, Types
  <1>1. /\ worker[w].at = "reply" /\ worker' = [worker EXCEPT ![w] = Idle]
        /\ conn' = conn \/ conn' = [conn EXCEPT ![w] = None]
        /\ UNCHANGED <<pipe, busy, count, faults>>
    BY DEF Reply, at, originSide
  <1>2. /\ worker'[w] = Idle
        /\ \A v \in Workers \ {w} : worker'[v] = worker[v] /\ conn'[v] = conn[v]
    BY <1>0, <1>1 DEF Types
  <1>3. ~Owes(w)' /\ ~Strays(w)'
    <2>1. Idle.at = "idle"
      BY DEF Idle
    <2> QED
      BY <1>2, <2>1 DEF Owes, Strays, at
  <1>4. /\ Owes(w) <=> ~lost(w) /\ worker[w].status # "HIT"
        /\ Fetches(w) <=> ~lost(w) /\ worker[w].status # "HIT"
    BY <1>1 DEF Owes, Fetches, at
  <1>5. /\ owed' = owed \ {w} /\ stray' \subseteq stray /\ pending' = pending
        /\ fetching \ {w} \subseteq fetching'
        /\ (w \in owed <=> Owes(w)) /\ (w \in fetching <=> Fetches(w))
    BY <1>1, <1>2, <1>3, OwnStep
  <1>6. OneRequest'
    BY <1>1 DEF OneRequest
  <1>7. CASE lost(w)
    <2>1. UNCHANGED client
      BY <1>7 DEF Reply
    <2> QED
      BY <1>0, <1>1, <1>4, <1>5, <1>6, <1>7, <2>1, NothingLost
  <1>8. CASE ~lost(w)
    <2> PICK r : r = [obj |-> worker[w].obj, body |-> worker[w].body,
                      status |-> worker[w].status]
      OBVIOUS
    <2> PICK q : q = client.results
      OBVIOUS
    <2>1. client' = [client EXCEPT !.results = Append(q, r)]
      BY <1>8 DEF Reply
    <2>2. r \in Result /\ r.status = worker[w].status
      BY <1>0 DEF Types, Worker, Result
    <2>3. /\ count \in Nat /\ client.before \in Nat /\ faults \in Nat
          /\ Cardinality(missed) \in Nat /\ q \in Seq(Result) /\ missed = MissedIn(q)
      BY DeltaNumbers
    <2>4. client'.results = Append(q, r) /\ client'.before = client.before
      BY <1>0, <2>1 DEF Client
    <2>5. missed' = MissedIn(Append(q, r))
      BY <2>4 DEF missed, MissedIn
    <2>6. Cardinality(missed') =
             Cardinality(missed) + IF r.status = "HIT" THEN 0 ELSE 1
      BY <2>2, <2>3, <2>5, MissedGrows
    <2>7. CASE r.status = "HIT"
      <3>1. Cardinality(missed') = Cardinality(missed)
        BY <2>3, <2>6, <2>7
      <3>2. owed' \subseteq owed /\ fetching \subseteq fetching'
        BY <1>4, <1>5, <2>2, <2>7
      <3>3. /\ Cardinality(owed) \in Nat /\ Cardinality(owed') \in Nat
            /\ Cardinality(owed') <= Cardinality(owed)
        BY <3>2, SetsFinite, Sizes
      <3>4. /\ Cardinality(stray) \in Nat /\ Cardinality(stray') \in Nat
            /\ Cardinality(stray') <= Cardinality(stray)
        BY <1>5, SetsFinite, Sizes
      <3>5. /\ Cardinality(fetching) \in Nat /\ Cardinality(fetching') \in Nat
            /\ Cardinality(fetching) <= Cardinality(fetching')
            /\ Cardinality(pending) \in Nat
        BY <3>2, SetsFinite, Sizes
      <3>6. Lower'
        BY <1>1, <2>3, <2>4, <3>1, <3>3 DEF Lower
      <3>7. Upper'
        <4>1. count + Cardinality(pending) + Cardinality(stray)
                 <= client.before + Cardinality(missed) + Cardinality(fetching) + faults
          BY DEF Upper
        <4>2. /\ count' = count /\ faults' = faults /\ pending' = pending
              /\ client'.before = client.before
          BY <1>1, <1>5, <2>4
        <4>3. count + Cardinality(pending) + Cardinality(stray')
                 <= client.before + Cardinality(missed') + Cardinality(fetching') + faults
          <5>1. /\ Cardinality(missed') \in Nat
                /\ Cardinality(missed) + Cardinality(fetching)
                      <= Cardinality(missed') + Cardinality(fetching')
            BY <2>3, <3>1, <3>5
          <5> QED
            BY <2>3, <3>4, <3>5, <4>1, <5>1, StillBounded
        <4> QED
          BY <4>2, <4>3 DEF Upper
      <3> QED
        BY <1>6, <3>6, <3>7
    <2>8. CASE r.status # "HIT"
      <3>1. Cardinality(missed') = Cardinality(missed) + 1
        BY <2>3, <2>6, <2>8
      <3>2. w \in owed /\ owed' \subseteq owed \ {w}
        BY <1>4, <1>5, <1>8, <2>2, <2>8
      <3>3. /\ Cardinality(owed) \in Nat /\ Cardinality(owed') \in Nat
            /\ Cardinality(owed') + 1 <= Cardinality(owed)
        BY <3>2, SetsFinite, Sizes
      <3>4. /\ Cardinality(stray) \in Nat /\ Cardinality(stray') \in Nat
            /\ Cardinality(stray') <= Cardinality(stray)
        BY <1>5, SetsFinite, Sizes
      <3>5. /\ Cardinality(fetching) \in Nat /\ Cardinality(fetching') \in Nat
            /\ Cardinality(fetching) <= Cardinality(fetching') + 1
            /\ Cardinality(pending) \in Nat
        BY <1>5, SetsFinite, Sizes
      <3>6. Lower'
        BY <1>1, <2>3, <2>4, <3>1, <3>3 DEF Lower
      <3>7. Upper'
        <4>1. count + Cardinality(pending) + Cardinality(stray)
                 <= client.before + Cardinality(missed) + Cardinality(fetching) + faults
          BY DEF Upper
        <4>2. /\ count' = count /\ faults' = faults /\ pending' = pending
              /\ client'.before = client.before
          BY <1>1, <1>5, <2>4
        <4>3. count + Cardinality(pending) + Cardinality(stray')
                 <= client.before + Cardinality(missed') + Cardinality(fetching') + faults
          <5>1. /\ Cardinality(missed') \in Nat
                /\ Cardinality(missed) + Cardinality(fetching)
                      <= Cardinality(missed') + Cardinality(fetching')
            BY <2>3, <3>1, <3>5
          <5> QED
            BY <2>3, <3>4, <3>5, <4>1, <5>1, StillBounded
        <4> QED
          BY <4>2, <4>3 DEF Upper
      <3> QED
        BY <1>6, <3>6, <3>7
    <2> QED
      BY <2>7, <2>8
  <1> QED
    BY <1>7, <1>8

\* The origin counts a request.
LEMMA DeltaWriteCount ==
    ASSUME PathInv, OneRequest, Lower, Upper, NEW c \in Connections, WriteCount(c)
    PROVE  OneRequest' /\ Lower' /\ Upper'
  <1>0. Types /\ Connected /\ Counting
    BY DEF PathInv
  <1>1. /\ busy[c] = "counting" /\ busy' = [busy EXCEPT ![c] = "serving"]
        /\ count' = seen[c] + 1 /\ UNCHANGED <<worker, conn, pipe, client, faults>>
    BY DEF WriteCount
  <1>2. count' = count + 1
    BY <1>0, <1>1 DEF Counting
  <1>3. pipe[c].requests # <<>>
    BY <1>0, <1>1 DEF Connected
  <1>4. busy'[c] = "serving" /\ \A d \in Connections \ {c} : busy'[d] = busy[d]
    BY <1>0, <1>1 DEF Types
  <1>5. c \in pending /\ pending' \subseteq pending \ {c}
    BY <1>1, <1>3, <1>4 DEF pending, Pending
  <1>6. stray' = stray /\ fetching' = fetching
    BY <1>1 DEF stray, Strays, fetching, Fetches, at, lost
  <1>7. \E w : owed' \subseteq owed \cup {w}
    <2>1. ASSUME NEW v \in Workers, at(v, "await") => conn[v] # c
          PROVE  Owes(v)' <=> Owes(v)
      <3>1. at(v, "await") => conn[v] \in Connections \ {c}
        BY <1>0, <2>1 DEF Connected, Link, Types
      <3> QED
        BY <1>1, <1>4, <3>1, WorkerKept
    <2>2. CASE \E w \in Workers : at(w, "await") /\ conn[w] = c
      <3>1. PICK w \in Workers : at(w, "await") /\ conn[w] = c
        BY <2>2
      <3>2. \A v \in Workers \ {w} : conn[v] # c
        <4>1. c # None
          BY HttpAssumption
        <4> QED
          BY <1>0, <3>1, <4>1, OwnConnection
      <3>3. owed' \subseteq owed \cup {w}
        BY <2>1, <3>2 DEF owed
      <3> QED
        BY <3>3
    <2>3. CASE \A w \in Workers : at(w, "await") => conn[w] # c
      <3>1. owed' \subseteq owed
        BY <2>1, <2>3 DEF owed
      <3> QED
        BY <3>1
    <2> QED
      BY <2>2, <2>3
  <1>8. /\ Cardinality(owed) \in Nat /\ Cardinality(owed') \in Nat
        /\ Cardinality(owed') <= Cardinality(owed) + 1
    BY <1>7, SetsFinite, Sizes
  <1>9. /\ Cardinality(pending) \in Nat /\ Cardinality(pending') \in Nat
        /\ Cardinality(pending') + 1 <= Cardinality(pending)
    BY <1>5, SetsFinite, Sizes
  <1>10. Cardinality(stray) \in Nat /\ Cardinality(fetching) \in Nat
    BY SetsFinite, FS_CardinalityType
  <1>11. missed' = missed
    BY <1>1 DEF missed
  <1>12. /\ count \in Nat /\ client.before \in Nat /\ faults \in Nat
         /\ Cardinality(missed) \in Nat
    BY DeltaNumbers
  <1>13. Lower'
    BY <1>1, <1>2, <1>8, <1>11, <1>12 DEF Lower
  <1>14. Upper'
    BY <1>1, <1>2, <1>6, <1>9, <1>10, <1>11, <1>12 DEF Upper
  <1>15. OneRequest'
    BY <1>1 DEF OneRequest
  <1> QED
    BY <1>13, <1>14, <1>15

\* The other steps of the origin: taking a request up, and answering it.
LEMMA DeltaOrigin ==
    ASSUME PathInv, OneRequest, Lower, Upper, NEW c \in Connections,
           ReadCount(c) \/ Serve(c)
    PROVE  OneRequest' /\ Lower' /\ Upper'
  <1>0. Types /\ Connected /\ faults \in Nat
    BY DEF PathInv, Types
  <1>1. UNCHANGED <<worker, conn, count, client, faults>>
    BY DEF ReadCount, Serve
  <1>2. stray' = stray /\ fetching' = fetching
    BY <1>1 DEF stray, Strays, fetching, Fetches, at, lost
  <1>3. owed' \subseteq owed /\ pending' \subseteq pending /\ OneRequest'
    <2>1. CASE ReadCount(c)
      <3>1. /\ busy[c] = "idle" /\ busy' = [busy EXCEPT ![c] = "counting"]
            /\ pipe' = pipe
        BY <2>1 DEF ReadCount
      <3>2. busy'[c] = "counting" /\ \A d \in Connections \ {c} : busy'[d] = busy[d]
        BY <1>0, <3>1 DEF Types
      <3>3. ASSUME NEW v \in Workers PROVE Owes(v)' <=> Owes(v)
        <4>1. at(v, "await") => conn[v] \in Connections
          BY <1>0 DEF Connected, Link, Types
        <4> QED
          BY <1>1, <3>1, <3>2, <4>1, WorkerKept
      <3>4. pending' \subseteq pending
        BY <3>1, <3>2 DEF pending, Pending
      <3> QED
        BY <3>1, <3>3, <3>4 DEF owed, OneRequest
    <2>2. CASE Serve(c)
      <3>1. busy[c] = "serving" /\ busy' = [busy EXCEPT ![c] = "idle"]
        BY <2>2 DEF Serve
      <3>2. busy'[c] = "idle" /\ \A d \in Connections \ {c} : busy'[d] = busy[d]
        BY <1>0, <3>1 DEF Types
      <3>3. pipe[c].requests # <<>> /\ Tail(pipe[c].requests) = <<>>
        BY <1>0, <3>1 DEF Connected, OneRequest
      <3>4. /\ pipe'[c].requests = <<>>
            /\ \A d \in Connections \ {c} : pipe'[d] = pipe[d]
        <4> DEFINE p == Append(pipe[c].answers, Head(pipe[c].requests))
        <4>1. pipe' = [pipe EXCEPT ![c] = [requests |-> Tail(pipe[c].requests),
                                           answers |-> p]]
          BY <2>2 DEF Serve
        <4> HIDE DEF p
        <4> QED
          BY <1>0, <3>3, <4>1 DEF Types
      <3>5. ASSUME NEW v \in Workers PROVE Owes(v)' <=> Owes(v)
        <4>1. at(v, "await") => conn[v] \in Connections
          BY <1>0 DEF Connected, Link, Types
        <4>2. CASE at(v, "await") /\ conn[v] = c
          BY <1>1, <3>1, <3>4, <4>2 DEF Owes, at, lost
        <4>3. CASE at(v, "await") => conn[v] # c
          BY <1>1, <3>2, <3>4, <4>1, <4>3, WorkerKept
        <4> QED
          BY <4>2, <4>3
      <3>6. pending' \subseteq pending
        BY <3>2, <3>4 DEF pending, Pending
      <3> QED
        BY <3>4, <3>5, <3>6 DEF owed, OneRequest
    <2> QED
      BY <2>1, <2>2
  <1> QED
    BY <1>0, <1>1, <1>2, <1>3, NothingLost

\* Steps that leave the workers, the origin and the results as they are.
LEMMA DeltaRests ==
    ASSUME PathInv, OneRequest, Lower, Upper,
           UNCHANGED <<worker, pipe, busy, count>>, conn' = conn \/ conn' = closed,
           client'.results = client.results, client'.before = client.before,
           faults' = faults \/ faults' = faults + 1
    PROVE  OneRequest' /\ Lower' /\ Upper'
  <1>1. \A v \in Workers : at(v, "await") => conn'[v] = conn[v]
    <2>1. \A v \in Workers : conn'[v] = conn[v] \/ (conn'[v] = None /\ at(v, "idle"))
      BY ClosedConnections
    <2> QED
      BY <2>1 DEF at
  <1>2. \A v \in Workers : Owes(v)' <=> Owes(v)
    BY <1>1, WorkerKept
  <1>3. owed' = owed /\ stray' = stray /\ fetching' = fetching /\ pending' = pending
    BY <1>2 DEF owed, stray, Strays, fetching, Fetches, pending, Pending, at, lost
  <1>4. faults' \in Nat /\ faults <= faults'
    BY DEF PathInv, Types
  <1>5. OneRequest'
    BY DEF OneRequest
  <1> QED
    BY <1>3, <1>4, <1>5, NothingLost

\* The measurement begins when no request is under way: what was not for the client
\* so far, or is not yet counted, is no more than the faults.
LEMMA DeltaReadBefore ==
    ASSUME PathInv, OneRequest, Lower, Upper, ReadBefore
    PROVE  OneRequest' /\ Lower' /\ Upper'
  <1>0. client \in Client /\ faults \in Nat
    BY DEF PathInv, Types
  <1>1. /\ underWay = {} /\ conn' = closed
        /\ UNCHANGED <<worker, pipe, busy, count, faults>>
        /\ client' = [client EXCEPT !.phase = "run", !.left = Keys,
                                    !.before = count, !.results = <<>>]
    BY DEF ReadBefore, quiet, originSide
  <1>2. client'.before = count /\ client'.results = <<>>
    BY <1>0, <1>1 DEF Client
  <1>3. owed = {} /\ fetching = {} /\ owed' = {} /\ fetching' = {}
    <2>1. \A v \in Workers : worker[v].at = "idle" \/ worker[v].lost
      BY <1>1 DEF underWay, at, lost
    <2> QED
      BY <1>1, <2>1 DEF owed, Owes, fetching, Fetches, at, lost
  <1>4. stray' = stray /\ pending' = pending
    BY <1>1 DEF stray, Strays, pending, Pending, at, lost
  <1>5. missed' = {}
    BY <1>2 DEF missed
  <1>6. /\ Cardinality({}) = 0 /\ Cardinality(stray) \in Nat /\ Cardinality(pending) \in Nat
    BY SetsFinite, FS_CardinalityType, FS_EmptySet
  <1>7. /\ count \in Nat /\ client.before \in Nat
        /\ Cardinality(missed) \in Nat
    BY DeltaNumbers
  <1>8. Lower'
    BY <1>1, <1>2, <1>3, <1>5, <1>6, <1>7 DEF Lower
  <1>9. Cardinality(pending) + Cardinality(stray) <= faults
    BY <1>0, <1>3, <1>6, <1>7 DEF Lower, Upper
  <1>10. Upper'
    BY <1>0, <1>1, <1>2, <1>3, <1>4, <1>5, <1>6, <1>7, <1>9 DEF Upper
  <1>11. OneRequest'
    BY <1>1 DEF OneRequest
  <1> QED
    BY <1>8, <1>10, <1>11

\* The other moves of the client leave its results alone.
LEMMA ResultsStay ==
    ASSUME PathInv,
           AskRaises \/ TimeUp \/ WarmUp \/ ReadAfter \/ StatsFail \/ SeeRaised \/ Stopped
    PROVE  /\ client'.results = client.results /\ client'.before = client.before
           /\ ReadAfter => client'.after = count
           /\ ~ReadAfter => client'.phase # "done" \/ client.phase = "done"
  <1>0. client \in Client
    BY DEF PathInv, Types
  <1>1. CASE AskRaises \/ TimeUp
    <2>1. PICK l : client' = [client EXCEPT !.left = l]
      BY <1>1 DEF AskRaises, TimeUp
    <2>2. ~ReadAfter
      <3>1. client'.phase = client.phase
        BY <1>0, <2>1 DEF Client
      <3>2. ReadAfter => client.phase = "run" /\ client'.phase = "done"
        BY <1>0 DEF ReadAfter, Client
      <3> QED
        BY <3>1, <3>2
    <2> QED
      BY <1>0, <2>1, <2>2 DEF Client
  <1>2. CASE WarmUp \/ StatsFail \/ SeeRaised \/ Stopped
    <2>1. \/ client' = [client EXCEPT !.phase = "warmup", !.left = WarmKeys]
          \/ client' = [client EXCEPT !.phase = "failed"]
          \/ client' = [client EXCEPT !.phase = "stopping", !.left = <<>>]
      BY <1>2 DEF WarmUp, StatsFail, SeeRaised, Stopped
    <2>2. /\ client'.results = client.results /\ client'.before = client.before
          /\ client'.phase # "done"
      BY <1>0, <2>1 DEF Client
    <2>3. ReadAfter => client'.phase = "done"
      BY <1>0 DEF ReadAfter, Client
    <2> QED
      BY <2>2, <2>3
  <1>3. CASE ReadAfter
    BY <1>0, <1>3 DEF ReadAfter, Client
  <1> QED
    BY <1>1, <1>2, <1>3

\* Every step keeps the balance.
LEMMA DeltaBalance ==
    ASSUME PathInv, OneRequest, Lower, Upper, [Next]_vars
    PROVE  OneRequest' /\ Lower' /\ Upper'
  <1>1. CASE AskRaises \/ TimeUp \/ WarmUp \/ ReadAfter \/ StatsFail \/ SeeRaised \/ Stopped
    BY <1>1, ClientMoves, ResultsStay, DeltaRests
  <1>2. CASE Evict \/ UNCHANGED vars
    <2>1. UNCHANGED <<worker, pipe, busy, count, conn, client, faults>>
      BY <1>2 DEF Evict, vars, originSide
    <2> QED
      BY <2>1, DeltaRests
  <1>3. CASE \E w \in Workers : WorkerStep(w)
    BY <1>3, DeltaCache, DeltaRequest, DeltaResponse, DeltaReply DEF WorkerStep
  <1>4. CASE \E w \in Workers : RpcFails(w) \/ FetchFails(w) \/ RequestTimesOut(w)
    BY <1>4, DeltaRpcFails, DeltaFetchFails, DeltaTimesOut
  <1>5. CASE \E c \in Connections : OriginStep(c)
    BY <1>5, DeltaWriteCount, DeltaOrigin DEF OriginStep
  <1>6. CASE ReadBefore \/ \E w \in Workers : Ask(w)
    BY <1>6, DeltaReadBefore, DeltaAsk
  <1> QED
    BY <1>1, <1>2, <1>3, <1>4, <1>5, <1>6 DEF Next, ClientStep

\* A step of a lost handler: the client does not change, and it stays lost, or ends.
LEMMA LostStep ==
    ASSUME PathInv, NEW w \in Workers, ~at(w, "idle"), lost(w),
           WorkerStep(w) \/ RpcFails(w) \/ FetchFails(w)
    PROVE  /\ client' = client
           /\ \A v \in Workers \ {w} : worker'[v] = worker[v]
           /\ worker'[w].lost \/ worker'[w].at = "idle"
           /\ faults' = faults \/ faults' = faults + 1
  <1>0. /\ Types /\ worker \in [Workers -> Worker] /\ worker[w] \in Worker
        /\ worker[w].lost
    BY DEF PathInv, Types, lost
  <1>1. faults' = faults \/ faults' = faults + 1
    BY DEF WorkerStep, CacheGet, Request, Response, Fill, Reply, RpcFails, FetchFails, Fault
  <1>2. CASE giveUp(w)
    <2>1. client' = client /\ worker' = [worker EXCEPT ![w] = Idle]
      BY <1>2 DEF giveUp
    <2>2. worker'[w].at = "idle" /\ \A v \in Workers \ {w} : worker'[v] = worker[v]
      BY <1>0, <2>1 DEF Idle
    <2> QED
      BY <1>1, <2>1, <2>2
  <1>3. CASE retry(w)
    <2>1. client' = client /\ worker' = [worker EXCEPT ![w].at = "fetch", ![w].attempt = 1]
      BY <1>3 DEF retry, again
    <2>2. worker'[w] = [worker[w] EXCEPT !.at = "fetch", !.attempt = 1]
      BY <1>0, <2>1
    <2>3. worker'[w].lost
      BY <1>0, <2>2 DEF Worker
    <2> QED
      BY <1>0, <1>1, <2>1, <2>3
  <1>4. CASE Reply(w)
    <2>1. client' = client /\ worker' = [worker EXCEPT ![w] = Idle]
      BY <1>4 DEF Reply
    <2>2. worker'[w].at = "idle" /\ \A v \in Workers \ {w} : worker'[v] = worker[v]
      BY <1>0, <2>1 DEF Idle
    <2> QED
      BY <1>1, <2>1, <2>2
  <1>5. CASE CacheGet(w) \/ Request(w) \/ Response(w) \/ Fill(w)
    <2>1. client' = client /\ \A v \in Workers \ {w} : worker'[v] = worker[v]
      BY <1>0, <1>5 DEF CacheGet, Request, Response, Fill, move
    <2>2. worker'[w].lost
      <3>1. CASE CacheGet(w)
        <4> PICK b : b = cache[worker[w].obj]
          OBVIOUS
        <4>1. \/ worker'[w] = [worker[w] EXCEPT !.at = "reply", !.body = b, !.status = "HIT"]
              \/ worker'[w] = [worker[w] EXCEPT !.at = "fetch"]
          BY <1>0, <3>1 DEF CacheGet
        <4> QED
          BY <1>0, <4>1 DEF Worker
      <3>2. CASE Request(w)
        <4>1. worker'[w] = [worker[w] EXCEPT !.at = "await"]
          BY <1>0, <3>2 DEF Request, move
        <4> QED
          BY <1>0, <4>1 DEF Worker
      <3>3. CASE Response(w)
        <4> PICK h : h = Head(pipe[conn[w]].answers)
          OBVIOUS
        <4>1. worker'[w] = [worker[w] EXCEPT !.at = "fill", !.body = h]
          BY <1>0, <3>3 DEF Response
        <4> QED
          BY <1>0, <4>1 DEF Worker
      <3>4. CASE Fill(w)
        <4>1. PICK s : worker' = [worker EXCEPT ![w].at = "reply", ![w].status = s]
          BY <3>4 DEF Fill
        <4>2. worker'[w] = [worker[w] EXCEPT !.at = "reply", !.status = s]
          BY <1>0, <4>1
        <4> QED
          BY <1>0, <4>2 DEF Worker
      <3> QED
        BY <1>5, <3>1, <3>2, <3>3, <3>4
    <2> QED
      BY <1>1, <2>1, <2>2
  <1> QED
    BY <1>2, <1>3, <1>4, <1>5 DEF WorkerStep, RpcFails, FetchFails

\* Once done the client stays as it is, and nobody works for it.
LEMMA DoneStays ==
    ASSUME PathInv, client.phase = "done", underWay = {}, [Next]_vars
    PROVE  /\ client' = client /\ underWay' = {}
           /\ faults' \in Nat /\ faults <= faults'
  <1>0. \A v \in Workers : at(v, "idle") \/ lost(v)
    BY DEF underWay
  <1>f. faults \in Nat
    BY DEF PathInv, Types
  <1>1. ~ClientStep /\ ~TimeUp /\ ~StatsFail
    BY DEF ClientStep, Ask, AskRaises, WarmUp, ReadBefore, ReadAfter, SeeRaised, Stopped,
           TimeUp, StatsFail
  <1>2. \A w \in Workers : ~RequestTimesOut(w)
    BY DEF RequestTimesOut
  <1>3. ASSUME NEW w \in Workers, WorkerStep(w) \/ RpcFails(w) \/ FetchFails(w)
        PROVE  client' = client /\ underWay' = {} /\ (faults' = faults \/ faults' = faults + 1)
    <2>1. ~at(w, "idle")
      BY <1>3 DEF WorkerStep, CacheGet, Request, Response, Fill, Reply, RpcFails, FetchFails, at
    <2>2. lost(w)
      BY <1>0, <2>1
    <2>3. /\ client' = client
          /\ \A v \in Workers \ {w} : worker'[v] = worker[v]
          /\ worker'[w].lost \/ worker'[w].at = "idle"
          /\ faults' = faults \/ faults' = faults + 1
      BY <1>3, <2>1, <2>2, LostStep
    <2> QED
      BY <1>0, <2>3 DEF underWay, at, lost
  <1>4. CASE Evict \/ (\E c \in Connections : OriginStep(c)) \/ UNCHANGED vars
    <2>1. UNCHANGED <<client, worker, faults>>
      BY <1>4 DEF Evict, OriginStep, ReadCount, WriteCount, Serve, vars
    <2> QED
      BY <1>f, <2>1 DEF underWay, at, lost
  <1> QED
    BY <1>f, <1>1, <1>2, <1>3, <1>4 DEF Next

\* The client is done when it has read the count the second time.
LEMMA BecomesDone ==
    ASSUME PathInv, client.phase # "done", client'.phase = "done", [Next]_vars
    PROVE  ReadAfter
  <1> SUFFICES ASSUME ~ReadAfter PROVE FALSE
    OBVIOUS
  <1>0. client \in Client /\ Types
    BY DEF PathInv, Types
  <1>1. CASE AskRaises \/ TimeUp \/ WarmUp \/ StatsFail \/ SeeRaised \/ Stopped
    BY <1>1, ResultsStay
  <1>2. CASE ReadBefore
    BY <1>0, <1>2 DEF ReadBefore, Client
  <1>3. ASSUME NEW w \in Workers, Ask(w)
        PROVE  FALSE
    BY <1>0, <1>3 DEF Ask, Client
  <1>4. ASSUME NEW w \in Workers, WorkerStep(w)
        PROVE  FALSE
    <2>1. client' = client \/ \E r : client' = [client EXCEPT !.results = r]
      BY <1>4 DEF WorkerStep, CacheGet, Request, Response, Fill, Reply
    <2> QED
      BY <1>0, <2>1 DEF Client
  <1>5. ASSUME NEW w \in Workers, RpcFails(w) \/ FetchFails(w) \/ RequestTimesOut(w)
        PROVE  FALSE
    <2>1. client'.phase \in {client.phase, "failed"}
      <3>1. CASE RequestTimesOut(w)
        BY <1>0, <3>1, TimesOut
      <3>2. CASE giveUp(w)
        BY <1>0, <3>2, GiveUp
      <3>3. CASE client' = client
        BY <3>3
      <3> QED
        BY <1>5, <3>1, <3>2, <3>3 DEF RpcFails, FetchFails, retry, again
    <2> QED
      BY <2>1
  <1>6. CASE Evict \/ (\E c \in Connections : OriginStep(c)) \/ UNCHANGED vars
    BY <1>6 DEF Evict, OriginStep, ReadCount, WriteCount, Serve, vars
  <1> QED
    BY <1>1, <1>2, <1>3, <1>4, <1>5, <1>6 DEF Next, ClientStep

\* What the second reading of the count shows.
LEMMA DeltaReadAfter ==
    ASSUME PathInv, Lower, Upper, ReadAfter
    PROVE  underWay' = {} /\ DeltaCoversMisses'
  <1>1. underWay = {} /\ UNCHANGED <<worker, faults>>
    BY DEF ReadAfter, quiet
  <1>2. /\ client'.results = client.results /\ client'.before = client.before
        /\ client'.after = count
    BY ResultsStay
  <1>3. underWay' = {}
    BY <1>1 DEF underWay, at, lost
  <1>4. owed = {} /\ fetching = {}
    BY <1>1 DEF underWay, owed, Owes, fetching, Fetches, at
  <1>5. missed' = missed
    BY <1>2 DEF missed
  <1>6. /\ Cardinality({}) = 0 /\ Cardinality(stray) \in Nat /\ Cardinality(pending) \in Nat
    BY SetsFinite, FS_CardinalityType, FS_EmptySet
  <1>7. /\ count \in Nat /\ client.before \in Nat /\ faults \in Nat
        /\ Cardinality(missed) \in Nat
    BY DeltaNumbers
  <1>8. /\ Cardinality(missed) <= count - client.before
        /\ count - client.before <= Cardinality(missed) + faults
    BY <1>4, <1>6, <1>7 DEF Lower, Upper
  <1>9. DeltaCoversMisses'
    BY <1>1, <1>2, <1>5, <1>8 DEF DeltaCoversMisses
  <1> QED
    BY <1>3, <1>9

\* Every step keeps the invariant.
LEMMA DeltaNext == ASSUME PathInv, DeltaInv, [Next]_vars PROVE DeltaInv'
  <1>1. OneRequest' /\ Lower' /\ Upper'
    BY DeltaBalance DEF DeltaInv
  <1>2. CASE client'.phase # "done"
    BY <1>1, <1>2 DEF DeltaInv, DeltaCoversMisses
  <1>3. CASE client'.phase = "done" /\ client.phase = "done"
    <2>1. /\ client' = client /\ underWay' = {}
          /\ faults' \in Nat /\ faults <= faults'
      BY <1>3, DoneStays DEF DeltaInv
    <2>2. missed' = missed
      BY <2>1 DEF missed
    <2>3. /\ client.before \in Nat /\ client.after \in Nat /\ faults \in Nat
          /\ Cardinality(missed) \in Nat
      BY DeltaNumbers
    <2>4. DeltaCoversMisses
      BY DEF DeltaInv
    <2>5. DeltaCoversMisses'
      BY <1>3, <2>1, <2>2, <2>3, <2>4 DEF DeltaCoversMisses
    <2> QED
      BY <1>1, <2>1, <2>5 DEF DeltaInv
  <1>4. CASE client'.phase = "done" /\ client.phase # "done"
    <2>1. ReadAfter
      BY <1>4, BecomesDone
    <2>2. underWay' = {} /\ DeltaCoversMisses'
      BY <2>1, DeltaReadAfter DEF DeltaInv
    <2> QED
      BY <1>1, <2>2 DEF DeltaInv
  <1> QED
    BY <1>2, <1>3, <1>4

\* It holds at the start: nothing was asked.
LEMMA DeltaInit == Init => DeltaInv
  <1> SUFFICES ASSUME Init PROVE DeltaInv
    OBVIOUS
  <1>1. /\ \A w \in Workers : worker[w].at = "idle"
        /\ \A c \in Connections : pipe[c].requests = <<>>
        /\ count = 0 /\ faults = 0
    BY DEF Init, Idle
  <1>2. client.phase = "preload" /\ client.before = 0 /\ client.results = <<>>
    BY DEF Init
  <1>3. owed = {} /\ fetching = {} /\ stray = {} /\ pending = {}
    BY <1>1 DEF owed, Owes, fetching, Fetches, stray, Strays, pending, Pending, at
  <1>4. missed = {}
    BY <1>2 DEF missed
  <1>5. Cardinality({}) = 0
    BY FS_EmptySet
  <1>6. Lower /\ Upper
    BY <1>1, <1>2, <1>3, <1>4, <1>5 DEF Lower, Upper
  <1>7. OneRequest
    BY <1>1 DEF OneRequest
  <1> QED
    BY <1>2, <1>6, <1>7 DEF DeltaInv, DeltaCoversMisses

\* The origin requests a client reports (http_client.py:59-73, httpbench.go:188-206)
\* cover every object that did not come from the cache, and exceed them by no more
\* than one for each thing that went wrong: a fetch that failed or was tried again, a
\* fill that raised after its fetch, a request the client gave up while its handler
\* went on; in the warm-up or in the measurement, and however late the origin counts.
THEOREM DeltaCoversMissesHolds == Spec => []DeltaCoversMisses
  <1>1. PathInv /\ DeltaInv /\ [Next]_vars => DeltaInv'
    BY DeltaNext
  <1>2. DeltaInv => DeltaCoversMisses
    BY DEF DeltaInv
  <1> QED
    BY <1>1, <1>2, DeltaInit, PathInvariant, PTL DEF Spec
=============================================================================
