---------------------------- MODULE BenchClient ----------------------------
(***************************************************************************)
(* bench/investigation/client.py, the way run_matrix uses it on a server:  *)
(* first `verify', the correctness probe, and if that passes one `run'     *)
(* (a trace of object reads through a pool of threads) or one `batch'.     *)
(*                                                                         *)
(* The server is external: a store that may evict, refuse a Set or not     *)
(* answer, and that may have any combination of Defects.  gRPC, the RESP   *)
(* engines and memcached differ for the client in what Set and Delete      *)
(* answer: pymemcache sends them without asking for a reply and returns    *)
(* True.                                                                   *)
(***************************************************************************)
EXTENDS Naturals, Sequences, FiniteSets

CONSTANTS
    Objects,     \* args.objects
    Requests,    \* args.requests, the length of the trace
    Warmup,      \* args.warmup
    BatchSize,   \* args.batch_size
    Workers,     \* the threads of the pool (args.concurrency)
    MaxFaults    \* bound: evictions, refused Sets and calls that raise

ASSUME ClientAssumption ==
    /\ {Objects, Requests, Warmup, BatchSize, MaxFaults} \subseteq Nat
    /\ Objects > 0 /\ BatchSize > 0 /\ Workers # {} /\ IsFiniteSet(Workers)

VARIABLES
    kind,        \* the backend
    defects,     \* what is wrong with the server
    store,       \* key -> [value, until], what the server holds
    served,      \* the server's own counters: gets and hits
    now,         \* the clock, in seconds
    args,        \* the case under way (NoCase during verify)
    pc,          \* what the main thread does
    at,          \* its position: probe step, preloaded objects, batch
    since,       \* start of the TTL loop
    trace,       \* make_trace's result
    queue,       \* operations handed out by the pool so far
    call,        \* what each thread is doing
    records,     \* position in the measurement -> what the call returned
    before, after, \* the two stats
    got, errors, \* of batch
    faults,
    cold,        \* (history) measured keys not in the store at the start
    disturbed,   \* (history) the probe lost a key or had a Set refused
    misses       \* (history) reads of batch that did not return the value

vars == <<kind, defects, store, served, now, args, pc, at, since, trace, queue,
          call, records, before, after, got, errors, faults, cold, disturbed, misses>>
server == <<kind, defects>>
pool   == <<queue, call, records>>
ghosts == <<cold, disturbed, misses>>

Fault == faults < MaxFaults /\ faults' = faults + 1

put(f, k, x) == [j \in DOMAIN f \cup {k} |-> IF j = k THEN x ELSE f[j]]

-----------------------------------------------------------------------------
\* The server.

Defects == {"keeps_deleted", "keeps_first", "cuts_at_nul", "drops_set",
            "never_expires", "reorders_multiget", "reorders_pipeline"}

\* A deadline of 0 is none.
live(k) == /\ k \in DOMAIN store
           /\ \/ store[k].until = 0 \/ now < store[k].until
              \/ "never_expires" \in defects
look(k) == IF live(k) THEN store[k].value ELSE "none"

entry(v, ttl) ==
    [value |-> IF "cuts_at_nul" \in defects THEN "cut" ELSE v,
     until |-> IF ttl = 0 THEN 0 ELSE now + ttl]
stored(s, k, v, ttl) ==
    IF "drops_set" \in defects \/ (live(k) /\ "keeps_first" \in defects) THEN s
    ELSE put(s, k, entry(v, ttl))
without(s, k) == [x \in DOMAIN s \ {k} |-> s[x]]

\* Backend.set and delete: what they return.
setAnswer(done) == IF done \/ kind = "memcached" THEN "ok" ELSE "refused"
deleteAnswer(k) == IF live(k) \/ kind = "memcached" THEN "ok" ELSE "refused"

Evict ==
    /\ pc \notin {"done", "failed", "refused"}
    /\ Fault
    /\ \E k \in DOMAIN store : store' = without(store, k)
    /\ disturbed' = (disturbed \/ pc = "verify")
    /\ UNCHANGED <<server, served, now, args, pc, at, since, trace, pool, before,
                   after, got, errors, cold, misses>>

-----------------------------------------------------------------------------
\* verify.

Key == <<"probe", 0>>
A == <<"batch", 1>>
B == <<"batch", 2>>
Pipe == <<"pipe", 0>>

ask(op, value, want) == [op |-> op, value |-> value, want |-> want]

\* The assertions in their order.  The first delete may find nothing.
basic ==
    <<ask("delete", "none", "any"), ask("get", "none", "none"),
      ask("set", "value", "ok"),    ask("get", "none", "value"),
      ask("set", "new", "ok"),      ask("get", "none", "new"),
      ask("delete", "none", "ok"),  ask("get", "none", "none"),
      ask("ttl", "value", "ok"),    ask("poll", "none", "any"),
      ask("get", "none", "none")>>
grpcOnly == <<ask("multiset", "none", "ok"), ask("multiget", "none", "ok"),
              ask("pipeline", "none", "ok")>>

\* (Mutant) The overwritten value is not read back.
probe_noOverwriteRead ==
    SubSeq(basic, 1, 5) \o SubSeq(basic, 7, 11)
    \o (IF kind = "grpc" THEN grpcOnly ELSE <<>>)

probe == IF kind = "grpc" THEN basic \o grpcOnly ELSE basic

TtlRequested == 1
TtlPatience == 4

\* The loop that waits for the TTL sleeps while the key is there, for four
\* seconds; a sleep may take longer than asked.
Sleep ==
    /\ pc = "verify" /\ probe[at].op = "poll"
    /\ live(Key) /\ now - since < TtlPatience
    /\ \E late \in {0, 1} : now' = now + 1 + late
    /\ UNCHANGED <<server, store, served, args, pc, at, since, trace, pool, before,
                   after, got, errors, faults, ghosts>>

\* What a call of the probe does and answers.
multigetAnswer == IF "reorders_multiget" \notin defects /\ look(A) = "value" /\ look(B) = "two"
                  THEN "ok" ELSE "wrong"
pipelineAnswer == IF "reorders_pipeline" \notin defects /\ defects \cap {"drops_set", "cuts_at_nul"} = {}
                  THEN "ok" ELSE "wrong"
probeAnswer(s) ==
    CASE s.op \in {"set", "ttl", "multiset"} -> "ok"
      [] s.op = "get"      -> look(Key)
      [] s.op = "delete"   -> deleteAnswer(Key)
      [] s.op = "poll"     -> "over"
      [] s.op = "multiget" -> multigetAnswer
      [] s.op = "pipeline" -> pipelineAnswer
probeEffect(s) ==
    CASE s.op = "set"      -> stored(store, Key, s.value, 0)
      [] s.op = "ttl"      -> stored(store, Key, s.value, TtlRequested)
      [] s.op = "delete"   -> IF "keeps_deleted" \in defects THEN store ELSE without(store, Key)
      [] s.op = "multiset" -> stored(stored(store, A, "value", 0), B, "two", 0)
      [] OTHER             -> store

\* One assertion.  With the last one the probe has passed.
judge(s, answer) ==
    IF s.want \notin {"any", answer} THEN pc' = "refused" /\ at' = at
    ELSE IF at = Len(probe) THEN pc' = "passed" /\ at' = 0
    ELSE pc' = pc /\ at' = at + 1

Probe ==
    /\ pc = "verify"
    /\ LET s == probe[at] IN
       /\ s.op = "poll" => ~live(Key) \/ now - since >= TtlPatience
       /\ judge(s, probeAnswer(s))
       /\ store' = probeEffect(s)
       /\ since' = IF s.op = "ttl" THEN now ELSE since
    /\ UNCHANGED <<server, served, now, args, trace, pool, before, after, got,
                   errors, faults, ghosts>>

\* A Set the server refuses, or any call that raises.
ProbeFails ==
    /\ pc = "verify"
    /\ Fault
    /\ \/ probe[at].op \in {"set", "ttl"} /\ judge(probe[at], setAnswer(FALSE))
       \/ pc' = "refused" /\ at' = at
    /\ since' = now
    /\ disturbed' = TRUE
    /\ UNCHANGED <<server, store, served, now, args, trace, pool, before, after, got,
                   errors, cold, misses>>

-----------------------------------------------------------------------------
\* The cases of run_matrix, and the trace of a case.

case(command, mode, pattern) ==
    [command |-> command, mode |-> mode, pattern |-> pattern, preload |-> FALSE]
Cases == {case("run", "hit", "uniform"), case("run", "mixed", "skew"),
          case("run", "origin", "uniform"), case("run", "origin", "hot_shift"),
          case("run", "origin", "one_pass"), case("run", "bypass", "one_pass"),
          [case("run", "origin", "uniform") EXCEPT !.preload = TRUE],
          case("multiget", "hit", "uniform"), case("pipeline", "hit", "uniform")}
NoCase == case("none", "none", "none")

\* uniform and skew draw any object; hot_shift draws from a tenth at one end and
\* then at the other; one_pass asks objects nobody has preloaded, each once.
hotWidth == IF Objects \div 10 > 1 THEN Objects \div 10 ELSE 1
indices(pattern, i) ==
    CASE pattern = "one_pass"  -> {Objects + i}
      [] pattern = "hot_shift" ->
            LET base == IF i < Requests \div 2 THEN 0 ELSE Objects - hotWidth
            IN base .. (base + hotWidth - 1)
      [] pattern \in {"uniform", "skew"} -> 0 .. (Objects - 1)
make_trace(pattern) ==
    {t \in [1..Requests -> 0..(Objects + Requests)] :
        \A n \in 1..Requests : t[n] \in indices(pattern, n - 1)}

key(i) == <<"run", i>>
warmCount == IF Warmup < Requests THEN Warmup ELSE Requests
warm      == SubSeq(trace, 1, warmCount)

\* Only an origin test leaves its warm-up out of the measurement.
measured  == IF args.mode = "origin" THEN SubSeq(trace, warmCount + 1, Requests) ELSE trace
preloads  == args.command # "run" \/ args.mode \in {"hit", "mixed"} \/ args.preload

StartCase ==
    /\ pc = "passed"
    /\ \E c \in Cases :
       /\ c.command = "pipeline" => kind = "grpc"
       /\ args' = c
       /\ trace' \in make_trace(c.pattern)
    /\ pc' = "preload"
    /\ at' = 0
    /\ UNCHANGED <<server, store, served, now, since, pool, before, after, got,
                   errors, faults, ghosts>>

\* One object of the dataset.  A Set that is refused ends the client.
Preload ==
    /\ pc = "preload" /\ preloads /\ at < Objects
    /\ store' = stored(store, key(at), "value", 0)
    /\ at' = at + 1
    /\ UNCHANGED <<server, served, now, args, pc, since, trace, pool, before, after,
                   got, errors, faults, ghosts>>
PreloadFails ==
    /\ pc = "preload" /\ preloads /\ at < Objects
    /\ Fault
    /\ IF setAnswer(FALSE) = "ok" THEN at' = at + 1 /\ pc' = pc
                                  ELSE at' = at /\ pc' = "failed"
    /\ UNCHANGED <<server, store, served, now, args, since, trace, pool, before,
                   after, got, errors, ghosts>>
Preloaded ==
    /\ pc = "preload" /\ (preloads => at = Objects)
    /\ pc' = IF args.command = "run" THEN "warm" ELSE "batch"
    /\ at' = 0
    /\ UNCHANGED <<server, store, served, now, args, since, trace, pool, before,
                   after, got, errors, faults, ghosts>>

-----------------------------------------------------------------------------
\* run: the warm-up in the main thread, the measurement in the pool.

Idle == [do |-> "idle", n |-> 0]
idle == \A w \in Workers : call[w] = Idle
operations == IF pc = "warm" THEN warm ELSE measured
keyOf(w) == key(operations[call[w].n])

\* In a mixed run every tenth operation is a write.
WriteEvery == 10
isWrite(n) == args.mode = "mixed" /\ pc = "run" /\ (n - 1) % WriteEvery = 0

\* A thread takes the next operation.
Take(w) ==
    /\ pc \in {"warm", "run"} /\ queue < Len(operations)
    /\ call[w] = Idle
    /\ pc = "warm" => idle
    /\ queue' = queue + 1
    /\ call' = [call EXCEPT ![w] =
          [n |-> queue + 1, do |-> IF args.mode = "bypass" THEN "sleep"
                                   ELSE IF isWrite(queue + 1) THEN "write" ELSE "get"]]
    /\ UNCHANGED <<server, store, served, now, args, pc, at, since, trace, records,
                   before, after, got, errors, faults, ghosts>>

\* The call is over; the results of the warm-up are thrown away.
record(hit, origin, error, write) ==
    [hit |-> hit, origin |-> origin, error |-> error, write |-> write]
Raised == record(FALSE, 0, "raised", FALSE)
finish(w, r) ==
    /\ call' = [call EXCEPT ![w] = Idle]
    /\ records' = IF pc = "warm" THEN records ELSE put(records, call[w].n, r)

Bypass(w) ==
    /\ call[w].do = "sleep"
    /\ finish(w, record(FALSE, 1, "none", FALSE))
    /\ UNCHANGED <<server, store, served, now, args, pc, at, since, trace, queue,
                   before, after, got, errors, faults, ghosts>>

Write(w) ==
    /\ call[w].do = "write"
    /\ \/ store' = stored(store, keyOf(w), "value", 0) /\ UNCHANGED faults
          /\ finish(w, record(FALSE, 0, "none", TRUE))
       \/ Fault /\ UNCHANGED store
          /\ finish(w, record(FALSE, 0, IF setAnswer(FALSE) = "ok" THEN "none" ELSE "write failed",
                              TRUE))
    /\ UNCHANGED <<server, served, now, args, pc, at, since, trace, queue,
                   before, after, got, errors, ghosts>>

Get(w) ==
    /\ call[w].do = "get"
    /\ LET found == look(keyOf(w)) IN
       /\ served' = [gets |-> served.gets + 1,
                     hits |-> served.hits + IF found = "none" THEN 0 ELSE 1]
       /\ CASE found # "none" ->
                  finish(w, record(TRUE, 0, IF found = "value" THEN "none" ELSE "value mismatch", FALSE))
            [] found = "none" /\ args.mode = "origin" ->
                  call' = [call EXCEPT ![w].do = "fill"] /\ UNCHANGED records
            [] found = "none" /\ args.mode # "origin" ->
                  finish(w, record(FALSE, 0, "unexpected miss", FALSE))
    /\ UNCHANGED <<server, store, now, args, pc, at, since, trace, queue,
                   before, after, got, errors, faults, ghosts>>

\* (Mutant) What the origin delivered is not put into the cache.
Fill_forgotten(w) ==
    /\ call[w].do = "fill"
    /\ finish(w, record(FALSE, 1, "none", FALSE))
    /\ UNCHANGED <<server, store, served, now, args, pc, at, since, trace, queue,
                   before, after, got, errors, faults, ghosts>>

Fill(w) ==
    /\ call[w].do = "fill"
    /\ \/ store' = stored(store, keyOf(w), "value", 0) /\ UNCHANGED faults
          /\ finish(w, record(FALSE, 1, "none", FALSE))
       \/ Fault /\ UNCHANGED store
          /\ finish(w, record(FALSE, 1, IF setAnswer(FALSE) = "ok" THEN "none" ELSE "cache fill failed",
                              FALSE))
    /\ UNCHANGED <<server, served, now, args, pc, at, since, trace, queue,
                   before, after, got, errors, ghosts>>

\* (Mutant) The exception is lost with the thread.
Raises_lost(w) ==
    /\ call[w].do \in {"get", "write", "fill"}
    /\ Fault
    /\ call' = [call EXCEPT ![w] = Idle]
    /\ UNCHANGED <<server, store, served, now, args, pc, at, since, trace, queue, records,
                   before, after, got, errors, ghosts>>

\* A call to the server raises: in the warm-up that ends the client, in the pool
\* it is kept for the main thread.
Raises(w) ==
    /\ call[w].do \in {"get", "write", "fill"}
    /\ Fault
    /\ call' = [call EXCEPT ![w] = Idle]
    /\ IF pc = "warm" THEN pc' = "failed" /\ UNCHANGED records
                      ELSE records' = put(records, call[w].n, Raised) /\ UNCHANGED pc
    /\ UNCHANGED <<server, store, served, now, args, at, since, trace, queue,
                   before, after, got, errors, ghosts>>

\* (Mutant) The first stats are those from before the warm-up.
ReadBefore_early ==
    /\ pc = "warm" /\ queue = Len(warm) /\ idle
    /\ before' = [gets |-> 0, hits |-> 0]
    /\ cold' = {i \in {measured[n] : n \in DOMAIN measured} : ~live(key(i))}
    /\ queue' = 0 /\ pc' = "run"
    /\ UNCHANGED <<server, store, served, now, args, at, since, trace, call, records,
                   after, got, errors, faults, disturbed, misses>>

\* b.stats() before and after.
ReadBefore ==
    /\ pc = "warm" /\ queue = Len(warm) /\ idle
    /\ before' = served
    /\ cold' = {i \in {measured[n] : n \in DOMAIN measured} : ~live(key(i))}
    /\ queue' = 0 /\ pc' = "run"
    /\ UNCHANGED <<server, store, served, now, args, at, since, trace, call, records,
                   after, got, errors, faults, disturbed, misses>>

\* Results come to the main thread in order: it sees an exception when all that
\* was asked before is there, cancels what no thread has taken and waits.
SeeRaised ==
    /\ pc = "run"
    /\ \E n \in DOMAIN records : records[n] = Raised /\ 1..n \subseteq DOMAIN records
    /\ pc' = "stopping"
    /\ UNCHANGED <<server, store, served, now, args, at, since, trace, pool, before,
                   after, got, errors, faults, ghosts>>
Stopped ==
    /\ pc = "stopping" /\ idle
    /\ pc' = "failed"
    /\ UNCHANGED <<server, store, served, now, args, at, since, trace, pool, before,
                   after, got, errors, faults, ghosts>>

Collect ==
    /\ pc = "run"
    /\ DOMAIN records = 1..Len(measured)
    /\ \A n \in DOMAIN records : records[n] # Raised
    /\ after' = served
    /\ pc' = "done"
    /\ UNCHANGED <<server, store, served, now, args, at, since, trace, pool, before,
                   got, errors, faults, ghosts>>

\* The result of run.
count(P(_)) == Cardinality({n \in DOMAIN records : P(records[n])})
object_hits     == count(LAMBDA r : r.hit)
origin_requests == count(LAMBDA r : r.origin = 1)
write_operations == count(LAMBDA r : r.write)
read_operations == Cardinality(DOMAIN records) - write_operations
run_errors      == count(LAMBDA r : r.error # "none")

-----------------------------------------------------------------------------
\* batch: the trace in pieces of BatchSize; the server answers key by key.

lastOf(first) == IF first + BatchSize <= Requests THEN first + BatchSize ELSE Requests

BatchGet ==
    /\ pc = "batch" /\ at + Len(got) < lastOf(at)
    /\ LET found == look(key(trace[at + Len(got) + 1])) IN
       /\ got' = Append(got, found)
       /\ misses' = misses + IF found = "value" THEN 0 ELSE 1
    /\ UNCHANGED <<server, store, served, now, args, pc, at, since, trace, pool,
                   before, after, errors, faults, cold, disturbed>>

wrong(values) == \E i \in DOMAIN values : values[i] # "value"
BatchCheck ==
    /\ pc = "batch" /\ at < Requests /\ at + Len(got) = lastOf(at)
    /\ errors' = errors + (IF wrong(got) THEN 1 ELSE 0)
                 + (IF args.command = "pipeline" /\ Len(got) > 1
                       /\ "reorders_pipeline" \in defects THEN 1 ELSE 0)
    /\ at' = lastOf(at)
    /\ got' = <<>>
    /\ UNCHANGED <<server, store, served, now, args, pc, since, trace, pool, before,
                   after, faults, ghosts>>
BatchRaises ==
    /\ pc = "batch" /\ at < Requests
    /\ Fault
    /\ pc' = "failed"
    /\ UNCHANGED <<server, store, served, now, args, at, since, trace, pool, before,
                   after, got, errors, ghosts>>
BatchDone ==
    /\ pc = "batch" /\ at = Requests
    /\ pc' = "done"
    /\ UNCHANGED <<server, store, served, now, args, at, since, trace, pool, before,
                   after, got, errors, faults, ghosts>>
successful_ops == IF errors = 0 THEN Requests ELSE 0

-----------------------------------------------------------------------------
\* The server may still hold the key of an earlier probe.
Init ==
    /\ kind \in {"grpc", "resp", "memcached"}
    /\ defects \in SUBSET Defects
    /\ store \in {<<>>, put(<<>>, Key, [value |-> "value", until |-> 0])}
    /\ served = [gets |-> 0, hits |-> 0]
    /\ now = 1
    /\ args = NoCase
    /\ pc = "verify" /\ at = 1 /\ since = 0
    /\ trace = <<>>
    /\ queue = 0 /\ call = [w \in Workers |-> Idle] /\ records = <<>>
    /\ before = served /\ after = served
    /\ got = <<>> /\ errors = 0 /\ faults = 0
    /\ cold = {} /\ disturbed = FALSE /\ misses = 0

MainStep == \/ Sleep \/ Probe \/ StartCase \/ Preload \/ Preloaded
            \/ ReadBefore \/ SeeRaised \/ Stopped \/ Collect
            \/ BatchGet \/ BatchCheck \/ BatchDone
Thread(w) == Take(w) \/ Bypass(w) \/ Write(w) \/ Get(w) \/ Fill(w)

Next == \/ MainStep \/ ProbeFails \/ PreloadFails \/ BatchRaises \/ Evict
        \/ \E w \in Workers : Thread(w) \/ Raises(w)

\* Every call has a timeout, and threads that can run do.
Spec == Init /\ [][Next]_vars /\ WF_vars(MainStep) /\ \A w \in Workers : WF_vars(Thread(w))

-----------------------------------------------------------------------------
relevant == IF kind = "grpc" THEN Defects
            ELSE Defects \ {"reorders_multiget", "reorders_pipeline"}

\* The probe refuses the servers with any combination of the defects, none of which
\* hides another, and only those: unless the server lost the key by itself, or
\* refused a Set, just where the probe looks.  A gRPC-only defect is looked for with
\* gRPC (client.py:113-147).
ProbeIsRight ==
    pc # "verify" /\ ~disturbed => (pc = "refused" <=> defects \cap relevant # {})

\* What the client reports of the measurement is what the server counted in it,
\* warm-up left out, however the threads interleave; and a batch test reports
\* operations only if every read of it returned the object, although the server may
\* lose one between two keys of a batch (client.py:259-275, 304-337).
ClientAgreesWithServer ==
    /\ pc = "done" /\ args.command = "run" /\ args.mode # "bypass" =>
          /\ after.gets - before.gets = read_operations
          /\ after.hits - before.hits = object_hits
          /\ args.mode = "origin" => origin_requests = read_operations - object_hits
          /\ args.mode # "origin" /\ run_errors = 0 => object_hits = read_operations
    /\ pc = "done" /\ args.command # "run" /\ successful_ops > 0 => misses = 0

fetchesOf(i) == {n \in DOMAIN records : records[n].origin = 1 /\ measured[n] = i}

\* The origin load an origin test reports: every object that was not in the cache
\* at the start is fetched, and, if nothing is evicted or refused, only such
\* objects, each by a thread at most once (client.py:241-257).
OriginLoadExplained ==
    pc = "done" /\ args.command = "run" /\ args.mode = "origin" =>
        \A i \in {measured[n] : n \in DOMAIN measured} :
            /\ i \in cold => fetchesOf(i) # {}
            /\ faults = 0 =>
                 Cardinality(fetchesOf(i)) <= IF i \in cold THEN Cardinality(Workers) ELSE 0

\* The client ends, whatever a thread of the pool meets (client.py:264-269).
ClientEnds == <>(pc \in {"refused", "done", "failed"})
=============================================================================
