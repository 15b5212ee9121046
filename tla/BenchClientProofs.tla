------------------------- MODULE BenchClientProofs -------------------------
(***************************************************************************)
(* Theorems about BenchClient for any number of objects, requests, threads *)
(* and faults, any warm-up and any size of batch.                          *)
(***************************************************************************)
EXTENDS BenchClient, SequenceTheorems, FiniteSetTheorems, TLAPS

-----------------------------------------------------------------------------
\* The types of the state.
Values  == {"value", "new", "two", "cut"}
Tallies == [gets : Nat, hits : Nat]
Doings  == {"idle", "sleep", "write", "get", "fill"}
Errors  == {"none", "raised", "write failed", "value mismatch",
            "unexpected miss", "cache fill failed"}
Records == [hit : BOOLEAN, origin : {0, 1}, error : Errors, write : BOOLEAN]
Early   == {"verify", "passed", "refused"}
Stages  == Early \cup {"preload", "warm", "run", "stopping", "batch", "done", "failed"}

GoodStore(s) == \A k \in DOMAIN s : s[k].value \in Values /\ s[k].until \in Nat

ClientTypes ==
    /\ kind \in {"grpc", "resp", "memcached"} /\ defects \in SUBSET Defects
    /\ GoodStore(store)
    /\ served \in Tallies /\ before \in Tallies
    /\ now \in Nat /\ since \in Nat
    /\ pc \in Stages /\ at \in Nat
    /\ pc = "verify" => at \in 1..Len(probe)
    /\ pc \notin Early => trace \in [1..Requests -> Nat]
    /\ queue \in Nat
    /\ call \in [Workers -> [do : Doings, n : Nat]]
    /\ \A n \in DOMAIN records : records[n] \in Records
    /\ got \in Seq(Values \cup {"none"}) /\ errors \in Nat /\ misses \in Nat
    /\ faults \in Nat /\ disturbed \in BOOLEAN
    /\ disturbed => faults > 0

-----------------------------------------------------------------------------
\* The assertions of the probe, by position (client.py:113-147).
LEMMA ProbeTable ==
    /\ Len(probe) = IF kind = "grpc" THEN 14 ELSE 11
    /\ probe[1] = ask("delete", "none", "any")
    /\ probe[2] = ask("get", "none", "none")
    /\ probe[3] = ask("set", "value", "ok")
    /\ probe[4] = ask("get", "none", "value")
    /\ probe[5] = ask("set", "new", "ok")
    /\ probe[6] = ask("get", "none", "new")
    /\ probe[7] = ask("delete", "none", "ok")
    /\ probe[8] = ask("get", "none", "none")
    /\ probe[9] = ask("ttl", "value", "ok")
    /\ probe[10] = ask("poll", "none", "any")
    /\ probe[11] = ask("get", "none", "none")
    /\ kind = "grpc" => /\ probe[12] = ask("multiset", "none", "ok")
                        /\ probe[13] = ask("multiget", "none", "ok")
                        /\ probe[14] = ask("pipeline", "none", "ok")
  <1> DEFINE T == {ask("delete", "none", "any"), ask("get", "none", "none"),
                   ask("set", "value", "ok"), ask("get", "none", "value"),
                   ask("set", "new", "ok"), ask("get", "none", "new"),
                   ask("delete", "none", "ok"), ask("ttl", "value", "ok"),
                   ask("poll", "none", "any"), ask("multiset", "none", "ok"),
                   ask("multiget", "none", "ok"), ask("pipeline", "none", "ok")}
  <1>1. /\ Len(basic) = 11 /\ DOMAIN basic = 1..11
        /\ basic[1] = ask("delete", "none", "any")
        /\ basic[2] = ask("get", "none", "none")
        /\ basic[3] = ask("set", "value", "ok")
        /\ basic[4] = ask("get", "none", "value")
        /\ basic[5] = ask("set", "new", "ok")
        /\ basic[6] = ask("get", "none", "new")
        /\ basic[7] = ask("delete", "none", "ok")
        /\ basic[8] = ask("get", "none", "none")
        /\ basic[9] = ask("ttl", "value", "ok")
        /\ basic[10] = ask("poll", "none", "any")
        /\ basic[11] = ask("get", "none", "none")
    BY DEF basic
  <1>2. /\ Len(grpcOnly) = 3 /\ DOMAIN grpcOnly = 1..3
        /\ grpcOnly[1] = ask("multiset", "none", "ok")
        /\ grpcOnly[2] = ask("multiget", "none", "ok")
        /\ grpcOnly[3] = ask("pipeline", "none", "ok")
    BY DEF grpcOnly
  <1>3. basic \in Seq(T) /\ grpcOnly \in Seq(T)
    BY DEF basic, grpcOnly
  <1>4. CASE kind = "grpc"
    <2>1. probe = basic \o grpcOnly
      BY <1>4 DEF probe
    <2> HIDE DEF T
    <2>2. /\ Len(probe) = 14
          /\ \A i \in 1..11 : probe[i] = basic[i]
          /\ \A i \in 12..14 : probe[i] = grpcOnly[i - 11]
      <3> DEFINE f == basic  g == grpcOnly
      <3>1. f \in Seq(T) /\ g \in Seq(T) /\ Len(f) = 11 /\ Len(g) = 3
        BY <1>1, <1>2, <1>3
      <3>2. probe = f \o g
        BY <2>1
      <3> HIDE DEF f, g
      <3>3. /\ Len(f \o g) = Len(f) + Len(g)
            /\ \A i \in 1..(Len(f) + Len(g)) :
                  (f \o g)[i] = IF i <= Len(f) THEN f[i] ELSE g[i - Len(f)]
        BY <3>1, ConcatProperties
      <3>4. /\ Len(probe) = 14
            /\ \A i \in 1..11 : probe[i] = f[i]
            /\ \A i \in 12..14 : probe[i] = g[i - 11]
        <4>1. Len(f) + Len(g) = 14
          BY <3>1
        <4>2. \A i \in 1..14 :
                 probe[i] = IF i <= 11 THEN f[i] ELSE g[i - 11]
          BY <3>1, <3>2, <3>3, <4>1
        <4> HIDE DEF T
        <4>3. ASSUME NEW i \in 1..11 PROVE probe[i] = f[i]
          BY <4>2
        <4>4. ASSUME NEW i \in 12..14 PROVE probe[i] = g[i - 11]
          BY <4>2
        <4> QED
          BY <3>2, <3>3, <4>1, <4>3, <4>4
      <3> QED
        BY <3>4 DEF f, g
    <2> QED
      BY <1>1, <1>2, <1>4, <2>2
  <1>5. CASE kind # "grpc"
    BY <1>1, <1>5 DEF probe
  <1> QED
    BY <1>4, <1>5

-----------------------------------------------------------------------------
\* What the assertions before position p have excluded.
excluded(p) ==
    (IF p > 4 THEN {"drops_set", "cuts_at_nul"} ELSE {})
    \cup (IF p > 6 THEN {"keeps_first"} ELSE {})
    \cup (IF p > 8 THEN {"keeps_deleted"} ELSE {})
    \cup (IF p > 11 THEN {"never_expires"} ELSE {})
    \cup (IF p > 13 THEN {"reorders_multiget"} ELSE {})

Holds(k, v, until) == k \in DOMAIN store /\ store[k].value = v /\ store[k].until = until
Absent(k) == k \notin DOMAIN store

\* What an undisturbed server holds at each position of the probe.
ProbeState ==
    /\ at = 1 => Absent(Key) \/ Holds(Key, "value", 0)
    /\ at = 2 => \/ Absent(Key)
                 \/ Holds(Key, "value", 0) /\ "keeps_deleted" \in defects
    /\ at = 3 => Absent(Key)
    /\ at = 4 => IF "drops_set" \in defects THEN Absent(Key)
                 ELSE Holds(Key, IF "cuts_at_nul" \in defects THEN "cut" ELSE "value", 0)
    /\ at = 5 => Holds(Key, "value", 0)
    /\ at = 6 => Holds(Key, IF "keeps_first" \in defects THEN "value" ELSE "new", 0)
    /\ at = 7 => Holds(Key, "new", 0)
    /\ at = 8 => IF "keeps_deleted" \in defects THEN Holds(Key, "new", 0) ELSE Absent(Key)
    /\ at = 9 => Absent(Key)
    /\ at = 10 => Holds(Key, "value", since + 1) /\ since <= now
    /\ at = 11 => /\ Holds(Key, "value", since + 1)
                  /\ now >= since + 1 \/ "never_expires" \in defects
    /\ at = 13 => Holds(A, "value", 0) /\ Holds(B, "two", 0)

VerifyOK ==
    pc = "verify" /\ ~disturbed =>
        /\ defects \cap excluded(at) = {}
        /\ ProbeState

-----------------------------------------------------------------------------
\* Where each command is.
StageOK ==
    /\ pc \in Early \cup {"preload", "warm", "batch"} => DOMAIN records = {}
    /\ pc \in Early \cup {"preload"} =>
          /\ queue = 0 /\ idle
          /\ got = <<>> /\ errors = 0 /\ misses = 0
    /\ pc \in {"warm", "run", "stopping"} => args.command = "run"
    /\ pc = "batch" => args.command # "run" /\ idle

BatchOK ==
    pc = "batch" \/ (pc = "done" /\ args.command # "run") =>
        /\ at <= Requests /\ at + Len(got) <= lastOf(at)
        /\ errors = 0 /\ ~wrong(got) => misses = 0
        /\ pc = "done" => at = Requests

\* A call and its mode.
CallOK ==
    \A w \in Workers :
        /\ call[w].do = "sleep" => args.mode = "bypass"
        /\ call[w].do = "write" => args.mode = "mixed"
        /\ call[w].do = "fill" => args.mode = "origin"
        /\ call[w].do = "get" => args.mode # "bypass"

Measuring == pc \in {"run", "stopping"} \/ (pc = "done" /\ args.command = "run")

\* What a thread is at has been handed out, to it alone, and not recorded.
PoolOK ==
    Measuring =>
        /\ DOMAIN records \subseteq 1..queue
        /\ queue <= Len(measured)
        /\ \A w \in Workers : call[w].do # "idle" =>
              /\ call[w].n \in 1..queue
              /\ call[w].n \notin DOMAIN records
              /\ \A v \in Workers \ {w} : call[v].do # "idle" => call[v].n # call[w].n
        /\ pc = "done" => DOMAIN records = 1..Len(measured)
                          /\ after = served
                          /\ \A n \in DOMAIN records : records[n] # Raised

\* What a call may have returned.
RecordOK(r) ==
    \/ r = Raised
    \/ args.mode = "bypass"
    \/ r.write /\ ~r.hit /\ args.mode = "mixed"
    \/ ~r.write /\ r.hit /\ r.origin = 0
    \/ ~r.write /\ ~r.hit /\ args.mode = "origin" /\ r.origin = 1
    \/ ~r.write /\ ~r.hit /\ args.mode # "origin" /\ r.error # "none"

Reads   == {n \in DOMAIN records : ~records[n].write}
Hits    == {n \in DOMAIN records : records[n].hit}
Fillers == {w \in Workers : call[w].do = "fill"}

\* The server's counters and the client's records.
TallyOK ==
    Measuring =>
        /\ \A n \in DOMAIN records : RecordOK(records[n])
        /\ args.mode # "bypass" /\ (\A n \in DOMAIN records : records[n] # Raised) =>
              /\ served.gets = before.gets + Cardinality(Reads) + Cardinality(Fillers)
              /\ served.hits = before.hits + Cardinality(Hits)

-----------------------------------------------------------------------------
asked == {measured[n] : n \in DOMAIN measured}
FillersOf(i) == {w \in Workers : call[w].do = "fill" /\ measured[call[w].n] = i}

\* The origin's load, object by object: what of a cold object is in the cache came
\* from the origin; and without faults, only cold objects come from there, once
\* one is back it stays, and no thread fetches one twice.
Fetched(i) ==
    i \in cold /\ (live(key(i)) \/ \E n \in Hits : measured[n] = i) => fetchesOf(i) # {}
OnceEach(i) ==
    /\ i \notin cold \/ fetchesOf(i) # {} => live(key(i))
    /\ FillersOf(i) # {} \/ fetchesOf(i) # {} => i \in cold
    /\ Cardinality(fetchesOf(i)) + Cardinality(FillersOf(i)) <= Cardinality(Workers)
OriginOK ==
    Measuring /\ args.mode = "origin" =>
        \A i \in asked : Fetched(i) /\ (faults = 0 => OnceEach(i))

ClientInv ==
    /\ ClientTypes /\ VerifyOK /\ ProbeIsRight
    /\ StageOK /\ BatchOK /\ CallOK /\ PoolOK /\ TallyOK /\ OriginOK

-----------------------------------------------------------------------------
\* What the server stores is well formed.
LEMMA StoredGood ==
    ASSUME NEW s, GoodStore(s), NEW k, NEW v \in Values, NEW ttl \in Nat, now \in Nat
    PROVE  GoodStore(stored(s, k, v, ttl))
  <1>1. entry(v, ttl).value \in Values /\ entry(v, ttl).until \in Nat
    BY DEF entry, Values
  <1> DEFINE e == entry(v, ttl)
             q == put(s, k, e)
  <1>3. stored(s, k, v, ttl) \in {s, q} /\ q = put(s, k, e)
    BY DEF stored
  <1> HIDE DEF e, q
  <1>2. /\ DOMAIN q = DOMAIN s \cup {k} /\ q[k] = e
        /\ \A j \in DOMAIN s : j # k => q[j] = s[j]
    BY <1>3 DEF put
  <1>4. GoodStore(q)
    BY <1>1, <1>2 DEF GoodStore, e
  <1> QED
    BY <1>3, <1>4

\* An eviction and a deletion only take away.
LEMMA WithoutGood ==
    ASSUME NEW s, GoodStore(s), NEW k
    PROVE  GoodStore(without(s, k))
  BY DEF GoodStore, without

\* What a call of the probe leaves.
LEMMA ProbeStoreGood ==
    ASSUME GoodStore(store), now \in Nat, NEW p \in 1..Len(probe)
    PROVE  GoodStore(probeEffect(probe[p]))
  <1> DEFINE st == probe[p]
  <1>1. st.op \in {"set", "ttl"} => st.value \in Values
    <2>1. Len(probe) = 14 \/ Len(probe) = 11
      BY ProbeTable
    <2>2. p \in 1..11 \/ (kind = "grpc" /\ p \in 12..14)
      BY <2>1, ProbeTable
    <2> QED
      BY <2>2, ProbeTable DEF ask, Values
  <1>2. 0 \in Nat /\ TtlRequested \in Nat /\ "value" \in Values /\ "two" \in Values
    BY DEF TtlRequested, Values
  <1> HIDE DEF st
  <1>3. GoodStore(stored(stored(store, A, "value", 0), B, "two", 0))
    <2>1. GoodStore(stored(store, A, "value", 0))
      BY <1>2, StoredGood
    <2> QED
      BY <1>2, <2>1, StoredGood
  <1>4. GoodStore(probeEffect(st))
    BY <1>1, <1>2, <1>3, StoredGood, WithoutGood DEF probeEffect
  <1> QED
    BY <1>4 DEF st

\* What a call returns.
LEMMA RecordTypes ==
    /\ \A h \in BOOLEAN, o \in {0, 1}, e \in Errors, w \in BOOLEAN :
          record(h, o, e, w) \in Records
    /\ Raised \in Records
  BY DEF record, Raised, Records, Errors

\* Places in records.
LEMMA PutRecord ==
    ASSUME \A n \in DOMAIN records : records[n] \in Records, NEW m, NEW r \in Records
    PROVE  \A n \in DOMAIN put(records, m, r) : put(records, m, r)[n] \in Records
  <1> DEFINE q == put(records, m, r)
  <1>1. q = put(records, m, r)
    OBVIOUS
  <1> HIDE DEF q
  <1>2. /\ DOMAIN q = DOMAIN records \cup {m} /\ q[m] = r
        /\ \A j \in DOMAIN records : j # m => q[j] = records[j]
    BY <1>1 DEF put
  <1>3. \A n \in DOMAIN q : q[n] \in Records
    BY <1>2
  <1> QED
    BY <1>3 DEF q

\* What a lookup gives.
LEMMA LookType ==
    ASSUME GoodStore(store), NEW k
    PROVE  /\ look(k) \in Values \cup {"none"}
           /\ look(k) = "none" <=> ~live(k)
  <1>1. live(k) => store[k].value \in Values
    BY DEF live, GoodStore
  <1>2. "none" \notin Values
    BY DEF Values
  <1>3. look(k) = IF live(k) THEN store[k].value ELSE "none"
    BY DEF look
  <1> QED
    BY <1>1, <1>2, <1>3


-----------------------------------------------------------------------------
\* The measured part of a trace is a sequence of objects.
LEMMA MeasuredSeq ==
    ASSUME trace \in [1..Requests -> Nat]
    PROVE  measured \in Seq(Nat) /\ Len(measured) \in Nat /\ DOMAIN measured = 1..Len(measured)
  <1>1. Requests \in Nat /\ Warmup \in Nat /\ warmCount \in Nat
    BY ClientAssumption DEF warmCount
  <1>2. trace \in Seq(Nat)
    BY <1>1
  <1>3. SubSeq(trace, warmCount + 1, Requests) \in Seq(Nat)
    <2> DEFINE m == warmCount + 1
    <2>1. m \in Int /\ m >= 1 /\ Requests \in Int
      BY <1>1
    <2> HIDE DEF m
    <2>2. \A i \in m..Requests : trace[i] \in Nat
      BY <1>1, <2>1
    <2>3. SubSeq(trace, m, Requests) \in Seq(Nat)
      BY <2>1, <2>2, SubSeqProperties
    <2> QED
      BY <2>3 DEF m
  <1>4. measured \in Seq(Nat)
    BY <1>2, <1>3 DEF measured
  <1> HIDE DEF measured
  <1> QED
    BY <1>4

\* Every step of the probe keeps the types.
LEMMA ProbeTypes ==
    ASSUME ClientTypes, Sleep \/ Probe \/ ProbeFails
    PROVE  ClientTypes'
  <1>0. /\ pc = "verify" /\ at \in 1..Len(probe) /\ Len(probe) \in Nat
        /\ kind' = kind /\ probe' = probe
    <2>1. pc = "verify" /\ kind' = kind
      BY DEF Sleep, Probe, ProbeFails, server
    <2>2. Len(probe) = 14 \/ Len(probe) = 11
      BY ProbeTable
    <2>3. probe' = probe
      BY <2>1 DEF probe
    <2> QED
      BY <2>1, <2>2, <2>3 DEF ClientTypes
  <1>1. CASE Sleep
    <2>1. UNCHANGED <<server, store, served, args, pc, at, since, trace, pool,
                      before, after, got, errors, faults, ghosts>>
      BY <1>1 DEF Sleep
    <2>2. now' \in Nat
      <3>1. PICK late \in {0, 1} : now' = now + 1 + late
        BY <1>1 DEF Sleep
      <3>2. now \in Nat
        BY DEF ClientTypes
      <3> QED
        BY <3>1, <3>2
    <2> QED
      BY <1>0, <2>1, <2>2
      DEF ClientTypes, server, pool, ghosts, Early, GoodStore
  <1>j. ASSUME NEW st, NEW a, judge(st, a)
        PROVE  /\ pc' \in {"refused", "passed", "verify"} /\ at' \in Nat
               /\ pc' = "verify" => at' \in 1..Len(probe)
    BY <1>0, <1>j DEF judge
  <1>2. CASE Probe
    <2>1. /\ judge(probe[at], probeAnswer(probe[at])) /\ store' = probeEffect(probe[at])
          /\ since' \in {now, since}
          /\ UNCHANGED <<server, served, now, args, trace, pool, before, after, got,
                         errors, faults, ghosts>>
      BY <1>2 DEF Probe
    <2>2. GoodStore(store)'
      BY <1>0, <2>1, ProbeStoreGood DEF ClientTypes
    <2>3. /\ pc' \in {"refused", "passed", "verify"} /\ at' \in Nat
          /\ pc' = "verify" => at' \in 1..Len(probe)
      BY <1>j, <2>1
    <2> QED
      BY <1>0, <2>1, <2>2, <2>3 DEF ClientTypes, server, pool, ghosts, Early, Stages
  <1>3. CASE ProbeFails
    <2>1. /\ faults' = faults + 1 /\ since' = now /\ disturbed' = TRUE
          /\ UNCHANGED <<server, store, served, now, args, trace, pool, before,
                         after, got, errors, cold, misses>>
      BY <1>3 DEF ProbeFails, Fault
    <2>3. /\ pc' \in {"refused", "passed", "verify"} /\ at' \in Nat
          /\ pc' = "verify" => at' \in 1..Len(probe)
      <3>1. \/ judge(probe[at], setAnswer(FALSE))
            \/ pc' = "refused" /\ at' = at
        BY <1>3 DEF ProbeFails
      <3>2. at \in Nat
        BY DEF ClientTypes
      <3> QED
        BY <3>1, <3>2, <1>j
    <2> QED
      BY <1>0, <2>1, <2>3 DEF ClientTypes, server, pool, Early, Stages
  <1> QED
    BY <1>1, <1>2, <1>3

\* So does every other step of the main thread.
LEMMA MainTypes ==
    ASSUME ClientTypes,
           \/ StartCase \/ Preload \/ PreloadFails \/ Preloaded \/ ReadBefore
           \/ SeeRaised \/ Stopped \/ Collect
           \/ BatchGet \/ BatchCheck \/ BatchRaises \/ BatchDone
    PROVE  ClientTypes'
  <1>0. {Objects, Requests, BatchSize} \subseteq Nat
    BY ClientAssumption
  <1>1. CASE StartCase
    <2>1. /\ pc' = "preload" /\ at' = 0 /\ trace' \in [1..Requests -> Nat]
          /\ UNCHANGED <<server, store, served, now, since, pool, before, after,
                         got, errors, faults, ghosts>>
      <3>1. PICK c \in Cases : trace' \in make_trace(c.pattern)
        BY <1>1 DEF StartCase
      <3>2. trace' \in [1..Requests -> 0..(Objects + Requests)]
        BY <3>1 DEF make_trace
      <3>3. trace' \in [1..Requests -> Nat]
        BY <1>0, <3>2
      <3> QED
        BY <1>1, <3>3 DEF StartCase
    <2> QED
      BY <2>1 DEF ClientTypes, server, pool, ghosts, Early, Stages
  <1>2. CASE Preload
    <2>1. /\ store' = stored(store, key(at), "value", 0) /\ at' = at + 1 /\ pc = "preload"
          /\ UNCHANGED <<server, served, now, args, pc, since, trace, pool, before,
                         after, got, errors, faults, ghosts>>
      BY <1>2 DEF Preload
    <2>2. GoodStore(store)'
      <3>1. "value" \in Values /\ 0 \in Nat /\ now \in Nat /\ GoodStore(store)
        BY DEF Values, ClientTypes
      <3> QED
        BY <2>1, <3>1, StoredGood
    <2> QED
      BY <2>1, <2>2 DEF ClientTypes, server, pool, ghosts, Early, Stages
  <1>3. CASE PreloadFails
    <2>1. /\ faults' = faults + 1 /\ pc = "preload"
          /\ at' \in {at, at + 1} /\ pc' \in {"preload", "failed"}
          /\ UNCHANGED <<server, store, served, now, args, since, trace, pool,
                         before, after, got, errors, ghosts>>
      <3>1. \/ at' = at + 1 /\ pc' = pc
            \/ at' = at /\ pc' = "failed"
        BY <1>3 DEF PreloadFails
      <3> QED
        BY <1>3, <3>1 DEF PreloadFails, Fault
    <2> QED
      BY <2>1 DEF ClientTypes, server, pool, ghosts, Early, Stages
  <1>4. CASE Preloaded \/ SeeRaised \/ Stopped \/ Collect \/ BatchDone
    BY <1>4
    DEF Preloaded, SeeRaised, Stopped, Collect, BatchDone, ClientTypes, server,
        pool, ghosts, Early, Stages
  <1>5. CASE ReadBefore
    BY <1>5 DEF ReadBefore, ClientTypes, server, Early, Stages
  <1>6. CASE BatchGet
    <2> DEFINE found == look(key(trace[at + Len(got) + 1]))
    <2>1. /\ got' = Append(got, found)
          /\ misses' = misses + IF found = "value" THEN 0 ELSE 1
          /\ UNCHANGED <<server, store, served, now, args, pc, at, since, trace,
                         pool, before, after, errors, faults, cold, disturbed>>
          /\ pc = "batch"
      BY <1>6 DEF BatchGet
    <2>2. found \in Values \cup {"none"}
      BY LookType DEF ClientTypes
    <2> HIDE DEF found
    <2>3. got' \in Seq(Values \cup {"none"}) /\ misses' \in Nat
      BY <2>1, <2>2 DEF ClientTypes
    <2> QED
      BY <2>1, <2>3 DEF ClientTypes, server, pool, Early, Stages
  <1>7. CASE BatchCheck
    <2>1. /\ errors' = errors + (IF wrong(got) THEN 1 ELSE 0)
                 + (IF args.command = "pipeline" /\ Len(got) > 1
                       /\ "reorders_pipeline" \in defects THEN 1 ELSE 0)
          /\ at' = lastOf(at) /\ got' = <<>> /\ pc = "batch"
          /\ UNCHANGED <<server, store, served, now, args, pc, since, trace, pool,
                         before, after, faults, ghosts>>
      BY <1>7 DEF BatchCheck
    <2>2. errors' \in Nat /\ at' \in Nat
      BY <1>0, <2>1 DEF ClientTypes, lastOf
    <2>3. <<>> \in Seq(Values \cup {"none"})
      OBVIOUS
    <2> QED
      BY <2>1, <2>2, <2>3 DEF ClientTypes, server, pool, ghosts, Early, Stages
  <1>8. CASE BatchRaises
    BY <1>8 DEF BatchRaises, Fault, ClientTypes, server, pool, ghosts, Early, Stages
  <1> QED
    BY <1>1, <1>2, <1>3, <1>4, <1>5, <1>6, <1>7, <1>8

\* The end of a call keeps the types of the pool.
LEMMA FinishTypes ==
    ASSUME ClientTypes, NEW w \in Workers, NEW r \in Records, finish(w, r)
    PROVE  /\ call' \in [Workers -> [do : Doings, n : Nat]]
           /\ \A n \in DOMAIN records' : records'[n] \in Records
  <1>1. Idle \in [do : Doings, n : Nat]
    BY DEF Idle, Doings
  <1>2. call' \in [Workers -> [do : Doings, n : Nat]]
    BY <1>1 DEF finish, ClientTypes
  <1> DEFINE m == call[w].n
  <1>3. records' = records \/ records' = put(records, m, r)
    BY DEF finish
  <1> HIDE DEF m
  <1>4. \A n \in DOMAIN put(records, m, r) : put(records, m, r)[n] \in Records
    BY PutRecord DEF ClientTypes
  <1>5. \A n \in DOMAIN records' : records'[n] \in Records
    BY <1>3, <1>4 DEF ClientTypes
  <1> QED
    BY <1>2, <1>5

\* A thread is at work in the warm-up and in the measurement only.
LEMMA BusyStage ==
    ASSUME ClientTypes, StageOK, NEW w \in Workers, call[w].do # "idle"
    PROVE  pc \notin Early \cup {"preload"}
  BY DEF StageOK, idle, Idle

\* Every step of a thread of the pool keeps the types, and so does an eviction.
LEMMA ThreadTypes ==
    ASSUME ClientTypes, StageOK, NEW w \in Workers,
           Take(w) \/ Bypass(w) \/ Write(w) \/ Get(w) \/ Fill(w) \/ Raises(w)
    PROVE  ClientTypes'
  <1>0. /\ "none" \in Errors /\ {"write failed", "value mismatch", "unexpected miss",
                                 "cache fill failed"} \subseteq Errors
        /\ "value" \in Values /\ 0 \in Nat /\ now \in Nat /\ GoodStore(store)
    BY DEF Errors, Values, ClientTypes
  <1>s. GoodStore(stored(store, keyOf(w), "value", 0))
    BY <1>0, StoredGood
  <1>1. CASE Take(w)
    <2> DEFINE c == [n |-> queue + 1,
                     do |-> IF args.mode = "bypass" THEN "sleep"
                            ELSE IF isWrite(queue + 1) THEN "write" ELSE "get"]
    <2>1. /\ queue' = queue + 1 /\ call' = [call EXCEPT ![w] = c]
          /\ UNCHANGED <<server, store, served, now, args, pc, at, since, trace,
                         records, before, after, got, errors, faults, ghosts>>
          /\ pc \in {"warm", "run"}
      BY <1>1 DEF Take
    <2>2. c \in [do : Doings, n : Nat]
      BY DEF ClientTypes, Doings
    <2> HIDE DEF c
    <2>3. queue' \in Nat /\ call' \in [Workers -> [do : Doings, n : Nat]]
      BY <2>1, <2>2 DEF ClientTypes
    <2> QED
      BY <2>1, <2>3 DEF ClientTypes, server, ghosts, Early, Stages
  <1>t. ASSUME /\ UNCHANGED <<kind, defects, now, args, at, since, trace, queue,
                               before, got, errors, disturbed, misses>>
               /\ GoodStore(store)' /\ served' \in Tallies
               /\ pc' \in {pc, "failed"}
               /\ faults' \in Nat /\ faults' >= faults
               /\ call' \in [Workers -> [do : Doings, n : Nat]]
               /\ \A n \in DOMAIN records' : records'[n] \in Records
               /\ call[w].do # "idle"
        PROVE  ClientTypes'
    <2>1. pc \notin Early
      BY <1>t, BusyStage
    <2>2. pc' \notin Early /\ pc' # "verify" /\ pc' \in Stages
      BY <1>t, <2>1 DEF ClientTypes, Early, Stages
    <2>3. disturbed' => faults' > 0
      BY <1>t DEF ClientTypes
    <2> QED
      BY <1>t, <2>1, <2>2, <2>3 DEF ClientTypes
  <1>v. served \in Tallies /\ faults \in Nat /\ faults + 1 \in Nat /\ faults + 1 >= faults
        /\ faults >= faults
    BY DEF ClientTypes
  <1>2. CASE Bypass(w)
    <2> DEFINE r == record(FALSE, 1, "none", FALSE)
    <2>1. /\ finish(w, r) /\ call[w].do # "idle"
          /\ UNCHANGED <<kind, defects, store, served, now, args, pc, at, since,
                         trace, queue, before, got, errors, faults, disturbed, misses>>
      BY <1>2 DEF Bypass, server, ghosts
    <2>2. r \in Records
      BY <1>0, RecordTypes
    <2> HIDE DEF r
    <2>3. /\ call' \in [Workers -> [do : Doings, n : Nat]]
          /\ \A n \in DOMAIN records' : records'[n] \in Records
      BY <2>1, <2>2, FinishTypes
    <2>4. GoodStore(store)'
      BY <1>0, <2>1 DEF GoodStore
    <2> QED
      BY <2>1, <2>3, <2>4, <1>t, <1>v
  <1>3. CASE Write(w) \/ Fill(w)
    <2>1. /\ call[w].do # "idle"
          /\ UNCHANGED <<kind, defects, served, now, args, pc, at, since,
                         trace, queue, before, got, errors, disturbed, misses>>
      BY <1>3 DEF Write, Fill, server, ghosts
    <2>2. /\ faults' \in {faults, faults + 1}
          /\ store' \in {store, stored(store, keyOf(w), "value", 0)}
      BY <1>3 DEF Write, Fill, Fault
    <2>3. PICK r \in Records : finish(w, r)
      <3>1. \E o \in {0, 1}, e \in Errors, b \in BOOLEAN : finish(w, record(FALSE, o, e, b))
        <4> DEFINE e1 == IF setAnswer(FALSE) = "ok" THEN "none" ELSE "write failed"
                   e2 == IF setAnswer(FALSE) = "ok" THEN "none" ELSE "cache fill failed"
        <4>1. e1 \in Errors /\ e2 \in Errors
          BY <1>0
        <4>2. \/ finish(w, record(FALSE, 0, "none", TRUE))
              \/ finish(w, record(FALSE, 0, e1, TRUE))
              \/ finish(w, record(FALSE, 1, "none", FALSE))
              \/ finish(w, record(FALSE, 1, e2, FALSE))
          BY <1>3 DEF Write, Fill
        <4> HIDE DEF e1, e2
        <4> QED
          BY <1>0, <4>1, <4>2
      <3> QED
        BY <3>1, RecordTypes
    <2>4. /\ call' \in [Workers -> [do : Doings, n : Nat]]
          /\ \A n \in DOMAIN records' : records'[n] \in Records
      BY <2>3, FinishTypes
    <2>5. GoodStore(store)'
      BY <1>0, <1>s, <2>2 DEF GoodStore
    <2>6. faults' \in Nat /\ faults' >= faults
      BY <1>v, <2>2
    <2> QED
      BY <2>1, <2>4, <2>5, <2>6, <1>t, <1>v
  <1>4. CASE Get(w)
    <2> DEFINE found == look(keyOf(w))
    <2>1. /\ call[w].do # "idle"
          /\ UNCHANGED <<kind, defects, store, now, args, pc, at, since,
                         trace, queue, before, got, errors, faults, disturbed, misses>>
          /\ served' = [gets |-> served.gets + 1,
                        hits |-> served.hits + IF found = "none" THEN 0 ELSE 1]
      BY <1>4 DEF Get, server, ghosts
    <2>2. \/ finish(w, record(TRUE, 0, IF found = "value" THEN "none" ELSE "value mismatch", FALSE))
          \/ call' = [call EXCEPT ![w].do = "fill"] /\ UNCHANGED records
          \/ finish(w, record(FALSE, 0, "unexpected miss", FALSE))
      BY <1>4 DEF Get
    <2>3. served' \in Tallies
      BY <1>v, <2>1 DEF Tallies
    <2>4. /\ call' \in [Workers -> [do : Doings, n : Nat]]
          /\ \A n \in DOMAIN records' : records'[n] \in Records
      <3> DEFINE e == IF found = "value" THEN "none" ELSE "value mismatch"
      <3>1. e \in Errors
        BY <1>0
      <3>2. CASE call' = [call EXCEPT ![w].do = "fill"] /\ UNCHANGED records
        BY <3>2 DEF ClientTypes, Doings
      <3> HIDE DEF e
      <3>3. record(TRUE, 0, e, FALSE) \in Records
            /\ record(FALSE, 0, "unexpected miss", FALSE) \in Records
        BY <1>0, <3>1, RecordTypes
      <3>4. CASE finish(w, record(TRUE, 0, e, FALSE))
        BY <3>3, <3>4, FinishTypes
      <3>5. CASE finish(w, record(FALSE, 0, "unexpected miss", FALSE))
        BY <3>3, <3>5, FinishTypes
      <3> QED
        BY <2>2, <3>2, <3>4, <3>5 DEF e
    <2>5. GoodStore(store)'
      BY <1>0, <2>1 DEF GoodStore
    <2> QED
      BY <2>1, <2>3, <2>4, <2>5, <1>t, <1>v
  <1>5. CASE Raises(w)
    <2> DEFINE m == call[w].n
    <2>1. /\ call[w].do # "idle" /\ faults' = faults + 1
          /\ UNCHANGED <<kind, defects, store, served, now, args, at, since,
                         trace, queue, before, got, errors, disturbed, misses>>
          /\ call' = [call EXCEPT ![w] = Idle]
      BY <1>5 DEF Raises, Fault, server, ghosts
    <2>2. \/ pc' = "failed" /\ UNCHANGED records
          \/ records' = put(records, m, Raised) /\ UNCHANGED pc
      BY <1>5 DEF Raises
    <2>3. Idle \in [do : Doings, n : Nat]
      BY DEF Idle, Doings
    <2>4. call' \in [Workers -> [do : Doings, n : Nat]]
      BY <2>1, <2>3 DEF ClientTypes
    <2> HIDE DEF m
    <2>5. \A n \in DOMAIN records' : records'[n] \in Records
      <3>1. \A n \in DOMAIN put(records, m, Raised) : put(records, m, Raised)[n] \in Records
        BY PutRecord, RecordTypes DEF ClientTypes
      <3> QED
        BY <2>2, <3>1 DEF ClientTypes
    <2>6. GoodStore(store)'
      BY <1>0, <2>1 DEF GoodStore
    <2>7. pc' \in {pc, "failed"}
      BY <2>2
    <2> QED
      BY <2>1, <2>4, <2>5, <2>6, <2>7, <1>t, <1>v
  <1> QED
    BY <1>1, <1>2, <1>3, <1>4, <1>5

\* Losing an object keeps the types.
LEMMA EvictTypes ==
    ASSUME ClientTypes, Evict
    PROVE  ClientTypes'
  <1>1. /\ faults' = faults + 1 /\ disturbed' \in BOOLEAN
        /\ UNCHANGED <<kind, defects, served, now, args, pc, at, since, trace, pool,
                       before, got, errors, misses>>
    BY DEF Evict, Fault, server, ClientTypes
  <1>2. GoodStore(store)'
    <2>1. PICK k \in DOMAIN store : store' = without(store, k)
      BY DEF Evict
    <2>2. GoodStore(store)
      BY DEF ClientTypes
    <2> QED
      BY <2>1, <2>2, WithoutGood
  <1>3. probe' = probe
    BY <1>1 DEF probe
  <1> QED
    BY <1>1, <1>2, <1>3 DEF ClientTypes, pool

-----------------------------------------------------------------------------
\* Once the probe is over nothing about its verdict changes.
LEMMA VerdictStands ==
    ASSUME ClientTypes, StageOK, Next, pc # "verify"
    PROVE  /\ UNCHANGED <<kind, defects, disturbed>>
           /\ pc' # "verify" /\ (pc' = "refused" <=> pc = "refused")
  <1>1. CASE StartCase \/ Preload \/ PreloadFails \/ Preloaded
    BY <1>1 DEF StartCase, Preload, PreloadFails, Preloaded, server, ghosts
  <1>2. CASE ReadBefore \/ SeeRaised \/ Stopped \/ Collect
    BY <1>2 DEF ReadBefore, SeeRaised, Stopped, Collect, server, ghosts
  <1>3. CASE BatchGet \/ BatchCheck \/ BatchRaises \/ BatchDone
    BY <1>3 DEF BatchGet, BatchCheck, BatchRaises, BatchDone, server, ghosts
  <1>4. CASE Evict
    BY <1>4 DEF Evict, server, ClientTypes
  <1>5. ASSUME NEW w \in Workers, Thread(w) \/ Raises(w)
        PROVE  /\ UNCHANGED <<kind, defects, disturbed>>
               /\ pc' # "verify" /\ (pc' = "refused" <=> pc = "refused")
    <2>1. CASE Take(w)
      BY <2>1 DEF Take, server, ghosts
    <2>2. CASE Bypass(w) \/ Write(w) \/ Get(w) \/ Fill(w) \/ Raises(w)
      <3>1. call[w].do # "idle"
        BY <2>2 DEF Bypass, Write, Get, Fill, Raises
      <3>2. pc \notin Early
        BY <3>1, BusyStage
      <3>3. pc' \in {pc, "failed"}
        BY <2>2 DEF Bypass, Write, Get, Fill, Raises
      <3> QED
        BY <2>2, <3>2, <3>3 DEF Bypass, Write, Get, Fill, Raises, server, ghosts, Early
    <2> QED
      BY <1>5, <2>1, <2>2 DEF Thread
  <1>6. CASE Sleep \/ Probe \/ ProbeFails
    BY <1>6 DEF Sleep, Probe, ProbeFails
  <1> QED
    BY <1>1, <1>2, <1>3, <1>4, <1>5, <1>6 DEF Next, MainStep

\* What the assertions have excluded, one by one.
LEMMA ExcludedMember ==
    ASSUME NEW p \in Nat, NEW d
    PROVE  d \in excluded(p) <=>
             \/ p > 4 /\ d \in {"drops_set", "cuts_at_nul"}
             \/ p > 6 /\ d = "keeps_first"
             \/ p > 8 /\ d = "keeps_deleted"
             \/ p > 11 /\ d = "never_expires"
             \/ p > 13 /\ d = "reorders_multiget"
  BY DEF excluded

\* What a Set leaves when the server takes it.
LEMMA StoredHolds ==
    ASSUME NEW s, NEW k, NEW v, NEW ttl,
           "drops_set" \notin defects, ~(live(k) /\ "keeps_first" \in defects),
           NEW q, q = stored(s, k, v, ttl)
    PROVE  /\ k \in DOMAIN q
           /\ q[k].value = IF "cuts_at_nul" \in defects THEN "cut" ELSE v
           /\ q[k].until = IF ttl = 0 THEN 0 ELSE now + ttl
           /\ \A j \in DOMAIN s : j # k => j \in DOMAIN q /\ q[j] = s[j]
  <1> DEFINE e == entry(v, ttl)
  <1>1. q = put(s, k, e)
    BY DEF stored
  <1>2. /\ e.value = IF "cuts_at_nul" \in defects THEN "cut" ELSE v
        /\ e.until = IF ttl = 0 THEN 0 ELSE now + ttl
    BY DEF entry
  <1> HIDE DEF e
  <1>3. /\ DOMAIN q = DOMAIN s \cup {k} /\ q[k] = e
        /\ \A j \in DOMAIN s : j # k => q[j] = s[j]
    BY <1>1 DEF put
  <1> QED
    BY <1>2, <1>3

\* A key held without a deadline is read; one that is not held is not.
LEMMA LookHeld ==
    ASSUME NEW k
    PROVE  /\ Absent(k) => ~live(k) /\ look(k) = "none"
           /\ \A v : Holds(k, v, 0) => live(k) /\ look(k) = v
  BY DEF Absent, Holds, live, look

\* What a call of the probe answers and leaves, by operation.
LEMMA ProbeCalls ==
    ASSUME NEW s
    PROVE  /\ s.op \in {"set", "ttl", "multiset"} => probeAnswer(s) = "ok"
           /\ s.op = "get" => probeAnswer(s) = look(Key) /\ probeEffect(s) = store
           /\ s.op = "delete" =>
                 /\ probeAnswer(s) = deleteAnswer(Key)
                 /\ probeEffect(s) = IF "keeps_deleted" \in defects THEN store
                                     ELSE without(store, Key)
           /\ s.op = "poll" => probeEffect(s) = store
           /\ s.op = "multiget" => probeAnswer(s) = multigetAnswer
           /\ s.op = "pipeline" => probeAnswer(s) = pipelineAnswer
           /\ s.op = "set" => probeEffect(s) = stored(store, Key, s.value, 0)
           /\ s.op = "ttl" => probeEffect(s) = stored(store, Key, s.value, TtlRequested)
           /\ s.op = "multiset" =>
                 probeEffect(s) = stored(stored(store, A, "value", 0), B, "two", 0)
  BY DEF probeAnswer, probeEffect

\* An assertion of the probe on a server that has not been disturbed
\* (client.py:113-147).
LEMMA VerifyStep ==
    ASSUME ClientTypes, VerifyOK, pc = "verify", ~disturbed, Probe
    PROVE  (VerifyOK /\ ProbeIsRight)'
  <1> DEFINE s == probe[at]
             ans == probeAnswer(s)
  <1>1. /\ judge(s, ans) /\ store' = probeEffect(s)
        /\ since' = IF s.op = "ttl" THEN now ELSE since
        /\ s.op = "poll" => ~live(Key) \/ now - since >= TtlPatience
        /\ UNCHANGED <<kind, defects, now, disturbed>>
    BY DEF Probe, server, ghosts
  <1>2. /\ defects \in SUBSET Defects /\ now \in Nat /\ since \in Nat
        /\ at \in 1..Len(probe) /\ defects \cap excluded(at) = {} /\ ProbeState
    BY DEF ClientTypes, VerifyOK
  <1>3. Len(probe) = IF kind = "grpc" THEN 14 ELSE 11
    BY ProbeTable
  <1>4. at \in 1..11 \/ (kind = "grpc" /\ at \in 12..14)
    BY <1>2, <1>3
  <1>r. /\ \A d : d \in relevant <=> d \in Defects
                     /\ (kind = "grpc" \/ d \notin {"reorders_multiget", "reorders_pipeline"})
        /\ relevant' = relevant
    BY <1>1 DEF relevant
  <1>x. ASSUME s.want \notin {"any", ans}, NEW d \in defects, d \in relevant
        PROVE  (VerifyOK /\ ProbeIsRight)'
    <2>1. pc' = "refused"
      BY <1>1, <1>x DEF judge
    <2> QED
      BY <1>1, <1>r, <1>x, <2>1 DEF VerifyOK, ProbeIsRight
  <1>z. ASSUME s.want \in {"any", ans}, at = Len(probe), defects \cap relevant = {}
        PROVE  (VerifyOK /\ ProbeIsRight)'
    <2>1. pc' = "passed"
      BY <1>1, <1>z DEF judge
    <2> QED
      BY <1>1, <1>r, <1>z, <2>1 DEF VerifyOK, ProbeIsRight
  <1>y. ASSUME s.want \in {"any", ans}, at # Len(probe),
               \A d \in defects : d \notin excluded(at + 1),
               at' = at + 1 => ProbeState'
        PROVE  (VerifyOK /\ ProbeIsRight)'
    <2>1. pc' = "verify" /\ at' = at + 1
      BY <1>1, <1>y DEF judge
    <2>2. defects' \cap excluded(at') = {}
      BY <1>1, <1>y, <2>1
    <2>3. excluded(at)' = excluded(at')
      BY DEF excluded
    <2> QED
      BY <1>y, <2>1, <2>2, <2>3 DEF VerifyOK, ProbeIsRight
  <1> HIDE DEF s, ans
  <1>p1. CASE at = 1
    <2>0. s.op = "delete" /\ s.value = "none" /\ s.want = "any"
      BY <1>p1, <1>4, ProbeTable DEF ask, s
    <2>e. \A d \in defects : d \notin excluded(1)
      BY <1>2, <1>p1
    <2>n. at # Len(probe) /\ at + 1 = 2
      BY <1>p1, <1>3
    <2>1. Absent(Key) \/ Holds(Key, "value", 0)
      BY <1>2, <1>p1 DEF ProbeState
    <2>2. Absent(Key)' \/ (Holds(Key, "value", 0)' /\ "keeps_deleted" \in defects)
      BY <1>1, <2>0, <2>1, ProbeCalls DEF ans, Absent, Holds, without
    <2>3. at' = 2 => ProbeState'
      BY <1>1, <2>2 DEF ProbeState
    <2>4. \A d \in defects : d \notin excluded(2)
      BY ExcludedMember
    <2> QED
      BY <1>y, <2>0, <2>n, <2>3, <2>4
  <1>p2. CASE at = 2
    <2>0. s.op = "get" /\ s.value = "none" /\ s.want = "none"
      BY <1>p2, <1>4, ProbeTable DEF ask, s
    <2>e. \A d \in defects : d \notin excluded(2)
      BY <1>2, <1>p2
    <2>n. at # Len(probe) /\ at + 1 = 3
      BY <1>p2, <1>3
    <2>1. Absent(Key) \/ (Holds(Key, "value", 0) /\ "keeps_deleted" \in defects)
      BY <1>2, <1>p2 DEF ProbeState
    <2>2. store' = store /\ ans = look(Key)
      BY <1>1, <2>0, ProbeCalls DEF ans
    <2>3. CASE Absent(Key)
      <3>1. ans = "none" /\ Absent(Key)'
        BY <2>2, <2>3, LookHeld DEF Absent
      <3>2. at' = 3 => ProbeState'
        BY <3>1 DEF ProbeState
      <3>3. \A d \in defects : d \notin excluded(3)
        BY ExcludedMember
      <3> QED
        BY <1>y, <2>0, <2>n, <3>1, <3>2, <3>3
    <2>4. CASE Holds(Key, "value", 0) /\ "keeps_deleted" \in defects
      <3>1. ans # "none" /\ "keeps_deleted" \in relevant
        BY <1>r, <2>2, <2>4, LookHeld DEF Defects
      <3> QED
        BY <1>x, <2>0, <2>4, <3>1
    <2> QED
      BY <2>1, <2>3, <2>4
  <1>p3. CASE at = 3
    <2>0. s.op = "set" /\ s.value = "value" /\ s.want = "ok"
      BY <1>p3, <1>4, ProbeTable DEF ask, s
    <2>e. \A d \in defects : d \notin excluded(3)
      BY <1>2, <1>p3
    <2>n. at # Len(probe) /\ at + 1 = 4
      BY <1>p3, <1>3
    <2>1. Absent(Key) /\ ~live(Key)
      BY <1>2, <1>p3, LookHeld DEF ProbeState
    <2>2. store' = stored(store, Key, "value", 0) /\ ans = "ok"
      BY <1>1, <2>0, ProbeCalls DEF ans
    <2>3. CASE "drops_set" \in defects
      <3>1. Absent(Key)'
        BY <2>1, <2>2, <2>3 DEF stored, Absent
      <3>2. at' = 4 => ProbeState'
        BY <1>1, <2>3, <3>1 DEF ProbeState
      <3> QED
        BY <1>y, <2>0, <2>2, <2>n, <3>2, ExcludedMember
    <2>4. CASE "drops_set" \notin defects
      <3>1. Holds(Key, IF "cuts_at_nul" \in defects THEN "cut" ELSE "value", 0)'
        <4>1. /\ Key \in DOMAIN store'
              /\ store'[Key].value = IF "cuts_at_nul" \in defects THEN "cut" ELSE "value"
              /\ store'[Key].until = IF 0 = 0 THEN 0 ELSE now + 0
          BY <2>1, <2>2, <2>4, StoredHolds
        <4> QED
          BY <1>1, <4>1 DEF Holds
      <3>2. at' = 4 => ProbeState'
        BY <1>1, <2>4, <3>1 DEF ProbeState
      <3> QED
        BY <1>y, <2>0, <2>2, <2>n, <3>2, ExcludedMember
    <2> QED
      BY <2>3, <2>4
  <1>p4. CASE at = 4
    <2>0. s.op = "get" /\ s.value = "none" /\ s.want = "value"
      BY <1>p4, <1>4, ProbeTable DEF ask, s
    <2>e. \A d \in defects : d \notin excluded(4)
      BY <1>2, <1>p4
    <2>n. at # Len(probe) /\ at + 1 = 5
      BY <1>p4, <1>3
    <2>1. IF "drops_set" \in defects THEN Absent(Key)
          ELSE Holds(Key, IF "cuts_at_nul" \in defects THEN "cut" ELSE "value", 0)
      BY <1>2, <1>p4 DEF ProbeState
    <2>2. store' = store /\ ans = look(Key)
      BY <1>1, <2>0, ProbeCalls DEF ans
    <2>3. CASE "drops_set" \in defects
      <3>1. ans = "none" /\ "drops_set" \in relevant
        BY <1>r, <2>1, <2>2, <2>3, LookHeld DEF Defects
      <3> QED
        BY <1>x, <2>0, <2>3, <3>1
    <2>4. CASE "drops_set" \notin defects /\ "cuts_at_nul" \in defects
      <3>1. ans = "cut" /\ "cuts_at_nul" \in relevant
        BY <1>r, <2>1, <2>2, <2>4, LookHeld DEF Defects
      <3> QED
        BY <1>x, <2>0, <2>4, <3>1
    <2>5. CASE "drops_set" \notin defects /\ "cuts_at_nul" \notin defects
      <3>1. ans = "value" /\ Holds(Key, "value", 0)'
        BY <2>1, <2>2, <2>5, LookHeld DEF Holds
      <3>2. at' = 5 => ProbeState'
        BY <3>1 DEF ProbeState
      <3>3. \A d \in defects : d \notin excluded(5)
        BY <2>5, ExcludedMember
      <3> QED
        BY <1>y, <2>0, <2>n, <3>1, <3>2, <3>3
    <2> QED
      BY <2>3, <2>4, <2>5
  <1>p5. CASE at = 5
    <2>0. s.op = "set" /\ s.value = "new" /\ s.want = "ok"
      BY <1>p5, <1>4, ProbeTable DEF ask, s
    <2>e. \A d \in defects : d \notin excluded(5)
      BY <1>2, <1>p5
    <2>n. at # Len(probe) /\ at + 1 = 6
      BY <1>p5, <1>3
    <2>1. Holds(Key, "value", 0) /\ live(Key)
      BY <1>2, <1>p5, LookHeld DEF ProbeState
    <2>2. store' = stored(store, Key, "new", 0) /\ ans = "ok"
      BY <1>1, <2>0, ProbeCalls DEF ans
    <2>3. "drops_set" \notin defects /\ "cuts_at_nul" \notin defects
      BY <2>e, ExcludedMember
    <2>4. Holds(Key, IF "keeps_first" \in defects THEN "value" ELSE "new", 0)'
      <3>1. CASE "keeps_first" \in defects
        BY <1>1, <2>1, <2>2, <3>1 DEF stored, Holds
      <3>2. CASE "keeps_first" \notin defects
        <4>1. /\ Key \in DOMAIN store'
              /\ store'[Key].value = IF "cuts_at_nul" \in defects THEN "cut" ELSE "new"
              /\ store'[Key].until = IF 0 = 0 THEN 0 ELSE now + 0
          BY <2>2, <2>3, <3>2, StoredHolds
        <4> QED
          BY <1>1, <2>3, <3>2, <4>1 DEF Holds
      <3> QED
        BY <3>1, <3>2
    <2>5. at' = 6 => ProbeState'
      BY <2>4 DEF ProbeState
    <2>6. \A d \in defects : d \notin excluded(6)
      BY <2>3, ExcludedMember
    <2> QED
      BY <1>y, <2>0, <2>2, <2>n, <2>5, <2>6
  <1>p6. CASE at = 6
    <2>0. s.op = "get" /\ s.value = "none" /\ s.want = "new"
      BY <1>p6, <1>4, ProbeTable DEF ask, s
    <2>e. \A d \in defects : d \notin excluded(6)
      BY <1>2, <1>p6
    <2>n. at # Len(probe) /\ at + 1 = 7
      BY <1>p6, <1>3
    <2>1. Holds(Key, IF "keeps_first" \in defects THEN "value" ELSE "new", 0)
      BY <1>2, <1>p6 DEF ProbeState
    <2>2. store' = store /\ ans = look(Key)
      BY <1>1, <2>0, ProbeCalls DEF ans
    <2>3. CASE "keeps_first" \in defects
      <3>1. ans = "value" /\ "keeps_first" \in relevant
        BY <1>r, <2>1, <2>2, <2>3, LookHeld DEF Defects
      <3> QED
        BY <1>x, <2>0, <2>3, <3>1
    <2>4. CASE "keeps_first" \notin defects
      <3>1. ans = "new" /\ Holds(Key, "new", 0)'
        BY <2>1, <2>2, <2>4, LookHeld DEF Holds
      <3>2. at' = 7 => ProbeState'
        BY <3>1 DEF ProbeState
      <3>3. \A d \in defects : d \notin excluded(7)
        BY <2>4, <2>e, ExcludedMember
      <3> QED
        BY <1>y, <2>0, <2>n, <3>1, <3>2, <3>3
    <2> QED
      BY <2>3, <2>4
  <1>p7. CASE at = 7
    <2>0. s.op = "delete" /\ s.value = "none" /\ s.want = "ok"
      BY <1>p7, <1>4, ProbeTable DEF ask, s
    <2>e. \A d \in defects : d \notin excluded(7)
      BY <1>2, <1>p7
    <2>n. at # Len(probe) /\ at + 1 = 8
      BY <1>p7, <1>3
    <2>1. Holds(Key, "new", 0)
      BY <1>2, <1>p7 DEF ProbeState
    <2>2. /\ ans = "ok"
          /\ store' = IF "keeps_deleted" \in defects THEN store ELSE without(store, Key)
      BY <1>1, <2>0, <2>1, ProbeCalls, LookHeld DEF ans, deleteAnswer
    <2>3. IF "keeps_deleted" \in defects THEN Holds(Key, "new", 0)' ELSE Absent(Key)'
      BY <2>1, <2>2 DEF Absent, Holds, without
    <2>4. at' = 8 => ProbeState'
      BY <1>1, <2>3 DEF ProbeState
    <2>5. \A d \in defects : d \notin excluded(8)
      BY <2>e, ExcludedMember
    <2> QED
      BY <1>y, <2>0, <2>2, <2>n, <2>4, <2>5
  <1>p8. CASE at = 8
    <2>0. s.op = "get" /\ s.value = "none" /\ s.want = "none"
      BY <1>p8, <1>4, ProbeTable DEF ask, s
    <2>e. \A d \in defects : d \notin excluded(8)
      BY <1>2, <1>p8
    <2>n. at # Len(probe) /\ at + 1 = 9
      BY <1>p8, <1>3
    <2>1. IF "keeps_deleted" \in defects THEN Holds(Key, "new", 0) ELSE Absent(Key)
      BY <1>2, <1>p8 DEF ProbeState
    <2>2. store' = store /\ ans = look(Key)
      BY <1>1, <2>0, ProbeCalls DEF ans
    <2>3. CASE "keeps_deleted" \notin defects
      <3>0. Absent(Key)
        BY <2>1, <2>3
      <3>1. ans = "none" /\ Absent(Key)'
        BY <2>2, <3>0, LookHeld DEF Absent
      <3>2. at' = 9 => ProbeState'
        BY <3>1 DEF ProbeState
      <3>3. \A d \in defects : d \notin excluded(9)
        BY <2>e, <2>3, ExcludedMember
      <3> QED
        BY <1>y, <2>0, <2>n, <3>1, <3>2, <3>3
    <2>4. CASE Holds(Key, "new", 0) /\ "keeps_deleted" \in defects
      <3>1. ans # "none" /\ "keeps_deleted" \in relevant
        BY <1>r, <2>2, <2>4, LookHeld DEF Defects
      <3> QED
        BY <1>x, <2>0, <2>4, <3>1
    <2> QED
      BY <2>1, <2>3, <2>4
  <1>p9. CASE at = 9
    <2>0. s.op = "ttl" /\ s.value = "value" /\ s.want = "ok"
      BY <1>p9, <1>4, ProbeTable DEF ask, s
    <2>e. \A d \in defects : d \notin excluded(9)
      BY <1>2, <1>p9
    <2>n. at # Len(probe) /\ at + 1 = 10
      BY <1>p9, <1>3
    <2>1. Absent(Key) /\ ~live(Key)
      BY <1>2, <1>p9, LookHeld DEF ProbeState
    <2>2. store' = stored(store, Key, "value", TtlRequested) /\ ans = "ok" /\ since' = now
      BY <1>1, <2>0, ProbeCalls DEF ans
    <2>3. "drops_set" \notin defects /\ "cuts_at_nul" \notin defects
      BY <2>e, ExcludedMember
    <2>4. Holds(Key, "value", since + 1)'
      <3>1. /\ Key \in DOMAIN store'
            /\ store'[Key].value = IF "cuts_at_nul" \in defects THEN "cut" ELSE "value"
            /\ store'[Key].until = IF TtlRequested = 0 THEN 0 ELSE now + TtlRequested
        BY <2>1, <2>2, <2>3, StoredHolds
      <3> QED
        BY <2>2, <2>3, <3>1 DEF Holds, TtlRequested
    <2>5. since' <= now'
      BY <1>1, <1>2, <2>2
    <2>6. at' = 10 => ProbeState'
      BY <2>4, <2>5 DEF ProbeState
    <2>7. \A d \in defects : d \notin excluded(10)
      BY <2>e, ExcludedMember
    <2> QED
      BY <1>y, <2>0, <2>2, <2>n, <2>6, <2>7
  <1>p10. CASE at = 10
    <2>0. s.op = "poll" /\ s.value = "none" /\ s.want = "any"
      BY <1>p10, <1>4, ProbeTable DEF ask, s
    <2>e. \A d \in defects : d \notin excluded(10)
      BY <1>2, <1>p10
    <2>n. at # Len(probe) /\ at + 1 = 11
      BY <1>p10, <1>3
    <2>1. Holds(Key, "value", since + 1) /\ since <= now
      BY <1>2, <1>p10 DEF ProbeState
    <2>2. store' = store /\ since' = since
      BY <1>1, <2>0, ProbeCalls DEF ans
    <2>3. now >= since + 1
      <3>1. live(Key) \/ ~(now < since + 1)
        BY <2>1 DEF live, Holds
      <3>2. ~live(Key) \/ now - since >= 4
        BY <1>1, <2>0 DEF TtlPatience
      <3> QED
        BY <1>2, <3>1, <3>2
    <2>4. Holds(Key, "value", since + 1)' /\ now' >= since' + 1
      BY <1>1, <2>1, <2>2, <2>3 DEF Holds
    <2>5. at' = 11 => ProbeState'
      BY <2>4 DEF ProbeState
    <2>6. \A d \in defects : d \notin excluded(11)
      BY <2>e, ExcludedMember
    <2> QED
      BY <1>y, <2>0, <2>n, <2>5, <2>6
  <1>p11. CASE at = 11
    <2>0. s.op = "get" /\ s.value = "none" /\ s.want = "none"
      BY <1>p11, <1>4, ProbeTable DEF ask, s
    <2>e. \A d \in defects : d \notin excluded(11)
      BY <1>2, <1>p11
    <2>1. /\ Holds(Key, "value", since + 1)
          /\ now >= since + 1 \/ "never_expires" \in defects
      BY <1>2, <1>p11 DEF ProbeState
    <2>2. store' = store /\ ans = look(Key)
      BY <1>1, <2>0, ProbeCalls DEF ans
    <2>3. CASE "never_expires" \in defects
      <3>1. ans = "value" /\ "never_expires" \in relevant
        BY <1>r, <2>1, <2>2, <2>3 DEF Holds, live, look, Defects
      <3> QED
        BY <1>x, <2>0, <2>3, <3>1
    <2>4. CASE "never_expires" \notin defects
      <3>1. since + 1 # 0 /\ ~(now < since + 1)
        BY <1>2, <2>1, <2>4
      <3>2. ans = "none"
        BY <2>1, <2>2, <2>4, <3>1 DEF Holds, live, look
      <3>3. \A d \in defects : d \notin excluded(12)
        BY <2>4, <2>e, ExcludedMember
      <3>4. CASE kind = "grpc"
        <4>1. at # Len(probe) /\ at + 1 = 12
          BY <1>3, <1>p11, <3>4
        <4>2. at' = 12 => ProbeState'
          BY DEF ProbeState
        <4> QED
          BY <1>y, <2>0, <3>2, <3>3, <4>1, <4>2
      <3>5. CASE kind # "grpc"
        <4>1. at = Len(probe)
          BY <1>3, <1>p11, <3>5
        <4>2. defects \cap relevant = {}
          BY <1>2, <1>r, <3>3, <3>5, ExcludedMember DEF Defects
        <4> QED
          BY <1>z, <2>0, <3>2, <4>1, <4>2
      <3> QED
        BY <3>4, <3>5
    <2> QED
      BY <2>3, <2>4
  <1>p12. CASE at = 12
    <2>0. s.op = "multiset" /\ s.value = "none" /\ s.want = "ok"
      BY <1>p12, <1>4, ProbeTable DEF ask, s
    <2>e. \A d \in defects : d \notin excluded(12)
      BY <1>2, <1>p12
    <2>n. at # Len(probe) /\ at + 1 = 13
      BY <1>p12, <1>3, <1>4
    <2>1. "drops_set" \notin defects /\ "cuts_at_nul" \notin defects /\ "keeps_first" \notin defects
      BY <2>e, ExcludedMember
    <2> DEFINE half == stored(store, A, "value", 0)
    <2>2. ans = "ok" /\ store' = stored(half, B, "two", 0)
      BY <1>1, <2>0, ProbeCalls DEF ans
    <2>3. /\ A \in DOMAIN half
          /\ half[A].value = IF "cuts_at_nul" \in defects THEN "cut" ELSE "value"
          /\ half[A].until = IF 0 = 0 THEN 0 ELSE now + 0
      BY <2>1, StoredHolds
    <2> HIDE DEF half
    <2>4. /\ B \in DOMAIN store'
          /\ store'[B].value = IF "cuts_at_nul" \in defects THEN "cut" ELSE "two"
          /\ store'[B].until = IF 0 = 0 THEN 0 ELSE now + 0
          /\ \A j \in DOMAIN half : j # B => j \in DOMAIN store' /\ store'[j] = half[j]
      BY <2>1, <2>2, StoredHolds
    <2>5. A # B
      BY DEF A, B
    <2>6. Holds(A, "value", 0)' /\ Holds(B, "two", 0)'
      BY <2>1, <2>3, <2>4, <2>5 DEF Holds
    <2>7. at' = 13 => ProbeState'
      BY <2>6 DEF ProbeState
    <2>8. \A d \in defects : d \notin excluded(13)
      BY <2>e, ExcludedMember
    <2> QED
      BY <1>y, <2>0, <2>2, <2>n, <2>7, <2>8
  <1>p13. CASE at = 13
    <2>0. s.op = "multiget" /\ s.value = "none" /\ s.want = "ok"
      BY <1>p13, <1>4, ProbeTable DEF ask, s
    <2>e. \A d \in defects : d \notin excluded(13)
      BY <1>2, <1>p13
    <2>n. at # Len(probe) /\ at + 1 = 14
      BY <1>p13, <1>3, <1>4
    <2>1. look(A) = "value" /\ look(B) = "two"
      BY <1>2, <1>p13, LookHeld DEF ProbeState
    <2>2. ans = IF "reorders_multiget" \notin defects THEN "ok" ELSE "wrong"
      BY <1>1, <2>0, <2>1, ProbeCalls DEF ans, multigetAnswer
    <2>3. CASE "reorders_multiget" \in defects
      <3>1. "reorders_multiget" \in relevant
        BY <1>4, <1>p13, <1>r DEF Defects
      <3> QED
        BY <1>x, <2>0, <2>2, <2>3, <3>1
    <2>4. CASE "reorders_multiget" \notin defects
      <3>1. \A d \in defects : d \notin excluded(14)
        BY <2>4, <2>e, ExcludedMember
      <3>2. at' = 14 => ProbeState'
        BY DEF ProbeState
      <3> QED
        BY <1>y, <2>0, <2>2, <2>4, <2>n, <3>1, <3>2
    <2> QED
      BY <2>3, <2>4
  <1>p14. CASE at = 14
    <2>0. s.op = "pipeline" /\ s.value = "none" /\ s.want = "ok"
      BY <1>p14, <1>4, ProbeTable DEF ask, s
    <2>e. \A d \in defects : d \notin excluded(14)
      BY <1>2, <1>p14
    <2>1. "drops_set" \notin defects /\ "cuts_at_nul" \notin defects
      BY <2>e, ExcludedMember
    <2>2. ans = IF "reorders_pipeline" \notin defects THEN "ok" ELSE "wrong"
      BY <1>1, <2>0, <2>1, ProbeCalls DEF ans, pipelineAnswer
    <2>3. CASE "reorders_pipeline" \in defects
      <3>1. "reorders_pipeline" \in relevant
        BY <1>4, <1>p14, <1>r DEF Defects
      <3> QED
        BY <1>x, <2>0, <2>2, <2>3, <3>1
    <2>4. CASE "reorders_pipeline" \notin defects
      <3>1. at = Len(probe)
        BY <1>3, <1>4, <1>p14
      <3>2. defects \cap relevant = {}
        BY <1>2, <2>4, <2>e, ExcludedMember DEF Defects, relevant
      <3> QED
        BY <1>z, <2>0, <2>2, <2>4, <3>1, <3>2
    <2> QED
      BY <2>3, <2>4
  <1> QED
    BY <1>4, <1>p1, <1>p2, <1>p3, <1>p4, <1>p5, <1>p6, <1>p7, <1>p8, <1>p9,
       <1>p10, <1>p11, <1>p12, <1>p13, <1>p14

\* The probe's verdict is right after every step.
LEMMA NextVerifyOK ==
    ASSUME ClientTypes, StageOK, VerifyOK, ProbeIsRight, [Next]_vars
    PROVE  (VerifyOK /\ ProbeIsRight)'
  <1>1. CASE UNCHANGED vars
    BY <1>1 DEF vars, VerifyOK, ProbeIsRight, relevant, excluded, ProbeState, Absent, Holds
  <1>2. CASE Next /\ pc # "verify"
    <2>1. /\ UNCHANGED <<kind, defects, disturbed>>
          /\ pc' # "verify" /\ (pc' = "refused" <=> pc = "refused")
      BY <1>2, VerdictStands
    <2> QED
      BY <1>2, <2>1 DEF VerifyOK, ProbeIsRight, relevant
  <1>3. CASE Next /\ pc = "verify"
    <2>1. Sleep \/ Probe \/ ProbeFails \/ Evict
      <3>1. ~(StartCase \/ Preload \/ PreloadFails \/ Preloaded \/ ReadBefore)
        BY <1>3 DEF StartCase, Preload, PreloadFails, Preloaded, ReadBefore
      <3>2. ~(SeeRaised \/ Stopped \/ Collect \/ BatchGet \/ BatchCheck
               \/ BatchRaises \/ BatchDone)
        BY <1>3 DEF SeeRaised, Stopped, Collect, BatchGet, BatchCheck, BatchRaises, BatchDone
      <3>3. ASSUME NEW w \in Workers, Thread(w) \/ Raises(w) PROVE FALSE
        <4>1. ~Take(w)
          BY <1>3 DEF Take
        <4>2. call[w].do # "idle"
          BY <3>3, <4>1 DEF Thread, Bypass, Write, Get, Fill, Raises
        <4> QED
          BY <1>3, <4>2, BusyStage DEF Early
      <3> QED
        BY <1>3, <3>1, <3>2, <3>3 DEF Next, MainStep
    <2>2. CASE disturbed' /\ pc' \in Stages
      BY <2>2 DEF VerifyOK, ProbeIsRight
    <2>3. CASE ProbeFails \/ Evict
      BY <1>3, <2>3 DEF ProbeFails, Evict, VerifyOK, ProbeIsRight
    <2>4. CASE Sleep
      <3>1. /\ pc' = "verify" /\ at' = at
            /\ UNCHANGED <<kind, defects, store, since, disturbed>>
        BY <2>4 DEF Sleep, server, ghosts
      <3>2. PICK late \in {0, 1} : now' = now + 1 + late
        BY <2>4 DEF Sleep
      <3>3. now' >= now /\ now \in Nat /\ since \in Nat /\ now' \in Nat
        BY <3>2 DEF ClientTypes
      <3>4. ProbeState => ProbeState'
        BY <3>1, <3>3 DEF ProbeState, Absent, Holds
      <3> QED
        BY <1>3, <3>1, <3>4 DEF VerifyOK, ProbeIsRight, excluded
    <2>5. CASE Probe
      <3>1. disturbed' = disturbed
        BY <2>5 DEF Probe, ghosts
      <3>2. CASE disturbed
        BY <3>1, <3>2 DEF VerifyOK, ProbeIsRight
      <3>3. CASE ~disturbed
        BY <1>3, <2>5, <3>3, VerifyStep
      <3> QED
        BY <3>2, <3>3
    <2> QED
      BY <2>1, <2>3, <2>4, <2>5
  <1> QED
    BY <1>1, <1>2, <1>3

-----------------------------------------------------------------------------
\* Each thread keeps its place in the client: the steps of a thread leave the case,
\* the trace and the batch alone.
LEMMA ThreadFrame ==
    ASSUME NEW w \in Workers, Thread(w) \/ Raises(w)
    PROVE  /\ UNCHANGED <<kind, defects, now, args, at, since, trace, before, after, got,
                          errors, cold, disturbed, misses>>
           /\ pc' \in {pc, "failed"}
           /\ pc \in {"warm", "run"} \/ call[w].do # "idle"
           /\ Take(w) \/ UNCHANGED queue
  <1>1. CASE Take(w)
    BY <1>1 DEF Take, server, ghosts
  <1>2. CASE Bypass(w)
    BY <1>2 DEF Bypass, server, ghosts
  <1>3. CASE Write(w)
    BY <1>3 DEF Write, server, ghosts
  <1>4. CASE Get(w)
    BY <1>4 DEF Get, server, ghosts
  <1>5. CASE Fill(w)
    BY <1>5 DEF Fill, server, ghosts
  <1>6. CASE Raises(w)
    BY <1>6 DEF Raises, server, ghosts
  <1> QED
    BY <1>1, <1>2, <1>3, <1>4, <1>5, <1>6 DEF Thread

\* A call of the warm-up leaves no record.
LEMMA WarmNoRecord ==
    ASSUME NEW w \in Workers, Thread(w) \/ Raises(w), pc = "warm"
    PROVE  records' = records
  BY DEF Thread, Take, Bypass, Write, Get, Fill, Raises, finish

\* Every step keeps each command in its place.
LEMMA NextStageOK ==
    ASSUME ClientTypes, StageOK, [Next]_vars
    PROVE  StageOK'
  <1>1. CASE UNCHANGED vars
    BY <1>1 DEF vars, StageOK, idle
  <1>2. CASE Sleep \/ Probe \/ ProbeFails
    <2>1. /\ UNCHANGED <<pool, got, errors, misses>> /\ pc \in Early
      BY <1>2 DEF Sleep, Probe, ProbeFails, ghosts, Early
    <2>2. pc' \in Early
      BY <1>2 DEF Sleep, Probe, ProbeFails, judge, Early
    <2> QED
      BY <2>1, <2>2 DEF StageOK, pool, idle, Early
  <1>3. CASE StartCase \/ Preload \/ PreloadFails
    <2>1. /\ UNCHANGED <<pool, got, errors, misses>> /\ pc \in Early \cup {"preload"}
      BY <1>3 DEF StartCase, Preload, PreloadFails, ghosts, Early
    <2>2. pc' \in {"preload", "failed"}
      BY <1>3 DEF StartCase, Preload, PreloadFails
    <2> QED
      BY <2>1, <2>2 DEF StageOK, pool, idle, Early
  <1>4. CASE Preloaded
    <2>1. /\ UNCHANGED <<pool, got, errors, misses, args>> /\ pc = "preload"
          /\ pc' = IF args.command = "run" THEN "warm" ELSE "batch"
      BY <1>4 DEF Preloaded, ghosts
    <2> QED
      BY <2>1 DEF StageOK, pool, idle, Early
  <1>5. CASE ReadBefore \/ SeeRaised \/ Stopped \/ Collect \/ BatchDone \/ BatchRaises
    <2>1. /\ pc' \in {"run", "stopping", "failed", "done"} /\ args' = args
          /\ pc' \in {"run", "stopping"} => pc \in {"warm", "run"}
      BY <1>5 DEF ReadBefore, SeeRaised, Stopped, Collect, BatchDone, BatchRaises
    <2> QED
      BY <2>1 DEF StageOK, Early
  <1>6. CASE BatchGet \/ BatchCheck
    <2>1. pc = "batch" /\ pc' = "batch" /\ UNCHANGED <<args, pool>>
      BY <1>6 DEF BatchGet, BatchCheck
    <2> QED
      BY <2>1 DEF StageOK, pool, idle, Early
  <1>7. CASE Evict
    BY <1>7 DEF Evict, StageOK, pool, idle
  <1>8. ASSUME NEW w \in Workers, Thread(w) \/ Raises(w)
        PROVE  StageOK'
    <2>1. pc' \in {pc, "failed"} /\ args' = args
      BY <1>8, ThreadFrame
    <2>2. pc \notin Early \cup {"preload", "batch"}
      BY <1>8, ThreadFrame, BusyStage DEF StageOK, idle, Idle, Early
    <2>3. pc = "warm" => records' = records
      BY <1>8, WarmNoRecord
    <2> QED
      BY <2>1, <2>2, <2>3 DEF StageOK, Early
  <1> QED
    BY <1>1, <1>2, <1>3, <1>4, <1>5, <1>6, <1>7, <1>8 DEF Next, MainStep

\* Every step keeps the account of a batch test.
LEMMA NextBatchOK ==
    ASSUME ClientTypes, StageOK, BatchOK, [Next]_vars
    PROVE  BatchOK'
  <1>0. Requests \in Nat /\ BatchSize \in Nat /\ at \in Nat
    BY ClientAssumption DEF ClientTypes
  <1>s. ASSUME ~(pc' = "batch" \/ (pc' = "done" /\ args'.command # "run"))
        PROVE  BatchOK'
    BY <1>s DEF BatchOK
  <1>u. ASSUME UNCHANGED <<pc, at, got, errors, misses, args>>
        PROVE  BatchOK'
    BY <1>u DEF BatchOK, lastOf, wrong
  <1>1. CASE UNCHANGED vars \/ Evict
    <2>1. UNCHANGED <<pc, at, got, errors, misses, args>>
      BY <1>1 DEF vars, Evict
    <2> QED
      BY <2>1, <1>u
  <1>2. CASE Sleep \/ Probe \/ ProbeFails \/ StartCase \/ Preload \/ PreloadFails
    <2>1. pc' \notin {"batch", "done"}
      BY <1>2 DEF Sleep, Probe, ProbeFails, judge, StartCase, Preload, PreloadFails
    <2> QED
      BY <2>1, <1>s
  <1>3. CASE Preloaded
    <2>1. /\ pc = "preload" /\ pc' \in {"warm", "batch"} /\ at' = 0
          /\ UNCHANGED <<got, errors, misses>>
      BY <1>3 DEF Preloaded, ghosts
    <2>2. got' = <<>> /\ misses' = 0
      BY <2>1 DEF StageOK
    <2>3. at' + Len(got') <= lastOf(at') /\ at' <= Requests
      BY <1>0, <2>1, <2>2 DEF lastOf
    <2>4. lastOf(at)' = lastOf(at')
      BY DEF lastOf
    <2> QED
      BY <2>1, <2>2, <2>3, <2>4 DEF BatchOK
  <1>4. CASE ReadBefore \/ SeeRaised \/ Stopped \/ Collect \/ BatchRaises
    <2>1. /\ args' = args /\ pc' \in {"run", "stopping", "failed", "done"}
          /\ pc' = "done" => pc = "run"
      BY <1>4 DEF ReadBefore, SeeRaised, Stopped, Collect, BatchRaises
    <2>2. pc = "run" => args.command = "run"
      BY DEF StageOK
    <2> QED
      BY <2>1, <2>2, <1>s
  <1>5. CASE BatchGet
    <2> DEFINE found == look(key(trace[at + Len(got) + 1]))
    <2>1. /\ pc = "batch" /\ pc' = pc /\ at' = at /\ args' = args /\ errors' = errors
          /\ at + Len(got) < lastOf(at) /\ got' = Append(got, found)
          /\ misses' = misses + IF found = "value" THEN 0 ELSE 1
      BY <1>5 DEF BatchGet
    <2>2. got \in Seq(Values \cup {"none"}) /\ misses \in Nat
      BY DEF ClientTypes
    <2>3. found \in Values \cup {"none"}
      BY LookType DEF ClientTypes
    <2> HIDE DEF found
    <2>4. /\ Len(got') = Len(got) + 1 /\ got'[Len(got) + 1] = found
          /\ \A j \in 1..Len(got) : got'[j] = got[j]
          /\ DOMAIN got' = 1..(Len(got) + 1) /\ DOMAIN got = 1..Len(got) /\ Len(got) \in Nat
      BY <2>1, <2>2, <2>3
    <2>5. wrong(got)' <=> wrong(got) \/ found # "value"
      <3>1. wrong(got) => wrong(got)'
        BY <2>4 DEF wrong
      <3>2. found # "value" => wrong(got)'
        <4>1. Len(got) + 1 \in DOMAIN got'
          BY <2>4
        <4> QED
          BY <2>4, <4>1 DEF wrong
      <3>3. ASSUME wrong(got)', found = "value" PROVE wrong(got)
        <4>1. PICK j \in DOMAIN got' : got'[j] # "value"
          BY <3>3 DEF wrong
        <4>2. j \in 1..Len(got)
          BY <2>4, <3>3, <4>1
        <4> QED
          BY <2>4, <4>1, <4>2 DEF wrong
      <3> QED
        BY <3>1, <3>2, <3>3
    <2>6. at' + Len(got') <= lastOf(at')
      BY <1>0, <2>1, <2>4 DEF lastOf
    <2>7. lastOf(at)' = lastOf(at')
      BY DEF lastOf
    <2>8. at <= Requests /\ (errors = 0 /\ ~wrong(got) => misses = 0)
      BY <2>1 DEF BatchOK
    <2>9. errors' = 0 /\ ~wrong(got)' => misses' = 0
      BY <2>1, <2>5, <2>8
    <2> QED
      BY <2>1, <2>6, <2>7, <2>8, <2>9 DEF BatchOK
  <1>6. CASE BatchCheck
    <2> DEFINE swapped == IF args.command = "pipeline" /\ Len(got) > 1
                             /\ "reorders_pipeline" \in defects THEN 1 ELSE 0
    <2>1. /\ pc = "batch" /\ pc' = pc /\ at' = lastOf(at) /\ args' = args /\ got' = <<>>
          /\ errors' = errors + (IF wrong(got) THEN 1 ELSE 0) + swapped
          /\ misses' = misses
      BY <1>6 DEF BatchCheck, ghosts
    <2>2. swapped \in Nat /\ errors \in Nat
      BY DEF ClientTypes
    <2> HIDE DEF swapped
    <2>3. errors' = 0 => errors = 0 /\ ~wrong(got)
      BY <2>1, <2>2
    <2>4. at' <= Requests /\ at' + Len(got') <= lastOf(at')
      <3>1. at' \in Nat /\ at' <= Requests
        BY <1>0, <2>1 DEF lastOf
      <3>2. Len(got') = 0
        BY <2>1
      <3>3. \A a \in Nat : a <= Requests => a <= lastOf(a)
        BY <1>0 DEF lastOf
      <3> DEFINE a == at'  l == Len(got')
      <3>4. a \in Nat /\ a <= Requests /\ l = 0
        BY <3>1, <3>2
      <3> HIDE DEF a, l
      <3>5. a <= lastOf(a)
        BY <3>3, <3>4
      <3>6. a + l = a
        BY <3>4
      <3>7. a <= Requests /\ a + l <= lastOf(a)
        BY <3>4, <3>5, <3>6
      <3> QED
        BY <3>7 DEF a, l
    <2>5. lastOf(at)' = lastOf(at')
      BY DEF lastOf
    <2>6. errors = 0 /\ ~wrong(got) => misses = 0
      BY <2>1 DEF BatchOK
    <2> QED
      BY <2>1, <2>3, <2>4, <2>5, <2>6 DEF BatchOK
  <1>7. CASE BatchDone
    BY <1>7 DEF BatchDone, BatchOK, ghosts, lastOf, wrong
  <1>8. ASSUME NEW w \in Workers, Thread(w) \/ Raises(w)
        PROVE  BatchOK'
    <2>1. /\ UNCHANGED <<at, got, errors, misses, args>> /\ pc' \in {pc, "failed"}
      BY <1>8, ThreadFrame
    <2>2. CASE pc' = pc
      BY <2>1, <2>2, <1>u
    <2>3. CASE pc' = "failed"
      BY <2>3, <1>s
    <2> QED
      BY <2>1, <2>2, <2>3
  <1> QED
    BY <1>1, <1>2, <1>3, <1>4, <1>5, <1>6, <1>7, <1>8 DEF Next, MainStep

\* Every step keeps what a thread is at in line with the mode.
LEMMA NextCallOK ==
    ASSUME ClientTypes, StageOK, CallOK, [Next]_vars
    PROVE  CallOK'
  <1>u. ASSUME UNCHANGED <<call, args>>
        PROVE  CallOK'
    BY <1>u DEF CallOK
  <1>1. CASE UNCHANGED vars \/ Evict \/ Sleep \/ Probe \/ ProbeFails
    <2>1. UNCHANGED <<call, args>>
      BY <1>1 DEF vars, Evict, Sleep, Probe, ProbeFails, pool
    <2> QED
      BY <2>1, <1>u
  <1>2. CASE Preload \/ PreloadFails \/ Preloaded \/ ReadBefore \/ SeeRaised
    <2>1. UNCHANGED <<call, args>>
      BY <1>2 DEF Preload, PreloadFails, Preloaded, ReadBefore, SeeRaised, pool
    <2> QED
      BY <2>1, <1>u
  <1>3. CASE Stopped \/ Collect \/ BatchGet \/ BatchCheck \/ BatchRaises \/ BatchDone
    <2>1. UNCHANGED <<call, args>>
      BY <1>3 DEF Stopped, Collect, BatchGet, BatchCheck, BatchRaises, BatchDone, pool
    <2> QED
      BY <2>1, <1>u
  <1>4. CASE StartCase
    <2>1. call' = call /\ idle
      BY <1>4 DEF StartCase, pool, StageOK, Early
    <2> QED
      BY <2>1 DEF CallOK, idle, Idle
  <1>5. ASSUME NEW w \in Workers, Thread(w) \/ Raises(w)
        PROVE  CallOK'
    <2>1. args' = args /\ call \in [Workers -> [do : Doings, n : Nat]]
      BY <1>5, ThreadFrame DEF ClientTypes
    <2>2. \A v \in Workers \ {w} : call'[v] = call[v]
      BY <1>5, <2>1 DEF Thread, Take, Bypass, Write, Get, Fill, Raises, finish
    <2>3. \/ call'[w].do = "idle"
          \/ call'[w].do = "sleep" /\ args.mode = "bypass"
          \/ call'[w].do = "write" /\ args.mode = "mixed"
          \/ call'[w].do = "fill" /\ args.mode = "origin"
          \/ call'[w].do = "get" /\ args.mode # "bypass"
      <3>1. CASE Take(w)
        BY <2>1, <3>1 DEF Take, isWrite
      <3>i. ASSUME call' = [call EXCEPT ![w] = Idle] PROVE call'[w].do = "idle"
        BY <2>1, <3>i DEF Idle
      <3>2. CASE Get(w)
        <4>1. \/ call' = [call EXCEPT ![w] = Idle]
              \/ call' = [call EXCEPT ![w].do = "fill"] /\ args.mode = "origin"
          BY <3>2 DEF Get, finish
        <4>2. CASE call' = [call EXCEPT ![w].do = "fill"] /\ args.mode = "origin"
          BY <2>1, <4>2
        <4> QED
          BY <3>i, <4>1, <4>2
      <3>3. CASE Bypass(w) \/ Write(w) \/ Fill(w) \/ Raises(w)
        <4>1. call' = [call EXCEPT ![w] = Idle]
          BY <3>3 DEF Bypass, Write, Fill, Raises, finish
        <4> QED
          BY <3>i, <4>1
      <3> QED
        BY <1>5, <3>1, <3>2, <3>3 DEF Thread
    <2> QED
      BY <2>1, <2>2, <2>3 DEF CallOK
  <1> QED
    BY <1>1, <1>2, <1>3, <1>4, <1>5 DEF Next, MainStep

-----------------------------------------------------------------------------
\* The steps into and in the measurement (client.py:259-269).
LEMMA MeasuringSteps ==
    ASSUME ClientTypes, StageOK, Next, Measuring'
    PROVE  \/ ReadBefore
           \/ /\ Measuring
              /\ UNCHANGED <<kind, defects, now, args, trace, before, cold>>
              /\ \/ SeeRaised \/ Collect \/ Evict
                 \/ \E w \in Workers : (Thread(w) \/ Raises(w)) /\ pc' = pc
  <1>1. CASE Sleep \/ Probe \/ ProbeFails \/ StartCase
    <2>1. pc' \in Early \cup {"preload"}
      BY <1>1 DEF Sleep, Probe, ProbeFails, judge, StartCase, Early
    <2> QED
      BY <2>1 DEF Measuring, Early
  <1>2. CASE Preload \/ PreloadFails \/ Preloaded \/ Stopped \/ BatchGet \/ BatchCheck
             \/ BatchRaises
    <2>1. pc' \in {"preload", "failed", "warm", "batch"}
      BY <1>2
      DEF Preload, PreloadFails, Preloaded, Stopped, BatchGet, BatchCheck, BatchRaises
    <2> QED
      BY <2>1 DEF Measuring
  <1>3. CASE BatchDone
    <2>1. pc' = "done" /\ args'.command # "run"
      BY <1>3 DEF BatchDone, StageOK
    <2> QED
      BY <2>1 DEF Measuring
  <1>4. CASE SeeRaised \/ Collect
    BY <1>4 DEF SeeRaised, Collect, Measuring, server, ghosts
  <1>5. CASE Evict
    BY <1>5 DEF Evict, Measuring, server
  <1>6. ASSUME NEW w \in Workers, Thread(w) \/ Raises(w)
        PROVE  /\ Measuring
               /\ UNCHANGED <<kind, defects, now, args, trace, before, cold>>
               /\ pc' = pc
    <2>1. /\ UNCHANGED <<kind, defects, now, args, trace, before, cold>>
          /\ pc' \in {pc, "failed"}
      BY <1>6, ThreadFrame
    <2>2. pc' # "failed"
      BY DEF Measuring
    <2> QED
      BY <2>1, <2>2 DEF Measuring
  <1> QED
    BY <1>1, <1>2, <1>3, <1>4, <1>5, <1>6 DEF Next, MainStep

\* The three things a thread of the pool does: it takes an operation, returns from
\* one, or goes to the origin.
Taken(w, c) ==
    /\ pc = "run" /\ queue < Len(measured) /\ call[w].do = "idle"
    /\ queue' = queue + 1 /\ records' = records
    /\ c.n = queue + 1 /\ c.do \in {"sleep", "write", "get"}
    /\ call' = [call EXCEPT ![w] = c]
    /\ UNCHANGED <<store, served, faults>>
Returned(w, r) ==
    /\ pc \in {"run", "stopping"} /\ call[w].do # "idle"
    /\ queue' = queue /\ call' = [call EXCEPT ![w] = Idle]
    /\ records' = put(records, call[w].n, r)
Missed(w) ==
    /\ pc \in {"run", "stopping"} /\ call[w].do = "get" /\ args.mode = "origin"
    /\ queue' = queue /\ records' = records
    /\ call' = [call EXCEPT ![w].do = "fill"]
    /\ ~live(keyOf(w))
    /\ served' = [gets |-> served.gets + 1, hits |-> served.hits]
    /\ UNCHANGED <<store, faults>>

\* A thread at work in the measurement is at one of the measured operations, which has
\* no record yet.
LEMMA BusyMeasuring ==
    ASSUME PoolOK, Measuring, NEW w \in Workers, call[w].do # "idle",
           ClientTypes, StageOK
    PROVE  /\ pc \in {"run", "stopping"} /\ call[w].n \in 1..queue
           /\ call[w].n \in 1..Len(measured) /\ call[w].n \notin DOMAIN records
           /\ keyOf(w) = key(measured[call[w].n])
  <1>1. /\ call[w].n \in 1..queue /\ queue <= Len(measured)
        /\ call[w].n \notin DOMAIN records
        /\ pc = "done" => DOMAIN records = 1..Len(measured)
    BY DEF PoolOK
  <1>2. trace \in [1..Requests -> Nat]
    BY DEF ClientTypes, Measuring, Early
  <1>3. Len(measured) \in Nat /\ queue \in Nat
    BY <1>2, MeasuredSeq DEF ClientTypes
  <1>4. call[w].n \in 1..Len(measured)
    BY <1>1, <1>3
  <1>5. pc \in {"run", "stopping"}
    BY <1>1, <1>4 DEF Measuring
  <1>6. operations = measured
    BY <1>5 DEF operations
  <1> QED
    BY <1>1, <1>4, <1>5, <1>6 DEF keyOf

\* What a call that returns r has done to the server.
Outcome(w, r) ==
    \/ r = Raised /\ faults' = faults + 1 /\ UNCHANGED <<store, served>>
    \/ args.mode = "bypass" /\ UNCHANGED <<store, served, faults>>
    \/ r.write /\ ~r.hit /\ args.mode = "mixed" /\ call[w].do = "write" /\ UNCHANGED served
    \/ /\ ~r.write /\ r.hit /\ r.origin = 0 /\ call[w].do = "get"
       /\ live(keyOf(w)) /\ UNCHANGED <<store, faults>>
       /\ served' = [gets |-> served.gets + 1, hits |-> served.hits + 1]
    \/ /\ ~r.write /\ ~r.hit /\ r.error # "none" /\ args.mode # "origin"
       /\ call[w].do = "get" /\ UNCHANGED <<store, faults>>
       /\ served' = [gets |-> served.gets + 1, hits |-> served.hits]
    \/ /\ ~r.write /\ ~r.hit /\ r.origin = 1 /\ args.mode = "origin"
       /\ call[w].do = "fill" /\ UNCHANGED served
       /\ \/ store' = stored(store, keyOf(w), "value", 0) /\ UNCHANGED faults
          \/ faults' = faults + 1 /\ UNCHANGED store

\* Every step of a thread in the measurement is one of the three.
LEMMA ThreadShape ==
    ASSUME ClientTypes, StageOK, CallOK, PoolOK, Measuring,
           NEW w \in Workers, Thread(w) \/ Raises(w), pc' = pc
    PROVE  \/ \E c \in [do : Doings, n : Nat] : Taken(w, c)
           \/ Missed(w)
           \/ \E r \in Records : Returned(w, r) /\ Outcome(w, r)
  <1>0. /\ GoodStore(store) /\ served \in Tallies /\ queue \in Nat
        /\ "none" \in Errors /\ {"write failed", "value mismatch", "unexpected miss",
                                 "cache fill failed"} \subseteq Errors
    BY DEF ClientTypes, Errors
  <1>1. CASE Take(w)
    <2> DEFINE d == IF args.mode = "bypass" THEN "sleep"
                    ELSE IF isWrite(queue + 1) THEN "write" ELSE "get"
               c == [n |-> queue + 1, do |-> d]
    <2>0. d \in {"sleep", "write", "get"} /\ d \in Doings
      BY DEF Doings
    <2>1. /\ c.n = queue + 1 /\ c.do \in {"sleep", "write", "get"}
          /\ c \in [do : Doings, n : Nat]
      <3> DEFINE q == queue + 1
      <3>0. queue \in Nat
        BY DEF ClientTypes
      <3>1. q \in Nat
        BY <3>0
      <3> HIDE DEF d, q
      <3>2. [n |-> q, do |-> d] \in [do : Doings, n : Nat]
        BY <2>0, <3>1
      <3>3. [n |-> q, do |-> d].n = q /\ [n |-> q, do |-> d].do = d
        OBVIOUS
      <3> QED
        BY <2>0, <3>2, <3>3 DEF q
    <2>2. pc = "run"
      BY <1>1 DEF Take, Measuring
    <2>3. operations = measured /\ call[w].do = "idle"
      BY <1>1, <2>2 DEF operations, Take, Idle
    <2>4. /\ queue < Len(operations) /\ queue' = queue + 1 /\ call' = [call EXCEPT ![w] = c]
          /\ UNCHANGED <<store, served, records, faults>>
      BY <1>1 DEF Take
    <2> HIDE DEF c
    <2>5. Taken(w, c)
      BY <2>1, <2>2, <2>3, <2>4 DEF Taken
    <2> QED
      BY <2>1, <2>5
  <1>2. CASE call[w].do # "idle" /\ ~Take(w)
    <2>1. pc \in {"run", "stopping"} /\ pc # "warm" /\ queue' = queue
      BY <1>2, BusyMeasuring, ThreadFrame
    <2>2. /\ call[w].do = "sleep" => args.mode = "bypass"
          /\ call[w].do = "write" => args.mode = "mixed"
          /\ call[w].do = "fill" => args.mode = "origin"
      BY DEF CallOK
    <2>f. ASSUME NEW r, finish(w, r) PROVE Returned(w, r)
      BY <1>2, <2>1, <2>f DEF finish, Returned
    <2>r. \A h \in BOOLEAN, o \in {0, 1}, e \in Errors, b \in BOOLEAN :
             /\ record(h, o, e, b) \in Records
             /\ record(h, o, e, b).hit = h /\ record(h, o, e, b).origin = o
             /\ record(h, o, e, b).error = e /\ record(h, o, e, b).write = b
      BY RecordTypes DEF record
    <2>3. CASE Bypass(w)
      <3> DEFINE r == record(FALSE, 1, "none", FALSE)
      <3>1. /\ finish(w, r) /\ args.mode = "bypass" /\ UNCHANGED <<store, served, faults>>
        BY <2>2, <2>3 DEF Bypass
      <3>2. r \in Records
        BY <1>0, <2>r
      <3> HIDE DEF r
      <3>3. Outcome(w, r)
        BY <3>1 DEF Outcome
      <3> QED
        BY <2>f, <3>1, <3>2, <3>3
    <2>4. CASE Write(w)
      <3> DEFINE e1 == IF setAnswer(FALSE) = "ok" THEN "none" ELSE "write failed"
      <3>1. /\ call[w].do = "write" /\ UNCHANGED served
            /\ \/ finish(w, record(FALSE, 0, "none", TRUE))
               \/ finish(w, record(FALSE, 0, e1, TRUE))
        BY <2>4 DEF Write
      <3>2. e1 \in Errors
        BY <1>0
      <3> HIDE DEF e1
      <3>3. PICK e \in Errors : finish(w, record(FALSE, 0, e, TRUE))
        BY <1>0, <3>1, <3>2
      <3> DEFINE r == record(FALSE, 0, e, TRUE)
      <3>4. r \in Records /\ r.write /\ ~r.hit /\ finish(w, r)
        BY <2>r, <3>3
      <3> HIDE DEF r
      <3>5. Outcome(w, r)
        BY <2>2, <3>1, <3>4 DEF Outcome
      <3> QED
        BY <2>f, <3>4, <3>5
    <2>5. CASE Get(w)
      <3> DEFINE found == look(keyOf(w))
                 e1 == IF found = "value" THEN "none" ELSE "value mismatch"
      <3>1. /\ call[w].do = "get" /\ UNCHANGED <<store, faults>>
            /\ served' = [gets |-> served.gets + 1,
                          hits |-> served.hits + IF found = "none" THEN 0 ELSE 1]
        BY <2>5 DEF Get
      <3>2. \/ found # "none" /\ finish(w, record(TRUE, 0, e1, FALSE))
            \/ found = "none" /\ args.mode = "origin"
               /\ call' = [call EXCEPT ![w].do = "fill"] /\ UNCHANGED records
            \/ found = "none" /\ args.mode # "origin"
               /\ finish(w, record(FALSE, 0, "unexpected miss", FALSE))
        BY <2>5 DEF Get
      <3>3. found = "none" <=> ~live(keyOf(w))
        BY <1>0, LookType
      <3>4. e1 \in Errors
        BY <1>0
      <3> HIDE DEF e1, found
      <3>5. served.gets \in Nat /\ served.hits \in Nat
        BY <1>0 DEF Tallies
      <3>6. CASE found # "none" /\ finish(w, record(TRUE, 0, e1, FALSE))
        <4> DEFINE r == record(TRUE, 0, e1, FALSE)
        <4>1. /\ r \in Records /\ ~r.write /\ r.hit /\ r.origin = 0 /\ finish(w, r)
          BY <2>r, <3>4, <3>6
        <4>2. served' = [gets |-> served.gets + 1, hits |-> served.hits + 1]
          BY <3>1, <3>6
        <4> HIDE DEF r
        <4>3. Outcome(w, r)
          BY <3>1, <3>3, <3>6, <4>1, <4>2 DEF Outcome
        <4> QED
          BY <2>f, <4>1, <4>3
      <3>z. found = "none" => served' = [gets |-> served.gets + 1, hits |-> served.hits]
        BY <3>1, <3>5
      <3>7. CASE found = "none" /\ args.mode = "origin"
                 /\ call' = [call EXCEPT ![w].do = "fill"] /\ UNCHANGED records
        BY <2>1, <3>1, <3>3, <3>7, <3>z DEF Missed
      <3>8. CASE found = "none" /\ args.mode # "origin"
                 /\ finish(w, record(FALSE, 0, "unexpected miss", FALSE))
        <4> DEFINE r == record(FALSE, 0, "unexpected miss", FALSE)
        <4>1. /\ r \in Records /\ ~r.write /\ ~r.hit /\ r.error # "none" /\ finish(w, r)
          BY <1>0, <2>r, <3>8
        <4> HIDE DEF r
        <4>2. Outcome(w, r)
          BY <3>1, <3>8, <3>z, <4>1 DEF Outcome
        <4> QED
          BY <2>f, <4>1, <4>2
      <3> QED
        BY <3>2, <3>6, <3>7, <3>8
    <2>6. CASE Fill(w)
      <3> DEFINE e1 == IF setAnswer(FALSE) = "ok" THEN "none" ELSE "cache fill failed"
      <3>1. /\ call[w].do = "fill" /\ UNCHANGED served
            /\ \/ store' = stored(store, keyOf(w), "value", 0) /\ UNCHANGED faults
               \/ faults' = faults + 1 /\ UNCHANGED store
            /\ \/ finish(w, record(FALSE, 1, "none", FALSE))
               \/ finish(w, record(FALSE, 1, e1, FALSE))
        BY <2>6 DEF Fill, Fault
      <3>2. e1 \in Errors
        BY <1>0
      <3> HIDE DEF e1
      <3>3. PICK e \in Errors : finish(w, record(FALSE, 1, e, FALSE))
        BY <1>0, <3>1, <3>2
      <3> DEFINE r == record(FALSE, 1, e, FALSE)
      <3>4. r \in Records /\ ~r.write /\ ~r.hit /\ r.origin = 1 /\ finish(w, r)
        BY <2>r, <3>3
      <3> HIDE DEF r
      <3>5. Outcome(w, r)
        BY <2>2, <3>1, <3>4 DEF Outcome
      <3> QED
        BY <2>f, <3>4, <3>5
    <2>7. CASE Raises(w)
      <3>1. /\ faults' = faults + 1 /\ UNCHANGED <<store, served>>
            /\ call' = [call EXCEPT ![w] = Idle]
            /\ records' = put(records, call[w].n, Raised)
        BY <2>1, <2>7 DEF Raises, Fault
      <3>2. Returned(w, Raised) /\ Outcome(w, Raised)
        BY <1>2, <2>1, <3>1 DEF Returned, Outcome
      <3> QED
        BY <3>2, RecordTypes
    <2> QED
      BY <1>2, <2>3, <2>4, <2>5, <2>6, <2>7 DEF Thread
  <1> QED
    BY <1>1, <1>2 DEF Thread, Bypass, Write, Get, Fill, Raises

\* Every step hands out an operation once, and records it once.
LEMMA NextPoolOK ==
    ASSUME ClientTypes, StageOK, CallOK, PoolOK, [Next]_vars
    PROVE  PoolOK'
  <1>0. SUFFICES ASSUME Measuring' PROVE PoolOK'
    BY DEF PoolOK
  <1>u. (UNCHANGED <<args, trace>>) => measured' = measured
    BY DEF measured, warmCount
  <1>c. call \in [Workers -> [do : Doings, n : Nat]] /\ queue \in Nat
    BY DEF ClientTypes
  <1>1. CASE UNCHANGED vars
    <2>1. /\ UNCHANGED <<queue, call, records, pc, after, served, args>> /\ measured' = measured
      BY <1>1, <1>u DEF vars
    <2> QED
      BY <2>1 DEF PoolOK, Measuring
  <1>2. CASE ReadBefore
    <2>1. /\ queue' = 0 /\ pc' = "run" /\ records' = records /\ call' = call
          /\ idle /\ measured' = measured /\ DOMAIN records = {}
      BY <1>2, <1>u DEF ReadBefore, StageOK
    <2>2. trace \in [1..Requests -> Nat]
      BY <1>2 DEF ClientTypes, ReadBefore, Early
    <2>3. Len(measured) \in Nat
      BY <2>2, MeasuredSeq
    <2> QED
      BY <2>1, <2>3 DEF PoolOK, idle, Idle
  <1>3. CASE /\ Measuring /\ UNCHANGED <<args, trace>>
             /\ SeeRaised \/ Collect \/ Evict
    <2>1. UNCHANGED <<queue, call, records, served>> /\ measured' = measured
      BY <1>3, <1>u DEF SeeRaised, Collect, Evict, pool
    <2>2. pc' = "done" => /\ DOMAIN records = 1..Len(measured) /\ after' = served
                          /\ \A n \in DOMAIN records : records[n] # Raised
      BY <1>3 DEF SeeRaised, Collect, Evict
    <2> QED
      BY <1>3, <2>1, <2>2 DEF PoolOK
  <1>4. ASSUME Measuring, UNCHANGED <<args, trace>>,
               NEW w \in Workers, Thread(w) \/ Raises(w), pc' = pc
        PROVE  PoolOK'
    <2>1. measured' = measured
      BY <1>4, <1>u
    <2>2. /\ DOMAIN records \subseteq 1..queue /\ queue <= Len(measured)
          /\ \A v \in Workers : call[v].do # "idle" =>
                /\ call[v].n \in 1..queue /\ call[v].n \notin DOMAIN records
                /\ \A x \in Workers \ {v} : call[x].do # "idle" => call[x].n # call[v].n
      BY <1>4 DEF PoolOK
    <2>3. trace \in [1..Requests -> Nat]
      BY <1>4 DEF ClientTypes, Measuring, Early
    <2>4. Len(measured) \in Nat
      BY <2>3, MeasuredSeq
    <2>5. ASSUME NEW c \in [do : Doings, n : Nat], Taken(w, c) PROVE PoolOK'
      <3>1. /\ queue' = queue + 1 /\ records' = records /\ c.n = queue + 1
            /\ queue < Len(measured) /\ pc' = "run"
        BY <1>4, <2>5 DEF Taken
      <3>2. call'[w] = c /\ \A v \in Workers \ {w} : call'[v] = call[v]
        BY <1>c, <2>5 DEF Taken
      <3>3. queue' <= Len(measured') /\ DOMAIN records' \subseteq 1..queue'
        BY <1>c, <2>1, <2>2, <2>4, <3>1
      <3>4. queue + 1 \in 1..queue' /\ queue + 1 \notin 1..queue
        BY <1>c, <3>1
      <3>5. 1..queue \subseteq 1..queue'
        BY <1>c, <3>1
      <3>6. ASSUME NEW v \in Workers, call'[v].do # "idle"
            PROVE  /\ call'[v].n \in 1..queue' /\ call'[v].n \notin DOMAIN records'
                   /\ \A x \in Workers \ {v} : call'[x].do # "idle" => call'[x].n # call'[v].n
        <4>1. CASE v = w
          BY <2>2, <3>1, <3>2, <3>4, <4>1
        <4>2. CASE v # w
          BY <2>2, <3>1, <3>2, <3>4, <3>5, <3>6, <4>2
        <4> QED
          BY <4>1, <4>2
      <3> QED
        BY <3>1, <3>3, <3>6 DEF PoolOK
    <2>6. CASE Missed(w)
      <3>1. /\ queue' = queue /\ records' = records /\ pc' # "done" /\ call[w].do # "idle"
        BY <1>4, <2>6 DEF Missed
      <3>2. call'[w].n = call[w].n /\ \A v \in Workers \ {w} : call'[v] = call[v]
        BY <1>c, <2>6 DEF Missed
      <3> QED
        BY <2>1, <2>2, <3>1, <3>2 DEF PoolOK
    <2>7. ASSUME NEW r \in Records, Returned(w, r) PROVE PoolOK'
      <3> DEFINE m == call[w].n
      <3>1. /\ queue' = queue /\ pc' # "done" /\ call[w].do # "idle"
            /\ records' = put(records, m, r)
        BY <1>4, <2>7 DEF Returned
      <3>2. call'[w].do = "idle" /\ \A v \in Workers \ {w} : call'[v] = call[v]
        BY <1>c, <2>7 DEF Returned, Idle
      <3>3. /\ m \in 1..queue
            /\ \A v \in Workers \ {w} : call[v].do # "idle" => call[v].n # m
        BY <2>2, <3>1
      <3> HIDE DEF m
      <3>4. DOMAIN records' = DOMAIN records \cup {m}
        BY <3>1 DEF put
      <3> QED
        BY <2>1, <2>2, <3>1, <3>2, <3>3, <3>4 DEF PoolOK
    <2> QED
      BY <1>4, <2>5, <2>6, <2>7, ThreadShape
  <1> QED
    BY <1>1, <1>2, <1>3, <1>4, <1>0, MeasuringSteps

\* How a new record is counted.
LEMMA NewRecord ==
    ASSUME NEW m \in Nat, m \notin DOMAIN records, NEW r, records' = put(records, m, r)
    PROVE  /\ DOMAIN records' = DOMAIN records \cup {m} /\ records'[m] = r
           /\ \A n \in DOMAIN records : records'[n] = records[n]
           /\ Reads' = IF r.write THEN Reads ELSE Reads \cup {m}
           /\ Hits' = IF r.hit THEN Hits \cup {m} ELSE Hits
  <1>1. /\ DOMAIN records' = DOMAIN records \cup {m} /\ records'[m] = r
        /\ \A n \in DOMAIN records : records'[n] = records[n]
    BY DEF put
  <1>2. Reads' = IF r.write THEN Reads ELSE Reads \cup {m}
    BY <1>1 DEF Reads
  <1>3. Hits' = IF r.hit THEN Hits \cup {m} ELSE Hits
    BY <1>1 DEF Hits
  <1> QED
    BY <1>1, <1>2, <1>3

\* What is counted is finite.
LEMMA CountedFinite ==
    ASSUME ClientTypes, PoolOK, Measuring
    PROVE  /\ IsFiniteSet(DOMAIN records) /\ IsFiniteSet(Reads) /\ IsFiniteSet(Hits)
           /\ IsFiniteSet(Fillers)
           /\ Cardinality(Reads) \in Nat /\ Cardinality(Hits) \in Nat
           /\ Cardinality(Fillers) \in Nat
           /\ DOMAIN records \subseteq Nat
  <1>1. queue \in Nat /\ DOMAIN records \subseteq 1..queue
    BY DEF ClientTypes, PoolOK
  <1>2. IsFiniteSet(1..queue)
    <2>1. 1 \in Int /\ queue \in Int
      BY <1>1
    <2> QED
      BY <2>1, FS_Interval
  <1>3. IsFiniteSet(DOMAIN records)
    BY <1>1, <1>2, FS_Subset
  <1>4. Reads \subseteq DOMAIN records /\ Hits \subseteq DOMAIN records
        /\ Fillers \subseteq Workers
    BY DEF Reads, Hits, Fillers
  <1>5. IsFiniteSet(Workers)
    BY ClientAssumption
  <1>6. IsFiniteSet(Reads) /\ IsFiniteSet(Hits) /\ IsFiniteSet(Fillers)
    BY <1>3, <1>4, <1>5, FS_Subset
  <1> QED
    BY <1>1, <1>3, <1>6, FS_CardinalityType

\* Every step keeps the server's counters and the client's records together.
LEMMA NextTallyOK ==
    ASSUME ClientTypes, StageOK, CallOK, PoolOK, TallyOK, [Next]_vars
    PROVE  TallyOK'
  <1>0. SUFFICES ASSUME Measuring' PROVE TallyOK'
    BY DEF TallyOK
  <1>c. call \in [Workers -> [do : Doings, n : Nat]] /\ served \in Tallies
    BY DEF ClientTypes
  <1>t. served.gets \in Nat /\ served.hits \in Nat /\ before \in Tallies
        /\ before.gets \in Nat /\ before.hits \in Nat
    BY <1>c DEF ClientTypes, Tallies
  <1>1. CASE UNCHANGED vars
    BY <1>1 DEF vars, TallyOK, Measuring, RecordOK, Reads, Hits, Fillers
  <1>2. CASE ReadBefore
    <2>1. /\ records' = records /\ call' = call /\ served' = served /\ before' = served
          /\ idle /\ DOMAIN records = {}
      BY <1>2 DEF ReadBefore, StageOK
    <2>2. Reads' = {} /\ Hits' = {} /\ Fillers' = {}
      BY <2>1 DEF Reads, Hits, Fillers, idle, Idle
    <2>3. Cardinality(Reads)' = 0 /\ Cardinality(Hits)' = 0 /\ Cardinality(Fillers)' = 0
      BY <2>2, FS_EmptySet
    <2> QED
      BY <1>t, <2>1, <2>3 DEF TallyOK
  <1>3. CASE /\ Measuring /\ UNCHANGED <<args, trace, before>>
             /\ SeeRaised \/ Collect \/ Evict
    <2>1. UNCHANGED <<call, records, served>>
      BY <1>3 DEF SeeRaised, Collect, Evict, pool
    <2> QED
      BY <1>3, <2>1 DEF TallyOK, RecordOK, Reads, Hits, Fillers
  <1>4. ASSUME Measuring, UNCHANGED <<args, trace, before>>,
               NEW w \in Workers, Thread(w) \/ Raises(w), pc' = pc
        PROVE  TallyOK'
    <2> DEFINE R == Cardinality(Reads)  H == Cardinality(Hits)  F == Cardinality(Fillers)
    <2>0. /\ IsFiniteSet(Reads) /\ IsFiniteSet(Hits) /\ IsFiniteSet(Fillers)
          /\ R \in Nat /\ H \in Nat /\ F \in Nat
          /\ DOMAIN records \subseteq Nat
      BY <1>4, CountedFinite
    <2>1. /\ \A n \in DOMAIN records : RecordOK(records[n])
          /\ args.mode # "bypass" /\ (\A n \in DOMAIN records : records[n] # Raised) =>
              /\ served.gets = before.gets + R + F
              /\ served.hits = before.hits + H
      BY <1>4 DEF TallyOK
    <2>2. ASSUME NEW c \in [do : Doings, n : Nat], Taken(w, c) PROVE TallyOK'
      <3>1. records' = records /\ served' = served
        BY <2>2 DEF Taken
      <3>2. Fillers' = Fillers
        BY <1>c, <2>2 DEF Taken, Fillers
      <3> QED
        BY <1>4, <2>1, <3>1, <3>2 DEF TallyOK, RecordOK, Reads, Hits
    <2>3. CASE Missed(w)
      <3>1. /\ records' = records
            /\ served' = [gets |-> served.gets + 1, hits |-> served.hits]
        BY <2>3 DEF Missed
      <3>2. Fillers' = Fillers \cup {w} /\ w \notin Fillers
        BY <1>c, <2>3 DEF Missed, Fillers
      <3>3. Cardinality(Fillers)' = F + 1
        BY <2>0, <3>2, FS_AddElement
      <3>4. Reads' = Reads /\ Hits' = Hits
        BY <3>1 DEF Reads, Hits
      <3>5. served'.gets = served.gets + 1 /\ served'.hits = served.hits
        BY <3>1
      <3>6. \A n \in DOMAIN records' : RecordOK(records[n])'
        BY <1>4, <2>1, <3>1 DEF RecordOK
      <3> HIDE DEF R, H, F
      <3>7. /\ Cardinality(Reads)' = R /\ Cardinality(Hits)' = H
        BY <3>4 DEF R, H
      <3>8. args.mode # "bypass" /\ (\A n \in DOMAIN records : records[n] # Raised) =>
              /\ served'.gets = before.gets + R + (F + 1)
              /\ served'.hits = before.hits + H
        <4>1. SUFFICES ASSUME served.gets = before.gets + R + F, served.hits = before.hits + H
                       PROVE  /\ served'.gets = before.gets + R + (F + 1)
                              /\ served'.hits = before.hits + H
          BY <2>1
        <4>2. R \in Nat /\ F \in Nat
          BY <2>0
        <4>3. served'.gets = (before.gets + R + F) + 1
          BY <3>5, <4>1
        <4>4. (before.gets + R + F) + 1 = before.gets + R + (F + 1)
          BY <1>t, <4>2
        <4> QED
          BY <3>5, <4>1, <4>3, <4>4
      <3> QED
        BY <1>4, <3>1, <3>3, <3>6, <3>7, <3>8 DEF TallyOK
    <2>4. ASSUME NEW r \in Records, Returned(w, r), Outcome(w, r) PROVE TallyOK'
      <3> DEFINE m == call[w].n
      <3>1. /\ m \in Nat /\ m \notin DOMAIN records /\ records' = put(records, m, r)
        BY <1>4, <1>c, <2>4, BusyMeasuring DEF Returned
      <3> HIDE DEF m
      <3>2. /\ DOMAIN records' = DOMAIN records \cup {m} /\ records'[m] = r
            /\ \A n \in DOMAIN records : records'[n] = records[n]
            /\ Reads' = IF r.write THEN Reads ELSE Reads \cup {m}
            /\ Hits' = IF r.hit THEN Hits \cup {m} ELSE Hits
        BY <3>1, NewRecord
      <3>3. m \notin Reads /\ m \notin Hits
        BY <3>1 DEF Reads, Hits
      <3>4. /\ Fillers' = Fillers \ {w}
            /\ w \in Fillers <=> call[w].do = "fill"
        BY <1>c, <2>4 DEF Returned, Fillers, Idle
      <3>5. RecordOK(r)
        BY <2>4 DEF Outcome, RecordOK
      <3>6. \A n \in DOMAIN records' : RecordOK(records[n])'
        BY <1>4, <2>1, <3>2, <3>5 DEF RecordOK
      <3>r. IsFiniteSet(Reads) /\ m \notin Reads => Cardinality(Reads \cup {m}) = R + 1
        BY FS_AddElement
      <3>h. IsFiniteSet(Hits) /\ m \notin Hits => Cardinality(Hits \cup {m}) = H + 1
        BY FS_AddElement
      <3>f. w \in Fillers => Cardinality(Fillers \ {w}) = F - 1
        BY <2>0, FS_RemoveElement
      <3>7. SUFFICES ASSUME args'.mode # "bypass", \A n \in DOMAIN records' : records'[n] # Raised
                     PROVE  /\ served'.gets = before'.gets + Cardinality(Reads)' + Cardinality(Fillers)'
                            /\ served'.hits = before'.hits + Cardinality(Hits)'
        BY <3>6 DEF TallyOK
      <3>8. /\ served.gets = before.gets + R + F /\ served.hits = before.hits + H
            /\ args.mode # "bypass" /\ r # Raised
        BY <1>4, <2>1, <3>2, <3>7
      <3> HIDE DEF R, H, F
      <3>9. CASE r.write /\ ~r.hit /\ call[w].do = "write" /\ UNCHANGED served
        <4>1. Reads' = Reads /\ Hits' = Hits /\ Fillers' = Fillers
          BY <3>2, <3>4, <3>9
        <4> QED
          BY <1>4, <3>8, <3>9, <4>1 DEF R, H, F
      <3>10. CASE /\ ~r.write /\ r.hit /\ call[w].do = "get"
                  /\ served' = [gets |-> served.gets + 1, hits |-> served.hits + 1]
        <4>1. Reads' = Reads \cup {m} /\ Hits' = Hits \cup {m} /\ Fillers' = Fillers
          BY <3>2, <3>4, <3>10
        <4>2. Cardinality(Reads)' = R + 1 /\ Cardinality(Hits)' = H + 1 /\ Cardinality(Fillers)' = F
          BY <2>0, <3>3, <3>r, <3>h, <4>1 DEF F
        <4>3. served'.gets = served.gets + 1 /\ served'.hits = served.hits + 1
          BY <3>10
        <4> QED
          BY <1>4, <1>t, <2>0, <3>8, <4>2, <4>3
      <3>11. CASE /\ ~r.write /\ ~r.hit /\ call[w].do = "get"
                  /\ served' = [gets |-> served.gets + 1, hits |-> served.hits]
        <4>1. Reads' = Reads \cup {m} /\ Hits' = Hits /\ Fillers' = Fillers
          BY <3>2, <3>4, <3>11
        <4>2. Cardinality(Reads)' = R + 1 /\ Cardinality(Hits)' = H /\ Cardinality(Fillers)' = F
          BY <2>0, <3>3, <3>r, <4>1 DEF F, H
        <4>3. served'.gets = served.gets + 1 /\ served'.hits = served.hits
          BY <3>11
        <4> QED
          BY <1>4, <1>t, <2>0, <3>8, <4>2, <4>3
      <3>12. CASE /\ ~r.write /\ ~r.hit /\ call[w].do = "fill" /\ UNCHANGED served
        <4>1. Reads' = Reads \cup {m} /\ Hits' = Hits /\ Fillers' = Fillers \ {w} /\ w \in Fillers
          BY <3>2, <3>4, <3>12
        <4>2. Cardinality(Reads)' = R + 1 /\ Cardinality(Hits)' = H /\ Cardinality(Fillers)' = F - 1
          BY <2>0, <3>3, <3>r, <3>f, <4>1 DEF H
        <4> QED
          BY <1>4, <1>t, <2>0, <3>8, <3>12, <4>2
      <3> QED
        BY <2>4, <3>8, <3>9, <3>10, <3>11, <3>12 DEF Outcome
    <2> QED
      BY <1>4, <2>2, <2>3, <2>4, ThreadShape
  <1> QED
    BY <1>1, <1>2, <1>3, <1>4, <1>0, MeasuringSteps

-----------------------------------------------------------------------------
\* What a Set does to the keys that can be read.
LEMMA LiveStored ==
    ASSUME NEW k, store' = stored(store, k, "value", 0), UNCHANGED <<now, defects>>, NEW j
    PROVE  /\ j # k => (live(j)' <=> live(j))
           /\ live(j) => live(j)'
           /\ "drops_set" \notin defects => live(k)'
  <1>1. CASE store' = store /\ ("drops_set" \in defects \/ live(k))
    BY <1>1 DEF live
  <1>2. CASE store' = put(store, k, entry("value", 0))
    <2> DEFINE e == entry("value", 0)
    <2>1. e.until = 0
      BY DEF entry
    <2>2. store' = put(store, k, e)
      BY <1>2
    <2> HIDE DEF e
    <2>3. /\ DOMAIN store' = DOMAIN store \cup {k} /\ store'[k] = e
          /\ \A x \in DOMAIN store : x # k => store'[x] = store[x]
      BY <2>2 DEF put
    <2>4. live(k)'
      BY <2>1, <2>3 DEF live
    <2>5. j # k => (live(j)' <=> live(j))
      BY <2>3 DEF live
    <2> QED
      BY <2>4, <2>5
  <1> QED
    BY <1>1, <1>2 DEF stored

\* An eviction makes no key readable.
LEMMA LiveWithout ==
    ASSUME NEW k, store' = without(store, k), UNCHANGED <<now, defects>>, NEW j
    PROVE  live(j)' => live(j)
  BY DEF live, without

\* How a new record and a new call are attributed to an object.
LEMMA NewFetch ==
    ASSUME NEW m \in Nat, m \notin DOMAIN records, NEW r, records' = put(records, m, r),
           measured' = measured, NEW i
    PROVE  fetchesOf(i)' = IF r.origin = 1 /\ measured[m] = i THEN fetchesOf(i) \cup {m}
                           ELSE fetchesOf(i)
  <1>1. /\ DOMAIN records' = DOMAIN records \cup {m} /\ records'[m] = r
        /\ \A n \in DOMAIN records : records'[n] = records[n]
    BY DEF put
  <1>2. \A n : n \in fetchesOf(i)' <=>
               n \in DOMAIN records' /\ records'[n].origin = 1 /\ measured[n] = i
    BY DEF fetchesOf
  <1>3. \A n : n \in fetchesOf(i) <=>
               n \in DOMAIN records /\ records[n].origin = 1 /\ measured[n] = i
    BY DEF fetchesOf
  <1>4. CASE r.origin = 1 /\ measured[m] = i
    <2>1. \A n : n \in fetchesOf(i)' <=> n \in fetchesOf(i) \cup {m}
      BY <1>1, <1>2, <1>3, <1>4
    <2> QED
      BY <1>4, <2>1
  <1>5. CASE ~(r.origin = 1 /\ measured[m] = i)
    <2>1. \A n : n \in fetchesOf(i)' <=> n \in fetchesOf(i)
      BY <1>1, <1>2, <1>3, <1>5
    <2> QED
      BY <1>5, <2>1
  <1> QED
    BY <1>4, <1>5

\* The fetches of an object are finitely many.
LEMMA FetchFinite ==
    ASSUME ClientTypes, PoolOK, Measuring, NEW i
    PROVE  /\ IsFiniteSet(fetchesOf(i)) /\ IsFiniteSet(FillersOf(i))
           /\ Cardinality(fetchesOf(i)) \in Nat /\ Cardinality(FillersOf(i)) \in Nat
           /\ Cardinality(Workers) \in Nat
  <1>1. fetchesOf(i) \subseteq DOMAIN records /\ FillersOf(i) \subseteq Workers
    BY DEF fetchesOf, FillersOf
  <1>2. IsFiniteSet(DOMAIN records) /\ IsFiniteSet(Workers)
    BY CountedFinite, ClientAssumption
  <1>3. IsFiniteSet(fetchesOf(i)) /\ IsFiniteSet(FillersOf(i))
    BY <1>1, <1>2, FS_Subset
  <1> QED
    BY <1>2, <1>3, FS_CardinalityType

\* Without a fault the probe has excluded a server that drops what is set.
LEMMA SetsStay ==
    ASSUME ClientTypes, ProbeIsRight, Measuring, faults = 0
    PROVE  "drops_set" \notin defects
  <1>1. ~disturbed
    BY DEF ClientTypes
  <1>2. pc # "verify" /\ pc # "refused"
    BY DEF Measuring
  <1>3. defects \cap relevant = {}
    BY <1>1, <1>2 DEF ProbeIsRight
  <1>4. "drops_set" \in relevant
    BY DEF relevant, Defects
  <1> QED
    BY <1>3, <1>4

\* Every step keeps the account of the origin's load (client.py:241-257).
LEMMA NextOriginOK ==
    ASSUME ClientTypes, ClientTypes', StageOK, CallOK, PoolOK, ProbeIsRight, OriginOK,
           [Next]_vars
    PROVE  OriginOK'
  <1>0. SUFFICES ASSUME Measuring', args'.mode = "origin" PROVE OriginOK'
    BY DEF OriginOK
  <1>u. (UNCHANGED <<args, trace>>) => measured' = measured /\ asked' = asked
    BY DEF measured, warmCount, asked
  <1>c. call \in [Workers -> [do : Doings, n : Nat]] /\ faults \in Nat /\ faults' \in Nat
    BY DEF ClientTypes
  <1>1. CASE UNCHANGED vars
    <2>1. UNCHANGED <<pc, args, cold, faults, store, now, defects, records, call>>
          /\ measured' = measured /\ asked' = asked
      BY <1>1, <1>u DEF vars
    <2>2. Measuring /\ args.mode = "origin"
      BY <1>0, <2>1 DEF Measuring
    <2> QED
      BY <2>1, <2>2
      DEF OriginOK, Fetched, OnceEach, live, Hits, fetchesOf, FillersOf
  <1>2. CASE ReadBefore
    <2>1. /\ cold' = {i \in asked : ~live(key(i))} /\ call' = call /\ records' = records
          /\ idle /\ DOMAIN records = {} /\ UNCHANGED <<store, now, defects>>
          /\ measured' = measured /\ asked' = asked
      BY <1>2, <1>u DEF ReadBefore, StageOK, asked, server
    <2>2. \A i : live(key(i))' <=> live(key(i))
      BY <2>1 DEF live
    <2>3. Hits' = {} /\ \A i : fetchesOf(i)' = {} /\ FillersOf(i)' = {}
      BY <2>1 DEF Hits, fetchesOf, FillersOf, idle, Idle
    <2>4. Cardinality({}) = 0 /\ Cardinality(Workers) \in Nat
      BY ClientAssumption, FS_EmptySet, FS_CardinalityType
    <2>5. ASSUME NEW i \in asked PROVE Fetched(i)' /\ OnceEach(i)'
      <3>1. Fetched(i)'
        BY <2>1, <2>2, <2>3 DEF Fetched
      <3>2. Cardinality(fetchesOf(i))' + Cardinality(FillersOf(i))' <= Cardinality(Workers)
        BY <2>3, <2>4
      <3> QED
        BY <2>1, <2>2, <2>3, <2>5, <3>1, <3>2 DEF OnceEach
    <2> QED
      BY <2>1, <2>5 DEF OriginOK
  <1>3. CASE /\ Measuring /\ UNCHANGED <<defects, now, args, trace, cold>>
             /\ SeeRaised \/ Collect \/ Evict
    <2>1. UNCHANGED <<call, records>> /\ measured' = measured /\ asked' = asked
      BY <1>3, <1>u DEF SeeRaised, Collect, Evict, pool
    <2>2. \/ UNCHANGED <<store, faults>>
          \/ faults' # 0 /\ \E k : store' = without(store, k)
      BY <1>3, <1>c DEF SeeRaised, Collect, Evict, Fault
    <2>3. Hits' = Hits /\ \A i : fetchesOf(i)' = fetchesOf(i) /\ FillersOf(i)' = FillersOf(i)
      BY <2>1 DEF Hits, fetchesOf, FillersOf
    <2>4. \A i : live(key(i))' => live(key(i))
      BY <1>3, <2>2, LiveWithout DEF live
    <2>5. faults' = 0 => faults = 0 /\ \A i : live(key(i))' <=> live(key(i))
      BY <1>3, <2>2 DEF live
    <2>6. \A i \in asked : Fetched(i) /\ (faults = 0 => OnceEach(i))
      BY <1>0, <1>3 DEF OriginOK
    <2>7. \A i \in asked : Fetched(i)'
      BY <1>3, <2>1, <2>3, <2>4, <2>6 DEF Fetched
    <2>8. faults' = 0 => \A i \in asked : OnceEach(i)'
      BY <1>3, <2>1, <2>3, <2>5, <2>6 DEF OnceEach
    <2> QED
      BY <2>1, <2>7, <2>8 DEF OriginOK
  <1>4. ASSUME Measuring, UNCHANGED <<defects, now, args, trace, cold>>,
               NEW w \in Workers, Thread(w) \/ Raises(w), pc' = pc
        PROVE  OriginOK'
    <2>0. measured' = measured /\ asked' = asked /\ args.mode = "origin"
      BY <1>0, <1>4, <1>u
    <2>1. \A i \in asked : Fetched(i) /\ (faults = 0 => OnceEach(i))
      BY <1>4, <2>0 DEF OriginOK
    <2>2. SUFFICES ASSUME NEW i \in asked
                   PROVE  Fetched(i)' /\ (faults' = 0 => OnceEach(i)')
      BY <2>0 DEF OriginOK
    <2>3. Fetched(i) /\ (faults = 0 => OnceEach(i))
      BY <2>1
    <2> DEFINE f == fetchesOf(i)  g == FillersOf(i)
               F == Cardinality(f)  G == Cardinality(g)  W == Cardinality(Workers)
    <2>4. IsFiniteSet(f) /\ IsFiniteSet(g) /\ F \in Nat /\ G \in Nat /\ W \in Nat
      BY <1>4, FetchFinite
    <2>5. ASSUME NEW c \in [do : Doings, n : Nat], Taken(w, c)
          PROVE  Fetched(i)' /\ (faults' = 0 => OnceEach(i)')
      <3>1. records' = records /\ UNCHANGED <<store, faults>>
        BY <2>5 DEF Taken
      <3>2. FillersOf(i)' = FillersOf(i)
        BY <1>c, <2>0, <2>5 DEF Taken, FillersOf
      <3>3. Hits' = Hits /\ fetchesOf(i)' = fetchesOf(i) /\ (live(key(i))' <=> live(key(i)))
        BY <1>4, <2>0, <3>1 DEF Hits, fetchesOf, live
      <3> HIDE DEF f, g, F, G, W
      <3> QED
        BY <1>4, <2>0, <2>3, <3>1, <3>2, <3>3 DEF Fetched, OnceEach
    <2>6. CASE Missed(w)
      <3>1. records' = records /\ UNCHANGED <<store, faults>> /\ ~live(keyOf(w))
            /\ call[w].do # "idle"
        BY <2>6 DEF Missed
      <3>2. Hits' = Hits /\ fetchesOf(i)' = f /\ (live(key(i))' <=> live(key(i)))
        BY <1>4, <2>0, <3>1 DEF Hits, fetchesOf, live
      <3>3. Fetched(i)'
        BY <1>4, <2>0, <2>3, <3>2 DEF Fetched
      <3>4. ASSUME faults = 0 PROVE OnceEach(i)'
        <4>1. CASE measured[call[w].n] # i
          <5>1. FillersOf(i)' = FillersOf(i)
            BY <1>c, <2>0, <2>6, <4>1 DEF Missed, FillersOf
          <5> QED
            BY <1>4, <2>3, <3>2, <3>4, <5>1 DEF OnceEach
        <4>2. CASE measured[call[w].n] = i
          <5>1. ~live(key(i))
            BY <1>4, <3>1, <4>2, BusyMeasuring
          <5>2. i \in cold /\ f = {}
            BY <2>3, <3>4, <5>1 DEF OnceEach
          <5>3. FillersOf(i)' \subseteq Workers
            BY DEF FillersOf
          <5>4. Cardinality(FillersOf(i)') <= W /\ Cardinality(FillersOf(i)') \in Nat
            BY <5>3, ClientAssumption, FS_Subset, FS_CardinalityType
          <5>5. Cardinality(fetchesOf(i)') = 0
            BY <3>2, <5>2, FS_EmptySet
          <5>6. Cardinality(fetchesOf(i)') + Cardinality(FillersOf(i)') <= W
            BY <5>4, <5>5
          <5> QED
            BY <1>4, <3>2, <5>2, <5>6 DEF OnceEach
        <4> QED
          BY <4>1, <4>2
      <3> QED
        BY <3>1, <3>3, <3>4
    <2>7. ASSUME NEW r \in Records, Returned(w, r), Outcome(w, r)
          PROVE  Fetched(i)' /\ (faults' = 0 => OnceEach(i)')
      <3> DEFINE m == call[w].n
      <3>1. /\ m \in Nat /\ m \notin DOMAIN records /\ records' = put(records, m, r)
            /\ keyOf(w) = key(measured[m])
        BY <1>4, <1>c, <2>7, BusyMeasuring DEF Returned
      <3>2. FillersOf(i)' = g \ {w} /\ (w \in g <=> call[w].do = "fill" /\ measured[m] = i)
        BY <1>c, <2>0, <2>7 DEF Returned, FillersOf, Idle
      <3> HIDE DEF m
      <3>3. Hits' = IF r.hit THEN Hits \cup {m} ELSE Hits
        BY <3>1, NewRecord
      <3>4. fetchesOf(i)' = IF r.origin = 1 /\ measured[m] = i THEN f \cup {m} ELSE f
        BY <2>0, <3>1, NewFetch
      <3>5. CASE r = Raised /\ faults' = faults + 1 /\ UNCHANGED <<store, served>>
        <4>1. ~r.hit /\ r.origin = 0
          BY <3>5 DEF Raised, record
        <4>2. Hits' = Hits /\ fetchesOf(i)' = f /\ (live(key(i))' <=> live(key(i)))
          BY <1>4, <3>3, <3>4, <3>5, <4>1 DEF live
        <4>3. faults' # 0
          BY <1>c, <3>5
        <4> QED
          BY <1>4, <2>0, <2>3, <4>2, <4>3 DEF Fetched
      <3>6. CASE /\ r.hit /\ r.origin = 0 /\ call[w].do = "get" /\ live(keyOf(w))
                 /\ UNCHANGED <<store, faults>>
        <4>1. /\ Hits' = Hits \cup {m} /\ fetchesOf(i)' = f
              /\ (live(key(i))' <=> live(key(i)))
          BY <1>4, <3>3, <3>4, <3>6 DEF live
        <4>2. FillersOf(i)' = g
          BY <3>2, <3>6
        <4>3. measured[m] = i => live(key(i))
          BY <3>1, <3>6
        <4>4. Fetched(i)'
          BY <1>4, <2>0, <2>3, <4>1, <4>3 DEF Fetched
        <4>5. faults' = 0 => OnceEach(i)'
          BY <1>4, <2>3, <3>6, <4>1, <4>2 DEF OnceEach
        <4> QED
          BY <4>4, <4>5
      <3>7. CASE /\ ~r.hit /\ r.origin = 1 /\ call[w].do = "fill"
                 /\ \/ store' = stored(store, keyOf(w), "value", 0) /\ UNCHANGED faults
                    \/ faults' = faults + 1 /\ UNCHANGED store
        <4>1. Hits' = Hits
          BY <3>3, <3>7
        <4>2. CASE measured[m] # i
          <5>1. fetchesOf(i)' = f /\ FillersOf(i)' = g
            BY <3>2, <3>4, <4>2
          <5>2. key(i) # keyOf(w)
            BY <3>1, <4>2 DEF key
          <5>3. live(key(i))' <=> live(key(i))
            <6>1. CASE UNCHANGED store
              BY <1>4, <6>1 DEF live
            <6>2. CASE store' = stored(store, keyOf(w), "value", 0)
              BY <1>4, <5>2, <6>2, LiveStored
            <6> QED
              BY <3>7, <6>1, <6>2
          <5>4. faults' = 0 => faults = 0
            BY <1>c, <3>7
          <5>5. Fetched(i)'
            BY <1>4, <2>0, <2>3, <4>1, <5>1, <5>3 DEF Fetched
          <5>6. faults' = 0 => OnceEach(i)'
            BY <1>4, <2>3, <5>1, <5>3, <5>4 DEF OnceEach
          <5> QED
            BY <5>5, <5>6
        <4>3. CASE measured[m] = i
          <5>1. /\ fetchesOf(i)' = f \cup {m} /\ m \notin f
                /\ FillersOf(i)' = g \ {w} /\ w \in g
            BY <3>1, <3>2, <3>4, <3>7, <4>3 DEF fetchesOf
          <5>2. Fetched(i)'
            BY <5>1 DEF Fetched
          <5>3. ASSUME faults' = 0 PROVE OnceEach(i)'
            <6>1. faults = 0 /\ store' = stored(store, key(i), "value", 0)
              BY <1>c, <3>1, <3>7, <4>3, <5>3
            <6>2. "drops_set" \notin defects
              BY <1>4, <6>1, SetsStay
            <6>3. live(key(i))'
              BY <1>4, <6>1, <6>2, LiveStored
            <6>4. i \in cold /\ F + G <= W
              BY <2>3, <5>1, <6>1 DEF OnceEach
            <6>5. Cardinality(f \cup {m}) = F + 1
              BY <2>4, <5>1, FS_AddElement
            <6>6. Cardinality(g \ {w}) = G - 1
              BY <2>4, <5>1, FS_RemoveElement
            <6> HIDE DEF F, G, W, f, g
            <6>7. (F + 1) + (G - 1) = F + G
              BY <2>4
            <6>8. Cardinality(fetchesOf(i)') + Cardinality(FillersOf(i)') <= Cardinality(Workers)
              BY <5>1, <6>4, <6>5, <6>6, <6>7 DEF W
            <6> QED
              BY <1>4, <6>3, <6>4, <6>8 DEF OnceEach
          <5> QED
            BY <5>2, <5>3
        <4> QED
          BY <4>2, <4>3
      <3> QED
        BY <2>0, <2>7, <3>5, <3>6, <3>7 DEF Outcome
    <2> QED
      BY <1>4, <2>5, <2>6, <2>7, ThreadShape
  <1> QED
    BY <1>1, <1>2, <1>3, <1>4, <1>0, MeasuringSteps

-----------------------------------------------------------------------------
\* The invariant holds at the start and every step keeps it.
LEMMA ClientInvHolds == Spec => []ClientInv
  <1>1. Init => ClientInv
    <2> SUFFICES ASSUME Init PROVE ClientInv
      OBVIOUS
    <2>1. /\ pc = "verify" /\ at = 1 /\ since = 0 /\ now = 1 /\ DOMAIN records = {}
          /\ queue = 0 /\ call = [w \in Workers |-> Idle]
          /\ got = <<>> /\ errors = 0 /\ misses = 0 /\ faults = 0 /\ disturbed = FALSE
      BY DEF Init
    <2>2. Absent(Key) \/ Holds(Key, "value", 0)
      <3> DEFINE e == [value |-> "value", until |-> 0]
      <3>1. store = <<>> \/ store = put(<<>>, Key, e)
        BY DEF Init
      <3>2. e.value = "value" /\ e.until = 0
        OBVIOUS
      <3> HIDE DEF e
      <3>3. CASE store = <<>>
        BY <3>3 DEF Absent
      <3>4. CASE store = put(<<>>, Key, e)
        <4>1. DOMAIN store = {Key} /\ store[Key] = e
          BY <3>4 DEF put
        <4> QED
          BY <3>2, <4>1 DEF Holds
      <3> QED
        BY <3>1, <3>3, <3>4
    <2>3. GoodStore(store)
      <3> DEFINE e == [value |-> "value", until |-> 0]
      <3>1. store = <<>> \/ store = put(<<>>, Key, e)
        BY DEF Init
      <3>2. e.value \in Values /\ e.until \in Nat
        BY DEF Values
      <3> HIDE DEF e
      <3>3. CASE store = <<>>
        BY <3>3 DEF GoodStore
      <3>4. CASE store = put(<<>>, Key, e)
        <4>1. DOMAIN store = {Key} /\ store[Key] = e
          BY <3>4 DEF put
        <4> QED
          BY <3>2, <4>1 DEF GoodStore
      <3> QED
        BY <3>1, <3>3, <3>4
    <2>4. ClientTypes
      <3>1. served \in Tallies /\ before \in Tallies
        BY DEF Init, Tallies
      <3>2. Len(probe) = 14 \/ Len(probe) = 11
        BY ProbeTable
      <3>3. at \in 1..Len(probe)
        <4>1. at = 1
          BY <2>1
        <4> DEFINE l == Len(probe)
        <4>2. l = 14 \/ l = 11
          BY <3>2
        <4> HIDE DEF l
        <4>3. 1 \in 1..l
          BY <4>2
        <4> QED
          BY <4>1, <4>3 DEF l
      <3>4. Idle \in [do : Doings, n : Nat]
        BY DEF Idle, Doings
      <3>5. call \in [Workers -> [do : Doings, n : Nat]]
        BY <2>1, <3>4
      <3>6. got \in Seq(Values \cup {"none"})
        BY <2>1
      <3>7. kind \in {"grpc", "resp", "memcached"} /\ defects \in SUBSET Defects
        BY DEF Init
      <3>8. pc \in Stages /\ pc \in Early
        BY <2>1 DEF Stages, Early
      <3> QED
        BY <2>1, <2>3, <3>1, <3>3, <3>5, <3>6, <3>7, <3>8 DEF ClientTypes
    <2>5. VerifyOK /\ ProbeIsRight
      <3>1. ProbeState
        BY <2>1, <2>2 DEF ProbeState
      <3>2. excluded(at) = {}
        BY <2>1 DEF excluded
      <3> QED
        BY <2>1, <3>1, <3>2 DEF VerifyOK, ProbeIsRight
    <2>6. StageOK /\ CallOK
      BY <2>1 DEF StageOK, CallOK, idle, Idle
    <2>7. BatchOK /\ PoolOK /\ TallyOK /\ OriginOK
      BY <2>1 DEF BatchOK, PoolOK, TallyOK, OriginOK, Measuring
    <2> QED
      BY <2>4, <2>5, <2>6, <2>7 DEF ClientInv
  <1>2. ClientInv /\ [Next]_vars => ClientInv'
    <2> SUFFICES ASSUME ClientInv, [Next]_vars PROVE ClientInv'
      OBVIOUS
    <2>0. /\ ClientTypes /\ VerifyOK /\ ProbeIsRight /\ StageOK /\ BatchOK /\ CallOK
          /\ PoolOK /\ TallyOK /\ OriginOK
      BY DEF ClientInv
    <2>1. ClientTypes'
      <3>1. CASE UNCHANGED vars
        BY <2>0, <3>1 DEF vars, ClientTypes, GoodStore, probe
      <3>2. CASE Next
        BY <2>0, <3>2, ProbeTypes, MainTypes, ThreadTypes, EvictTypes
        DEF Next, MainStep, Thread
      <3> QED
        BY <3>1, <3>2
    <2>2. (VerifyOK /\ ProbeIsRight)'
      BY <2>0, NextVerifyOK
    <2>3. StageOK' /\ BatchOK' /\ CallOK'
      BY <2>0, NextStageOK, NextBatchOK, NextCallOK
    <2>4. PoolOK' /\ TallyOK'
      BY <2>0, NextPoolOK, NextTallyOK
    <2>5. OriginOK'
      BY <2>0, <2>1, NextOriginOK
    <2> QED
      BY <2>1, <2>2, <2>3, <2>4, <2>5 DEF ClientInv
  <1> QED
    BY <1>1, <1>2, PTL DEF Spec

\* When the client is done no thread is at work.
LEMMA DoneIdle ==
    ASSUME ClientInv, pc = "done", args.command = "run"
    PROVE  /\ Measuring /\ \A w \in Workers : call[w].do = "idle"
           /\ DOMAIN records = 1..Len(measured) /\ DOMAIN measured = 1..Len(measured)
           /\ after = served /\ \A n \in DOMAIN records : records[n] # Raised
  <1>1. ClientTypes /\ StageOK /\ PoolOK /\ Measuring
    BY DEF ClientInv, Measuring
  <1>2. \A w \in Workers : call[w].do = "idle"
    BY <1>1, BusyMeasuring
  <1>3. trace \in [1..Requests -> Nat]
    BY <1>1 DEF ClientTypes, Early
  <1>4. DOMAIN measured = 1..Len(measured)
    BY <1>3, MeasuredSeq
  <1> QED
    BY <1>1, <1>2, <1>4 DEF PoolOK

\* The client reports what the server counted.
LEMMA InvAgrees ==
    ASSUME ClientInv
    PROVE  ClientAgreesWithServer
  <1>1. ASSUME pc = "done", args.command # "run", successful_ops > 0
        PROVE  misses = 0
    <2>1. errors = 0
      BY <1>1 DEF successful_ops
    <2>2. /\ at = Requests /\ at + Len(got) <= lastOf(at)
          /\ ~wrong(got) => misses = 0
      BY <1>1, <2>1 DEF ClientInv, BatchOK
    <2>3. got \in Seq(Values \cup {"none"}) /\ Requests \in Nat /\ BatchSize \in Nat
          /\ BatchSize > 0
      BY ClientAssumption DEF ClientInv, ClientTypes
    <2>4. lastOf(at) = Requests
      BY <2>2, <2>3 DEF lastOf
    <2>5. Len(got) \in Nat /\ DOMAIN got = 1..Len(got)
      BY <2>3
    <2>6. Len(got) = 0
      BY <2>2, <2>3, <2>4, <2>5
    <2>7. ~wrong(got)
      BY <2>5, <2>6 DEF wrong
    <2> QED
      BY <2>2, <2>7
  <1>2. ASSUME pc = "done", args.command = "run", args.mode # "bypass"
        PROVE  /\ after.gets - before.gets = read_operations
               /\ after.hits - before.hits = object_hits
               /\ args.mode = "origin" => origin_requests = read_operations - object_hits
               /\ args.mode # "origin" /\ run_errors = 0 => object_hits = read_operations
    <2>0. /\ Measuring /\ \A w \in Workers : call[w].do = "idle"
          /\ after = served /\ \A n \in DOMAIN records : records[n] # Raised
      BY <1>2, DoneIdle
    <2> DEFINE D == DOMAIN records
               R == Cardinality(Reads)  H == Cardinality(Hits)
               Ws == {n \in D : records[n].write}
    <2>1. /\ \A n \in D : RecordOK(records[n])
          /\ served.gets = before.gets + R + Cardinality(Fillers)
          /\ served.hits = before.hits + H
      BY <1>2, <2>0 DEF ClientInv, TallyOK
    <2>2. /\ IsFiniteSet(D) /\ IsFiniteSet(Reads) /\ IsFiniteSet(Hits)
          /\ R \in Nat /\ H \in Nat
      BY <2>0, CountedFinite DEF ClientInv
    <2>3. Cardinality(Fillers) = 0
      <3>1. Fillers = {}
        BY <2>0 DEF Fillers
      <3> QED
        BY <3>1, FS_EmptySet
    <2>4. before.gets \in Nat /\ before.hits \in Nat
      BY DEF ClientInv, ClientTypes, Tallies
    <2>5. read_operations = R
      <3>1. write_operations = Cardinality(Ws)
        BY DEF write_operations, count
      <3>2. Ws \subseteq D /\ D \ Ws = Reads /\ D \cap Ws = Ws
        BY DEF Reads
      <3>3. IsFiniteSet(Ws)
        BY <2>2, <3>2, FS_Subset
      <3>4. Cardinality(D \ Ws) = Cardinality(D) - Cardinality(D \cap Ws)
        BY <2>2, <3>3, FS_Difference
      <3> QED
        BY <3>1, <3>2, <3>4 DEF read_operations
    <2>6. object_hits = H
      BY DEF object_hits, count, Hits
    <2>7. after.gets - before.gets = R /\ after.hits - before.hits = H
      BY <2>0, <2>1, <2>2, <2>3, <2>4
    <2>8. ASSUME args.mode = "origin" PROVE origin_requests = R - H
      <3> DEFINE O == {n \in D : records[n].origin = 1}
      <3>1. origin_requests = Cardinality(O)
        BY DEF origin_requests, count
      <3>2. \A n \in D : \/ ~records[n].write /\ records[n].hit /\ records[n].origin = 0
                         \/ ~records[n].write /\ ~records[n].hit /\ records[n].origin = 1
        BY <2>0, <2>1, <2>8 DEF RecordOK
      <3>3. O = Reads \ Hits /\ Reads \cap Hits = Hits
        BY <3>2 DEF Reads, Hits
      <3>4. Cardinality(Reads \ Hits) = R - Cardinality(Reads \cap Hits)
        BY <2>2, FS_Difference
      <3> QED
        BY <3>1, <3>3, <3>4
    <2>9. ASSUME args.mode # "origin", run_errors = 0 PROVE H = R
      <3> DEFINE E == {n \in D : records[n].error # "none"}
      <3>1. Cardinality(E) = 0
        BY <2>9 DEF run_errors, count
      <3>2. IsFiniteSet(E)
        BY <2>2, FS_Subset
      <3>3. E = {}
        BY <3>1, <3>2, FS_EmptySet
      <3>4. \A n \in D : records[n].error = "none"
        BY <3>3
      <3>5. \A n \in D : records[n].write <=> ~records[n].hit
        BY <1>2, <2>0, <2>1, <2>9, <3>4 DEF RecordOK
      <3>6. Hits = Reads
        BY <3>5 DEF Reads, Hits
      <3> QED
        BY <3>6
    <2> QED
      BY <2>5, <2>6, <2>7, <2>8, <2>9
  <1> QED
    BY <1>1, <1>2 DEF ClientAgreesWithServer

\* The origin load an origin test reports is explained by the cold objects.
LEMMA InvOrigin ==
    ASSUME ClientInv
    PROVE  OriginLoadExplained
  <1> SUFFICES ASSUME pc = "done", args.command = "run", args.mode = "origin",
                      NEW i \in {measured[n] : n \in DOMAIN measured}
               PROVE  /\ i \in cold => fetchesOf(i) # {}
                      /\ faults = 0 =>
                           Cardinality(fetchesOf(i)) <= IF i \in cold THEN Cardinality(Workers) ELSE 0
    BY DEF OriginLoadExplained
  <1>0. /\ Measuring /\ DOMAIN records = DOMAIN measured
        /\ \A n \in DOMAIN records : records[n] # Raised
    BY DoneIdle
  <1>1. Fetched(i) /\ (faults = 0 => OnceEach(i))
    BY <1>0 DEF ClientInv, OriginOK, asked
  <1>2. ASSUME i \in cold PROVE fetchesOf(i) # {}
    <2>1. PICK n \in DOMAIN measured : measured[n] = i
      OBVIOUS
    <2>2. n \in DOMAIN records /\ RecordOK(records[n])
      BY <1>0, <2>1 DEF ClientInv, TallyOK
    <2>3. \/ records[n].hit \/ records[n].origin = 1
      BY <1>0, <2>2 DEF RecordOK
    <2>4. CASE records[n].hit
      BY <1>1, <1>2, <2>1, <2>2, <2>4 DEF Fetched, Hits
    <2>5. CASE records[n].origin = 1
      BY <2>1, <2>2, <2>5 DEF fetchesOf
    <2> QED
      BY <2>3, <2>4, <2>5
  <1>3. ASSUME faults = 0
        PROVE  Cardinality(fetchesOf(i)) <= IF i \in cold THEN Cardinality(Workers) ELSE 0
    <2>1. OnceEach(i)
      BY <1>1, <1>3
    <2>2. /\ Cardinality(fetchesOf(i)) \in Nat /\ Cardinality(FillersOf(i)) \in Nat
          /\ Cardinality(Workers) \in Nat
      BY <1>0, FetchFinite DEF ClientInv
    <2>3. CASE i \in cold
      BY <2>1, <2>2, <2>3 DEF OnceEach
    <2>4. CASE i \notin cold
      <3>1. fetchesOf(i) = {}
        BY <2>1, <2>4 DEF OnceEach
      <3>2. Cardinality(fetchesOf(i)) = 0
        BY <3>1, FS_EmptySet
      <3> QED
        BY <2>4, <3>2
    <2> QED
      BY <2>3, <2>4
  <1> QED
    BY <1>2, <1>3

\* The probe refuses exactly the servers that have one of the defects it looks for,
\* unless the server was disturbed where it looks, however many faults there are
\* (client.py:113-147).
THEOREM ProbeIsRightHolds == Spec => []ProbeIsRight
  <1>1. ClientInv => ProbeIsRight
    BY DEF ClientInv
  <1> QED
    BY <1>1, ClientInvHolds, PTL

\* What the client reports of a measurement is what the server counted in it, for
\* any number of threads and requests and any warm-up, and a batch test that
\* reports operations has read every object (client.py:259-275, 304-337).
THEOREM ClientAgreesWithServerHolds == Spec => []ClientAgreesWithServer
  BY InvAgrees, ClientInvHolds, PTL

\* Every object that was cold is fetched from the origin, and without faults only
\* those, each by a thread at most once (client.py:241-257).
THEOREM OriginLoadExplainedHolds == Spec => []OriginLoadExplained
  BY InvOrigin, ClientInvHolds, PTL

=============================================================================
