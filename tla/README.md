# Verification of cachelib-grpc-server

TLA+ specifications of the two halves of this repository. The cache server: what
its threads do to the shared cache, what the handlers answer, how a stream and
the process begin and end. And the measuring software under `bench/`: the
scripts that run containers, the campaign that runs the scripts and survives
being killed, the reports it may publish, the HTTP path and the trace client.
TLC checks them on small instances; TLAPS proves the central safety properties
for every number of callers, keys, groups, threads and faults.

Line numbers refer to the files of the repository (`CacheManager.cc`,
`CacheServiceImpl.cc`, `MetricsServer.cc`, `server.cc`, `proto/cache.proto`, and
below `bench/`).
`PROJECT.json` maps every definition to the lines it models, lists the runs,
the mutants that show what each property can catch, the findings, the hazards
and the theorems.

## 1. The system

A gRPC server puts CacheLib, an in-process cache, behind 19 RPCs.

| Part | State | Operations | Talks to |
|---|---|---|---|
| `CacheManager` | `cache_`, `atomicOpMutex_`, five atomic counters | `initialize`, `shutdown`, `get`, `set`, `remove`, `exists`, `multi*`, `setNX`, `increment`, `decrement`, `incr`, `compareAndSwap`, `getTTL`, `touch`, `scan`, `flush`, `getStats` | CacheLib |
| `matchesPattern` | two positions and one backtrack point | the glob matcher of `scan` | - |
| `CacheServiceImpl` | none of its own | a handler per RPC, run by gRPC's threads | `CacheManager` |
| `Pipeline` handler | one request and one response at a time | read, apply, write | gRPC's stream, `CacheManager` |
| `MetricsServer` | `running_`, `serverFd_`, one thread | `start`, `stop`, `run`, `handleConnection` | `CacheManager::getStats` |
| `main`, `signalHandler` | `g_server` | start, wait, stop in order | all of them |
| CacheLib (fetched by the build) | items with value, creation and expiry second | `find`, `allocate`, `insertOrReplace`, `remove`, iterator, eviction, reaper | - |
| measuring scripts (`run_strong.py`, `run_http.py`, and of `bench/investigation` `run_matrix.py`, `run_http.py`, `run_limits.py`) | Docker containers and a network, one directory of files for each run | start, wait, probe, measure, record, sweep | Docker, the clients |
| campaign driver (`release_campaign.py`, `landscape_campaign.py`) | two copies of `campaign.json` | start, resume, mark, launch, validate, save | the scripts, `summarize.py` |
| renderers (`render_release_report.py`, `render_landscape_report.py`) | a report and a block of the README | render, `--check` | the results copy and the raw files |
| HTTP path (`http_service.py` of both directories, `http_client.py`, `httpbench.go`) | connections, the origin's count | get, fetch with a retry, fill, `/stats` | the cache, the origin |
| trace client (`bench/investigation/client.py`) | a trace, a pool of threads, records | `verify`, `run`, `batch` | a server under test |

What makes it hard:

* **Concurrency.** Handlers run on as many threads as gRPC likes. Six
  operations take `atomicOpMutex_`; `get`, `set`, `remove`, `exists`, `getTTL`,
  `scan`, `flush` and `getStats` do not. CacheLib evicts and reaps meanwhile.
* **Two clocks.** CacheLib reads `time()`, CacheManager `system_clock`; for a
  moment after a second boundary they differ. CacheLib still finds an item in
  its last second; `incr` takes it for dead. A kept deadline is rebuilt from a
  creation time and a TTL in `uint32_t`.
* **Failure in the middle.** A store can fail after the operation has decided;
  a batch can fail in part; a client can go away in the middle of a stream.
* **Walks over a changing table.** A cursor of Scan is a key, which may go, or go
  and come back at another place of its chain.
* **Shutting down.** A signal, gRPC's drain, the metrics thread in `accept`,
  `read` or `getStats`, and a `cache_` that is reset at the end.
* **Dying half-way.** A campaign takes hours. The driver, a script or a renderer
  may be killed at any step, a save be cut short, `docker stop` outlast its
  timeout inside a `finally`, a client's container outlive the command that was
  to run it, and people edit the tree and the evidence between
  two drivers.
* **Measuring while others run.** Two threads miss on one object, a fetch that
  timed out is still handled, the origin counts from many threads, and the
  counts before and after must belong to the measurement alone.

What makes each part correct: the read-modify-write operations are atomic, no
counter update is lost or wraps, and a fixed window keeps its deadline
(CacheManager); the matcher says what the glob means in bounded time; paging
returns what stayed there, once, unless a cursor was removed; a response tells
what its call did (CacheServiceImpl); the i-th response of a stream answers its
i-th request; and nobody is inside the cache when it is reset (`main`). No group
is measured twice or passed over, and what is recorded as valid or published was
measured so (campaign and renderers); no container is left that nothing went
wrong with (scripts); bodies belong to their objects and counts to the
measurement (HTTP path, trace client); and the correctness probe passes sound
servers only, and all of them.

The hazards, each at its line and with the properties that would catch it, are
in `PROJECT.json`.

## 2. The modules

```
CounterText        texts and checked 64-bit arithmetic
  CacheLib         items, find, allocate                        (external)
    CacheOps       what each operation decides
      CacheManager           the operations under concurrent callers
        CacheLinear ------------> refines AtomicCache (abstract)
        CacheService         the handlers and batches    } both take
        Pipeline             the bidirectional stream    } RpcMessages
      RpcMessages            one item of a message as a call
GlobMatch          matchesPattern
CacheWalk          scan and flush
Server             main, signalHandler, MetricsServer, gRPC's threads
Harness            the five measuring scripts
  Campaign         the driver, its files and the renderers
HttpPath           client, adapter, origin
BenchClient        probe, trace runner, batch reader
CacheManagerProofs   theorems on CacheManager, and its refinement (CacheLinear)
RpcProofs            on Pipeline and CacheService
GlobMatchProofs, CacheWalkProofs, ServerProofs, CampaignProofs, HttpPathProofs,
BenchClientProofs    on the module each is named after
MC*.tla, *.cfg     small instances
```

**CounterText.** A stored value is a byte string. The operations tell apart
whether `from_chars` consumes all of it and which number it then is, whether it
is the spelling `to_string` prints, and whether it is too large: a text is a
record of a kind (`canon`, `padded`, `junk`, `large`) and a number.
`parseWholeInt64`, `checkedAdd` and `checkedNegate` are those of
`CacheManager.cc:37-69`, wrap-around included.

**CacheLib.** How CacheManager sees CacheLib: `find` hides an item whose expiry
is *strictly* past, `allocate` stamps `created` (now, when it is given 0) and
`expiry = created + ttl` modulo 2^32, with 0 for "never".

**CacheOps.** Each operation as a function of its request, the handle it found
and `system_clock`'s second: it replies, or stores a draft and replies with one
of two results, for a store that succeeds or fails. Early returns and their
order are the code's.

**CacheManager.** One step per call into CacheLib, lock, clock reading or
counter: `Call`/`CallUnready`/`CallRefused` (the checks before anything else),
`Lock`, `Find`, `Decide`, `CopyThrows` (the value of a get that was found
cannot be copied: its catch counts a miss after the hit),
`Allocate`/`AllocateFails`, `Link`, `Remove`, `Load`
(one counter of `getStats`), `Return` (which drops the handle and unlocks),
besides `Initialize`, `Shutdown`, `Drop` (eviction and reaper), `Tick` and
`CatchUp` (the two clocks).

**AtomicCache, CacheLinear.** The abstract cache has no mutex and no state
between reading and writing: an operation happens in one instant between its
call and its return. CacheLinear gives the refinement mapping, with one history
variable: the clocks when the call began.

**GlobMatch.** The loop of `matchesPattern`, one iteration to a step, with its
arguments chosen at the start. The reference, `Matches`, says what a glob means
without an algorithm: there is a place in the key for each `*` to stop, such that
everything else of the pattern meets a character that it stands for.

**CacheWalk.** The table is chained: a key has a bucket (`BucketOf`) and a place
in its chain. The iterator takes the buckets in order; on entering one it takes
handles to the items of its chain (`batch`), so that it visits them even if they
are removed meanwhile, and nothing that comes later (`Enter`, `Leave`, `Roll`). A
page walks from the start, skips to its cursor and takes keys until it is full
or at the end. `OtherAdds`/`OtherDrops` change the table at any step; a key that
was removed may come back to any free place of its chain, the tail or another.

**RpcMessages, CacheService.** A handler checks its message, queues its calls
of CacheManager (one, or one per item of a batch), makes them one by one
(`Issue`, the steps of CacheManager, `Collect`) and turns the results into a
response (`Respond`, `Send`). History variables record what each key held
during the call, and what the call itself stored and removed.

**Pipeline.** The handler's loop (`Start`, `Read`, `Apply`, `Applied`, `Write`,
`ReadEnds`), a client that writes, reads, half-closes and cancels at any point,
and buffers of `Window` messages each way. The other threads of CacheManager
call it with `OtherRequests`.

**Server.** `main` step by step, a signal at any moment, handlers that are in or
out of CacheManager, and the metrics thread in each of its stages. `stop()` is
four steps, because the thread looks at `running_` and `serverFd_` between them.

**Harness.** A script walks through a schedule of runs, and a run through a list
of steps (`strongSteps`, `httpSteps`, `matrixSteps`, `mediaSteps`,
`limitsSteps`): start a container, wait, probe, measure, write `result.json`,
write the cgroup samples, write `error.txt`. `Raise` is an exception at any of
them, or in the handler that was to write it down (`Thrown`); `sweepOf` and
`lastSweep` say what each script then stops and removes, the container started
last first (`latest`). A sweep raises when a docker call outlasts its timeout or
a log cannot be written (`SweepRaises`, `LastSweepRaises`), and what it had still
to do is not done. The clients run with `docker run --rm` are containers without
a name: when their command is timed out they stay (`HelperOutlives`) until they
end (`HelperEnds`), and the network with them.
What the client prints is one of `Outcomes`; `docker run` may fail after it
created the container, `docker stop` and `rm` may fail. The history `trouble`
names each container and network that a failure kept from being given back.

**Campaign.** The driver's program counter and its state dict, the two
`campaign.json` files, and the versions of harness, definition and image. Each
save is a step, and `Die` may come before, after or inside it. `validate_group`
and `conclusion` are the tests of `release_campaign.py:101-173, 274-280`;
`renderable`, `report`, `readme_headlines`, `readme_raises` and `CheckPasses`
those of the renderers. A renderer compares the files that were hashed, so
`fileChanged` does not see one that came later. `EditSource` and `EditEvidence`
are people, who replace a result, remove an `error.txt` or put a result or a
probe's answer where there was none.

**HttpPath.** Two clients and three adapters, in the pairs the scripts run: `go`
selects `httpbench.go` (`strong/run_http.py:109-116`) or `http_client.py`
(`investigation/run_http.py:83, 104`), and `reuse` the service that keeps its
origin connection and tries a fetch twice, which only httpbench meets. A client
thread, its connection and the adapter's handler are one worker; connections to
the origin hold requests not yet handled and answers not yet read, so that an
answer which comes late is there to be mistaken for another. The client loads the
objects (`preload`), warms up (httpbench), reads the count, measures and reads it
again. httpbench counts an error and goes on until its time is up; an exception
of `http_client.py` reaches its main thread through `pool.map`, in order, which
then cancels what is left and waits for the running threads (`SeeRaised`,
`Stopped`). A client that waits no longer leaves a handler behind (`lost`), which
goes on to fetch and fill (`RequestTimesOut`).

**BenchClient.** `probe` is the script of `verify` as data, played against a
server with any set of `Defects`; then one case of `run_matrix` with the pool of
threads (`Take`, `Get`, `Fill`, `Write`, `Bypass`, `Raises`) or a batch reader.
The server counts its gets and hits itself.

## 3. The runs

| Run | Instance | Shows |
|---|---|---|
| `window` | 2 callers, 2 calls each, 1 key, 3 seconds | no update is lost, nothing wraps (`CountersMoveExactly`), what was read under the mutex is still there when it is replaced (`ReadStillCurrent`), a running deadline never moves (`FixedWindow`) |
| `mixed` | the same, every operation, `cache_` null, allocated and reset | gets = hits + misses + lookups under way, but for the gets whose copy threw, which count as both (`GetAccounting`) |
| `linear` | 2 callers, 2 calls each, 2 keys | the locked operations implement AtomicCache, and every call returns, on every path |
| `glob` | keys over {a, b, *} and patterns over {a, b, *, ?}, up to 5 each | a match is always one; a key without a `*` that is refused does not match (`VerdictCorrect`); the loop stays within the product of the lengths (`WorkBounded`) |
| `walk` | 4 keys, 3 of them in one chain, 3 matching, 2 changes by others, page sizes -1, 1 and 5 | paging returns every matching key that stayed (`SteadyKeysReturned`), none twice (`NoKeyTwice`), except where others removed a cursor of its bucket, or the last one; and it ends; flush counts what it removed itself and leaves nothing that was there all along (`FlushExact`) |
| `service` | 2 threads, 3 RPCs in all: batches of 2 and 3 items and the unary RPCs but Increment (Incr takes its storing path, Decrement its refusal), on one key and the empty one | what a call answers was so; success and counts are its own effects; deadlines are those asked for |
| `stream` | 1 stream of 3 requests, buffers of 1, another thread that deletes | responses in order, one for one; a stream sees its own writes; a half-closed stream is answered to the end, a cancelled one frees its thread |
| `lifecycle` | 2 handlers, 3 calls, 2 scrapes, 2 signals | `cache_` outlives everybody inside; `main` returns with nothing running; with patient clients a signal ends the process |
| `campaign` | 3 groups (a headline one with a file tier, an overload probe, HTTP) or one of 5 jobs by hand that use each script and each kind of engine; 1 fault, 1 edit; release edition | a container that does not come back has a cause of its own (`NoForgottenContainer`); nothing is measured twice, skipped or mixed (`MeasuredOnce`, `FinishedMeansMeasured`, `OneHarness`); verdicts last and the copy lags (`VerdictsAreFinal`, `ResultsBehindRuns`); valid means measured (`ValidMeansMeasured`), and what is published rests on no recorded result that has changed (`CheckedClaimsBacked`); raw files and summary agree (`SummaryAgrees`); a driver that lives finishes |
| `http_path` | 1 object loaded or none, 1 warm-up request, a trace of 2, 2 threads, 1 fault, the three pairs of client and adapter | no body under another's name, in an answer or in the cache; the count is exact; the client's delta covers its misses and exceeds them by one for each thing that went wrong at most; the client ends |
| `client` | 2 objects, a trace of 4, batches of 3, 2 threads, 1 fault; 3 backends, every set of 7 defects | the probe refuses exactly the unsound servers (`ProbeIsRight`); hits, reads and batches agree with the server's counters (`ClientAgreesWithServer`); the origin load is the objects that were missing, each at most once for a thread (`OriginLoadExplained`); the client ends |

One run ends in a violation of a sentence the code prints:

| Run | The sentence | What the code does |
|---|---|---|
| `failed_group_claims` | "affected measurements are retained below and do not support claims" (`render_landscape_report.py:258-259`, `render_release_report.py:169`) | the comparisons and headlines are decided by the raw files alone; a group recorded as failed because its script was killed, or a `docker stop` timed out, after the last result was written is counted as failed and compared in the same report |

Other places where code and documentation differ came up while modelling and
have no run of their own:

* `getStats` loads the counters one by one while calls go on, so hits can exceed
  gets and `hit_rate` 1.0 (`CacheManager.cc:911-920`; the proto says 0.0 - 1.0).
* A SetNX whose store fails answers like a key that exists, with an empty value
  (`CacheManager.cc:457-461`; "The existing value if was_set=false").
* A `*` of the pattern that meets a `*` in the key is compared as a character,
  so some matching keys that contain a `*` are not found
  (`CacheManager.cc:778`). `VerdictCorrect` says how far this goes.
* The server's own Shutdown has no deadline, so an open Pipeline stream keeps
  the process (`server.cc:72`); the test that says otherwise gives one.
* `set` does not take the mutex, so a Set between the comparison and the store
  of a CompareAndSwap is overwritten (`tests/AtomicityTest.cc:704` records it;
  `proto/cache.proto:87` does not). It is why `ReadStillCurrent` has a premise.
* `has_more` of Scan means that the iterator has not ended, not that a matching
  key is left (`CacheManager.cc:867-871`, `proto/cache.proto:516`).
* A Set that fails in a stream leaves `PipelineResponse.error` empty
  (`CacheServiceImpl.cc:546-553`, `proto/cache.proto:670`).
* A result.json that is put where a run left none is not noticed by the hash
  check of the renderers, which looks at recorded files only
  (`render_release_report.py:156-159`): a group recorded as failed for its missing
  result can so be compared. `CheckedClaimsBacked` says how far this goes.
* A Scan whose cursor was removed and set again may skip or repeat keys that share
  its bucket, as `proto/cache.proto:492` ("Across pages, nothing is guaranteed")
  warns; `SteadyKeysReturned` and `NoKeyTwice` say how far this goes.
* A get whose value cannot be copied is counted as a hit and as a miss
  (`CacheManager.cc:269, 298`).
* One `read()` is taken for the whole HTTP request: a `GET /metrics` that is cut
  before the path ends is answered 404 (`MetricsServer.cc:116-126`).
* A key-value group that were both a headline and an overload probe could not be
  published: `validate_group` excuses its `error.txt`, the renderer's look at
  `failed_runs` does not (`release_campaign.py:159-169`,
  `render_release_report.py:74-76`). No group of `GROUPS` is both, and
  `SummaryAgrees` is checked for groups like those there are.

### Bounds, and why they are enough

`int64_t` is -4..3 and `uint32_t` 0..15 in the instances: small enough that two
calls reach both ends of the first and a TTL wraps the second. The definitions
only use the bounds' relation to each other, and the theorems are proved for all
of them. Two callers with two calls each give every pair of operations in every
interleaving, after a state that a call of each has prepared; the mutants that
drop the mutex, the check for overflow or the kept deadline are found within
these bounds. Three seconds let a deadline lie ahead, be the current second by
one clock only, and be past by both. For the matcher, five characters give a
pattern with two stars and a literal between and behind them, and a key that
sends it back more than once. A chain of three keys and a key behind it, with
pages of one to three, give a first, a middle and a last page, within a bucket
and across two; two changes let a cursor go and come back. A batch of three
items has an item before and after the one that is special, and with three RPCs
in all two others can come between its items. Symmetry is used for the callers
only, and not where liveness is checked. Every bound is a constant (`MaxCalls`,
`MaxTime`, `MaxKey`, `MaxPattern`, `MaxChanges`, `MaxRpcs`, `MaxFrames`,
`Window`, `MaxScrapes`, `MaxSignals`, `MaxFaults`, `MaxEdits`) and appears in a
guard.

In the benchmarks one fault is enough for each place where something can raise
or die to be tried once, with everything after it undisturbed; the theorems on
Campaign, HttpPath and BenchClient hold for any number. Three groups give a
driver that dies before, in and after a group a predecessor and a successor, and
every kind of verdict. The jobs by hand take the paths that no group of the
campaign takes (skipped runs, a refused Dragonfly budget, the earlier scripts).
A trace of four with a warm-up of one leaves three operations for two threads:
one object can be missed by both, fetched and asked for again. A batch size of
three cuts it into a full and a short batch. On the HTTP path the first load,
one warm-up request and two measured ones let a fetch that was left behind in
each phase be counted in the next, and two threads on one object meet.

### Fairness

A thread that can go on eventually does: weak fairness of each thread's step
(`FairSpecL`, `FairSpecP`, `ServerSpec`). `std::mutex` promises no turn to a
waiter; `EveryCallReturns` needs none because each caller makes finitely many
calls, and it shows that the mutex is always released, not that the lock is
fair. `FairSpecP` also assumes that a client reads the responses it is sent.
`PatientSpec` assumes that scrapers send what they began or hang up and that
every stream is ended some day (strong fairness: the handler leaves and enters
`Read` in between); without that a stream left open keeps the process.

`FairSpec` of Campaign lets a driver and a script that live go on: their docker
calls have timeouts and their waits deadlines (those of `run_limits.py` have
none; its docker calls are assumed to return). Nothing makes anybody resume a
campaign, so `FinishesUnlessDied` excepts a driver that was killed. In HttpPath
and BenchClient each thread that can run does, because every RPC and every HTTP
request has a timeout; evictions, faults, the end of a fetch by failure and the
end of httpbench's time (`TimeUp`; the trace ends anyway) are never forced.

## 4. The proofs

`CacheManagerProofs` begins with facts about the operators of CacheOps:

* `CheckedAddExact`, `CheckedNegateExact`: the tests of `checkedAdd` and
  `checkedNegate` refuse exactly what does not fit in an `int64_t`.
* `KeepDeadlineExact`: storing with what `keepDeadline` returns reproduces the
  item's expiry, with the subtraction and the addition modulo 2^32.
* `DecideType` and the lemmas before it: every operation decides within its type.

It proves, for any callers, keys and requests within
`RequestsOn(Keys)`, and with no bound on anything but what the assumptions say
(`MaxTime` below the modulus: the clock itself has not wrapped):

* `TypeCorrect`: `Spec => []TypeOK`. TypeOK alone is not inductive: `Find` uses
  the key of `req[t]`, `Link` stores `item[t]`. `TypeInv` adds `LocalsOK`: at
  each place in its code a thread has the request, the plan and the item that
  belong there.
* `MutexCorrect`: `Spec => []MutualExclusion`, from TypeInv: only `Lock` enters,
  and only the holder's `Return` unlocks.
* `AtomicReadModifyWrite`: if no caller uses `set` or `remove`
  (`OnlyProtocol`), `Spec => []ReadStillCurrent`. The invariant adds that a
  thread which holds a handle pins the item under its key, which is what keeps
  the evictor away; a key found empty stays so because nobody else can store
  and time only goes on.
* `WindowFixed`: if callers only use operations that keep deadlines
  (`OnlyKeepers`), `Spec => FixedWindow`. The invariant adds that a draft which
  continues a live item carries the creation time and TTL that rebuild its
  expiry, and that the item allocated from it has that expiry;
  `KeepDeadlineExact` closes the argument.
* `CountersMoveExactlyHolds`: under `OnlyProtocol`, `Spec => CountersMoveExactly`.
  A plan is made from the handle; that the handle is still what is in the cache
  when the plan is carried out is ReadInv, and that the planned number is the
  exact sum is `CheckedAddExact`. What has to be added is that the draft, and
  then the item allocated from it, still are those the request decided on.
* `GetAccountingHolds`: `Spec => []GetAccounting`, for all operations. The sum
  counts a set of callers, so that the invariant (`AccountInv`) also says that
  only finitely many are inside a lookup, and each step is shown to leave the
  set and the counters alone, or to add or remove one caller and move the
  counters to match; a copy that throws moves both counters and the history that
  counts it.

The two premises say what the code's protocol needs of its callers; without
the first, a Set in the middle of a CompareAndSwap is the counterexample.

The last part of `CacheManagerProofs` is the refinement: if callers use only the
operations that take the mutex (`OnlyLocked`), `SpecL => Linearizable`. Initial
states map to initial states; a step that stores, or that decides not to, is the
operation of AtomicCache, the steps before and after it are stutters, and
`Call`, `Return`, `Drop` and the clocks map to their own. `LinearInv` is ReadInv
(the operation acts on what it read), the order of the clocks, and that each
caller carries the decision its request and its handle lead to (`CarryOK`): the
atomic operation decides anew in the instant of the store.

`RpcProofs` proves of Pipeline `SpecP => Spec` (`StreamsAreCallers`): a stream
only calls CacheManager as any caller may, so that all of the above holds under
it. Then `ResponsesInOrder`, from the bookkeeping of the handler (`FrameInv`: it
is never ahead of what was sent, and only a valid request reaches the cache;
`OrderOK`: one response for each request read but the one in hand). And
`OwnWritesSeen`, whose invariant `OwnInv` follows a write from the request in
hand through CacheManager into the cache (`CarriedOK`, `OwnOK`): under a key
nobody else stores to, the item there is what the last answered Set of this
stream stored, unless the request in hand has taken effect already. An eviction
or the delete of somebody else makes it nothing, never another value; after a
cancellation nothing need be known, because nothing more is written.

Of CacheService it proves `SpecS => Spec` (`HandlersAreCallers`) for any messages and
number of gRPC threads, and then the three properties of the handlers. `HandlerInv`
says where a handler is: the calls it has still to make, the one it is in and the
results it has collected are together those of its message, in their order, so
that the call in hand is the one of the item after the last result. On it rest
three invariants, which are inductive only together (`ServiceInv`):

* `PlanOK`: a plan succeeds if its item is linked and fails if not, and the item of
  a Set or SetNX is made of the value and the TTL that were asked for. With the
  narrowing of a TTL (`ttlNarrowed`) that gives `DeadlineAsAsked`.
* `TruthOK`: the history of a key includes what a lookup finds now, what the handle
  was found as, and what each result collected so far says. Evictions, expiries
  and the stores of others only add to it. That gives `AnswersWereTrue`.
* `EffectOK`: what the call stored or removed is the number of its successful
  results, and one more if the call in hand has taken effect and not returned
  (`Landed`). That gives `AnswersTellEffects`; that `MultiSet` reports on each of the
  items it attempts needs a fact on its filter: the n-th item with a key is
  there for every n up to their number (`EveryRank`).

`GlobMatchProofs` proves `VerdictCorrect` and `WorkBounded`, for keys and patterns of
any length. The invariant of the first, `VerdictInv`, looks both ways. What has been
read is matched: by some choice of stops up to the position at hand, and by some
choice up to the most recent `*` (`Reached`; that one is needed to go back). And
nothing is passed over: if no `*` is in the key, every match of the whole has the
most recent `*` stop where it does now or later, and reaches the position at hand
no earlier (`Overlooked`). So an earlier `*` need never be reconsidered: a match in
which it stops later has the present one stop later, too. Neither direction needs
induction over the texts. For the second (`WorkSoFar`) each character the `*` has
swallowed has cost at most one pass over the pattern.

`CacheWalkProofs` proves `SteadyKeysReturned`, `NoKeyTwice` and `FlushExact` for any
table, chains, pattern, page sizes and changes by others. `WalkInv` relates pages,
iterator and chains. What is in the batch and still present is where it was when
the iterator entered, unless others removed it (`BatchTrue`). Once a page is past
its cursor, what was returned lies behind the iterator (`PassedOnce`,
`PageBehind`), and a steady matching key that was not returned lies ahead of it
(`LeftAhead`); before that, and between two pages, the same holds of the cursor
(`CursorMet`, which has it ahead unless it was removed). All of it excepts a key
that was removed, or that shares its bucket with a removed cursor. For a flush,
nothing steady lies behind the iterator (`FlushBehind`), and the cardinality of
the table balances (`Balance`).

`ServerProofs` proves `CacheOutlivesUsers` and `CleanExit`, for any number of
handlers, calls, scrapes and signals. `ServerInv` says by the place of `main` what
everybody else can be doing: no handler runs before the server serves or once it
is down, `Wait` is not passed before it is down (`Serving`); whoever is behind
`stop()` has joined the thread and closed its socket (`ThreadLife`); the cache is
there from `initialize` to `shutdown` (`CacheLife`).

`CampaignProofs` proves, for any groups, jobs and outcomes and without a bound on
faults and edits, `MeasuredOnce`, `FinishedMeansMeasured`, `OneHarness`,
`ResultsBehindRuns` and `VerdictsAreFinal`. None is inductive: what a driver
will do depends on what it has in memory, and what a later one will do on the
file. `CampaignInv` ties the three together: every state dict, however old, is
true of what was started (`Sound`); the file in `runs/` and the memory know of
everything that was started (`Current`), because `running` is saved before the
launch (`Saved`); memory keeps the verdicts of the file (`Kept`); the copy is
behind both (`Behind`); at most the group under way is marked running, and it
has been started only if the driver waits for it (`Group`); and before the first
save nothing has been started (`Beginning`). A file cut short is no state dict,
so nothing need be said of it, and nothing can be resumed from it.

About the scripts it proves `NoForgottenContainer`, for any schedule, any fault at
any step and any number of them. `SweepInv` says of every container of the script
under way that is not in `trouble` that some sweep still to come will take it
(`Owed`): that of its run, by name or by the list of what was seen to start, or
the last one; and of the script that its place, its list and its sweep belong
together (`JobOK`).

About the evidence it proves `ValidMeansMeasured`, `CheckedClaimsBacked` and
`SummaryAgrees`. `EvidenceInv` has three layers: while a script runs, the files of
its runs are true of what the client measured, a result is written only after the
last measurement of its run, and runs to come have no files (`Waiting`,
`FilesTrue`, `Remaining`); nobody launches, validates or edits while it does
(`JobIsWaitedFor`, `JobIsNotDone`), and a group that was not started has left
nothing (`Untouched`); and every verdict, in memory or in either file, is true of
the evidence it was given on (`Verdict`, `DictTrue`). Of evidence edited later
nothing is assumed: what a claim rests on follows from the hashes, file by file,
for the files that were recorded. It rests on
`CampaignInv` and `SweepInv`.

`HttpPathProofs` proves `BodyIsOfTheObject` and `EveryRequestCounted`, for any
objects, trace, threads and faults and with both services. `PathInv` says that a
connection in use holds nothing but the request or the answer its worker waits
for (`Connected`): a kept connection is clean because a fetch that failed never
comes back to its own. With `Fetched` (what was fetched is what was asked for)
that gives the first; `Counting` (the lock has one holder, and what it read is
still the count) gives the second. `DeltaCoversMisses` compares counts at two
moments; in between, `DeltaInv` keeps two balances. The count is at least the
first reading, the misses reported and the fetches counted and not yet reported
(`Lower`). And the count with what may still be counted (the requests in the
connections, `pending`, and the fetches that handlers the client has left may
still make, `stray`) is at most the first reading, the misses reported, the
fetches under way and one for each fault (`Upper`): a failed fetch, a fill that
raised or a request the client left can each have been counted without a result,
and each is one fault. `OneRequest` says that a connection has one request at
most, so that these sets count requests.

`BenchClientProofs` proves `ProbeIsRight`, `ClientAgreesWithServer` and
`OriginLoadExplained`, for any number of objects, requests, threads and faults, any
warm-up and batch size. `ClientInv` has a part for each stage of the client:

* `VerifyOK`: while nothing has disturbed the probe, what the server holds under its
  keys is determined by the position in the script and the defects (`ProbeState`),
  and the assertions passed so far have each excluded a defect (`excluded`). The
  step from one position to the next is proved position by position: an
  assertion fails if and only if the defect it is there for is present, because
  those that could mask it are excluded by then.
* `PoolOK`: an operation is handed out once, to one thread, and recorded once.
* `TallyOK`: the server's gets since the first statistics are the reads recorded
  and the threads on their way to the origin; its hits are those recorded. It is
  suspended once a call has raised, since nobody knows whether the server
  counted it; such a run is never reported.
* `OriginOK`, object by object: what of a cold object is in the cache came from the
  origin (`Fetched`); without faults, fetches done and under way are together at
  most the threads (`OnceEach`), because a thread misses only while nobody has
  filled. That a fill stays rests on `ProbeIsRight`: the probe has excluded a server
  that drops what is set.
* `BatchOK`: as long as no error was counted and the batch in hand is right, every
  read so far returned its object.

The assumptions on constants, which TLC evaluates in the runs, are: the names of
groups differ and each is a job (`GroupsAssumption`); no headline group is an
overload probe (`HeadlinesAssumption`; it is so of `GROUPS`, see section 3); jobs
have names, scripts and engines the scripts know (`JobsAssumption`); the HTTP
client drops nothing, having no schedule of arrivals (`OutcomesAssumption`); a
request of a stream is one of the operations of `PipelineRequest` and asks of
CacheManager something that it takes (`FramesAssumption`); a message has the items
its RPC takes, and asks with each that has a key something CacheManager takes
(`MessagesAssumption`); the pool of the trace client is finite (in
`ClientAssumption`); the mark of no call and no answer is neither
(`NobodyAssumption`); and the ranges of the numeric constants and the shapes of
requests and tables (`Int64Assumption`, `ModulusAssumption`, `NoItemAssumption`,
`CallersAssumption`, `RequestsAssumption`, `WalkAssumption`, `PipelineAssumption`,
`ServiceAssumption`, `GlobAssumption`, `ServerAssumption`, `FaultsAssumption`,
`HttpAssumption`).

Only model-checked:

* all liveness, and everything about fairness (outside the prover's reach):
  `ScanFinishes`, `EveryCallReturns`, `StreamEnds`, `StopsAfterSignal`,
  `FinishesUnlessDied`, and `ClientEnds` of both clients;
* that the code does not keep what the landscape report says of failed groups,
  which is a counterexample and not a theorem (`failed_group_claims`).

Every safety invariant and every action property of a passing run is a theorem.

## 5. Assumptions and what is left out

* `system_clock` does not go back, and CacheLib's second is the same or the one
  before.
* CacheLib never evicts an item somebody holds a handle to; any other item may
  go at any time, so slabs, LRU order and pools need no model.
* `find`, `remove` and `insertOrReplace` do not throw; an exception of
  `allocate` is a failed allocation. The copy of a value in `get` may throw; in
  `setNX`, `compareAndSwap`, `incr` and the other additions, which have no try
  around it, it does not.
* CacheLib's iterator holds the items of the bucket it is in; a replaced item
  leaves its key where it is in the chain, a new one may come anywhere in it.
* A file descriptor number is not reused between `close` and the last `accept`.
* The signal handler's use of locks inside folly and gRPC is not modelled:
  `Shutdown` is one step that starts the drain.
* Not modelled: the set-up of the NVM tier and the sizes `initialize` derives
  (configuration of CacheLib); message texts, logging, the Prometheus text and
  the figures `Stats` copies (formatting); the handlers of Scan and Flush, which
  only copy fields; the generated protocol code.

For the benchmarks:

* Docker, the servers and the clients are the environment of the scripts: a
  measurement has any of the outcomes the client can print. `main.go`, which
  shares the order warm-up, statistics, measurement, statistics with
  `client.py`, is not modelled itself.
* The harness is edited between drivers only; an edit under a running driver is
  not noticed by the code, and no property speaks of it.
* An outcome has no counters of the file tier; the renderer's demand for device
  reads in the hybrid group (`render_release_report.py:86-87`) is left out.
* In HttpPath a body is known by its object and the choice of keys is a trace. A
  connection of `http_client.py` that timed out cannot be used again
  (`http.client` refuses), and Go's transport may send a request again that went
  out on a kept connection and got no answer. A client that timed out never gets
  the late answer: its connection is closed. The 404, 413 and 502 answers, and a
  response that breaks off in its body, are left out.
* Of `client.py`, `limits`, which only records what it is told, the fields
  `stats` picks out, and latencies are left out.
* Not modelled: `flash_smoke.py` (it needs the NVM tier); `render.py`,
  `report.py`, `aggregate.py`, `social_preview.py`, the `summarize` scripts but
  for which runs they take, `render_report_tables.py`, and the text and figures
  of the reports (one pass from files to text, with no state to get wrong).

## 6. Plan

Done, in this order: CounterText, CacheLib, CacheOps, CacheManager and its
runs; AtomicCache and CacheLinear; GlobMatch; CacheWalk; the theorems on the
operations; Server; RpcMessages, CacheService; Pipeline; Harness and Campaign;
HttpPath; BenchClient; the theorems on Campaign and HttpPath; those on Server,
CacheWalk, Pipeline and the refinement; accounting and exact counters; the sweep
and the evidence; the matcher; the handlers; the trace client.

Next, the model: Scan and Flush as handlers of CacheService, on CacheWalk; the
hybrid tier as CacheManager sees it (`find` that misses in DRAM and is answered
later from flash, and `initialize`'s fall-back to DRAM).
