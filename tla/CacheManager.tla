--------------------------- MODULE CacheManager ---------------------------
(***************************************************************************)
(* CacheManager.cc under concurrent callers: the gRPC worker threads call  *)
(* its operations at will.  A step of a thread is one call into CacheLib,  *)
(* one acquisition of atomicOpMutex_, one clock reading or one atomic      *)
(* counter, so every interleaving of the operations is a behaviour.        *)
(*                                                                         *)
(* The read-modify-write operations hold atomicOpMutex_ from before their  *)
(* find until they return.  get, set, remove, exists, getTTL and getStats  *)
(* do not take it.  CacheLib evicts and reaps items at any time, but never *)
(* one that somebody holds a handle to.                                    *)
(*                                                                         *)
(* There are two clocks.  CacheLib reads time(), whose second may lag that *)
(* of system_clock, which CacheManager reads, for a moment after a         *)
(* boundary.                                                               *)
(***************************************************************************)
EXTENDS CacheOps, Sequences, FiniteSets

CONSTANTS
    Threads,    \* the callers
    Keys,
    Requests,   \* what they may ask for
    NoThread,   \* an unlocked mutex
    NoRequest,  \* an idle caller
    MaxCalls,   \* bound: calls of one thread
    MaxTime     \* bound: the last second of system_clock

ASSUME CallersAssumption ==
    /\ NoThread \notin Threads
    /\ NoRequest \notin Requests
    /\ MaxCalls \in Nat
    /\ MaxTime \in 1..(Modulus - 1)

ASSUME RequestsAssumption == Requests \subseteq RequestsOn(Keys)

VARIABLES
    phase,      \* cache_: null ("new"), allocated ("up"), reset ("down")
    store,      \* the item under each key, expired or not
    pins,       \* the threads that hold a handle to the item under a key
    mutex,      \* the holder of atomicOpMutex_
    sysNow,     \* the second of system_clock
    libNow,     \* the second of CacheLib's time()
    counters,   \* getCount_, hitCount_, missCount_, setCount_, deleteCount_,
                \* and, a history, the copies of get that threw
    calls,      \* calls each thread has made
    pc,         \* where each thread is in its call
    req,        \* the arguments of the call
    handle,     \* what its find returned
    plan,       \* what it decided, its result included
    item,       \* the item it allocated and has not linked yet
    snap        \* the counters getStats has loaded so far

clocks == <<sysNow, libNow>>
locals == <<calls, pc, req, handle, plan, item, snap>>
vars   == <<phase, store, pins, mutex, clocks, counters, locals>>

\* The order in which getStats loads the counters.
LoadOrder == <<"get", "hit", "miss", "set", "delete">>

Counters == {"get", "hit", "miss", "set", "delete", "threw"}

PCs == {"idle", "lock", "find", "decide", "allocate", "link", "remove",
        "load", "reply"}

Init ==
    /\ phase = "new"
    /\ store = [k \in Keys |-> NoItem]
    /\ pins = [k \in Keys |-> {}]
    /\ mutex = NoThread
    /\ sysNow = 1
    /\ libNow = 1
    /\ counters = [c \in Counters |-> 0]
    /\ calls = [t \in Threads |-> 0]
    /\ pc = [t \in Threads |-> "idle"]
    /\ req = [t \in Threads |-> NoRequest]
    /\ handle = [t \in Threads |-> NoItem]
    /\ plan = [t \in Threads |-> Reply(NoResult)]
    /\ item = [t \in Threads |-> NoItem]
    /\ snap = [t \in Threads |-> <<>>]

Goto(t, where) == pc' = [pc EXCEPT ![t] = where]

Conclude(t, decision) == plan' = [plan EXCEPT ![t] = decision]

Count(c) == counters' = [counters EXCEPT ![c] = @ + 1]

-----------------------------------------------------------------------------
\* initialize(): cache_ is allocated and the pool added.
Initialize ==
    /\ phase = "new"
    /\ phase' = "up"
    /\ UNCHANGED <<store, pins, mutex, clocks, counters, locals>>

\* shutdown(): cache_.reset() frees every item.  The server calls it when
\* Wait has returned and the metrics thread has been joined.
Shutdown ==
    /\ phase = "up"
    /\ \A t \in Threads : pc[t] = "idle"
    /\ phase' = "down"
    /\ store' = [k \in Keys |-> NoItem]
    /\ UNCHANGED <<pins, mutex, clocks, counters, locals>>

-----------------------------------------------------------------------------
\* The first thing each operation counts, before it looks at cache_.
countedAtEntry(r) ==
    CASE r.op = "get"    -> {"get"}
      [] r.op = "remove" -> {"delete"}
      [] OTHER           -> {}

\* get and set count even without a cache; a get is then a miss.
countedUnready(r) ==
    CASE r.op = "get"    -> {"get", "miss"}
      [] r.op = "set"    -> {"set"}
      [] r.op = "remove" -> {"delete"}
      [] OTHER           -> {}

CountAll(cs) == counters' = [c \in Counters |-> IF c \in cs THEN counters[c] + 1
                                                ELSE counters[c]]

\* Where an operation goes when there is a cache.
entry(r) ==
    CASE r.op \in LockedOps -> "lock"
      [] r.op = "set"       -> "allocate"
      [] r.op = "remove"    -> "remove"
      [] r.op = "getStats"  -> "load"
      [] OTHER              -> "find"

Begin(t, r) ==
    /\ pc[t] = "idle"
    /\ calls[t] < MaxCalls
    /\ calls' = [calls EXCEPT ![t] = @ + 1]
    /\ req' = [req EXCEPT ![t] = r]
    /\ UNCHANGED <<phase, store, pins, mutex, clocks, handle, item, snap>>

\* A call that passes its first checks.
Call(t, r) ==
    /\ Begin(t, r)
    /\ phase = "up"
    /\ ~negationRefused(r)
    /\ Goto(t, entry(r))
    /\ Conclude(t, IF r.op = "set" THEN set(r) ELSE plan[t])
    /\ CountAll(countedAtEntry(r))

\* A call with cache_ null.
CallUnready(t, r) ==
    /\ Begin(t, r)
    /\ phase # "up"
    /\ ~negationRefused(r)
    /\ Goto(t, "reply")
    /\ Conclude(t, Reply(notReady(r)))
    /\ CountAll(countedUnready(r))

\* decrement of a delta that has no negation: refused before anything else.
CallRefused(t, r) ==
    /\ Begin(t, r)
    /\ negationRefused(r)
    /\ Goto(t, "reply")
    /\ Conclude(t, Reply(Refused("Cannot be negated")))
    /\ UNCHANGED counters

-----------------------------------------------------------------------------
\* A lock() that does not wait: what losing the mutex would mean.
LockWithoutWaiting(t) ==
    /\ pc[t] = "lock"
    /\ mutex' = t
    /\ Goto(t, "find")
    /\ UNCHANGED <<phase, store, pins, clocks, counters, calls, req, handle,
                   plan, item, snap>>

\* std::lock_guard<std::mutex> lock(atomicOpMutex_)
Lock(t) ==
    /\ pc[t] = "lock"
    /\ mutex = NoThread
    /\ mutex' = t
    /\ Goto(t, "find")
    /\ UNCHANGED <<phase, store, pins, clocks, counters, calls, req, handle,
                   plan, item, snap>>

\* cache_->find(key): a handle to a live item pins it.
Find(t) ==
    /\ pc[t] = "find"
    /\ LET k == req[t].key
           h == find(store[k], libNow)
       IN  /\ handle' = [handle EXCEPT ![t] = h]
           /\ pins' = [pins EXCEPT ![k] = IF h = NoItem THEN @ ELSE @ \cup {t}]
    /\ Goto(t, "decide")
    /\ UNCHANGED <<phase, store, mutex, clocks, counters, calls, req, plan,
                   item, snap>>

\* A lookup that counts nothing when it finds nothing.
countedOnlyIfFound(t) ==
    IF req[t].op = "get" /\ handle[t] # NoItem THEN {"hit"} ELSE {}

\* A get that found something counts a hit, one that did not a miss.
countedByDecide(t) ==
    IF req[t].op # "get" THEN {}
    ELSE IF handle[t] = NoItem THEN {"miss"} ELSE {"hit"}

\* A compareAndSwap that finds another value than expected, and tries again.
DecideOrRetry(t) ==
    /\ pc[t] = "decide"
    /\ LET d == decide(req[t], handle[t], sysNow)
           again == req[t].op = "compareAndSwap" /\ ~d.write
       IN  /\ Conclude(t, IF again THEN plan[t] ELSE d)
           /\ Goto(t, IF again THEN "find" ELSE IF d.write THEN "allocate"
                      ELSE "reply")
    /\ CountAll(countedByDecide(t))
    /\ UNCHANGED <<phase, store, pins, mutex, clocks, calls, req, handle, item,
                   snap>>

\* The rest of an operation up to its reply or its store; system_clock is
\* read here.
Decide(t) ==
    /\ pc[t] = "decide"
    /\ LET d == decide(req[t], handle[t], sysNow)
       IN  /\ Conclude(t, d)
           /\ Goto(t, IF d.write THEN "allocate" ELSE "reply")
    /\ CountAll(countedByDecide(t))
    /\ UNCHANGED <<phase, store, pins, mutex, clocks, calls, req, handle, item,
                   snap>>

\* get, when the copy of the value it found throws: the hit is counted already,
\* and the catch counts a miss as well.
CopyThrows(t) ==
    /\ pc[t] = "decide"
    /\ req[t].op = "get"
    /\ handle[t] # NoItem
    /\ Conclude(t, getThrew)
    /\ Goto(t, "reply")
    /\ CountAll({"hit", "miss", "threw"})
    /\ UNCHANGED <<phase, store, pins, mutex, clocks, calls, req, handle, item,
                   snap>>

\* cache_->remove(key): unlinks the item, expired or not.
Remove(t) ==
    /\ pc[t] = "remove"
    /\ LET k == req[t].key
       IN  /\ Conclude(t, Reply([NoResult EXCEPT !.ok = store[k] # NoItem]))
           /\ store' = [store EXCEPT ![k] = NoItem]
           /\ pins' = [pins EXCEPT ![k] = {}]
    /\ Goto(t, "reply")
    /\ UNCHANGED <<phase, mutex, clocks, counters, calls, req, handle, item,
                   snap>>

\* setWithCreationTime up to its allocation, which CacheLib stamps.
Allocate(t) ==
    /\ pc[t] = "allocate"
    /\ plan[t].draft.val.kind # "large"
    /\ item' = [item EXCEPT ![t] = allocate(plan[t].draft.val, plan[t].draft.ttl,
                                            plan[t].draft.created, libNow)]
    /\ Goto(t, "link")
    /\ Count("set")
    /\ UNCHANGED <<phase, store, pins, mutex, clocks, calls, req, handle, plan,
                   snap>>

\* setWithCreationTime when the value is too large, or when CacheLib has no
\* memory to give or throws: it returns false and the operation its failure.
AllocateFails(t) ==
    /\ pc[t] = "allocate"
    /\ Conclude(t, Reply(plan[t].fail))
    /\ Goto(t, "reply")
    /\ Count("set")
    /\ UNCHANGED <<phase, store, pins, mutex, clocks, calls, req, handle, item,
                   snap>>

\* cache_->insertOrReplace(handle): the item takes the place of what is there.
Link(t) ==
    /\ pc[t] = "link"
    /\ store' = [store EXCEPT ![req[t].key] = item[t]]
    /\ pins' = [pins EXCEPT ![req[t].key] = {}]
    /\ item' = [item EXCEPT ![t] = NoItem]
    /\ Goto(t, "reply")
    /\ UNCHANGED <<phase, mutex, clocks, counters, calls, req, handle, plan,
                   snap>>

\* getStats loads one counter.
Load(t) ==
    /\ pc[t] = "load"
    /\ LET s == Append(snap[t], counters[LoadOrder[Len(snap[t]) + 1]])
       IN  /\ snap' = [snap EXCEPT ![t] = s]
           /\ Goto(t, IF Len(s) = Len(LoadOrder) THEN "reply" ELSE "load")
    /\ UNCHANGED <<phase, store, pins, mutex, clocks, counters, calls, req,
                   handle, plan, item>>

\* The call returns: its handle is dropped, and its lock_guard unlocks.
Return(t) ==
    /\ pc[t] = "reply"
    /\ Goto(t, "idle")
    /\ mutex' = IF mutex = t THEN NoThread ELSE mutex
    /\ pins' = [k \in Keys |-> pins[k] \ {t}]
    /\ req' = [req EXCEPT ![t] = NoRequest]
    /\ handle' = [handle EXCEPT ![t] = NoItem]
    /\ Conclude(t, Reply(NoResult))
    /\ snap' = [snap EXCEPT ![t] = <<>>]
    /\ UNCHANGED <<phase, store, clocks, counters, calls, item>>

-----------------------------------------------------------------------------
\* CacheLib evicts the item under k, or reaps it once expired.
Drop(k) ==
    /\ phase = "up"
    /\ store[k] # NoItem
    /\ pins[k] = {}
    /\ store' = [store EXCEPT ![k] = NoItem]
    /\ UNCHANGED <<phase, pins, mutex, clocks, counters, locals>>

\* system_clock passes a second boundary; time() follows a moment later.
Tick ==
    /\ sysNow = libNow
    /\ sysNow < MaxTime
    /\ sysNow' = sysNow + 1
    /\ UNCHANGED <<phase, store, pins, mutex, libNow, counters, locals>>

CatchUp ==
    /\ libNow < sysNow
    /\ libNow' = sysNow
    /\ UNCHANGED <<phase, store, pins, mutex, sysNow, counters, locals>>

\* Every caller has had its last answer and the cache is shut down.
Done ==
    /\ phase = "down"
    /\ sysNow = MaxTime
    /\ \A t \in Threads : pc[t] = "idle" /\ calls[t] = MaxCalls
    /\ UNCHANGED vars

Step(t) ==
    \/ Lock(t) \/ Find(t) \/ Decide(t) \/ CopyThrows(t) \/ Remove(t)
    \/ Allocate(t) \/ AllocateFails(t) \/ Link(t) \/ Load(t) \/ Return(t)

Invoke(t) ==
    \E r \in Requests : Call(t, r) \/ CallUnready(t, r) \/ CallRefused(t, r)

Next ==
    \/ Initialize
    \/ Shutdown
    \/ \E t \in Threads : Invoke(t) \/ Step(t)
    \/ \E k \in Keys : Drop(k)
    \/ Tick
    \/ CatchUp
    \/ Done

Spec == Init /\ [][Next]_vars

-----------------------------------------------------------------------------
\* Types of the whole state: what every proof below starts from.
TypeOK ==
    /\ phase \in {"new", "up", "down"}
    /\ store \in [Keys -> ItemOrNone]
    /\ pins \in [Keys -> SUBSET Threads]
    /\ mutex \in Threads \cup {NoThread}
    /\ sysNow \in 1..MaxTime
    /\ libNow \in 1..MaxTime
    /\ counters \in [Counters -> Nat]
    /\ calls \in [Threads -> Nat]
    /\ pc \in [Threads -> PCs]
    /\ req \in [Threads -> Requests \cup {NoRequest}]
    /\ handle \in [Threads -> ItemOrNone]
    /\ plan \in [Threads -> Decision]
    /\ item \in [Threads -> ItemOrNone]
    /\ snap \in [Threads -> Seq(Nat)]

\* t is between the lock and the return of a read-modify-write operation.
InCritical(t) ==
    /\ pc[t] \in {"find", "decide", "allocate", "link"}
    /\ req[t].op \in LockedOps

\* Two read-modify-write operations are never inside their critical sections
\* together, whatever key each is about: atomicOpMutex_ covers them from their
\* find to their store (CacheManager.cc:444, 474, 561, 630, 711).
MutualExclusion == \A t \in Threads : InCritical(t) => mutex = t

\* The callers leave the unlocked writers alone.
OnlyProtocol == \A r \in Requests : r.op \notin {"set", "remove"}

\* When callers use only the operations that take atomicOpMutex_ (and reads),
\* what such an operation read is still what the cache holds when it decides,
\* allocates and stores: the item it has a handle to is still the one under
\* the key, and if it found nothing the key still has nothing live.  Evictions
\* and the reaper run all the while.
ReadStillCurrent ==
    \A t \in Threads :
        InCritical(t) /\ pc[t] # "find" =>
            LET now == store[req[t].key]
            IN  IF handle[t] = NoItem THEN find(now, libNow) = NoItem
                                      ELSE now = handle[t]

\* t stores its item in this step.
Links(t) == pc[t] = "link" /\ pc'[t] = "reply"

\* The number a counter operation adds, in unbounded arithmetic.
exactAddend(r) == IF r.op = "decrement" THEN -stepOf(r) ELSE stepOf(r)

\* A counter operation that takes effect moves the counter that is in the
\* cache AT THAT MOMENT by exactly its delta, in unbounded arithmetic, and
\* never a value that is not a number: no update is lost, none is applied
\* twice, nothing wraps (CacheManager.cc:51-69, 504-513, 601-608).  It starts
\* from 0 only when nothing is there or, for incr, when the window is over.
CountersMoveExactly ==
    [][\A t \in Threads :
          Links(t) /\ req[t].op \in AddOps \cup {"incr"} =>
             LET old   == store[req[t].key]
                 over  == \/ find(old, libNow) = NoItem
                          \/ req[t].op = "incr" /\ ~stillLive(old, sysNow)
                 moved == store'[req[t].key].val
                 base  == moved.n - exactAddend(req[t])
             IN  /\ moved.kind = "canon" /\ moved.n \in Int64
                 /\ \/ over /\ base = 0
                    \/ /\ old # NoItem
                       /\ old.val.kind \in {"canon", "padded"}
                       /\ base = old.val.n]_vars

\* The callers use only operations that leave a running deadline alone.
OnlyKeepers ==
    \A r \in Requests :
        \/ r.op \in {"incr", "setNX", "get", "exists", "getTTL", "getStats"}
        \/ r.op \in AddOps /\ r.ttl = 0
        \/ r.op = "compareAndSwap" /\ r.keep

\* The fixed window: as long as callers use only incr, increment and decrement
\* without a TTL, and compareAndSwap with keepTtl, the absolute expiry of a key
\* whose deadline has not come never changes, however the two clocks disagree
\* when the item is stored again (CacheManager.cc:497-500, 590-596, 652-656).
FixedWindow ==
    [][\A k \in Keys :
          /\ store[k] # NoItem
          /\ store'[k] # NoItem
          /\ stillLive(store[k], sysNow)
          => store'[k].expiry = store[k].expiry]_vars

\* Every lookup is counted once as a get and once as a hit or a miss, but for
\* those whose copy threw, which count as both: hits and misses exceed the gets
\* by exactly those, and fall short of them by the lookups under way, whatever
\* the callers do at once (CacheManager.cc:254-302).
GetAccounting ==
    counters["get"] + counters["threw"] =
        counters["hit"] + counters["miss"]
        + Cardinality({t \in Threads : /\ pc[t] \in {"find", "decide"}
                                       /\ req[t].op = "get"})

\* Every call returns: the mutex is released on every path, early returns
\* included, and nobody waits for somebody who waits (CacheManager.cc:434-734).
EveryCallReturns ==
    \A t \in Threads : pc[t] # "idle" ~> pc[t] = "idle"
=============================================================================
