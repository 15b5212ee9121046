------------------------ MODULE CacheManagerProofs ------------------------
(***************************************************************************)
(* Theorems about CacheManager for any number of threads, keys, requests   *)
(* and calls, and any width of int64_t and uint32_t.                       *)
(***************************************************************************)
EXTENDS CacheManager, CacheLinear, SequenceTheorems, FiniteSetTheorems, TLAPS

-----------------------------------------------------------------------------
\* The arithmetic and the decisions of CacheOps: what the checked sums return, that
\* storing an item again keeps its deadline, and that decisions are well typed.

\* checkedAdd accepts a sum exactly when it fits in an int64_t, and then
\* returns it (CacheManager.cc:51-60): it neither wraps nor refuses too much.
THEOREM CheckedAddExact ==
    ASSUME NEW base \in Int64, NEW delta \in Int64
    PROVE  /\ checkedAdd(base, delta).ok <=> base + delta \in Int64
           /\ checkedAdd(base, delta).ok => checkedAdd(base, delta).out = base + delta
           /\ checkedAdd(base, delta).ok \in BOOLEAN
           /\ checkedAdd(base, delta).out \in Int
  BY Int64Assumption DEF checkedAdd, WrapInt64, Int64

\* checkedNegate refuses exactly the one int64_t without a negation
\* (CacheManager.cc:63-69).
THEOREM CheckedNegateExact ==
    ASSUME NEW delta \in Int64
    PROVE  /\ checkedNegate(delta).ok <=> -delta \in Int64
           /\ checkedNegate(delta).ok => checkedNegate(delta).out = -delta
           /\ checkedNegate(delta).ok \in BOOLEAN
           /\ checkedNegate(delta).out \in Int
  <1>1. /\ -delta \in Int
        /\ WrapInt64(-delta) \in Int
        /\ delta # Int64Min <=> -delta \in Int64
        /\ -delta \in Int64 => WrapInt64(-delta) = -delta
    BY Int64Assumption DEF WrapInt64, Int64
  <1>2. /\ checkedNegate(delta).ok = (delta # Int64Min)
        /\ checkedNegate(delta).out = WrapInt64(-delta)
    BY DEF checkedNegate
  <1> QED
    BY <1>1, <1>2

\* uint32_t sums and differences stay in the type.
LEMMA U32Closed ==
    ASSUME NEW a \in U32, NEW b \in U32
    PROVE  AddU32(a, b) \in U32 /\ SubU32(a, b) \in U32
  BY ModulusAssumption DEF U32, AddU32, SubU32

\* An item as CacheLib stamps it: it was created at a second other than 0, and
\* its expiry is not that second.
Stamped(it) == it.created # 0 /\ it.expiry # it.created

\* Allocation yields stamped items, whatever the TTL, wrap-around included.
LEMMA AllocateStamps ==
    ASSUME NEW val \in Text, NEW ttl \in U32, NEW created \in U32,
           NEW now \in U32 \ {0}
    PROVE  /\ allocate(val, ttl, created, now) \in Item
           /\ Stamped(allocate(val, ttl, created, now))
  <1> DEFINE c == IF created = 0 THEN now ELSE created
  <1>1. c \in U32 \ {0}
    OBVIOUS
  <1>2. AddU32(c, ttl) \in U32
    BY <1>1, U32Closed
  <1>3. ttl # 0 => AddU32(c, ttl) # c
    BY <1>1, ModulusAssumption DEF AddU32, U32
  <1>4. 0 \in U32
    BY ModulusAssumption DEF U32
  <1> QED
    BY <1>1, <1>2, <1>3, <1>4 DEF allocate, Item, Stamped

\* An item stored again under keepDeadline has the absolute expiry it had,
\* whatever second CacheLib's clock shows by then and even if the sums wrapped
\* around 2^32 (CacheManager.cc:497-500, 595-596, 652-656).
THEOREM KeepDeadlineExact ==
    ASSUME NEW it \in Item, Stamped(it), NEW val, NEW now
    PROVE  LET d == keepDeadline(it)
           IN  allocate(val, d.ttl, d.created, now).expiry = it.expiry
  <1>1. it.created \in U32 /\ it.expiry \in U32
    BY DEF Item
  <1>2. it.created # 0 /\ it.expiry # it.created
    BY DEF Stamped
  <1>3. SubU32(it.expiry, it.created) # 0
    BY <1>1, <1>2, ModulusAssumption DEF SubU32, U32
  <1>4. AddU32(it.created, SubU32(it.expiry, it.created)) = it.expiry
    BY <1>1, ModulusAssumption DEF AddU32, SubU32, U32
  <1> QED
    BY <1>1, <1>2, <1>3, <1>4 DEF keepDeadline, allocate

-----------------------------------------------------------------------------
\* Every result the operations build is a Result.
LEMMA ResultTypes ==
    /\ NoResult \in Result
    /\ \A why \in Reasons : Refused(why) \in Result
    /\ NoDraft \in Draft
  <1>1. EmptyText \in Text
    BY DEF EmptyText, Text, Kinds
  <1>2. "" \in Reasons
    BY DEF Reasons
  <1>0. 0 \in Int
    OBVIOUS
  <1>3. NoResult \in Result
    BY <1>0, <1>1, <1>2, Zenon DEF NoResult, Result
  <1>4. \A why \in Reasons : Refused(why) \in Result
    BY <1>3 DEF Refused, Result
  <1>5. NoDraft \in Draft
    BY <1>1, ModulusAssumption DEF NoDraft, Draft, U32
  <1> QED
    BY <1>3, <1>4, <1>5

\* A reply without a store is a decision.
LEMMA ReplyType ==
    ASSUME NEW res \in Result
    PROVE  Reply(res) \in Decision
  BY ResultTypes DEF Reply, Decision

\* A reply after a store is a decision.
LEMMA StoreThenType ==
    ASSUME NEW draft \in Draft, NEW res \in Result, NEW fail \in Result
    PROVE  StoreThen(draft, res, fail) \in Decision
  BY DEF StoreThen, Decision

\* The step of an addition is an int64_t, the negation of decrement's included.
LEMMA AddendType ==
    ASSUME NEW r \in RequestsOn(Keys)
    PROVE  stepOf(r) \in Int64 /\ addend(r) \in Int
  <1>1. r.delta \in Int64
    BY DEF RequestsOn
  <1>2. stepOf(r) \in Int64
    BY <1>1, Int64Assumption DEF stepOf, Int64
  <1>3. checkedNegate(stepOf(r)).out \in Int
    BY <1>2, CheckedNegateExact
  <1> QED
    BY <1>2, <1>3 DEF addend, Int64

\* The addition stores an int64_t or refuses.
LEMMA AddAndStoreType ==
    ASSUME NEW r \in RequestsOn(Keys), NEW base \in Int,
           NEW ttl \in U32, NEW created \in U32, NEW ttlSet \in BOOLEAN
    PROVE  addAndStore(base, r, [ttl |-> ttl, created |-> created], ttlSet)
                \in Decision
  <1> DEFINE sum == checkedAdd(base, addend(r))
  <1>1. sum.out \in Int
    <2>1. addend(r) \in Int
      BY AddendType
    <2> QED
      BY <2>1, Int64Assumption DEF checkedAdd, WrapInt64
  <1> DEFINE draft == [val |-> toString(sum.out), ttl |-> ttl, created |-> created]
             res   == [NoResult EXCEPT !.ok = TRUE, !.n = sum.out, !.ttlSet = ttlSet]
  <1>2. draft \in Draft
    BY <1>1 DEF Draft, toString, Text, Kinds
  <1>3. res \in Result
    BY <1>1, ResultTypes DEF Result
  <1>4. Refused("Would overflow") \in Result /\ Refused("Failed to store") \in Result
    BY ResultTypes DEF Reasons
  <1>5. Reply(Refused("Would overflow")) \in Decision
    BY <1>4, ReplyType
  <1>6. StoreThen(draft, res, Refused("Failed to store")) \in Decision
    BY <1>2, <1>3, <1>4, StoreThenType
  <1> QED
    BY <1>5, <1>6 DEF addAndStore

\* The operations that reach decide: the ones that call find first.
FindOps == {"get", "exists", "getTTL"} \cup LockedOps

\* Every decision is well typed: a draft's TTL and creation time are uint32_t,
\* and the result is one the operation can return.
LEMMA DecideType ==
    ASSUME NEW r \in RequestsOn(Keys), r.op \in FindOps,
           NEW h \in ItemOrNone, NEW now \in Int
    PROVE  decide(r, h, now) \in Decision
  <1>1. r.val \in Text /\ r.expected \in Text /\ r.ttl \in U32 /\ 0 \in U32
    BY ModulusAssumption DEF RequestsOn, U32
  <1>2. h # NoItem => /\ h \in Item
                      /\ h.val \in Text /\ h.created \in U32 /\ h.expiry \in U32
    BY DEF ItemOrNone, Item
  <1>3. h # NoItem => remainingTtl(h, now) \in Int
    BY <1>2 DEF remainingTtl, U32
  <1>4. h # NoItem => /\ keepDeadline(h) = [ttl     |-> keepDeadline(h).ttl,
                                            created |-> keepDeadline(h).created]
                      /\ keepDeadline(h).ttl \in U32
                      /\ keepDeadline(h).created \in U32
    BY <1>1, <1>2, U32Closed DEF keepDeadline
  <1>5. newDeadline(r.ttl) = [ttl |-> r.ttl, created |-> 0]
    BY DEF newDeadline
  <1>6. \A res \in Result : Reply(res) \in Decision
    BY ReplyType
  <1>7. \A why \in Reasons : Reply(Refused(why)) \in Decision
    BY <1>6, ResultTypes
  <1>8. [val |-> r.val, ttl |-> r.ttl, created |-> 0] \in Draft
    BY <1>1 DEF Draft
  <1>9. h # NoItem => parseWholeInt64(h.val).out \in Int
    BY <1>2 DEF parseWholeInt64, Text, Int64
  <1>10. \A b \in BOOLEAN : addAndStore(0, r, newDeadline(r.ttl), b) \in Decision
    BY <1>1, <1>5, AddAndStoreType
  <1>11. h # NoItem =>
            /\ addAndStore(parseWholeInt64(h.val).out, r, newDeadline(r.ttl), FALSE)
                  \in Decision
            /\ addAndStore(parseWholeInt64(h.val).out, r, keepDeadline(h), FALSE)
                  \in Decision
    BY <1>1, <1>4, <1>5, <1>9, AddAndStoreType
  <1>12. CASE r.op = "get"
    <2>1. h # NoItem => [NoResult EXCEPT !.ok = TRUE, !.val = h.val,
                                         !.n = remainingTtl(h, now)] \in Result
      BY <1>2, <1>3, ResultTypes DEF Result
    <2>2. get(r, h, now) \in Decision
      BY <2>1, <1>6, ResultTypes DEF get
    <2> QED
      BY <1>12, <2>2 DEF decide, AddOps
  <1>13. CASE r.op = "exists"
    <2>1. [NoResult EXCEPT !.ok = h # NoItem] \in Result
      BY ResultTypes DEF Result
    <2> QED
      BY <1>13, <2>1, <1>6 DEF decide, exists, AddOps
  <1>14. CASE r.op = "getTTL"
    <2>1. [NoResult EXCEPT !.n = IF h = NoItem THEN -2 ELSE remainingTtl(h, now)]
              \in Result
      BY <1>3, ResultTypes DEF Result
    <2> QED
      BY <1>14, <2>1, <1>6 DEF decide, getTTL, AddOps
  <1>15. CASE r.op = "setNX"
    <2>1. [NoResult EXCEPT !.ok = TRUE] \in Result
      BY ResultTypes DEF Result
    <2>2. h # NoItem => [NoResult EXCEPT !.val = h.val] \in Result
      BY <1>2, ResultTypes DEF Result
    <2>3. setNX(r, h, now) \in Decision
      BY <2>1, <2>2, <1>6, <1>8, ResultTypes, StoreThenType DEF setNX
    <2> QED
      BY <1>15, <2>3 DEF decide, AddOps
  <1>16. CASE r.op \in AddOps
    <2>1. atomicAddValue(r, h, now) \in Decision
      BY <1>7, <1>10, <1>11 DEF atomicAddValue, Reasons
    <2> QED
      BY <1>16, <2>1 DEF decide, AddOps
  <1>17. CASE r.op = "incr"
    <2>1. incr(r, h, now) \in Decision
      BY <1>7, <1>10, <1>11 DEF incr, Reasons
    <2> QED
      BY <1>17, <2>1 DEF decide, AddOps
  <1>18. CASE r.op = "compareAndSwap"
    <2>1. h # NoItem => [NoResult EXCEPT !.val = h.val] \in Result
      BY <1>2, ResultTypes DEF Result
    <2>2. [NoResult EXCEPT !.ok = TRUE, !.val = r.val] \in Result
      BY <1>1, ResultTypes DEF Result
    <2>3. h # NoItem => [val |-> r.val, ttl |-> keepDeadline(h).ttl,
                         created |-> keepDeadline(h).created] \in Draft
      BY <1>1, <1>4 DEF Draft
    <2>4. [val |-> r.val, ttl |-> newDeadline(r.ttl).ttl,
           created |-> newDeadline(r.ttl).created] \in Draft
      BY <1>1 DEF Draft, newDeadline
    <2>5. compareAndSwap(r, h, now) \in Decision
      <3>1. CASE h = NoItem \/ h.val # r.expected
        BY <3>1, <2>1, <1>6, ResultTypes DEF compareAndSwap
      <3>2. CASE h # NoItem /\ h.val = r.expected /\ r.keep
        BY <3>2, <2>1, <2>2, <2>3, StoreThenType DEF compareAndSwap
      <3>3. CASE h # NoItem /\ h.val = r.expected /\ ~r.keep
        BY <3>3, <2>1, <2>2, <2>4, StoreThenType DEF compareAndSwap
      <3> QED
        BY <3>1, <3>2, <3>3
    <2> QED
      BY <1>18, <2>5 DEF decide, AddOps
  <1>19. CASE r.op = "touch"
    <2>1. h # NoItem => [val |-> h.val, ttl |-> r.ttl, created |-> 0] \in Draft
      BY <1>1, <1>2 DEF Draft
    <2>2. [NoResult EXCEPT !.ok = TRUE] \in Result
      BY ResultTypes DEF Result
    <2>3. touch(r, h, now) \in Decision
      BY <2>1, <2>2, <1>7, ResultTypes, StoreThenType DEF touch, Reasons
    <2> QED
      BY <1>19, <2>3 DEF decide, AddOps
  <1> QED
    BY <1>12, <1>13, <1>14, <1>15, <1>16, <1>17, <1>18, <1>19
    DEF FindOps, LockedOps

-----------------------------------------------------------------------------
\* The operations under concurrent callers.

\* What a thread's place in its call says of its arguments and locals.
LocalsOK ==
    \A t \in Threads :
        /\ pc[t] # "idle" => req[t] \in Requests
        /\ pc[t] \in {"find", "decide"} => req[t].op \in FindOps
        /\ pc[t] = "lock" => req[t].op \in LockedOps
        /\ pc[t] \in {"allocate", "link"} => req[t].op \in LockedOps \cup {"set"}
        /\ pc[t] = "remove" => req[t].op = "remove"
        /\ pc[t] = "link" => item[t] \in Item
        /\ pc[t] \notin {"load", "reply"} => snap[t] = <<>>
        /\ pc[t] = "load" => Len(snap[t]) < 5

TypeInv == TypeOK /\ LocalsOK

-----------------------------------------------------------------------------
\* Only the read-modify-write operations decide to store.
LEMMA OnlyLockedOpsStore ==
    ASSUME NEW r, NEW h, NEW now, r.op \in FindOps, decide(r, h, now).write
    PROVE  r.op \in LockedOps
  <1>1. CASE r.op = "get"
    BY <1>1 DEF decide, get, Reply, AddOps
  <1>2. CASE r.op = "exists"
    BY <1>2 DEF decide, exists, Reply, AddOps
  <1>3. CASE r.op = "getTTL"
    BY <1>3 DEF decide, getTTL, Reply, AddOps
  <1> QED
    BY <1>1, <1>2, <1>3 DEF FindOps

\* The answer of a manager without a cache is a result.
LEMMA NotReadyType ==
    ASSUME NEW r
    PROVE  notReady(r) \in Result
  <1>1. [NoResult EXCEPT !.n = -2] \in Result
    BY ResultTypes DEF Result
  <1>2. Refused("Not initialized") \in Result
    BY ResultTypes DEF Reasons
  <1> QED
    BY <1>1, <1>2, ResultTypes DEF notReady

\* What set decides is a decision.
LEMMA SetType ==
    ASSUME NEW r \in Requests
    PROVE  set(r) \in Decision
  <1>1. r.val \in Text /\ r.ttl \in U32 /\ 0 \in U32
    BY RequestsAssumption, ModulusAssumption DEF RequestsOn, U32
  <1>2. [val |-> r.val, ttl |-> r.ttl, created |-> 0] \in Draft
    BY <1>1 DEF Draft
  <1>3. [NoResult EXCEPT !.ok = TRUE] \in Result
    BY ResultTypes DEF Result
  <1> QED
    BY <1>2, <1>3, ResultTypes, StoreThenType DEF set

\* CountAll keeps the counters in their type.
LEMMA CountAllType ==
    ASSUME TypeOK, NEW cs, CountAll(cs)
    PROVE  counters' \in [Counters -> Nat]
  BY DEF TypeOK, CountAll

\* The initial state has the types, locals included.
LEMMA InitTypeInv == Init => TypeInv
  <1> SUFFICES ASSUME Init PROVE TypeInv
    OBVIOUS
  <1>1. Reply(NoResult) \in Decision
    BY ResultTypes, ReplyType
  <1>2. TypeOK
    BY <1>1, CallersAssumption
    DEF Init, TypeOK, ItemOrNone, PCs
  <1>3. LocalsOK
    BY DEF Init, LocalsOK
  <1> QED
    BY <1>2, <1>3 DEF TypeInv

\* What the three ways to begin a call have in common.
LEMMA BeginType ==
    ASSUME TypeInv, NEW t \in Threads, NEW r \in Requests, NEW where \in PCs,
           Begin(t, r), Goto(t, where),
           counters' \in [Counters -> Nat], plan' \in [Threads -> Decision]
    PROVE  TypeOK'
  <1>1. calls' \in [Threads -> Nat]
    BY DEF Begin, TypeInv, TypeOK
  <1>2. pc' \in [Threads -> PCs]
    BY DEF Goto, TypeInv, TypeOK
  <1>3. req' \in [Threads -> Requests \cup {NoRequest}]
    BY DEF Begin, TypeInv, TypeOK
  <1> QED
    BY <1>1, <1>2, <1>3 DEF Begin, TypeInv, TypeOK, clocks

\* Entering an operation keeps the types (Call).
LEMMA CallTypeInv ==
    ASSUME TypeInv, NEW t \in Threads, NEW r \in Requests, Call(t, r)
    PROVE  TypeInv'
  <1>1. counters' \in [Counters -> Nat]
    BY CountAllType DEF TypeInv, Call
  <1>2. plan' \in [Threads -> Decision]
    BY SetType DEF TypeInv, Call, Conclude, TypeOK
  <1>3. entry(r) \in PCs
    BY DEF entry, PCs
  <1>4. TypeOK'
    BY <1>1, <1>2, <1>3, BeginType DEF Call
  <1>5. r.op \in Ops
    BY RequestsAssumption DEF RequestsOn
  <1>6. LocalsOK'
    <2> SUFFICES ASSUME NEW u \in Threads PROVE LocalsOK!(u)'
      BY DEF LocalsOK
    <2> QED
      BY <1>5
      DEF Call, Begin, Goto, TypeInv, TypeOK, LocalsOK, entry, Ops, PlainOps,
          LockedOps, AddOps, FindOps
  <1> QED
    BY <1>4, <1>6 DEF TypeInv

\* So does the early return of an operation without cache_.
LEMMA CallUnreadyTypeInv ==
    ASSUME TypeInv, NEW t \in Threads, NEW r \in Requests,
           CallUnready(t, r) \/ CallRefused(t, r)
    PROVE  TypeInv'
  <1>1. counters' \in [Counters -> Nat]
    BY CountAllType DEF TypeInv, CallUnready, CallRefused, TypeOK
  <1>2. Reply(notReady(r)) \in Decision
    BY NotReadyType, ReplyType
  <1>3. Reply(Refused("Cannot be negated")) \in Decision
    BY ResultTypes, ReplyType DEF Reasons
  <1>4. plan' \in [Threads -> Decision]
    BY <1>2, <1>3 DEF TypeInv, CallUnready, CallRefused, Conclude, TypeOK
  <1>5. Begin(t, r) /\ Goto(t, "reply")
    BY DEF CallUnready, CallRefused
  <1>6. TypeOK'
    BY <1>1, <1>4, <1>5, BeginType DEF PCs
  <1>7. LocalsOK'
    <2> SUFFICES ASSUME NEW u \in Threads PROVE LocalsOK!(u)'
      BY DEF LocalsOK
    <2> QED
      BY <1>5 DEF Begin, Goto, TypeInv, TypeOK, LocalsOK
  <1> QED
    BY <1>6, <1>7 DEF TypeInv

\* The lookup: the handle a caller holds is an item of the cache.
LEMMA FindTypeInv ==
    ASSUME TypeInv, NEW t \in Threads, Find(t)
    PROVE  TypeInv'
  <1>1. req[t] \in Requests /\ req[t].op \in FindOps
    BY DEF Find, TypeInv, LocalsOK
  <1>2. req[t].key \in Keys
    BY <1>1, RequestsAssumption DEF RequestsOn
  <1> DEFINE k == req[t].key
             h == find(store[k], libNow)
  <1>3. h \in ItemOrNone
    BY <1>2 DEF TypeInv, TypeOK, find, ItemOrNone
  <1>4. handle' \in [Threads -> ItemOrNone] /\ pins' \in [Keys -> SUBSET Threads]
    BY <1>2, <1>3 DEF TypeInv, TypeOK, Find
  <1>5. pc' \in [Threads -> PCs]
    BY DEF TypeInv, TypeOK, Find, Goto, PCs
  <1>6. TypeOK'
    BY <1>4, <1>5 DEF TypeInv, TypeOK, Find, clocks
  <1>7. LocalsOK'
    <2> SUFFICES ASSUME NEW u \in Threads PROVE LocalsOK!(u)'
      BY DEF LocalsOK
    <2> QED
      BY <1>1 DEF Find, Goto, TypeInv, TypeOK, LocalsOK
  <1> QED
    BY <1>6, <1>7 DEF TypeInv

\* The decision taken from the handle: result and store are typed (DecideType).
LEMMA DecideTypeInv ==
    ASSUME TypeInv, NEW t \in Threads, Decide(t)
    PROVE  TypeInv'
  <1> DEFINE d == decide(req[t], handle[t], sysNow)
  <1>1. req[t] \in Requests /\ req[t].op \in FindOps
    BY DEF Decide, TypeInv, LocalsOK
  <1>2. d \in Decision
    <2>1. handle[t] \in ItemOrNone /\ sysNow \in Int
      BY DEF TypeInv, TypeOK
    <2> QED
      BY <1>1, <2>1, RequestsAssumption, DecideType
  <1>3. counters' \in [Counters -> Nat]
    BY CountAllType DEF TypeInv, Decide
  <1>4. plan' \in [Threads -> Decision]
    BY <1>2 DEF Decide, Conclude, TypeInv, TypeOK
  <1>5. pc' \in [Threads -> PCs]
    BY DEF Decide, Goto, TypeInv, TypeOK, PCs
  <1>6. TypeOK'
    BY <1>3, <1>4, <1>5 DEF Decide, TypeInv, TypeOK, clocks
  <1>7. d.write => req[t].op \in LockedOps
    BY <1>1, OnlyLockedOpsStore
  <1>8. LocalsOK'
    <2> SUFFICES ASSUME NEW u \in Threads PROVE LocalsOK!(u)'
      BY DEF LocalsOK
    <2>1. pc' = [pc EXCEPT ![t] = IF d.write THEN "allocate" ELSE "reply"]
      BY DEF Decide, Goto
    <2> HIDE DEF d
    <2> QED
      BY <1>1, <1>7, <2>1 DEF Decide, TypeInv, TypeOK, LocalsOK
  <1> QED
    BY <1>6, <1>8 DEF TypeInv

\* A copy that throws: a result without a value, and three counters.
LEMMA CopyThrowsTypeInv ==
    ASSUME TypeInv, NEW t \in Threads, CopyThrows(t)
    PROVE  TypeInv'
  <1>1. getThrew \in Decision
    <2>1. [NoResult EXCEPT !.ok = TRUE] \in Result
      BY ResultTypes DEF Result
    <2> QED
      BY <2>1, ReplyType DEF getThrew
  <1>2. counters' \in [Counters -> Nat]
    BY CountAllType DEF TypeInv, CopyThrows
  <1>3. plan' \in [Threads -> Decision]
    BY <1>1 DEF CopyThrows, Conclude, TypeInv, TypeOK
  <1>4. pc' = [pc EXCEPT ![t] = "reply"] /\ pc' \in [Threads -> PCs]
    BY DEF CopyThrows, Goto, TypeInv, TypeOK, PCs
  <1>5. TypeOK'
    BY <1>2, <1>3, <1>4 DEF CopyThrows, TypeInv, TypeOK, clocks
  <1>6. LocalsOK'
    <2> SUFFICES ASSUME NEW u \in Threads PROVE LocalsOK!(u)'
      BY DEF LocalsOK
    <2> QED
      BY <1>4 DEF CopyThrows, TypeInv, TypeOK, LocalsOK
  <1> QED
    BY <1>5, <1>6 DEF TypeInv

\* An allocation stamps the item with creation and expiry times.
LEMMA AllocateTypeInv ==
    ASSUME TypeInv, NEW t \in Threads, Allocate(t)
    PROVE  TypeInv'
  <1> DEFINE it == allocate(plan[t].draft.val, plan[t].draft.ttl,
                            plan[t].draft.created, libNow)
  <1>1. it \in Item
    <2>1. plan[t].draft \in Draft
      BY DEF TypeInv, TypeOK, Decision
    <2>2. libNow \in U32 \ {0}
      BY CallersAssumption, ModulusAssumption DEF TypeInv, TypeOK, U32
    <2> QED
      BY <2>1, <2>2, AllocateStamps DEF Draft
  <1> HIDE DEF it
  <1>2. item' = [item EXCEPT ![t] = it]
    BY DEF Allocate, it
  <1>3. item' \in [Threads -> ItemOrNone]
    BY <1>1, <1>2 DEF TypeInv, TypeOK, ItemOrNone
  <1>4. counters' \in [Counters -> Nat]
    BY DEF Allocate, Count, TypeInv, TypeOK, Counters
  <1>5. pc' \in [Threads -> PCs]
    BY DEF Allocate, Goto, TypeInv, TypeOK, PCs
  <1>6. TypeOK'
    BY <1>3, <1>4, <1>5 DEF Allocate, TypeInv, TypeOK, clocks
  <1>7. LocalsOK'
    <2> SUFFICES ASSUME NEW u \in Threads PROVE LocalsOK!(u)'
      BY DEF LocalsOK
    <2> QED
      BY <1>1, <1>2 DEF Allocate, Goto, TypeInv, TypeOK, LocalsOK
  <1> QED
    BY <1>6, <1>7 DEF TypeInv

\* A failed allocation leaves a typed result.
LEMMA AllocateFailsTypeInv ==
    ASSUME TypeInv, NEW t \in Threads, AllocateFails(t)
    PROVE  TypeInv'
  <1>1. plan[t].fail \in Result
    BY DEF TypeInv, TypeOK, Decision
  <1>2. Reply(plan[t].fail) \in Decision
    BY <1>1, ReplyType
  <1>3. plan' \in [Threads -> Decision]
    BY <1>2 DEF AllocateFails, Conclude, TypeInv, TypeOK
  <1>4. counters' \in [Counters -> Nat]
    BY DEF AllocateFails, Count, TypeInv, TypeOK, Counters
  <1>5. pc' \in [Threads -> PCs]
    BY DEF AllocateFails, Goto, TypeInv, TypeOK, PCs
  <1>6. TypeOK'
    BY <1>3, <1>4, <1>5 DEF AllocateFails, TypeInv, TypeOK, clocks
  <1>7. LocalsOK'
    <2> SUFFICES ASSUME NEW u \in Threads PROVE LocalsOK!(u)'
      BY DEF LocalsOK
    <2> QED
      BY DEF AllocateFails, Goto, TypeInv, TypeOK, LocalsOK
  <1> QED
    BY <1>6, <1>7 DEF TypeInv

\* remove: the key has no item after it.
LEMMA RemoveTypeInv ==
    ASSUME TypeInv, NEW t \in Threads, Remove(t)
    PROVE  TypeInv'
  <1>1. req[t].key \in Keys
    BY RequestsAssumption DEF Remove, TypeInv, LocalsOK, RequestsOn
  <1>2. [NoResult EXCEPT !.ok = store[req[t].key] # NoItem] \in Result
    BY ResultTypes DEF Result
  <1>3. plan' \in [Threads -> Decision]
    BY <1>2, ReplyType DEF Remove, Conclude, TypeInv, TypeOK
  <1>4. store' \in [Keys -> ItemOrNone] /\ pins' \in [Keys -> SUBSET Threads]
    BY <1>1 DEF Remove, TypeInv, TypeOK, ItemOrNone
  <1>5. pc' \in [Threads -> PCs]
    BY DEF Remove, Goto, TypeInv, TypeOK, PCs
  <1>6. TypeOK'
    BY <1>3, <1>4, <1>5 DEF Remove, TypeInv, TypeOK, clocks
  <1>7. LocalsOK'
    <2> SUFFICES ASSUME NEW u \in Threads PROVE LocalsOK!(u)'
      BY DEF LocalsOK
    <2> QED
      BY DEF Remove, Goto, TypeInv, TypeOK, LocalsOK
  <1> QED
    BY <1>6, <1>7 DEF TypeInv

\* insertOrReplace: what is linked is the caller's stamped item.
LEMMA LinkTypeInv ==
    ASSUME TypeInv, NEW t \in Threads, Link(t)
    PROVE  TypeInv'
  <1>1. req[t].key \in Keys
    BY RequestsAssumption DEF Link, TypeInv, LocalsOK, RequestsOn
  <1>2. store' \in [Keys -> ItemOrNone] /\ pins' \in [Keys -> SUBSET Threads]
    BY <1>1 DEF Link, TypeInv, TypeOK
  <1>3. item' \in [Threads -> ItemOrNone]
    BY DEF Link, TypeInv, TypeOK, ItemOrNone
  <1>4. pc' \in [Threads -> PCs]
    BY DEF Link, Goto, TypeInv, TypeOK, PCs
  <1>5. TypeOK'
    BY <1>2, <1>3, <1>4 DEF Link, TypeInv, TypeOK, clocks
  <1>6. LocalsOK'
    <2> SUFFICES ASSUME NEW u \in Threads PROVE LocalsOK!(u)'
      BY DEF LocalsOK
    <2> QED
      BY DEF Link, Goto, TypeInv, TypeOK, LocalsOK
  <1> QED
    BY <1>5, <1>6 DEF TypeInv

\* getStats: the counters loaded so far are a partial snapshot.
LEMMA LoadTypeInv ==
    ASSUME TypeInv, NEW t \in Threads, Load(t)
    PROVE  TypeInv'
  <1> DEFINE s == Append(snap[t], counters[LoadOrder[Len(snap[t]) + 1]])
  <1>1. snap[t] \in Seq(Nat) /\ Len(snap[t]) \in Nat /\ Len(snap[t]) < 5
    BY DEF Load, TypeInv, TypeOK, LocalsOK
  <1>2. LoadOrder[Len(snap[t]) + 1] \in Counters
    <2>1. Len(snap[t]) + 1 \in 1..5
      BY <1>1
    <2> QED
      BY <2>1 DEF LoadOrder, Counters
  <1>3. counters[LoadOrder[Len(snap[t]) + 1]] \in Nat
    BY <1>2 DEF TypeInv, TypeOK
  <1>4. s \in Seq(Nat) /\ Len(s) = Len(snap[t]) + 1
    BY <1>1, <1>3
  <1> HIDE DEF s
  <1>5. snap' = [snap EXCEPT ![t] = s]
        /\ pc' = [pc EXCEPT ![t] = IF Len(s) = 5 THEN "reply" ELSE "load"]
    BY DEF Load, Goto, LoadOrder, s
  <1>6. snap' \in [Threads -> Seq(Nat)] /\ pc' \in [Threads -> PCs]
    BY <1>4, <1>5 DEF TypeInv, TypeOK, PCs
  <1>7. TypeOK'
    BY <1>6 DEF Load, TypeInv, TypeOK, clocks
  <1>8. LocalsOK'
    <2> SUFFICES ASSUME NEW u \in Threads PROVE LocalsOK!(u)'
      BY DEF LocalsOK
    <2> QED
      BY <1>1, <1>4, <1>5 DEF Load, TypeInv, TypeOK, LocalsOK
  <1> QED
    BY <1>7, <1>8 DEF TypeInv

\* The return, with the mutex released on the way.
LEMMA ReturnTypeInv ==
    ASSUME TypeInv, NEW t \in Threads, Return(t)
    PROVE  TypeInv'
  <1>1. Reply(NoResult) \in Decision
    BY ResultTypes, ReplyType
  <1>2. plan' \in [Threads -> Decision]
    BY <1>1 DEF Return, Conclude, TypeInv, TypeOK
  <1>3. pins' \in [Keys -> SUBSET Threads]
    BY DEF Return, TypeInv, TypeOK
  <1>4. mutex' \in Threads \cup {NoThread}
    BY DEF Return, TypeInv, TypeOK
  <1>5. /\ req' \in [Threads -> Requests \cup {NoRequest}]
        /\ handle' \in [Threads -> ItemOrNone]
        /\ pc' \in [Threads -> PCs]
    BY DEF Return, Goto, TypeInv, TypeOK, ItemOrNone, PCs
  <1>6. snap' \in [Threads -> Seq(Nat)]
    BY DEF Return, TypeInv, TypeOK
  <1>7. TypeOK'
    BY <1>2, <1>3, <1>4, <1>5, <1>6 DEF Return, TypeInv, TypeOK, clocks
  <1>8. LocalsOK'
    <2> SUFFICES ASSUME NEW u \in Threads PROVE LocalsOK!(u)'
      BY DEF LocalsOK
    <2> QED
      BY DEF Return, Goto, TypeInv, TypeOK, LocalsOK
  <1> QED
    BY <1>7, <1>8 DEF TypeInv

\* The inductive step, action by action.
LEMMA NextTypeInv == TypeInv /\ [Next]_vars => TypeInv'
  <1> SUFFICES ASSUME TypeInv, [Next]_vars PROVE TypeInv'
    OBVIOUS
  <1>1. CASE Initialize
    BY <1>1 DEF Initialize, TypeInv, TypeOK, LocalsOK, clocks, locals
  <1>2. CASE Shutdown
    BY <1>2 DEF Shutdown, TypeInv, TypeOK, LocalsOK, ItemOrNone, clocks, locals
  <1>3. ASSUME NEW t \in Threads, Invoke(t) PROVE TypeInv'
    BY <1>3, CallTypeInv, CallUnreadyTypeInv DEF Invoke
  <1>4. ASSUME NEW t \in Threads, Step(t) PROVE TypeInv'
    <2>1. CASE Lock(t)
      BY <2>1 DEF Lock, Goto, TypeInv, TypeOK, LocalsOK, clocks, PCs, FindOps
    <2> QED
      BY <1>4, <2>1, FindTypeInv, DecideTypeInv, RemoveTypeInv, AllocateTypeInv,
         AllocateFailsTypeInv, LinkTypeInv, LoadTypeInv, ReturnTypeInv,
         CopyThrowsTypeInv
      DEF Step
  <1>5. ASSUME NEW k \in Keys, Drop(k) PROVE TypeInv'
    BY <1>5 DEF Drop, TypeInv, TypeOK, LocalsOK, ItemOrNone, clocks, locals
  <1>6. CASE Tick
    BY <1>6, CallersAssumption DEF Tick, TypeInv, TypeOK, LocalsOK, locals
  <1>7. CASE CatchUp
    BY <1>7 DEF CatchUp, TypeInv, TypeOK, LocalsOK, locals
  <1>8. CASE UNCHANGED vars
    BY <1>8 DEF vars, TypeInv, TypeOK, LocalsOK, clocks, locals
  <1> QED
    BY <1>1, <1>2, <1>3, <1>4, <1>5, <1>6, <1>7, <1>8 DEF Next, Done

\* The specification is well typed: every reachable state of CacheManager, for
\* any threads, keys and requests, satisfies TypeOK; what each thread's place
\* in its call implies of its locals (LocalsOK) is what makes it inductive.
THEOREM TypeCorrect == Spec => []TypeOK
  <1>1. TypeInv => TypeOK
    BY DEF TypeInv
  <1> QED
    BY <1>1, InitTypeInv, NextTypeInv, PTL DEF Spec

\* The inductive invariant itself, for the theorems that need the locals: what each
\* caller holds in its local variables fits the place in the code where it is.
THEOREM TypeInvariance == Spec => []TypeInv
  BY InitTypeInv, NextTypeInv, PTL DEF Spec
-----------------------------------------------------------------------------
\* Only Lock enters a critical section, and only when nobody is in one.
LEMMA NextMutualExclusion ==
    ASSUME TypeInv, MutualExclusion, [Next]_vars
    PROVE  MutualExclusion'
  <1>0. NoThread \notin Threads
    BY CallersAssumption
  <1>1. CASE Initialize \/ Tick \/ CatchUp \/ Done \/ UNCHANGED vars
    BY <1>1 DEF Initialize, Tick, CatchUp, Done, vars, locals, MutualExclusion,
                InCritical
  <1>2. CASE Shutdown
    BY <1>2 DEF Shutdown, locals, MutualExclusion, InCritical
  <1>3. ASSUME NEW k \in Keys, Drop(k) PROVE MutualExclusion'
    BY <1>3 DEF Drop, locals, MutualExclusion, InCritical
  <1>4. ASSUME NEW t \in Threads, NEW r \in Requests,
               Call(t, r) \/ CallUnready(t, r) \/ CallRefused(t, r)
        PROVE  MutualExclusion'
    <2> SUFFICES ASSUME NEW u \in Threads, InCritical(u)' PROVE mutex' = u
      BY DEF MutualExclusion
    <2>1. r.op \in Ops
      BY RequestsAssumption DEF RequestsOn
    <2>2. u # t
      BY <1>4, <2>1
      DEF Call, CallUnready, CallRefused, Begin, Goto, entry, TypeInv, TypeOK,
          InCritical, Ops, PlainOps, LockedOps, AddOps
    <2>3. InCritical(u) /\ mutex' = mutex
      BY <1>4, <2>2
      DEF Call, CallUnready, CallRefused, Begin, Goto, TypeInv, TypeOK, InCritical
    <2> QED
      BY <2>3 DEF MutualExclusion
  <1>5. ASSUME NEW t \in Threads, Step(t) PROVE MutualExclusion'
    <2> SUFFICES ASSUME NEW u \in Threads, InCritical(u)' PROVE mutex' = u
      BY DEF MutualExclusion
    <2>1. CASE Lock(t)
      <3>1. u # t => InCritical(u)
        BY <2>1 DEF Lock, Goto, TypeInv, TypeOK, InCritical
      <3> QED
        BY <2>1, <3>1, <1>0 DEF Lock, MutualExclusion
    <2>2. CASE Return(t)
      <3>1. u # t /\ InCritical(u)
        BY <2>2 DEF Return, Goto, TypeInv, TypeOK, InCritical
      <3> QED
        BY <2>2, <3>1 DEF Return, MutualExclusion
    <2>3. CASE Find(t) \/ Decide(t) \/ CopyThrows(t) \/ Remove(t) \/ Allocate(t)
               \/ AllocateFails(t) \/ Link(t) \/ Load(t)
      <3>1. mutex' = mutex /\ req' = req
        BY <2>3 DEF Find, Decide, CopyThrows, Remove, Allocate, AllocateFails, Link, Load
      <3>2. pc'[u] \in {"find", "decide", "allocate", "link"}
               => pc[u] \in {"find", "decide", "allocate", "link"}
        BY <2>3 DEF Find, Decide, CopyThrows, Remove, Allocate, AllocateFails, Link, Load,
                    Goto, TypeInv, TypeOK
      <3> QED
        BY <3>1, <3>2 DEF InCritical, MutualExclusion
    <2> QED
      BY <1>5, <2>1, <2>2, <2>3 DEF Step
  <1> QED
    BY <1>1, <1>2, <1>3, <1>4, <1>5 DEF Next, Invoke

\* atomicOpMutex_ serialises the critical sections of all read-modify-write
\* operations (CacheManager.cc:444-734), for any number of callers.
THEOREM MutexCorrect == Spec => []MutualExclusion
  <1>1. Init => MutualExclusion
    BY DEF Init, MutualExclusion, InCritical
  <1> QED
    BY <1>1, TypeInvariance, NextMutualExclusion, PTL DEF Spec

-----------------------------------------------------------------------------
\* A read-modify-write operation that found an item still pins it.
HandlesPin ==
    \A t \in Threads :
        InCritical(t) /\ pc[t] # "find" /\ handle[t] # NoItem
            => t \in pins[req[t].key]

\* ReadStillCurrent is inductive only together with the mutex, which keeps
\* other writers out, and the pins, which keep the evictor out.
ReadInv == TypeInv /\ MutualExclusion /\ HandlesPin /\ ReadStillCurrent

\* Both halves of the invariant, for one thread.
ReadOK(t) ==
    InCritical(t) /\ pc[t] # "find" =>
        /\ handle[t] # NoItem => /\ t \in pins[req[t].key]
                                 /\ store[req[t].key] = handle[t]
        /\ handle[t] = NoItem => find(store[req[t].key], libNow) = NoItem

\* The read invariant is one condition per caller.
LEMMA ReadInvIff ==
    ReadInv <=> TypeInv /\ MutualExclusion /\ \A t \in Threads : ReadOK(t)
  BY DEF ReadInv, HandlesPin, ReadStillCurrent, ReadOK

\* The key of a caller in a locked operation is a key of the cache.
LEMMA KeyOf ==
    ASSUME TypeInv, NEW t \in Threads, pc[t] # "idle"
    PROVE  req[t] \in Requests /\ req[t].key \in Keys
  BY RequestsAssumption DEF TypeInv, LocalsOK, RequestsOn

\* An expired item stays expired, and no item stays no item.
LEMMA FindNothingLater ==
    ASSUME NEW it \in ItemOrNone, NEW m \in Int, NEW n \in Int, m =< n,
           find(it, m) = NoItem
    PROVE  find(it, n) = NoItem
  BY NoItemAssumption DEF find, isExpired, ItemOrNone, Item, U32

\* A thread none of whose own state changed, under a store and a clock that
\* changed only in ways it tolerates.
LEMMA ReadOKStable ==
    ASSUME TypeInv, NEW u \in Threads, ReadOK(u),
           pc'[u] = pc[u], req'[u] = req[u], handle'[u] = handle[u],
           InCritical(u) => /\ store'[req[u].key] = store[req[u].key]
                            /\ u \in pins[req[u].key] => u \in pins'[req[u].key],
           libNow' \in Int, libNow =< libNow'
    PROVE  ReadOK(u)'
  <1> SUFFICES ASSUME InCritical(u), pc[u] # "find"
               PROVE  /\ handle[u] # NoItem => /\ u \in pins'[req[u].key]
                                               /\ store'[req[u].key] = handle[u]
                      /\ handle[u] = NoItem
                            => find(store'[req[u].key], libNow') = NoItem
    BY DEF ReadOK, InCritical
  <1>1. req[u].key \in Keys
    BY KeyOf DEF InCritical
  <1>2. store[req[u].key] \in ItemOrNone /\ libNow \in Int
    BY <1>1 DEF TypeInv, TypeOK
  <1> QED
    BY <1>2, FindNothingLater DEF ReadOK

\* No step outdates what a caller in its critical section has read: the others are
\* outside theirs, and only locked operations change a value.
LEMMA NextReadOK ==
    ASSUME OnlyProtocol, ReadInv, [Next]_vars, NEW u \in Threads
    PROVE  ReadOK(u)'
  <1>0. TypeInv /\ MutualExclusion /\ ReadOK(u) /\ libNow \in Int
    BY ReadInvIff DEF TypeInv, TypeOK
  <1>1. CASE Initialize \/ Tick \/ Done \/ UNCHANGED vars
    BY <1>0, <1>1
    DEF Initialize, Tick, Done, vars, clocks, locals, ReadOK, InCritical
  <1>2. CASE Shutdown
    BY <1>0, <1>2 DEF Shutdown, locals, ReadOK, InCritical
  <1>3. ASSUME NEW k \in Keys, Drop(k) PROVE ReadOK(u)'
    <2>1. k # req[u].key => store'[req[u].key] = store[req[u].key]
      BY <1>0, <1>3 DEF Drop, TypeInv, TypeOK
    <2>2. k = req[u].key => store'[req[u].key] = NoItem /\ pins[req[u].key] = {}
      BY <1>0, <1>3 DEF Drop, TypeInv, TypeOK
    <2>3. find(NoItem, libNow) = NoItem
      BY DEF find
    <2> QED
      BY <1>0, <1>3, <2>1, <2>2, <2>3 DEF Drop, clocks, locals, ReadOK, InCritical
  <1>4. CASE CatchUp
    <2>1. libNow' \in Int /\ libNow =< libNow'
      BY <1>0, <1>4 DEF CatchUp, TypeInv, TypeOK
    <2> QED
      BY <1>0, <1>4, <2>1, ReadOKStable DEF CatchUp, locals
  <1>5. ASSUME NEW t \in Threads, NEW r \in Requests,
               Call(t, r) \/ CallUnready(t, r) \/ CallRefused(t, r)
        PROVE  ReadOK(u)'
    <2>1. /\ store' = store /\ pins' = pins /\ libNow' = libNow
          /\ handle' = handle
      BY <1>5 DEF Call, CallUnready, CallRefused, Begin, clocks
    <2>2. CASE u = t
      <3>1. r.op \in Ops
        BY RequestsAssumption DEF RequestsOn
      <3>2. ~InCritical(t)'
        BY <1>0, <1>5, <3>1
        DEF Call, CallUnready, CallRefused, Begin, Goto, entry, TypeInv, TypeOK,
            InCritical, Ops, PlainOps, LockedOps, AddOps
      <3> QED
        BY <2>2, <3>2 DEF ReadOK
    <2>3. CASE u # t
      <3>1. pc'[u] = pc[u] /\ req'[u] = req[u]
        BY <1>0, <1>5, <2>3
        DEF Call, CallUnready, CallRefused, Begin, Goto, TypeInv, TypeOK
      <3> QED
        BY <1>0, <2>1, <3>1, ReadOKStable
    <2> QED
      BY <2>2, <2>3
  <1>6. ASSUME NEW t \in Threads, Step(t) PROVE ReadOK(u)'
    <2>0. pc[t] # "idle"
      BY <1>6 DEF Step, Lock, Find, Decide, CopyThrows, Remove, Allocate, AllocateFails, Link,
                  Load, Return
    <2>1. req[t] \in Requests /\ req[t].key \in Keys
      BY <1>0, <2>0, KeyOf
    <2>2. CASE Lock(t)
      <3>1. u = t => ~(InCritical(u) /\ pc[u] # "find")'
        BY <1>0, <2>2 DEF Lock, Goto, TypeInv, TypeOK
      <3>2. u # t => pc'[u] = pc[u]
        BY <1>0, <2>2 DEF Lock, Goto, TypeInv, TypeOK
      <3> QED
        BY <1>0, <2>2, <3>1, <3>2, ReadOKStable DEF Lock, clocks, ReadOK
    <2>3. CASE Find(t)
      <3> DEFINE h == find(store[req[t].key], libNow)
      <3>1. CASE u = t
        <4>1. handle'[t] = h /\ store' = store /\ libNow' = libNow /\ req' = req
          BY <1>0, <2>3 DEF Find, TypeInv, TypeOK, clocks
        <4>2. h # NoItem => h = store[req[t].key] /\ t \in pins'[req[t].key]
          BY <1>0, <2>1, <2>3 DEF Find, find, TypeInv, TypeOK
        <4> QED
          BY <3>1, <4>1, <4>2 DEF ReadOK
      <3>2. CASE u # t
        <4>1. pc'[u] = pc[u] /\ handle'[u] = handle[u]
          BY <1>0, <2>3, <3>2 DEF Find, Goto, TypeInv, TypeOK
        <4>2. \A k \in Keys : u \in pins[k] => u \in pins'[k]
          BY <1>0, <2>1, <2>3 DEF Find, TypeInv, TypeOK
        <4>3. InCritical(u) => req[u].key \in Keys
          BY <1>0, KeyOf DEF InCritical
        <4> QED
          BY <1>0, <2>3, <4>1, <4>2, <4>3, ReadOKStable DEF Find, clocks
      <3> QED
        BY <3>1, <3>2
    <2>4. CASE Decide(t) \/ CopyThrows(t) \/ Allocate(t) \/ AllocateFails(t) \/ Load(t)
      <3>1. /\ store' = store /\ pins' = pins /\ libNow' = libNow
            /\ req' = req /\ handle' = handle
        BY <2>4 DEF Decide, CopyThrows, Allocate, AllocateFails, Load, clocks
      <3>2. (InCritical(u) /\ pc[u] # "find")' => InCritical(u) /\ pc[u] # "find"
        BY <1>0, <2>4, <3>1
        DEF Decide, CopyThrows, Allocate, AllocateFails, Load, Goto, TypeInv, TypeOK, InCritical
      <3> QED
        BY <1>0, <3>1, <3>2 DEF ReadOK
    <2>5. CASE Remove(t)
      BY <1>0, <2>1, <2>5 DEF Remove, OnlyProtocol, TypeInv, LocalsOK
    <2>6. CASE Link(t)
      <3>1. mutex = t
        BY <1>0, <2>1, <2>6
        DEF Link, OnlyProtocol, TypeInv, LocalsOK, InCritical, MutualExclusion
      <3>2. InCritical(u)' => u # t /\ InCritical(u)
        BY <1>0, <2>6 DEF Link, Goto, TypeInv, TypeOK, InCritical
      <3>3. ~InCritical(u)'
        BY <1>0, <3>1, <3>2 DEF MutualExclusion
      <3> QED
        BY <3>3 DEF ReadOK
    <2>7. CASE Return(t)
      <3>1. u = t => ~InCritical(u)'
        BY <1>0, <2>7 DEF Return, Goto, TypeInv, TypeOK, InCritical
      <3>2. u # t => pc'[u] = pc[u] /\ req'[u] = req[u] /\ handle'[u] = handle[u]
        BY <1>0, <2>7 DEF Return, Goto, TypeInv, TypeOK
      <3>3. u # t => \A k \in Keys : u \in pins[k] => u \in pins'[k]
        BY <2>7 DEF Return
      <3>4. InCritical(u) => req[u].key \in Keys
        BY <1>0, KeyOf DEF InCritical
      <3> QED
        BY <1>0, <2>7, <3>1, <3>2, <3>3, <3>4, ReadOKStable
        DEF Return, clocks, ReadOK
    <2> QED
      BY <1>6, <2>2, <2>3, <2>4, <2>5, <2>6, <2>7 DEF Step
  <1> QED
    BY <1>1, <1>2, <1>3, <1>4, <1>5, <1>6 DEF Next, Invoke

\* What a caller read under the mutex stays current until it stores.
LEMMA ReadInvariance ==
    ASSUME OnlyProtocol
    PROVE  Spec => []ReadInv
  <1>1. Init => ReadInv
    <2> SUFFICES ASSUME Init PROVE ReadInv
      OBVIOUS
    <2>1. MutualExclusion /\ \A t \in Threads : ReadOK(t)
      BY DEF Init, MutualExclusion, InCritical, ReadOK
    <2> QED
      BY <2>1, InitTypeInv, ReadInvIff
  <1>2. ReadInv /\ [Next]_vars => ReadInv'
    <2> SUFFICES ASSUME ReadInv, [Next]_vars PROVE ReadInv'
      OBVIOUS
    <2>1. TypeInv' /\ MutualExclusion'
      BY NextTypeInv, NextMutualExclusion DEF ReadInv
    <2>2. \A u \in Threads : ReadOK(u)'
      BY NextReadOK
    <2> QED
      BY <2>1, <2>2 DEF ReadInv, HandlesPin, ReadStillCurrent, ReadOK
  <1> QED
    BY <1>1, <1>2, PTL DEF Spec

\* Read-modify-write operations are atomic with respect to each other and to
\* evictions: for any callers that leave set and remove alone, what such an
\* operation read is what it replaces.
THEOREM AtomicReadModifyWrite ==
    ASSUME OnlyProtocol
    PROVE  Spec => []ReadStillCurrent
  <1>1. ReadInv => ReadStillCurrent
    BY DEF ReadInv
  <1> QED
    BY <1>1, ReadInvariance, PTL
-----------------------------------------------------------------------------
\* The items a thread or the cache holds were stamped by CacheLib.
StampsOK ==
    /\ \A k \in Keys : store[k] # NoItem => Stamped(store[k])
    /\ \A t \in Threads : handle[t] # NoItem => Stamped(handle[t])
    /\ \A t \in Threads : pc[t] = "link" => Stamped(item[t])

\* A thread that found an item whose deadline has not come is about to store
\* one with that deadline.
KeepOK(t) ==
    handle[t] # NoItem /\ stillLive(handle[t], sysNow) =>
        /\ pc[t] = "allocate" =>
              /\ plan[t].draft.ttl = keepDeadline(handle[t]).ttl
              /\ plan[t].draft.created = keepDeadline(handle[t]).created
        /\ pc[t] = "link" => item[t].expiry = handle[t].expiry

\* FixedWindow is a property of steps; this is the state invariant behind it.
WindowInv ==
    /\ ReadInv
    /\ libNow =< sysNow
    /\ StampsOK
    /\ \A t \in Threads : KeepOK(t)

\* The callers that keep deadlines are among those that follow the protocol.
LEMMA KeepersAreProtocol == OnlyKeepers => OnlyProtocol
  BY DEF OnlyKeepers, OnlyProtocol, AddOps

\* What the keepers decide about a live window.
LEMMA KeepersKeep ==
    ASSUME OnlyKeepers, NEW r \in Requests, r.op \in FindOps,
           NEW h \in Item, NEW now, stillLive(h, now), decide(r, h, now).write
    PROVE  /\ decide(r, h, now).draft.ttl = keepDeadline(h).ttl
           /\ decide(r, h, now).draft.created = keepDeadline(h).created
  <1>0. h # NoItem
    BY NoItemAssumption
  <1>1. r.op \in LockedOps
    BY OnlyLockedOpsStore
  <1>2. ASSUME NEW base, addAndStore(base, r, keepDeadline(h), FALSE).write
        PROVE  LET d == addAndStore(base, r, keepDeadline(h), FALSE).draft
               IN  d.ttl = keepDeadline(h).ttl /\ d.created = keepDeadline(h).created
    BY <1>2 DEF addAndStore, Reply, StoreThen
  <1>3. CASE r.op = "incr"
    <2>1. decide(r, h, now) = incr(r, h, now)
      BY <1>3 DEF decide, AddOps
    <2>2. CASE parseWholeInt64(h.val).ok
      <3>1. decide(r, h, now) = addAndStore(parseWholeInt64(h.val).out, r,
                                            keepDeadline(h), FALSE)
        BY <1>0, <2>1, <2>2 DEF incr
      <3> QED
        BY <1>2, <3>1
    <2>3. CASE ~parseWholeInt64(h.val).ok
      <3>1. decide(r, h, now) = Reply(Refused("Not a valid integer"))
        BY <1>0, <2>1, <2>3 DEF incr
      <3>2. ~Reply(Refused("Not a valid integer")).write
        BY DEF Reply
      <3> QED
        BY <3>1, <3>2, Zenon
    <2> QED
      BY <2>2, <2>3
  <1>4. CASE r.op = "setNX"
    BY <1>0, <1>4 DEF decide, AddOps, setNX, Reply
  <1>5. CASE r.op \in AddOps
    <2>1. decide(r, h, now) = atomicAddValue(r, h, now) /\ r.ttl = 0
      BY <1>5 DEF decide, AddOps, OnlyKeepers
    <2>2. CASE parseWholeInt64(h.val).ok
      <3>1. decide(r, h, now) = addAndStore(parseWholeInt64(h.val).out, r,
                                            keepDeadline(h), FALSE)
        BY <1>0, <2>1, <2>2 DEF atomicAddValue
      <3> QED
        BY <1>2, <3>1
    <2>3. CASE ~parseWholeInt64(h.val).ok
      <3>1. decide(r, h, now) = Reply(Refused("Not a valid integer"))
        BY <1>0, <2>1, <2>3 DEF atomicAddValue
      <3>2. ~Reply(Refused("Not a valid integer")).write
        BY DEF Reply
      <3> QED
        BY <3>1, <3>2, Zenon
    <2> QED
      BY <2>2, <2>3
  <1>6. CASE r.op = "compareAndSwap"
    <2>1. decide(r, h, now) = compareAndSwap(r, h, now) /\ r.keep
      BY <1>6 DEF decide, AddOps, OnlyKeepers
    <2> QED
      BY <1>0, <2>1 DEF compareAndSwap, Reply, StoreThen
  <1> QED
    BY <1>1, <1>3, <1>4, <1>5, <1>6 DEF OnlyKeepers, LockedOps

\* What is live now was live before: clocks do not go back.
LEMMA LiveEarlier ==
    ASSUME NEW it \in Item, NEW m \in Int, NEW n \in Int, m =< n, stillLive(it, n)
    PROVE  stillLive(it, m)
  BY DEF stillLive, Item, U32

\* Every item of the cache keeps the expiry its allocation gave it.
LEMMA NextStamps ==
    ASSUME TypeInv, StampsOK, [Next]_vars
    PROVE  StampsOK'
  <1>1. CASE Initialize \/ Shutdown \/ Tick \/ CatchUp \/ Done \/ UNCHANGED vars
    BY <1>1 DEF Initialize, Shutdown, Tick, CatchUp, Done, vars, locals, StampsOK
  <1>2. ASSUME NEW k \in Keys, Drop(k) PROVE StampsOK'
    BY <1>2 DEF Drop, locals, TypeInv, TypeOK, StampsOK
  <1>3. ASSUME NEW t \in Threads, NEW r \in Requests,
               Call(t, r) \/ CallUnready(t, r) \/ CallRefused(t, r)
        PROVE  StampsOK'
    <2>1. store' = store /\ handle' = handle /\ item' = item
      BY <1>3 DEF Call, CallUnready, CallRefused, Begin
    <2>2. \A u \in Threads : pc'[u] = "link" => pc[u] = "link"
      BY <1>3 DEF Call, CallUnready, CallRefused, Goto, entry, TypeInv, TypeOK
    <2> QED
      BY <2>1, <2>2 DEF StampsOK
  <1>4. ASSUME NEW t \in Threads, Step(t) PROVE StampsOK'
    <2>1. CASE Lock(t) \/ Decide(t) \/ CopyThrows(t) \/ AllocateFails(t) \/ Load(t)
      <3>1. store' = store /\ handle' = handle /\ item' = item
        BY <2>1 DEF Lock, Decide, CopyThrows, AllocateFails, Load
      <3>2. \A u \in Threads : pc'[u] = "link" => pc[u] = "link"
        BY <2>1 DEF Lock, Decide, CopyThrows, AllocateFails, Load, Goto, TypeInv, TypeOK
      <3> QED
        BY <3>1, <3>2 DEF StampsOK
    <2>2. CASE Find(t)
      <3>1. req[t].key \in Keys
        BY <2>2, KeyOf DEF Find
      <3> QED
        BY <2>2, <3>1 DEF Find, find, Goto, TypeInv, TypeOK, StampsOK
    <2>3. CASE Remove(t)
      BY <2>3 DEF Remove, Goto, TypeInv, TypeOK, StampsOK
    <2>4. CASE Allocate(t)
      <3> DEFINE it == allocate(plan[t].draft.val, plan[t].draft.ttl,
                                plan[t].draft.created, libNow)
      <3>1. Stamped(it)
        <4>1. plan[t].draft \in Draft
          BY DEF TypeInv, TypeOK, Decision
        <4>2. libNow \in U32 \ {0}
          BY CallersAssumption, ModulusAssumption DEF TypeInv, TypeOK, U32
        <4> QED
          BY <4>1, <4>2, AllocateStamps DEF Draft
      <3>2. item' = [item EXCEPT ![t] = it]
        BY <2>4 DEF Allocate
      <3> HIDE DEF it
      <3> QED
        BY <2>4, <3>1, <3>2 DEF Allocate, Goto, TypeInv, TypeOK, StampsOK
    <2>5. CASE Link(t)
      BY <2>5 DEF Link, Goto, TypeInv, TypeOK, StampsOK
    <2>6. CASE Return(t)
      BY <2>6 DEF Return, Goto, TypeInv, TypeOK, StampsOK
    <2> QED
      BY <1>4, <2>1, <2>2, <2>3, <2>4, <2>5, <2>6 DEF Step
  <1> QED
    BY <1>1, <1>2, <1>3, <1>4 DEF Next, Invoke

\* A caller about to store over a live window stores that window's deadline.
LEMMA NextKeepOK ==
    ASSUME OnlyKeepers, WindowInv, [Next]_vars, NEW u \in Threads
    PROVE  KeepOK(u)'
  <1>0. TypeInv /\ StampsOK /\ KeepOK(u)
    BY DEF WindowInv, ReadInv
  <1>t. sysNow \in Int /\ handle[u] \in ItemOrNone
    BY <1>0 DEF TypeInv, TypeOK
  <1>1. CASE Initialize \/ Shutdown \/ CatchUp \/ Done \/ UNCHANGED vars
    BY <1>0, <1>1
    DEF Initialize, Shutdown, CatchUp, Done, vars, clocks, locals, KeepOK
  <1>2. CASE Tick
    <2>1. handle[u] # NoItem /\ stillLive(handle[u], sysNow') =>
              stillLive(handle[u], sysNow)
      BY <1>2, <1>t, LiveEarlier DEF Tick, ItemOrNone
    <2> QED
      BY <1>0, <1>2, <2>1 DEF Tick, locals, KeepOK
  <1>3. ASSUME NEW k \in Keys, Drop(k) PROVE KeepOK(u)'
    BY <1>0, <1>3 DEF Drop, clocks, locals, KeepOK
  <1>4. ASSUME NEW t \in Threads, NEW r \in Requests,
               Call(t, r) \/ CallUnready(t, r) \/ CallRefused(t, r)
        PROVE  KeepOK(u)'
    <2>1. handle' = handle /\ item' = item /\ sysNow' = sysNow
      BY <1>4 DEF Call, CallUnready, CallRefused, Begin, clocks
    <2>2. u = t => pc'[u] \notin {"allocate", "link"}
      BY <1>0, <1>4
      DEF Call, CallUnready, CallRefused, Goto, entry, TypeInv, TypeOK, OnlyKeepers,
          AddOps
    <2>3. u # t => pc'[u] = pc[u] /\ plan'[u] = plan[u]
      BY <1>0, <1>4
      DEF Call, CallUnready, CallRefused, Goto, Conclude, TypeInv, TypeOK
    <2> QED
      BY <1>0, <2>1, <2>2, <2>3 DEF KeepOK
  <1>5. ASSUME NEW t \in Threads, Step(t) PROVE KeepOK(u)'
    <2>1. CASE u # t
      <3>1. /\ pc'[u] = pc[u] /\ plan'[u] = plan[u]
            /\ handle'[u] = handle[u] /\ item'[u] = item[u]
        BY <1>0, <1>5, <2>1
        DEF Step, Lock, Find, Decide, CopyThrows, Remove, Allocate, AllocateFails, Link, Load,
            Return, Goto, Conclude, TypeInv, TypeOK
      <3>2. sysNow' = sysNow
        BY <1>5
        DEF Step, Lock, Find, Decide, CopyThrows, Remove, Allocate, AllocateFails, Link, Load,
            Return, clocks
      <3> QED
        BY <1>0, <3>1, <3>2 DEF KeepOK
    <2>2. CASE u = t /\ Decide(t)
      <3> DEFINE d == decide(req[t], handle[t], sysNow)
      <3>1. req[t] \in Requests /\ req[t].op \in FindOps
        BY <1>0, <2>2 DEF Decide, TypeInv, LocalsOK
      <3>2. handle[t] # NoItem /\ stillLive(handle[t], sysNow) /\ d.write =>
                /\ d.draft.ttl = keepDeadline(handle[t]).ttl
                /\ d.draft.created = keepDeadline(handle[t]).created
        BY <1>t, <2>2, <3>1, KeepersKeep DEF ItemOrNone
      <3>3. /\ plan'[t] = d /\ handle' = handle /\ sysNow' = sysNow
            /\ pc'[t] = IF d.write THEN "allocate" ELSE "reply"
        BY <1>0, <2>2 DEF Decide, Goto, Conclude, TypeInv, TypeOK, clocks
      <3> HIDE DEF d
      <3> QED
        BY <2>2, <3>2, <3>3 DEF KeepOK
    <2>3. CASE u = t /\ Allocate(t)
      <3> DEFINE it == allocate(plan[t].draft.val, plan[t].draft.ttl,
                                plan[t].draft.created, libNow)
      <3>1. /\ item'[t] = it /\ handle' = handle /\ sysNow' = sysNow
            /\ pc'[t] = "link" /\ pc[t] = "allocate"
        BY <1>0, <2>3 DEF Allocate, Goto, TypeInv, TypeOK, clocks
      <3>2. ASSUME handle[t] # NoItem, stillLive(handle[t], sysNow)
            PROVE  it.expiry = handle[t].expiry
        <4>1. handle[t] \in Item /\ Stamped(handle[t])
          BY <1>0, <1>t, <2>3, <3>2 DEF StampsOK, ItemOrNone
        <4>2. /\ plan[t].draft.ttl = keepDeadline(handle[t]).ttl
              /\ plan[t].draft.created = keepDeadline(handle[t]).created
          BY <1>0, <2>3, <3>1, <3>2 DEF KeepOK
        <4> QED
          BY <4>1, <4>2, KeepDeadlineExact
      <3> HIDE DEF it
      <3> QED
        BY <2>3, <3>1, <3>2 DEF KeepOK
    <2>4. CASE u = t /\ ~Decide(t) /\ ~Allocate(t)
      <3>1. pc'[t] \notin {"allocate", "link"}
        BY <1>0, <1>5, <2>4
        DEF Step, Lock, Find, CopyThrows, Remove, AllocateFails, Link, Load, Return,
            Goto, TypeInv, TypeOK
      <3> QED
        BY <2>4, <3>1 DEF KeepOK
    <2> QED
      BY <2>1, <2>2, <2>3, <2>4
  <1> QED
    BY <1>1, <1>2, <1>3, <1>4, <1>5 DEF Next, Invoke

\* The invariant behind FixedWindow.
LEMMA WindowInvariance ==
    ASSUME OnlyKeepers
    PROVE  Spec => []WindowInv
  <1>0. OnlyProtocol
    BY KeepersAreProtocol
  <1>1. Init => libNow =< sysNow /\ StampsOK /\ \A t \in Threads : KeepOK(t)
    BY DEF Init, StampsOK, KeepOK
  <1>2. ASSUME WindowInv, [Next]_vars
        PROVE  /\ (libNow =< sysNow)' /\ StampsOK'
               /\ (\A t \in Threads : KeepOK(t))'
    <2>1. TypeInv /\ StampsOK /\ libNow =< sysNow
      BY <1>2 DEF WindowInv, ReadInv
    <2>2. (libNow =< sysNow)'
      <3>1. CASE Tick \/ CatchUp
        BY <2>1, <3>1 DEF Tick, CatchUp, TypeInv, TypeOK
      <3>2. CASE UNCHANGED clocks
        BY <2>1, <3>2 DEF clocks
      <3>3. Tick \/ CatchUp \/ UNCHANGED clocks
        BY <1>2
        DEF Next, Initialize, Shutdown, Invoke, Call, CallUnready, CallRefused,
            Begin, Step, Lock, Find, Decide, CopyThrows, Remove, Allocate, AllocateFails, Link,
            Load, Return, Drop, Done, vars
      <3> QED
        BY <3>1, <3>2, <3>3
    <2>3. StampsOK'
      BY <1>2, <2>1, NextStamps
    <2>4. \A t \in Threads : KeepOK(t)'
      BY <1>2, NextKeepOK
    <2> QED
      BY <2>2, <2>3, <2>4
  <1>3. Spec => []ReadInv
    BY <1>0, ReadInvariance
  <1>4. Init /\ ReadInv => WindowInv
    BY <1>1 DEF WindowInv
  <1>5. WindowInv /\ [Next]_vars /\ ReadInv' => WindowInv'
    BY <1>2 DEF WindowInv
  <1> QED
    BY <1>3, <1>4, <1>5, PTL DEF Spec

\* The fixed window of incr (CacheManager.cc:547-617, proto/cache.proto:80-84)
\* never moves: for any callers that use only operations that keep a running
\* deadline, with any interleaving, eviction, failed allocation, lag between
\* the two clocks and uint32_t wrap-around, the absolute expiry of a key whose
\* deadline has not come is never changed.
THEOREM WindowFixed ==
    ASSUME OnlyKeepers
    PROVE  Spec => FixedWindow
  <1> DEFINE Fixed(k) == /\ store[k] # NoItem
                         /\ store'[k] # NoItem
                         /\ stillLive(store[k], sysNow)
                         => store'[k].expiry = store[k].expiry
  <1>1. ASSUME WindowInv, [Next]_vars, NEW k \in Keys
        PROVE  Fixed(k)
    <2>0. /\ TypeInv /\ MutualExclusion /\ ReadStillCurrent
          /\ libNow =< sysNow /\ \A t \in Threads : KeepOK(t)
      BY <1>1 DEF WindowInv, ReadInv
    <2>1. CASE \E t \in Threads : Link(t)
      <3>1. PICK t \in Threads : Link(t)
        BY <2>1
      <3>2. pc[t] = "link" /\ req[t] \in Requests /\ req[t].key \in Keys
        BY <2>0, <3>1, KeyOf DEF Link
      <3>3. InCritical(t)
        BY <2>0, <3>2, KeepersAreProtocol
        DEF InCritical, TypeInv, LocalsOK, OnlyProtocol
      <3>4. CASE k # req[t].key
        BY <2>0, <3>1, <3>4 DEF Link, TypeInv, TypeOK
      <3>5. CASE k = req[t].key
        <4> SUFFICES ASSUME store[k] # NoItem, stillLive(store[k], sysNow)
                     PROVE  store'[k].expiry = store[k].expiry
          OBVIOUS
        <4>1. store'[k] = item[t]
          BY <2>0, <3>1, <3>2, <3>5 DEF Link, TypeInv, TypeOK
        <4>2. find(store[k], libNow) # NoItem
          <5>1. store[k] \in Item /\ libNow \in Int /\ sysNow \in Int
            BY <2>0 DEF TypeInv, TypeOK, ItemOrNone
          <5> QED
            BY <2>0, <5>1 DEF find, isExpired, stillLive, Item, U32
        <4>3. handle[t] = store[k]
          BY <2>0, <3>2, <3>3, <3>5, <4>2 DEF ReadStillCurrent
        <4> QED
          BY <2>0, <3>2, <4>1, <4>3 DEF KeepOK
      <3> QED
        BY <3>4, <3>5
    <2>2. CASE ~\E t \in Threads : Link(t)
      <3>1. store'[k] = store[k] \/ store'[k] = NoItem
        <4>1. CASE UNCHANGED store
          BY <4>1
        <4>2. CASE Shutdown
          BY <4>2 DEF Shutdown
        <4>3. CASE \E j \in Keys : Drop(j)
          BY <2>0, <4>3 DEF Drop, TypeInv, TypeOK
        <4>4. CASE \E t \in Threads : Remove(t)
          BY <2>0, <4>4 DEF Remove, TypeInv, TypeOK
        <4>5. UNCHANGED store \/ Shutdown \/ (\E j \in Keys : Drop(j))
              \/ \E t \in Threads : Remove(t)
          BY <1>1, <2>2
          DEF Next, Initialize, Invoke, Call, CallUnready, CallRefused, Begin,
              Step, Lock, Find, Decide, CopyThrows, Allocate, AllocateFails, Load, Return,
              Tick, CatchUp, Done, vars
        <4> QED
          BY <4>1, <4>2, <4>3, <4>4, <4>5
      <3> QED
        BY <3>1
    <2> QED
      BY <2>1, <2>2
  <1>2. WindowInv /\ [Next]_vars => [\A k \in Keys : Fixed(k)]_vars
    BY <1>1
  <1>3. Spec => []WindowInv
    BY WindowInvariance
  <1>4. Spec => [][\A k \in Keys : Fixed(k)]_vars
    BY <1>2, <1>3, PTL DEF Spec
  <1> QED
    BY <1>4 DEF FixedWindow

-----------------------------------------------------------------------------

CounterOps == AddOps \cup {"incr"}

\* v is a counter that the request r, having found h, moved by exactly its delta.
MovedFrom(r, h, now, v) ==
    /\ v.kind = "canon"
    /\ v.n \in Int64
    /\ \/ /\ v.n - exactAddend(r) = 0
          /\ h = NoItem \/ (r.op = "incr" /\ ~stillLive(h, now))
       \/ /\ h # NoItem
          /\ h.val.kind \in {"canon", "padded"}
          /\ v.n - exactAddend(r) = h.val.n

\* A thread inside a counter operation has a delta that can be added, and what it
\* is about to store was moved from what it found.
CountOK(t) ==
    pc[t] \in {"lock", "find", "decide", "allocate", "link"}
      /\ req[t].op \in CounterOps =>
        /\ ~negationRefused(req[t])
        /\ pc[t] = "allocate" =>
              MovedFrom(req[t], handle[t], sysNow, plan[t].draft.val)
        /\ pc[t] = "link" => MovedFrom(req[t], handle[t], sysNow, item[t].val)

\* The addend of a delta that has a negation is the exact one, and an int64_t.
LEMMA AddendExact ==
    ASSUME NEW r \in Requests, ~negationRefused(r)
    PROVE  addend(r) = exactAddend(r) /\ addend(r) \in Int64
  <1>1. stepOf(r) \in Int64
    BY RequestsAssumption, AddendType
  <1>2. CASE r.op = "decrement"
    <2>1. checkedNegate(stepOf(r)).ok
      BY <1>2 DEF negationRefused
    <2>2. /\ -stepOf(r) \in Int64
          /\ checkedNegate(stepOf(r)).out = -stepOf(r)
      BY <1>1, <2>1, CheckedNegateExact
    <2> QED
      BY <1>2, <2>2 DEF addend, exactAddend
  <1>3. CASE r.op # "decrement"
    BY <1>1, <1>3 DEF addend, exactAddend
  <1> QED
    BY <1>2, <1>3

\* What the common end of the counter operations stores.
LEMMA AddAndStoreExact ==
    ASSUME NEW r \in Requests, ~negationRefused(r), NEW base \in Int64,
           NEW deadline, NEW ttlSet, addAndStore(base, r, deadline, ttlSet).write
    PROVE  LET v == addAndStore(base, r, deadline, ttlSet).draft.val
           IN  /\ v.kind = "canon" /\ v.n \in Int64
               /\ v.n - exactAddend(r) = base
  <1> DEFINE sum == checkedAdd(base, addend(r))
  <1>1. addend(r) = exactAddend(r) /\ addend(r) \in Int64
    BY AddendExact
  <1>2. sum.ok
    BY DEF addAndStore, Reply
  <1>3. sum.out = base + addend(r) /\ base + addend(r) \in Int64
    BY <1>1, <1>2, CheckedAddExact
  <1>4. addAndStore(base, r, deadline, ttlSet).draft.val = toString(sum.out)
    BY <1>2 DEF addAndStore, StoreThen
  <1>5. sum.out - exactAddend(r) = base
    BY <1>1, <1>3 DEF Int64
  <1> HIDE DEF sum
  <1> QED
    BY <1>1, <1>3, <1>4, <1>5 DEF toString

\* A counter operation that decides to store moves what it found by its delta.
LEMMA CountersDecide ==
    ASSUME NEW r \in Requests, r.op \in CounterOps, ~negationRefused(r),
           NEW h \in ItemOrNone, NEW now, decide(r, h, now).write
    PROVE  MovedFrom(r, h, now, decide(r, h, now).draft.val)
  <1> DEFINE d == decide(r, h, now)
  <1>0. 0 \in Int64
    BY Int64Assumption DEF Int64
  <1>1. ASSUME NEW deadline, NEW ttlSet, d = addAndStore(0, r, deadline, ttlSet),
               h = NoItem \/ (r.op = "incr" /\ ~stillLive(h, now))
        PROVE  MovedFrom(r, h, now, d.draft.val)
    <2>1. /\ d.draft.val.kind = "canon" /\ d.draft.val.n \in Int64
          /\ d.draft.val.n - exactAddend(r) = 0
      BY <1>0, <1>1, AddAndStoreExact
    <2> HIDE DEF d
    <2> QED
      BY <1>1, <2>1 DEF MovedFrom
  <1>2. ASSUME NEW deadline, NEW ttlSet, h # NoItem, parseWholeInt64(h.val).ok,
               d = addAndStore(parseWholeInt64(h.val).out, r, deadline, ttlSet)
        PROVE  MovedFrom(r, h, now, d.draft.val)
    <2>1. /\ h.val.kind \in {"canon", "padded"}
          /\ parseWholeInt64(h.val).out = h.val.n /\ h.val.n \in Int64
      BY <1>2 DEF parseWholeInt64
    <2>2. /\ d.draft.val.kind = "canon" /\ d.draft.val.n \in Int64
          /\ d.draft.val.n - exactAddend(r) = h.val.n
      BY <1>2, <2>1, AddAndStoreExact
    <2> HIDE DEF d
    <2> QED
      BY <1>2, <2>1, <2>2 DEF MovedFrom
  <1>3. ~Reply(Refused("Not a valid integer")).write
    BY DEF Reply
  <1>4. CASE r.op = "incr"
    <2>1. d = incr(r, h, now)
      BY <1>4 DEF decide, AddOps
    <2>2. CASE h = NoItem \/ ~stillLive(h, now)
      <3>1. d = addAndStore(0, r, newDeadline(r.ttl), TRUE)
        BY <2>1, <2>2 DEF incr
      <3> QED
        BY <1>1, <1>4, <2>2, <3>1
    <2>3. CASE ~(h = NoItem \/ ~stillLive(h, now)) /\ parseWholeInt64(h.val).ok
      <3>1. d = addAndStore(parseWholeInt64(h.val).out, r, keepDeadline(h), FALSE)
        BY <2>1, <2>3 DEF incr
      <3> QED
        BY <1>2, <2>3, <3>1
    <2>4. CASE ~(h = NoItem \/ ~stillLive(h, now)) /\ ~parseWholeInt64(h.val).ok
      <3>1. d = Reply(Refused("Not a valid integer"))
        BY <2>1, <2>4 DEF incr
      <3> QED
        BY <1>3, <3>1, Zenon
    <2> QED
      BY <2>2, <2>3, <2>4
  <1>5. CASE r.op \in AddOps
    <2>1. d = atomicAddValue(r, h, now)
      BY <1>5 DEF decide, AddOps
    <2>2. CASE h = NoItem
      <3>1. d = addAndStore(0, r, newDeadline(r.ttl), FALSE)
        BY <2>1, <2>2 DEF atomicAddValue
      <3> QED
        BY <1>1, <2>2, <3>1
    <2>3. CASE h # NoItem /\ parseWholeInt64(h.val).ok
      <3>1. d = addAndStore(parseWholeInt64(h.val).out, r,
                   IF r.ttl = 0 THEN keepDeadline(h) ELSE newDeadline(r.ttl), FALSE)
        BY <2>1, <2>3 DEF atomicAddValue
      <3> QED
        BY <1>2, <2>3, <3>1
    <2>4. CASE h # NoItem /\ ~parseWholeInt64(h.val).ok
      <3>1. d = Reply(Refused("Not a valid integer"))
        BY <2>1, <2>4 DEF atomicAddValue
      <3> QED
        BY <1>3, <3>1, Zenon
    <2> QED
      BY <2>2, <2>3, <2>4
  <1> QED
    BY <1>4, <1>5 DEF CounterOps

\* Time passing does not undo a move: a window that is over stays over.
LEMMA MovedLater ==
    ASSUME NEW r, NEW h \in ItemOrNone, NEW now \in Int, NEW later \in Int,
           now =< later, NEW v, MovedFrom(r, h, now, v)
    PROVE  MovedFrom(r, h, later, v)
  <1>1. h # NoItem /\ stillLive(h, later) => stillLive(h, now)
    BY LiveEarlier DEF ItemOrNone
  <1> QED
    BY <1>1 DEF MovedFrom

\* Every step keeps what a thread inside a counter operation has computed.
LEMMA NextCountOK ==
    ASSUME TypeInv, [Next]_vars, NEW u \in Threads, CountOK(u)
    PROVE  CountOK(u)'
  <1>t. sysNow \in Int /\ handle[u] \in ItemOrNone
    BY DEF TypeInv, TypeOK
  <1>1. CASE Initialize \/ Shutdown \/ CatchUp \/ Done \/ UNCHANGED vars
    BY <1>1
    DEF Initialize, Shutdown, CatchUp, Done, vars, clocks, locals, CountOK
  <1>2. CASE Tick
    <2>1. /\ sysNow' \in Int /\ sysNow =< sysNow' /\ pc' = pc /\ req' = req
          /\ handle' = handle /\ plan' = plan /\ item' = item
      BY <1>2, <1>t DEF Tick, locals
    <2>2. ASSUME NEW v, MovedFrom(req[u], handle[u], sysNow, v)
          PROVE  MovedFrom(req[u], handle[u], sysNow', v)
      BY <1>t, <2>1, <2>2, MovedLater
    <2> QED
      BY <2>1, <2>2 DEF CountOK
  <1>3. ASSUME NEW k \in Keys, Drop(k) PROVE CountOK(u)'
    BY <1>3 DEF Drop, clocks, locals, CountOK
  <1>4. ASSUME NEW t \in Threads, NEW r \in Requests,
               Call(t, r) \/ CallUnready(t, r) \/ CallRefused(t, r)
        PROVE  CountOK(u)'
    <2>1. handle' = handle /\ item' = item /\ sysNow' = sysNow
      BY <1>4 DEF Call, CallUnready, CallRefused, Begin, clocks
    <2>2. u = t => \/ pc'[u] = "reply"
                   \/ req'[u] = r /\ ~negationRefused(r) /\ pc'[u] = entry(r)
      BY <1>4
      DEF Call, CallUnready, CallRefused, Begin, Goto, TypeInv, TypeOK
    <2>3. r.op \in CounterOps => entry(r) = "lock"
      BY DEF CounterOps, AddOps, entry, LockedOps
    <2>4. u # t => pc'[u] = pc[u] /\ plan'[u] = plan[u] /\ req'[u] = req[u]
      BY <1>4
      DEF Call, CallUnready, CallRefused, Begin, Goto, Conclude, TypeInv, TypeOK
    <2> QED
      BY <2>1, <2>2, <2>3, <2>4 DEF CountOK
  <1>5. ASSUME NEW t \in Threads, Step(t) PROVE CountOK(u)'
    <2>0. sysNow' = sysNow
      BY <1>5
      DEF Step, Lock, Find, Decide, CopyThrows, Remove, Allocate, AllocateFails, Link, Load,
          Return, clocks
    <2>1. CASE u # t
      <3>1. /\ pc'[u] = pc[u] /\ plan'[u] = plan[u] /\ req'[u] = req[u]
            /\ handle'[u] = handle[u] /\ item'[u] = item[u]
        BY <1>5, <2>1
        DEF Step, Lock, Find, Decide, CopyThrows, Remove, Allocate, AllocateFails, Link, Load,
            Return, Goto, Conclude, TypeInv, TypeOK
      <3> QED
        BY <2>0, <3>1 DEF CountOK
    <2>2. CASE u = t /\ Decide(t)
      <3> DEFINE d == decide(req[t], handle[t], sysNow)
      <3>1. /\ plan'[t] = d /\ handle' = handle /\ req' = req
            /\ pc'[t] = IF d.write THEN "allocate" ELSE "reply"
            /\ pc[t] = "decide"
        BY <2>2 DEF Decide, Goto, Conclude, TypeInv, TypeOK
      <3>2. req[t] \in Requests
        BY <3>1 DEF TypeInv, LocalsOK
      <3>3. ASSUME req[t].op \in CounterOps, d.write
            PROVE  MovedFrom(req[t], handle[t], sysNow, d.draft.val)
        BY <1>t, <2>2, <3>1, <3>2, <3>3, CountersDecide DEF CountOK
      <3> HIDE DEF d
      <3> QED
        BY <2>0, <2>2, <3>1, <3>3 DEF CountOK
    <2>3. CASE u = t /\ Allocate(t)
      <3>1. /\ item'[t].val = plan[t].draft.val /\ handle' = handle /\ req' = req
            /\ pc'[t] = "link" /\ pc[t] = "allocate"
        BY <2>3 DEF Allocate, Goto, TypeInv, TypeOK, allocate
      <3> QED
        BY <2>0, <2>3, <3>1 DEF CountOK
    <2>4. CASE u = t /\ (Lock(t) \/ Find(t))
      BY <2>4 DEF Lock, Find, Goto, TypeInv, TypeOK, CountOK
    <2>5. CASE u = t /\ (CopyThrows(t) \/ AllocateFails(t) \/ Link(t) \/ Remove(t)
                         \/ Load(t) \/ Return(t))
      <3>1. pc'[u] \in {"reply", "load", "idle"}
        BY <2>5
        DEF CopyThrows, Remove, AllocateFails, Link, Load, Return, Goto, TypeInv,
            TypeOK
      <3> QED
        BY <3>1 DEF CountOK
    <2> QED
      BY <1>5, <2>1, <2>2, <2>3, <2>4, <2>5 DEF Step
  <1> QED
    BY <1>1, <1>2, <1>3, <1>4, <1>5 DEF Next, Invoke

\* The counter operations, whoever else runs.
LEMMA CountInvariance ==
    Spec => [](\A t \in Threads : CountOK(t))
  <1> DEFINE AllCountOK == \A t \in Threads : CountOK(t)
  <1>1. Init => AllCountOK
    BY DEF Init, CountOK
  <1>2. TypeInv /\ AllCountOK /\ [Next]_vars => AllCountOK'
    BY NextCountOK
  <1> HIDE DEF AllCountOK
  <1>3. Spec => []AllCountOK
    BY <1>1, <1>2, TypeInvariance, PTL DEF Spec
  <1> QED
    BY <1>3 DEF AllCountOK

\* increment, decrement, atomicAdd and incr (CacheManager.cc:51-69, 488-617):
\* when nobody uses the unlocked set and remove, then for any number of callers,
\* any deltas and deadlines, and with evictions, failed allocations and lagging
\* clocks, an update that is stored moved what the cache held at that moment by
\* exactly its delta: none is lost, none counted twice, none wraps.
THEOREM CountersMoveExactlyHolds ==
    ASSUME OnlyProtocol
    PROVE  Spec => CountersMoveExactly
  <1> DEFINE Exact(t) ==
          Links(t) /\ req[t].op \in AddOps \cup {"incr"} =>
             LET old   == store[req[t].key]
                 over  == \/ find(old, libNow) = NoItem
                          \/ req[t].op = "incr" /\ ~stillLive(old, sysNow)
                 moved == store'[req[t].key].val
                 base  == moved.n - exactAddend(req[t])
             IN  /\ moved.kind = "canon" /\ moved.n \in Int64
                 /\ \/ over /\ base = 0
                    \/ /\ old # NoItem
                       /\ old.val.kind \in {"canon", "padded"}
                       /\ base = old.val.n
  <1>1. ASSUME ReadInv, \A t \in Threads : CountOK(t), [Next]_vars,
               NEW t \in Threads
        PROVE  Exact(t)
    <2> SUFFICES ASSUME Links(t), req[t].op \in CounterOps PROVE Exact(t)
      BY DEF CounterOps
    <2>0. TypeInv /\ ReadStillCurrent /\ CountOK(t)
      BY <1>1 DEF ReadInv
    <2>1. Link(t)
      <3>1. pc[t] = "link" /\ pc'[t] = "reply"
        BY DEF Links
      <3>2. pc'[t] # pc[t]
        BY <3>1
      <3>3. \E u \in Threads : Invoke(u) \/ Step(u)
        BY <1>1, <3>2
        DEF Next, Initialize, Shutdown, Drop, Tick, CatchUp, Done, vars, locals
      <3>4. PICK u \in Threads : Invoke(u) \/ Step(u)
        BY <3>3
      <3>5. u = t
        BY <2>0, <3>2, <3>4
        DEF Invoke, Call, CallUnready, CallRefused, Step, Lock, Find, Decide, CopyThrows,
            Remove, Allocate, AllocateFails, Link, Load, Return, Goto, TypeInv,
            TypeOK
      <3> QED
        BY <3>1, <3>4, <3>5
        DEF Invoke, Call, CallUnready, CallRefused, Begin, Step, Lock, Find,
            Decide, CopyThrows, Remove, Allocate, AllocateFails, Load, Return
    <2>2. pc[t] = "link" /\ req[t] \in Requests /\ req[t].key \in Keys
      BY <2>0, <2>1, KeyOf DEF Link
    <2>3. store'[req[t].key] = item[t]
      BY <2>0, <2>1, <2>2 DEF Link, TypeInv, TypeOK
    <2>4. MovedFrom(req[t], handle[t], sysNow, item[t].val)
      BY <2>0, <2>2 DEF CountOK
    <2>5. IF handle[t] = NoItem THEN find(store[req[t].key], libNow) = NoItem
                                ELSE store[req[t].key] = handle[t]
      BY <2>0, <2>2 DEF ReadStillCurrent, InCritical, CounterOps, AddOps, LockedOps
    <2> QED
      BY <2>3, <2>4, <2>5 DEF MovedFrom
  <1>2. Spec => [](ReadInv /\ \A t \in Threads : CountOK(t))
    BY ReadInvariance, CountInvariance, PTL
  <1>3. (ReadInv /\ \A t \in Threads : CountOK(t)) /\ [Next]_vars
           => [\A t \in Threads : Exact(t)]_vars
    BY <1>1
  <1>4. Spec => [][\A t \in Threads : Exact(t)]_vars
    BY <1>2, <1>3, PTL DEF Spec
  <1> QED
    BY <1>4 DEF CountersMoveExactly

-----------------------------------------------------------------------------

\* The lookups under way: counted as gets, not yet as hits or misses.
Looking == {t \in Threads : /\ pc[t] \in {"find", "decide"}
                            /\ req[t].op = "get"}

\* GetAccounting speaks of a cardinality: only finitely many callers are inside a
\* lookup at any time, however many there are.
AccountInv == IsFiniteSet(Looking) /\ GetAccounting

\* What a step may do to the lookups under way and to their counters.
Accounted ==
    \/ /\ Looking' = Looking
       /\ counters'["threw"] = counters["threw"]
       /\ \/ /\ counters'["get"] = counters["get"]
             /\ counters'["hit"] = counters["hit"]
             /\ counters'["miss"] = counters["miss"]
          \/ /\ counters'["get"] = counters["get"] + 1
             /\ counters'["hit"] = counters["hit"]
             /\ counters'["miss"] = counters["miss"] + 1
    \/ \E t \in Threads \ Looking :
          /\ Looking' = Looking \cup {t}
          /\ counters'["threw"] = counters["threw"]
          /\ counters'["get"] = counters["get"] + 1
          /\ counters'["hit"] = counters["hit"]
          /\ counters'["miss"] = counters["miss"]
    \/ \E t \in Looking :
          /\ Looking' = Looking \ {t}
          /\ counters'["get"] = counters["get"]
          /\ \/ /\ counters'["hit"] = counters["hit"] + 1
                /\ counters'["miss"] = counters["miss"]
                /\ counters'["threw"] = counters["threw"]
             \/ /\ counters'["hit"] = counters["hit"]
                /\ counters'["miss"] = counters["miss"] + 1
                /\ counters'["threw"] = counters["threw"]
             \/ /\ counters'["hit"] = counters["hit"] + 1
                /\ counters'["miss"] = counters["miss"] + 1
                /\ counters'["threw"] = counters["threw"] + 1

\* Entering: a get is counted as it begins, and as a miss at once if there is no
\* cache (CacheManager.cc:257-263).
LEMMA InvokeAccounted ==
    ASSUME TypeInv, NEW t \in Threads, NEW r \in Requests,
           Call(t, r) \/ CallUnready(t, r) \/ CallRefused(t, r)
    PROVE  Accounted
  <1>1. pc[t] = "idle" /\ t \notin Looking
    BY DEF Call, CallUnready, CallRefused, Begin, Looking
  <1>2. \A u \in Threads \ {t} : pc'[u] = pc[u] /\ req'[u] = req[u]
    BY DEF Call, CallUnready, CallRefused, Begin, Goto, TypeInv, TypeOK
  <1>3. req'[t] = r /\ r.op \in Ops
    BY RequestsAssumption
    DEF Call, CallUnready, CallRefused, Begin, TypeInv, TypeOK, RequestsOn
  <1>4. counters \in [Counters -> Nat]
    BY DEF TypeInv, TypeOK
  <1>5. CASE Call(t, r)
    <2>1. pc'[t] = entry(r)
      BY <1>5 DEF Call, Goto, TypeInv, TypeOK
    <2>2. CASE r.op = "get"
      <3>1. Looking' = Looking \cup {t}
        BY <1>2, <1>3, <2>1, <2>2 DEF Looking, entry, LockedOps, AddOps
      <3>2. /\ counters'["get"] = counters["get"] + 1
            /\ counters'["hit"] = counters["hit"]
            /\ counters'["miss"] = counters["miss"]
            /\ counters'["threw"] = counters["threw"]
        BY <1>5, <2>2 DEF Call, CountAll, countedAtEntry, Counters
      <3> QED
        BY <1>1, <3>1, <3>2 DEF Accounted
    <2>3. CASE r.op # "get"
      <3>1. Looking' = Looking
        BY <1>1, <1>2, <1>3, <2>3 DEF Looking
      <3>2. /\ counters'["get"] = counters["get"]
            /\ counters'["hit"] = counters["hit"]
            /\ counters'["miss"] = counters["miss"]
            /\ counters'["threw"] = counters["threw"]
        BY <1>5, <2>3 DEF Call, CountAll, countedAtEntry, Counters
      <3> QED
        BY <3>1, <3>2 DEF Accounted
    <2> QED
      BY <2>2, <2>3
  <1>6. CASE CallUnready(t, r) \/ CallRefused(t, r)
    <2>1. pc'[t] = "reply"
      BY <1>6 DEF CallUnready, CallRefused, Goto, TypeInv, TypeOK
    <2>2. Looking' = Looking
      BY <1>1, <1>2, <2>1 DEF Looking
    <2>3. CASE CallUnready(t, r)
      BY <2>2, <2>3, <1>4 DEF CallUnready, CountAll, countedUnready, Counters, Accounted
    <2>4. CASE CallRefused(t, r)
      BY <2>2, <2>4 DEF CallRefused, Accounted
    <2> QED
      BY <1>6, <2>3, <2>4
  <1> QED
    BY <1>5, <1>6

\* Inside: only the decision of a get counts, once, a hit or a miss, or both if
\* its copy throws (CacheManager.cc:266-299).
LEMMA StepAccounted ==
    ASSUME TypeInv, NEW t \in Threads, Step(t)
    PROVE  Accounted
  <1>1. \A u \in Threads \ {t} : pc'[u] = pc[u] /\ req'[u] = req[u]
    BY DEF Step, Lock, Find, Decide, CopyThrows, Remove, Allocate, AllocateFails, Link, Load,
           Return, Goto, TypeInv, TypeOK
  <1>2. counters \in [Counters -> Nat]
    BY DEF TypeInv, TypeOK
  <1>3. CASE Decide(t)
    <2>1. pc[t] = "decide" /\ pc'[t] \in {"allocate", "reply"}
      BY <1>3 DEF Decide, Goto, TypeInv, TypeOK
    <2>2. CASE req[t].op = "get"
      <3>1. t \in Looking /\ Looking' = Looking \ {t}
        BY <1>1, <2>1, <2>2 DEF Looking
      <3>2. /\ counters'["get"] = counters["get"]
            /\ counters'["threw"] = counters["threw"]
            /\ \/ /\ counters'["hit"] = counters["hit"] + 1
                  /\ counters'["miss"] = counters["miss"]
               \/ /\ counters'["hit"] = counters["hit"]
                  /\ counters'["miss"] = counters["miss"] + 1
        BY <1>2, <1>3, <2>2 DEF Decide, CountAll, countedByDecide, Counters
      <3> QED
        BY <3>1, <3>2 DEF Accounted
    <2>3. CASE req[t].op # "get"
      <3>1. Looking' = Looking
        BY <1>1, <1>3, <2>1, <2>3 DEF Looking, Decide
      <3>2. /\ counters'["get"] = counters["get"]
            /\ counters'["hit"] = counters["hit"]
            /\ counters'["miss"] = counters["miss"]
            /\ counters'["threw"] = counters["threw"]
        BY <1>3, <2>3 DEF Decide, CountAll, countedByDecide, Counters
      <3> QED
        BY <3>1, <3>2 DEF Accounted
    <2> QED
      BY <2>2, <2>3
  <1>5. CASE CopyThrows(t)
    <2>1. t \in Looking /\ Looking' = Looking \ {t}
      BY <1>1, <1>5 DEF CopyThrows, Goto, TypeInv, TypeOK, Looking
    <2>2. /\ counters'["get"] = counters["get"]
          /\ counters'["hit"] = counters["hit"] + 1
          /\ counters'["miss"] = counters["miss"] + 1
          /\ counters'["threw"] = counters["threw"] + 1
      BY <1>2, <1>5 DEF CopyThrows, CountAll, Counters
    <2> QED
      BY <2>1, <2>2 DEF Accounted
  <1>4. CASE ~Decide(t) /\ ~CopyThrows(t)
    <2>1. /\ counters'["get"] = counters["get"]
          /\ counters'["hit"] = counters["hit"]
          /\ counters'["miss"] = counters["miss"]
          /\ counters'["threw"] = counters["threw"]
      BY <1>2, <1>4
      DEF Step, Lock, Find, Remove, Allocate, AllocateFails, Link, Load, Return,
          Count, Counters
    <2>2. CASE Lock(t)
      <3>1. req[t].op \in LockedOps /\ req' = req
        BY <2>2 DEF Lock, TypeInv, LocalsOK
      <3>2. Looking' = Looking
        BY <1>1, <2>2, <3>1 DEF Looking, Lock, LockedOps, AddOps
      <3> QED
        BY <2>1, <3>2 DEF Accounted
    <2>3. CASE Find(t)
      <3>1. Looking' = Looking
        BY <1>1, <2>3 DEF Looking, Find, Goto, TypeInv, TypeOK
      <3> QED
        BY <2>1, <3>1 DEF Accounted
    <2>4. CASE ~Lock(t) /\ ~Find(t)
      <3>1. pc[t] \notin {"find", "decide"} /\ pc'[t] \notin {"find", "decide"}
        BY <1>4, <2>4
        DEF Step, Remove, Allocate, AllocateFails, Link, Load, Return, Goto,
            TypeInv, TypeOK
      <3>2. Looking' = Looking
        BY <1>1, <3>1 DEF Looking
      <3> QED
        BY <2>1, <3>2 DEF Accounted
    <2> QED
      BY <2>2, <2>3, <2>4
  <1> QED
    BY <1>3, <1>4, <1>5

\* Every lookup is counted once as a get and once as a hit or a miss, on whichever
\* path it takes (CacheManager.cc:254-302), but for those whose copy threw, which
\* count as both; for any number of callers and calls.
THEOREM GetAccountingHolds == Spec => []GetAccounting
  <1>1. Init => AccountInv
    <2> SUFFICES ASSUME Init PROVE AccountInv
      OBVIOUS
    <2>1. Looking = {}
      BY DEF Init, Looking
    <2>2. IsFiniteSet(Looking) /\ Cardinality(Looking) = 0
      BY <2>1, FS_EmptySet
    <2>3. \A c \in Counters : counters[c] = 0
      BY DEF Init
    <2> QED
      BY <2>2, <2>3 DEF AccountInv, GetAccounting, Looking, Counters
  <1>2. ASSUME TypeInv, AccountInv, Accounted PROVE AccountInv'
    <2> DEFINE N == Cardinality(Looking)
    <2>1. N \in Nat /\ counters["get"] + counters["threw"] = counters["hit"] + counters["miss"] + N
      BY <1>2, FS_CardinalityType DEF AccountInv, GetAccounting, Looking
    <2>2. \A c \in {"get", "hit", "miss", "threw"} : counters[c] \in Nat
      BY <1>2 DEF TypeInv, TypeOK, Counters
    <2>3. AccountInv' <=> /\ IsFiniteSet(Looking')
                          /\ counters'["get"] + counters'["threw"] =
                                counters'["hit"] + counters'["miss"]
                                + Cardinality(Looking')
      BY DEF AccountInv, GetAccounting, Looking
    <2>4. \A t \in Threads \ Looking : /\ IsFiniteSet(Looking \cup {t})
                                       /\ Cardinality(Looking \cup {t}) = N + 1
      BY <1>2, FS_AddElement DEF AccountInv
    <2>5. \A t \in Looking : /\ IsFiniteSet(Looking \ {t})
                             /\ Cardinality(Looking \ {t}) = N - 1
      BY <1>2, FS_RemoveElement DEF AccountInv
    <2>6. CASE Looking' = Looking
      BY <1>2, <2>1, <2>2, <2>3, <2>6 DEF Accounted, AccountInv
    <2>7. ASSUME NEW t \in Threads \ Looking, Looking' = Looking \cup {t},
                 counters'["threw"] = counters["threw"],
                 counters'["get"] = counters["get"] + 1,
                 counters'["hit"] = counters["hit"], counters'["miss"] = counters["miss"]
          PROVE  AccountInv'
      <3>1. IsFiniteSet(Looking') /\ Cardinality(Looking') = N + 1
        BY <2>4, <2>7
      <3>2. counters'["get"] + counters'["threw"] =
                counters'["hit"] + counters'["miss"] + (N + 1)
        <4> HIDE DEF N
        <4> QED
          BY <2>1, <2>2, <2>7
      <3> QED
        BY <2>3, <3>1, <3>2
    <2>8. ASSUME NEW t \in Looking, Looking' = Looking \ {t},
                 counters'["get"] = counters["get"],
                 \/ /\ counters'["hit"] = counters["hit"] + 1
                    /\ counters'["miss"] = counters["miss"]
                    /\ counters'["threw"] = counters["threw"]
                 \/ /\ counters'["hit"] = counters["hit"]
                    /\ counters'["miss"] = counters["miss"] + 1
                    /\ counters'["threw"] = counters["threw"]
                 \/ /\ counters'["hit"] = counters["hit"] + 1
                    /\ counters'["miss"] = counters["miss"] + 1
                    /\ counters'["threw"] = counters["threw"] + 1
          PROVE  AccountInv'
      <3>1. IsFiniteSet(Looking') /\ Cardinality(Looking') = N - 1
        BY <2>5, <2>8
      <3>2. counters'["get"] + counters'["threw"] =
                counters'["hit"] + counters'["miss"] + (N - 1)
        <4> HIDE DEF N
        <4> QED
          BY <2>1, <2>2, <2>8
      <3> QED
        BY <2>3, <3>1, <3>2
    <2> QED
      BY <1>2, <2>6, <2>7, <2>8 DEF Accounted
  <1>3. ASSUME TypeInv, [Next]_vars PROVE Accounted
    <2>1. CASE Initialize \/ Shutdown \/ Tick \/ CatchUp \/ Done \/ UNCHANGED vars
      BY <2>1 DEF Initialize, Shutdown, Tick, CatchUp, Done, vars, locals, Looking,
                  Accounted
    <2>2. ASSUME NEW k \in Keys, Drop(k) PROVE Accounted
      BY <2>2 DEF Drop, locals, Looking, Accounted
    <2> QED
      BY <1>3, <2>1, <2>2, InvokeAccounted, StepAccounted DEF Next, Invoke
  <1>4. AccountInv => GetAccounting
    BY DEF AccountInv
  <1> QED
    BY <1>1, <1>2, <1>3, <1>4, TypeInvariance, PTL DEF Spec

-----------------------------------------------------------------------------
\* The refinement: called only through the operations that take atomicOpMutex_,
\* CacheManager implements AtomicCache.

\* The callers use only the read-modify-write operations.
OnlyLocked == \A r \in Requests : r.op \in LockedOps

-----------------------------------------------------------------------------
\* The abstract specification reads the same operators: its copies of them,
\* which come with the INSTANCE, are the ones the detailed one uses.
LEMMA SameFind ==
    ASSUME NEW i, NEW now PROVE Atomic!find(i, now) = find(i, now)
  BY DEF find, isExpired, Atomic!find, Atomic!isExpired

\* allocate.
LEMMA SameAllocate ==
    ASSUME NEW v, NEW ttl, NEW created, NEW now
    PROVE  Atomic!allocate(v, ttl, created, now) = allocate(v, ttl, created, now)
  BY DEF allocate, AddU32, Atomic!allocate, Atomic!AddU32

\* The empty result.
LEMMA SameNoResult == Atomic!NoResult = NoResult
  BY DEF NoResult, EmptyText, Atomic!NoResult, Atomic!EmptyText

\* A refusal.
LEMMA SameRefused ==
    ASSUME NEW why PROVE Atomic!Refused(why) = Refused(why)
  BY SameNoResult DEF Refused, Atomic!Refused

\* The answers without a cache.
LEMMA SameNotReady ==
    ASSUME NEW r PROVE Atomic!notReady(r) = notReady(r)
  BY SameNoResult, SameRefused DEF notReady, AddOps, Atomic!notReady, Atomic!AddOps

\* A reply.
LEMMA SameReply ==
    ASSUME NEW res PROVE Atomic!Reply(res) = Reply(res)
  BY DEF Reply, NoDraft, EmptyText, Atomic!Reply, Atomic!NoDraft, Atomic!EmptyText

\* The remaining TTL.
LEMMA SameRemaining ==
    ASSUME NEW i, NEW now PROVE Atomic!remainingTtl(i, now) = remainingTtl(i, now)
  BY DEF remainingTtl, Atomic!remainingTtl

\* Deadlines, new and kept.
LEMMA SameDeadlines ==
    /\ \A ttl : Atomic!newDeadline(ttl) = newDeadline(ttl)
    /\ \A i : Atomic!keepDeadline(i) = keepDeadline(i)
  BY DEF newDeadline, keepDeadline, SubU32, Atomic!newDeadline,
         Atomic!keepDeadline, Atomic!SubU32

\* Parsing a counter.
LEMMA SameParse ==
    ASSUME NEW text PROVE Atomic!parseWholeInt64(text) = parseWholeInt64(text)
  BY DEF parseWholeInt64, Int64, Atomic!parseWholeInt64, Atomic!Int64

\* What a counter operation adds.
LEMMA SameAddend ==
    ASSUME NEW r PROVE Atomic!addend(r) = addend(r)
  BY DEF addend, stepOf, checkedNegate, WrapInt64, Atomic!addend, Atomic!stepOf,
         Atomic!checkedNegate, Atomic!WrapInt64

\* Adding and storing.
LEMMA SameAddAndStore ==
    ASSUME NEW base, NEW r, NEW deadline, NEW ttlSet
    PROVE  Atomic!addAndStore(base, r, deadline, ttlSet)
              = addAndStore(base, r, deadline, ttlSet)
  <1>1. Atomic!checkedAdd(base, addend(r)) = checkedAdd(base, addend(r))
    BY DEF checkedAdd, WrapInt64, Atomic!checkedAdd, Atomic!WrapInt64
  <1> QED
    BY <1>1, SameAddend, SameReply, SameRefused, SameNoResult
    DEF addAndStore, StoreThen, toString, Atomic!addAndStore, Atomic!StoreThen,
        Atomic!toString

\* The decisions.
LEMMA SameDecide ==
    ASSUME NEW r, NEW h, NEW now, r.op \in LockedOps
    PROVE  Atomic!decide(r, h, now) = decide(r, h, now)
  <1>1. CASE r.op = "setNX"
    <2>1. Atomic!setNX(r, h, now) = setNX(r, h, now)
      BY SameReply, SameNoResult DEF setNX, StoreThen, Atomic!setNX, Atomic!StoreThen
    <2> QED
      BY <1>1, <2>1 DEF decide, Atomic!decide, AddOps, Atomic!AddOps
  <1>2. CASE r.op = "touch"
    <2>1. Atomic!touch(r, h, now) = touch(r, h, now)
      BY SameReply, SameNoResult, SameRefused
      DEF touch, StoreThen, Atomic!touch, Atomic!StoreThen
    <2> QED
      BY <1>2, <2>1 DEF decide, Atomic!decide, AddOps, Atomic!AddOps
  <1>3. CASE r.op = "compareAndSwap"
    <2>1. Atomic!compareAndSwap(r, h, now) = compareAndSwap(r, h, now)
      BY SameReply, SameNoResult, SameDeadlines
      DEF compareAndSwap, StoreThen, Atomic!compareAndSwap, Atomic!StoreThen
    <2> QED
      BY <1>3, <2>1 DEF decide, Atomic!decide, AddOps, Atomic!AddOps
  <1>4. CASE r.op = "incr"
    <2>1. Atomic!incr(r, h, now) = incr(r, h, now)
      BY SameReply, SameRefused, SameParse, SameDeadlines, SameAddAndStore
      DEF incr, stillLive, Atomic!incr, Atomic!stillLive
    <2> QED
      BY <1>4, <2>1 DEF decide, Atomic!decide, AddOps, Atomic!AddOps
  <1>5. CASE r.op \in AddOps
    <2>1. Atomic!atomicAddValue(r, h, now) = atomicAddValue(r, h, now)
      BY SameReply, SameRefused, SameParse, SameDeadlines, SameAddAndStore
      DEF atomicAddValue, Atomic!atomicAddValue
    <2> QED
      BY <1>5, <2>1 DEF decide, Atomic!decide, AddOps, Atomic!AddOps
  <1> QED
    BY <1>1, <1>2, <1>3, <1>4, <1>5 DEF LockedOps

-----------------------------------------------------------------------------
\* What a thread carries from one step of its call to the next: the clocks of
\* its beginning, a decision taken by what it found at a second within the
\* call, and an item CacheLib stamped within the call.
CarryOK(t) ==
    /\ pc[t] \notin {"remove", "load"}
    /\ pc[t] # "idle" => began[t] \in [sys : 1..sysNow, lib : 1..libNow]
    /\ pc[t] \in {"allocate", "link"} =>
          /\ plan[t].write
          /\ \E now \in began[t].sys..sysNow :
                plan[t] = decide(req[t], handle[t], now)
    /\ pc[t] = "link" =>
          \E stamp \in began[t].lib..libNow :
             item[t] = allocate(plan[t].draft.val, plan[t].draft.ttl,
                                plan[t].draft.created, stamp)

\* The history variable: set when a call begins, cleared when it returns.
RecordBegin ==
    began' = [t \in Threads |->
                 IF pc'[t] = "idle" THEN Nobody
                 ELSE IF pc[t] = "idle" THEN [sys |-> sysNow, lib |-> libNow]
                 ELSE began[t]]

\* Time passing keeps what a thread carries.
LEMMA CarryLater ==
    ASSUME TypeInv, NEW u \in Threads, CarryOK(u), began'[u] = began[u],
           sysNow' \in Int, libNow' \in Int, sysNow =< sysNow', libNow =< libNow',
           pc'[u] = pc[u], req'[u] = req[u], handle'[u] = handle[u],
           plan'[u] = plan[u], item'[u] = item[u]
    PROVE  CarryOK(u)'
  <1>1. /\ sysNow \in Int /\ libNow \in Int
        /\ 1..sysNow \subseteq 1..sysNow' /\ 1..libNow \subseteq 1..libNow'
    BY DEF TypeInv, TypeOK
  <1>2. pc[u] # "idle" => began[u] \in [sys : 1..sysNow', lib : 1..libNow']
    BY <1>1 DEF CarryOK
  <1>3. ASSUME pc[u] \in {"allocate", "link"}
        PROVE  /\ plan[u].write
               /\ \E now \in began[u].sys..sysNow' :
                     plan[u] = decide(req[u], handle[u], now)
    <2>1. PICK now \in began[u].sys..sysNow :
                 plan[u] = decide(req[u], handle[u], now)
      BY <1>3 DEF CarryOK
    <2>2. now \in began[u].sys..sysNow'
      BY <1>1, <1>3, <2>1 DEF CarryOK
    <2> QED
      BY <1>3, <2>1, <2>2 DEF CarryOK
  <1>4. ASSUME pc[u] = "link"
        PROVE  \E stamp \in began[u].lib..libNow' :
                  item[u] = allocate(plan[u].draft.val, plan[u].draft.ttl,
                                     plan[u].draft.created, stamp)
    <2>1. PICK stamp \in began[u].lib..libNow :
                  item[u] = allocate(plan[u].draft.val, plan[u].draft.ttl,
                                     plan[u].draft.created, stamp)
      BY <1>4 DEF CarryOK
    <2>2. stamp \in began[u].lib..libNow'
      BY <1>1, <1>4, <2>1 DEF CarryOK
    <2> QED
      BY <2>1, <2>2
  <1> QED
    BY <1>2, <1>3, <1>4 DEF CarryOK

\* Every step keeps what every thread carries.
LEMMA NextCarryOK ==
    ASSUME OnlyLocked, TypeInv, Next, RecordBegin, NEW u \in Threads, CarryOK(u),
           libNow =< sysNow
    PROVE  CarryOK(u)'
  <1>t. sysNow \in 1..MaxTime /\ libNow \in 1..MaxTime /\ MaxTime \in Int
    BY CallersAssumption, ModulusAssumption DEF TypeInv, TypeOK
  <1>b. pc'[u] = pc[u] /\ pc[u] # "idle" => began'[u] = began[u]
    BY DEF RecordBegin
  <1>i. pc'[u] = "idle" => CarryOK(u)'
    BY DEF CarryOK
  <1>c. pc'[u] = pc[u] /\ pc[u] = "idle" => CarryOK(u)'
    BY <1>i
  <1>1. CASE Initialize \/ Shutdown \/ Tick \/ CatchUp \/ Done
    <2>1. /\ pc' = pc /\ req' = req /\ handle' = handle /\ plan' = plan
          /\ item' = item
      BY <1>1 DEF Initialize, Shutdown, Tick, CatchUp, Done, vars, locals
    <2>2. /\ sysNow' \in Int /\ libNow' \in Int
          /\ sysNow =< sysNow' /\ libNow =< libNow'
      BY <1>1, <1>t DEF Initialize, Shutdown, Tick, CatchUp, Done, vars, clocks
    <2> QED
      BY <1>b, <1>c, <2>1, <2>2, CarryLater
  <1>2. ASSUME NEW k \in Keys, Drop(k) PROVE CarryOK(u)'
    <2>1. /\ pc' = pc /\ req' = req /\ handle' = handle /\ plan' = plan
          /\ item' = item /\ sysNow' = sysNow /\ libNow' = libNow
      BY <1>2 DEF Drop, locals, clocks
    <2> QED
      BY <1>b, <1>c, <1>t, <2>1, CarryLater
  <1>3. ASSUME NEW t \in Threads, Invoke(t) \/ Step(t) PROVE CarryOK(u)'
    <2>0. sysNow' = sysNow /\ libNow' = libNow
      BY <1>3
      DEF Invoke, Call, CallUnready, CallRefused, Begin, Step, Lock, Find, Decide, CopyThrows,
          Remove, Allocate, AllocateFails, Link, Load, Return, clocks
    <2>1. CASE u # t
      <3>1. /\ pc'[u] = pc[u] /\ req'[u] = req[u] /\ handle'[u] = handle[u]
            /\ plan'[u] = plan[u] /\ item'[u] = item[u]
        BY <1>3, <2>1
        DEF Invoke, Call, CallUnready, CallRefused, Begin, Step, Lock, Find,
            Decide, CopyThrows, Remove, Allocate, AllocateFails, Link, Load, Return, Goto,
            Conclude, TypeInv, TypeOK
      <3> QED
        BY <1>b, <1>c, <1>t, <2>0, <3>1, CarryLater
    <2>2. CASE u = t /\ Invoke(t)
      <3>1. PICK r \in Requests :
                  Call(t, r) \/ CallUnready(t, r) \/ CallRefused(t, r)
        BY <2>2 DEF Invoke
      <3>2. entry(r) = "lock"
        BY DEF OnlyLocked, entry, LockedOps, AddOps
      <3>3. pc[t] = "idle" /\ pc'[t] \in {"lock", "reply"}
        BY <3>1, <3>2
        DEF Call, CallUnready, CallRefused, Begin, Goto, TypeInv, TypeOK
      <3>4. began'[u] = [sys |-> sysNow, lib |-> libNow]
        BY <2>2, <3>3 DEF RecordBegin
      <3> QED
        BY <1>t, <2>0, <2>2, <3>3, <3>4 DEF CarryOK
    <2>3. CASE u = t /\ Step(t)
      <3>1. pc[t] # "idle" /\ (pc'[t] # "idle" => began'[u] = began[u])
        BY <2>3
        DEF Step, Lock, Find, Decide, CopyThrows, Remove, Allocate, AllocateFails, Link, Load,
            Return, RecordBegin
      <3>2. began[u] \in [sys : 1..sysNow, lib : 1..libNow]
        BY <2>3, <3>1 DEF CarryOK
      <3>3. CASE Decide(t)
        <4> DEFINE d == decide(req[t], handle[t], sysNow)
        <4>1. /\ plan'[t] = d /\ handle' = handle /\ req' = req
              /\ pc'[t] = IF d.write THEN "allocate" ELSE "reply"
          BY <3>3 DEF Decide, Goto, Conclude, TypeInv, TypeOK
        <4>2. sysNow \in began[u].sys..sysNow
          BY <1>t, <3>2
        <4> HIDE DEF d
        <4>3. plan'[t] = decide(req'[t], handle'[t], sysNow)
          BY <4>1 DEF d
        <4> QED
          BY <2>0, <2>3, <3>1, <3>2, <4>1, <4>2, <4>3 DEF CarryOK
      <3>4. CASE Allocate(t)
        <4>1. /\ plan' = plan /\ handle' = handle /\ req' = req
              /\ pc[t] = "allocate" /\ pc'[t] = "link"
              /\ item'[t] = allocate(plan[t].draft.val, plan[t].draft.ttl,
                                     plan[t].draft.created, libNow)
          BY <3>4 DEF Allocate, Goto, TypeInv, TypeOK
        <4>2. libNow \in began[u].lib..libNow
          BY <1>t, <3>2
        <4> QED
          BY <2>0, <2>3, <3>1, <3>2, <4>1, <4>2 DEF CarryOK
      <3>5. CASE Lock(t) \/ Find(t) \/ CopyThrows(t) \/ AllocateFails(t) \/ Link(t)
                 \/ Return(t)
        <4>1. pc'[t] \in {"find", "decide", "reply", "idle"}
          BY <3>5
          DEF Lock, Find, CopyThrows, AllocateFails, Link, Return, Goto, TypeInv, TypeOK
        <4> QED
          BY <1>i, <2>0, <2>3, <3>1, <3>2, <4>1 DEF CarryOK
      <3>6. CASE Remove(t) \/ Load(t)
        BY <2>3, <3>6 DEF Remove, Load, CarryOK
      <3> QED
        BY <2>3, <3>3, <3>4, <3>5, <3>6 DEF Step
    <2> QED
      BY <1>3, <2>1, <2>2, <2>3
  <1> QED
    BY <1>1, <1>2, <1>3 DEF Next

\* Everything the refinement rests on.
LinearInv ==
    ReadInv /\ libNow =< sysNow /\ \A t \in Threads : CarryOK(t)

\* The locked operations and the reads are the protocol.
LEMMA LockedAreProtocol ==
    ASSUME OnlyLocked PROVE OnlyProtocol
  BY DEF OnlyLocked, OnlyProtocol, LockedOps, AddOps

\* CacheLib's clock is never ahead of system_clock.
LEMMA ClocksInvariance == Spec => [](libNow =< sysNow)
  <1> DEFINE Lag == libNow =< sysNow
  <1>1. Init => Lag
    BY DEF Init
  <1>2. ASSUME TypeInv, Lag, [Next]_vars PROVE Lag'
    <2>1. CASE Tick \/ CatchUp
      BY <1>2, <2>1 DEF Tick, CatchUp, TypeInv, TypeOK
    <2>2. CASE UNCHANGED clocks
      BY <1>2, <2>2 DEF clocks
    <2>3. Tick \/ CatchUp \/ UNCHANGED clocks
      BY <1>2
      DEF Next, Initialize, Shutdown, Invoke, Call, CallUnready, CallRefused,
          Begin, Step, Lock, Find, Decide, CopyThrows, Remove, Allocate, AllocateFails, Link,
          Load, Return, Drop, Done, vars
    <2> QED
      BY <2>1, <2>2, <2>3
  <1> HIDE DEF Lag
  <1>3. Spec => []Lag
    BY <1>1, <1>2, TypeInvariance, PTL DEF Spec
  <1> QED
    BY <1>3 DEF Lag

\* The invariant holds throughout.
LEMMA LinearInvariance ==
    ASSUME OnlyLocked
    PROVE  SpecL => []LinearInv
  <1> DEFINE AllCarry == \A t \in Threads : CarryOK(t)
  <1> DEFINE Lag == libNow =< sysNow
  <1>1. InitL => AllCarry
    BY DEF InitL, Init, CarryOK
  <1>2. TypeInv /\ Lag /\ AllCarry /\ [NextL]_<<vars, began>> => AllCarry'
    <2> SUFFICES ASSUME TypeInv, Lag, AllCarry, [NextL]_<<vars, began>>,
                        NEW u \in Threads
                 PROVE  CarryOK(u)'
      OBVIOUS
    <2>1. CASE NextL
      <3>1. Next /\ RecordBegin
        BY <2>1 DEF NextL, RecordBegin
      <3> QED
        BY <3>1, NextCarryOK
    <2>2. CASE UNCHANGED <<vars, began>>
      BY <2>2 DEF vars, clocks, locals, CarryOK
    <2> QED
      BY <2>1, <2>2
  <1>3. SpecL => Spec
    <2>1. InitL => Init
      BY DEF InitL
    <2>2. [NextL]_<<vars, began>> => [Next]_vars
      BY DEF NextL
    <2> QED
      BY <2>1, <2>2, PTL DEF SpecL, Spec
  <1>4. LinearInv <=> ReadInv /\ Lag /\ AllCarry
    BY DEF LinearInv
  <1>5. Spec => [](ReadInv /\ Lag /\ TypeInv)
    <2>1. Spec => []ReadInv
      BY LockedAreProtocol, ReadInvariance
    <2> QED
      BY <2>1, ClocksInvariance, TypeInvariance, PTL
  <1> HIDE DEF AllCarry, Lag
  <1> QED
    BY <1>1, <1>2, <1>3, <1>4, <1>5, PTL DEF SpecL

-----------------------------------------------------------------------------
\* The abstract state of the threads, as functions.
CallsOf   == [t \in Threads |-> callOf(t)]
AnswersOf == [t \in Threads |-> returned(t)]

\* A thread inside a call is in an abstract call; it has an answer when it is
\* about to return.
LEMMA MappedState ==
    ASSUME LinearInv, NEW t \in Threads
    PROVE  /\ callOf(t) = Nobody <=> pc[t] = "idle"
           /\ returned(t) = Nobody <=> pc[t] # "reply"
  <1>0. TypeInv /\ CarryOK(t)
    BY DEF LinearInv, ReadInv
  <1>1. ASSUME pc[t] # "idle" PROVE callOf(t) # Nobody
    <2>1. callOf(t) = [req |-> req[t], sys |-> began[t].sys, lib |-> began[t].lib]
      BY <1>1 DEF callOf
    <2>2. req[t] \in Requests
      BY <1>0, <1>1 DEF TypeInv, LocalsOK
    <2>3. began[t].sys \in Nat /\ began[t].lib \in Nat
      BY <1>0, <1>1 DEF CarryOK, TypeInv, TypeOK
    <2> QED
      BY <2>1, <2>2, <2>3, NobodyAssumption
  <1>2. ASSUME pc[t] = "reply" PROVE returned(t) # Nobody
    <2>1. plan[t].res \in Result
      BY <1>0 DEF TypeInv, TypeOK, Decision
    <2> QED
      BY <1>2, <2>1, NobodyAssumption DEF returned
  <1> QED
    BY <1>1, <1>2 DEF callOf, returned

\* What the others do in a step of t leaves the abstract state of u alone.
LEMMA MappedFrame ==
    ASSUME RecordBegin, NEW u \in Threads, pc'[u] = pc[u], req'[u] = req[u],
           plan'[u] = plan[u]
    PROVE  callOf(u)' = callOf(u) /\ returned(u)' = returned(u)
  <1>1. pc[u] # "idle" => began'[u] = began[u]
    BY DEF RecordBegin
  <1> QED
    BY <1>1 DEF callOf, returned

\* What an operation inside its critical section found is visible.
LEMMA FoundIsVisible ==
    ASSUME LinearInv, OnlyLocked, NEW t \in Threads,
           pc[t] \in {"decide", "allocate", "link"}
    PROVE  handle[t] \in Atomic!Visible(req[t].key)
  <1>1. req[t] \in Requests
    BY DEF LinearInv, ReadInv, TypeInv, LocalsOK
  <1>2. InCritical(t)
    BY <1>1 DEF InCritical, OnlyLocked
  <1>3. IF handle[t] = NoItem THEN find(store[req[t].key], libNow) = NoItem
                              ELSE store[req[t].key] = handle[t]
    BY <1>2 DEF LinearInv, ReadInv, ReadStillCurrent
  <1> QED
    BY <1>3, SameFind DEF Atomic!Visible

\* A step of t changes the abstract state of t only.
LEMMA MappedStep ==
    ASSUME TypeInv, RecordBegin, NEW t \in Threads, Invoke(t) \/ Step(t)
    PROVE  /\ CallsOf' = [CallsOf EXCEPT ![t] = callOf(t)']
           /\ AnswersOf' = [AnswersOf EXCEPT ![t] = returned(t)']
  <1>1. ASSUME NEW u \in Threads, u # t
        PROVE  callOf(u)' = callOf(u) /\ returned(u)' = returned(u)
    <2>1. pc'[u] = pc[u] /\ req'[u] = req[u] /\ plan'[u] = plan[u]
      BY <1>1
      DEF Invoke, Call, CallUnready, CallRefused, Begin, Step, Lock, Find, Decide, CopyThrows,
          Remove, Allocate, AllocateFails, Link, Load, Return, Goto, Conclude,
          TypeInv, TypeOK
    <2> QED
      BY <1>1, <2>1, MappedFrame
  <1> QED
    BY <1>1 DEF CallsOf, AnswersOf

\* The instant in which an operation happens, from what it saw, the second at
\* which it decided and the one CacheLib stamped.
LEMMA EffectMaps ==
    ASSUME LinearInv, OnlyLocked, NEW t \in Threads,
           pc[t] \in {"decide", "allocate", "link"},
           NEW now \in began[t].sys..sysNow, NEW stamp \in began[t].lib..libNow,
           CallsOf' = CallsOf, sysNow' = sysNow, libNow' = libNow,
           NEW d, d = decide(req[t], handle[t], now),
           \/ /\ ~d.write
              /\ AnswersOf' = [AnswersOf EXCEPT ![t] = d.res]
              /\ UNCHANGED store
           \/ /\ d.write
              /\ AnswersOf' = [AnswersOf EXCEPT ![t] = d.res]
              /\ store' = [store EXCEPT ![req[t].key] =
                     allocate(d.draft.val, d.draft.ttl, d.draft.created, stamp)]
           \/ /\ d.write
              /\ AnswersOf' = [AnswersOf EXCEPT ![t] = d.fail]
              /\ UNCHANGED store
    PROVE  Atomic!AEffect(t)
  <1>1. CallsOf[t] # Nobody /\ AnswersOf[t] = Nobody
    BY MappedState DEF CallsOf, AnswersOf
  <1>2. CallsOf[t] = [req |-> req[t], sys |-> began[t].sys, lib |-> began[t].lib]
    BY DEF CallsOf, callOf
  <1>3. handle[t] \in Atomic!Visible(CallsOf[t].req.key)
    BY <1>2, FoundIsVisible
  <1>4. req[t] \in Requests /\ req[t].op \in LockedOps
    BY DEF LinearInv, ReadInv, TypeInv, LocalsOK, OnlyLocked
  <1>5. d = Atomic!decide(CallsOf[t].req, handle[t], now)
    BY <1>2, <1>4, SameDecide
  <1>6. allocate(d.draft.val, d.draft.ttl, d.draft.created, stamp)
          = Atomic!allocate(d.draft.val, d.draft.ttl, d.draft.created, stamp)
    BY SameAllocate
  <1>7. now \in CallsOf[t].sys..sysNow /\ stamp \in CallsOf[t].lib..libNow
    BY <1>2
  <1>8. CallsOf[t].req.key = req[t].key
    BY <1>2
  <1>9. \E see \in Atomic!Visible(CallsOf[t].req.key),
           at \in CallsOf[t].sys..sysNow, st \in CallsOf[t].lib..libNow :
           LET e == Atomic!decide(CallsOf[t].req, see, at)
           IN  \/ /\ ~e.write
                  /\ AnswersOf' = [AnswersOf EXCEPT ![t] = e.res]
                  /\ UNCHANGED store
               \/ /\ e.write
                  /\ AnswersOf' = [AnswersOf EXCEPT ![t] = e.res]
                  /\ store' = [store EXCEPT ![CallsOf[t].req.key] =
                        Atomic!allocate(e.draft.val, e.draft.ttl,
                                        e.draft.created, st)]
               \/ /\ e.write
                  /\ AnswersOf' = [AnswersOf EXCEPT ![t] = e.fail]
                  /\ UNCHANGED store
    <2> USE <1>3, <1>7
    <2> WITNESS handle[t] \in Atomic!Visible(CallsOf[t].req.key),
                now \in CallsOf[t].sys..sysNow, stamp \in CallsOf[t].lib..libNow
    <2> QED
      BY <1>5, <1>6, <1>8
  <1> QED
    BY <1>1, <1>9 DEF Atomic!AEffect, CallsOf, AnswersOf

\* Each step of a caller is one of the abstract ones, or none.
LEMMA CallerMaps ==
    ASSUME OnlyLocked, LinearInv, LinearInv', RecordBegin, NEW t \in Threads,
           Invoke(t) \/ Step(t)
    PROVE  Atomic!ANext \/ UNCHANGED Atomic!avars
  <1>0. TypeInv /\ CarryOK(t)
    BY DEF LinearInv, ReadInv
  <1>1. /\ CallsOf' = [CallsOf EXCEPT ![t] = callOf(t)']
        /\ AnswersOf' = [AnswersOf EXCEPT ![t] = returned(t)']
    BY <1>0, MappedStep
  <1>2. sysNow' = sysNow /\ libNow' = libNow
    BY DEF Invoke, Call, CallUnready, CallRefused, Begin, Step, Lock, Find, Decide, CopyThrows,
           Remove, Allocate, AllocateFails, Link, Load, Return, clocks
  <1>3. /\ CallsOf[t] = callOf(t) /\ AnswersOf[t] = returned(t)
        /\ CallsOf = [CallsOf EXCEPT ![t] = callOf(t)]
        /\ AnswersOf = [AnswersOf EXCEPT ![t] = returned(t)]
    BY DEF CallsOf, AnswersOf
  <1>4. ASSUME NEW r \in Requests,
               Call(t, r) \/ CallUnready(t, r) \/ CallRefused(t, r)
        PROVE  Atomic!ACall(t, r) \/ Atomic!ARefuse(t, r)
    <2>1. pc[t] = "idle" /\ req'[t] = r /\ UNCHANGED store
      BY <1>0, <1>4 DEF Call, CallUnready, CallRefused, Begin, TypeInv, TypeOK
    <2>2. CallsOf[t] = Nobody /\ AnswersOf[t] = Nobody
      BY <1>3, <2>1, MappedState
    <2>3. pc'[t] # "idle" =>
              callOf(t)' = [req |-> r, sys |-> sysNow, lib |-> libNow]
      BY <2>1 DEF callOf, RecordBegin
    <2>4. CASE Call(t, r)
      <3>1. pc'[t] = "lock"
        BY <1>0, <2>4
        DEF Call, Goto, TypeInv, TypeOK, OnlyLocked, entry, LockedOps, AddOps
      <3>2. returned(t)' = Nobody
        BY <3>1 DEF returned
      <3>3. CallsOf' = [CallsOf EXCEPT ![t] =
                           [req |-> r, sys |-> sysNow, lib |-> libNow]]
        BY <1>1, <2>3, <3>1
      <3>4. AnswersOf' = AnswersOf
        BY <1>1, <1>3, <2>2, <3>2
      <3>5. Atomic!ACall(t, r)
        BY <1>2, <2>1, <2>2, <3>3, <3>4 DEF Atomic!ACall, CallsOf, AnswersOf
      <3> QED
        BY <3>5
    <2>5. CASE CallUnready(t, r) \/ CallRefused(t, r)
      <3>1. /\ pc'[t] = "reply"
            /\ plan'[t].res \in {notReady(r), Refused("Cannot be negated")}
        <4>1. ASSUME NEW res PROVE Reply(res).res = res
          BY DEF Reply
        <4>2. /\ pc'[t] = "reply"
              /\ \/ plan'[t] = Reply(notReady(r))
                 \/ plan'[t] = Reply(Refused("Cannot be negated"))
          BY <1>0, <2>5
          DEF CallUnready, CallRefused, Goto, Conclude, TypeInv, TypeOK
        <4> QED
          BY <4>1, <4>2
      <3>2. returned(t)' \in {Atomic!notReady(r),
                              Atomic!Refused("Cannot be negated")}
        BY <3>1, SameNotReady, SameRefused DEF returned
      <3>3. CallsOf' = [CallsOf EXCEPT ![t] =
                           [req |-> r, sys |-> sysNow, lib |-> libNow]]
        BY <1>1, <2>3, <3>1
      <3>4. Atomic!ARefuse(t, r)
        BY <1>1, <1>2, <2>1, <2>2, <3>2, <3>3
        DEF Atomic!ARefuse, CallsOf, AnswersOf
      <3> QED
        BY <3>4
    <2> QED
      BY <1>4, <2>4, <2>5
  <1>5. ASSUME Step(t), pc'[t] # "idle" PROVE CallsOf' = CallsOf
    <2>1. pc[t] # "idle" /\ req'[t] = req[t]
      BY <1>0, <1>5
      DEF Step, Lock, Find, Decide, CopyThrows, Remove, Allocate, AllocateFails, Link, Load,
          Return, Goto, TypeInv, TypeOK
    <2>2. callOf(t)' = callOf(t)
      BY <1>5, <2>1 DEF callOf, RecordBegin
    <2> QED
      BY <1>1, <1>3, <2>2
  <1>6. ASSUME Step(t), pc'[t] \in {"find", "decide", "allocate", "link"},
               UNCHANGED store
        PROVE  UNCHANGED Atomic!avars
    <2>1. pc[t] # "reply"
      BY <1>0, <1>6
      DEF Step, Lock, Find, Decide, CopyThrows, Remove, Allocate, AllocateFails, Link, Load,
          Return, Goto, TypeInv, TypeOK
    <2>2. returned(t)' = returned(t)
      BY <1>6, <2>1 DEF returned
    <2> QED
      BY <1>1, <1>2, <1>3, <1>5, <1>6, <2>2 DEF Atomic!avars, CallsOf, AnswersOf
  <1>7. CASE Lock(t) \/ Find(t) \/ Allocate(t)
    <2>1. pc'[t] \in {"find", "decide", "allocate", "link"} /\ UNCHANGED store
      BY <1>0, <1>7 DEF Lock, Find, Allocate, Goto, TypeInv, TypeOK
    <2> QED
      BY <1>6, <1>7, <2>1 DEF Step
  <1>n. /\ sysNow \in Int /\ libNow \in Int
        /\ pc[t] # "idle" => /\ sysNow \in began[t].sys..sysNow
                             /\ libNow \in began[t].lib..libNow
    BY <1>0 DEF CarryOK, TypeInv, TypeOK
  <1>8. CASE Decide(t)
    <2> DEFINE d == decide(req[t], handle[t], sysNow)
    <2>1. /\ pc[t] = "decide" /\ plan'[t] = d /\ UNCHANGED store
          /\ pc'[t] = IF d.write THEN "allocate" ELSE "reply"
      BY <1>0, <1>8 DEF Decide, Goto, Conclude, TypeInv, TypeOK
    <2>2. CASE d.write
      BY <1>6, <1>8, <2>1, <2>2 DEF Step
    <2>3. CASE ~d.write
      <3>1. returned(t)' = d.res
        BY <2>1, <2>3 DEF returned
      <3>2. AnswersOf' = [AnswersOf EXCEPT ![t] = d.res]
        BY <1>1, <3>1
      <3>3. CallsOf' = CallsOf
        BY <1>5, <1>8, <2>1, <2>3 DEF Step
      <3> HIDE DEF d
      <3>4. d = decide(req[t], handle[t], sysNow)
        BY DEF d
      <3>5. Atomic!AEffect(t)
        BY <1>2, <1>n, <2>1, <2>3, <3>2, <3>3, <3>4, EffectMaps
      <3> QED
        BY <3>5 DEF Atomic!ANext
    <2> QED
      BY <2>2, <2>3
  <1>c. CASE CopyThrows(t)
    <2>1. req[t] \in Requests /\ req[t].op = "get"
      BY <1>0, <1>c DEF CopyThrows, TypeInv, LocalsOK
    <2> QED
      BY <2>1 DEF OnlyLocked, LockedOps, AddOps
  <1>9. CASE AllocateFails(t) \/ Link(t)
    <2>1. /\ pc[t] \in {"allocate", "link"} /\ pc'[t] = "reply"
      BY <1>0, <1>9 DEF AllocateFails, Link, Goto, TypeInv, TypeOK
    <2>2. PICK now \in began[t].sys..sysNow :
                plan[t] = decide(req[t], handle[t], now)
      BY <1>0, <2>1 DEF CarryOK
    <2>3. plan[t].write
      BY <1>0, <2>1 DEF CarryOK
    <2>4. CallsOf' = CallsOf
      BY <1>5, <1>9, <2>1 DEF Step
    <2>5. CASE AllocateFails(t)
      <3>1. plan'[t].res = plan[t].fail /\ UNCHANGED store
        BY <1>0, <2>5 DEF AllocateFails, Conclude, Reply, TypeInv, TypeOK
      <3>2. AnswersOf' = [AnswersOf EXCEPT ![t] = plan[t].fail]
        BY <1>1, <2>1, <3>1 DEF returned
      <3>3. Atomic!AEffect(t)
        BY <1>2, <1>n, <2>1, <2>2, <2>3, <2>4, <3>1, <3>2, EffectMaps
      <3> QED
        BY <3>3 DEF Atomic!ANext
    <2>6. CASE Link(t)
      <3>1. /\ plan' = plan /\ pc[t] = "link"
            /\ store' = [store EXCEPT ![req[t].key] = item[t]]
        BY <2>6 DEF Link
      <3>2. PICK stamp \in began[t].lib..libNow :
                  item[t] = allocate(plan[t].draft.val, plan[t].draft.ttl,
                                     plan[t].draft.created, stamp)
        BY <1>0, <3>1 DEF CarryOK
      <3>3. AnswersOf' = [AnswersOf EXCEPT ![t] = plan[t].res]
        BY <1>1, <2>1, <3>1 DEF returned
      <3>4. store' = [store EXCEPT ![req[t].key] =
                         allocate(plan[t].draft.val, plan[t].draft.ttl,
                                  plan[t].draft.created, stamp)]
        BY <3>1, <3>2
      <3>5. Atomic!AEffect(t)
        BY <1>2, <2>1, <2>2, <2>3, <2>4, <3>2, <3>3, <3>4, EffectMaps
      <3> QED
        BY <3>5 DEF Atomic!ANext
    <2> QED
      BY <1>9, <2>5, <2>6
  <1>10. CASE Return(t)
    <2>1. pc[t] = "reply" /\ pc'[t] = "idle" /\ UNCHANGED store
      BY <1>0, <1>10 DEF Return, Goto, TypeInv, TypeOK
    <2>2. returned(t) # Nobody
      BY <2>1, MappedState
    <2>3. callOf(t)' = Nobody /\ returned(t)' = Nobody
      BY <2>1 DEF callOf, returned
    <2>4. Atomic!AReturn(t)
      BY <1>1, <1>2, <1>3, <2>1, <2>2, <2>3 DEF Atomic!AReturn, CallsOf, AnswersOf
    <2> QED
      BY <2>4 DEF Atomic!ANext
  <1>11. CASE Remove(t) \/ Load(t)
    BY <1>0, <1>11 DEF Remove, Load, CarryOK
  <1>12. CASE Invoke(t)
    BY <1>4, <1>12 DEF Invoke, Atomic!ANext
  <1> QED
    BY <1>7, <1>8, <1>9, <1>10, <1>11, <1>12, <1>c DEF Step

\* CacheManager implements AtomicCache (CacheManager.cc:434-734): called only
\* through setNX, increment, decrement, incr, compareAndSwap and touch, by any
\* number of threads, with evictions, refused allocations, two clocks and the
\* cache coming up and going down, every behaviour is one in which each call
\* happens in one instant between its beginning and its return.
THEOREM LinearizableHolds ==
    ASSUME OnlyLocked
    PROVE  SpecL => Linearizable
  <1>1. InitL => Atomic!AInit
    BY DEF InitL, Init, Atomic!AInit, callOf, returned
  <1>2. ASSUME LinearInv, LinearInv', [NextL]_<<vars, began>>
        PROVE  [Atomic!ANext]_(Atomic!avars)
    <2>0. TypeInv
      BY <1>2 DEF LinearInv, ReadInv
    <2>1. CASE UNCHANGED <<vars, began>>
      BY <2>1 DEF vars, clocks, locals, Atomic!avars, callOf, returned
    <2>2. CASE NextL
      <3>1. Next /\ RecordBegin
        BY <2>2 DEF NextL, RecordBegin
      <3>2. CASE \E t \in Threads : Invoke(t) \/ Step(t)
        BY <1>2, <3>1, <3>2, CallerMaps
      <3>3. CASE Initialize \/ Shutdown \/ (\E k \in Keys : Drop(k)) \/ Tick
                 \/ CatchUp \/ Done
        <4>1. pc' = pc /\ req' = req /\ plan' = plan
          BY <3>3
          DEF Initialize, Shutdown, Drop, Tick, CatchUp, Done, vars, locals
        <4>2. CallsOf' = CallsOf /\ AnswersOf' = AnswersOf
          BY <3>1, <4>1, MappedFrame DEF CallsOf, AnswersOf
        <4>3. CASE Initialize \/ Done
          BY <4>2, <4>3
          DEF Initialize, Done, vars, clocks, Atomic!avars, CallsOf, AnswersOf
        <4>4. CASE Shutdown
          <5>1. Atomic!ALose(Keys)
            BY <4>2, <4>4
            DEF Shutdown, clocks, Atomic!ALose, CallsOf, AnswersOf
          <5> QED
            BY <5>1 DEF Atomic!ANext
        <4>5. ASSUME NEW k \in Keys, Drop(k) PROVE Atomic!ANext
          <5>1. Atomic!ALose({k})
            BY <2>0, <4>2, <4>5
            DEF Drop, clocks, Atomic!ALose, CallsOf, AnswersOf, TypeInv, TypeOK
          <5> QED
            BY <5>1 DEF Atomic!ANext
        <4>6. CASE Tick \/ CatchUp
          <5>1. Atomic!ATime
            BY <4>2, <4>6 DEF Tick, CatchUp, Atomic!ATime, CallsOf, AnswersOf
          <5> QED
            BY <5>1 DEF Atomic!ANext
        <4> QED
          BY <3>3, <4>3, <4>4, <4>5, <4>6
      <3> QED
        BY <3>1, <3>2, <3>3 DEF Next
    <2> QED
      BY <1>2, <2>1, <2>2
  <1>3. SpecL => []LinearInv
    BY LinearInvariance
  <1>4. SpecL => Atomic!ASpec
    BY <1>1, <1>2, <1>3, PTL DEF SpecL, Atomic!ASpec
  <1> QED
    BY <1>4 DEF Linearizable
=============================================================================
