----------------------------- MODULE CacheOps -----------------------------
(***************************************************************************)
(* What each operation of CacheManager.cc decides once it holds the handle *)
(* find gave it: reply as things are, or store a new item and reply with   *)
(* one of two results, for success and for failure of the store.  The      *)
(* decisions are functions of the request, the handle (NoItem when null)   *)
(* and system_clock's second; CacheManager says when each input is read.   *)
(***************************************************************************)
EXTENDS CacheLib

\* The result structures of CacheManager.h, as one record: ok is found,
\* wasSet or success; val is value, existingValue or actualValue; n is the
\* remaining TTL or the counter; why stands for the message.
Reasons == {"", "Not initialized", "Not a valid integer", "Would overflow",
            "Cannot be negated", "Failed to store", "Key not found"}

Result == [ok : BOOLEAN, val : Text, n : Int, ttlSet : BOOLEAN, why : Reasons]

NoResult ==
    [ok |-> FALSE, val |-> EmptyText, n |-> 0, ttlSet |-> FALSE, why |-> ""]

Refused(why) == [NoResult EXCEPT !.why = why]

\* What setWithCreationTime is called with.
Draft == [val : Text, ttl : U32, created : U32]

\* write: store draft, then reply res, or fail if it cannot be stored.
\* Otherwise reply res at once.
Decision == [write : BOOLEAN, draft : Draft, res : Result, fail : Result]

NoDraft == [val |-> EmptyText, ttl |-> 0, created |-> 0]

Reply(res) == [write |-> FALSE, draft |-> NoDraft, res |-> res, fail |-> res]

StoreThen(draft, res, fail) ==
    [write |-> TRUE, draft |-> draft, res |-> res, fail |-> fail]

-----------------------------------------------------------------------------
\* Requests.  Every operation finds the arguments it has; the rest are idle.
PlainOps  == {"get", "set", "remove", "exists", "getTTL", "getStats"}
AddOps    == {"increment", "decrement"}
LockedOps == {"setNX", "incr", "compareAndSwap", "touch"} \cup AddOps
Ops       == PlainOps \cup LockedOps

RequestsOn(Keys) ==
    [op : Ops, key : Keys, val : Text, expected : Text,
     ttl : U32, delta : Int64, keep : BOOLEAN]

\* A delta of 0 means 1, in increment, decrement and incr alike.
stepOf(r) == IF r.delta = 0 THEN 1 ELSE r.delta

\* decrement negates its delta, and refuses before it looks at anything.
negationRefused(r) == r.op = "decrement" /\ ~checkedNegate(stepOf(r)).ok

addend(r) == IF r.op = "decrement" THEN checkedNegate(stepOf(r)).out ELSE stepOf(r)

-----------------------------------------------------------------------------
\* The remaining TTL reported to a caller: -1 for none, 0 once the deadline
\* second has come by system_clock, even while find still returns the item.
remainingTtl(item, now) ==
    IF item.expiry = 0 THEN -1
    ELSE IF item.expiry > now THEN item.expiry - now
    ELSE 0

\* A TTL restarted from the caller's request: creation time 0 is "now".
newDeadline(ttl) == [ttl |-> ttl, created |-> 0]

\* Signed arithmetic on an expiry of 0.
keepSigned(item) ==
    [ttl |-> item.expiry - item.created, created |-> item.created]

\* The TTL and the creation time that rebuild the item's absolute expiry.
keepDeadline(item) ==
    [ttl     |-> IF item.expiry = 0 THEN 0 ELSE SubU32(item.expiry, item.created),
     created |-> item.created]

-----------------------------------------------------------------------------
get(r, h, now) ==
    Reply(IF h = NoItem THEN NoResult
          ELSE [NoResult EXCEPT !.ok = TRUE, !.val = h.val,
                                !.n = remainingTtl(h, now)])

\* get when the copy of the value throws, which it catches: found is set by
\* then, the value and the TTL are not.
getThrew == Reply([NoResult EXCEPT !.ok = TRUE])

exists(r, h, now) == Reply([NoResult EXCEPT !.ok = h # NoItem])

getTTL(r, h, now) ==
    Reply([NoResult EXCEPT !.n = IF h = NoItem THEN -2 ELSE remainingTtl(h, now)])

setNX(r, h, now) ==
    IF h # NoItem
    THEN Reply([NoResult EXCEPT !.val = h.val])
    ELSE StoreThen([val |-> r.val, ttl |-> r.ttl, created |-> 0],
                   [NoResult EXCEPT !.ok = TRUE], NoResult)

\* The common end of the counter operations: add, refuse to overflow, store.
addAndStore(base, r, deadline, ttlSet) ==
    LET sum == checkedAdd(base, addend(r))
    IN  IF ~sum.ok
        THEN Reply(Refused("Would overflow"))
        ELSE StoreThen([val     |-> toString(sum.out),
                        ttl     |-> deadline.ttl,
                        created |-> deadline.created],
                       [NoResult EXCEPT !.ok = TRUE, !.n = sum.out,
                                        !.ttlSet = ttlSet],
                       Refused("Failed to store"))

\* increment and decrement: a TTL in the request restarts the deadline, none
\* keeps the one there is.
atomicAddValue(r, h, now) ==
    IF h = NoItem
    THEN addAndStore(0, r, newDeadline(r.ttl), FALSE)
    ELSE IF ~parseWholeInt64(h.val).ok
    THEN Reply(Refused("Not a valid integer"))
    ELSE addAndStore(parseWholeInt64(h.val).out, r,
                     IF r.ttl = 0 THEN keepDeadline(h) ELSE newDeadline(r.ttl),
                     FALSE)

\* The window's deadline has not come by system_clock.  CacheLib's strict
\* comparison keeps returning the item for one second more.
stillLive(item, now) == item.expiry = 0 \/ item.expiry > now

\* incr before absolute expiries: the remaining TTL by system_clock, stamped
\* from CacheLib's own clock.
incrByRemaining(r, h, now) ==
    IF h = NoItem \/ ~stillLive(h, now)
    THEN addAndStore(0, r, newDeadline(r.ttl), TRUE)
    ELSE IF ~parseWholeInt64(h.val).ok
    THEN Reply(Refused("Not a valid integer"))
    ELSE addAndStore(parseWholeInt64(h.val).out, r,
                     newDeadline(IF h.expiry = 0 THEN 0 ELSE h.expiry - now),
                     FALSE)

\* incr: a live window keeps its deadline, anything else starts a new one.
incr(r, h, now) ==
    IF h = NoItem \/ ~stillLive(h, now)
    THEN addAndStore(0, r, newDeadline(r.ttl), TRUE)
    ELSE IF ~parseWholeInt64(h.val).ok
    THEN Reply(Refused("Not a valid integer"))
    ELSE addAndStore(parseWholeInt64(h.val).out, r, keepDeadline(h), FALSE)

compareAndSwap(r, h, now) ==
    IF h = NoItem
    THEN Reply(NoResult)
    ELSE IF h.val # r.expected
    THEN Reply([NoResult EXCEPT !.val = h.val])
    ELSE LET d == IF r.keep THEN keepDeadline(h) ELSE newDeadline(r.ttl)
         IN  StoreThen([val |-> r.val, ttl |-> d.ttl, created |-> d.created],
                       [NoResult EXCEPT !.ok = TRUE, !.val = r.val],
                       [NoResult EXCEPT !.val = h.val])

\* touch stores the value it read again, under a new TTL.
touch(r, h, now) ==
    IF h = NoItem
    THEN Reply(Refused("Key not found"))
    ELSE StoreThen([val |-> h.val, ttl |-> r.ttl, created |-> 0],
                   [NoResult EXCEPT !.ok = TRUE], Refused("Failed to store"))

\* set looks at nothing: its draft is its request.
set(r) == StoreThen([val |-> r.val, ttl |-> r.ttl, created |-> 0],
                    [NoResult EXCEPT !.ok = TRUE], NoResult)

decide(r, h, now) ==
    CASE r.op = "get"            -> get(r, h, now)
      [] r.op = "exists"         -> exists(r, h, now)
      [] r.op = "getTTL"         -> getTTL(r, h, now)
      [] r.op = "setNX"          -> setNX(r, h, now)
      [] r.op \in AddOps         -> atomicAddValue(r, h, now)
      [] r.op = "incr"           -> incr(r, h, now)
      [] r.op = "compareAndSwap" -> compareAndSwap(r, h, now)
      [] r.op = "touch"          -> touch(r, h, now)

\* What an operation replies when cache_ is null.
notReady(r) ==
    CASE r.op = "getTTL" -> [NoResult EXCEPT !.n = -2]
      [] r.op \in AddOps \cup {"incr", "touch"} -> Refused("Not initialized")
      [] OTHER -> NoResult
=============================================================================
