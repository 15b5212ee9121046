-------------------------- MODULE MCCacheManager --------------------------
(***************************************************************************)
(* Small instances of CacheManager: int64_t is -4..3 and uint32_t 0..15,   *)
(* so that the callers reach the ends of both.                             *)
(***************************************************************************)
EXTENDS CacheManager, TLC

CONSTANTS k1, k2

MinInt64 == -4

Num(n)    == toString(n)
Padded(n) == [kind |-> "padded", n |-> n]
Junk      == [kind |-> "junk", n |-> 1]
Large     == [kind |-> "large", n |-> 0]

Base(op, k) == [op |-> op, key |-> k, val |-> EmptyText, expected |-> EmptyText,
                ttl |-> 0, delta |-> 0, keep |-> FALSE]

Get(k)           == Base("get", k)
Set(k, v, ttl)   == [Base("set", k) EXCEPT !.val = v, !.ttl = ttl]
Del(k)           == Base("remove", k)
SetNX(k, v, ttl) == [Base("setNX", k) EXCEPT !.val = v, !.ttl = ttl]
Inc(k, d, ttl)   == [Base("increment", k) EXCEPT !.delta = d, !.ttl = ttl]
Dec(k, d, ttl)   == [Base("decrement", k) EXCEPT !.delta = d, !.ttl = ttl]
Incr(k, d, ttl)  == [Base("incr", k) EXCEPT !.delta = d, !.ttl = ttl]
Touch(k, ttl)    == [Base("touch", k) EXCEPT !.ttl = ttl]
Cas(k, e, v, ttl) ==
    [Base("compareAndSwap", k) EXCEPT !.expected = e, !.val = v, !.ttl = ttl]
CasKeep(k, e, v) == [Cas(k, e, v, 0) EXCEPT !.keep = TRUE]

\* Only operations that keep a running deadline; setNX seeds the spellings and
\* the sizes they must cope with.
WindowRequests ==
    {Incr(k1, 0, 2), Incr(k1, 3, 1), Inc(k1, 2, 0), Dec(k1, 1, 0),
     Dec(k1, Int64Min, 0), CasKeep(k1, Num(1), Padded(1)),
     SetNX(k1, Junk, 2), SetNX(k1, Num(Int64Min), 0)}

\* Every read-modify-write operation, on two keys.
ProtocolRequests ==
    {SetNX(k1, Num(1), 1), Incr(k1, 1, 1), Inc(k1, 1, 2), Dec(k2, 1, 0),
     Touch(k1, 2), Cas(k1, Num(1), Num(2), 0), CasKeep(k2, Num(-1), Junk)}

\* Everything, with values that are too large and TTLs that wrap around.
AllRequests ==
    {Get(k1), Set(k1, Num(1), 15), Set(k1, Large, 0), Del(k1),
     Base("exists", k1), Base("getTTL", k1), Base("getStats", k1),
     SetNX(k1, Junk, 0), Touch(k1, 2), Dec(k1, Int64Min, 0), Inc(k1, 1, 0),
     Incr(k1, 1, 1), Cas(k1, Num(1), Num(2), 0)}

AnyThread == Permutations(Threads)
=============================================================================
