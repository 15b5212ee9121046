--------------------------- MODULE MCCacheLinear ---------------------------
(***************************************************************************)
(* Instances of CacheLinear: every read-modify-write operation, on two     *)
(* keys, by two threads.                                                   *)
(***************************************************************************)
EXTENDS CacheLinear

CONSTANTS k1, k2

MinInt64 == -4

Num(n) == toString(n)
Junk   == [kind |-> "junk", n |-> 1]

Base(op, k) == [op |-> op, key |-> k, val |-> EmptyText, expected |-> EmptyText,
                ttl |-> 0, delta |-> 0, keep |-> FALSE]

LockedRequests ==
    {[Base("setNX", k1) EXCEPT !.val = Num(1), !.ttl = 1],
     [Base("incr", k1) EXCEPT !.ttl = 1],
     [Base("decrement", k2) EXCEPT !.delta = 2],
     [Base("decrement", k1) EXCEPT !.delta = Int64Min],
     [Base("compareAndSwap", k1) EXCEPT !.expected = Num(1), !.val = Junk,
                                        !.keep = TRUE],
     [Base("touch", k2) EXCEPT !.ttl = 2]}
=============================================================================
