--------------------------- MODULE MCCacheService ---------------------------
(***************************************************************************)
(* Small instances of CacheService: batches with an empty key, with a key  *)
(* twice and with a value that is too large, next to unary calls.          *)
(***************************************************************************)
EXTENDS CacheService, TLC

CONSTANT k1

MinInt64 == -4

Num(n) == toString(n)
Large  == [kind |-> "large", n |-> 0]

Of(k) == [key |-> k, val |-> EmptyText, expected |-> EmptyText, ttl |-> 0,
          delta |-> 0, keep |-> FALSE]
With(k, v, ttl) == [Of(k) EXCEPT !.val = v, !.ttl = ttl]

Rpc(name, items) == [rpc |-> name, items |-> items]

\* Batches among readers and writers of the same key, the unary RPCs, and what
\* their checks refuse.
AllMessages ==
    {Rpc("MultiGet", <<Of(EmptyKey), Of(k1)>>),
     Rpc("MultiSet", <<With(k1, Num(1), -2), With(EmptyKey, Num(1), 0),
                       With(k1, Large, 1)>>),
     Rpc("MultiDelete", <<Of(k1), Of(k1), Of(EmptyKey)>>),
     Rpc("Ping", <<>>), Rpc("Stats", <<Of(EmptyKey)>>), Rpc("Get", <<Of(k1)>>),
     Rpc("Exists", <<Of(k1)>>), Rpc("GetTTL", <<Of(k1)>>),
     Rpc("Delete", <<Of(k1)>>), Rpc("Delete", <<Of(EmptyKey)>>),
     Rpc("Set", <<With(k1, Num(2), 17)>>),
     Rpc("SetNX", <<With(k1, Num(3), 3)>>),
     Rpc("Touch", <<With(k1, EmptyText, 1)>>),
     Rpc("Decrement", <<[Of(k1) EXCEPT !.delta = Int64Min]>>),
     Rpc("Incr", <<[Of(k1) EXCEPT !.delta = 2]>>),
     Rpc("CompareAndSwap", <<[Of(k1) EXCEPT !.expected = Num(3),
                                            !.val = Num(1)]>>)}

\* What the handlers may ask of CacheManager.
ServiceRequests(messages) ==
    {r \in UNION {{requestOf(m.rpc, m.items[i]) : i \in 1..Len(m.items)}
                    : m \in messages} :
        r.key = EmptyKey => r.op \in {"get", "remove", "getStats"}}

AllRequests == ServiceRequests(AllMessages)

AnyThread == Permutations(Threads)
=============================================================================
