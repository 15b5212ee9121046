---------------------------- MODULE RpcMessages ----------------------------
(***************************************************************************)
(* How the handlers of CacheServiceImpl.cc turn one item of a message into *)
(* a call of CacheManager.                                                 *)
(***************************************************************************)
EXTENDS CacheOps

CONSTANT EmptyKey    \* the key "", which most handlers refuse

\* What a handler calls.
opOf(rpc) ==
    CASE rpc \in {"Get", "MultiGet"}       -> "get"
      [] rpc \in {"Set", "MultiSet"}       -> "set"
      [] rpc \in {"Delete", "MultiDelete"} -> "remove"
      [] rpc = "Exists"         -> "exists"
      [] rpc = "SetNX"          -> "setNX"
      [] rpc = "Increment"      -> "increment"
      [] rpc = "Decrement"      -> "decrement"
      [] rpc = "Incr"           -> "incr"
      [] rpc = "CompareAndSwap" -> "compareAndSwap"
      [] rpc = "GetTTL"         -> "getTTL"
      [] rpc = "Touch"          -> "touch"
      [] rpc = "Stats"          -> "getStats"

\* The cast without the test for a positive TTL.
ttlCast(ttl) == ttl % Modulus

\* ttl_seconds is an int64_t, and its cast to uint32_t drops the high bits.
ttlNarrowed(ttl) == IF ttl > 0 THEN ttl % Modulus ELSE 0

\* One item of a message as a call to CacheManager.
requestOf(rpc, i) ==
    [op |-> opOf(rpc), key |-> i.key, val |-> i.val, expected |-> i.expected,
     ttl |-> ttlNarrowed(i.ttl), delta |-> IF i.delta = 0 THEN 1 ELSE i.delta,
     keep |-> i.keep]
=============================================================================
