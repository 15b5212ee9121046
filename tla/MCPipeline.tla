----------------------------- MODULE MCPipeline -----------------------------
(***************************************************************************)
(* One stream that writes and reads a key, next to a thread that deletes   *)
(* it.                                                                     *)
(***************************************************************************)
EXTENDS Pipeline, TLC

CONSTANT k1

MinInt64 == -4

Of(k) == [key |-> k, val |-> EmptyText, expected |-> EmptyText, ttl |-> 0,
          delta |-> 0, keep |-> FALSE]
With(k, v) == [Of(k) EXCEPT !.val = v]

Frame(rpc, i) == [rpc |-> rpc, item |-> i]

SomeFrames ==
    {Frame("Set", With(k1, toString(1))), Frame("Set", With(k1, toString(2))),
     Frame("Get", Of(k1)), Frame("Delete", Of(k1)), Frame("Exists", Of(EmptyKey)),
     Frame("Unknown", Of(EmptyKey))}

Deletes == {requestOf("Delete", Of(k1))}

Asked == Deletes \cup {requestOf(f.rpc, f.item) : f \in {g \in SomeFrames : inBandError(g) = ""}}
=============================================================================
