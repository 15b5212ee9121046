---------------------------- MODULE CounterText ----------------------------
(***************************************************************************)
(* The values the cache stores, and the checked 64-bit arithmetic that     *)
(* the counter operations of CacheManager.cc do on them.                   *)
(*                                                                         *)
(* A stored value is a byte string.  What the operations tell apart is     *)
(* whether std::from_chars consumes ALL of it, the number it then denotes, *)
(* whether it is the text std::to_string prints for that number, and       *)
(* whether it is longer than maxItemSize.  So a text is a record:          *)
(*   canon   what std::to_string(n) prints;                                *)
(*   padded  another spelling of n that from_chars accepts ("007", "-0");  *)
(*   junk    not a whole base-10 integer ("5abc", "7.9", the empty string);*)
(*   large   a value of more than maxItemSize bytes.                       *)
(* For the last two, n only tells different strings apart.                 *)
(***************************************************************************)
EXTENDS Integers

CONSTANTS
    Int64Min,   \* std::numeric_limits<int64_t>::min()
    Int64Max    \* std::numeric_limits<int64_t>::max()

ASSUME Int64Assumption ==
    /\ Int64Max \in Nat \ {0}
    /\ Int64Min = -Int64Max - 1

Int64 == Int64Min..Int64Max

Kinds == {"canon", "padded", "junk", "large"}

Text == [kind : Kinds, n : Int]

EmptyText == [kind |-> "junk", n |-> 0]

toString(n) == [kind |-> "canon", n |-> n]

-----------------------------------------------------------------------------
\* The whole text is a base-10 integer, and it fits in an int64_t.
parseWholeInt64(text) ==
    [ok  |-> text.kind \in {"canon", "padded"} /\ text.n \in Int64,
     out |-> IF text.n \in Int64 THEN text.n ELSE 0]

\* What the two's complement hardware leaves of a sum that does not fit.
WrapInt64(n) ==
    IF n > Int64Max THEN n - (Int64Max - Int64Min + 1)
    ELSE IF n < Int64Min THEN n + (Int64Max - Int64Min + 1)
    ELSE n

\* An unchecked sum: what Incr did before it refused to overflow.
uncheckedAdd(base, delta) == [ok |-> TRUE, out |-> WrapInt64(base + delta)]

\* The sum, refused when it would overflow; neither test overflows itself.
checkedAdd(base, delta) ==
    [ok  |-> /\ ~(delta > 0 /\ base > Int64Max - delta)
             /\ ~(delta < 0 /\ base < Int64Min - delta),
     out |-> WrapInt64(base + delta)]

\* The negation, refused for the one int64_t that has none.
checkedNegate(delta) ==
    [ok |-> delta # Int64Min, out |-> WrapInt64(-delta)]
=============================================================================
