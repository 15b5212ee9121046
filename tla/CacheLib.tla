----------------------------- MODULE CacheLib -----------------------------
(***************************************************************************)
(* What CacheManager.cc relies on of facebook::cachelib: items with a      *)
(* creation and an expiry second, both uint32_t, lookups that hide expired *)
(* items, and allocation that stamps an item.  CacheLib's code is not in   *)
(* this repository (it is fetched by the build), so these definitions are  *)
(* external; what CacheManager.cc computes FROM an item is in CacheOps.    *)
(***************************************************************************)
EXTENDS CounterText

CONSTANTS
    Modulus,    \* 2^32: item times are uint32_t
    NoItem      \* a null handle, and an unoccupied key

ASSUME ModulusAssumption == Modulus \in Nat \ {0, 1}

U32 == 0..(Modulus - 1)

AddU32(a, b) == IF a + b >= Modulus THEN a + b - Modulus ELSE a + b
SubU32(a, b) == IF a >= b THEN a - b ELSE a - b + Modulus

\* An item: its value and the two seconds stamped on it; expiry 0 is "never".
Item == [val : Text, created : U32, expiry : U32]

ItemOrNone == Item \cup {NoItem}

ASSUME NoItemAssumption == NoItem \notin Item

\* CacheLib's own test is strict: an item is still found in its last second.
isExpired(item, libNow) == item.expiry # 0 /\ item.expiry < libNow

\* cache_->find(key): the item under a key, or null when it has expired.
find(item, libNow) ==
    IF item = NoItem \/ isExpired(item, libNow) THEN NoItem ELSE item

\* cache_->allocate(pool, key, size, ttlSeconds, creationTime): creation time
\* 0 means "now", TTL 0 means no expiry, and the expiry is a uint32_t sum.
allocate(val, ttl, creationTime, libNow) ==
    LET created == IF creationTime = 0 THEN libNow ELSE creationTime
    IN  [val     |-> val,
         created |-> created,
         expiry  |-> IF ttl = 0 THEN 0 ELSE AddU32(created, ttl)]

=============================================================================
