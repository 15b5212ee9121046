---------------------------- MODULE MCCacheWalk ----------------------------
(***************************************************************************)
(* Three keys in one bucket and one in the next, all but one of which      *)
(* match the pattern, and page sizes on both sides of the clamps.          *)
(***************************************************************************)
EXTENDS CacheWalk

FourKeys   == {"a", "b", "c", "d"}
TwoBuckets == [k \in FourKeys |-> IF k = "d" THEN 2 ELSE 1]
FourPlaces == 1..4
ThreeMatch == {"a", "b", "d"}
PageSizes  == {-1, 1, 5}
=============================================================================
