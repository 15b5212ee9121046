-------------------------- MODULE GlobMatchProofs --------------------------
(***************************************************************************)
(* Theorems about matchesPattern for keys and patterns of any length over  *)
(* any characters: its verdict is what the glob means, and its work is     *)
(* bounded by the product of the lengths.                                  *)
(***************************************************************************)
EXTENDS GlobMatch, WellFoundedInduction, TLAPS

\* The ends of the key and of the pattern.
EndK == Len(key) + 1
EndP == Len(pattern) + 1

\* The arguments are texts and the positions lie in them, the backtrack point
\* behind the position at hand and by as much in the key as in the pattern.
Positions ==
    /\ key \in Seq(KeyChars) /\ pattern \in Seq(PatternChars)
    /\ k \in 1..EndK /\ p \in 1..EndP
    /\ starPos \in 0..Len(pattern) /\ starPos < p
    /\ starKey \in 1..k
    /\ starPos = 0 => starKey = 1
    /\ starPos # 0 => pattern[starPos] = "*"
    /\ verdict \in {"running", "yes", "no"}

\* What each character that the last '*' has swallowed has cost at most.
Cost == (starKey - 1) * EndP
WorkSoFar ==
    /\ work \in Nat
    /\ verdict = "running" => work <= Cost + (p - 1)
    /\ work <= Cost + p

-----------------------------------------------------------------------------
\* The product of two natural numbers is one.
LEMMA Product == \A a, b \in Nat : a * b \in Nat
  OBVIOUS

\* Multiplying by more gives more, and one time more gives that much more.
LEMMA ProductGrows ==
    /\ \A a, b, c \in Nat : a <= b => a * c <= b * c
    /\ \A a, c \in Nat : (a + 1) * c = a * c + c
  <1>1. \A a, b, c \in Nat : a <= b => a * c <= b * c
    <2> SUFFICES ASSUME NEW a \in Nat, NEW b \in Nat, NEW c \in Nat, a <= b
                 PROVE  a * c <= b * c
      OBVIOUS
    <2>1. b - a \in Nat
      OBVIOUS
    <2>2. (b - a) * c \in Nat
      BY <2>1, Product
    <2>3. b * c = a * c + (b - a) * c
      OBVIOUS
    <2> QED
      BY <2>2, <2>3
  <1>2. \A a, c \in Nat : (a + 1) * c = a * c + c
    OBVIOUS
  <1> QED
    BY <1>1, <1>2

\* The arguments are chosen and the positions are at their beginning.
LEMMA InitPositions == Init => Positions /\ WorkSoFar
  <1> SUFFICES ASSUME Init PROVE Positions /\ WorkSoFar
    OBVIOUS
  <1>1. PICK n \in 0..MaxKey : key \in [1..n -> KeyChars]
    BY DEF Init, Texts
  <1>2. PICK m \in 0..MaxPattern : pattern \in [1..m -> PatternChars]
    BY DEF Init, Texts
  <1>3. key \in Seq(KeyChars) /\ pattern \in Seq(PatternChars)
    BY <1>1, <1>2, GlobAssumption
  <1>4. Len(key) \in Nat /\ Len(pattern) \in Nat
    BY <1>3
  <1>5. Cost = 0 * EndP /\ 0 * EndP = 0
    BY <1>4 DEF Init, Cost, EndP
  <1> QED
    BY <1>3, <1>4, <1>5 DEF Init, Positions, WorkSoFar, EndK, EndP

\* Every iteration keeps the positions in bounds.
LEMMA NextPositions == Positions /\ [Next]_vars => Positions'
  <1> SUFFICES ASSUME Positions, [Next]_vars PROVE Positions'
    OBVIOUS
  <1> USE DEF Positions, EndK, EndP, Iterate, InKey, InPattern
  <1>0. Len(key) \in Nat /\ Len(pattern) \in Nat
    OBVIOUS
  <1>1. CASE Advance
    BY <1>0, <1>1 DEF Advance, SameChar
  <1>2. CASE OpenStar
    BY <1>0, <1>2 DEF OpenStar
  <1>3. CASE Backtrack
    BY <1>0, <1>3 DEF Backtrack
  <1>4. CASE Mismatch
    BY <1>0, <1>4 DEF Mismatch
  <1>5. CASE SkipStar
    BY <1>0, <1>5 DEF SkipStar
  <1>6. CASE Finish
    BY <1>0, <1>6 DEF Finish
  <1>7. CASE UNCHANGED vars
    BY <1>7 DEF vars
  <1> QED
    BY <1>1, <1>2, <1>3, <1>4, <1>5, <1>6, <1>7 DEF Next, Returned

\* A '*' that swallows one more character pays for the comparisons behind it.
LEMMA NextWork == Positions /\ Positions' /\ WorkSoFar /\ [Next]_vars => WorkSoFar'
  <1> SUFFICES ASSUME Positions, Positions', WorkSoFar, [Next]_vars PROVE WorkSoFar'
    OBVIOUS
  <1>0. /\ Len(key) \in Nat /\ Len(pattern) \in Nat /\ EndP \in Nat
        /\ starKey - 1 \in Nat /\ starKey' - 1 \in Nat
        /\ p \in 1..EndP /\ k \in Nat
    <2>1. Len(key) \in Nat /\ Len(pattern) \in Nat /\ Len(key') \in Nat
      BY DEF Positions
    <2>2. starKey \in 1..k /\ k \in 1..(Len(key) + 1)
      BY DEF Positions, EndK
    <2>3. starKey' \in 1..k' /\ k' \in 1..(Len(key') + 1)
      BY DEF Positions, EndK
    <2>4. p \in 1..EndP
      BY DEF Positions
    <2>5. starKey - 1 \in Nat /\ k \in Nat
      BY <2>1, <2>2
    <2>6. starKey' - 1 \in Nat
      <3> DEFINE s2 == starKey'  k2 == k'  n2 == Len(key')
      <3>1. n2 \in Nat /\ s2 \in 1..k2 /\ k2 \in 1..(n2 + 1)
        BY <2>1, <2>3
      <3> HIDE DEF s2, k2, n2
      <3>2. s2 - 1 \in Nat
        BY <3>1
      <3> QED
        BY <3>2 DEF s2
    <2>7. EndP \in Nat
      BY <2>1 DEF EndP
    <2> QED
      BY <2>1, <2>4, <2>5, <2>6, <2>7
  <1>1. Cost \in Nat /\ Cost' \in Nat
    <2>1. EndP' \in Nat
      BY DEF Positions, EndP
    <2> QED
      BY <1>0, <2>1, Product DEF Cost
  <1>2. CASE Advance \/ Mismatch \/ SkipStar \/ Finish
    <2>1. Cost' = Cost
      BY <1>2 DEF Advance, Mismatch, SkipStar, Finish, Iterate, Cost, EndP
    <2> QED
      BY <1>0, <1>1, <1>2, <2>1 DEF Advance, Mismatch, SkipStar, Finish, Iterate, WorkSoFar
  <1>3. CASE OpenStar
    <2>1. starKey - 1 <= k - 1 /\ k - 1 \in Nat
      BY <1>0 DEF Positions
    <2>2. Cost' = (k - 1) * EndP
      BY <1>3 DEF OpenStar, Iterate, Cost, EndP
    <2>3. Cost <= Cost'
      BY <1>0, <2>1, <2>2, ProductGrows DEF Cost
    <2>4. work' = work + 1 /\ p' = p + 1 /\ work \in Nat /\ work <= Cost + (p - 1)
      BY <1>3 DEF OpenStar, Iterate, WorkSoFar
    <2>5. work' \in Nat /\ work' <= Cost' + (p' - 1) /\ work' <= Cost' + p'
      <3> DEFINE c == Cost  c2 == Cost'
      <3>1. p \in Nat
        BY <1>0
      <3>2. c \in Nat /\ c2 \in Nat /\ c <= c2 /\ work <= c + (p - 1)
        BY <1>1, <2>3, <2>4
      <3> HIDE DEF c, c2
      <3>3. work + 1 <= c2 + ((p + 1) - 1) /\ work + 1 <= c2 + (p + 1)
        BY <2>4, <3>1, <3>2
      <3> QED
        BY <2>4, <3>3 DEF c2
    <2> QED
      BY <2>5 DEF WorkSoFar
  <1>4. CASE Backtrack
    <2>1. Cost' = ((starKey - 1) + 1) * EndP
      <3>1. starKey' - 1 = (starKey - 1) + 1 /\ EndP' = EndP
        BY <1>0, <1>4 DEF Backtrack, Iterate, EndP, Positions
      <3> QED
        BY <3>1 DEF Cost
    <2>2. Cost' = Cost + EndP
      BY <1>0, <2>1, ProductGrows DEF Cost
    <2>3. p' = starPos + 1 /\ starPos \in Nat
      BY <1>4 DEF Backtrack, Positions
    <2> QED
      BY <1>0, <1>1, <1>4, <2>2, <2>3 DEF Backtrack, Iterate, WorkSoFar
  <1>5. CASE UNCHANGED vars
    BY <1>5 DEF vars, WorkSoFar, Cost, EndP
  <1> QED
    BY <1>2, <1>3, <1>4, <1>5 DEF Next, Returned

\* The positions and the work, throughout.
LEMMA PositionsInvariance == Spec => [](Positions /\ WorkSoFar)
  BY InitPositions, NextPositions, NextWork, PTL DEF Spec

\* "a worst case of O(len(key) * len(pattern))": no key and no pattern make the
\* matcher iterate more often (CacheManager.cc:760-799).
THEOREM WorkBoundedHolds == Spec => []WorkBounded
  <1>1. Positions /\ WorkSoFar => WorkBounded
    <2> SUFFICES ASSUME Positions, WorkSoFar PROVE WorkBounded
      OBVIOUS
    <2>1. /\ Len(key) \in Nat /\ EndP \in Nat /\ p \in Nat /\ p <= EndP
          /\ starKey - 1 \in Nat /\ starKey - 1 <= Len(key)
      BY DEF Positions, EndK, EndP
    <2>2. Cost <= Len(key) * EndP
      BY <2>1, ProductGrows DEF Cost
    <2>3. (Len(key) + 1) * EndP = Len(key) * EndP + EndP
      BY <2>1, ProductGrows
    <2>4. Cost \in Nat /\ Len(key) * EndP \in Nat
      BY <2>1, Product DEF Cost
    <2>5. work <= (Len(key) + 1) * EndP
      BY <2>1, <2>2, <2>3, <2>4 DEF WorkSoFar
    <2> QED
      BY <2>5 DEF WorkBounded, EndP
  <1> QED
    BY <1>1, PositionsInvariance, PTL
-----------------------------------------------------------------------------
\* The verdict.  stops says where each '*' of the pattern stops matching.
Alignments == [Stars(pattern) -> 1..EndK]
FitsUpTo(stops, n) == \A j \in 1..(n - 1) : Fits(key, pattern, stops, j)
IsMatch(stops) == FitsUpTo(stops, EndP) /\ from(stops, EndP) = EndK
StarFree == \A i \in DOMAIN key : key[i] # "*"

\* The characters so far match up to the position at hand, and those before the
\* most recent '*' match without what it swallows.
Reached ==
    /\ \E stops \in Alignments : FitsUpTo(stops, p) /\ from(stops, p) = k
    /\ starPos # 0 =>
         \E stops \in Alignments : FitsUpTo(stops, starPos) /\ from(stops, starPos) <= starKey

\* No match of a key without '*' is overlooked: each has the most recent '*' stop
\* where it is now or later, and the position at hand is the first possible.
Ahead(stops) ==
    /\ from(stops, starPos + 1) >= starKey
    /\ from(stops, p) >= k
    /\ InKey /\ from(stops, starPos + 1) = starKey => from(stops, p) = k
Overlooked == StarFree => \A stops \in Alignments : IsMatch(stops) => Ahead(stops)

Verdicts ==
    /\ pattern = <<>> => verdict = "yes"
    /\ verdict = "yes" => Matches(key, pattern)
    /\ verdict = "no" /\ StarFree => \A stops \in Alignments : ~IsMatch(stops)

\* A set of positions has a last one.
LEMMA LastOf ==
    ASSUME NEW n \in Nat, NEW T, T \subseteq 1..n, T # {}
    PROVE  \E j \in T : \A l \in T : l <= j
  <1> DEFINE R == {ss \in Nat \X Nat : ss[1] < ss[2]}
             U == {n - j : j \in T}
  <1>1. IsWellFoundedOn(R, Nat)
    BY NatLessThanWellFounded DEF OpToRel
  <1>2. U \subseteq Nat /\ U # {}
    <2>1. \A j \in T : j \in 1..n
      OBVIOUS
    <2>2. \A j \in 1..n : n - j \in Nat
      OBVIOUS
    <2> QED
      BY <2>1, <2>2
  <1> HIDE DEF R, U
  <1>3. PICK u \in U : \A v \in U : ~(<<v, u>> \in R)
    BY <1>1, <1>2, WFMin
  <1>4. PICK j \in T : u = n - j
    BY <1>3 DEF U
  <1>5. ASSUME NEW l \in T PROVE l <= j
    <2>1. n - l \in U /\ n - l \in Nat /\ u \in Nat
      BY <1>2, <1>3 DEF U
    <2>2. ~(n - l < u)
      BY <1>3, <2>1 DEF R
    <2> QED
      BY <1>4, <2>2
  <1> QED
    BY <1>5

\* The stars are positions of the pattern.
LEMMA StarsIn ==
    ASSUME Positions
    PROVE  Stars(pattern) \subseteq 1..Len(pattern) /\ Len(pattern) \in Nat /\ Len(key) \in Nat
  BY DEF Positions, Stars

\* The first character of the pattern begins with the first of the key.
LEMMA FromFirst ==
    ASSUME Positions, NEW stops \in Alignments
    PROVE  from(stops, 1) = 1
  <1>1. {s \in DOMAIN stops : s < 1} = {}
    BY StarsIn DEF Alignments
  <1> QED
    BY <1>1 DEF from

\* What follows a '*' begins where that stops.
LEMMA FromStar ==
    ASSUME Positions, NEW stops \in Alignments, NEW j \in 1..Len(pattern), pattern[j] = "*"
    PROVE  from(stops, j + 1) = stops[j] /\ stops[j] \in 1..EndK
  <1> DEFINE earlier == {s \in DOMAIN stops : s < j + 1}
             last == CHOOSE s \in earlier : \A r \in earlier : r <= s
  <1>1. DOMAIN stops \subseteq 1..Len(pattern) /\ j \in DOMAIN stops
    BY StarsIn DEF Alignments, Stars, Positions
  <1>2. j \in earlier /\ \A r \in earlier : r <= j /\ r \in Nat
    BY <1>1
  <1>5. from(stops, j + 1) = stops[last] + ((j + 1) - last - 1)
    <2>1. earlier # {}
      BY <1>2
    <2> QED
      BY <2>1 DEF from
  <1> HIDE DEF earlier
  <1>3. last \in earlier /\ \A r \in earlier : r <= last
    BY <1>2
  <1> HIDE DEF last
  <1>4. last = j
    BY <1>2, <1>3
  <1>6. stops[j] \in 1..EndK
    BY <1>1 DEF Alignments
  <1>7. stops[j] \in Nat
    BY <1>6
  <1> QED
    BY <1>4, <1>5, <1>6, <1>7

\* Every other character takes one of the key.
LEMMA FromNext ==
    ASSUME Positions, NEW stops \in Alignments, NEW j \in 1..Len(pattern), pattern[j] # "*"
    PROVE  from(stops, j + 1) = from(stops, j) + 1 /\ from(stops, j) \in Nat
  <1> DEFINE earlier(i) == {s \in DOMAIN stops : s < i}
             last(i) == CHOOSE s \in earlier(i) : \A r \in earlier(i) : r <= s
  <1>1. DOMAIN stops \subseteq 1..Len(pattern) /\ j \notin DOMAIN stops
    BY StarsIn DEF Alignments, Stars
  <1>2. earlier(j + 1) = earlier(j)
    BY <1>1
  <1>3. last(j + 1) = last(j)
    BY <1>2
  <1>4. CASE earlier(j) = {}
    BY <1>2, <1>4 DEF from
  <1>5. CASE earlier(j) # {}
    <2>1. \E s \in earlier(j) : \A r \in earlier(j) : r <= s
      BY <1>1, <1>5, LastOf, StarsIn
    <2>2. last(j) \in earlier(j)
      BY <2>1
    <2>3. last(j) \in 1..Len(pattern) /\ last(j) < j /\ stops[last(j)] \in 1..EndK
      BY <1>1, <2>2 DEF Alignments
    <2>4. from(stops, j) = stops[last(j)] + (j - last(j) - 1)
      BY <1>5 DEF from
    <2>5. from(stops, j + 1) = stops[last(j + 1)] + ((j + 1) - last(j + 1) - 1)
      BY <1>2, <1>5 DEF from
    <2> DEFINE l == last(j)  v == stops[l]
    <2>6. l \in Nat /\ l < j /\ v \in Nat
      BY <2>3, StarsIn DEF EndK
    <2>7. from(stops, j) = v + (j - l - 1) /\ from(stops, j + 1) = v + ((j + 1) - l - 1)
      BY <2>4, <2>5, <1>3
    <2> HIDE DEF l, v, last, earlier
    <2> QED
      BY <2>6, <2>7
  <1> QED
    BY <1>4, <1>5

\* Where a '*' stops matters only for what comes behind it.
LEMMA FromSame ==
    ASSUME Positions, NEW stops \in Alignments, NEW s \in Stars(pattern), NEW v \in 1..EndK,
           NEW n \in Nat, n <= s, FitsUpTo(stops, n)
    PROVE  LET other == [stops EXCEPT ![s] = v]
           IN  /\ other \in Alignments
               /\ FitsUpTo(other, n)
               /\ from(other, n) = from(stops, n)
  <1> DEFINE other == [stops EXCEPT ![s] = v]
  <1>1. other \in Alignments /\ DOMAIN other = DOMAIN stops
    BY DEF Alignments
  <1>2. \A r \in DOMAIN stops : r # s => other[r] = stops[r]
    BY DEF Alignments
  <1>3. s \in Nat /\ DOMAIN stops \subseteq Nat
    BY StarsIn DEF Alignments
  <1> HIDE DEF other
  <1>4. ASSUME NEW j \in Nat, j <= s PROVE from(other, j) = from(stops, j)
    <2> DEFINE earlier == {r \in DOMAIN stops : r < j}
               last == CHOOSE r \in earlier : \A q \in earlier : q <= r
    <2>1. earlier = {r \in DOMAIN other : r < j}
      BY <1>1
    <2>2. CASE earlier = {}
      BY <2>1, <2>2 DEF from
    <2>3. CASE earlier # {}
      <3>1. \E r \in earlier : \A q \in earlier : q <= r
        BY <2>3, LastOf, StarsIn DEF Alignments
      <3>2. last \in earlier
        BY <3>1
      <3>3. last # s /\ last \in DOMAIN stops
        <4> HIDE DEF last
        <4>1. last \in DOMAIN stops /\ last < j
          BY <3>2
        <4> QED
          BY <1>3, <1>4, <4>1
      <3>4. other[last] = stops[last]
        BY <1>2, <3>3
      <3>5. from(stops, j) = stops[last] + (j - last - 1)
        BY <2>3 DEF from
      <3>6. from(other, j) = other[last] + (j - last - 1)
        BY <2>1, <2>3 DEF from
      <3> QED
        BY <3>4, <3>5, <3>6
    <2> QED
      BY <2>2, <2>3
  <1>5. ASSUME NEW j \in 1..(n - 1) PROVE Fits(key, pattern, other, j)
    <2>1. j \in Nat /\ j < s /\ j <= s
      BY <1>3
    <2>2. from(other, j) = from(stops, j)
      BY <1>4, <2>1
    <2>3. Fits(key, pattern, stops, j)
      BY DEF FitsUpTo
    <2>4. pattern[j] = "*" => other[j] = stops[j]
      <3>1. ASSUME pattern[j] = "*" PROVE j \in DOMAIN stops
        BY <2>1, <3>1, <1>3, StarsIn DEF Alignments, Stars, Positions
      <3> QED
        BY <1>2, <2>1, <3>1
    <2> QED
      BY <2>2, <2>3, <2>4 DEF Fits
  <1> QED
    BY <1>1, <1>4, <1>5 DEF FitsUpTo, other

\* Positions of an alignment are numbers.
LEMMA FromNat ==
    ASSUME Positions, NEW stops \in Alignments, NEW j \in 1..EndP
    PROVE  from(stops, j) \in Nat
  <1>1. CASE j = 1
    BY <1>1, FromFirst
  <1>2. CASE j # 1
    <2>1. j - 1 \in 1..Len(pattern) /\ (j - 1) + 1 = j
      BY <1>2, StarsIn DEF EndP
    <2>2. CASE pattern[j - 1] = "*"
      <3>1. from(stops, j) \in 1..EndK
        BY <2>1, <2>2, FromStar
      <3> QED
        BY <3>1
    <2>3. CASE pattern[j - 1] # "*"
      BY <2>1, <2>3, FromNext
    <2> QED
      BY <2>2, <2>3
  <1> QED
    BY <1>1, <1>2

VerdictInv == Positions /\ Reached /\ Overlooked /\ Verdicts

\* The beginning: nothing is matched yet, and the fast path is right.
LEMMA InitVerdict == Init => VerdictInv
  <1> SUFFICES ASSUME Init PROVE VerdictInv
    OBVIOUS
  <1>1. Positions
    BY InitPositions
  <1>2. EndK \in Nat /\ 1 \in 1..EndK /\ EndK \in 1..EndK /\ Len(pattern) \in Nat
    BY <1>1, StarsIn DEF EndK
  <1>3. Reached
    <2> DEFINE stops == [s \in Stars(pattern) |-> 1]
    <2>1. stops \in Alignments
      BY <1>2 DEF Alignments
    <2> HIDE DEF stops
    <2>2. FitsUpTo(stops, 1) /\ from(stops, 1) = 1
      BY <1>1, <2>1, FromFirst DEF FitsUpTo
    <2> QED
      BY <2>1, <2>2 DEF Reached, Init
  <1>4. Overlooked
    <2> SUFFICES ASSUME NEW stops \in Alignments PROVE Ahead(stops)
      BY DEF Overlooked
    <2>1. from(stops, 1) = 1
      BY <1>1, FromFirst
    <2> QED
      BY <2>1 DEF Ahead, Init
  <1>5. verdict = "yes" => Matches(key, pattern)
    <2> SUFFICES ASSUME pattern = <<"*">> PROVE Matches(key, pattern)
      BY DEF Init, matchesAll, Matches
    <2> DEFINE stops == [s \in Stars(pattern) |-> EndK]
    <2>1. stops \in Alignments
      BY <1>2 DEF Alignments
    <2>2. Len(pattern) = 1 /\ pattern[1] = "*" /\ 1 \in 1..Len(pattern) /\ DOMAIN pattern = {1}
      OBVIOUS
    <2>3. stops[1] = EndK
      BY <2>2 DEF Stars
    <2> HIDE DEF stops
    <2>4. from(stops, 1) = 1 /\ from(stops, 2) = EndK
      BY <1>1, <2>1, <2>2, <2>3, FromFirst, FromStar
    <2>5. \A j \in DOMAIN pattern : Fits(key, pattern, stops, j)
      BY <1>2, <2>2, <2>3, <2>4 DEF Fits
    <2>6. stops \in [Stars(pattern) -> 1..(Len(key) + 1)] /\ EndK = Len(key) + 1
      BY <2>1 DEF Alignments, EndK
    <2>7. from(stops, Len(pattern) + 1) = Len(key) + 1
      BY <2>2, <2>4, <2>6
    <2> QED
      BY <2>5, <2>6, <2>7 DEF Matches
  <1>6. verdict # "no" /\ (pattern = <<>> => verdict = "yes")
    BY DEF Init, matchesAll
  <1> QED
    BY <1>1, <1>3, <1>4, <1>5, <1>6 DEF VerdictInv, Verdicts

\* A step leaves the arguments, and with them all alignments, alone.
LEMMA SameArguments ==
    ASSUME Iterate \/ UNCHANGED vars
    PROVE  /\ key' = key /\ pattern' = pattern
           /\ EndK' = EndK /\ EndP' = EndP /\ Alignments' = Alignments
           /\ StarFree' = StarFree
           /\ \A stops : IsMatch(stops)' = IsMatch(stops)
           /\ \A stops, n : FitsUpTo(stops, n)' = FitsUpTo(stops, n)
           /\ \A stops, n : from(stops, n)' = from(stops, n)
  <1>1. key' = key /\ pattern' = pattern
    BY DEF Iterate, vars
  <1>2. EndK' = EndK /\ EndP' = EndP /\ StarFree' = StarFree
    BY <1>1 DEF EndK, EndP, StarFree
  <1>3. Alignments' = Alignments
    BY <1>1, <1>2 DEF Alignments
  <1>4. \A stops, n : from(stops, n)' = from(stops, n)
    OBVIOUS
  <1>5. \A stops, n : FitsUpTo(stops, n)' = FitsUpTo(stops, n)
    BY <1>1 DEF FitsUpTo
  <1>6. \A stops : IsMatch(stops)' = IsMatch(stops)
    BY <1>2, <1>4, <1>5 DEF IsMatch
  <1> QED
    BY <1>1, <1>2, <1>3, <1>4, <1>5, <1>6

\* One more character that fits.
LEMMA FitsOneMore ==
    ASSUME NEW stops, NEW n \in Nat \ {0}, FitsUpTo(stops, n), Fits(key, pattern, stops, n)
    PROVE  FitsUpTo(stops, n + 1)
  <1>1. \A j \in 1..((n + 1) - 1) : j = n \/ j \in 1..(n - 1)
    OBVIOUS
  <1> QED
    BY <1>1 DEF FitsUpTo

\* Every iteration reaches its position by a match of what is behind it.
LEMMA NextReached ==
    ASSUME Positions, Positions', Reached, Next, Iterate
    PROVE  Reached'
  <1>0. /\ p \in 1..EndP /\ k \in 1..EndK /\ p \in Nat \ {0} /\ k \in Nat
        /\ EndK = Len(key) + 1 /\ EndP = Len(pattern) + 1
        /\ Len(key) \in Nat /\ Len(pattern) \in Nat
    BY StarsIn DEF Positions, EndK, EndP
  <1>1. PICK stops \in Alignments : FitsUpTo(stops, p) /\ from(stops, p) = k
    BY DEF Reached
  <1>2. ASSUME starPos' = starPos, starKey' = starKey,
               NEW other \in Alignments, FitsUpTo(other, p'), from(other, p') = k'
        PROVE  Reached'
    BY <1>2, SameArguments DEF Reached
  <1>3. CASE Advance
    <2>1. p \in 1..Len(pattern) /\ k \in 1..Len(key) /\ pattern[p] \in {"?", key[k]}
      BY <1>0, <1>3 DEF Advance, SameChar, InPattern, InKey
    <2>2. p' = p + 1 /\ k' = k + 1 /\ starPos' = starPos /\ starKey' = starKey
      BY <1>3 DEF Advance
    <2>3. CASE pattern[p] # "*"
      <3>1. Fits(key, pattern, stops, p)
        BY <1>1, <2>1, <2>3 DEF Fits
      <3>2. FitsUpTo(stops, p + 1)
        BY <1>0, <1>1, <3>1, FitsOneMore
      <3>3. from(stops, p + 1) = k + 1
        BY <1>1, <2>1, <2>3, FromNext
      <3> QED
        BY <1>2, <2>2, <3>2, <3>3
    <2>4. CASE pattern[p] = "*"
      <3> DEFINE other == [stops EXCEPT ![p] = k + 1]
      <3>1. p \in Stars(pattern) /\ k + 1 \in 1..EndK
        BY <1>0, <2>1, <2>4 DEF Stars, Positions
      <3>2. other \in Alignments /\ FitsUpTo(other, p) /\ from(other, p) = k
        BY <1>0, <1>1, <3>1, FromSame
      <3>3. other[p] = k + 1
        BY <3>1 DEF Alignments
      <3> HIDE DEF other
      <3>4. Fits(key, pattern, other, p)
        BY <1>0, <2>4, <3>2, <3>3 DEF Fits
      <3>5. FitsUpTo(other, p + 1)
        BY <1>0, <3>2, <3>4, FitsOneMore
      <3>6. from(other, p + 1) = k + 1
        BY <2>1, <2>4, <3>2, <3>3, FromStar
      <3> QED
        BY <1>2, <2>2, <3>2, <3>5, <3>6
    <2> QED
      BY <2>3, <2>4
  <1>4. CASE OpenStar \/ SkipStar
    <2>1. p \in 1..Len(pattern) /\ pattern[p] = "*" /\ p' = p + 1 /\ k' = k
      BY <1>0, <1>4 DEF OpenStar, SkipStar, InPattern
    <2> DEFINE other == [stops EXCEPT ![p] = k]
    <2>2. p \in Stars(pattern)
      BY <2>1 DEF Stars, Positions
    <2>3. other \in Alignments /\ FitsUpTo(other, p) /\ from(other, p) = k
      BY <1>0, <1>1, <2>2, FromSame
    <2>4. other[p] = k
      BY <2>2 DEF Alignments
    <2> HIDE DEF other
    <2>5. Fits(key, pattern, other, p)
      BY <1>0, <2>1, <2>3, <2>4 DEF Fits
    <2>6. FitsUpTo(other, p + 1) /\ from(other, p + 1) = k
      BY <1>0, <2>1, <2>3, <2>4, <2>5, FitsOneMore, FromStar
    <2>7. CASE OpenStar
      <3>1. starPos' = p /\ starKey' = k
        BY <2>7 DEF OpenStar
      <3>2. FitsUpTo(stops, starPos') /\ from(stops, starPos') <= starKey'
        BY <1>0, <1>1, <3>1
      <3> QED
        BY <1>1, <2>1, <2>3, <2>6, <3>2, SameArguments DEF Reached
    <2>8. CASE SkipStar
      BY <1>2, <2>1, <2>3, <2>6, <2>8 DEF SkipStar
    <2> QED
      BY <1>4, <2>7, <2>8
  <1>5. CASE Backtrack
    <2>1. /\ starPos \in Stars(pattern) /\ starPos \in 1..Len(pattern) /\ starPos \in Nat \ {0}
          /\ starKey + 1 \in 1..EndK /\ starKey \in Nat
          /\ p' = starPos + 1 /\ k' = starKey + 1 /\ starKey' = starKey + 1 /\ starPos' = starPos
          /\ pattern[starPos] = "*"
      BY <1>0, <1>5 DEF Backtrack, Positions, Stars, InKey
    <2>2. PICK before \in Alignments :
             FitsUpTo(before, starPos) /\ from(before, starPos) <= starKey
      BY <2>1 DEF Reached
    <2>3. from(before, starPos) \in Nat
      BY <1>0, <2>1, FromNat
    <2> DEFINE other == [before EXCEPT ![starPos] = starKey + 1]
    <2>4. other \in Alignments /\ FitsUpTo(other, starPos)
          /\ from(other, starPos) = from(before, starPos)
      BY <2>1, <2>2, FromSame
    <2>5. other[starPos] = starKey + 1
      BY <2>1 DEF Alignments
    <2> HIDE DEF other
    <2>6. Fits(key, pattern, other, starPos)
      BY <2>1, <2>2, <2>3, <2>4, <2>5 DEF Fits
    <2>7. FitsUpTo(other, starPos + 1) /\ from(other, starPos + 1) = starKey + 1
      BY <2>1, <2>4, <2>5, <2>6, FitsOneMore, FromStar
    <2>8. from(before, starPos) <= starKey'
      BY <2>1, <2>2, <2>3
    <2> QED
      BY <2>1, <2>2, <2>4, <2>7, <2>8, SameArguments DEF Reached
  <1>6. CASE Mismatch \/ Finish
    BY <1>1, <1>2, <1>6 DEF Mismatch, Finish
  <1>7. CASE Returned
    BY <1>7 DEF Returned, Iterate
  <1> QED
    BY <1>3, <1>4, <1>5, <1>6, <1>7 DEF Next

\* What a match says of a character of the pattern: it takes one of the key, or
\* it is a '*' and takes any number.
LEMMA MatchStep ==
    ASSUME Positions, NEW stops \in Alignments, IsMatch(stops), NEW j \in 1..Len(pattern)
    PROVE  /\ from(stops, j) \in Nat /\ from(stops, j + 1) \in Nat
           /\ pattern[j] = "*" => from(stops, j) <= from(stops, j + 1)
           /\ pattern[j] # "*" => /\ from(stops, j + 1) = from(stops, j) + 1
                                  /\ from(stops, j) <= Len(key)
                                  /\ pattern[j] \in {"?", key[from(stops, j)]}
  <1>1. Fits(key, pattern, stops, j)
    BY StarsIn DEF IsMatch, FitsUpTo, EndP
  <1>2. from(stops, j) \in Nat /\ from(stops, j + 1) \in Nat
    BY StarsIn, FromNat DEF EndP
  <1>3. CASE pattern[j] = "*"
    BY <1>1, <1>2, <1>3, FromStar DEF Fits
  <1>4. CASE pattern[j] # "*"
    BY <1>1, <1>2, <1>4, FromNext DEF Fits
  <1> QED
    BY <1>2, <1>3, <1>4

\* Where the characters differ, a match cannot be at this position.
LEMMA NotHere ==
    ASSUME Positions, NEW stops \in Alignments, IsMatch(stops), InKey, ~SameChar,
           ~(InPattern /\ pattern[p] = "*")
    PROVE  from(stops, p) # k
  <1>1. p \in 1..EndP /\ k \in Nat /\ k <= Len(key) /\ Len(key) \in Nat /\ Len(pattern) \in Nat
    BY StarsIn DEF Positions, InKey, EndK
  <1>2. CASE InPattern
    <2>1. p \in 1..Len(pattern) /\ pattern[p] # "*" /\ pattern[p] \notin {"?", key[k]}
      BY <1>1, <1>2 DEF InPattern, SameChar
    <2>2. pattern[p] \in {"?", key[from(stops, p)]}
      BY <2>1, MatchStep
    <2> QED
      BY <2>1, <2>2
  <1>3. CASE ~InPattern
    <2>1. p = EndP
      BY <1>1, <1>3 DEF InPattern, EndP
    <2>2. from(stops, p) = Len(key) + 1
      BY <2>1 DEF IsMatch, EndK
    <2> QED
      BY <1>1, <2>2
  <1> QED
    BY <1>2, <1>3

\* No iteration passes over a match, as long as no '*' is in the key.
LEMMA NextOverlooked ==
    ASSUME Positions, Overlooked, Next, Iterate
    PROVE  Overlooked'
  <1> SUFFICES ASSUME StarFree, NEW stops \in Alignments, IsMatch(stops), Ahead(stops)
               PROVE  Ahead(stops)'
    BY SameArguments DEF Overlooked
  <1> DEFINE f(j) == from(stops, j)
  <1>0. /\ p \in 1..EndP /\ k \in Nat /\ starKey \in Nat
        /\ starPos + 1 \in 1..EndP
        /\ EndK = Len(key) + 1 /\ EndP = Len(pattern) + 1
        /\ Len(key) \in Nat /\ Len(pattern) \in Nat
        /\ (InKey => k \in DOMAIN key)
    BY StarsIn DEF Positions, EndK, EndP, InKey
  <1>1. f(p) \in Nat /\ f(starPos + 1) \in Nat
    BY <1>0, FromNat
  <1>2. f(starPos + 1) >= starKey /\ f(p) >= k
        /\ (InKey /\ f(starPos + 1) = starKey => f(p) = k)
    BY DEF Ahead
  <1>3. InKey' = (k' <= Len(key))
    BY SameArguments DEF InKey
  <1>4. \A n : from(stops, n)' = from(stops, n)
    BY SameArguments
  <1>5. CASE Advance
    <2>1. /\ p \in 1..Len(pattern) /\ p' = p + 1 /\ k' = k + 1
          /\ starPos' = starPos /\ starKey' = starKey /\ InKey
          /\ pattern[p] \in {"?", key[k]}
      BY <1>0, <1>5 DEF Advance, SameChar, InPattern
    <2>2. pattern[p] # "*"
      BY <1>0, <2>1 DEF StarFree
    <2>3. f(p + 1) = f(p) + 1
      BY <2>1, <2>2, MatchStep
    <2>4. f(p') >= k' /\ (f(starPos + 1) = starKey => f(p') = k')
      BY <1>0, <1>1, <1>2, <2>1, <2>3
    <2> QED
      BY <1>2, <2>1, <2>4 DEF Ahead
  <1>6. CASE OpenStar
    <2>1. /\ p \in 1..Len(pattern) /\ pattern[p] = "*" /\ p' = p + 1 /\ k' = k
          /\ starPos' = p /\ starKey' = k
      BY <1>0, <1>6 DEF OpenStar, InPattern
    <2>2. f(p) <= f(p + 1) /\ f(p + 1) \in Nat
      BY <2>1, MatchStep
    <2>3. f(p + 1) >= k
      BY <1>0, <1>1, <1>2, <2>2
    <2> QED
      BY <2>1, <2>3 DEF Ahead
  <1>7. CASE Backtrack
    <2>1. /\ p' = starPos + 1 /\ k' = starKey + 1 /\ starKey' = starKey + 1
          /\ starPos' = starPos /\ InKey
      BY <1>7 DEF Backtrack
    <2>2. f(p) # k
      BY <1>7, NotHere DEF Backtrack
    <2>3. f(starPos + 1) >= starKey + 1
      BY <1>0, <1>1, <1>2, <2>1, <2>2
    <2> QED
      BY <2>1, <2>3 DEF Ahead
  <1>8. CASE SkipStar
    <2>1. /\ p \in 1..Len(pattern) /\ pattern[p] = "*" /\ p' = p + 1 /\ k' = k
          /\ starPos' = starPos /\ starKey' = starKey /\ ~InKey
      BY <1>0, <1>8 DEF SkipStar, InPattern
    <2>2. f(p) <= f(p + 1) /\ f(p + 1) \in Nat
      BY <2>1, MatchStep
    <2>3. f(p + 1) >= k
      BY <1>0, <1>1, <1>2, <2>2
    <2>4. ~InKey'
      BY <1>3, <2>1 DEF InKey
    <2> QED
      BY <1>2, <2>1, <2>3, <2>4 DEF Ahead
  <1>9. CASE Mismatch \/ Finish
    BY <1>2, <1>3, <1>9 DEF Mismatch, Finish, Ahead, InKey
  <1>10. CASE Returned
    BY <1>10 DEF Returned, Iterate
  <1> QED
    BY <1>5, <1>6, <1>7, <1>8, <1>9, <1>10 DEF Next

\* The verdict is given on a match, or when there is none.
LEMMA NextVerdicts ==
    ASSUME VerdictInv, Next, Iterate
    PROVE  Verdicts'
  <1>0. /\ Positions /\ p \in 1..EndP /\ k \in 1..EndK
        /\ EndK = Len(key) + 1 /\ EndP = Len(pattern) + 1
        /\ Len(key) \in Nat /\ Len(pattern) \in Nat
    BY StarsIn DEF VerdictInv, Positions, EndK, EndP
  <1>7. pattern' # <<>>
    BY DEF VerdictInv, Verdicts, Iterate
  <1>1. CASE verdict' = "running"
    BY <1>1, <1>7 DEF Verdicts
  <1>2. CASE Mismatch
    <2>1. verdict' = "no"
      BY <1>2 DEF Mismatch
    <2>2. ASSUME StarFree, NEW stops \in Alignments, IsMatch(stops) PROVE FALSE
      <3>1. starPos = 0 /\ starKey = 1 /\ InKey
        BY <1>0, <1>2 DEF Mismatch, Positions
      <3>2. from(stops, starPos + 1) = starKey
        BY <1>0, <3>1, FromFirst
      <3>3. from(stops, p) = k
        BY <2>2, <3>1, <3>2 DEF VerdictInv, Overlooked, Ahead
      <3>4. from(stops, p) # k
        BY <1>0, <1>2, <2>2, NotHere DEF Mismatch
      <3> QED
        BY <3>3, <3>4
    <2> QED
      BY <1>7, <2>1, <2>2, SameArguments DEF Verdicts
  <1>3. CASE Finish /\ p = Len(pattern) + 1
    <2>1. verdict' = "yes" /\ k = EndK /\ p = EndP
      BY <1>0, <1>3 DEF Finish, InKey
    <2>2. PICK stops \in Alignments : FitsUpTo(stops, EndP) /\ from(stops, EndP) = EndK
      BY <2>1 DEF VerdictInv, Reached
    <2>3. \A j \in DOMAIN pattern : Fits(key, pattern, stops, j)
      <3>1. \A j \in DOMAIN pattern : j \in 1..(EndP - 1)
        BY <1>0 DEF Positions
      <3> QED
        BY <2>2, <3>1 DEF FitsUpTo
    <2>4. Matches(key, pattern)
      BY <1>0, <2>2, <2>3 DEF Matches, Alignments
    <2>5. key' = key /\ pattern' = pattern
      BY SameArguments
    <2>6. Matches(key, pattern)'
      BY <2>4, <2>5
    <2> QED
      BY <1>7, <2>1, <2>6 DEF Verdicts
  <1>4. CASE Finish /\ p # Len(pattern) + 1
    <2>1. /\ verdict' = "no" /\ k = EndK /\ p \in 1..Len(pattern) /\ pattern[p] # "*"
      BY <1>0, <1>4 DEF Finish, InKey, InPattern
    <2>2. ASSUME StarFree, NEW stops \in Alignments, IsMatch(stops) PROVE FALSE
      <3>1. from(stops, p) >= k
        BY <2>2 DEF VerdictInv, Overlooked, Ahead
      <3>2. from(stops, p) <= Len(key) /\ from(stops, p) \in Nat
        BY <1>0, <2>1, <2>2, MatchStep
      <3> QED
        BY <1>0, <2>1, <3>1, <3>2
    <2> QED
      BY <1>7, <2>1, <2>2, SameArguments DEF Verdicts
  <1>5. CASE Advance \/ OpenStar \/ Backtrack \/ SkipStar
    BY <1>1, <1>5 DEF Advance, OpenStar, Backtrack, SkipStar, Iterate
  <1>6. CASE Returned
    BY <1>6 DEF Returned, Iterate
  <1> QED
    BY <1>2, <1>3, <1>4, <1>5, <1>6 DEF Next

\* What is matched, what is ahead and the verdict, throughout.
LEMMA NextVerdict == VerdictInv /\ [Next]_vars => VerdictInv'
  <1> SUFFICES ASSUME VerdictInv, [Next]_vars PROVE VerdictInv'
    OBVIOUS
  <1>1. CASE Next /\ Iterate
    <2>1. Positions'
      BY <1>1, NextPositions DEF VerdictInv
    <2> QED
      BY <1>1, <2>1, NextReached, NextOverlooked, NextVerdicts DEF VerdictInv
  <1>2. CASE UNCHANGED vars
    <2>1. Positions'
      BY <1>2, NextPositions DEF VerdictInv
    <2>2. Reached' = Reached
      BY <1>2, SameArguments DEF vars, Reached
    <2>3. Overlooked' = Overlooked
      BY <1>2, SameArguments DEF vars, Overlooked, Ahead, InKey
    <2>4. Matches(key, pattern)' = Matches(key, pattern)
      BY <1>2 DEF vars
    <2>5. Verdicts' = Verdicts
      BY <1>2, <2>4, SameArguments DEF vars, Verdicts
    <2> QED
      BY <2>1, <2>2, <2>3, <2>5 DEF VerdictInv
  <1>3. Next => Iterate \/ UNCHANGED vars
    BY DEF Next, Advance, OpenStar, Backtrack, Mismatch, SkipStar, Finish, Returned
  <1> QED
    BY <1>1, <1>2, <1>3

\* One backtrack point is enough: whatever the key and the pattern, a key that is
\* accepted is one the glob describes, and one that is refused is not, unless it
\* contains a '*' itself (CacheManager.cc:764-799).
THEOREM VerdictCorrectHolds == Spec => []VerdictCorrect
  <1>1. ASSUME VerdictInv PROVE VerdictCorrect
    <2>1. verdict = "yes" => Matches(key, pattern)
      BY <1>1 DEF VerdictInv, Verdicts
    <2>2. ASSUME verdict = "no", StarFree, Matches(key, pattern) PROVE FALSE
      <3>1. \A stops \in Alignments : ~IsMatch(stops)
        BY <1>1, <2>2 DEF VerdictInv, Verdicts
      <3>2. CASE pattern = <<>>
        BY <1>1, <2>2, <3>2 DEF VerdictInv, Verdicts
      <3>3. CASE pattern # <<>>
        <4>1. PICK stops \in [Stars(pattern) -> 1..(Len(key) + 1)] :
                 /\ \A j \in DOMAIN pattern : Fits(key, pattern, stops, j)
                 /\ from(stops, Len(pattern) + 1) = Len(key) + 1
          BY <2>2, <3>3 DEF Matches
        <4>2. \A j \in 1..(EndP - 1) : j \in DOMAIN pattern
          BY <1>1, StarsIn DEF VerdictInv, Positions, EndP
        <4>3. stops \in Alignments /\ IsMatch(stops)
          BY <4>1, <4>2 DEF Alignments, IsMatch, FitsUpTo, EndK, EndP
        <4> QED
          BY <3>1, <4>3
      <3> QED
        BY <3>2, <3>3
    <2> QED
      BY <2>1, <2>2 DEF VerdictCorrect, StarFree
  <1> QED
    BY <1>1, InitVerdict, NextVerdict, PTL DEF Spec
=============================================================================
