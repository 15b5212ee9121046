-------------------------- MODULE CacheWalkProofs --------------------------
(***************************************************************************)
(* Theorems about scan and flush for any table, pattern, page sizes and    *)
(* number of changes by others.                                            *)
(***************************************************************************)
EXTENDS CacheWalk, FiniteSetTheorems, WellFoundedInduction, TLAPS

\* The walk has still to come to k.
Ahead(k) == BucketOf[k] > bucket \/ k \in DOMAIN batch

\* Moved, for the cursors in C.
MovedBy(k, C) == k \in gone \/ \E c \in C \cap gone : BucketOf[c] = BucketOf[k]

\* k comes no later in the table than c.
UpTo(k, c) ==
    \/ BucketOf[k] < BucketOf[c]
    \/ BucketOf[k] = BucketOf[c] /\ place[k] # 0 /\ place[k] <= place[c]

\* k comes later in the table than c.
After(k, c) ==
    \/ BucketOf[k] > BucketOf[c]
    \/ BucketOf[k] = BucketOf[c] /\ place[k] > place[c]

\* The pages so far end with c: what they returned comes up to it, what they
\* did not comes after it.
EndWith(c, C) ==
    /\ c \in Keys /\ c \in C
    /\ c \in gone \/ place[c] # 0
    /\ \A i \in DOMAIN seen : MovedBy(seen[i], C) \/ UpTo(seen[i], c)
    /\ \A k \in steady \cap Matching :
          Returned(k) \/ MovedBy(k, C) \/ After(k, c)

WalkTypes ==
    /\ place \in [Keys -> {0} \cup Places] /\ Chained(place)
    /\ bucket \in 1..End
    /\ batch \in [DOMAIN batch -> Places]
    /\ \A k \in DOMAIN batch : k \in Keys /\ BucketOf[k] = bucket
    /\ \A j, k \in DOMAIN batch : batch[j] = batch[k] => j = k
    /\ steady \subseteq Present /\ steady \cap gone = {}
    /\ seen \in Seq(Keys) /\ page \in Seq(Keys)
    /\ count \in Nat \ {0}
    /\ removed \in Nat /\ start \in Nat /\ added \in Nat /\ dropped \in Nat

\* The batch of a scan is the chain of its bucket, but for what has been visited
\* and what others have done since.
BatchTrue ==
    mode = "scan" =>
        /\ \A k \in DOMAIN batch : k \in gone \/ place[k] = batch[k]
        /\ \A k \in steady : BucketOf[k] = bucket =>
              k \in DOMAIN batch \/ \A j \in DOMAIN batch : place[k] < batch[j]

\* What the pages have returned, and what is still ahead.
PassedOnce ==
    mode = "scan" /\ past => \A i \in DOMAIN seen :
        \/ Moved(seen[i])
        \/ BucketOf[seen[i]] < bucket
        \/ /\ BucketOf[seen[i]] = bucket /\ place[seen[i]] # 0
           /\ \A j \in DOMAIN batch : place[seen[i]] < batch[j]

LeftAhead ==
    mode = "scan" /\ past => \A k \in steady \cap Matching :
        Returned(k) \/ Moved(k) \/ Ahead(k)

\* The keys of the page lie behind the iterator.
PageBehind ==
    /\ mode = "scan" => \A i \in DOMAIN page : ~Ahead(page[i])
    /\ mode = "scan" /\ Len(page) >= count =>
          past /\ EndWith(Last(page), cursors \cup {Last(page)})

\* A cursor under way is one that was given out, and is ahead unless it is gone.
CursorMet ==
    /\ mode = "scan" /\ ~past =>
          /\ EndWith(cursor, cursors)
          /\ cursor \in gone \/ Ahead(cursor)
          /\ page = <<>>
    /\ mode = "page" /\ more =>
          EndWith(nextCursor, cursors)

Beginning ==
    /\ mode = "idle" => seen = <<>> /\ page = <<>> /\ past
    /\ mode \in {"idle", "scan"} => ~more

\* A flush has removed what it has passed, and the books balance.
FlushBehind ==
    /\ mode = "flush" => \A k \in steady : Ahead(k)
    /\ mode = "flushed" => steady = {}

Balance == Cardinality(Present) = start + added - dropped - removed

ScanInv ==
    /\ BatchTrue /\ PassedOnce /\ LeftAhead /\ PageBehind /\ CursorMet
    /\ Beginning /\ NoKeyTwice /\ SteadyKeysReturned

WalkInv == WalkTypes /\ ScanInv /\ FlushBehind /\ Balance

-----------------------------------------------------------------------------
\* A set of natural numbers has a least element.
LEMMA LeastOf ==
    ASSUME NEW T, T \subseteq Nat, T # {}
    PROVE  \E j \in T : \A l \in T : j <= l
  <1> DEFINE R == {ss \in Nat \X Nat : ss[1] < ss[2]}
  <1>1. IsWellFoundedOn(R, Nat)
    BY NatLessThanWellFounded DEF OpToRel
  <1> HIDE DEF R
  <1>2. \E j \in T : \A l \in T : <<l, j>> \notin R
    BY <1>1, WFMin
  <1>3. ASSUME NEW j \in T, NEW l \in T, <<l, j>> \notin R PROVE j <= l
    BY <1>3 DEF R
  <1> QED
    BY <1>2, <1>3


\* Moved is MovedBy all the cursors.
LEMMA MovedCursors == \A k : Moved(k) <=> MovedBy(k, cursors)
  BY DEF Moved, MovedBy

\* The iterator stands on the first of its batch.
LEMMA HereFirst ==
    ASSUME WalkTypes, DOMAIN batch # {}
    PROVE  /\ Here \in DOMAIN batch /\ Here \in Keys /\ BucketOf[Here] = bucket
           /\ batch[Here] \in Nat \ {0}
           /\ \A j \in DOMAIN batch \ {Here} : batch[Here] < batch[j]
  <1> DEFINE T == {batch[k] : k \in DOMAIN batch}
  <1>1. \A k \in DOMAIN batch : batch[k] \in Nat \ {0}
    BY WalkAssumption DEF WalkTypes
  <1>2. T \subseteq Nat /\ T # {}
    BY <1>1
  <1>3. PICK v \in T : \A l \in T : v <= l
    BY <1>2, LeastOf
  <1>4. \E k \in DOMAIN batch : \A j \in DOMAIN batch : batch[k] <= batch[j]
    BY <1>3
  <1>5. Here \in DOMAIN batch /\ \A j \in DOMAIN batch : batch[Here] <= batch[j]
    BY <1>4 DEF Here
  <1> HIDE DEF T
  <1>6. ASSUME NEW j \in DOMAIN batch \ {Here} PROVE batch[Here] < batch[j]
    <2>1. batch[j] # batch[Here]
      BY <1>5 DEF WalkTypes
    <2> QED
      BY <1>1, <1>5, <2>1
  <1> QED
    BY <1>1, <1>5, <1>6 DEF WalkTypes

\* The chain of a bucket is a batch.
LEMMA ChainTypes ==
    ASSUME WalkTypes, NEW b \in 1..End
    PROVE  /\ Chain(b) \in [DOMAIN Chain(b) -> Places]
           /\ \A k \in Keys : k \in DOMAIN Chain(b) <=> place[k] # 0 /\ BucketOf[k] = b
           /\ \A k \in DOMAIN Chain(b) : k \in Keys /\ Chain(b)[k] = place[k]
           /\ \A j, k \in DOMAIN Chain(b) : Chain(b)[j] = Chain(b)[k] => j = k
  <1>1. DOMAIN Chain(b) = {j \in Present : BucketOf[j] = b}
    BY DEF Chain
  <1>2. \A k \in DOMAIN Chain(b) : Chain(b)[k] = place[k] /\ k \in Keys
    BY DEF Chain, Present
  <1>3. \A k \in DOMAIN Chain(b) : place[k] \in Places
    BY <1>1 DEF Present, WalkTypes
  <1>4. Chain(b) \in [DOMAIN Chain(b) -> Places]
    BY <1>1, <1>3 DEF Chain
  <1>5. ASSUME NEW j \in DOMAIN Chain(b), NEW k \in DOMAIN Chain(b),
               Chain(b)[j] = Chain(b)[k]
        PROVE  j = k
    <2>1. /\ j \in Keys /\ k \in Keys /\ BucketOf[j] = b /\ BucketOf[k] = b
          /\ place[j] # 0
      BY <1>1 DEF Present
    <2>2. place[j] = place[k]
      BY <1>2, <1>5
    <2> QED
      BY <2>1, <2>2 DEF WalkTypes, Chained
  <1> QED
    BY <1>1, <1>2, <1>4, <1>5 DEF Present

-----------------------------------------------------------------------------
\* A step of the iterator.
Moves ==
    \/ \E b \in 1..End : Enter(b)
    \/ Leave /\ DOMAIN batch # {}
    \/ UNCHANGED iterator

\* It keeps a batch a batch.
LEMMA MovesTypes ==
    ASSUME WalkTypes, Moves
    PROVE  /\ bucket' \in 1..End
           /\ batch' \in [DOMAIN batch' -> Places]
           /\ \A k \in DOMAIN batch' : k \in Keys /\ BucketOf[k] = bucket'
           /\ \A j, k \in DOMAIN batch' : batch'[j] = batch'[k] => j = k
  <1>1. ASSUME NEW b \in 1..End, Enter(b)
        PROVE  /\ batch' \in [DOMAIN batch' -> Places] /\ bucket' \in 1..End
               /\ \A k \in DOMAIN batch' : k \in Keys /\ BucketOf[k] = bucket'
               /\ \A j, k \in DOMAIN batch' : batch'[j] = batch'[k] => j = k
    <2>1. bucket' = b /\ batch' = Chain(b)
      BY <1>1 DEF Enter
    <2> QED
      BY <2>1, ChainTypes
  <1>2. CASE Leave /\ DOMAIN batch # {}
    <2>1. /\ DOMAIN batch' = DOMAIN batch \ {Here} /\ bucket' = bucket
          /\ \A k \in DOMAIN batch' : batch'[k] = batch[k]
          /\ batch' \in [DOMAIN batch' -> Places]
      BY <1>2 DEF Leave, WalkTypes
    <2> QED
      BY <2>1 DEF WalkTypes
  <1>3. CASE UNCHANGED iterator
    BY <1>3 DEF iterator, WalkTypes
  <1> QED
    BY <1>1, <1>2, <1>3 DEF Moves

\* The types, and the balance of the books, after every step.
LEMMA NextTypes ==
    ASSUME WalkTypes, Balance, [Next]_vars
    PROVE  WalkTypes' /\ Balance'
  <1>0. /\ End \in Nat /\ 1 \in 1..End
        /\ \A c \in Counts : clampCount(c) \in Nat \ {0}
    BY WalkAssumption DEF End, clampCount
  <1>1. IsFiniteSet(Present) /\ Cardinality(Present) \in Nat
    BY WalkAssumption, FS_Subset, FS_CardinalityType DEF Present
  <1>2. Visits => DOMAIN batch # {}
    BY DEF Visits, Settled
  <1>3. Visits => Here \in Keys
    BY <1>2, HereFirst
  <1>4. Moves /\ UNCHANGED <<place, removed, steady, gone, start, added, dropped>>
          /\ seen' \in Seq(Keys) /\ page' \in Seq(Keys) /\ count' \in Nat \ {0}
        => WalkTypes' /\ Balance'
    <2> SUFFICES ASSUME Moves,
                    UNCHANGED <<place, removed, steady, gone, start, added, dropped>>,
                    seen' \in Seq(Keys), page' \in Seq(Keys), count' \in Nat \ {0}
                 PROVE  WalkTypes' /\ Balance'
      OBVIOUS
    <2>1. /\ bucket' \in 1..End
          /\ batch' \in [DOMAIN batch' -> Places]
          /\ \A k \in DOMAIN batch' : k \in Keys /\ BucketOf[k] = bucket'
          /\ \A j, k \in DOMAIN batch' : batch'[j] = batch'[k] => j = k
      BY MovesTypes
    <2>2. Present' = Present
      BY DEF Present
    <2> QED
      BY <2>1, <2>2 DEF WalkTypes, Balance, Chained
  <1>5. CASE \E c \in Counts : ScanFirst(c) \/ ScanNext(c)
    <2>1. PICK c \in Counts : ScanFirst(c) \/ ScanNext(c)
      BY <1>5
    <2>2. Moves
      BY <1>0, <2>1 DEF ScanFirst, ScanNext, Moves
    <2>3. /\ UNCHANGED <<place, removed, steady, gone, start, added, dropped, seen>>
          /\ page' \in {page, <<>>} /\ count' = clampCount(c)
      BY <2>1 DEF ScanFirst, ScanNext, others
    <2>4. <<>> \in Seq(Keys)
      OBVIOUS
    <2> QED
      BY <1>0, <1>4, <2>2, <2>3, <2>4 DEF WalkTypes
  <1>6. CASE FlushStart \/ Roll \/ PageFull \/ ScanEnd \/ FlushEnd
    <2>1. Roll => bucket + 1 \in 1..End
      BY <1>0 DEF Roll, Settled, WalkTypes
    <2>2. Moves
      BY <1>0, <1>6, <2>1
      DEF FlushStart, Roll, PageFull, ScanEnd, FlushEnd, iterator, Moves
    <2>3. UNCHANGED <<place, removed, steady, gone, start, added, dropped, seen,
                      page, count>>
      BY <1>6
      DEF FlushStart, Roll, PageFull, ScanEnd, FlushEnd, others, scanVars
    <2> QED
      BY <1>4, <2>2, <2>3 DEF WalkTypes
  <1>7. CASE SkipToCursor \/ PassOver
    <2>1. Moves
      BY <1>2, <1>7 DEF SkipToCursor, PassOver, Moves
    <2>2. UNCHANGED <<place, removed, steady, gone, start, added, dropped, seen,
                      page, count>>
      BY <1>7 DEF SkipToCursor, PassOver, others, scanVars
    <2> QED
      BY <1>4, <2>1, <2>2 DEF WalkTypes
  <1>8. CASE Take
    <2>1. Moves /\ Here \in Keys
      BY <1>2, <1>3, <1>8 DEF Take, Moves
    <2>2. /\ UNCHANGED <<place, removed, steady, gone, start, added, dropped, count>>
          /\ seen' = Append(seen, Here) /\ page' = Append(page, Here)
      BY <1>8 DEF Take, others
    <2>3. seen' \in Seq(Keys) /\ page' \in Seq(Keys)
      BY <2>1, <2>2 DEF WalkTypes
    <2> QED
      BY <1>4, <2>1, <2>2, <2>3 DEF WalkTypes
  <1>9. CASE FlushVisit
    <2>1. /\ Moves /\ Here \in Keys
          /\ removed' = removed + (IF place[Here] # 0 THEN 1 ELSE 0)
          /\ place' = [place EXCEPT ![Here] = 0] /\ steady' = steady \ {Here}
          /\ UNCHANGED <<gone, start, added, dropped, seen, page, count>>
      BY <1>2, <1>3, <1>9 DEF FlushVisit, Moves, others, scanVars
    <2>2. /\ bucket' \in 1..End
          /\ batch' \in [DOMAIN batch' -> Places]
          /\ \A k \in DOMAIN batch' : k \in Keys /\ BucketOf[k] = bucket'
          /\ \A j, k \in DOMAIN batch' : batch'[j] = batch'[k] => j = k
      BY <2>1, MovesTypes
    <2> HIDE DEF Here
    <2>3. Present' = Present \ {Here}
      BY <2>1 DEF Present, WalkTypes
    <2>4. Cardinality(Present') = IF place[Here] # 0 THEN Cardinality(Present) - 1
                                  ELSE Cardinality(Present)
      BY <1>1, <2>1, <2>3, FS_RemoveElement DEF Present
    <2>5. place' \in [Keys -> {0} \cup Places] /\ Chained(place)'
      BY <2>1 DEF WalkTypes, Chained
    <2>6. Balance' /\ removed' \in Nat
      BY <1>1, <2>1, <2>4 DEF WalkTypes, Balance
    <2> QED
      BY <2>1, <2>2, <2>3, <2>5, <2>6 DEF WalkTypes
  <1>10. ASSUME NEW k \in Keys, NEW p \in Places, OtherAdds(k, p)
         PROVE  WalkTypes' /\ Balance'
    <2>1. /\ place' = [place EXCEPT ![k] = p] /\ place[k] = 0 /\ added' = added + 1
          /\ \A j \in Keys : BucketOf[j] = BucketOf[k] => place[j] # p
          /\ UNCHANGED <<bucket, batch, removed, steady, gone, start, dropped, seen,
                         page, count>>
      BY <1>10 DEF OtherAdds, iterator, scanVars
    <2>2. Present' = Present \cup {k} /\ k \notin Present /\ p # 0
      BY <2>1, WalkAssumption DEF Present, WalkTypes
    <2>3. Cardinality(Present') = Cardinality(Present) + 1
      BY <1>1, <2>2, FS_AddElement
    <2>4. place' \in [Keys -> {0} \cup Places] /\ Chained(place)'
      BY <2>1 DEF WalkTypes, Chained
    <2>5. Balance' /\ added' \in Nat
      BY <1>1, <2>1, <2>3 DEF WalkTypes, Balance
    <2> QED
      BY <2>1, <2>2, <2>4, <2>5 DEF WalkTypes
  <1>11. ASSUME NEW k \in Keys, OtherDrops(k) PROVE WalkTypes' /\ Balance'
    <2>1. /\ place' = [place EXCEPT ![k] = 0] /\ place[k] # 0
          /\ steady' = steady \ {k} /\ gone' = gone \cup {k}
          /\ dropped' = dropped + 1
          /\ UNCHANGED <<bucket, batch, removed, start, added, seen, page, count>>
      BY <1>11 DEF OtherDrops, iterator, scanVars
    <2>2. Present' = Present \ {k} /\ k \in Present
      BY <2>1 DEF Present, WalkTypes
    <2>3. Cardinality(Present') = Cardinality(Present) - 1
      BY <1>1, <2>2, FS_RemoveElement
    <2>4. place' \in [Keys -> {0} \cup Places] /\ Chained(place)'
      BY <2>1 DEF WalkTypes, Chained
    <2>5. Balance' /\ dropped' \in Nat
      BY <1>1, <2>1, <2>3 DEF WalkTypes, Balance
    <2> QED
      BY <2>1, <2>2, <2>4, <2>5 DEF WalkTypes
  <1>12. CASE Done \/ UNCHANGED vars
    <2>1. Moves
      BY <1>12 DEF Done, vars, iterator, Moves
    <2>2. UNCHANGED <<place, removed, steady, gone, start, added, dropped, seen,
                      page, count>>
      BY <1>12 DEF Done, vars, others, scanVars
    <2> QED
      BY <1>4, <2>1, <2>2 DEF WalkTypes
  <1> QED
    BY <1>5, <1>6, <1>7, <1>8, <1>9, <1>10, <1>11, <1>12 DEF Next, Walk

\* On entering a bucket, what is present there is ahead.
LEMMA EnterAhead ==
    ASSUME WalkTypes, NEW b \in 1..End, Enter(b)
    PROVE  /\ bucket' = b
           /\ \A k \in Keys : k \in DOMAIN batch' <=> place[k] # 0 /\ BucketOf[k] = b
           /\ \A k \in DOMAIN batch' : batch'[k] = place[k]
           /\ \A k \in Keys : place[k] # 0 /\ BucketOf[k] >= b => Ahead(k)'
           /\ \A k \in Keys : BucketOf[k] < b => ~Ahead(k)'
  <1>1. bucket' = b /\ batch' = Chain(b)
    BY DEF Enter
  <1>2. \A k \in Keys : BucketOf[k] \in Nat
    BY WalkAssumption
  <1>3. b \in Nat
    BY WalkAssumption DEF End
  <1>4. /\ \A k \in Keys : k \in DOMAIN batch' <=> place[k] # 0 /\ BucketOf[k] = b
        /\ \A k \in DOMAIN batch' : batch'[k] = place[k]
    BY <1>1, ChainTypes
  <1> QED
    BY <1>1, <1>2, <1>3, <1>4 DEF Ahead

\* A flush leaves nothing steady behind it.
LEMMA NextFlushBehind ==
    ASSUME WalkTypes, FlushBehind, [Next]_vars
    PROVE  FlushBehind'
  <1>0. /\ End = Buckets + 1 /\ Buckets \in Nat /\ 1 \in 1..End
        /\ \A k \in Keys : BucketOf[k] \in 1..Buckets
    BY WalkAssumption DEF End
  <1>1. \A k \in steady : k \in Keys /\ place[k] # 0
    BY DEF WalkTypes, Present
  <1>2. CASE FlushStart
    <2>1. Enter(1) /\ mode' = "flush" /\ steady' = steady
      BY <1>2 DEF FlushStart
    <2>2. \A k \in steady : Ahead(k)'
      BY <1>0, <1>1, <2>1, EnterAhead
    <2> QED
      BY <2>1, <2>2 DEF FlushBehind
  <1>3. CASE Roll
    <2>1. /\ Enter(bucket + 1) /\ mode' = mode /\ steady' = steady
          /\ mode \in {"scan", "flush"} /\ DOMAIN batch = {} /\ bucket # End
      BY <1>3 DEF Roll, Settled
    <2>2. bucket \in Nat /\ bucket + 1 \in 1..End
      BY <1>0, <2>1 DEF WalkTypes
    <2>3. ASSUME mode = "flush", NEW k \in steady PROVE Ahead(k)'
      <3>1. BucketOf[k] > bucket
        BY <2>1, <2>3 DEF FlushBehind, Ahead
      <3>2. BucketOf[k] >= bucket + 1
        BY <1>0, <1>1, <2>2, <3>1
      <3> QED
        BY <1>1, <2>1, <2>2, <3>2, EnterAhead
    <2> QED
      BY <2>1, <2>3 DEF FlushBehind
  <1>4. CASE FlushVisit
    <2>1. /\ mode = "flush" /\ mode' = "flush" /\ steady' = steady \ {Here}
          /\ bucket' = bucket /\ DOMAIN batch' = DOMAIN batch \ {Here}
      BY <1>4 DEF FlushVisit, Leave
    <2> HIDE DEF Here
    <2> QED
      BY <2>1 DEF FlushBehind, Ahead
  <1>5. CASE FlushEnd
    <2>1. mode = "flush" /\ bucket = End /\ steady' = steady /\ mode' = "flushed"
      BY <1>5 DEF FlushEnd
    <2>2. ASSUME NEW k \in steady PROVE FALSE
      <3>1. Ahead(k) /\ BucketOf[k] \in 1..Buckets
        BY <1>0, <1>1, <2>1, <2>2 DEF FlushBehind
      <3>2. k \in DOMAIN batch => BucketOf[k] = bucket
        BY DEF WalkTypes
      <3> QED
        BY <1>0, <2>1, <3>1, <3>2 DEF Ahead
    <2> QED
      BY <2>1, <2>2 DEF FlushBehind
  <1>6. ASSUME NEW k \in Keys,
               OtherDrops(k) \/ \E p \in Places : OtherAdds(k, p)
        PROVE  FlushBehind'
    BY <1>6 DEF OtherAdds, OtherDrops, iterator, FlushBehind, Ahead
  <1>7. CASE Done \/ UNCHANGED vars
    BY <1>7 DEF Done, vars, iterator, FlushBehind, Ahead
  <1>8. CASE (\E c \in Counts : ScanFirst(c) \/ ScanNext(c))
             \/ SkipToCursor \/ PassOver \/ Take \/ PageFull \/ ScanEnd
    <2>1. mode' \in {"scan", "page"}
      BY <1>8
      DEF ScanFirst, ScanNext, SkipToCursor, PassOver, Take, PageFull, ScanEnd
    <2> QED
      BY <2>1 DEF FlushBehind
  <1> QED
    BY <1>2, <1>3, <1>4, <1>5, <1>6, <1>7, <1>8 DEF Next, Walk

-----------------------------------------------------------------------------
\* Where the keys of the pages are, as long as nobody changes the table.
LEMMA EndWithSame ==
    ASSUME UNCHANGED <<place, steady, gone, seen>>, NEW c, NEW C, NEW D, C \subseteq D,
           EndWith(c, C)
    PROVE  EndWith(c, D)'
  <1>1. \A k : MovedBy(k, C) => MovedBy(k, D)'
    BY DEF MovedBy
  <1>2. \A k : (UpTo(k, c) => UpTo(k, c)') /\ (After(k, c) => After(k, c)')
    BY DEF UpTo, After
  <1>3. \A k : Returned(k) => Returned(k)'
    BY DEF Returned
  <1> QED
    BY <1>1, <1>2, <1>3 DEF EndWith

\* A key is returned twice only if it, or a cursor of its bucket, was removed,
\* and that stays so.
LEMMA NoKeyTwiceStays ==
    ASSUME NoKeyTwice, UNCHANGED seen, page' = page \/ page' = <<>>,
           gone \subseteq gone', cursors \subseteq cursors'
    PROVE  NoKeyTwice'
  <1>1. \A k : Moved(k) => Moved(k)'
    BY DEF Moved
  <1>2. IsInjective(page)'
    BY DEF NoKeyTwice, IsInjective
  <1> QED
    BY <1>1, <1>2 DEF NoKeyTwice

\* A page begins.
LEMMA EnterScan ==
    ASSUME WalkTypes, Enter(1), UNCHANGED <<place, steady, gone, seen>>
    PROVE  /\ BatchTrue'
           /\ \A k \in Keys : place[k] # 0 => Ahead(k)'
  <1>0. /\ 1 \in 1..End /\ \A k \in Keys : BucketOf[k] >= 1
        /\ \A k \in steady : k \in Keys /\ place[k] # 0
    BY WalkAssumption DEF End, WalkTypes, Present
  <1> QED
    BY <1>0, EnterAhead DEF BatchTrue

\* The first page.
LEMMA ScanFirstInv ==
    ASSUME WalkTypes, ScanInv, NEW c \in Counts, ScanFirst(c)
    PROVE  ScanInv'
  <1>1. /\ mode = "idle" /\ mode' = "scan" /\ Enter(1) /\ count' = clampCount(c)
        /\ UNCHANGED <<place, steady, gone, past, page, more, seen, cursors>>
    BY DEF ScanFirst, others
  <1>2. seen = <<>> /\ page = <<>> /\ past /\ ~more
    BY <1>1 DEF ScanInv, Beginning
  <1>3. BatchTrue' /\ \A k \in Keys : place[k] # 0 => Ahead(k)'
    BY <1>1, EnterScan
  <1>4. LeftAhead'
    BY <1>1, <1>3 DEF LeftAhead, WalkTypes, Present
  <1>5. PassedOnce'
    BY <1>1, <1>2 DEF PassedOnce
  <1>6. PageBehind'
    <2>1. count' > 0 /\ Len(page') = 0
      BY <1>1, <1>2, WalkAssumption DEF clampCount
    <2>2. clampCount(c) \in Nat
      BY WalkAssumption DEF clampCount
    <2> QED
      BY <1>1, <1>2, <2>1, <2>2 DEF PageBehind
  <1>7. NoKeyTwice'
    BY <1>1, NoKeyTwiceStays DEF ScanInv
  <1>8. CursorMet' /\ Beginning' /\ SteadyKeysReturned'
    BY <1>1, <1>2 DEF CursorMet, Beginning, SteadyKeysReturned, Over
  <1> QED
    BY <1>3, <1>4, <1>5, <1>6, <1>7, <1>8 DEF ScanInv

\* The next page.
LEMMA ScanNextInv ==
    ASSUME WalkTypes, ScanInv, NEW c \in Counts, ScanNext(c)
    PROVE  ScanInv'
  <1>1. /\ mode = "page" /\ more /\ mode' = "scan" /\ Enter(1)
        /\ count' = clampCount(c) /\ page' = <<>> /\ ~more' /\ cursor' = nextCursor
        /\ past' = (nextCursor = NoKey)
        /\ UNCHANGED <<place, steady, gone, seen, cursors>>
    BY DEF ScanNext, others
  <1>2. EndWith(nextCursor, cursors)
    BY <1>1 DEF ScanInv, CursorMet
  <1>3. nextCursor \in Keys /\ (nextCursor \in gone \/ place[nextCursor] # 0)
    BY <1>2 DEF EndWith
  <1>4. ~past'
    BY <1>1, <1>3, WalkAssumption
  <1>5. BatchTrue' /\ \A k \in Keys : place[k] # 0 => Ahead(k)'
    BY <1>1, EnterScan
  <1>6. EndWith(cursor, cursors)'
    <2>1. PICK v, D : v = nextCursor /\ D = cursors
      OBVIOUS
    <2>2. EndWith(v, D)'
      BY <1>1, <1>2, <2>1, EndWithSame
    <2>3. cursor' = v /\ cursors' = D
      BY <1>1, <2>1
    <2> QED
      BY <2>2, <2>3 DEF EndWith, MovedBy, UpTo, After
  <1>7. CursorMet'
    <2>1. cursor' \in gone' \/ Ahead(cursor)'
      <3>1. cursor' \in gone' \/ (cursor' \in Keys /\ place[cursor'] # 0)
        BY <1>1, <1>3
      <3>2. ASSUME NEW k \in Keys, place[k] # 0, cursor' = k PROVE Ahead(cursor)'
        BY <1>5, <3>2 DEF Ahead
      <3> QED
        BY <3>1, <3>2
    <2> QED
      BY <1>1, <1>6, <2>1 DEF CursorMet
  <1>8. PageBehind'
    <2>1. count' > 0 /\ Len(page') = 0 /\ DOMAIN page' = {} /\ count' \in Nat
      BY <1>1, WalkAssumption DEF clampCount
    <2> QED
      BY <1>1, <2>1 DEF PageBehind
  <1>9. NoKeyTwice'
    BY <1>1, NoKeyTwiceStays DEF ScanInv
  <1>10. PassedOnce' /\ LeftAhead' /\ Beginning' /\ SteadyKeysReturned'
    BY <1>1, <1>4 DEF PassedOnce, LeftAhead, Beginning, SteadyKeysReturned, Over
  <1> QED
    BY <1>5, <1>7, <1>8, <1>9, <1>10 DEF ScanInv

\* Steps that keep the table and the pages keep where the pages end.
LEMMA EndsSame ==
    ASSUME UNCHANGED <<place, steady, gone, seen, cursors, cursor, page>>
    PROVE  /\ EndWith(cursor, cursors) => EndWith(cursor, cursors)'
           /\ EndWith(Last(page), cursors \cup {Last(page)}) =>
                 EndWith(Last(page), cursors \cup {Last(page)})'
           /\ \A k : Moved(k) => Moved(k)'
           /\ \A k : Returned(k) => Returned(k)'
  <1>1. EndWith(cursor, cursors) => EndWith(cursor, cursors)'
    BY DEF EndWith, MovedBy, UpTo, After, Returned
  <1>2. Last(page)' = Last(page)
    BY DEF Last
  <1>3. EndWith(Last(page), cursors \cup {Last(page)}) =>
           EndWith(Last(page), cursors \cup {Last(page)})'
    <2> SUFFICES ASSUME EndWith(Last(page), cursors \cup {Last(page)})
                 PROVE  EndWith(Last(page), cursors \cup {Last(page)})'
      OBVIOUS
    <2>1. PICK v, D : v = Last(page) /\ D = cursors \cup {Last(page)}
      OBVIOUS
    <2>2. EndWith(v, D)'
      <3>1. EndWith(v, D)
        BY <2>1
      <3> QED
        BY <3>1, EndWithSame
    <2>3. Last(page)' = v /\ (cursors \cup {Last(page)})' = D
      BY <1>2, <2>1
    <2> HIDE DEF Last
    <2> QED
      BY <2>2, <2>3 DEF EndWith, MovedBy, UpTo, After
  <1> QED
    BY <1>1, <1>3 DEF Moved, Returned

\* The iterator goes on to the next bucket.
LEMMA RollInv ==
    ASSUME WalkTypes, ScanInv, Roll
    PROVE  ScanInv'
  <1>1. /\ Enter(bucket + 1) /\ mode' = mode /\ DOMAIN batch = {} /\ bucket # End
        /\ mode \in {"scan", "flush"}
        /\ UNCHANGED <<place, steady, gone, cursor, count, past, page, more,
                       nextCursor, seen, cursors>>
    BY DEF Roll, Settled, others, scanVars
  <1>2. /\ bucket \in Nat /\ bucket + 1 \in 1..End
        /\ \A k \in Keys : BucketOf[k] \in Nat
    <2>1. /\ End \in Nat /\ \A k \in Keys : BucketOf[k] \in Nat
      BY WalkAssumption DEF End
    <2>2. bucket \in 1..End
      BY DEF WalkTypes
    <2>3. bucket \in Nat /\ bucket + 1 \in 1..End
      BY <1>1, <2>1, <2>2
    <2> QED
      BY <2>1, <2>3
  <1>3. /\ bucket' = bucket + 1
        /\ \A k \in Keys : k \in DOMAIN batch' <=> place[k] # 0 /\ BucketOf[k] = bucket + 1
        /\ \A k \in DOMAIN batch' : batch'[k] = place[k]
        /\ \A k \in Keys : place[k] # 0 /\ BucketOf[k] >= bucket + 1 => Ahead(k)'
        /\ \A k \in Keys : BucketOf[k] < bucket + 1 => ~Ahead(k)'
    BY <1>1, <1>2, EnterAhead
  <1>4. \A k \in Keys : Ahead(k) => BucketOf[k] >= bucket + 1
    BY <1>1, <1>2 DEF Ahead
  <1>5. \A k \in Keys : place[k] # 0 /\ Ahead(k) => Ahead(k)'
    BY <1>3, <1>4
  <1>6. \A k \in Keys : ~Ahead(k) => ~Ahead(k)'
    BY <1>2, <1>3 DEF Ahead
  <1>7. \A k \in steady : k \in Keys /\ place[k] # 0
    BY DEF WalkTypes, Present
  <1>8. \A i \in DOMAIN seen : seen[i] \in Keys
    BY DEF WalkTypes
  <1>9. \A i \in DOMAIN page : page[i] \in Keys
    BY DEF WalkTypes
  <1>10. BatchTrue'
    BY <1>1, <1>3, <1>7 DEF BatchTrue
  <1>11. PassedOnce'
    <2> SUFFICES ASSUME mode' = "scan", past', NEW i \in DOMAIN seen'
                 PROVE  Moved(seen[i])' \/ BucketOf[seen'[i]] < bucket'
      BY DEF PassedOnce
    <2>1. Moved(seen[i]) \/ BucketOf[seen[i]] < bucket \/ BucketOf[seen[i]] = bucket
      BY <1>1 DEF ScanInv, PassedOnce
    <2>2. Moved(seen[i]) => Moved(seen[i])'
      BY <1>1 DEF Moved
    <2>3. seen[i] \in Keys
      BY <1>1, <1>8
    <2> QED
      BY <1>1, <1>2, <1>3, <2>1, <2>2, <2>3
  <1>12. LeftAhead'
    BY <1>1, <1>5, <1>7, EndsSame DEF ScanInv, LeftAhead
  <1>13. PageBehind'
    <2>1. \A i \in DOMAIN page' : ~Ahead(page[i]) => ~Ahead(page[i])'
      BY <1>1, <1>6, <1>9 DEF Ahead
    <2> QED
      BY <1>1, <2>1, EndsSame DEF ScanInv, PageBehind
  <1>14. CursorMet'
    <2>1. ASSUME mode = "scan", ~past
          PROVE  /\ EndWith(cursor, cursors)' /\ page' = <<>>
                 /\ cursor' \in gone' \/ Ahead(cursor)'
      <3>1. /\ EndWith(cursor, cursors) /\ page = <<>>
            /\ cursor \in gone \/ Ahead(cursor)
        BY <2>1 DEF ScanInv, CursorMet
      <3>2. cursor \in Keys /\ (cursor \in gone \/ place[cursor] # 0)
        BY <3>1 DEF EndWith
      <3>3. PICK k \in Keys : k = cursor
        BY <3>2
      <3>4. k \in gone \/ Ahead(k)'
        BY <1>5, <3>1, <3>2, <3>3
      <3>5. cursor' \in gone' \/ Ahead(cursor)'
        BY <1>1, <3>3, <3>4 DEF Ahead
      <3> QED
        BY <1>1, <3>1, <3>5, EndsSame
    <2> QED
      BY <1>1, <2>1 DEF CursorMet
  <1>15. NoKeyTwice'
    BY <1>1, NoKeyTwiceStays DEF ScanInv
  <1>16. Beginning' /\ SteadyKeysReturned'
    BY <1>1 DEF ScanInv, Beginning, SteadyKeysReturned, Over
  <1> QED
    BY <1>10, <1>11, <1>12, <1>13, <1>14, <1>15, <1>16 DEF ScanInv

\* What is left of a batch without its first key.
LEMMA LeaveBatch ==
    ASSUME WalkTypes, BatchTrue, mode = "scan", Visits, Leave,
           UNCHANGED <<place, steady, gone>>
    PROVE  /\ BatchTrue'
           /\ Here \in DOMAIN batch /\ Here \in Keys /\ BucketOf[Here] = bucket
           /\ Here \in gone \/ (place[Here] = batch[Here] /\ place[Here] # 0)
           /\ batch[Here] \in Nat
           /\ bucket' = bucket /\ DOMAIN batch' = DOMAIN batch \ {Here}
           /\ \A j \in DOMAIN batch' : batch'[j] = batch[j] /\ batch[Here] < batch[j]
           /\ \A k : Ahead(k)' <=> Ahead(k) /\ k # Here
           /\ bucket \in Nat /\ \A k \in Keys : place[k] \in Nat /\ BucketOf[k] \in Nat
  <1>1. DOMAIN batch # {}
    BY DEF Visits, Settled
  <1>2. /\ Here \in DOMAIN batch /\ Here \in Keys /\ BucketOf[Here] = bucket
        /\ batch[Here] \in Nat \ {0}
        /\ \A j \in DOMAIN batch \ {Here} : batch[Here] < batch[j]
    BY <1>1, HereFirst
  <1>3. /\ bucket' = bucket /\ DOMAIN batch' = DOMAIN batch \ {Here}
        /\ \A j \in DOMAIN batch' : batch'[j] = batch[j]
    BY DEF Leave
  <1> HIDE DEF Here
  <1>4. Here \in gone \/ place[Here] = batch[Here]
    BY <1>2 DEF BatchTrue
  <1>5. bucket \in Nat /\ \A k \in Keys : place[k] \in Nat /\ BucketOf[k] \in Nat
    BY WalkAssumption DEF WalkTypes, End
  <1>6. \A k : Ahead(k)' <=> Ahead(k) /\ k # Here
    BY <1>2, <1>3, <1>5 DEF Ahead
  <1>7. BatchTrue'
    <2>1. \A k \in DOMAIN batch' : k \in gone' \/ place'[k] = batch'[k]
      BY <1>3 DEF BatchTrue
    <2>2. ASSUME NEW k \in steady', BucketOf[k] = bucket'
          PROVE  k \in DOMAIN batch' \/ \A j \in DOMAIN batch' : place'[k] < batch'[j]
      <3>1. CASE k = Here
        BY <1>2, <1>3, <1>4, <3>1 DEF WalkTypes
      <3>2. CASE k # Here
        BY <1>3, <2>2, <3>2 DEF BatchTrue
      <3> QED
        BY <3>1, <3>2
    <2> QED
      BY <2>1, <2>2 DEF BatchTrue
  <1> QED
    BY <1>2, <1>3, <1>4, <1>5, <1>6, <1>7

\* The skip: on meeting the cursor, what the pages have not returned is ahead.
LEMMA SkipInv ==
    ASSUME WalkTypes, ScanInv, SkipToCursor
    PROVE  ScanInv'
  <1>1. /\ mode = "scan" /\ Visits /\ ~past /\ past' = (Here = cursor) /\ Leave
        /\ mode' = mode
        /\ UNCHANGED <<place, steady, gone, cursor, count, page, more, nextCursor,
                       seen, cursors>>
    BY DEF SkipToCursor, others
  <1>2. /\ EndWith(cursor, cursors) /\ page = <<>>
        /\ cursor \in gone \/ Ahead(cursor)
    BY <1>1 DEF ScanInv, CursorMet
  <1>3. /\ BatchTrue'
        /\ Here \in DOMAIN batch /\ Here \in Keys /\ BucketOf[Here] = bucket
        /\ Here \in gone \/ (place[Here] = batch[Here] /\ place[Here] # 0)
        /\ batch[Here] \in Nat
        /\ bucket' = bucket /\ DOMAIN batch' = DOMAIN batch \ {Here}
        /\ \A j \in DOMAIN batch' : batch'[j] = batch[j] /\ batch[Here] < batch[j]
        /\ \A k : Ahead(k)' <=> Ahead(k) /\ k # Here
        /\ bucket \in Nat /\ \A k \in Keys : place[k] \in Nat /\ BucketOf[k] \in Nat
    BY <1>1, LeaveBatch DEF ScanInv
  <1> HIDE DEF Here
  <1>4. \A i \in DOMAIN seen : seen[i] \in Keys
    BY DEF WalkTypes
  <1>5. \A j \in DOMAIN batch : batch[j] \in Nat
    BY WalkAssumption DEF WalkTypes
  <1>6. CASE Here = cursor
    <2>1. cursor \in gone => \A k : BucketOf[k] = bucket => Moved(k)
      BY <1>2, <1>3, <1>6 DEF Moved, EndWith
    <2>2. PassedOnce'
      <3> SUFFICES ASSUME NEW i \in DOMAIN seen
                   PROVE  \/ Moved(seen[i])
                          \/ BucketOf[seen[i]] < bucket
                          \/ /\ BucketOf[seen[i]] = bucket /\ place[seen[i]] # 0
                             /\ \A j \in DOMAIN batch' : place[seen[i]] < batch'[j]
        BY <1>1, <1>3, EndsSame DEF PassedOnce
      <3>1. Moved(seen[i]) \/ UpTo(seen[i], cursor)
        BY <1>2, MovedCursors DEF EndWith
      <3>2. ASSUME BucketOf[seen[i]] = bucket, place[seen[i]] # 0,
                   place[seen[i]] <= place[cursor], cursor \notin gone,
                   NEW j \in DOMAIN batch'
            PROVE  place[seen[i]] < batch'[j]
        <4>1. place[cursor] = batch[Here] /\ batch'[j] = batch[j]
              /\ batch[Here] < batch[j] /\ batch[j] \in Nat
          BY <1>3, <1>5, <1>6, <3>2
        <4>2. place[seen[i]] \in Nat /\ batch[Here] \in Nat
          BY <1>3, <1>4
        <4> QED
          BY <3>2, <4>1, <4>2
      <3> QED
        BY <1>3, <1>6, <2>1, <3>1, <3>2 DEF UpTo
    <2>3. LeftAhead'
      <3> SUFFICES ASSUME NEW k \in steady \cap Matching
                   PROVE  Returned(k) \/ Moved(k) \/ Ahead(k)'
        BY <1>1, EndsSame DEF LeftAhead
      <3>0. k \in Keys /\ k \in steady
        BY DEF WalkTypes, Present
      <3>1. Returned(k) \/ Moved(k) \/ After(k, cursor)
        BY <1>2, MovedCursors DEF EndWith
      <3>2. CASE BucketOf[k] > BucketOf[cursor]
        BY <1>3, <1>6, <3>2 DEF Ahead
      <3>3. ASSUME BucketOf[k] = BucketOf[cursor], place[k] > place[cursor],
                   cursor \notin gone
            PROVE  Ahead(k)'
        <4>1. place[Here] = batch[Here] /\ place[k] \in Nat /\ batch[Here] \in Nat
          BY <1>3, <1>6, <3>0, <3>3
        <4>2. ~(place[k] < batch[Here]) /\ k # Here
          BY <1>6, <3>3, <4>1
        <4>3. k \in DOMAIN batch
          BY <1>1, <1>3, <1>6, <3>0, <3>3, <4>2 DEF ScanInv, BatchTrue
        <4> QED
          BY <1>3, <4>2, <4>3 DEF Ahead
      <3> QED
        BY <1>3, <1>6, <2>1, <3>1, <3>2, <3>3 DEF After
    <2>4. past' /\ ~more' /\ mode' = "scan" /\ page' = <<>>
      BY <1>1, <1>2, <1>6 DEF ScanInv, Beginning
    <2>5. PageBehind'
      <3>1. Len(page') = 0 /\ count' \in Nat \ {0} /\ DOMAIN page' = {}
        BY <1>1, <2>4 DEF WalkTypes
      <3> QED
        BY <2>4, <3>1 DEF PageBehind
    <2>6. CursorMet' /\ Beginning' /\ SteadyKeysReturned'
      BY <2>4 DEF CursorMet, Beginning, SteadyKeysReturned, Over
    <2>7. NoKeyTwice'
      BY <1>1, NoKeyTwiceStays DEF ScanInv
    <2> QED
      BY <1>3, <2>2, <2>3, <2>5, <2>6, <2>7 DEF ScanInv
  <1>7. CASE Here # cursor
    <2>1. ~past' /\ ~more' /\ mode' = "scan" /\ page' = <<>>
      BY <1>1, <1>2, <1>7 DEF ScanInv, Beginning
    <2>2. CursorMet'
      <3>1. EndWith(cursor, cursors)'
        BY <1>1, <1>2, EndsSame
      <3>2. cursor' \in gone' \/ Ahead(cursor)'
        BY <1>1, <1>2, <1>3, <1>7 DEF Ahead
      <3> QED
        BY <2>1, <3>1, <3>2 DEF CursorMet
    <2>3. PageBehind'
      <3>1. Len(page') = 0 /\ count' \in Nat \ {0} /\ DOMAIN page' = {}
        BY <1>1, <2>1 DEF WalkTypes
      <3> QED
        BY <2>1, <3>1 DEF PageBehind
    <2>4. PassedOnce' /\ LeftAhead' /\ Beginning' /\ SteadyKeysReturned'
      BY <2>1 DEF PassedOnce, LeftAhead, Beginning, SteadyKeysReturned, Over
    <2>5. NoKeyTwice'
      BY <1>1, NoKeyTwiceStays DEF ScanInv
    <2> QED
      BY <1>3, <2>2, <2>3, <2>4, <2>5 DEF ScanInv
  <1> QED
    BY <1>6, <1>7

\* A key that does not match is left out.
LEMMA PassOverInv ==
    ASSUME WalkTypes, ScanInv, PassOver
    PROVE  ScanInv'
  <1>1. /\ mode = "scan" /\ Visits /\ past /\ Leave /\ mode' = mode
        /\ Len(page) < count /\ Here \notin Matching
        /\ UNCHANGED <<place, steady, gone, cursor, count, past, page, more,
                       nextCursor, seen, cursors>>
    BY DEF PassOver, others, scanVars
  <1>3. /\ BatchTrue'
        /\ bucket' = bucket /\ DOMAIN batch' = DOMAIN batch \ {Here}
        /\ \A j \in DOMAIN batch' : batch'[j] = batch[j]
        /\ \A k : Ahead(k)' <=> Ahead(k) /\ k # Here
    BY <1>1, LeaveBatch DEF ScanInv
  <1> HIDE DEF Here
  <1>4. PassedOnce'
    BY <1>1, <1>3, EndsSame DEF ScanInv, PassedOnce, Moved
  <1>5. LeftAhead'
    BY <1>1, <1>3, EndsSame DEF ScanInv, LeftAhead
  <1>6. PageBehind'
    <2>1. \A i \in DOMAIN page' : ~Ahead(page[i])'
      BY <1>1, <1>3 DEF ScanInv, PageBehind, Ahead
    <2>2. ~(Len(page') >= count')
      BY <1>1 DEF WalkTypes
    <2> QED
      BY <2>1, <2>2 DEF PageBehind
  <1>7. NoKeyTwice'
    BY <1>1, NoKeyTwiceStays DEF ScanInv
  <1>8. CursorMet' /\ Beginning' /\ SteadyKeysReturned'
    BY <1>1 DEF ScanInv, CursorMet, Beginning, SteadyKeysReturned, Over
  <1> QED
    BY <1>3, <1>4, <1>5, <1>6, <1>7, <1>8 DEF ScanInv

\* A matching key joins the page.
LEMMA TakeInv ==
    ASSUME WalkTypes, ScanInv, Take
    PROVE  ScanInv'
  <1>1. /\ mode = "scan" /\ Visits /\ past /\ Leave /\ mode' = mode
        /\ Len(page) < count /\ Here \in Matching
        /\ page' = Append(page, Here) /\ seen' = Append(seen, Here)
        /\ UNCHANGED <<place, steady, gone, cursor, count, past, more, nextCursor,
                       cursors>>
    BY DEF Take, others
  <1>2. /\ BatchTrue'
        /\ Here \in DOMAIN batch /\ Here \in Keys /\ BucketOf[Here] = bucket
        /\ Here \in gone \/ (place[Here] = batch[Here] /\ place[Here] # 0)
        /\ batch[Here] \in Nat
        /\ bucket' = bucket /\ DOMAIN batch' = DOMAIN batch \ {Here}
        /\ \A j \in DOMAIN batch' : batch'[j] = batch[j] /\ batch[Here] < batch[j]
        /\ \A k : Ahead(k)' <=> Ahead(k) /\ k # Here
        /\ bucket \in Nat /\ \A k \in Keys : place[k] \in Nat /\ BucketOf[k] \in Nat
    BY <1>1, LeaveBatch DEF ScanInv
  <1> HIDE DEF Here
  <1>3. \A i \in DOMAIN seen : seen[i] \in Keys
    BY DEF WalkTypes
  <1>4. /\ Len(seen) \in Nat /\ DOMAIN seen = 1..Len(seen)
        /\ DOMAIN seen' = 1..(Len(seen) + 1)
        /\ \A i \in DOMAIN seen : seen'[i] = seen[i]
        /\ seen'[Len(seen) + 1] = Here
    BY <1>1, <1>2 DEF WalkTypes
  <1>5. /\ Len(page) \in Nat /\ DOMAIN page = 1..Len(page)
        /\ DOMAIN page' = 1..(Len(page) + 1) /\ Len(page') = Len(page) + 1
        /\ \A i \in DOMAIN page : page'[i] = page[i]
        /\ page'[Len(page) + 1] = Here
    BY <1>1, <1>2 DEF WalkTypes
  <1>6. \A i \in DOMAIN seen' : i \in DOMAIN seen \/ i = Len(seen) + 1
    BY <1>4
  <1>7. \A k : Moved(k) <=> Moved(k)'
    BY <1>1 DEF Moved
  <1>8. \A k : Returned(k) => Returned(k)'
    <2>1. DOMAIN seen \subseteq DOMAIN seen'
      BY <1>4
    <2> QED
      BY <1>4, <2>1 DEF Returned
  <1>9. \A i \in DOMAIN seen :
           \/ Moved(seen[i])
           \/ BucketOf[seen[i]] < bucket
           \/ /\ BucketOf[seen[i]] = bucket /\ place[seen[i]] # 0
              /\ \A j \in DOMAIN batch : place[seen[i]] < batch[j]
    BY <1>1 DEF ScanInv, PassedOnce
  <1>10. \A k \in steady \cap Matching : Returned(k) \/ Moved(k) \/ Ahead(k)
    BY <1>1 DEF ScanInv, LeftAhead
  <1>v. PICK v : v = Here
    OBVIOUS
  <1>11. PassedOnce'
    <2> SUFFICES ASSUME NEW i \in DOMAIN seen', NEW x, x = seen'[i]
                 PROVE  \/ Moved(x)'
                        \/ BucketOf[x] < bucket'
                        \/ /\ BucketOf[x] = bucket' /\ place'[x] # 0
                           /\ \A j \in DOMAIN batch' : place'[x] < batch'[j]
      BY DEF PassedOnce, Moved
    <2>1. CASE i \in DOMAIN seen
      <3>1. x = seen[i]
        BY <1>4, <2>1
      <3> QED
        BY <1>1, <1>2, <1>7, <1>9, <2>1, <3>1
    <2>2. CASE i = Len(seen) + 1
      <3>1. x = Here
        BY <1>4, <2>2
      <3>2. Here \in gone => Moved(x)'
        BY <1>1, <3>1 DEF Moved
      <3> QED
        BY <1>1, <1>2, <3>1, <3>2
    <2> QED
      BY <1>6, <2>1, <2>2
  <1>12. LeftAhead'
    <2> SUFFICES ASSUME NEW k \in steady \cap Matching
                 PROVE  Returned(k)' \/ Moved(k)' \/ Ahead(k)'
      BY <1>1 DEF LeftAhead
    <2>1. Returned(v)'
      <3>1. Len(seen) + 1 \in DOMAIN seen' /\ seen'[Len(seen) + 1] = v
        BY <1>4, <1>v
      <3> QED
        BY <3>1 DEF Returned
    <2>2. k = Here => k = v
      BY <1>v
    <2> QED
      BY <1>2, <1>7, <1>8, <1>10, <2>1, <2>2
  <1>13. \A i \in DOMAIN page' : ~Ahead(page[i])'
    <2> SUFFICES ASSUME NEW i \in DOMAIN page', NEW x, x = page'[i]
                 PROVE  ~Ahead(x)'
      BY DEF Ahead
    <2>1. \A l \in DOMAIN page : ~Ahead(page[l])
      BY <1>1 DEF ScanInv, PageBehind
    <2>2. i \in DOMAIN page \/ i = Len(page) + 1
      BY <1>5
    <2> QED
      BY <1>2, <1>5, <2>1, <2>2
  <1>14. EndWith(v, cursors \cup {v})'
    <2>1. PICK D : D = cursors \cup {v}
      OBVIOUS
    <2>2. /\ v \in Keys /\ v \in D /\ (v \in gone' \/ place'[v] # 0)
      BY <1>1, <1>2, <1>v, <2>1
    <2>3. v \in gone => \A k : BucketOf[k] = bucket => MovedBy(k, D)'
      BY <1>1, <1>2, <1>v, <2>1 DEF MovedBy
    <2>4. \A k : Moved(k) => MovedBy(k, D)'
      BY <1>1, <2>1 DEF Moved, MovedBy
    <2>5. ASSUME NEW i \in DOMAIN seen', NEW x, x = seen'[i]
          PROVE  MovedBy(x, D)' \/ UpTo(x, v)'
      <3>1. CASE i = Len(seen) + 1
        <4>1. x = v
          BY <1>4, <1>v, <2>5, <3>1
        <4>2. v \in gone => MovedBy(v, D)'
          BY <1>1 DEF MovedBy
        <4>3. v \notin gone => place'[v] # 0 /\ place'[v] <= place'[v]
          BY <1>1, <1>2, <1>v
        <4> QED
          BY <4>1, <4>2, <4>3 DEF UpTo
      <3>2. CASE i \in DOMAIN seen
        <4>1. x = seen[i] /\ x \in Keys
          BY <1>3, <1>4, <2>5, <3>2
        <4>2. CASE Moved(x)
          BY <2>4, <4>2
        <4>3. CASE BucketOf[x] < bucket
          BY <1>2, <1>v, <4>3 DEF UpTo
        <4>4. CASE /\ BucketOf[x] = bucket /\ place[x] # 0
                   /\ place[x] < batch[v] /\ v \notin gone
          <5>1. place[x] \in Nat /\ place[v] = batch[v] /\ batch[v] \in Nat
            BY <1>2, <1>v, <4>1, <4>4
          <5>2. place'[x] <= place'[v] /\ place'[x] # 0
            BY <1>1, <4>4, <5>1
          <5> QED
            BY <1>2, <1>v, <4>4, <5>2 DEF UpTo
        <4>5. \/ Moved(x) \/ BucketOf[x] < bucket
              \/ /\ BucketOf[x] = bucket /\ place[x] # 0
                 /\ \A j \in DOMAIN batch : place[x] < batch[j]
          BY <1>9, <3>2, <4>1
        <4> QED
          BY <1>2, <1>v, <2>3, <4>2, <4>3, <4>4, <4>5
      <3> QED
        BY <1>6, <3>1, <3>2
    <2>6. ASSUME NEW k \in steady' \cap Matching
          PROVE  Returned(k)' \/ MovedBy(k, D)' \/ After(k, v)'
      <3>1. k \in steady /\ k \in Keys /\ k \notin gone
        BY <1>1 DEF WalkTypes, Present
      <3>2. Returned(k) \/ Moved(k) \/ Ahead(k)
        BY <1>1, <1>10
      <3>3. CASE BucketOf[k] > bucket
        BY <1>2, <1>v, <3>3 DEF After
      <3>4. ASSUME k \in DOMAIN batch, k # v, v \notin gone PROVE After(k, v)'
        <4>1. place[k] = batch[k] /\ BucketOf[k] = bucket
          BY <1>1, <3>1, <3>4 DEF ScanInv, BatchTrue, WalkTypes
        <4>2. batch[v] < batch[k] /\ place[v] = batch[v]
          BY <1>2, <1>v, <3>4
        <4>3. place[k] > place[v]
          BY <1>2, <1>v, <3>1, <4>1, <4>2
        <4> QED
          BY <1>1, <1>2, <1>v, <4>1, <4>3 DEF After
      <3>5. k \in DOMAIN batch => BucketOf[k] = bucket
        BY DEF WalkTypes
      <3>6. k = v => Returned(k)'
        <4>1. Len(seen) + 1 \in DOMAIN seen' /\ seen'[Len(seen) + 1] = v
          BY <1>4, <1>v
        <4> QED
          BY <4>1 DEF Returned
      <3> QED
        BY <1>8, <2>3, <2>4, <3>2, <3>3, <3>4, <3>5, <3>6 DEF Ahead
    <2>7. EndWith(v, D)'
      BY <2>2, <2>5, <2>6 DEF EndWith, MovedBy, UpTo
    <2> QED
      BY <1>1, <2>1, <2>7 DEF EndWith, MovedBy
  <1>15. PageBehind'
    <2>1. Last(page)' = v
      BY <1>5, <1>v DEF Last
    <2> HIDE DEF Last
    <2>2. EndWith(Last(page), cursors \cup {Last(page)})'
      BY <1>14, <2>1 DEF EndWith, MovedBy, UpTo, After
    <2> QED
      BY <1>1, <1>13, <2>2 DEF PageBehind
  <1>16. NoKeyTwice'
    <2>1. \A i \in DOMAIN page : ~Ahead(page[i]) /\ page[i] # Here
      BY <1>1, <1>2 DEF ScanInv, PageBehind, Ahead
    <2>2. IsInjective(page)'
      <3> SUFFICES ASSUME NEW i \in DOMAIN page', NEW j \in DOMAIN page',
                          page'[i] = page'[j]
                   PROVE  i = j
        BY DEF IsInjective
      <3>1. /\ i \in DOMAIN page \/ i = Len(page) + 1
            /\ j \in DOMAIN page \/ j = Len(page) + 1
        BY <1>5
      <3>2. CASE i \in DOMAIN page /\ j \in DOMAIN page
        BY <1>5, <3>2 DEF ScanInv, NoKeyTwice, IsInjective
      <3> QED
        BY <1>5, <2>1, <3>1, <3>2
    <2>3. ASSUME NEW i \in DOMAIN seen', NEW j \in DOMAIN seen', i < j,
                 seen'[i] = seen'[j], NEW x, x = seen'[i]
          PROVE  Moved(x)'
      <3>1. i \in DOMAIN seen /\ x = seen[i]
        BY <1>4, <2>3
      <3>2. CASE j \in DOMAIN seen
        BY <1>4, <1>7, <2>3, <3>1, <3>2 DEF ScanInv, NoKeyTwice
      <3>3. CASE j = Len(seen) + 1
        <4>1. x = Here
          BY <1>4, <2>3, <3>3
        <4>2. \/ Moved(x) \/ BucketOf[x] < bucket
              \/ \A l \in DOMAIN batch : place[x] < batch[l]
          BY <1>9, <3>1
        <4>3. ~(BucketOf[x] < bucket)
          BY <1>2, <4>1
        <4>4. x \in gone => Moved(x)
          BY DEF Moved
        <4>5. x \notin gone => ~(place[x] < batch[x])
          BY <1>2, <4>1
        <4> QED
          BY <1>2, <1>7, <4>1, <4>2, <4>3, <4>4, <4>5
      <3> QED
        BY <1>6, <3>2, <3>3
    <2> QED
      BY <2>2, <2>3 DEF NoKeyTwice, Moved
  <1>17. CursorMet' /\ Beginning' /\ SteadyKeysReturned'
    BY <1>1 DEF ScanInv, CursorMet, Beginning, SteadyKeysReturned, Over
  <1> QED
    BY <1>2, <1>11, <1>12, <1>15, <1>16, <1>17 DEF ScanInv

\* At the end of the table nothing is ahead.
LEMMA NothingAhead ==
    ASSUME WalkTypes, bucket = End, NEW k \in Keys
    PROVE  ~Ahead(k)
  <1>1. BucketOf[k] \in 1..Buckets /\ Buckets \in Nat /\ End = Buckets + 1
    BY WalkAssumption DEF End
  <1>2. BucketOf[k] # bucket /\ ~(BucketOf[k] > bucket)
    BY <1>1
  <1> QED
    BY <1>2 DEF Ahead, WalkTypes

\* A page ends full.
LEMMA PageFullInv ==
    ASSUME WalkTypes, ScanInv, PageFull
    PROVE  ScanInv'
  <1>1. /\ mode = "scan" /\ mode' = "page" /\ Len(page) >= count
        /\ more' = (bucket # End)
        /\ nextCursor' = IF more' THEN Last(page) ELSE NoKey
        /\ cursors' = IF more' THEN cursors \cup {nextCursor'} ELSE cursors
        /\ UNCHANGED <<place, steady, gone, past, page, seen>>
    BY DEF PageFull, others
  <1>2. past /\ EndWith(Last(page), cursors \cup {Last(page)})
    BY <1>1 DEF ScanInv, PageBehind
  <1> HIDE DEF Last
  <1>3. CursorMet'
    <2> SUFFICES ASSUME more' PROVE EndWith(nextCursor, cursors)'
      BY <1>1 DEF CursorMet
    <2>1. PICK v, D : v = Last(page) /\ D = cursors \cup {v}
      OBVIOUS
    <2>2. nextCursor' = v /\ cursors' = D
      BY <1>1, <2>1
    <2>3. EndWith(v, D)'
      BY <1>1, <1>2, <2>1, EndWithSame
    <2> QED
      BY <2>2, <2>3 DEF EndWith, MovedBy, UpTo, After
  <1>4. SteadyKeysReturned'
    <2> SUFFICES ASSUME ~more', NEW k \in steady \cap Matching
                 PROVE  Returned(k)' \/ Moved(k)'
      BY <1>1 DEF SteadyKeysReturned, Over
    <2>1. ~Ahead(k)
      <3>1. bucket = End /\ k \in Keys
        BY <1>1, WalkAssumption
      <3> QED
        BY <3>1, NothingAhead
    <2>2. Returned(k) \/ Moved(k)
      BY <1>1, <1>2, <2>1 DEF ScanInv, LeftAhead
    <2> QED
      BY <1>1, <2>2 DEF Returned, Moved
  <1>5. NoKeyTwice'
    <2>1. cursors \subseteq cursors'
      BY <1>1
    <2> QED
      BY <1>1, <2>1, NoKeyTwiceStays DEF ScanInv
  <1>6. BatchTrue' /\ PassedOnce' /\ LeftAhead' /\ PageBehind' /\ Beginning'
    BY <1>1 DEF BatchTrue, PassedOnce, LeftAhead, PageBehind, Beginning
  <1> QED
    BY <1>3, <1>4, <1>5, <1>6 DEF ScanInv

\* The walk ends: what was ahead of it has been returned, or the cursor is gone.
LEMMA ScanEndInv ==
    ASSUME WalkTypes, ScanInv, ScanEnd
    PROVE  ScanInv'
  <1>1. /\ mode = "scan" /\ mode' = "page" /\ bucket = End
        /\ UNCHANGED <<place, steady, gone, cursor, past, page, more, nextCursor,
                       seen, cursors>>
    BY DEF ScanEnd, others, scanVars
  <1>2. ~more
    BY <1>1 DEF ScanInv, Beginning
  <1>3. SteadyKeysReturned'
    <2>1. CASE past
      <3> SUFFICES ASSUME NEW k \in steady \cap Matching
                   PROVE  Returned(k)' \/ Moved(k)'
        BY <1>1 DEF SteadyKeysReturned, Over
      <3>1. ~Ahead(k)
        BY <1>1, NothingAhead, WalkAssumption
      <3>2. Returned(k) \/ Moved(k)
        BY <1>1, <2>1, <3>1 DEF ScanInv, LeftAhead
      <3> QED
        BY <1>1, <3>2 DEF Returned, Moved
    <2>2. CASE ~past
      <3>1. cursor \in Keys /\ (cursor \in gone \/ Ahead(cursor))
        BY <1>1, <2>2 DEF ScanInv, CursorMet, EndWith
      <3>2. cursor \in gone
        BY <1>1, <3>1, NothingAhead
      <3> QED
        BY <1>1, <2>2, <3>2 DEF SteadyKeysReturned
    <2> QED
      BY <2>1, <2>2
  <1>4. NoKeyTwice'
    BY <1>1, NoKeyTwiceStays DEF ScanInv
  <1>5. /\ BatchTrue' /\ PassedOnce' /\ LeftAhead' /\ PageBehind' /\ Beginning'
        /\ CursorMet'
    BY <1>1, <1>2
    DEF BatchTrue, PassedOnce, LeftAhead, PageBehind, Beginning, CursorMet
  <1> QED
    BY <1>3, <1>4, <1>5 DEF ScanInv

-----------------------------------------------------------------------------
\* Others change the place of k: they insert it, or they remove it.
Changes(k) ==
    /\ \A j \in Keys \ {k} : place'[j] = place[j]
    /\ \/ place[k] = 0 /\ k \notin steady /\ gone' = gone /\ steady' = steady
       \/ gone' = gone \cup {k} /\ steady' = steady \ {k}

\* Where the pages end, when others change the table.
LEMMA EndWithChanges ==
    ASSUME WalkTypes, NEW k \in Keys, Changes(k), WalkTypes', UNCHANGED seen,
           NEW c, NEW C, EndWith(c, C)
    PROVE  EndWith(c, C)'
  <1>0. \A j \in Keys : place[j] \in Nat
    <2>1. place \in [Keys -> {0} \cup Places]
      BY Zenon DEF WalkTypes
    <2>2. {0} \cup Places \subseteq Nat
      BY WalkAssumption
    <2> QED
      BY <2>1, <2>2
  <1>1. \A j : MovedBy(j, C) => MovedBy(j, C)'
    BY DEF MovedBy, Changes
  <1>2. \A j : Returned(j) => Returned(j)'
    BY DEF Returned
  <1>3. c \in Keys /\ c \in C /\ (c \in gone \/ place[c] # 0)
    BY DEF EndWith
  <1>4. c \in gone' \/ place'[c] # 0
    BY <1>3 DEF Changes
  <1>5. c \in gone' => \A j : BucketOf[j] = BucketOf[c] => MovedBy(j, C)'
    BY <1>3 DEF MovedBy
  <1>6. c \notin gone' => place'[c] = place[c]
    BY <1>3 DEF Changes
  <1>7. ASSUME NEW x \in Keys, UpTo(x, c) PROVE MovedBy(x, C)' \/ UpTo(x, c)'
    <2>1. CASE BucketOf[x] < BucketOf[c]
      BY <2>1 DEF UpTo
    <2>2. CASE /\ BucketOf[x] = BucketOf[c] /\ place[x] # 0
               /\ place[x] <= place[c] /\ c \notin gone'
      <3>1. x \in gone' \/ place'[x] = place[x]
        BY <2>2 DEF Changes
      <3>2. x \in gone' => MovedBy(x, C)'
        BY DEF MovedBy
      <3> QED
        BY <1>6, <2>2, <3>1, <3>2 DEF UpTo
    <2> QED
      BY <1>5, <1>7, <2>1, <2>2 DEF UpTo
  <1>8. ASSUME NEW x \in steady', x \in Keys, After(x, c)
        PROVE  MovedBy(x, C)' \/ After(x, c)'
    <2>1. CASE BucketOf[x] > BucketOf[c]
      BY <2>1 DEF After
    <2>2. CASE /\ BucketOf[x] = BucketOf[c] /\ place[x] > place[c]
               /\ c \notin gone'
      <3>1. place'[x] = place[x]
        BY <1>8 DEF Changes
      <3> QED
        BY <1>6, <2>2, <3>1 DEF After
    <2> QED
      BY <1>5, <1>8, <2>1, <2>2 DEF After
  <1>9. ASSUME NEW i \in DOMAIN seen', NEW x, x = seen'[i]
        PROVE  MovedBy(x, C)' \/ UpTo(x, c)'
    <2>1. seen' = seen /\ seen \in Seq(Keys)
      BY Zenon DEF WalkTypes
    <2>2. i \in DOMAIN seen /\ x = seen[i] /\ x \in Keys
      BY <1>9, <2>1
    <2>3. \A n \in DOMAIN seen : MovedBy(seen[n], C) \/ UpTo(seen[n], c)
      BY Zenon DEF EndWith
    <2>4. MovedBy(seen[i], C) \/ UpTo(seen[i], c)
      BY <2>2, <2>3, Zenon
    <2>5. MovedBy(x, C) \/ UpTo(x, c)
      BY <2>2, <2>4, Zenon
    <2> QED
      BY <1>1, <1>7, <2>2, <2>5
  <1>10. ASSUME NEW x \in steady' \cap Matching
         PROVE  Returned(x)' \/ MovedBy(x, C)' \/ After(x, c)'
    <2>1. x \in steady /\ x \in Keys
      BY <1>10, WalkAssumption DEF Changes
    <2>2. Returned(x) \/ MovedBy(x, C) \/ After(x, c)
      BY <1>10, <2>1 DEF EndWith
    <2> QED
      BY <1>1, <1>2, <1>8, <1>10, <2>1, <2>2
  <1> QED
    BY <1>3, <1>4, <1>9, <1>10 DEF EndWith, MovedBy, UpTo

\* What others change keeps everything a scan knows.
LEMMA OthersInv ==
    ASSUME WalkTypes, ScanInv, WalkTypes', NEW k \in Keys, Changes(k),
           UNCHANGED <<mode, iterator, scanVars>>
    PROVE  ScanInv'
  <1>1. UNCHANGED <<mode, bucket, batch, cursor, count, past, page, more,
                    nextCursor, seen, cursors>>
    BY DEF iterator, scanVars
  <1>2. \A j : Moved(j) => Moved(j)'
    BY <1>1 DEF Moved, Changes
  <1>3. \A j : (Returned(j) => Returned(j)') /\ (Ahead(j)' <=> Ahead(j))
    BY <1>1 DEF Returned, Ahead
  <1>4. gone \subseteq gone' /\ steady' \subseteq steady
    BY DEF Changes
  <1>5. \A j \in DOMAIN batch : batch[j] \in Nat \ {0}
    BY WalkAssumption DEF WalkTypes
  <1>6. BatchTrue'
    <2> SUFFICES ASSUME mode = "scan" PROVE BatchTrue'
      BY <1>1 DEF BatchTrue
    <2>1. ASSUME NEW j \in DOMAIN batch PROVE j \in gone' \/ place'[j] = batch[j]
      <3>1. j \in Keys /\ (j \in gone \/ place[j] = batch[j]) /\ batch[j] # 0
        BY <1>5, <2>1 DEF ScanInv, BatchTrue, WalkTypes
      <3> QED
        BY <3>1 DEF Changes
    <2>2. ASSUME NEW j \in steady' PROVE place'[j] = place[j] /\ j \in steady
      <3>1. j \in Keys /\ j \in steady /\ j # k
        BY <1>4 DEF Changes, WalkTypes, Present
      <3> QED
        BY <3>1 DEF Changes
    <2> QED
      BY <1>1, <2>1, <2>2 DEF ScanInv, BatchTrue
  <1>7. PassedOnce'
    <2> SUFFICES ASSUME mode = "scan", past, NEW i \in DOMAIN seen, NEW x, x = seen[i]
                 PROVE  \/ Moved(x)'
                        \/ BucketOf[x] < bucket
                        \/ /\ BucketOf[x] = bucket /\ place'[x] # 0
                           /\ \A j \in DOMAIN batch : place'[x] < batch[j]
      BY <1>1 DEF PassedOnce, Moved
    <2>1. x \in Keys
      BY DEF WalkTypes
    <2>2. \/ Moved(x)
          \/ BucketOf[x] < bucket
          \/ /\ BucketOf[x] = bucket /\ place[x] # 0
             /\ \A j \in DOMAIN batch : place[x] < batch[j]
      BY DEF ScanInv, PassedOnce
    <2>3. place[x] # 0 => x \in gone' \/ place'[x] = place[x]
      BY <2>1 DEF Changes
    <2>4. x \in gone' => Moved(x)'
      BY DEF Moved
    <2> QED
      BY <1>2, <2>2, <2>3, <2>4
  <1>8. LeftAhead'
    BY <1>1, <1>2, <1>3, <1>4 DEF ScanInv, LeftAhead
  <1>9. ASSUME NEW c, NEW C, EndWith(c, C) PROVE EndWith(c, C)'
    BY <1>1, <1>9, EndWithChanges
  <1>10. PageBehind'
    <2>1. \A i \in DOMAIN page : ~Ahead(page[i]) => ~Ahead(page[i])'
      BY <1>1 DEF Ahead
    <2>2. Last(page)' = Last(page)
      BY <1>1 DEF Last
    <2> HIDE DEF Last
    <2>3. EndWith(Last(page), cursors \cup {Last(page)}) =>
             EndWith(Last(page), cursors \cup {Last(page)})'
      <3>1. PICK v, D : v = Last(page) /\ D = cursors \cup {Last(page)}
        OBVIOUS
      <3>2. EndWith(v, D) => EndWith(v, D)'
        BY <1>9
      <3>3. Last(page)' = v /\ (cursors \cup {Last(page)})' = D
        BY <1>1, <2>2, <3>1
      <3>4. EndWith(v, D)' => EndWith(Last(page), cursors \cup {Last(page)})'
        BY <3>3 DEF EndWith, MovedBy, UpTo, After
      <3> QED
        BY <3>1, <3>2, <3>4
    <2> QED
      BY <1>1, <2>1, <2>3 DEF ScanInv, PageBehind
  <1>11. CursorMet'
    <2>1. /\ EndWith(cursor, cursors) => EndWith(cursor, cursors)'
          /\ EndWith(nextCursor, cursors) => EndWith(nextCursor, cursors)'
      <3>1. PICK v, u, D : v = cursor /\ u = nextCursor /\ D = cursors
        OBVIOUS
      <3>2. (EndWith(v, D) => EndWith(v, D)') /\ (EndWith(u, D) => EndWith(u, D)')
        BY <1>9
      <3>3. cursor' = v /\ nextCursor' = u /\ cursors' = D
        BY <1>1, <3>1
      <3>4. /\ EndWith(v, D)' => EndWith(cursor, cursors)'
            /\ EndWith(u, D)' => EndWith(nextCursor, cursors)'
        BY <3>3 DEF EndWith, MovedBy, UpTo, After
      <3> QED
        BY <3>1, <3>2, <3>4
    <2>2. cursor \in gone \/ Ahead(cursor) => cursor' \in gone' \/ Ahead(cursor)'
      BY <1>1, <1>4 DEF Ahead
    <2> QED
      BY <1>1, <2>1, <2>2 DEF ScanInv, CursorMet
  <1>12. NoKeyTwice'
    BY <1>1, <1>4, NoKeyTwiceStays DEF ScanInv
  <1>13. SteadyKeysReturned'
    BY <1>1, <1>2, <1>3, <1>4 DEF ScanInv, SteadyKeysReturned, Over
  <1>14. Beginning'
    BY <1>1 DEF ScanInv, Beginning
  <1> QED
    BY <1>6, <1>7, <1>8, <1>10, <1>11, <1>12, <1>13, <1>14 DEF ScanInv

\* Every step keeps what a scan knows.
LEMMA NextScanInv ==
    ASSUME WalkTypes, ScanInv, WalkTypes', [Next]_vars
    PROVE  ScanInv'
  <1>1. ASSUME NEW k \in Keys, NEW p \in Places, OtherAdds(k, p) PROVE ScanInv'
    <2>1. Changes(k)
      BY <1>1 DEF OtherAdds, Changes, WalkTypes, Present
    <2> QED
      BY <1>1, <2>1, OthersInv DEF OtherAdds
  <1>2. ASSUME NEW k \in Keys, OtherDrops(k) PROVE ScanInv'
    <2>1. Changes(k)
      BY <1>2 DEF OtherDrops, Changes, WalkTypes
    <2> QED
      BY <1>2, <2>1, OthersInv DEF OtherDrops
  <1>3. CASE FlushStart \/ FlushVisit \/ FlushEnd
    <2>1. /\ mode' \in {"flush", "flushed"}
          /\ UNCHANGED <<seen, page, gone, cursors>>
      BY <1>3 DEF FlushStart, FlushVisit, FlushEnd, others, scanVars
    <2>2. NoKeyTwice'
      BY <2>1, NoKeyTwiceStays DEF ScanInv
    <2> QED
      BY <2>1, <2>2
      DEF ScanInv, BatchTrue, PassedOnce, LeftAhead, PageBehind, CursorMet,
          Beginning, SteadyKeysReturned, Over
  <1>4. CASE Done \/ UNCHANGED vars
    <2>1. UNCHANGED <<place, mode, bucket, batch, steady, gone, cursor, count, past,
                      page, more, nextCursor, seen, cursors>>
      BY <1>4 DEF Done, vars, iterator, others, scanVars
    <2>2. NoKeyTwice'
      BY <2>1, NoKeyTwiceStays DEF ScanInv
    <2>3. BatchTrue' /\ PassedOnce' /\ LeftAhead' /\ Beginning'
      BY <2>1
      DEF ScanInv, BatchTrue, PassedOnce, LeftAhead, Beginning, Moved, Returned,
          Ahead
    <2>4. PageBehind' /\ SteadyKeysReturned'
      BY <2>1, EndsSame
      DEF ScanInv, PageBehind, SteadyKeysReturned, Over, Ahead
    <2>5. CursorMet'
      BY <2>1
      DEF ScanInv, CursorMet, EndWith, MovedBy, UpTo, After, Returned, Ahead
    <2> QED
      BY <2>2, <2>3, <2>4, <2>5 DEF ScanInv
  <1> QED
    BY <1>1, <1>2, <1>3, <1>4, ScanFirstInv, ScanNextInv, SkipInv, PassOverInv,
       TakeInv, PageFullInv, ScanEndInv, RollInv
    DEF Next, Walk

-----------------------------------------------------------------------------
\* The inductive invariant of a walk, others changing the table all the while.
LEMMA WalkInvariance == Init /\ [][Next]_vars => []WalkInv
  <1>1. Init => WalkInv
    <2> SUFFICES ASSUME Init PROVE WalkInv
      OBVIOUS
    <2>1. Cardinality(Present) \in Nat
      BY WalkAssumption, FS_Subset, FS_CardinalityType DEF Present
    <2>2. WalkTypes
      <3>1. /\ place \in [Keys -> {0} \cup Places] /\ Chained(place)
            /\ batch = <<>> /\ bucket = 1 /\ seen = <<>> /\ page = <<>>
            /\ steady = Present /\ gone = {} /\ start = Cardinality(Present)
            /\ added = 0 /\ dropped = 0 /\ removed = 0 /\ count = DefaultCount
        BY DEF Init
      <3>2. bucket \in 1..End /\ count \in Nat \ {0}
        BY <3>1, WalkAssumption DEF End
      <3>3. DOMAIN batch = {} /\ batch \in [DOMAIN batch -> Places]
        BY <3>1
      <3>4. seen \in Seq(Keys) /\ page \in Seq(Keys)
        BY <3>1
      <3> QED
        BY <2>1, <3>1, <3>2, <3>3, <3>4 DEF WalkTypes
    <2>3. Balance /\ FlushBehind
      BY <2>1 DEF Init, Balance, FlushBehind
    <2>4. ScanInv
      BY DEF Init, ScanInv, BatchTrue, PassedOnce, LeftAhead, PageBehind, CursorMet,
             Beginning, NoKeyTwice, IsInjective, SteadyKeysReturned, Over
    <2> QED
      BY <2>2, <2>3, <2>4 DEF WalkInv
  <1>2. WalkInv /\ [Next]_vars => WalkInv'
    <2> SUFFICES ASSUME WalkInv, [Next]_vars PROVE WalkInv'
      OBVIOUS
    <2>1. WalkTypes' /\ Balance'
      BY NextTypes DEF WalkInv
    <2> QED
      BY <2>1, NextScanInv, NextFlushBehind DEF WalkInv
  <1> QED
    BY <1>1, <1>2, PTL

\* Scan (CacheManager.cc:801-878, proto/cache.proto:491-492): no page holds a key
\* twice, and a key that comes twice across pages is one that others removed, or
\* one in whose bucket they removed a cursor; for any table and chains, any page
\* sizes and anything others insert and remove.
THEOREM NoKeyTwiceHolds == Spec => []NoKeyTwice
  <1>1. WalkInv => NoKeyTwice
    BY DEF WalkInv, ScanInv
  <1> QED
    BY <1>1, WalkInvariance, PTL DEF Spec

\* Scan (CacheManager.cc:801-878): a caller that pages until hasMore is false has
\* every matching key that was there all the time, unless others removed the
\* cursor of the last page, or a cursor that shares the key's bucket; for any
\* table and chains, pattern, page sizes and changes by others.
THEOREM SteadyKeysReturnedHolds == Spec => []SteadyKeysReturned
  <1>1. WalkInv => SteadyKeysReturned
    BY DEF WalkInv, ScanInv
  <1> QED
    BY <1>1, WalkInvariance, PTL DEF Spec

\* Flush (CacheManager.cc:966-985): when it returns, every key that was there
\* from the start and that nobody else removed is gone, and the number it
\* reports balances the table's size, for any table and any changes by others.
THEOREM FlushExactHolds == Spec => []FlushExact
  <1>1. WalkInv => FlushExact
    BY DEF WalkInv, FlushBehind, Balance, FlushExact
  <1> QED
    BY <1>1, WalkInvariance, PTL DEF Spec
=============================================================================
