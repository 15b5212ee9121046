----------------------------- MODULE CacheWalk -----------------------------
(***************************************************************************)
(* scan and flush of CacheManager.cc: walks over CacheLib's hash table     *)
(* while other callers, the evictor and the reaper change it.              *)
(*                                                                         *)
(* The table is chained: a walk takes the buckets in their order and each  *)
(* bucket in the order of its chain.  On entering a bucket the iterator    *)
(* takes handles to the items of its chain, so that it visits them even if *)
(* they are removed meanwhile.  A key that is inserted anew may come to    *)
(* any place of its chain; replacing an item leaves its key where it is.   *)
(* A page of Scan resumes by walking again from the start and skipping     *)
(* until it meets the cursor, the last key of the page before.             *)
(***************************************************************************)
EXTENDS Integers, Sequences, FiniteSets, SequencesExt

CONSTANTS
    Keys,           \* the keys
    Buckets,        \* the number of hash buckets
    BucketOf,       \* the bucket of each key
    Places,         \* the places in a chain, in its order
    Matching,       \* the keys that match the caller's pattern
    NoKey,          \* the empty cursor
    Counts,         \* page sizes the caller may ask for
    DefaultCount,   \* 100
    MaxCount,       \* 10000
    MaxChanges      \* bound: what others change during a walk

ASSUME WalkAssumption ==
    /\ IsFiniteSet(Keys) /\ NoKey \notin Keys
    /\ Buckets \in Nat \ {0} /\ BucketOf \in [Keys -> 1..Buckets]
    /\ Places \subseteq Nat \ {0}
    /\ Matching \subseteq Keys /\ Counts \subseteq Int
    /\ MaxCount \in Nat /\ DefaultCount \in 1..MaxCount

VARIABLES
    place,      \* the table: where each key is in its chain, 0 if absent
    mode,       \* "idle", "scan", "page", "flush" or "flushed"
    bucket,     \* the iterator: its bucket, or End
    batch,      \*   the places of the items it has still to visit there
    cursor,     \* scan: the request's cursor
    count,      \* scan: the page size in force
    past,       \* scan: pastCursor
    page,       \* scan: result.keys
    more,       \* scan: result.hasMore
    nextCursor, \* scan: result.nextCursor
    removed,    \* flush: removedCount
    seen,       \* history: the keys of all pages so far
    cursors,    \* history: the cursors of all pages so far
    steady,     \* history: keys present, and left alone, since the start
    gone,       \* history: keys others have removed since the start
    start,      \* history: how many keys there were at the start
    added,      \* history: how often others have added a key
    dropped     \* history: how often others have removed one

iterator == <<bucket, batch>>
scanVars == <<cursor, count, past, page, more, nextCursor, seen, cursors>>
others == <<gone, start, added, dropped>>
vars == <<place, mode, iterator, removed, steady, others, scanVars>>

Present == {k \in Keys : place[k] # 0}

\* No two keys of a bucket are in the same place.
Chained(at) ==
    \A j, k \in Keys :
        BucketOf[j] = BucketOf[k] /\ at[j] = at[k] /\ at[j] # 0 => j = k

Init ==
    /\ place \in {at \in [Keys -> {0} \cup Places] : Chained(at)}
    /\ mode = "idle"
    /\ bucket = 1
    /\ batch = <<>>
    /\ cursor = NoKey
    /\ count = DefaultCount
    /\ past = TRUE
    /\ page = <<>>
    /\ more = FALSE
    /\ nextCursor = NoKey
    /\ removed = 0
    /\ seen = <<>>
    /\ cursors = {}
    /\ steady = Present
    /\ gone = {}
    /\ start = Cardinality(Present)
    /\ added = 0
    /\ dropped = 0

-----------------------------------------------------------------------------
\* The iterator.

End == Buckets + 1

Chain(b) == [k \in {j \in Present : BucketOf[j] = b} |-> place[k]]

\* It stands on an item, or at the end.
Settled == DOMAIN batch # {} \/ bucket = End

\* The key it stands on: the first of its batch.
Here == CHOOSE k \in DOMAIN batch : \A j \in DOMAIN batch : batch[k] <= batch[j]

Enter(b) ==
    /\ bucket' = b
    /\ batch' = Chain(b)

\* operator++, up to the end of the bucket.
Leave ==
    /\ bucket' = bucket
    /\ batch' = [k \in DOMAIN batch \ {Here} |-> batch[k]]

\* The rest of operator++: one bucket after the other, until one has items.
Roll ==
    /\ mode \in {"scan", "flush"}
    /\ ~Settled
    /\ Enter(bucket + 1)
    /\ UNCHANGED <<place, mode, removed, steady, others, scanVars>>

\* The loop's condition: the iterator stands on an item.
Visits == Settled /\ bucket # End

-----------------------------------------------------------------------------
clampCount(c) == IF c <= 0 THEN DefaultCount ELSE IF c > MaxCount THEN MaxCount ELSE c

\* scan(pattern, "", c): the first page.
ScanFirst(c) ==
    /\ mode = "idle"
    /\ mode' = "scan"
    /\ Enter(1)
    /\ count' = clampCount(c)
    /\ UNCHANGED <<place, removed, steady, others, cursor, past, page, more,
                   nextCursor, seen, cursors>>

\* scan(pattern, nextCursor, c): the page after one that said hasMore.
ScanNext(c) ==
    /\ mode = "page"
    /\ more
    /\ mode' = "scan"
    /\ Enter(1)
    /\ cursor' = nextCursor
    /\ past' = (nextCursor = NoKey)
    /\ count' = clampCount(c)
    /\ page' = <<>>
    /\ more' = FALSE
    /\ nextCursor' = NoKey
    /\ UNCHANGED <<place, removed, steady, others, seen, cursors>>

\* A loop that resumes at the cursor instead of after it.
SkipShort ==
    /\ mode = "scan" /\ Visits
    /\ ~past
    /\ past' = (Here = cursor)
    /\ IF past' THEN UNCHANGED iterator ELSE Leave
    /\ UNCHANGED <<place, mode, removed, steady, others, cursor, count, page,
                   more, nextCursor, seen, cursors>>

\* A while loop whose `continue` leaves out the increment.
SkipInPlace ==
    /\ mode = "scan" /\ Visits
    /\ ~past
    /\ past' = (Here = cursor)
    /\ UNCHANGED <<place, mode, iterator, removed, steady, others, cursor, count,
                   page, more, nextCursor, seen, cursors>>

\* Skip until the cursor is met, the cursor included.
SkipToCursor ==
    /\ mode = "scan" /\ Visits
    /\ ~past
    /\ past' = (Here = cursor)
    /\ Leave
    /\ UNCHANGED <<place, mode, removed, steady, others, cursor, count, page,
                   more, nextCursor, seen, cursors>>

PassOver ==
    /\ mode = "scan" /\ Visits
    /\ past
    /\ Len(page) < count
    /\ Here \notin Matching
    /\ Leave
    /\ UNCHANGED <<place, mode, removed, steady, others, scanVars>>

\* A matching key joins the page.
Take ==
    /\ mode = "scan" /\ Visits
    /\ past
    /\ Len(page) < count
    /\ Here \in Matching
    /\ page' = Append(page, Here)
    /\ seen' = Append(seen, Here)
    /\ Leave
    /\ UNCHANGED <<place, mode, removed, steady, others, cursor, count, past, more,
                   nextCursor, cursors>>

\* A page whose cursor is the key the iterator stands on after the last one it
\* returned: the next page would skip that key too.
PageFullAhead ==
    /\ mode = "scan" /\ Settled
    /\ Len(page) >= count
    /\ mode' = "page"
    /\ more' = (bucket # End)
    /\ nextCursor' = IF more' THEN Here ELSE NoKey
    /\ cursors' = IF more' THEN cursors \cup {nextCursor'} ELSE cursors
    /\ UNCHANGED <<place, iterator, removed, steady, others, cursor, count, past,
                   page, seen>>

\* The page is full: there is more if the walk could go on, after its last key.
PageFull ==
    /\ mode = "scan" /\ Settled
    /\ Len(page) >= count
    /\ mode' = "page"
    /\ more' = (bucket # End)
    /\ nextCursor' = IF more' THEN Last(page) ELSE NoKey
    /\ cursors' = IF more' THEN cursors \cup {nextCursor'} ELSE cursors
    /\ UNCHANGED <<place, iterator, removed, steady, others, cursor, count, past,
                   page, seen>>

\* The walk is over before the page is full.
ScanEnd ==
    /\ mode = "scan"
    /\ bucket = End
    /\ Len(page) < count
    /\ mode' = "page"
    /\ UNCHANGED <<place, iterator, removed, steady, others, scanVars>>

-----------------------------------------------------------------------------
FlushStart ==
    /\ mode = "idle"
    /\ mode' = "flush"
    /\ Enter(1)
    /\ UNCHANGED <<place, removed, steady, others, scanVars>>

\* A flush that counts what it visits, not what it removes.
FlushCountsVisits ==
    /\ mode = "flush" /\ Visits
    /\ removed' = removed + 1
    /\ place' = [place EXCEPT ![Here] = 0]
    /\ steady' = steady \ {Here}
    /\ Leave
    /\ UNCHANGED <<mode, others, scanVars>>

\* cache_->remove(key) succeeds only if the key is still there.
FlushVisit ==
    /\ mode = "flush" /\ Visits
    /\ removed' = removed + (IF place[Here] # 0 THEN 1 ELSE 0)
    /\ place' = [place EXCEPT ![Here] = 0]
    /\ steady' = steady \ {Here}
    /\ Leave
    /\ UNCHANGED <<mode, others, scanVars>>

FlushEnd ==
    /\ mode = "flush"
    /\ bucket = End
    /\ mode' = "flushed"
    /\ UNCHANGED <<place, iterator, removed, steady, others, scanVars>>

-----------------------------------------------------------------------------
\* Other callers, the evictor and the reaper.
OtherAdds(k, p) ==
    /\ mode \notin {"idle", "flushed"}
    /\ added + dropped < MaxChanges
    /\ place[k] = 0
    /\ \A j \in Keys : BucketOf[j] = BucketOf[k] => place[j] # p
    /\ place' = [place EXCEPT ![k] = p]
    /\ added' = added + 1
    /\ UNCHANGED <<mode, iterator, removed, steady, gone, start, dropped, scanVars>>

OtherDrops(k) ==
    /\ mode \notin {"idle", "flushed"}
    /\ added + dropped < MaxChanges
    /\ place[k] # 0
    /\ place' = [place EXCEPT ![k] = 0]
    /\ steady' = steady \ {k}
    /\ gone' = gone \cup {k}
    /\ dropped' = dropped + 1
    /\ UNCHANGED <<mode, iterator, removed, start, added, scanVars>>

\* The caller has all it asked for.
Done ==
    /\ mode = "flushed" \/ (mode = "page" /\ ~more)
    /\ UNCHANGED vars

Walk ==
    \/ \E c \in Counts : ScanFirst(c) \/ ScanNext(c)
    \/ SkipToCursor \/ PassOver \/ Take \/ PageFull \/ ScanEnd
    \/ FlushStart \/ FlushVisit \/ FlushEnd
    \/ Roll

Next ==
    \/ Walk
    \/ \E k \in Keys : OtherDrops(k) \/ \E p \in Places : OtherAdds(k, p)
    \/ Done

\* The thread in the handler goes on, and the caller asks for every page.
Spec == Init /\ [][Next]_vars /\ WF_vars(Walk)

-----------------------------------------------------------------------------
Over == mode = "page" /\ ~more

\* Others have changed where k stands to the pages: they removed k, or a cursor
\* of its bucket, which may have come back on the other side of it.
Moved(k) ==
    \/ k \in gone
    \/ \E c \in cursors \cap gone : BucketOf[c] = BucketOf[k]

Returned(k) == \E i \in DOMAIN seen : seen[i] = k

\* Paging from the empty cursor until has_more is false misses a matching key
\* that stayed in the cache in two cases only: somebody removed the cursor of
\* the last page, so that the skip never ended (proto/cache.proto:486-489), or
\* removed the cursor of an earlier page whose bucket the key shares
\* (CacheManager.cc:801-878; the tests page through a quiet cache).
SteadyKeysReturned ==
    Over => \A k \in steady \cap Matching :
                Returned(k) \/ Moved(k) \/ (~past /\ cursor \in gone)

\* "Within a single page no key is returned twice.  Across pages, nothing is
\* guaranteed" (proto/cache.proto:491-492).  The first is so; across pages the
\* walk does guarantee something: only a key that others removed, or one whose
\* bucket had a cursor removed, comes a second time (CacheManager.cc:825-876).
NoKeyTwice ==
    /\ IsInjective(page)
    /\ \A i, j \in DOMAIN seen : i < j /\ seen[i] = seen[j] => Moved(seen[i])

\* A caller that follows the cursor gets to the end, whatever others change in
\* between, as long as they change finitely much: no cycle of pages, no walk
\* that never stops (CacheManager.cc:825-876).
ScanFinishes == mode = "scan" ~> Over

\* A flush removes every key that was there when it began and that nobody else
\* touched, and what it reports is what it removed itself, whatever others removed
\* from under its iterator or added behind it (CacheManager.cc:966-985).
FlushExact ==
    mode = "flushed" =>
        /\ steady = {}
        /\ Cardinality(Present) = start + added - dropped - removed
=============================================================================
