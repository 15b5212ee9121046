----------------------------- MODULE GlobMatch -----------------------------
(***************************************************************************)
(* CacheManager::matchesPattern, the glob matcher of Scan, one loop        *)
(* iteration to a step.  It keeps a single backtrack point, the most       *)
(* recent '*', so that no pattern can make it explode.  Positions count    *)
(* from 1 here, from 0 in the code.                                        *)
(***************************************************************************)
EXTENDS Integers, Sequences

CONSTANTS
    KeyChars,       \* the characters of keys
    PatternChars,   \* the characters of patterns, "*" and "?" among them
    MaxKey,         \* bound: the length of a key
    MaxPattern      \* bound: the length of a pattern

ASSUME GlobAssumption ==
    /\ MaxKey \in Nat
    /\ MaxPattern \in Nat

VARIABLES
    key, pattern,   \* the arguments
    k, p,           \* positions in them
    starPos,        \* where the most recent '*' is, or 0 (kNone)
    starKey,        \* the position from which it stops matching
    verdict,        \* "running", "yes" or "no"
    work            \* iterations so far

vars == <<key, pattern, k, p, starPos, starKey, verdict, work>>

Texts(chars, max) == UNION {[1..n -> chars] : n \in 0..max}

\* The fast path for "match everything".
matchesAll(pat) == pat = <<>> \/ pat = <<"*">>

Init ==
    /\ key \in Texts(KeyChars, MaxKey)
    /\ pattern \in Texts(PatternChars, MaxPattern)
    /\ k = 1
    /\ p = 1
    /\ starPos = 0
    /\ starKey = 1
    /\ verdict = IF matchesAll(pattern) THEN "yes" ELSE "running"
    /\ work = 0

InPattern == p <= Len(pattern)

InKey == k <= Len(key)

SameChar == InPattern /\ pattern[p] \in {"?", key[k]}

Iterate ==
    /\ verdict = "running"
    /\ work' = work + 1
    /\ UNCHANGED <<key, pattern>>

\* pattern[p] is '?' or the character at hand.
Advance ==
    /\ Iterate
    /\ InKey
    /\ SameChar
    /\ k' = k + 1
    /\ p' = p + 1
    /\ UNCHANGED <<starPos, starKey, verdict>>

\* pattern[p] is '*': assume first that it matches nothing.
OpenStar ==
    /\ Iterate
    /\ InKey
    /\ ~SameChar
    /\ InPattern /\ pattern[p] = "*"
    /\ starPos' = p
    /\ starKey' = k
    /\ p' = p + 1
    /\ UNCHANGED <<k, verdict>>

\* Going back one character too far: the '*' swallows nothing more.
BacktrackInPlace ==
    /\ Iterate
    /\ InKey
    /\ ~SameChar
    /\ ~(InPattern /\ pattern[p] = "*")
    /\ starPos # 0
    /\ p' = starPos + 1
    /\ k' = starKey
    /\ UNCHANGED <<starPos, starKey, verdict>>

\* A mismatch after a '*': let that '*' swallow one more character.
Backtrack ==
    /\ Iterate
    /\ InKey
    /\ ~SameChar
    /\ ~(InPattern /\ pattern[p] = "*")
    /\ starPos # 0
    /\ p' = starPos + 1
    /\ starKey' = starKey + 1
    /\ k' = starKey + 1
    /\ UNCHANGED <<starPos, verdict>>

\* A mismatch with nothing to go back to.
Mismatch ==
    /\ Iterate
    /\ InKey
    /\ ~SameChar
    /\ ~(InPattern /\ pattern[p] = "*")
    /\ starPos = 0
    /\ verdict' = "no"
    /\ UNCHANGED <<k, p, starPos, starKey>>

\* The key is used up: only '*'s may be left of the pattern.
SkipStar ==
    /\ Iterate
    /\ ~InKey
    /\ InPattern /\ pattern[p] = "*"
    /\ p' = p + 1
    /\ UNCHANGED <<k, starPos, starKey, verdict>>

\* A last comparison that accepts a pattern with something left over.
FinishEarly ==
    /\ Iterate
    /\ ~InKey
    /\ ~(InPattern /\ pattern[p] = "*")
    /\ verdict' = IF p >= Len(pattern) THEN "yes" ELSE "no"
    /\ UNCHANGED <<k, p, starPos, starKey>>

Finish ==
    /\ Iterate
    /\ ~InKey
    /\ ~(InPattern /\ pattern[p] = "*")
    /\ verdict' = IF p = Len(pattern) + 1 THEN "yes" ELSE "no"
    /\ UNCHANGED <<k, p, starPos, starKey>>

Returned == verdict # "running" /\ UNCHANGED vars

Next ==
    \/ Advance \/ OpenStar \/ Backtrack \/ Mismatch \/ SkipStar \/ Finish
    \/ Returned

Spec == Init /\ [][Next]_vars

-----------------------------------------------------------------------------
\* What a glob means: '?' stands for any character, '*' for any number of them,
\* everything else for itself.  stops says for each '*' where in the key it stops
\* matching; that fixes where each character of the pattern begins.
Stars(pat) == {j \in DOMAIN pat : pat[j] = "*"}

from(stops, j) ==
    LET earlier == {s \in DOMAIN stops : s < j}
        last    == CHOOSE s \in earlier : \A r \in earlier : r <= s
    IN  IF earlier = {} THEN j ELSE stops[last] + (j - last - 1)

Fits(ky, pat, stops, j) ==
    IF pat[j] = "*" THEN from(stops, j) <= stops[j]
    ELSE from(stops, j) <= Len(ky) /\ pat[j] \in {"?", ky[from(stops, j)]}

Matches(ky, pat) ==
    \/ pat = <<>>
    \/ \E stops \in [Stars(pat) -> 1..(Len(ky) + 1)] :
          /\ \A j \in DOMAIN pat : Fits(ky, pat, stops, j)
          /\ from(stops, Len(pat) + 1) = Len(ky) + 1

\* One backtrack point is enough: the matcher accepts only keys the glob
\* describes, though it never reconsiders an earlier '*', and it accepts all of
\* them as long as no '*' is in the key; one that is may be taken for the
\* pattern's, because the literal comparison comes first (CacheManager.cc:764-799).
VerdictCorrect ==
    /\ verdict = "yes" => Matches(key, pattern)
    /\ verdict = "no" => ~Matches(key, pattern) \/ \E i \in DOMAIN key : key[i] = "*"

\* "a worst case of O(len(key) * len(pattern))" (CacheManager.cc:760): the
\* iterations never exceed the product of the lengths and the two ends.
WorkBounded == work <= (Len(key) + 1) * (Len(pattern) + 1)
=============================================================================
