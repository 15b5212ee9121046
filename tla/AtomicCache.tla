---------------------------- MODULE AtomicCache ----------------------------
(***************************************************************************)
(* What the read-modify-write operations of CacheManager promise: each one *)
(* takes effect in a single instant between its call and its return.  In   *)
(* that instant it looks at the item under its key, decides, and either    *)
(* replaces that item or leaves it, and its answer is fixed.  There is no  *)
(* mutex here, no handle, and no state between reading and writing.        *)
(*                                                                         *)
(* The clock readings an operation uses are taken within the call.  A key  *)
(* may lose its item at any moment: this is a cache.                       *)
(***************************************************************************)
EXTENDS CacheOps

CONSTANTS Threads, Keys, Requests,
    Nobody      \* no call, or no answer yet

VARIABLES store, sysNow, libNow,
    call,       \* the call each thread is in: [req, sys, lib]
    answer      \* the answer of that call, once it has taken effect

avars == <<store, sysNow, libNow, call, answer>>

AInit ==
    /\ store = [k \in Keys |-> NoItem]
    /\ sysNow = 1
    /\ libNow = 1
    /\ call = [t \in Threads |-> Nobody]
    /\ answer = [t \in Threads |-> Nobody]

ACall(t, r) ==
    /\ call[t] = Nobody
    /\ call' = [call EXCEPT ![t] = [req |-> r, sys |-> sysNow, lib |-> libNow]]
    /\ UNCHANGED <<store, sysNow, libNow, answer>>

\* Turned away at the door: there is no cache, or decrement cannot negate.
ARefuse(t, r) ==
    /\ call[t] = Nobody
    /\ call' = [call EXCEPT ![t] = [req |-> r, sys |-> sysNow, lib |-> libNow]]
    /\ \E res \in {notReady(r), Refused("Cannot be negated")} :
          answer' = [answer EXCEPT ![t] = res]
    /\ UNCHANGED <<store, sysNow, libNow>>

\* What an operation may see under its key: the item, or nothing at all once
\* it has expired by CacheLib's clock.
Visible(k) ==
    {store[k]} \cup (IF find(store[k], libNow) = NoItem THEN {NoItem} ELSE {})

\* The operation happens.
AEffect(t) ==
    /\ call[t] # Nobody
    /\ answer[t] = Nobody
    /\ \E seen \in Visible(call[t].req.key),
          now \in call[t].sys..sysNow, stamp \in call[t].lib..libNow :
          LET r == call[t].req
              d == decide(r, seen, now)
          IN  \/ /\ ~d.write
                 /\ answer' = [answer EXCEPT ![t] = d.res]
                 /\ UNCHANGED store
              \/ /\ d.write
                 /\ answer' = [answer EXCEPT ![t] = d.res]
                 /\ store' = [store EXCEPT ![r.key] =
                        allocate(d.draft.val, d.draft.ttl, d.draft.created, stamp)]
              \/ /\ d.write
                 /\ answer' = [answer EXCEPT ![t] = d.fail]
                 /\ UNCHANGED store
    /\ UNCHANGED <<sysNow, libNow, call>>

AReturn(t) ==
    /\ answer[t] # Nobody
    /\ call' = [call EXCEPT ![t] = Nobody]
    /\ answer' = [answer EXCEPT ![t] = Nobody]
    /\ UNCHANGED <<store, sysNow, libNow>>

ALose(lost) ==
    /\ store' = [k \in Keys |-> IF k \in lost THEN NoItem ELSE store[k]]
    /\ UNCHANGED <<sysNow, libNow, call, answer>>

ATime ==
    /\ \/ sysNow' = sysNow + 1 /\ sysNow = libNow /\ UNCHANGED libNow
       \/ libNow' = sysNow /\ UNCHANGED sysNow
    /\ UNCHANGED <<store, call, answer>>

ANext ==
    \/ \E t \in Threads :
          (\E r \in Requests : ACall(t, r) \/ ARefuse(t, r)) \/ AEffect(t) \/ AReturn(t)
    \/ \E lost \in SUBSET Keys : ALose(lost)
    \/ ATime

ASpec == AInit /\ [][ANext]_avars
=============================================================================
