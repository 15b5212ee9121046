---------------------------- MODULE CacheLinear ----------------------------
(***************************************************************************)
(* CacheManager, used only through its read-modify-write operations,       *)
(* implements AtomicCache.  The operation takes effect when it links its   *)
(* item, when its allocation fails, or when it decides not to store.       *)
(***************************************************************************)
EXTENDS CacheManager

CONSTANT Nobody

\* Nobody is told apart from every call and from every answer.
ASSUME NobodyAssumption ==
    /\ Nobody \notin [req : Requests, sys : Nat, lib : Nat]
    /\ Nobody \notin Result

\* A history variable: the clocks when each thread's call began.
VARIABLE began

InitL == Init /\ began = [t \in Threads |-> Nobody]

NextL ==
    /\ Next
    /\ began' = [t \in Threads |->
                    IF pc'[t] = "idle" THEN Nobody
                    ELSE IF pc[t] = "idle" THEN [sys |-> sysNow, lib |-> libNow]
                    ELSE began[t]]

SpecL == InitL /\ [][NextL]_<<vars, began>>

\* A thread that is inside a call is eventually scheduled.
FairSpecL ==
    SpecL /\ \A t \in Threads : WF_vars(Step(t))

callOf(t) ==
    IF pc[t] = "idle" THEN Nobody
    ELSE [req |-> req[t], sys |-> began[t].sys, lib |-> began[t].lib]

returned(t) == IF pc[t] = "reply" THEN plan[t].res ELSE Nobody

Atomic == INSTANCE AtomicCache WITH
    call   <- [t \in Threads |-> callOf(t)],
    answer <- [t \in Threads |-> returned(t)]

\* Every behaviour of the locked operations is one in which they happen one at
\* a time, each in an instant within its call (CacheManager.cc:434-734).
Linearizable == Atomic!ASpec
=============================================================================
