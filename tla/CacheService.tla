---------------------------- MODULE CacheService ----------------------------
(***************************************************************************)
(* The handlers of CacheServiceImpl.cc on top of CacheManager: they check  *)
(* their message, narrow its TTLs, call CacheManager once, or once for     *)
(* each element of a batch, and turn what it returned into a response and  *)
(* a status.  Between two calls of a batch anything may happen.            *)
(*                                                                         *)
(* A message is its RPC and its items: one for the unary RPCs, any number  *)
(* for MultiGet, MultiSet and MultiDelete, an idle one for Stats and none  *)
(* for Ping.                                                               *)
(* Scan and Flush are in CacheWalk, Pipeline is in Pipeline.               *)
(***************************************************************************)
EXTENDS CacheManager, RpcMessages

CONSTANTS
    Messages,   \* what clients may send
    NoMessage,  \* a free gRPC thread
    NoAnswer,   \* a handler that has not replied
    MaxRpcs     \* bound: RPCs of all threads

Unary == {"Get", "Set", "Delete", "Exists", "SetNX", "Increment", "Decrement",
          "Incr", "CompareAndSwap", "GetTTL", "Touch", "Stats"}

Batches == {"MultiGet", "MultiSet", "MultiDelete"}

\* What one item of a message may hold, and what a response does.
MessageItem ==
    [key : Keys, val : Text, expected : Text, ttl : Int, delta : Int64,
     keep : BOOLEAN]

Answers ==
    [status : {"OK", "UNAVAILABLE", "INVALID_ARGUMENT", "INTERNAL"},
     ok : BOOLEAN, results : Seq(Result), count : Nat, rest : Nat]

\* CacheLib throws when it is asked to allocate an item with an empty key.
ASSUME ServiceAssumption ==
    /\ MaxRpcs \in Nat
    /\ EmptyKey \in Keys
    /\ NoMessage \notin Messages
    /\ NoAnswer \notin Answers
    /\ NoItem \notin Text
    /\ \A r \in Requests :
          r.key = EmptyKey => r.op \in {"get", "remove", "getStats"}

\* A message has the items its RPC takes, and Requests what they ask for.
ASSUME MessagesAssumption ==
    \A m \in Messages :
        /\ m.items \in Seq(MessageItem)
        /\ \/ m.rpc \in Unary /\ Len(m.items) = 1
           \/ m.rpc \in Batches
           \/ m.rpc = "Ping" /\ m.items = <<>>
        /\ \A i \in DOMAIN m.items :
              \/ requestOf(m.rpc, m.items[i]) \in Requests
              \/ /\ m.items[i].key = EmptyKey
                 /\ m.rpc \notin {"MultiGet", "MultiDelete", "Stats"}

VARIABLES
    rpcs,       \* RPCs so far
    msg,        \* the message its handler is about
    todo,       \* the calls to CacheManager it has still to make
    results,    \* what the others returned
    answer      \* its response

serviceVars == <<rpcs, msg, todo, results, answer>>

InitS ==
    /\ Init
    /\ rpcs = 0
    /\ msg = [t \in Threads |-> NoMessage]
    /\ todo = [t \in Threads |-> <<>>]
    /\ results = [t \in Threads |-> <<>>]
    /\ answer = [t \in Threads |-> NoAnswer]

-----------------------------------------------------------------------------
\* The items that have a key, in their order: the n-th of them is the one that
\* is the n-th from the front.
withKeys(items) ==
    LET kept   == {i \in DOMAIN items : items[i].key # EmptyKey}
        nth(n) == CHOOSE i \in kept : Cardinality({j \in kept : j <= i}) = n
    IN  [n \in 1..Cardinality(kept) |-> items[nth(n)]]

\* (Mutant) MultiGet leaves the empty keys out, too.
attemptNonempty(m) ==
    IF m.rpc \in {"MultiGet", "MultiSet"} THEN withKeys(m.items) ELSE m.items

\* MultiSet leaves out the items with an empty key; MultiGet and MultiDelete
\* do not.
attempted(m) ==
    IF m.rpc = "MultiSet" THEN withKeys(m.items) ELSE m.items

callsOf(m) ==
    LET items == attempted(m)
    IN  [n \in 1..Len(items) |-> requestOf(m.rpc, items[n])]

-----------------------------------------------------------------------------
Status(status) ==
    [status |-> status, ok |-> FALSE, results |-> <<>>, count |-> 0, rest |-> 0]

Succeeded(rs) == Cardinality({i \in DOMAIN rs : rs[i].ok})

\* A batch that counts every item it was sent as done.
batchAnswerForSent(m, rs) ==
    [status |-> "OK", ok |-> TRUE, results |-> rs,
     count |-> Len(m.items), rest |-> 0]

\* MultiGet returns the results; MultiSet and MultiDelete count them, and
\* success of a MultiSet means that none failed.
batchAnswer(m, rs) ==
    [status  |-> "OK",
     ok      |-> m.rpc = "MultiSet" => Succeeded(rs) = Len(rs),
     results |-> rs,
     count   |-> Succeeded(rs),
     rest    |-> Len(rs) - Succeeded(rs)]

\* The response, from what CacheManager returned.  ok is found, success,
\* was_set or exists; count and rest are the two counts of a batch, and count
\* is key_existed of Delete.
answerOf(m, rs) ==
    CASE m.rpc = "Ping" -> [Status("OK") EXCEPT !.ok = TRUE]
      [] m.rpc = "Incr" /\ ~rs[1].ok -> Status("INTERNAL")
      [] m.rpc \in Batches -> batchAnswer(m, rs)
      [] OTHER ->
            [Status("OK") EXCEPT
                !.ok = CASE m.rpc = "GetTTL" -> rs[1].n # -2
                         [] m.rpc \in {"Delete", "Stats"} -> TRUE
                         [] OTHER -> rs[1].ok,
                !.results = rs,
                !.count = IF m.rpc = "Delete" /\ rs[1].ok THEN 1 ELSE 0]

-----------------------------------------------------------------------------
\* The handler's checks, in its order.  Ping makes none, Stats and the
\* batches have no key to check.
refusal(m) ==
    IF m.rpc = "Ping" THEN "none"
    ELSE IF phase # "up" THEN "UNAVAILABLE"
    ELSE IF m.rpc \notin Batches \cup {"Stats"} /\ m.items[1].key = EmptyKey
    THEN "INVALID_ARGUMENT"
    ELSE "none"

\* A call arrives on a free thread.
Receive(t, m) ==
    /\ msg[t] = NoMessage
    /\ rpcs < MaxRpcs
    /\ rpcs' = rpcs + 1
    /\ msg' = [msg EXCEPT ![t] = m]
    /\ IF refusal(m) # "none"
       THEN /\ answer' = [answer EXCEPT ![t] = Status(refusal(m))]
            /\ UNCHANGED todo
       ELSE /\ todo' = [todo EXCEPT ![t] = callsOf(m)]
            /\ UNCHANGED answer
    /\ UNCHANGED <<vars, results>>

\* The handler calls CacheManager with the next item.
Issue(t) ==
    /\ todo[t] # <<>>
    /\ Call(t, Head(todo[t])) \/ CallRefused(t, Head(todo[t]))
    /\ UNCHANGED serviceVars

\* The call returns.
Collect(t) ==
    /\ Return(t)
    /\ results' = [results EXCEPT ![t] = Append(@, plan[t].res)]
    /\ todo' = [todo EXCEPT ![t] = Tail(@)]
    /\ UNCHANGED <<rpcs, msg, answer>>

\* The handler fills in its response.
Respond(t) ==
    /\ msg[t] # NoMessage
    /\ answer[t] = NoAnswer
    /\ todo[t] = <<>>
    /\ answer' = [answer EXCEPT ![t] = answerOf(msg[t], results[t])]
    /\ UNCHANGED <<vars, rpcs, msg, todo, results>>

\* The response is sent and the thread is free.
Send(t) ==
    /\ answer[t] # NoAnswer
    /\ answer' = [answer EXCEPT ![t] = NoAnswer]
    /\ msg' = [msg EXCEPT ![t] = NoMessage]
    /\ results' = [results EXCEPT ![t] = <<>>]
    /\ UNCHANGED <<vars, rpcs, todo>>

-----------------------------------------------------------------------------
\* Inside CacheManager.
Within(t) ==
    /\ \/ Lock(t) \/ Find(t) \/ Decide(t) \/ CopyThrows(t) \/ Remove(t)
       \/ Allocate(t) \/ AllocateFails(t) \/ Link(t) \/ Load(t)
    /\ UNCHANGED serviceVars

Serve(t) == Issue(t) \/ Within(t) \/ Collect(t) \/ Respond(t) \/ Send(t)

\* cacheManager->shutdown() comes after the last handler has returned.
ShutdownS == Shutdown /\ \A t \in Threads : msg[t] = NoMessage

\* Everyone has been served and the cache is shut down.
DoneS ==
    /\ phase = "down"
    /\ rpcs = MaxRpcs
    /\ \A t \in Threads : msg[t] = NoMessage
    /\ UNCHANGED <<vars, serviceVars>>

StepS ==
    \/ /\ Initialize \/ ShutdownS \/ (\E k \in Keys : Drop(k)) \/ Tick \/ CatchUp
       /\ UNCHANGED serviceVars
    \/ \E t \in Threads : (\E m \in Messages : Receive(t, m)) \/ Serve(t)
    \/ DoneS

-----------------------------------------------------------------------------
(***************************************************************************)
(* History of the handler that is under way: what each key has held since  *)
(* it began, and what it has stored and removed itself.                    *)
(***************************************************************************)
VARIABLES held, stored, removed

histVars == <<held, stored, removed>>

\* What a lookup of k finds.
Lookup(k) ==
    LET i == find(store[k], libNow) IN IF i = NoItem THEN NoItem ELSE i.val

InitH ==
    /\ InitS
    /\ held = [t \in Threads |-> [k \in Keys |-> {}]]
    /\ stored = [t \in Threads |-> 0]
    /\ removed = [t \in Threads |-> 0]

\* t unlinks an item in this step.
Removes(t) == pc[t] = "remove" /\ pc'[t] = "reply" /\ store[req[t].key] # NoItem

NextH ==
    /\ StepS
    /\ held' = [t \in Threads |->
          IF msg'[t] = NoMessage THEN [k \in Keys |-> {}]
          ELSE IF answer[t] # NoAnswer THEN held[t]
          ELSE [k \in Keys |-> held[t][k] \cup {Lookup(k)'}]]
    /\ stored' = [t \in Threads |->
          IF msg'[t] = NoMessage THEN 0
          ELSE IF Links(t) THEN stored[t] + 1 ELSE stored[t]]
    /\ removed' = [t \in Threads |->
          IF msg'[t] = NoMessage THEN 0
          ELSE IF Removes(t) THEN removed[t] + 1 ELSE removed[t]]

allVars == <<vars, serviceVars, histVars>>

SpecS == InitH /\ [][NextH]_allVars
-----------------------------------------------------------------------------
Answered(t, rpcNames) ==
    answer[t] # NoAnswer /\ msg[t].rpc \in rpcNames /\ answer[t].status = "OK"

\* What a read answers was so under that very key at some moment of the call,
\* the i-th result of a MultiGet for the i-th key asked for ("Results in the
\* same order as requested keys"), an empty key and a key given twice
\* included, whoever writes between two lookups of the batch
\* (CacheServiceImpl.cc:149-177).  The one exception is a value whose copy
\* threw: it is answered as found and empty, and there was something to find.
AnswersWereTrue ==
    \A t \in Threads :
        Answered(t, {"Get", "MultiGet", "Exists", "GetTTL"}) =>
            LET items == msg[t].items
                rs    == answer[t].results
            IN  /\ Len(rs) = Len(items)
                /\ \A i \in 1..Len(items) :
                      LET was == held[t][items[i].key]
                      IN  CASE msg[t].rpc = "Exists" \/ msg[t].rpc = "GetTTL" ->
                                 IF answer[t].ok THEN was # {NoItem}
                                 ELSE NoItem \in was
                            [] OTHER ->
                                 IF ~rs[i].ok THEN NoItem \in was
                                 ELSE \/ rs[i].val \in was
                                      \/ rs[i].val = EmptyText /\ was # {NoItem}

Writers == {"Set", "SetNX", "Increment", "Decrement", "Incr", "CompareAndSwap",
            "Touch"}

\* A response tells exactly what its call did to the cache.  A writer that
\* reports success has stored one item, one that reports anything else none;
\* the counts of a batch are the items it stored or removed itself, however
\* many others store and remove the same keys meanwhile, and the rest are the
\* others it attempted; a refused call did nothing
\* (CacheServiceImpl.cc:58-124, 179-440).
AnswersTellEffects ==
    \A t \in Threads : answer[t] # NoAnswer =>
        LET a == answer[t]
            m == msg[t]
            n == IF m.rpc = "MultiSet"
                 THEN Cardinality({i \in 1..Len(m.items) : m.items[i].key # EmptyKey})
                 ELSE Len(m.items)
        IN  /\ stored[t] = CASE m.rpc = "MultiSet" -> a.count
                             [] m.rpc \in Writers -> IF a.ok THEN 1 ELSE 0
                             [] OTHER -> 0
            /\ removed[t] = IF m.rpc \in {"Delete", "MultiDelete"} THEN a.count
                            ELSE 0
            /\ a.status = "OK" /\ m.rpc \in {"MultiSet", "MultiDelete"}
                  => a.count + a.rest = n

\* An item is stored with the value its message gives for that key and, when
\* the time can be told in 32 bits, with the deadline: none for a TTL that is
\* not positive (CacheServiceImpl.cc:76-84, 193-199, 276-281).
DeadlineAsAsked ==
    [][\A t \in Threads :
          Links(t) /\ msg[t].rpc \in {"Set", "SetNX", "MultiSet"} =>
             LET i   == attempted(msg[t])[Len(results[t]) + 1]
                 new == store'[i.key]
             IN  /\ new.val = i.val
                 /\ i.ttl <= 0 => new.expiry = 0
                 /\ i.ttl \in 1..(Modulus - 1 - new.created)
                       => new.expiry = new.created + i.ttl]_allVars
=============================================================================
