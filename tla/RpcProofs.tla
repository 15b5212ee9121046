----------------------------- MODULE RpcProofs -----------------------------
(***************************************************************************)
(* Theorems about the RPC handlers of CacheServiceImpl: the Pipeline       *)
(* stream, for any number of streams and of other callers, any requests    *)
(* and any size of the transport's buffers; and the unary and batch        *)
(* handlers, for any number of gRPC threads and any messages.              *)
(***************************************************************************)
EXTENDS Pipeline, CacheService, CacheManagerProofs, WellFoundedInduction

-----------------------------------------------------------------------------
\* The Pipeline stream.

Places == {"idle", "reading", "applying", "applied", "writing", "returned"}

\* The places where the handler has a request in hand.
Busy == {"applying", "applied", "writing"}

\* What was sent, how far it was read, and that only a valid request reaches
\* CacheManager.
FrameInv ==
    /\ sent \in [Streams -> Seq(Frames)]
    /\ nread \in [Streams -> Nat]
    /\ at \in [Streams -> Places]
    /\ \A s \in Streams :
          /\ nread[s] <= Len(sent[s])
          /\ at[s] \in Busy => nread[s] >= 1
          /\ at[s] \in {"applying", "applied"} => inBandError(frame(s)) = ""

\* What a stream sends next leaves what it has sent alone.
LEMMA SentStays ==
    ASSUME NEW q \in Seq(Frames), NEW f \in Frames
    PROVE  /\ Append(q, f) \in Seq(Frames) /\ Len(Append(q, f)) = Len(q) + 1
           /\ Len(q) \in Nat
           /\ \A i \in 1..Len(q) : Append(q, f)[i] = q[i]
  OBVIOUS

\* The invariant, for one stream.
LEMMA FrameFacts ==
    ASSUME FrameInv, NEW s \in Streams
    PROVE  /\ sent[s] \in Seq(Frames) /\ Len(sent[s]) \in Nat
           /\ DOMAIN sent[s] = 1..Len(sent[s])
           /\ nread[s] \in Nat /\ nread[s] <= Len(sent[s]) /\ at[s] \in Places
           /\ at[s] \in Busy => nread[s] >= 1 /\ frame(s) \in Frames
           /\ at[s] \in {"applying", "applied"} => inBandError(frame(s)) = ""
  <1>1. /\ sent[s] \in Seq(Frames) /\ nread[s] \in Nat /\ at[s] \in Places
        /\ nread[s] <= Len(sent[s]) /\ (at[s] \in Busy => nread[s] >= 1)
        /\ at[s] \in {"applying", "applied"} => inBandError(frame(s)) = ""
    BY DEF FrameInv
  <1>2. /\ Len(sent[s]) \in Nat /\ DOMAIN sent[s] = 1..Len(sent[s])
        /\ \A i \in 1..Len(sent[s]) : sent[s][i] \in Frames
    <2>1. sent[s] \in Seq(Frames)
      BY <1>1
    <2> QED
      BY <2>1, LenProperties, ElementOfSeq
  <1>3. ASSUME at[s] \in Busy PROVE sent[s][nread[s]] \in Frames
    <2> DEFINE n == nread[s]
    <2> DEFINE last == Len(sent[s])
    <2>1. n \in Nat /\ last \in Nat /\ n <= last /\ n >= 1
      BY <1>1, <1>2, <1>3
    <2> HIDE DEF n, last
    <2>2. n \in 1..last
      BY <2>1
    <2> QED
      BY <1>2, <2>2 DEF n, last
  <1> QED
    BY <1>1, <1>2, <1>3 DEF frame

\* Every step keeps the bookkeeping of requests.
LEMMA NextFrameInv ==
    ASSUME FrameInv, [NextP]_<<vars, streamVars>>
    PROVE  FrameInv'
  <1>1. CASE UNCHANGED streamVars
    BY <1>1 DEF streamVars, FrameInv, frame
  <1>2. ASSUME NEW s \in Streams, NEW f \in Frames, ClientWrite(s, f)
        PROVE  FrameInv'
    <2>1. sent' = [sent EXCEPT ![s] = Append(sent[s], f)] /\ UNCHANGED <<nread, at>>
      BY <1>2 DEF ClientWrite
    <2>2. sent[s] \in Seq(Frames)
      BY FrameFacts
    <2>3. /\ Append(sent[s], f) \in Seq(Frames)
          /\ Len(Append(sent[s], f)) = Len(sent[s]) + 1 /\ Len(sent[s]) \in Nat
          /\ \A i \in 1..Len(sent[s]) : Append(sent[s], f)[i] = sent[s][i]
      BY <2>2, SentStays
    <2>4. sent' \in [Streams -> Seq(Frames)]
      BY <2>1, <2>3 DEF FrameInv
    <2>5. ASSUME NEW u \in Streams
          PROVE  /\ nread[u] <= Len(sent'[u])
                 /\ nread[u] >= 1 => sent'[u][nread[u]] = sent[u][nread[u]]
      <3>1. CASE u = s
        <4>1. sent'[u] = Append(sent[s], f)
          BY <2>1, <3>1 DEF FrameInv
        <4>2. nread[u] \in Nat /\ nread[u] <= Len(sent[s])
          BY <3>1, FrameFacts
        <4> QED
          BY <2>3, <3>1, <4>1, <4>2
      <3>2. CASE u # s
        BY <2>1, <3>2 DEF FrameInv
      <3> QED
        BY <3>1, <3>2
    <2> QED
      BY <2>1, <2>4, <2>5 DEF FrameInv, frame, Busy
  <1>3. ASSUME NEW s \in Streams, Read(s) PROVE FrameInv'
    <2>1. /\ at[s] = "reading" /\ nread[s] < Len(sent[s]) /\ sent' = sent
          /\ nread' = [nread EXCEPT ![s] = nread[s] + 1]
          /\ at' = [at EXCEPT ![s] = IF inBandError(sent[s][nread[s] + 1]) = ""
                                     THEN "applying" ELSE "writing"]
      BY <1>3 DEF Read, Takes
    <2>2. sent[s] \in Seq(Frames) /\ nread[s] \in Nat /\ Len(sent[s]) \in Nat
      BY FrameFacts
    <2>3. nread' \in [Streams -> Nat] /\ at' \in [Streams -> Places]
      <3>1. nread \in [Streams -> Nat] /\ at \in [Streams -> Places]
        BY DEF FrameInv
      <3>2. PICK where \in Places : at' = [at EXCEPT ![s] = where]
        BY <2>1 DEF Places
      <3>3. nread' = [nread EXCEPT ![s] = nread[s] + 1]
        BY <2>1
      <3>4. nread[s] + 1 \in Nat
        BY <3>1
      <3> QED
        BY <3>1, <3>2, <3>3, <3>4
    <2>4. ASSUME NEW u \in Streams
          PROVE  /\ nread'[u] <= Len(sent'[u])
                 /\ at'[u] \in Busy => nread'[u] >= 1
                 /\ at'[u] \in {"applying", "applied"} =>
                       inBandError(sent'[u][nread'[u]]) = ""
      <3>1. CASE u = s
        <4>1. nread'[u] = nread[s] + 1
          BY <2>1, <3>1 DEF FrameInv
        <4>2. at'[u] = IF inBandError(sent[s][nread[s] + 1]) = ""
                       THEN "applying" ELSE "writing"
          BY <2>1, <3>1 DEF FrameInv
        <4>3. nread[s] + 1 <= Len(sent[s]) /\ nread[s] + 1 >= 1
          <5> DEFINE n == nread[s]
          <5> DEFINE last == Len(sent[s])
          <5>1. n \in Nat /\ last \in Nat /\ n < last
            BY <2>1, <2>2
          <5> HIDE DEF n, last
          <5>2. n + 1 <= last /\ n + 1 >= 1
            BY <5>1
          <5> QED
            BY <5>2 DEF n, last
        <4>4. at'[u] \in {"applying", "applied"} =>
                 inBandError(sent[s][nread[s] + 1]) = ""
          BY <4>2
        <4>5. sent'[u] = sent[s]
          BY <2>1, <3>1
        <4> QED
          BY <4>1, <4>3, <4>4, <4>5
      <3>2. CASE u # s
        BY <2>1, <3>2 DEF FrameInv, frame
      <3> QED
        BY <3>1, <3>2
    <2> QED
      BY <2>1, <2>3, <2>4 DEF FrameInv, frame
  <1>4. ASSUME NEW s \in Streams,
               \/ Start(s) \/ ReadEnds(s) \/ Apply(s) \/ Applied(s) \/ Write(s)
        PROVE  FrameInv'
    <2>1. UNCHANGED <<sent, nread>>
      BY <1>4 DEF Start, ReadEnds, Apply, Applied, Write
    <2>2. PICK where \in Places :
             /\ at' = [at EXCEPT ![s] = where]
             /\ where \in Busy => at[s] \in Busy
             /\ where \in {"applying", "applied"} => at[s] = "applying"
      BY <1>4
      DEF Start, ReadEnds, Apply, Applied, Write, Moves, Places, Busy
    <2> QED
      BY <2>1, <2>2 DEF FrameInv, frame, Busy
  <1>5. ASSUME NEW s \in Streams, NEW how, ClientRead(s) \/ ClientEnds(s, how)
        PROVE  FrameInv'
    BY <1>5 DEF ClientRead, ClientEnds, FrameInv, frame
  <1> QED
    BY <1>1, <1>2, <1>3, <1>4, <1>5
    DEF NextP, Handle, Inside, Others, DoneP

\* The bookkeeping of requests holds throughout.
LEMMA FrameInvariance == SpecP => []FrameInv
  <1>1. InitP => FrameInv
    BY DEF InitP, FrameInv, Places, Busy
  <1> QED
    BY <1>1, NextFrameInv, PTL DEF SpecP

\* Every step of the server with its streams is one of CacheManager, or none:
\* what the streams ask of it are requests like any other.
LEMMA StreamsCall ==
    ASSUME FrameInv, [NextP]_<<vars, streamVars>>
    PROVE  [Next]_vars
  <1>1. CASE UNCHANGED vars
    BY <1>1
  <1>2. CASE Initialize \/ ShutdownP \/ \E k \in Keys : Drop(k)
    BY <1>2 DEF Next, ShutdownP
  <1>3. ASSUME NEW t \in Threads, Inside(t) \/ Return(t) PROVE Next
    BY <1>3 DEF Next, Step, Inside
  <1>4. ASSUME NEW t \in Threads, NEW r \in OtherRequests, Call(t, r) PROVE Next
    BY <1>4, PipelineAssumption DEF Next, Invoke
  <1>5. ASSUME NEW s \in Streams, Apply(s) PROVE Next
    <2>1. at[s] = "applying" /\ Call(s, requestOf(frame(s).rpc, frame(s).item))
      BY <1>5 DEF Apply, Moves
    <2>2. frame(s) \in Frames /\ inBandError(frame(s)) = ""
      BY <2>1, FrameFacts DEF Busy
    <2>3. requestOf(frame(s).rpc, frame(s).item) \in Requests
      BY <2>2, FramesAssumption
    <2>4. s \in Threads
      BY PipelineAssumption
    <2> QED
      BY <2>1, <2>3, <2>4 DEF Next, Invoke
  <1>6. ASSUME NEW s \in Streams, Applied(s) PROVE Next
    <2>1. s \in Threads /\ Return(s)
      BY <1>6, PipelineAssumption DEF Applied
    <2> QED
      BY <1>3, <2>1
  <1>7. ASSUME NEW s \in Streams, NEW f, NEW how,
               \/ ClientWrite(s, f) \/ ClientRead(s) \/ ClientEnds(s, how)
               \/ Start(s) \/ Read(s) \/ ReadEnds(s) \/ Write(s)
        PROVE  UNCHANGED vars
    BY <1>7
    DEF ClientWrite, ClientRead, ClientEnds, Start, Read, Takes, ReadEnds, Write
  <1>8. Streams \subseteq Threads
    BY PipelineAssumption
  <1>9. CASE NextP
    <2>1. CASE \E s \in Streams :
                  \/ \E f \in Frames : ClientWrite(s, f)
                  \/ ClientRead(s) \/ Handle(s)
                  \/ \E how \in {"halfclosed", "cancelled"} : ClientEnds(s, how)
      BY <1>3, <1>5, <1>6, <1>7, <1>8, <2>1 DEF Handle
    <2>2. CASE \E t \in Threads \ Streams : Others(t)
      BY <1>3, <1>4, <2>2 DEF Others
    <2>3. CASE DoneP
      BY <2>3 DEF DoneP
    <2> QED
      BY <1>2, <1>9, <2>1, <2>2, <2>3 DEF NextP
  <1>10. CASE UNCHANGED <<vars, streamVars>>
    BY <1>10
  <1> QED
    BY <1>9, <1>10

\* The server with its Pipeline streams (CacheServiceImpl.cc:507-588) uses
\* CacheManager as any caller does: each of its behaviours is one of
\* CacheManager, so that everything proved of CacheManager holds of it.
THEOREM StreamsAreCallers == SpecP => Spec
  <1>1. InitP => Init
    BY DEF InitP
  <1>2. FrameInv /\ [NextP]_<<vars, streamVars>> => [Next]_vars
    BY StreamsCall
  <1> QED
    BY <1>1, <1>2, FrameInvariance, PTL DEF SpecP, Spec

-----------------------------------------------------------------------------
\* The values of a response's fields.
Rpcs      == {"Get", "Set", "Delete", "Exists", "Unknown"}
Errors    == {"", "Unknown operation", "Key cannot be empty"}
Responses == [id : Nat, result : Rpcs \cup {"none"}, ok : BOOLEAN, val : Text,
              error : Errors]

StreamTypes ==
    /\ written \in [Streams -> Seq(Responses)]
    /\ response \in [Streams -> Responses]
    /\ ended \in [Streams -> {"open", "halfclosed", "cancelled"}]

\* The state of stream u, but for what it is told to change.
SameBut(u, sentSame, endedSame, atSame) ==
    /\ sentSame => sent'[u] = sent[u]
    /\ endedSame => ended'[u] = ended[u]
    /\ atSame => at'[u] = at[u]
    /\ nread'[u] = nread[u] /\ written'[u] = written[u]
    /\ response'[u] = response[u]

\* What a step may do to stream u.
StreamStep(u) ==
    \/ SameBut(u, TRUE, TRUE, TRUE)
    \/ /\ SameBut(u, FALSE, TRUE, TRUE)
       /\ \E f \in Frames : sent'[u] = Append(sent[u], f)
    \/ SameBut(u, TRUE, FALSE, TRUE) /\ ended[u] # "cancelled"
    \/ /\ SameBut(u, TRUE, TRUE, FALSE)
       /\ at[u] \notin Busy /\ at'[u] \in {"reading", "returned"}
    \/ Read(u) \/ Apply(u) \/ Applied(u) \/ Write(u)

\* A step belongs to one stream at most.
LEMMA StreamSteps ==
    ASSUME FrameInv, StreamTypes, [NextP]_<<vars, streamVars>>, NEW u \in Streams
    PROVE  StreamStep(u)
  <1>0. /\ DOMAIN sent = Streams /\ DOMAIN nread = Streams /\ DOMAIN at = Streams
        /\ DOMAIN written = Streams /\ DOMAIN response = Streams
        /\ DOMAIN ended = Streams
    BY DEF FrameInv, StreamTypes
  <1>1. CASE UNCHANGED streamVars
    BY <1>1 DEF streamVars, StreamStep, SameBut
  <1>2. ASSUME NEW s \in Streams, NEW f \in Frames, ClientWrite(s, f)
        PROVE  StreamStep(u)
    <2>1. /\ sent' = [sent EXCEPT ![s] = Append(sent[s], f)]
          /\ UNCHANGED <<nread, written, ended, at, response>>
      BY <1>2 DEF ClientWrite
    <2>2. sent'[u] = IF u = s THEN Append(sent[u], f) ELSE sent[u]
      BY <1>0, <2>1
    <2> QED
      BY <2>1, <2>2 DEF StreamStep, SameBut
  <1>3. ASSUME NEW s \in Streams, ClientRead(s) PROVE StreamStep(u)
    BY <1>3 DEF ClientRead, StreamStep, SameBut
  <1>4. ASSUME NEW s \in Streams, NEW how, ClientEnds(s, how) PROVE StreamStep(u)
    <2>1. /\ ended' = [ended EXCEPT ![s] = how] /\ ended[s] # "cancelled"
          /\ UNCHANGED <<sent, nread, written, at, response>>
      BY <1>4 DEF ClientEnds
    <2>2. u # s => ended'[u] = ended[u]
      BY <1>0, <2>1
    <2> QED
      BY <2>1, <2>2 DEF StreamStep, SameBut
  <1>5. ASSUME NEW s \in Streams, Start(s) \/ ReadEnds(s) PROVE StreamStep(u)
    <2>1. PICK where \in {"reading", "returned"} :
             at' = [at EXCEPT ![s] = where] /\ at[s] \notin Busy
      BY <1>5 DEF Start, ReadEnds, Moves, Busy
    <2>2. UNCHANGED <<sent, nread, written, ended, response>>
      BY <1>5 DEF Start, ReadEnds
    <2>3. at'[u] = IF u = s THEN where ELSE at[u]
      BY <1>0, <2>1
    <2> QED
      BY <2>1, <2>2, <2>3 DEF StreamStep, SameBut
  <1>6. ASSUME NEW s \in Streams, u # s,
               Read(s) \/ Apply(s) \/ Applied(s) \/ Write(s)
        PROVE  StreamStep(u)
    <2>1. sent' = sent /\ ended' = ended
      BY <1>6 DEF Read, Takes, Apply, Applied, Write
    <2>2. at'[u] = at[u]
      BY <1>0, <1>6 DEF Read, Takes, Apply, Applied, Write, Moves
    <2>3. nread'[u] = nread[u]
      BY <1>0, <1>6 DEF Read, Takes, Apply, Applied, Write
    <2>4. response'[u] = response[u]
      <3>1. CASE Read(s)
        BY <1>0, <1>6, <3>1 DEF Read, Takes
      <3>2. CASE Apply(s) \/ Write(s)
        BY <3>2 DEF Apply, Write
      <3>3. CASE Applied(s)
        BY <1>0, <1>6, <3>3 DEF Applied
      <3> QED
        BY <1>6, <3>1, <3>2, <3>3
    <2>5. written'[u] = written[u]
      BY <1>0, <1>6 DEF Read, Takes, Apply, Applied, Write
    <2> QED
      BY <2>1, <2>2, <2>3, <2>4, <2>5 DEF StreamStep, SameBut
  <1>7. CASE Read(u) \/ Apply(u) \/ Applied(u) \/ Write(u)
    BY <1>7 DEF StreamStep
  <1> QED
    BY <1>1, <1>2, <1>3, <1>4, <1>5, <1>6, <1>7
    DEF NextP, Handle, Inside, Others, DoneP

\* The response of a request just read, field by field.
LEMMA ReadResponse ==
    ASSUME StreamTypes, NEW s \in Streams, Read(s)
    PROVE  response'[s] =
              [id |-> nread[s] + 1, result |-> "none", ok |-> FALSE,
               val |-> EmptyText, error |-> inBandError(sent[s][nread[s] + 1])]
  <1>1. DOMAIN response = Streams
    BY DEF StreamTypes
  <1>2. response' = [response EXCEPT ![s] =
           [NoResponse EXCEPT !.id = nread[s] + 1,
                              !.error = inBandError(sent[s][nread[s] + 1])]]
    BY DEF Read, Takes
  <1> QED
    BY <1>1, <1>2 DEF NoResponse

\* The response of a request CacheManager has answered, field by field.
LEMMA AppliedResponse ==
    ASSUME StreamTypes, NEW s \in Streams, Applied(s)
    PROVE  response'[s] =
              [id |-> response[s].id, result |-> frame(s).rpc,
               ok |-> plan[s].res.ok,
               val |-> IF plan[s].res.ok /\ frame(s).rpc = "Get"
                       THEN plan[s].res.val ELSE response[s].val,
               error |-> response[s].error]
  <1>1. response \in [Streams -> Responses] /\ response[s] \in Responses
    BY DEF StreamTypes
  <1>2. response' = [response EXCEPT ![s].result = frame(s).rpc,
                                     ![s].ok = plan[s].res.ok,
                                     ![s].val = IF plan[s].res.ok
                                                   /\ frame(s).rpc = "Get"
                                                THEN plan[s].res.val ELSE @]
    BY DEF Applied
  <1>3. response[s] = [id |-> response[s].id, result |-> response[s].result,
                       ok |-> response[s].ok, val |-> response[s].val,
                       error |-> response[s].error]
    BY <1>1 DEF Responses
  <1> QED
    BY <1>1, <1>2, <1>3 DEF Responses

\* The response written, or dropped when the stream is cancelled.
LEMMA WrittenResponse ==
    ASSUME StreamTypes, NEW s \in Streams, Write(s)
    PROVE  /\ Len(written[s]) \in Nat /\ written[s] \in Seq(Responses)
           /\ ended[s] = "cancelled" => written'[s] = written[s]
           /\ ended[s] # "cancelled" =>
                 /\ written'[s] = Append(written[s], response[s])
                 /\ written'[s] \in Seq(Responses)
                 /\ Len(written'[s]) = Len(written[s]) + 1
                 /\ \A i \in 1..Len(written[s]) : written'[s][i] = written[s][i]
                 /\ written'[s][Len(written[s]) + 1] = response[s]
  <1>1. written[s] \in Seq(Responses) /\ response[s] \in Responses
    BY DEF StreamTypes
  <1>2. Len(written[s]) \in Nat
    BY <1>1, LenProperties
  <1>3. ended[s] = "cancelled" => written' = written
    BY DEF Write
  <1>4. ended[s] # "cancelled" => written'[s] = Append(written[s], response[s])
    BY DEF Write, StreamTypes
  <1>5. /\ Append(written[s], response[s]) \in Seq(Responses)
        /\ Len(Append(written[s], response[s])) = Len(written[s]) + 1
        /\ \A i \in 1..Len(written[s]) :
              Append(written[s], response[s])[i] = written[s][i]
        /\ Append(written[s], response[s])[Len(written[s]) + 1] = response[s]
    BY <1>1, AppendProperties
  <1> QED
    BY <1>1, <1>2, <1>3, <1>4, <1>5

\* Every step keeps the types of responses.
LEMMA NextStreamTypes ==
    ASSUME TypeInv, FrameInv, StreamTypes, [NextP]_<<vars, streamVars>>
    PROVE  StreamTypes'
  <1>0. /\ written \in [Streams -> Seq(Responses)]
        /\ response \in [Streams -> Responses]
        /\ ended \in [Streams -> {"open", "halfclosed", "cancelled"}]
    BY DEF StreamTypes
  <1>1. CASE UNCHANGED <<written, response, ended>>
    BY <1>0, <1>1 DEF StreamTypes
  <1>2. ASSUME NEW s \in Streams, NEW how \in {"halfclosed", "cancelled"},
               ClientEnds(s, how)
        PROVE  StreamTypes'
    <2>1. ended' = [ended EXCEPT ![s] = how] /\ UNCHANGED <<written, response>>
      BY <1>2 DEF ClientEnds
    <2> QED
      BY <1>0, <2>1 DEF StreamTypes
  <1>3. ASSUME NEW s \in Streams, Read(s) PROVE StreamTypes'
    <2>1. /\ \E res : response' = [response EXCEPT ![s] = res]
          /\ UNCHANGED <<written, ended>>
      BY <1>3 DEF Read, Takes
    <2>2. nread[s] + 1 \in Nat
      <3>1. nread[s] \in Nat
        BY FrameFacts
      <3> QED
        BY <3>1
    <2>3. response'[s] \in Responses
      <3>1. EmptyText \in Text
        BY DEF EmptyText, Text, Kinds
      <3>2. \A f : inBandError(f) \in Errors
        BY DEF inBandError, Errors
      <3> DEFINE e == inBandError(sent[s][nread[s] + 1])
      <3> DEFINE n == nread[s] + 1
      <3>3. e \in Errors /\ n \in Nat
        BY <2>2, <3>2
      <3>4. response'[s] = [id |-> n, result |-> "none", ok |-> FALSE,
                            val |-> EmptyText, error |-> e]
        BY <1>3, ReadResponse
      <3> HIDE DEF e, n
      <3> QED
        BY <3>1, <3>3, <3>4 DEF Responses
    <2>4. response' \in [Streams -> Responses]
      BY <1>0, <2>1, <2>3
    <2> QED
      BY <1>0, <2>1, <2>4 DEF StreamTypes
  <1>4. ASSUME NEW s \in Streams, Applied(s) PROVE StreamTypes'
    <2>1. /\ \A u \in Streams \ {s} : response'[u] = response[u]
          /\ response' = [u \in Streams |-> response'[u]]
          /\ UNCHANGED <<written, ended>>
      BY <1>0, <1>4 DEF Applied
    <2>2. plan[s].res \in Result
      BY PipelineAssumption DEF TypeInv, TypeOK, Decision
    <2>3. frame(s).rpc \in Rpcs
      <3>1. at[s] = "applied"
        BY <1>4 DEF Applied, Moves
      <3> QED
        BY <3>1, FrameFacts, FramesAssumption DEF Busy, Rpcs
    <2>4. response'[s] \in Responses
      <3>1. response[s] \in Responses
        BY <1>0
      <3>2. /\ plan[s].res.ok \in BOOLEAN /\ plan[s].res.val \in Text
            /\ response[s].id \in Nat /\ response[s].val \in Text
            /\ response[s].error \in Errors
        BY <2>2, <3>1 DEF Responses, Result
      <3> DEFINE v == IF plan[s].res.ok /\ frame(s).rpc = "Get"
                      THEN plan[s].res.val ELSE response[s].val
      <3>3. v \in Text
        BY <3>2
      <3> HIDE DEF v
      <3>4. response'[s] =
              [id |-> response[s].id, result |-> frame(s).rpc,
               ok |-> plan[s].res.ok, val |-> v, error |-> response[s].error]
        BY <1>4, AppliedResponse DEF v
      <3> QED
        BY <2>3, <3>2, <3>3, <3>4 DEF Responses
    <2>5. \A u \in Streams : response'[u] \in Responses
      BY <1>0, <2>1, <2>4
    <2>6. response' \in [Streams -> Responses]
      BY <2>1, <2>5
    <2> QED
      BY <1>0, <2>1, <2>6 DEF StreamTypes
  <1>5. ASSUME NEW s \in Streams, Write(s) PROVE StreamTypes'
    <2>1. UNCHANGED <<response, ended>>
      BY <1>5 DEF Write
    <2>2. CASE ended[s] = "cancelled"
      BY <1>0, <1>5, <2>1, <2>2 DEF Write, StreamTypes
    <2>3. CASE ended[s] # "cancelled"
      <3>1. written' = [written EXCEPT ![s] = Append(written[s], response[s])]
        BY <1>5, <2>3 DEF Write
      <3>2. Append(written[s], response[s]) \in Seq(Responses)
        BY <1>0, AppendProperties
      <3>3. written' \in [Streams -> Seq(Responses)]
        BY <1>0, <3>1, <3>2
      <3> QED
        BY <1>0, <2>1, <3>3 DEF StreamTypes
    <2> QED
      BY <2>2, <2>3
  <1>6. ASSUME NEW s \in Streams, NEW f,
               \/ ClientWrite(s, f) \/ ClientRead(s) \/ Start(s) \/ ReadEnds(s)
               \/ Apply(s) \/ Inside(s)
        PROVE  UNCHANGED <<written, response, ended>>
    BY <1>6
    DEF ClientWrite, ClientRead, Start, ReadEnds, Apply, Inside, streamVars
  <1>7. CASE UNCHANGED streamVars
    BY <1>1, <1>7 DEF streamVars
  <1> QED
    BY <1>1, <1>2, <1>3, <1>4, <1>5, <1>6, <1>7
    DEF NextP, Handle, Others, Inside, DoneP

-----------------------------------------------------------------------------
\* w is the response to f, the i-th request of its stream.
Responds(w, i, f) ==
    /\ w.id = i
    /\ w.error = inBandError(f)
    /\ w.result = IF w.error = "" THEN f.rpc ELSE "none"

\* ResponsesInOrder for one stream, with the response under way.
OrderOK(s) ==
    /\ Len(written[s]) <= nread[s]
    /\ ended[s] # "cancelled" => Len(written[s]) + InHand(s) = nread[s]
    /\ at[s] \in {"applying", "applied"} =>
          response[s].id = nread[s] /\ response[s].error = ""
    /\ at[s] = "writing" => Responds(response[s], nread[s], frame(s))
    /\ \A i \in 1..Len(written[s]) : Responds(written[s][i], i, sent[s][i])

\* What has been answered stays answered when the client sends more.
LEMMA AnsweredStays ==
    ASSUME FrameInv, StreamTypes, NEW u \in Streams, OrderOK(u), NEW f \in Frames
    PROVE  /\ \A i \in 1..Len(written[u]) : Append(sent[u], f)[i] = sent[u][i]
           /\ at[u] \in Busy => Append(sent[u], f)[nread[u]] = sent[u][nread[u]]
  <1> DEFINE n == nread[u]
  <1> DEFINE last == Len(sent[u])
  <1> DEFINE w == Len(written[u])
  <1>1. /\ n \in Nat /\ last \in Nat /\ n <= last /\ w <= n
        /\ at[u] \in Busy => n >= 1
    BY FrameFacts DEF OrderOK
  <1>2. w \in Nat
    BY LenProperties DEF StreamTypes
  <1>3. \A i \in 1..last : Append(sent[u], f)[i] = sent[u][i]
    <2>1. sent[u] \in Seq(Frames)
      BY FrameFacts
    <2> QED
      BY <2>1, AppendProperties
  <1> HIDE DEF n, last, w
  <1>4. 1..w \subseteq 1..last /\ (at[u] \in Busy => n \in 1..last)
    BY <1>1, <1>2
  <1> QED
    BY <1>3, <1>4 DEF n, last, w

\* Every step keeps the order of responses.
LEMMA NextOrderOK ==
    ASSUME FrameInv, StreamTypes, [NextP]_<<vars, streamVars>>,
           NEW u \in Streams, OrderOK(u)
    PROVE  OrderOK(u)'
  <1>0. StreamStep(u)
    BY StreamSteps
  <1>1. CASE SameBut(u, TRUE, TRUE, TRUE)
    BY <1>1 DEF SameBut, OrderOK, InHand, frame
  <1>2. CASE /\ SameBut(u, FALSE, TRUE, TRUE)
             /\ \E f \in Frames : sent'[u] = Append(sent[u], f)
    <2>1. PICK f \in Frames : sent'[u] = Append(sent[u], f)
      BY <1>2
    <2>2. /\ \A i \in 1..Len(written[u]) : sent'[u][i] = sent[u][i]
          /\ at[u] \in Busy => sent'[u][nread[u]] = sent[u][nread[u]]
      <3>1. /\ \A i \in 1..Len(written[u]) : Append(sent[u], f)[i] = sent[u][i]
            /\ at[u] \in Busy =>
                  Append(sent[u], f)[nread[u]] = sent[u][nread[u]]
        BY AnsweredStays
      <3> QED
        BY <2>1, <3>1, Zenon
    <2> QED
      BY <1>2, <2>2 DEF SameBut, OrderOK, InHand, frame, Busy
  <1>3. CASE SameBut(u, TRUE, FALSE, TRUE) /\ ended[u] # "cancelled"
    BY <1>3 DEF SameBut, OrderOK, InHand, frame
  <1>4. CASE /\ SameBut(u, TRUE, TRUE, FALSE)
             /\ at[u] \notin Busy /\ at'[u] \in {"reading", "returned"}
    BY <1>4 DEF SameBut, OrderOK, InHand, frame, Busy
  <1>n. nread[u] \in Nat /\ Len(written[u]) \in Nat
    BY FrameFacts, LenProperties DEF StreamTypes
  <1>5. CASE Read(u)
    <2> DEFINE e == inBandError(sent[u][nread[u] + 1])
    <2>1. /\ at[u] = "reading" /\ sent' = sent /\ written' = written
          /\ ended' = ended
      BY <1>5 DEF Read, Takes
    <2>2. /\ nread'[u] = nread[u] + 1
          /\ at'[u] = IF e = "" THEN "applying" ELSE "writing"
      BY <1>5 DEF Read, Takes, FrameInv
    <2>3. response'[u] = [id |-> nread[u] + 1, result |-> "none", ok |-> FALSE,
                          val |-> EmptyText, error |-> e]
      BY <1>5, ReadResponse
    <2>4. frame(u)' = sent[u][nread[u] + 1]
      BY <2>1, <2>2 DEF frame
    <2>5. inBandError(frame(u)') = e
      BY <2>4
    <2> HIDE DEF e
    <2>6. InHand(u) = 0 /\ InHand(u)' = 1
      BY <2>1, <2>2 DEF InHand
    <2>7. /\ Len(written'[u]) <= nread'[u]
          /\ ended'[u] # "cancelled" => Len(written'[u]) + InHand(u)' = nread'[u]
      <3> DEFINE n == nread[u]
      <3> DEFINE w == Len(written[u])
      <3>1. n \in Nat /\ w \in Nat /\ w <= n /\ (ended[u] # "cancelled" => w + 0 = n)
        BY <1>n, <2>6 DEF OrderOK
      <3>2. nread'[u] = n + 1 /\ Len(written'[u]) = w
        BY <2>1, <2>2
      <3> HIDE DEF n, w
      <3> QED
        BY <2>1, <2>6, <3>1, <3>2
    <2>f. /\ response'[u].id = nread'[u] /\ response'[u].error = e
          /\ response'[u].result = "none"
      <3> DEFINE n == nread[u] + 1
      <3>1. response'[u] = [id |-> n, result |-> "none", ok |-> FALSE,
                            val |-> EmptyText, error |-> e]
        BY <2>3
      <3>2. nread'[u] = n
        BY <2>2
      <3> HIDE DEF n
      <3> QED
        BY <3>1, <3>2
    <2>8. at'[u] = "writing" => Responds(response'[u], nread'[u], frame(u)')
      BY <2>2, <2>f, <2>5 DEF Responds
    <2>9. at'[u] \in {"applying", "applied"} =>
             response'[u].id = nread'[u] /\ response'[u].error = ""
      BY <2>2, <2>f
    <2>10. \A i \in 1..Len(written'[u]) : Responds(written'[u][i], i, sent'[u][i])
      BY <2>1 DEF OrderOK
    <2> QED
      BY <2>7, <2>8, <2>9, <2>10 DEF OrderOK, Responds
  <1>6. CASE Apply(u)
    <2>1. /\ at[u] = "applying" /\ at'[u] = "applied"
          /\ UNCHANGED <<sent, nread, written, ended, response>>
      BY <1>6 DEF Apply, Moves, FrameInv
    <2> QED
      BY <2>1 DEF OrderOK, InHand, frame
  <1>7. CASE Applied(u)
    <2>1. /\ at[u] = "applied" /\ at'[u] = "writing"
          /\ UNCHANGED <<sent, nread, written, ended>>
      BY <1>7 DEF Applied, Moves, FrameInv
    <2>2. /\ response'[u].id = response[u].id
          /\ response'[u].error = response[u].error
          /\ response'[u].result = frame(u).rpc
      <3> DEFINE v == IF plan[u].res.ok /\ frame(u).rpc = "Get"
                      THEN plan[u].res.val ELSE response[u].val
      <3>1. response'[u] =
              [id |-> response[u].id, result |-> frame(u).rpc,
               ok |-> plan[u].res.ok, val |-> v, error |-> response[u].error]
        BY <1>7, AppliedResponse
      <3> HIDE DEF v
      <3> QED
        BY <3>1
    <2>3. response[u].id = nread[u] /\ response[u].error = ""
      BY <2>1 DEF OrderOK
    <2>4. inBandError(frame(u)) = ""
      BY <2>1, FrameFacts
    <2>5. frame(u)' = frame(u) /\ InHand(u)' = InHand(u)
      BY <2>1 DEF frame, InHand
    <2>6. Responds(response'[u], nread'[u], frame(u)')
      BY <2>1, <2>2, <2>3, <2>4, <2>5 DEF Responds
    <2> QED
      BY <2>1, <2>5, <2>6 DEF OrderOK, Responds
  <1>8. CASE Write(u)
    <2>1. /\ at[u] = "writing" /\ at'[u] = "reading"
          /\ UNCHANGED <<sent, nread, ended, response>>
      BY <1>8 DEF Write, Moves, FrameInv
    <2>2. InHand(u) = 1 /\ InHand(u)' = 0
      BY <2>1 DEF InHand
    <2>3. CASE ended[u] = "cancelled"
      <3>1. written'[u] = written[u]
        BY <1>8, <2>3, WrittenResponse
      <3> QED
        BY <2>1, <2>3, <3>1 DEF OrderOK
    <2>4. CASE ended[u] # "cancelled"
      <3> DEFINE n == nread[u]
      <3> DEFINE w == Len(written[u])
      <3>1. n \in Nat /\ w \in Nat /\ w + 1 = n
        BY <1>n, <2>2, <2>4 DEF OrderOK
      <3>2. /\ Len(written'[u]) = w + 1
            /\ \A i \in 1..w : written'[u][i] = written[u][i]
            /\ written'[u][w + 1] = response[u]
        BY <1>8, <2>4, WrittenResponse
      <3>3. Responds(response[u], n, sent[u][n])
        BY <2>1 DEF OrderOK, frame
      <3>4. \A i \in 1..w : Responds(written[u][i], i, sent[u][i])
        BY DEF OrderOK
      <3>5. nread'[u] = n /\ sent'[u] = sent[u]
        BY <2>1
      <3> HIDE DEF n, w
      <3>6. ASSUME NEW i \in 1..(w + 1)
            PROVE  Responds(written'[u][i], i, sent'[u][i])
        <4>1. CASE i \in 1..w
          BY <3>2, <3>4, <3>5, <4>1
        <4>2. CASE i = w + 1
          BY <3>1, <3>2, <3>3, <3>5, <4>2
        <4> QED
          BY <3>1, <4>1, <4>2
      <3>7. Len(written'[u]) <= nread'[u] /\ Len(written'[u]) + 0 = nread'[u]
        BY <3>1, <3>2, <3>5
      <3>8. \A i \in 1..Len(written'[u]) : Responds(written'[u][i], i, sent'[u][i])
        BY <3>2, <3>6
      <3> QED
        BY <2>1, <2>2, <3>7, <3>8 DEF OrderOK, Responds
    <2> QED
      BY <2>3, <2>4
  <1> QED
    BY <1>0, <1>1, <1>2, <1>3, <1>4, <1>5, <1>6, <1>7, <1>8 DEF StreamStep

\* What every proof about the streams starts from.
StreamInv ==
    TypeInv /\ FrameInv /\ StreamTypes /\ \A s \in Streams : OrderOK(s)

\* Types, bookkeeping and order hold throughout.
LEMMA StreamInvariance == SpecP => []StreamInv
  <1> DEFINE InOrder == \A s \in Streams : OrderOK(s)
  <1>1. InitP => StreamTypes /\ InOrder
    <2> SUFFICES ASSUME InitP PROVE StreamTypes /\ InOrder
      OBVIOUS
    <2>1. NoResponse \in Responses
      BY DEF NoResponse, Responses, EmptyText, Text, Kinds, Errors
    <2>2. <<>> \in Seq(Responses) /\ Len(<<>>) = 0
      BY EmptySeq
    <2>3. StreamTypes
      BY <2>1, <2>2 DEF InitP, StreamTypes
    <2>4. ASSUME NEW s \in Streams PROVE OrderOK(s)
      <3>1. /\ written[s] = <<>> /\ nread[s] = 0 /\ at[s] = "idle"
        BY DEF InitP
      <3>2. InHand(s) = 0 /\ Len(written[s]) = 0
        BY <2>2, <3>1 DEF InHand
      <3> QED
        BY <3>1, <3>2 DEF OrderOK
    <2> QED
      BY <2>3, <2>4
  <1>2. TypeInv /\ FrameInv /\ StreamTypes /\ [NextP]_<<vars, streamVars>>
          => StreamTypes'
    BY NextStreamTypes
  <1>3. FrameInv /\ StreamTypes /\ InOrder /\ [NextP]_<<vars, streamVars>>
          => InOrder'
    BY NextOrderOK
  <1>4. StreamInv <=> TypeInv /\ FrameInv /\ StreamTypes /\ InOrder
    BY DEF StreamInv
  <1> HIDE DEF InOrder
  <1>5. SpecP => []TypeInv
    BY StreamsAreCallers, TypeInvariance, PTL
  <1> QED
    BY <1>1, <1>2, <1>3, <1>4, <1>5, FrameInvariance, PTL DEF SpecP

\* Pipeline (CacheServiceImpl.cc:518-585) answers in order: for any number of
\* streams, any requests, valid or not, any buffers and any moment of half-close
\* or cancellation, the i-th response is the one to the i-th request, and unless
\* the client is gone no request is skipped.
THEOREM ResponsesInOrderHolds == SpecP => []ResponsesInOrder
  <1>1. StreamInv => ResponsesInOrder
    BY DEF StreamInv, OrderOK, Responds, ResponsesInOrder
  <1> QED
    BY <1>1, StreamInvariance, PTL

-----------------------------------------------------------------------------
\* Who is inside CacheManager, and with what.
CallersOK ==
    /\ \A t \in Threads \ Streams : pc[t] # "idle" => req[t] \in OtherRequests
    /\ \A s \in Streams :
          /\ pc[s] # "idle" <=> at[s] = "applied"
          /\ at[s] = "applied" => req[s] = requestOf(frame(s).rpc, frame(s).item)

\* The state of t inside CacheManager stays.
SameLocals(t) ==
    /\ pc'[t] = pc[t] /\ req'[t] = req[t] /\ handle'[t] = handle[t]
    /\ plan'[t] = plan[t] /\ item'[t] = item[t]

\* A thread does not touch the locals of another.
LEMMA OthersLocals ==
    ASSUME TypeInv, NEW t \in Threads, NEW u \in Threads, u # t,
           Inside(u) \/ Return(u) \/ \E r : Call(u, r)
    PROVE  SameLocals(t)
  <1>0. /\ DOMAIN pc = Threads /\ DOMAIN req = Threads /\ DOMAIN handle = Threads
        /\ DOMAIN plan = Threads /\ DOMAIN item = Threads
    BY DEF TypeInv, TypeOK
  <1>1. CASE Inside(u)
    <2>1. pc'[t] = pc[t] /\ req'[t] = req[t]
      BY <1>0, <1>1
      DEF Inside, Lock, Find, Decide, CopyThrows, Remove, Allocate, AllocateFails, Link, Goto
    <2>2. handle'[t] = handle[t] /\ item'[t] = item[t]
      BY <1>0, <1>1
      DEF Inside, Lock, Find, Decide, CopyThrows, Remove, Allocate, AllocateFails, Link
    <2>3. plan'[t] = plan[t]
      BY <1>0, <1>1
      DEF Inside, Lock, Find, Decide, CopyThrows, Remove, Allocate, AllocateFails, Link,
          Conclude
    <2> QED
      BY <2>1, <2>2, <2>3 DEF SameLocals
  <1>2. CASE Return(u)
    BY <1>0, <1>2 DEF Return, Goto, Conclude, SameLocals
  <1>3. CASE \E r : Call(u, r)
    BY <1>0, <1>3 DEF Call, Begin, Goto, Conclude, SameLocals
  <1> QED
    BY <1>1, <1>2, <1>3

\* Only a store puts an item under a key.
LEMMA OnlyLinkStores ==
    ASSUME TypeInv, NEW u \in Threads, NEW k \in Keys,
           Inside(u) \/ Return(u) \/ \E r : Call(u, r)
    PROVE  \/ store'[k] \in {store[k], NoItem}
           \/ Link(u) /\ req[u].key = k
  <1>0. DOMAIN store = Keys
    BY DEF TypeInv, TypeOK
  <1>1. CASE Return(u) \/ \E r : Call(u, r)
    BY <1>1 DEF Return, Call, Begin
  <1>2. CASE Lock(u) \/ Find(u) \/ Decide(u) \/ CopyThrows(u) \/ Allocate(u) \/ AllocateFails(u)
    BY <1>2 DEF Lock, Find, Decide, CopyThrows, Allocate, AllocateFails
  <1>3. CASE Remove(u)
    BY <1>0, <1>3 DEF Remove
  <1>4. CASE Link(u)
    BY <1>0, <1>4 DEF Link
  <1> QED
    BY <1>1, <1>2, <1>3, <1>4 DEF Inside

\* What a stream asks of CacheManager.
LEMMA StreamAsks ==
    ASSUME StreamInv, CallersOK, NEW s \in Streams, pc[s] # "idle"
    PROVE  /\ s \in Threads /\ at[s] = "applied"
           /\ frame(s) \in Frames /\ inBandError(frame(s)) = ""
           /\ req[s].key = frame(s).item.key /\ req[s].val = frame(s).item.val
           /\ req[s] \in Requests /\ req[s].key \in Keys
           /\ req[s].op \in {"get", "set", "remove", "exists"}
           /\ req[s].op = "get" <=> frame(s).rpc = "Get"
           /\ req[s].op = "set" <=> frame(s).rpc = "Set"
           /\ req[s].op = "remove" <=> frame(s).rpc = "Delete"
  <1>1. /\ at[s] = "applied" /\ s \in Threads
        /\ req[s] = requestOf(frame(s).rpc, frame(s).item)
    BY PipelineAssumption DEF CallersOK
  <1>2. frame(s) \in Frames /\ inBandError(frame(s)) = ""
    BY <1>1, FrameFacts DEF StreamInv, Busy
  <1>3. /\ frame(s).rpc \in {"Get", "Set", "Delete", "Exists"}
        /\ req[s] \in Requests
    BY <1>1, <1>2, FramesAssumption DEF inBandError
  <1>4. req[s].key \in Keys
    BY <1>3, RequestsAssumption DEF RequestsOn
  <1>5. /\ req[s].op = opOf(frame(s).rpc) /\ req[s].key = frame(s).item.key
        /\ req[s].val = frame(s).item.val
    BY <1>1 DEF requestOf
  <1>6. /\ opOf("Get") = "get" /\ opOf("Set") = "set"
        /\ opOf("Delete") = "remove" /\ opOf("Exists") = "exists"
    BY DEF opOf
  <1> QED
    BY <1>1, <1>2, <1>3, <1>4, <1>5, <1>6

\* StoredElsewhere, of what all streams have sent.
Elsewhere(q, s, k) ==
    \/ \E r \in OtherRequests :
          r.key = k /\ r.op \notin {"get", "exists", "getTTL", "getStats", "remove"}
    \/ \E u \in Streams \ {s} : \E i \in DOMAIN q[u] :
          q[u][i].rpc = "Set" /\ q[u][i].item.key = k

\* Somebody else's store to k is one StoredElsewhere knows of.
LEMMA ForeignLink ==
    ASSUME StreamInv, CallersOK, NEW s \in Streams, NEW u \in Threads, u # s,
           Link(u)
    PROVE  Elsewhere(sent, s, req[u].key)
  <1>1. pc[u] = "link" /\ req[u].op \in LockedOps \cup {"set"}
    BY DEF Link, StreamInv, TypeInv, LocalsOK
  <1>2. CASE u \notin Streams
    <2>1. req[u] \in OtherRequests
      BY <1>1, <1>2 DEF CallersOK
    <2> QED
      BY <1>1, <2>1 DEF Elsewhere, LockedOps, AddOps
  <1>3. CASE u \in Streams
    <2>1. /\ at[u] = "applied" /\ req[u].key = frame(u).item.key
          /\ req[u].op \in {"get", "set", "remove", "exists"}
          /\ req[u].op = "set" <=> frame(u).rpc = "Set"
      BY <1>1, <1>3, StreamAsks
    <2>2. frame(u).rpc = "Set"
      BY <1>1, <2>1 DEF LockedOps, AddOps
    <2>3. nread[u] \in DOMAIN sent[u]
      <3> DEFINE n == nread[u]
      <3> DEFINE last == Len(sent[u])
      <3>1. n \in Nat /\ last \in Nat /\ n <= last /\ n >= 1
            /\ DOMAIN sent[u] = 1..last
        BY <1>3, <2>1, FrameFacts DEF StreamInv, Busy
      <3> HIDE DEF n, last
      <3>2. n \in 1..last
        BY <3>1
      <3> QED
        BY <3>1, <3>2 DEF n
    <2> QED
      BY <1>3, <2>1, <2>2, <2>3 DEF Elsewhere, frame
  <1> QED
    BY <1>2, <1>3

\* What others store is not taken back.
LEMMA StoredElsewhereStays ==
    ASSUME StreamInv, [NextP]_<<vars, streamVars>>, NEW s \in Streams, NEW k,
           Elsewhere(sent, s, k)
    PROVE  Elsewhere(sent', s, k)
  <1>1. ASSUME NEW u \in Streams, NEW i \in DOMAIN sent[u]
        PROVE  i \in DOMAIN sent'[u] /\ sent'[u][i] = sent[u][i]
    <2>1. StreamStep(u)
      BY StreamSteps DEF StreamInv
    <2>2. \/ sent'[u] = sent[u]
          \/ \E f \in Frames : sent'[u] = Append(sent[u], f)
      BY <2>1 DEF StreamStep, SameBut, Read, Takes, Apply, Applied, Write
    <2>3. ASSUME NEW f \in Frames, sent'[u] = Append(sent[u], f)
          PROVE  i \in DOMAIN sent'[u] /\ sent'[u][i] = sent[u][i]
      <3>1. sent[u] \in Seq(Frames)
        BY FrameFacts DEF StreamInv
      <3> DEFINE q == sent[u]
      <3>2. q \in Seq(Frames) /\ i \in DOMAIN q
        BY <3>1
      <3> HIDE DEF q
      <3>3. i \in DOMAIN Append(q, f) /\ Append(q, f)[i] = q[i]
        BY <3>2
      <3> QED
        BY <2>3, <3>3 DEF q
    <2> QED
      BY <2>2, <2>3
  <1> QED
    BY <1>1 DEF Elsewhere

\* What a step may do to stream s inside CacheManager, and to the keys that
\* nobody else stores to.
ThreadStep(s) ==
    \/ Apply(s) \/ Applied(s) \/ Inside(s)
    \/ /\ SameLocals(s)
       /\ \A k \in Keys :
             store'[k] \in {store[k], NoItem} \/ Elsewhere(sent, s, k)

\* Every step is one of those.
LEMMA ThreadSteps ==
    ASSUME StreamInv, CallersOK, [NextP]_<<vars, streamVars>>, NEW s \in Streams
    PROVE  ThreadStep(s)
  <1>0. s \in Threads /\ Streams \subseteq Threads /\ TypeInv
    BY PipelineAssumption DEF StreamInv
  <1>1. CASE UNCHANGED vars
    BY <1>1 DEF vars, locals, ThreadStep, SameLocals
  <1>2. CASE Initialize \/ ShutdownP \/ \E k \in Keys : Drop(k)
    <2>1. SameLocals(s)
      BY <1>2 DEF Initialize, ShutdownP, Shutdown, Drop, locals, SameLocals
    <2>2. \A k \in Keys : store'[k] \in {store[k], NoItem}
      BY <1>0, <1>2 DEF Initialize, ShutdownP, Shutdown, Drop, TypeInv, TypeOK
    <2> QED
      BY <2>1, <2>2 DEF ThreadStep
  <1>3. ASSUME NEW u \in Threads, u # s,
               Inside(u) \/ Return(u) \/ \E r : Call(u, r)
        PROVE  ThreadStep(s)
    <2>1. SameLocals(s)
      BY <1>0, <1>3, OthersLocals
    <2>2. ASSUME NEW k \in Keys
          PROVE  store'[k] \in {store[k], NoItem} \/ Elsewhere(sent, s, k)
      BY <1>0, <1>3, OnlyLinkStores, ForeignLink
    <2> QED
      BY <2>1, <2>2 DEF ThreadStep
  <1>4. ASSUME NEW u \in Streams, NEW f, NEW how,
               \/ ClientWrite(u, f) \/ ClientRead(u) \/ ClientEnds(u, how)
               \/ Start(u) \/ Read(u) \/ ReadEnds(u) \/ Write(u)
        PROVE  ThreadStep(s)
    BY <1>1, <1>4
    DEF ClientWrite, ClientRead, ClientEnds, Start, Read, Takes, ReadEnds, Write
  <1>5. ASSUME NEW u \in Streams, Apply(u) \/ Applied(u) \/ Inside(u)
        PROVE  ThreadStep(s)
    <2>1. CASE u = s
      BY <1>5, <2>1 DEF ThreadStep
    <2>2. CASE u # s
      BY <1>0, <1>3, <1>5, <2>2 DEF Apply, Applied
    <2> QED
      BY <2>1, <2>2
  <1>6. CASE \E t \in Threads \ Streams : Others(t)
    BY <1>3, <1>6 DEF Others
  <1>7. CASE DoneP
    BY <1>1, <1>7 DEF DoneP
  <1> QED
    BY <1>1, <1>2, <1>4, <1>5, <1>6, <1>7 DEF NextP, Handle

\* The callers of CacheManager stay who they are.
LEMMA NextCallersOK ==
    ASSUME StreamInv, CallersOK, [NextP]_<<vars, streamVars>>
    PROVE  CallersOK'
  <1>0. Streams \subseteq Threads /\ TypeInv /\ FrameInv
    BY PipelineAssumption DEF StreamInv
  <1>1. ASSUME NEW t \in Threads \ Streams, pc'[t] # "idle"
        PROVE  req'[t] \in OtherRequests
    <2>1. CASE UNCHANGED <<pc, req>>
      BY <1>1, <2>1 DEF CallersOK
    <2>2. ASSUME NEW u \in Threads, u # t,
                 Inside(u) \/ Return(u) \/ \E r : Call(u, r)
          PROVE  req'[t] \in OtherRequests
      <3>1. SameLocals(t)
        BY <1>0, <2>2, OthersLocals
      <3> QED
        BY <1>1, <3>1 DEF SameLocals, CallersOK
    <2>3. CASE Others(t)
      <3>1. CASE Inside(t)
        <4>1. req' = req /\ pc[t] # "idle"
          BY <3>1
          DEF Inside, Lock, Find, Decide, CopyThrows, Remove, Allocate, AllocateFails, Link
        <4> QED
          BY <4>1 DEF CallersOK
      <3>2. CASE Return(t)
        BY <1>0, <1>1, <3>2 DEF Return, Goto, TypeInv, TypeOK
      <3>3. ASSUME NEW r \in OtherRequests, Call(t, r)
            PROVE  req'[t] \in OtherRequests
        BY <1>0, <3>3 DEF Call, Begin, TypeInv, TypeOK
      <3> QED
        BY <2>3, <3>1, <3>2, <3>3 DEF Others
    <2>4. CASE Initialize \/ ShutdownP \/ \E k \in Keys : Drop(k)
      BY <2>1, <2>4 DEF Initialize, ShutdownP, Shutdown, Drop, locals
    <2>5. ASSUME NEW u \in Streams, NEW f, NEW how,
                 \/ ClientWrite(u, f) \/ ClientRead(u) \/ ClientEnds(u, how)
                 \/ Start(u) \/ Read(u) \/ ReadEnds(u) \/ Write(u)
          PROVE  req'[t] \in OtherRequests
      BY <2>1, <2>5
      DEF ClientWrite, ClientRead, ClientEnds, Start, Read, Takes, ReadEnds,
          Write, vars, locals
    <2>6. ASSUME NEW u \in Streams, Apply(u) \/ Applied(u) \/ Inside(u)
          PROVE  req'[t] \in OtherRequests
      BY <1>0, <2>2, <2>6 DEF Apply, Applied
    <2>7. CASE DoneP \/ UNCHANGED <<vars, streamVars>>
      BY <2>1, <2>7 DEF DoneP, vars, locals
    <2>8. ASSUME NEW u \in Threads \ Streams, Others(u)
          PROVE  req'[t] \in OtherRequests
      BY <2>2, <2>3, <2>8 DEF Others
    <2> QED
      BY <2>4, <2>5, <2>6, <2>7, <2>8 DEF NextP, Handle
  <1>2. ASSUME NEW s \in Streams
        PROVE  /\ pc'[s] # "idle" <=> at'[s] = "applied"
               /\ at'[s] = "applied" =>
                     req'[s] = requestOf(frame(s)'.rpc, frame(s)'.item)
    <2>0. /\ s \in Threads /\ pc \in [Threads -> PCs]
          /\ req \in [Threads -> Requests \cup {NoRequest}]
          /\ at \in [Streams -> Places]
          /\ pc[s] # "idle" <=> at[s] = "applied"
          /\ at[s] = "applied" => req[s] = requestOf(frame(s).rpc, frame(s).item)
      BY <1>0 DEF TypeInv, TypeOK, FrameInv, CallersOK
    <2>1. ThreadStep(s) /\ StreamStep(s)
      BY ThreadSteps, StreamSteps DEF StreamInv
    <2>2. CASE Apply(s)
      <3>1. /\ at'[s] = "applied" /\ UNCHANGED <<sent, nread>>
            /\ Call(s, requestOf(frame(s).rpc, frame(s).item))
        BY <2>0, <2>2 DEF Apply, Moves
      <3>2. req'[s] = requestOf(frame(s).rpc, frame(s).item)
        BY <2>0, <3>1 DEF Call, Begin
      <3>3. pc'[s] # "idle"
        <4>1. \A r : entry(r) # "idle"
          BY DEF entry
        <4> QED
          BY <2>0, <3>1, <4>1 DEF Call, Goto
      <3> QED
        BY <3>1, <3>2, <3>3 DEF frame
    <2>3. CASE Applied(s)
      BY <2>0, <2>3 DEF Applied, Moves, Return, Goto
    <2>4. CASE Inside(s)
      <3>1. req' = req /\ pc[s] # "idle" /\ UNCHANGED <<at, sent, nread>>
        BY <2>4
        DEF Inside, Lock, Find, Decide, CopyThrows, Remove, Allocate, AllocateFails, Link,
            streamVars
      <3>2. pc'[s] # "idle"
        BY <2>0, <2>4
        DEF Inside, Lock, Find, Decide, CopyThrows, Remove, Allocate, AllocateFails, Link,
            Goto
      <3> QED
        BY <2>0, <3>1, <3>2 DEF frame
    <2>5. CASE SameLocals(s)
      <3>0. pc'[s] = pc[s] /\ req'[s] = req[s]
        BY <2>5 DEF SameLocals
      <3>1. CASE SameBut(s, TRUE, TRUE, TRUE) \/ SameBut(s, TRUE, FALSE, TRUE)
        BY <2>0, <3>0, <3>1 DEF SameBut, frame
      <3>2. CASE /\ SameBut(s, FALSE, TRUE, TRUE)
                 /\ \E f \in Frames : sent'[s] = Append(sent[s], f)
        <4>1. PICK f \in Frames : sent'[s] = Append(sent[s], f)
          BY <3>2
        <4>2. at[s] \in Busy => Append(sent[s], f)[nread[s]] = sent[s][nread[s]]
          BY AnsweredStays DEF StreamInv
        <4>3. at'[s] = at[s] /\ nread'[s] = nread[s]
          BY <3>2 DEF SameBut
        <4>4. at[s] = "applied" => frame(s)' = frame(s)
          BY <4>1, <4>2, <4>3 DEF frame, Busy
        <4> QED
          BY <2>0, <3>0, <4>3, <4>4
      <3>3. CASE /\ SameBut(s, TRUE, TRUE, FALSE)
                 /\ at[s] \notin Busy /\ at'[s] \in {"reading", "returned"}
        BY <2>0, <3>0, <3>3 DEF Busy
      <3>4. CASE Read(s)
        BY <2>0, <3>0, <3>4 DEF Read, Takes
      <3>5. CASE Write(s)
        BY <2>0, <3>0, <3>5 DEF Write, Moves
      <3> QED
        BY <2>1, <2>2, <2>3, <3>1, <3>2, <3>3, <3>4, <3>5 DEF StreamStep
    <2> QED
      BY <2>1, <2>2, <2>3, <2>4, <2>5 DEF ThreadStep
  <1> QED
    BY <1>1, <1>2 DEF CallersOK

-----------------------------------------------------------------------------
\* Wrote, of the requests q and the responses w of a stream.
WroteIn(q, w, i, k) ==
    q[i].item.key = k /\ (q[i].rpc = "Delete" \/ (q[i].rpc = "Set" /\ w[i].ok))

\* v is what the last write to k among the first n requests stored.
LastSet(q, w, n, k, v) ==
    \E j \in 1..n :
        /\ WroteIn(q, w, j, k)
        /\ \A l \in 1..n : WroteIn(q, w, l, k) => l <= j
        /\ q[j].rpc = "Set"
        /\ v = q[j].item.val

\* v is that value, or what is left of it where the copy threw.
LastTold(q, w, n, k, v) ==
    \E u : LastSet(q, w, n, k, u) /\ v \in {u, EmptyText}

Fresh(q, w, n, k, i) == i = NoItem \/ LastSet(q, w, n, k, i.val)

\* A last write depends on the first n requests and responses only.
LEMMA LastSetStays ==
    ASSUME NEW q, NEW w, NEW q2, NEW w2, NEW n, NEW k, NEW v,
           \A j \in 1..n : q2[j] = q[j] /\ w2[j] = w[j],
           LastSet(q, w, n, k, v)
    PROVE  LastSet(q2, w2, n, k, v)
  BY DEF LastSet, WroteIn

\* It stays the last one when the next request writes nothing to k.
LEMMA LastSetExtends ==
    ASSUME NEW q, NEW w, NEW w2, NEW n \in Nat, NEW k, NEW v,
           \A j \in 1..n : w2[j] = w[j],
           ~WroteIn(q, w2, n + 1, k), LastSet(q, w, n, k, v)
    PROVE  LastSet(q, w2, n + 1, k, v)
  <1>1. PICK j \in 1..n : /\ WroteIn(q, w, j, k)
                          /\ \A l \in 1..n : WroteIn(q, w, l, k) => l <= j
                          /\ q[j].rpc = "Set" /\ v = q[j].item.val
    BY DEF LastSet
  <1>2. \A l \in 1..n : WroteIn(q, w2, l, k) <=> WroteIn(q, w, l, k)
    BY DEF WroteIn
  <1>3. \A l \in 1..(n + 1) : WroteIn(q, w2, l, k) => l \in 1..n
    <2> SUFFICES ASSUME NEW l \in 1..(n + 1), WroteIn(q, w2, l, k)
                 PROVE  l \in 1..n
      OBVIOUS
    <2>1. l # n + 1
      OBVIOUS
    <2> QED
      BY <2>1
  <1>4. j \in 1..(n + 1)
    OBVIOUS
  <1> QED
    BY <1>1, <1>2, <1>3, <1>4 DEF LastSet

\* A Set that succeeded is the last write, as long as it is the last request.
LEMMA LastSetNew ==
    ASSUME NEW q, NEW w, NEW n \in Nat, NEW k, WroteIn(q, w, n + 1, k),
           q[n + 1].rpc = "Set"
    PROVE  LastSet(q, w, n + 1, k, q[n + 1].item.val)
  <1>1. n + 1 \in 1..(n + 1) /\ \A l \in 1..(n + 1) : l <= n + 1
    OBVIOUS
  <1> QED
    BY <1>1 DEF LastSet

\* The request in hand is a valid one, of the kind rpc and about k.
Has(s, rpc, k) ==
    /\ at[s] \in Busy
    /\ inBandError(frame(s)) = ""
    /\ frame(s).rpc = rpc
    /\ frame(s).item.key = k

\* CacheManager has done it, and the result so far.
Took(s)  == at[s] = "writing" \/ pc[s] = "reply"
okOf(s)  == IF at[s] = "writing" THEN response[s].ok ELSE plan[s].res.ok
valOf(s) == IF at[s] = "writing" THEN response[s].val ELSE plan[s].res.val

StoredNow(s, k)  == Has(s, "Set", k) /\ Took(s) /\ okOf(s)
RemovedNow(s, k) == Has(s, "Delete", k) /\ Took(s)

FreshHere(s, k, i) == Fresh(sent[s], written[s], Len(written[s]), k, i)

\* What stream s knows of a key only it stores to: the item there is what its
\* last answered write stored, unless the request in hand has taken effect.
OwnOK(s, k) ==
    /\ StoredNow(s, k) => store[k] = NoItem \/ store[k].val = frame(s).item.val
    /\ RemovedNow(s, k) => store[k] = NoItem
    /\ ~StoredNow(s, k) /\ ~RemovedNow(s, k) => FreshHere(s, k, store[k])
    /\ Has(s, "Get", k) /\ pc[s] = "decide" => FreshHere(s, k, handle[s])
    /\ Has(s, "Get", k) /\ Took(s) /\ okOf(s) =>
          LastTold(sent[s], written[s], Len(written[s]), k, valOf(s))

\* What a Set carries to its store, and the response before it is filled in.
CarriedOK(s) ==
    /\ at[s] = "applied" /\ pc[s] \in {"allocate", "link"} => plan[s] = set(req[s])
    /\ at[s] = "applied" /\ pc[s] = "link" => item[s].val = req[s].val
    /\ at[s] \in {"applying", "applied"} => response[s].val = EmptyText
    /\ at[s] = "writing" /\ ~response[s].ok => response[s].val = EmptyText

\* OwnWritesSeen for one stream.
SeenOK(s) ==
    \A i \in 1..Len(written[s]) :
        written[s][i].result = "Get" /\ ~Elsewhere(sent, s, sent[s][i].item.key) =>
            IF written[s][i].ok
            THEN LastTold(sent[s], written[s], i - 1, sent[s][i].item.key,
                          written[s][i].val)
            ELSE written[s][i].val = EmptyText

\* The inductive invariant of OwnWritesSeen.
OwnInv ==
    /\ CallersOK
    /\ \A s \in Streams :
          /\ CarriedOK(s)
          /\ SeenOK(s)
          /\ ended[s] # "cancelled" =>
                \A k \in Keys \ {EmptyKey} : Elsewhere(sent, s, k) \/ OwnOK(s, k)

\* The answered requests and their responses stay, but in a Write.
LEMMA AnsweredSame ==
    ASSUME StreamInv, [NextP]_<<vars, streamVars>>, NEW s \in Streams, ~Write(s)
    PROVE  /\ written'[s] = written[s] /\ Len(written[s]) \in Nat
           /\ \A j \in 1..Len(written[s]) : sent'[s][j] = sent[s][j]
           /\ at[s] \in Busy => frame(s)' = frame(s)
           /\ \A n \in 0..Len(written[s]) : \A k, v :
                 LastSet(sent[s], written[s], n, k, v) =>
                    LastSet(sent'[s], written'[s], n, k, v)
  <1>1. StreamStep(s)
    BY StreamSteps DEF StreamInv
  <1>2. written'[s] = written[s]
    BY <1>1 DEF StreamStep, SameBut, Read, Takes, Apply, Applied
  <1>3. Len(written[s]) \in Nat
    BY LenProperties DEF StreamInv, StreamTypes
  <1>4. \/ sent'[s] = sent[s]
        \/ \E f \in Frames : sent'[s] = Append(sent[s], f)
    BY <1>1 DEF StreamStep, SameBut, Read, Takes, Apply, Applied
  <1>5. ASSUME NEW f \in Frames, sent'[s] = Append(sent[s], f)
        PROVE  /\ \A j \in 1..Len(written[s]) : sent'[s][j] = sent[s][j]
               /\ at[s] \in Busy => sent'[s][nread[s]] = sent[s][nread[s]]
    <2>1. /\ \A j \in 1..Len(written[s]) : Append(sent[s], f)[j] = sent[s][j]
          /\ at[s] \in Busy => Append(sent[s], f)[nread[s]] = sent[s][nread[s]]
      BY AnsweredStays DEF StreamInv
    <2> QED
      BY <1>5, <2>1, Zenon
  <1>6. /\ \A j \in 1..Len(written[s]) : sent'[s][j] = sent[s][j]
        /\ at[s] \in Busy => sent'[s][nread[s]] = sent[s][nread[s]]
    BY <1>4, <1>5
  <1>7. at[s] \in Busy => nread'[s] = nread[s]
    BY <1>1 DEF StreamStep, SameBut, Read, Takes, Apply, Applied, Busy
  <1>8. at[s] \in Busy => frame(s)' = frame(s)
    BY <1>6, <1>7 DEF frame
  <1>9. ASSUME NEW n \in 0..Len(written[s]), NEW k, NEW v,
               LastSet(sent[s], written[s], n, k, v)
        PROVE  LastSet(sent'[s], written'[s], n, k, v)
    <2> DEFINE m == Len(written[s])
    <2>1. m \in Nat
      BY <1>3
    <2> HIDE DEF m
    <2>2. \A j \in 1..n : j \in 1..m
      BY <2>1, <1>9 DEF m
    <2>3. \A j \in 1..n : sent'[s][j] = sent[s][j] /\ written'[s][j] = written[s][j]
      BY <1>2, <1>6, <2>2 DEF m
    <2> QED
      BY <1>9, <2>3, LastSetStays
  <1> QED
    BY <1>2, <1>3, <1>6, <1>8, <1>9

\* Everything but a Write leaves what the stream was told alone.
LEMMA SeenStays ==
    ASSUME StreamInv, [NextP]_<<vars, streamVars>>, NEW s \in Streams, ~Write(s),
           SeenOK(s)
    PROVE  SeenOK(s)'
  <1>1. written'[s] = written[s] /\ Len(written[s]) \in Nat
    BY AnsweredSame
  <1>2. ASSUME NEW i \in 1..Len(written[s]), written[s][i].result = "Get",
               ~Elsewhere(sent', s, sent'[s][i].item.key)
        PROVE  IF written[s][i].ok
               THEN LastTold(sent'[s], written'[s], i - 1, sent'[s][i].item.key,
                             written[s][i].val)
               ELSE written[s][i].val = EmptyText
    <2> DEFINE k == sent[s][i].item.key
    <2>1. sent'[s][i] = sent[s][i]
      BY AnsweredSame
    <2>2. ~Elsewhere(sent, s, k)
      <3>1. Elsewhere(sent, s, k) => Elsewhere(sent', s, k)
        BY StoredElsewhereStays
      <3> QED
        BY <1>2, <2>1, <3>1
    <2>3. IF written[s][i].ok
          THEN LastTold(sent[s], written[s], i - 1, k, written[s][i].val)
          ELSE written[s][i].val = EmptyText
      BY <1>2, <2>2 DEF SeenOK
    <2>4. i - 1 \in 0..Len(written[s])
      BY <1>1
    <2>5. \A v : LastSet(sent[s], written[s], i - 1, k, v) =>
                    LastSet(sent'[s], written'[s], i - 1, k, v)
      BY <2>4, AnsweredSame
    <2> QED
      BY <2>1, <2>3, <2>5 DEF LastTold
  <1> QED
    BY <1>1, <1>2 DEF SeenOK

\* The result of a get whose copy threw: found, and no value.
LEMMA ThrewResult == getThrew.res.ok /\ getThrew.res.val = EmptyText
  <1> DEFINE x == [NoResult EXCEPT !.ok = TRUE]
  <1>1. x.ok
    BY Zenon DEF NoResult
  <1>2. x.val = EmptyText
    BY SMT DEF NoResult
  <1> HIDE DEF x
  <1>3. Reply(x).res = x
    BY DEF Reply
  <1>4. getThrew = Reply(x)
    BY DEF getThrew, x
  <1> QED
    BY <1>1, <1>2, <1>3, <1>4

\* The result a Get comes to.
LEMMA GetResult ==
    ASSUME NEW r, NEW h, NEW now
    PROVE  get(r, h, now).res.ok => h # NoItem /\ get(r, h, now).res.val = h.val
  <1>1. CASE h = NoItem
    <2>1. get(r, h, now).res = NoResult
      BY <1>1 DEF get, Reply
    <2>2. ~NoResult.ok
      BY DEF NoResult
    <2> QED
      BY <2>1, <2>2, Zenon
  <1>2. CASE h # NoItem
    <2>1. get(r, h, now).res = [NoResult EXCEPT !.ok = TRUE, !.val = h.val,
                                                !.n = remainingTtl(h, now)]
      BY <1>2 DEF get, Reply
    <2> DEFINE n == remainingTtl(h, now)
    <2> HIDE DEF n
    <2> QED
      BY <1>2, <2>1 DEF NoResult, n
  <1> QED
    BY <1>1, <1>2

\* The results a Set comes to, and the value it carries.
LEMMA SetResult ==
    ASSUME NEW r
    PROVE  /\ set(r).res.ok /\ ~Reply(set(r).fail).res.ok
           /\ set(r).draft.val = r.val
  <1>1. /\ set(r).res = [NoResult EXCEPT !.ok = TRUE] /\ set(r).fail = NoResult
        /\ set(r).draft = [val |-> r.val, ttl |-> r.ttl, created |-> 0]
    BY DEF set, StoreThen
  <1>2. Reply(NoResult).res = NoResult
    BY DEF Reply
  <1>3. ~NoResult.ok /\ [NoResult EXCEPT !.ok = TRUE].ok
    BY DEF NoResult
  <1>4. [val |-> r.val, ttl |-> r.ttl, created |-> 0].val = r.val
    OBVIOUS
  <1> QED
    BY <1>1, <1>2, <1>3, <1>4, Zenon

\* A Set carries what the request says to its store.
LEMMA NextCarriedOK ==
    ASSUME StreamInv, CallersOK, [NextP]_<<vars, streamVars>>, NEW s \in Streams,
           CarriedOK(s)
    PROVE  CarriedOK(s)'
  <1>0. /\ s \in Threads /\ TypeInv /\ pc \in [Threads -> PCs]
        /\ plan \in [Threads -> Decision] /\ item \in [Threads -> ItemOrNone]
        /\ req \in [Threads -> Requests \cup {NoRequest}]
        /\ at \in [Streams -> Places] /\ (pc[s] # "idle" <=> at[s] = "applied")
    BY PipelineAssumption DEF StreamInv, TypeInv, TypeOK, FrameInv, CallersOK
  <1>1. ThreadStep(s) /\ StreamStep(s)
    BY ThreadSteps, StreamSteps DEF StreamInv
  <1>2. CASE Apply(s)
    <2>1. /\ at[s] = "applying" /\ response' = response
          /\ Call(s, requestOf(frame(s).rpc, frame(s).item))
      BY <1>2 DEF Apply, Moves
    <2>2. PICK r : r = requestOf(frame(s).rpc, frame(s).item)
      OBVIOUS
    <2>3. /\ pc'[s] = entry(r) /\ req'[s] = r
          /\ r.op = "set" => plan'[s] = set(r)
      BY <1>0, <2>1, <2>2 DEF Call, Goto, Begin, Conclude
    <2>4. entry(r) # "link" /\ (entry(r) = "allocate" => r.op = "set")
      BY DEF entry
    <2>5. at'[s] = "applied"
      BY <1>0, <1>2 DEF Apply, Moves
    <2> QED
      BY <2>1, <2>3, <2>4, <2>5 DEF CarriedOK
  <1>3. CASE Applied(s)
    <2>1. at[s] = "applied" /\ at'[s] = "writing"
      BY <1>0, <1>3 DEF Applied, Moves
    <2>2. ~response'[s].ok => response'[s].val = response[s].val
      <3> DEFINE v == IF plan[s].res.ok /\ frame(s).rpc = "Get"
                      THEN plan[s].res.val ELSE response[s].val
      <3>1. response'[s] =
              [id |-> response[s].id, result |-> frame(s).rpc,
               ok |-> plan[s].res.ok, val |-> v, error |-> response[s].error]
        BY <1>3, AppliedResponse DEF StreamInv
      <3>2. ~plan[s].res.ok => v = response[s].val
        OBVIOUS
      <3> HIDE DEF v
      <3> QED
        BY <3>1, <3>2
    <2> QED
      BY <2>1, <2>2 DEF CarriedOK
  <1>4. CASE Inside(s)
    <2>1. /\ at' = at /\ response' = response /\ req' = req
          /\ pc[s] # "idle" /\ at[s] = "applied"
      BY <1>0, <1>4
      DEF Inside, streamVars, Lock, Find, Decide, CopyThrows, Remove, Allocate,
          AllocateFails, Link
    <2>2. req[s].op \in {"get", "set", "remove", "exists"}
      BY <2>1, StreamAsks
    <2>3. CASE Allocate(s)
      <3>1. plan' = plan /\ pc[s] = "allocate" /\ plan[s] = set(req[s])
        BY <2>1, <2>3 DEF Allocate, CarriedOK
      <3>2. item'[s] = allocate(plan[s].draft.val, plan[s].draft.ttl,
                                plan[s].draft.created, libNow)
        BY <1>0, <2>3 DEF Allocate
      <3>3. item'[s].val = plan[s].draft.val
        BY <3>2 DEF allocate
      <3>4. plan[s].draft.val = req[s].val
        BY <3>1, SetResult
      <3> QED
        BY <2>1, <3>1, <3>3, <3>4 DEF CarriedOK
    <2>4. CASE Decide(s)
      <3>1. /\ pc[s] = "decide" /\ req[s].op \in FindOps
            /\ pc'[s] = IF decide(req[s], handle[s], sysNow).write
                        THEN "allocate" ELSE "reply"
        BY <1>0, <2>4 DEF Decide, Goto, TypeInv, LocalsOK
      <3>2. ~(req[s].op \in LockedOps)
        BY <2>2 DEF LockedOps, AddOps
      <3>3. pc'[s] = "reply"
        BY <3>1, <3>2, OnlyLockedOpsStore
      <3> QED
        BY <2>1, <3>3 DEF CarriedOK
    <2>5. CASE \/ Lock(s) \/ Find(s) \/ CopyThrows(s) \/ Remove(s)
               \/ AllocateFails(s) \/ Link(s)
      <3>1. pc'[s] \in {"find", "decide", "reply"}
        BY <1>0, <2>5 DEF Lock, Find, CopyThrows, Remove, AllocateFails, Link, Goto
      <3> QED
        BY <2>1, <3>1 DEF CarriedOK
    <2> QED
      BY <1>4, <2>3, <2>4, <2>5 DEF Inside
  <1>5. CASE SameLocals(s)
    <2>1. CASE Read(s)
      <3>1. at'[s] \in {"applying", "writing"}
        BY <1>0, <2>1 DEF Read, Takes
      <3>2. response'[s].val = EmptyText
        <4> DEFINE e == inBandError(sent[s][nread[s] + 1])
        <4> DEFINE n == nread[s] + 1
        <4>1. response'[s] = [id |-> n, result |-> "none", ok |-> FALSE,
                              val |-> EmptyText, error |-> e]
          BY <2>1, ReadResponse DEF StreamInv
        <4> HIDE DEF e, n
        <4> QED
          BY <4>1
      <3> QED
        BY <3>1, <3>2 DEF CarriedOK
    <2>2. CASE Write(s)
      <3>1. at'[s] = "reading"
        BY <1>0, <2>2 DEF Write, Moves
      <3> QED
        BY <3>1 DEF CarriedOK
    <2>3. CASE /\ ~Read(s) /\ ~Write(s) /\ ~Apply(s) /\ ~Applied(s)
      <3>1. at'[s] = at[s] \/ at'[s] \in {"reading", "returned"}
        BY <1>1, <2>3 DEF StreamStep, SameBut
      <3>2. response'[s] = response[s]
        BY <1>1, <2>3 DEF StreamStep, SameBut
      <3> QED
        BY <1>5, <3>1, <3>2 DEF CarriedOK, SameLocals
    <2> QED
      BY <1>2, <1>3, <2>1, <2>2, <2>3
  <1> QED
    BY <1>1, <1>2, <1>3, <1>4, <1>5 DEF ThreadStep

\* What the stream knows of k, when the answered requests and the one in hand
\* stay.
LEMMA FreshStays ==
    ASSUME StreamInv, [NextP]_<<vars, streamVars>>, NEW s \in Streams, ~Write(s),
           NEW k, NEW i, FreshHere(s, k, i)
    PROVE  Fresh(sent'[s], written'[s], Len(written'[s]), k, i)
  <1> DEFINE n == Len(written[s])
  <1>1. written'[s] = written[s] /\ n \in Nat
    BY AnsweredSame
  <1> HIDE DEF n
  <1>2. n \in 0..n
    BY <1>1
  <1>3. \A v : LastSet(sent[s], written[s], n, k, v) =>
                  LastSet(sent'[s], written'[s], n, k, v)
    BY <1>2, AnsweredSame DEF n
  <1> QED
    BY <1>1, <1>3 DEF n, FreshHere, Fresh

\* Steps of others, and of the client, inside CacheManager or not.
LEMMA OthersOwnOK ==
    ASSUME StreamInv, [NextP]_<<vars, streamVars>>, NEW s \in Streams,
           NEW k \in Keys, OwnOK(s, k), ~Write(s),
           SameLocals(s), at'[s] = at[s] \/ (at[s] \notin Busy /\ at'[s] \notin Busy),
           response'[s] = response[s], store'[k] \in {store[k], NoItem}
    PROVE  OwnOK(s, k)'
  <1>1. at[s] \in Busy => frame(s)' = frame(s)
    BY AnsweredSame
  <1>2. \A rpc : (Has(s, rpc, k)' <=> Has(s, rpc, k))
                 /\ (Has(s, rpc, k) => at'[s] = at[s] /\ frame(s)' = frame(s))
    BY <1>1 DEF Has
  <1>3. at'[s] = at[s] => /\ Took(s)' <=> Took(s)
                          /\ okOf(s)' = okOf(s) /\ valOf(s)' = valOf(s)
    BY DEF SameLocals, Took, okOf, valOf
  <1>4. /\ StoredNow(s, k)' <=> StoredNow(s, k)
        /\ RemovedNow(s, k)' <=> RemovedNow(s, k)
    BY <1>2, <1>3 DEF StoredNow, RemovedNow
  <1>5. \A i : FreshHere(s, k, i) =>
                  Fresh(sent'[s], written'[s], Len(written'[s]), k, i)
    BY FreshStays
  <1>6. \A v : LastSet(sent[s], written[s], Len(written[s]), k, v) =>
                  LastSet(sent'[s], written'[s], Len(written'[s]), k, v)
    <2> DEFINE n == Len(written[s])
    <2>1. written'[s] = written[s] /\ n \in Nat
      BY AnsweredSame
    <2> HIDE DEF n
    <2>2. n \in 0..n
      BY <2>1
    <2> QED
      BY <2>1, <2>2, AnsweredSame DEF n
  <1>7. Fresh(sent'[s], written'[s], Len(written'[s]), k, NoItem)
    BY DEF Fresh
  <1>8. StoredNow(s, k)' =>
           store'[k] = NoItem \/ store'[k].val = frame(s)'.item.val
    BY <1>2, <1>4 DEF OwnOK, StoredNow
  <1>9. RemovedNow(s, k)' => store'[k] = NoItem
    BY <1>4 DEF OwnOK
  <1>10. ~StoredNow(s, k)' /\ ~RemovedNow(s, k)' => FreshHere(s, k, store[k])'
    BY <1>4, <1>5, <1>7 DEF OwnOK, FreshHere
  <1>11. Has(s, "Get", k)' /\ pc'[s] = "decide" => FreshHere(s, k, handle[s])'
    BY <1>2, <1>5 DEF OwnOK, SameLocals, FreshHere
  <1>12. Has(s, "Get", k)' /\ Took(s)' /\ okOf(s)' =>
            LastTold(sent'[s], written'[s], Len(written'[s]), k, valOf(s)')
    BY <1>2, <1>3, <1>6 DEF OwnOK, LastTold
  <1> QED
    BY <1>8, <1>9, <1>10, <1>11, <1>12 DEF OwnOK

\* A request is read, or handed to CacheManager: nothing has been done yet.
LEMMA TakenOwnOK ==
    ASSUME StreamInv, CallersOK, [NextP]_<<vars, streamVars>>, NEW s \in Streams,
           NEW k \in Keys, OwnOK(s, k), Read(s) \/ Apply(s)
    PROVE  OwnOK(s, k)'
  <1>0. /\ s \in Threads /\ pc \in [Threads -> PCs]
        /\ at \in [Streams -> Places] /\ nread \in [Streams -> Nat]
        /\ (pc[s] # "idle" <=> at[s] = "applied")
    BY PipelineAssumption DEF StreamInv, TypeInv, TypeOK, FrameInv, CallersOK
  <1>1. at[s] \in {"reading", "applying"} /\ store' = store /\ pc[s] = "idle"
    BY <1>0 DEF Read, Takes, Apply, Moves, Call, Begin, vars
  <1>2. ~StoredNow(s, k) /\ ~RemovedNow(s, k)
    BY <1>1 DEF StoredNow, RemovedNow, Took
  <1>3. FreshHere(s, k, store[k])
    BY <1>2 DEF OwnOK
  <1>4. FreshHere(s, k, store[k])'
    <2>1. ~Write(s)
      BY <1>1 DEF Write, Moves
    <2> QED
      BY <1>1, <1>3, <2>1, FreshStays DEF FreshHere
  <1>5. CASE Read(s)
    <2>1. /\ pc' = pc
          /\ at'[s] = IF inBandError(sent[s][nread[s] + 1]) = ""
                      THEN "applying" ELSE "writing"
          /\ frame(s)' = sent[s][nread[s] + 1]
      BY <1>0, <1>5 DEF Read, Takes, vars, locals, frame
    <2>2. Took(s)' => \A rpc : ~Has(s, rpc, k)'
      BY <1>1, <2>1 DEF Took, Has
    <2>3. pc'[s] # "decide"
      BY <1>1, <2>1
    <2> QED
      BY <1>4, <2>2, <2>3 DEF OwnOK, StoredNow, RemovedNow
  <1>6. CASE Apply(s)
    <2>1. at'[s] = "applied" /\ \E r : pc'[s] = entry(r)
      BY <1>0, <1>6 DEF Apply, Moves, Call, Goto
    <2>2. \A r : entry(r) \notin {"reply", "decide"}
      BY DEF entry
    <2>3. ~Took(s)' /\ pc'[s] # "decide"
      BY <2>1, <2>2 DEF Took
    <2> QED
      BY <1>4, <2>3 DEF OwnOK, StoredNow, RemovedNow
  <1> QED
    BY <1>5, <1>6

\* CacheManager returns: the response takes over its result.
LEMMA AppliedOwnOK ==
    ASSUME StreamInv, CallersOK, [NextP]_<<vars, streamVars>>, NEW s \in Streams,
           NEW k \in Keys, OwnOK(s, k), Applied(s)
    PROVE  OwnOK(s, k)'
  <1>0. /\ s \in Threads /\ pc \in [Threads -> PCs]
        /\ at \in [Streams -> Places]
    BY PipelineAssumption DEF StreamInv, TypeInv, TypeOK, FrameInv
  <1>1. /\ at[s] = "applied" /\ at'[s] = "writing" /\ pc[s] = "reply"
        /\ pc'[s] = "idle" /\ UNCHANGED <<store, sent, nread, written>>
    BY <1>0 DEF Applied, Moves, Return, Goto
  <1>2. \A rpc : Has(s, rpc, k)' <=> Has(s, rpc, k)
    BY <1>1 DEF Has, frame, Busy
  <1>3. Took(s) /\ Took(s)'
    BY <1>1 DEF Took
  <1>4. /\ response'[s].ok = plan[s].res.ok
        /\ plan[s].res.ok /\ frame(s).rpc = "Get" =>
              response'[s].val = plan[s].res.val
    <2> DEFINE v == IF plan[s].res.ok /\ frame(s).rpc = "Get"
                    THEN plan[s].res.val ELSE response[s].val
    <2>1. response'[s] =
            [id |-> response[s].id, result |-> frame(s).rpc,
             ok |-> plan[s].res.ok, val |-> v, error |-> response[s].error]
      BY AppliedResponse DEF StreamInv
    <2>2. plan[s].res.ok /\ frame(s).rpc = "Get" => v = plan[s].res.val
      OBVIOUS
    <2> HIDE DEF v
    <2> QED
      BY <2>1, <2>2
  <1>5. /\ okOf(s)' = okOf(s)
        /\ okOf(s) /\ Has(s, "Get", k) => valOf(s)' = valOf(s)
    BY <1>1, <1>4 DEF okOf, valOf, Has
  <1>6. /\ StoredNow(s, k)' <=> StoredNow(s, k)
        /\ RemovedNow(s, k)' <=> RemovedNow(s, k)
    BY <1>2, <1>3, <1>5 DEF StoredNow, RemovedNow
  <1>7. /\ FreshHere(s, k, store[k])' <=> FreshHere(s, k, store[k])
        /\ frame(s)' = frame(s)
    BY <1>1 DEF FreshHere, frame
  <1>8. Has(s, "Get", k)' /\ Took(s)' /\ okOf(s)' =>
           LastTold(sent'[s], written'[s], Len(written'[s]), k, valOf(s)')
    BY <1>1, <1>2, <1>3, <1>5 DEF OwnOK
  <1> QED
    BY <1>1, <1>6, <1>7, <1>8 DEF OwnOK

\* The stream's own steps inside CacheManager: find and decide of a Get, the
\* store of a Set, the removal of a Delete.
LEMMA InsideOwnOK ==
    ASSUME StreamInv, CallersOK, NEW s \in Streams, CarriedOK(s),
           NEW k \in Keys, OwnOK(s, k), Inside(s)
    PROVE  OwnOK(s, k)'
  <1>0. /\ s \in Threads /\ TypeInv /\ pc \in [Threads -> PCs]
        /\ plan \in [Threads -> Decision] /\ item \in [Threads -> ItemOrNone]
        /\ handle \in [Threads -> ItemOrNone] /\ store \in [Keys -> ItemOrNone]
    BY PipelineAssumption DEF StreamInv, TypeInv, TypeOK
  <1>1. /\ UNCHANGED <<at, sent, nread, written, response>> /\ pc[s] # "idle"
    BY DEF Inside, streamVars, Lock, Find, Decide, CopyThrows, Remove, Allocate,
           AllocateFails, Link
  <1>2. /\ at[s] = "applied" /\ inBandError(frame(s)) = ""
        /\ req[s].key = frame(s).item.key /\ req[s].val = frame(s).item.val
        /\ req[s].key \in Keys
        /\ req[s].op \in {"get", "set", "remove", "exists"}
        /\ req[s].op = "get" <=> frame(s).rpc = "Get"
        /\ req[s].op = "set" <=> frame(s).rpc = "Set"
        /\ req[s].op = "remove" <=> frame(s).rpc = "Delete"
    BY <1>1, StreamAsks
  <1>3. /\ frame(s)' = frame(s) /\ at'[s] = "applied"
        /\ \A i : Fresh(sent'[s], written'[s], Len(written'[s]), k, i)
                     <=> FreshHere(s, k, i)
    BY <1>1, <1>2 DEF frame, FreshHere
  <1>4. \A rpc : /\ Has(s, rpc, k)' <=> Has(s, rpc, k)
                 /\ Has(s, rpc, k) <=> frame(s).rpc = rpc /\ req[s].key = k
    BY <1>1, <1>2, <1>3 DEF Has, Busy
  <1>5. /\ Took(s) <=> pc[s] = "reply"
        /\ Took(s)' <=> pc'[s] = "reply"
        /\ okOf(s)' = plan'[s].res.ok /\ valOf(s)' = plan'[s].res.val
    BY <1>2, <1>3 DEF Took, okOf, valOf
  <1>6. pc[s] # "reply" => FreshHere(s, k, store[k])
    BY <1>5 DEF OwnOK, StoredNow, RemovedNow
  <1>7. pc[s] # "reply"
    BY DEF Inside, Lock, Find, Decide, CopyThrows, Remove, Allocate, AllocateFails, Link
  <1>8. FreshHere(s, k, store[k])
    BY <1>6, <1>7
  <1>9. CASE Lock(s)
    <2>1. req[s].op \in LockedOps
      BY <1>0, <1>9 DEF Lock, TypeInv, LocalsOK
    <2> QED
      BY <1>2, <2>1 DEF LockedOps, AddOps
  <1>10. CASE Find(s)
    <2>1. store' = store /\ pc'[s] = "decide"
      BY <1>0, <1>10 DEF Find, Goto
    <2>2. handle'[s] = find(store[req[s].key], libNow)
      BY <1>0, <1>10 DEF Find
    <2>3. handle'[s] \in {store[req[s].key], NoItem}
      BY <2>2 DEF find
    <2>4. Has(s, "Get", k)' => FreshHere(s, k, handle'[s])
      BY <1>4, <1>8, <2>3 DEF FreshHere, Fresh
    <2> QED
      BY <1>3, <1>5, <1>8, <2>1, <2>4
      DEF OwnOK, StoredNow, RemovedNow, FreshHere
  <1>11. CASE Decide(s)
    <2> DEFINE d == decide(req[s], handle[s], sysNow)
    <2>1. /\ store' = store /\ pc[s] = "decide" /\ plan'[s] = d
          /\ pc'[s] = IF d.write THEN "allocate" ELSE "reply"
          /\ req[s].op \in FindOps
      BY <1>0, <1>11 DEF Decide, Goto, Conclude, TypeInv, LocalsOK
    <2>2. req[s].op \in {"get", "exists"}
      BY <1>2, <2>1 DEF FindOps, LockedOps, AddOps
    <2>3. pc'[s] = "reply"
      BY <2>1, <2>2, OnlyLockedOpsStore DEF LockedOps, AddOps
    <2>4. ~StoredNow(s, k)' /\ ~RemovedNow(s, k)'
      BY <1>2, <1>4, <2>2 DEF StoredNow, RemovedNow
    <2>5. ASSUME Has(s, "Get", k), d.res.ok
          PROVE  LastTold(sent[s], written[s], Len(written[s]), k, d.res.val)
      <3>1. req[s].op = "get"
        BY <1>2, <1>4, <2>5
      <3>2. d = get(req[s], handle[s], sysNow)
        BY <3>1 DEF decide, AddOps
      <3>3. handle[s] # NoItem /\ d.res.val = handle[s].val
        BY <2>5, <3>2, GetResult
      <3>4. FreshHere(s, k, handle[s])
        BY <2>1, <2>5 DEF OwnOK
      <3> QED
        BY <3>3, <3>4 DEF FreshHere, Fresh, LastTold
    <2> HIDE DEF d
    <2> QED
      BY <1>1, <1>3, <1>4, <1>5, <1>8, <2>1, <2>3, <2>4, <2>5
      DEF OwnOK, FreshHere
  <1>17. CASE CopyThrows(s)
    <2>1. /\ store' = store /\ pc[s] = "decide" /\ pc'[s] = "reply"
          /\ plan'[s] = getThrew /\ handle[s] # NoItem /\ req[s].op = "get"
      BY <1>0, <1>17 DEF CopyThrows, Goto, Conclude
    <2>2. plan'[s].res.val = EmptyText
      BY <2>1, ThrewResult
    <2>3. ~StoredNow(s, k)' /\ ~RemovedNow(s, k)'
      BY <1>2, <1>4, <2>1 DEF StoredNow, RemovedNow
    <2>4. Has(s, "Get", k) =>
             LastTold(sent[s], written[s], Len(written[s]), k, EmptyText)
      BY <2>1 DEF OwnOK, FreshHere, Fresh, LastTold
    <2> QED
      BY <1>1, <1>3, <1>4, <1>5, <1>8, <2>1, <2>2, <2>3, <2>4
      DEF OwnOK, FreshHere
  <1>12. CASE Remove(s)
    <2>1. /\ store' = [store EXCEPT ![req[s].key] = NoItem]
          /\ pc'[s] = "reply" /\ req[s].op = "remove"
      BY <1>0, <1>12 DEF Remove, Goto, TypeInv, LocalsOK
    <2>2. frame(s).rpc = "Delete"
      BY <1>2, <2>1
    <2>3. store'[k] = IF req[s].key = k THEN NoItem ELSE store[k]
      BY <1>0, <2>1
    <2> QED
      BY <1>3, <1>4, <1>5, <1>8, <2>1, <2>2, <2>3
      DEF OwnOK, StoredNow, RemovedNow, FreshHere
  <1>13. CASE Allocate(s)
    <2>1. store' = store /\ pc'[s] = "link"
      BY <1>0, <1>13 DEF Allocate, Goto
    <2> QED
      BY <1>3, <1>5, <1>8, <2>1 DEF OwnOK, StoredNow, RemovedNow, FreshHere
  <1>14. ASSUME pc[s] \in {"allocate", "link"}
         PROVE  frame(s).rpc = "Set" /\ plan[s] = set(req[s])
    <2>1. req[s].op \in LockedOps \cup {"set"}
      BY <1>0, <1>14 DEF TypeInv, LocalsOK
    <2> QED
      BY <1>2, <1>14, <2>1 DEF CarriedOK, LockedOps, AddOps
  <1>15. CASE AllocateFails(s)
    <2>1. /\ store' = store /\ pc'[s] = "reply" /\ pc[s] = "allocate"
          /\ plan'[s] = Reply(plan[s].fail)
      BY <1>0, <1>15 DEF AllocateFails, Goto, Conclude
    <2>2. ~plan'[s].res.ok
      BY <1>14, <2>1, SetResult, Zenon
    <2> QED
      BY <1>3, <1>4, <1>5, <1>8, <1>14, <2>1, <2>2
      DEF OwnOK, StoredNow, RemovedNow, FreshHere
  <1>16. CASE Link(s)
    <2>1. /\ store' = [store EXCEPT ![req[s].key] = item[s]]
          /\ pc'[s] = "reply" /\ pc[s] = "link" /\ plan' = plan
      BY <1>0, <1>16 DEF Link, Goto
    <2>2. plan'[s].res.ok
      BY <1>14, <2>1, SetResult, Zenon
    <2>3. item[s].val = frame(s).item.val
      BY <1>2, <2>1 DEF CarriedOK
    <2>4. store'[k] = IF req[s].key = k THEN item[s] ELSE store[k]
      BY <1>0, <2>1
    <2> QED
      BY <1>3, <1>4, <1>5, <1>8, <1>14, <2>1, <2>2, <2>3, <2>4
      DEF OwnOK, StoredNow, RemovedNow, FreshHere
  <1> QED
    BY <1>9, <1>10, <1>11, <1>12, <1>13, <1>15, <1>16, <1>17 DEF Inside

\* A Write: the request in hand becomes the last answered one.
LEMMA WriteOwnOK ==
    ASSUME StreamInv, CallersOK, NEW s \in Streams, CarriedOK(s), SeenOK(s),
           Write(s),
           ended[s] # "cancelled" =>
              \A k \in Keys \ {EmptyKey} : Elsewhere(sent, s, k) \/ OwnOK(s, k)
    PROVE  /\ SeenOK(s)'
           /\ ended[s] # "cancelled" =>
                 \A k \in Keys \ {EmptyKey} : Elsewhere(sent, s, k) \/ OwnOK(s, k)'
  <1>1. /\ at[s] = "writing" /\ at'[s] = "reading"
        /\ UNCHANGED <<sent, nread, ended, response, store, pc>>
    BY DEF Write, Moves, StreamInv, FrameInv, vars, locals
  <1>2. CASE ended[s] = "cancelled"
    <2>1. written'[s] = written[s]
      BY <1>2, WrittenResponse DEF StreamInv
    <2> QED
      BY <1>1, <1>2, <2>1 DEF SeenOK
  <1>3. CASE ended[s] # "cancelled"
    <2> DEFINE q == sent[s]
    <2> DEFINE w == written[s]
    <2> DEFINE w2 == written'[s]
    <2> DEFINE n == Len(written[s])
    <2>1. /\ n \in Nat /\ Len(w2) = n + 1
          /\ \A i \in 1..n : w2[i] = w[i]
          /\ w2[n + 1] = response[s]
      BY <1>3, WrittenResponse DEF StreamInv
    <2>2. nread[s] = n + 1
      <3>1. Len(written[s]) + 1 = nread[s]
        BY <1>1, <1>3 DEF StreamInv, OrderOK, InHand
      <3> QED
        BY <3>1
    <2>3. frame(s) = q[n + 1]
      BY <2>2 DEF frame
    <2>4. /\ frame(s) \in Frames /\ Responds(response[s], nread[s], frame(s))
      BY <1>1, FrameFacts DEF StreamInv, OrderOK, Busy
    <2>5. \A rpc, k : Has(s, rpc, k) <=> /\ inBandError(frame(s)) = ""
                                         /\ frame(s).rpc = rpc
                                         /\ frame(s).item.key = k
      BY <1>1 DEF Has, Busy
    <2>6. Took(s) /\ okOf(s) = response[s].ok /\ valOf(s) = response[s].val
      BY <1>1 DEF Took, okOf, valOf
    <2>7. \A k : ~Has(s, "Get", k)' /\ ~Has(s, "Set", k)' /\ ~Has(s, "Delete", k)'
      BY <1>1 DEF Has, Busy
    <2>8. \A k : Elsewhere(sent, s, k) <=> Elsewhere(sent', s, k)
      BY <1>1
    <2>9. sent'[s] = q
      BY <1>1
    <2>10. ASSUME NEW k \in Keys \ {EmptyKey}, ~Elsewhere(sent, s, k)
           PROVE  OwnOK(s, k)'
      <3>1. OwnOK(s, k)
        BY <1>3, <2>10
      <3>2. Fresh(q, w2, n + 1, k, store[k])
        <4>1. CASE StoredNow(s, k)
          <5>1. /\ store[k] = NoItem \/ store[k].val = frame(s).item.val
                /\ frame(s).rpc = "Set" /\ frame(s).item.key = k
                /\ response[s].ok
            BY <2>5, <2>6, <3>1, <4>1 DEF OwnOK, StoredNow
          <5> HIDE DEF q, w, w2, n
          <5>2. WroteIn(q, w2, n + 1, k) /\ q[n + 1].rpc = "Set"
            BY <2>1, <2>3, <5>1 DEF WroteIn
          <5>3. LastSet(q, w2, n + 1, k, q[n + 1].item.val)
            BY <2>1, <5>2, LastSetNew
          <5> QED
            BY <2>3, <5>1, <5>3 DEF Fresh
        <4>2. CASE RemovedNow(s, k)
          BY <3>1, <4>2 DEF OwnOK, Fresh
        <4>3. CASE ~StoredNow(s, k) /\ ~RemovedNow(s, k)
          <5>1. Fresh(q, w, n, k, store[k])
            BY <3>1, <4>3 DEF OwnOK, FreshHere
          <5>2. ~(/\ frame(s).item.key = k
                  /\ frame(s).rpc = "Delete"
                     \/ (frame(s).rpc = "Set" /\ response[s].ok))
            <6>1. frame(s).item.key = k /\ frame(s).rpc # "Unknown" =>
                     inBandError(frame(s)) = ""
              BY <2>10 DEF inBandError
            <6> QED
              BY <2>5, <2>6, <4>3, <6>1 DEF StoredNow, RemovedNow
          <5> HIDE DEF q, w, w2, n
          <5>3. ~WroteIn(q, w2, n + 1, k)
            BY <2>1, <2>3, <5>2 DEF WroteIn
          <5>4. \A v : LastSet(q, w, n, k, v) => LastSet(q, w2, n + 1, k, v)
            BY <2>1, <5>3, LastSetExtends
          <5> QED
            BY <5>1, <5>4 DEF Fresh
        <4> QED
          BY <4>1, <4>2, <4>3
      <3>3. FreshHere(s, k, store[k])'
        BY <1>1, <2>1, <2>9, <3>2 DEF FreshHere
      <3> QED
        BY <2>7, <3>3 DEF OwnOK, StoredNow, RemovedNow
    <2>11. ASSUME NEW i \in 1..(n + 1), w2[i].result = "Get",
                  ~Elsewhere(sent, s, q[i].item.key)
           PROVE  IF w2[i].ok
                  THEN LastTold(q, w2, i - 1, q[i].item.key, w2[i].val)
                  ELSE w2[i].val = EmptyText
      <3>1. CASE i \in 1..n
        <4>1. IF w[i].ok THEN LastTold(q, w, i - 1, q[i].item.key, w[i].val)
                         ELSE w[i].val = EmptyText
          BY <2>1, <2>11, <3>1 DEF SeenOK
        <4> HIDE DEF q, w, w2, n
        <4>2. \A j \in 1..(i - 1) : w2[j] = w[j]
          BY <2>1, <3>1
        <4>3. \A k, v : LastSet(q, w, i - 1, k, v) => LastSet(q, w2, i - 1, k, v)
          BY <4>2, LastSetStays
        <4>4. w2[i] = w[i]
          BY <2>1, <3>1
        <4> QED
          BY <4>1, <4>3, <4>4 DEF LastTold
      <3>2. CASE i = n + 1
        <4> DEFINE k == q[n + 1].item.key
        <4>1. response[s].result = "Get" /\ ~Elsewhere(sent, s, k)
          BY <2>1, <2>11, <3>2
        <4>2. inBandError(frame(s)) = "" /\ frame(s).rpc = "Get"
          BY <2>4, <4>1 DEF Responds
        <4>3. frame(s).item.key \in Keys \ {EmptyKey}
          <5>1. requestOf(frame(s).rpc, frame(s).item) \in Requests
            BY <2>4, <4>2, FramesAssumption
          <5>2. requestOf(frame(s).rpc, frame(s).item).key \in Keys
            BY <5>1, RequestsAssumption DEF RequestsOn
          <5>3. frame(s).item.key # EmptyKey
            BY <4>2 DEF inBandError
          <5> QED
            BY <5>2, <5>3 DEF requestOf
        <4>4. k \in Keys \ {EmptyKey} /\ Has(s, "Get", k)
          BY <2>3, <2>5, <4>2, <4>3
        <4>5. OwnOK(s, k)
          BY <1>3, <4>1, <4>4
        <4>6. response[s].ok => LastTold(q, w, n, k, response[s].val)
          BY <2>6, <4>4, <4>5 DEF OwnOK
        <4>7. ~response[s].ok => response[s].val = EmptyText
          BY <1>1 DEF CarriedOK
        <4> HIDE DEF q, w, w2, n
        <4>8. \A v : LastSet(q, w, n, k, v) => LastSet(q, w2, n, k, v)
          BY <2>1, LastSetStays
        <4>9. i - 1 = n
          BY <2>1, <3>2
        <4> QED
          BY <2>1, <3>2, <4>6, <4>7, <4>8, <4>9 DEF LastTold
      <3> HIDE DEF q, w, w2, n
      <3> QED
        BY <2>1, <3>1, <3>2
    <2>12. SeenOK(s)'
      BY <1>1, <2>1, <2>9, <2>11 DEF SeenOK
    <2> QED
      BY <2>10, <2>12
  <1> QED
    BY <1>2, <1>3

\* Every step keeps what a stream knows of its keys.
LEMMA NextOwnInv ==
    ASSUME StreamInv, OwnInv, [NextP]_<<vars, streamVars>>
    PROVE  OwnInv'
  <1>1. CallersOK'
    BY NextCallersOK DEF OwnInv
  <1>2. ASSUME NEW s \in Streams
        PROVE  /\ CarriedOK(s)' /\ SeenOK(s)'
               /\ ended'[s] # "cancelled" =>
                     \A k \in Keys \ {EmptyKey} :
                         Elsewhere(sent', s, k) \/ OwnOK(s, k)'
    <2>0. /\ CallersOK /\ CarriedOK(s) /\ SeenOK(s)
          /\ ended[s] # "cancelled" =>
                \A k \in Keys \ {EmptyKey} : Elsewhere(sent, s, k) \/ OwnOK(s, k)
      BY DEF OwnInv
    <2>1. CarriedOK(s)'
      BY <2>0, NextCarriedOK
    <2>2. CASE Write(s)
      <3>1. sent' = sent /\ ended' = ended
        BY <2>2 DEF Write
      <3> QED
        BY <2>0, <2>1, <2>2, <3>1, WriteOwnOK
    <2>3. CASE ~Write(s)
      <3>1. SeenOK(s)'
        BY <2>0, <2>3, SeenStays
      <3>2. ended'[s] # "cancelled" => ended[s] # "cancelled"
        <4>1. StreamStep(s)
          BY StreamSteps DEF StreamInv
        <4> QED
          BY <2>3, <4>1 DEF StreamStep, SameBut, Read, Takes, Apply, Applied
      <3>3. ASSUME NEW k \in Keys, ~Elsewhere(sent', s, k),
                   Elsewhere(sent, s, k) \/ OwnOK(s, k)
            PROVE  OwnOK(s, k)'
        <4>1. ~Elsewhere(sent, s, k) /\ OwnOK(s, k)
          BY <3>3, StoredElsewhereStays
        <4>2. ThreadStep(s) /\ StreamStep(s)
          BY <2>0, ThreadSteps, StreamSteps DEF StreamInv
        <4>3. CASE Read(s) \/ Apply(s)
          BY <2>0, <4>1, <4>3, TakenOwnOK
        <4>4. CASE Applied(s)
          BY <2>0, <4>1, <4>4, AppliedOwnOK
        <4>5. CASE Inside(s)
          BY <2>0, <4>1, <4>5, InsideOwnOK
        <4>6. CASE ~Read(s) /\ ~Apply(s) /\ ~Applied(s) /\ ~Inside(s)
          <5>1. SameLocals(s) /\ store'[k] \in {store[k], NoItem}
            BY <4>1, <4>2, <4>6 DEF ThreadStep
          <5>2. /\ at'[s] = at[s] \/ (at[s] \notin Busy /\ at'[s] \notin Busy)
                /\ response'[s] = response[s]
            BY <2>3, <4>2, <4>6 DEF StreamStep, SameBut, Busy
          <5> QED
            BY <2>3, <4>1, <5>1, <5>2, OthersOwnOK
        <4> QED
          BY <4>3, <4>4, <4>5, <4>6
      <3> QED
        BY <2>0, <2>1, <3>1, <3>2, <3>3
    <2> QED
      BY <2>2, <2>3
  <1> QED
    BY <1>1, <1>2 DEF OwnInv

\* A stream of Pipeline (CacheServiceImpl.cc:519-554) sees its own writes: for
\* any number of streams and of other callers, and whatever is evicted, removed
\* or expires, a Get of a key that nobody else stores to returns what the last
\* write of its stream stored (or no value, where the copy of it threw), or
\* nothing and no value.
THEOREM OwnWritesSeenHolds == SpecP => []OwnWritesSeen
  <1>1. InitP => OwnInv
    <2> SUFFICES ASSUME InitP PROVE OwnInv
      OBVIOUS
    <2>1. CallersOK
      BY PipelineAssumption DEF InitP, Init, CallersOK
    <2>2. ASSUME NEW s \in Streams
          PROVE  /\ CarriedOK(s) /\ SeenOK(s)
                 /\ \A k \in Keys : OwnOK(s, k)
      <3>1. at[s] = "idle" /\ written[s] = <<>> /\ s \in Threads
        BY PipelineAssumption DEF InitP
      <3>2. SeenOK(s)
        BY <3>1 DEF SeenOK
      <3>3. ASSUME NEW k \in Keys PROVE OwnOK(s, k)
        <4>1. store[k] = NoItem
          BY DEF InitP, Init
        <4>2. \A rpc : ~Has(s, rpc, k)
          BY <3>1 DEF Has, Busy
        <4> QED
          BY <4>1, <4>2 DEF OwnOK, StoredNow, RemovedNow, FreshHere, Fresh
      <3> QED
        BY <3>1, <3>2, <3>3 DEF CarriedOK
    <2> QED
      BY <2>1, <2>2 DEF OwnInv
  <1>2. StreamInv /\ OwnInv /\ [NextP]_<<vars, streamVars>> => OwnInv'
    BY NextOwnInv
  <1>3. StreamInv /\ OwnInv => OwnWritesSeen
    <2> SUFFICES ASSUME OwnInv, NEW s \in Streams, NEW i \in 1..Len(written[s]),
                        written[s][i].result = "Get",
                        ~StoredElsewhere(s, sent[s][i].item.key)
                 PROVE  LET w == written[s][i]
                            k == sent[s][i].item.key
                            writes == {j \in 1..(i - 1) : Wrote(s, j, k)}
                        IN  IF ~w.ok THEN w.val = EmptyText
                            ELSE \E j \in writes :
                                    /\ \A l \in writes : l <= j
                                    /\ sent[s][j].rpc = "Set"
                                    /\ w.val \in {sent[s][j].item.val, EmptyText}
      BY DEF OwnWritesSeen
    <2> DEFINE k == sent[s][i].item.key
    <2>1. SeenOK(s) /\ ~Elsewhere(sent, s, k)
      BY DEF OwnInv, StoredElsewhere, Elsewhere
    <2>2. IF written[s][i].ok
          THEN LastTold(sent[s], written[s], i - 1, k, written[s][i].val)
          ELSE written[s][i].val = EmptyText
      BY <2>1 DEF SeenOK
    <2>3. \A j : Wrote(s, j, k) <=> WroteIn(sent[s], written[s], j, k)
      BY DEF Wrote, WroteIn
    <2> HIDE DEF k
    <2>4. CASE ~written[s][i].ok
      BY <2>2, <2>4 DEF k
    <2>5. CASE written[s][i].ok
      <3>1. PICK j \in 1..(i - 1) :
               /\ Wrote(s, j, k)
               /\ \A l \in 1..(i - 1) : Wrote(s, l, k) => l <= j
               /\ sent[s][j].rpc = "Set"
               /\ written[s][i].val \in {sent[s][j].item.val, EmptyText}
        BY <2>2, <2>3, <2>5 DEF LastSet, LastTold
      <3> QED
        BY <2>5, <3>1 DEF k
    <2> QED
      BY <2>4, <2>5
  <1> QED
    BY <1>1, <1>2, <1>3, StreamInvariance, PTL DEF SpecP

-----------------------------------------------------------------------------
\* The unary and batch handlers.

\* Counting a set of places from the front, every number up to its size comes
\* up at one of its places.
LEMMA EveryRank ==
    ASSUME NEW last \in Nat, NEW S \in SUBSET (1..last),
           NEW n \in 1..Cardinality(S)
    PROVE  \E i \in S : Cardinality({j \in S : j <= i}) = n
  <1> DEFINE upTo(i) == {j \in S : j <= i}
             Reached == {i \in Nat : n <= Cardinality(upTo(i))}
             R == {ss \in Nat \X Nat : ss[1] < ss[2]}
  <1>0. \A j \in S : j \in Nat /\ 1 <= j /\ j <= last
    OBVIOUS
  <1>1. IsFiniteSet(S) /\ Cardinality(S) \in Nat
    <2>1. 1 \in Int /\ last \in Int
      OBVIOUS
    <2>2. IsFiniteSet(1..last)
      BY <2>1, FS_Interval
    <2> QED
      BY <2>2, FS_Subset, FS_CardinalityType
  <1>2. ASSUME NEW i \in Nat
        PROVE  IsFiniteSet(upTo(i)) /\ Cardinality(upTo(i)) \in Nat
    <2>1. upTo(i) \in SUBSET S
      OBVIOUS
    <2> HIDE DEF upTo
    <2> QED
      BY <1>1, <2>1, FS_Subset, FS_CardinalityType
  <1>3. upTo(last) = S
    BY <1>0
  <1>4. upTo(0) = {}
    <2>1. ASSUME NEW j \in S, j <= 0 PROVE FALSE
      BY <1>0, <2>1
    <2> QED
      BY <2>1
  <1>5. last \in Reached
    BY <1>1, <1>3
  <1>6. 0 \notin Reached
    BY <1>4, FS_EmptySet
  <1>7. IsWellFoundedOn(R, Nat)
    BY NatLessThanWellFounded DEF OpToRel
  <1>8. ASSUME NEW i \in Nat
        PROVE  upTo(i + 1) = IF i + 1 \in S THEN upTo(i) \cup {i + 1} ELSE upTo(i)
    <2>1. ASSUME NEW j \in S PROVE j <= i + 1 <=> (j <= i \/ j = i + 1)
      BY <1>0
    <2> QED
      BY <2>1
  <1> HIDE DEF R
  <1>9. PICK p \in Reached : \A v \in Reached : ~(<<v, p>> \in R)
    <2>1. Reached \subseteq Nat /\ Reached # {}
      BY <1>5
    <2> HIDE DEF Reached
    <2> QED
      BY <1>7, <2>1, WFMin
  <1>10. p \in Nat /\ p # 0 /\ n <= Cardinality(upTo(p))
    BY <1>6
  <1>11. PICK q \in Nat : p = q + 1
    BY <1>10
  <1>12. ~(n <= Cardinality(upTo(q)))
    <2>1. <<q, p>> \in R
      BY <1>10, <1>11 DEF R
    <2> QED
      BY <1>9, <2>1
  <1>13. p \notin upTo(q)
    BY <1>11
  <1>14. p \in S /\ Cardinality(upTo(p)) = Cardinality(upTo(q)) + 1
    <2>1. upTo(p) # upTo(q)
      BY <1>10, <1>12
    <2>2. p \in S /\ upTo(p) = upTo(q) \cup {p}
      BY <1>8, <1>11, <2>1
    <2>3. IsFiniteSet(upTo(q))
      BY <1>2, <1>11
    <2> HIDE DEF upTo
    <2>4. Cardinality(upTo(q) \cup {p}) = Cardinality(upTo(q)) + 1
      BY <1>13, <2>3, FS_AddElement
    <2> QED
      BY <2>2, <2>4
  <1>15. Cardinality(upTo(p)) = n
    <2> DEFINE a == Cardinality(upTo(q))
               b == Cardinality(upTo(p))
    <2>1. a \in Nat /\ b = a + 1 /\ ~(n <= a) /\ n <= b /\ n \in Nat
      <3>1. n \in Nat
        BY <1>1
      <3>2. Cardinality(upTo(q)) \in Nat
        BY <1>2
      <3> HIDE DEF upTo
      <3> QED
        BY <1>10, <1>12, <1>14, <3>1, <3>2
    <2> HIDE DEF a, b
    <2>2. b = n
      BY <2>1
    <2> QED
      BY <2>2 DEF b
  <1> QED
    BY <1>14, <1>15

\* What MultiSet takes up: each of the items that have a key.
LEMMA WithKeys ==
    ASSUME NEW items \in Seq(MessageItem)
    PROVE  /\ withKeys(items) \in Seq(MessageItem)
           /\ Len(withKeys(items)) =
                 Cardinality({i \in 1..Len(items) : items[i].key # EmptyKey})
           /\ \A n \in 1..Len(withKeys(items)) :
                 \E i \in DOMAIN items :
                    withKeys(items)[n] = items[i] /\ items[i].key # EmptyKey
  <1> DEFINE kept   == {i \in DOMAIN items : items[i].key # EmptyKey}
             nth(n) == CHOOSE i \in kept : Cardinality({j \in kept : j <= i}) = n
             c == Cardinality(kept)
             w == [n \in 1..c |-> items[nth(n)]]
  <1>1. DOMAIN items = 1..Len(items) /\ Len(items) \in Nat
        /\ \A i \in DOMAIN items : items[i] \in MessageItem
    OBVIOUS
  <1>2. kept \in SUBSET (1..Len(items)) /\ c \in Nat
    <2>1. kept \in SUBSET (1..Len(items))
      BY <1>1
    <2>2. IsFiniteSet(1..Len(items))
      <3>1. 1 \in Int /\ Len(items) \in Int
        BY <1>1
      <3> QED
        BY <3>1, FS_Interval
    <2> HIDE DEF kept
    <2> QED
      BY <2>1, <2>2, FS_Subset, FS_CardinalityType
  <1>3. ASSUME NEW n \in 1..c PROVE nth(n) \in kept
    <2>1. \E i \in kept : Cardinality({j \in kept : j <= i}) = n
      <3> HIDE DEF kept
      <3> QED
        BY <1>1, <1>2, EveryRank DEF c
    <2> HIDE DEF kept
    <2> QED
      BY <2>1
  <1>4. withKeys(items) = w
    BY DEF withKeys
  <1>5. \A n \in 1..c : w[n] = items[nth(n)] /\ nth(n) \in DOMAIN items
                        /\ items[nth(n)].key # EmptyKey
    <2> HIDE DEF nth
    <2> QED
      BY <1>3
  <1>6. w \in [1..c -> MessageItem]
    <2> HIDE DEF nth
    <2> QED
      BY <1>1, <1>5
  <1> HIDE DEF nth, c, w
  <1>7. w \in Seq(MessageItem) /\ Len(w) = c
    BY <1>2, <1>6
  <1> QED
    BY <1>1, <1>4, <1>5, <1>7 DEF c

-----------------------------------------------------------------------------
\* The handler goes on to its calls: its message has a key where it needs one.
Admitted(m) ==
    m.rpc \in Batches \cup {"Stats", "Ping"} \/ m.items[1].key # EmptyKey

\* What a handler asks of CacheManager is what one of its items says.
LEMMA CallsFacts ==
    ASSUME NEW m \in Messages, Admitted(m)
    PROVE  /\ attempted(m) \in Seq(MessageItem)
           /\ callsOf(m) \in Seq(Requests)
           /\ Len(callsOf(m)) = Len(attempted(m))
           /\ \A n \in 1..Len(callsOf(m)) :
                 /\ attempted(m)[n] \in MessageItem
                 /\ callsOf(m)[n] = requestOf(m.rpc, attempted(m)[n])
                 /\ callsOf(m)[n] \in Requests
  <1> DEFINE items == attempted(m)
  <1>1. /\ m.items \in Seq(MessageItem)
        /\ \/ m.rpc \in Unary /\ Len(m.items) = 1
           \/ m.rpc \in Batches
           \/ m.rpc = "Ping" /\ m.items = <<>>
        /\ \A i \in DOMAIN m.items :
              \/ requestOf(m.rpc, m.items[i]) \in Requests
              \/ /\ m.items[i].key = EmptyKey
                 /\ m.rpc \notin {"MultiGet", "MultiDelete", "Stats"}
    BY MessagesAssumption
  <1>2. /\ items \in Seq(MessageItem)
        /\ \A n \in 1..Len(items) :
              /\ items[n] \in MessageItem
              /\ requestOf(m.rpc, items[n]) \in Requests
    <2>1. CASE m.rpc = "MultiSet"
      <3>1. items = withKeys(m.items)
        BY <2>1 DEF attempted
      <3>2. /\ items \in Seq(MessageItem)
            /\ \A n \in 1..Len(items) :
                  \E i \in DOMAIN m.items :
                    items[n] = m.items[i] /\ m.items[i].key # EmptyKey
        <4> DEFINE asked == m.items
        <4>1. asked \in Seq(MessageItem)
          BY <1>1
        <4> HIDE DEF asked
        <4>2. /\ withKeys(asked) \in Seq(MessageItem)
              /\ \A n \in 1..Len(withKeys(asked)) :
                  \E i \in DOMAIN asked :
                    withKeys(asked)[n] = asked[i] /\ asked[i].key # EmptyKey
          BY <4>1, WithKeys
        <4> QED
          BY <3>1, <4>2 DEF asked
      <3> HIDE DEF items
      <3> QED
        BY <1>1, <3>2
    <2>2. CASE m.rpc # "MultiSet"
      <3>1. items = m.items
        BY <2>2 DEF attempted
      <3>2. ASSUME NEW n \in 1..Len(m.items)
            PROVE  requestOf(m.rpc, m.items[n]) \in Requests
        <4>1. n \in DOMAIN m.items
          BY <1>1
        <4>2. CASE m.rpc \in Unary /\ Len(m.items) = 1
          <5>1. n = 1
            BY <4>2
          <5>2. m.rpc = "Stats" \/ m.items[1].key # EmptyKey
            BY <4>2 DEF Admitted, Unary, Batches
          <5> QED
            BY <1>1, <4>1, <5>1, <5>2
        <4>3. CASE m.rpc \in Batches
          BY <1>1, <2>2, <4>1, <4>3 DEF Batches
        <4>4. CASE m.items = <<>>
          BY <4>4
        <4> QED
          BY <1>1, <4>2, <4>3, <4>4
      <3>3. \A n \in 1..Len(m.items) : m.items[n] \in MessageItem
        BY <1>1, ElementOfSeq
      <3> HIDE DEF items
      <3> QED
        BY <1>1, <3>1, <3>2, <3>3
    <2> QED
      BY <2>1, <2>2
  <1>3. callsOf(m) = [n \in 1..Len(items) |-> requestOf(m.rpc, items[n])]
    BY DEF callsOf
  <1>4. Len(items) \in Nat
    BY <1>2
  <1> HIDE DEF items
  <1>5. callsOf(m) \in Seq(Requests) /\ Len(callsOf(m)) = Len(items)
        /\ \A n \in 1..Len(items) : callsOf(m)[n] = requestOf(m.rpc, items[n])
    BY <1>2, <1>3, <1>4
  <1> QED
    BY <1>2, <1>5 DEF items

-----------------------------------------------------------------------------
\* A thread does not touch the locals of another, nor does CacheLib or time.
LEMMA OtherLocals ==
    ASSUME TypeInv, NEW t \in Threads, NEW u \in Threads, u # t,
           Step(u) \/ Invoke(u)
    PROVE  SameLocals(t)
  <1>0. /\ DOMAIN pc = Threads /\ DOMAIN req = Threads /\ DOMAIN handle = Threads
        /\ DOMAIN plan = Threads /\ DOMAIN item = Threads
    BY DEF TypeInv, TypeOK
  <1>1. CASE Step(u)
    <2>1. pc'[t] = pc[t] /\ req'[t] = req[t]
      BY <1>0, <1>1
      DEF Step, Lock, Find, Decide, CopyThrows, Remove, Allocate, AllocateFails, Link, Load,
          Return, Goto
    <2>2. handle'[t] = handle[t] /\ item'[t] = item[t]
      BY <1>0, <1>1
      DEF Step, Lock, Find, Decide, CopyThrows, Remove, Allocate, AllocateFails, Link, Load,
          Return
    <2>3. plan'[t] = plan[t]
      BY <1>0, <1>1
      DEF Step, Lock, Find, Decide, CopyThrows, Remove, Allocate, AllocateFails, Link, Load,
          Return, Conclude
    <2> QED
      BY <2>1, <2>2, <2>3 DEF SameLocals
  <1>2. CASE Invoke(u)
    BY <1>0, <1>2
    DEF Invoke, Call, CallUnready, CallRefused, Begin, Goto, Conclude, SameLocals
  <1> QED
    BY <1>1, <1>2

\* The number of results that report success.
LEMMA SucceededType ==
    ASSUME NEW rs \in Seq(Result)
    PROVE  /\ Succeeded(rs) \in Nat /\ Len(rs) - Succeeded(rs) \in Nat
           /\ Len(rs) = 0 => Succeeded(rs) = 0
           /\ Len(rs) = 1 => Succeeded(rs) = IF rs[1].ok THEN 1 ELSE 0
  <1> DEFINE ok == {i \in DOMAIN rs : rs[i].ok}
             n == Len(rs)
  <1>1. n \in Nat /\ DOMAIN rs = 1..n
    OBVIOUS
  <1>2. ok \in SUBSET (1..n)
    BY <1>1
  <1>3. IsFiniteSet(1..n) /\ Cardinality(1..n) = n
    <2>1. 1 \in Int /\ n \in Int
      BY <1>1
    <2> HIDE DEF n
    <2>2. IsFiniteSet(1..n) /\ Cardinality(1..n) = IF 1 > n THEN 0 ELSE n - 1 + 1
      BY <2>1, FS_Interval
    <2> QED
      BY <1>1, <2>2
  <1>4. n = 0 => ok = {}
    BY <1>1
  <1>5. n = 1 => ok = IF rs[1].ok THEN {1} ELSE {}
    BY <1>1
  <1>6. Succeeded(rs) = Cardinality(ok)
    BY DEF Succeeded
  <1>7. Cardinality({}) = 0 /\ Cardinality({1}) = 1
    BY FS_EmptySet, FS_Singleton
  <1> HIDE DEF ok, n
  <1>8. Cardinality(ok) \in Nat /\ Cardinality(ok) <= n
    BY <1>2, <1>3, FS_Subset, FS_CardinalityType
  <1>9. n - Cardinality(ok) \in Nat
    BY <1>1, <1>8
  <1> QED
    BY <1>4, <1>5, <1>6, <1>7, <1>8, <1>9 DEF n

\* One result more.
LEMMA SucceededAppend ==
    ASSUME NEW rs \in Seq(Result), NEW r \in Result
    PROVE  Succeeded(Append(rs, r)) =
              IF r.ok THEN Succeeded(rs) + 1 ELSE Succeeded(rs)
  <1> DEFINE ok == {i \in DOMAIN rs : rs[i].ok}
             ok2 == {i \in DOMAIN Append(rs, r) : Append(rs, r)[i].ok}
             n == Len(rs)
  <1>1. n \in Nat /\ DOMAIN rs = 1..n /\ DOMAIN Append(rs, r) = 1..(n + 1)
        /\ Append(rs, r)[n + 1] = r
        /\ \A i \in 1..n : Append(rs, r)[i] = rs[i]
    OBVIOUS
  <1> DEFINE q == Append(rs, r)
  <1>2. ok2 = IF r.ok THEN ok \cup {n + 1} ELSE ok
    <2>1. DOMAIN q = 1..(n + 1) /\ q[n + 1] = r /\ \A i \in 1..n : q[i] = rs[i]
      BY <1>1
    <2>2. ok2 = {i \in DOMAIN q : q[i].ok}
      OBVIOUS
    <2>3. 1..(n + 1) = (1..n) \cup {n + 1}
      BY <1>1
    <2> HIDE DEF q, ok2, n
    <2> QED
      BY <1>1, <2>1, <2>2, <2>3
  <1>3. IsFiniteSet(ok)
    <2>1. ok \in SUBSET (1..n)
      BY <1>1
    <2>2. 1 \in Int /\ n \in Int
      BY <1>1
    <2> HIDE DEF ok, n
    <2>3. IsFiniteSet(1..n)
      BY <2>2, FS_Interval
    <2> QED
      BY <2>1, <2>3, FS_Subset
  <1>4. n + 1 \notin ok
    BY <1>1
  <1>5. Succeeded(rs) = Cardinality(ok) /\ Succeeded(Append(rs, r)) = Cardinality(ok2)
    BY DEF Succeeded
  <1> HIDE DEF ok, ok2, n
  <1>6. Cardinality(ok \cup {n + 1}) = Cardinality(ok) + 1
    BY <1>3, <1>4, FS_AddElement
  <1> QED
    BY <1>2, <1>5, <1>6

\* The fields of a response that was not refused.
LEMMA AnswerFacts ==
    ASSUME NEW m \in Messages, NEW rs \in Seq(Result), Admitted(m),
           Len(rs) = Len(callsOf(m))
    PROVE  LET a == answerOf(m, rs)
           IN  /\ a \in Answers /\ a.status \in {"OK", "INTERNAL"}
               /\ m.rpc = "Ping" => a.count = 0
               /\ m.rpc \in Unary => Len(rs) = 1
               /\ m.rpc \in Batches =>
                     /\ a.results = rs /\ a.count = Succeeded(rs)
                     /\ a.rest = Len(rs) - Succeeded(rs)
               /\ m.rpc \in Unary /\ a.status = "OK" => a.results = rs
               /\ m.rpc \in Writers => (a.ok <=> rs[1].ok)
               /\ m.rpc \in {"Get", "Exists"} => (a.ok <=> rs[1].ok)
               /\ m.rpc = "GetTTL" => (a.ok <=> rs[1].n # -2)
               /\ m.rpc = "Delete" => a.count = IF rs[1].ok THEN 1 ELSE 0
  <1> DEFINE a == answerOf(m, rs)
  <1>1. /\ \/ m.rpc \in Unary /\ Len(m.items) = 1
           \/ m.rpc \in Batches
           \/ m.rpc = "Ping" /\ m.items = <<>>
        /\ m.rpc # "MultiSet" => Len(attempted(m)) = Len(m.items)
    BY MessagesAssumption DEF attempted
  <1>2. m.rpc \in Unary => Len(rs) = 1 /\ rs[1] \in Result
    <2>1. Len(callsOf(m)) = Len(attempted(m))
      BY CallsFacts
    <2>2. m.rpc \in Unary => Len(attempted(m)) = 1
      BY <1>1 DEF Unary, Batches
    <2>3. ASSUME Len(rs) = 1 PROVE rs[1] \in Result
      <3>1. 1 \in 1..Len(rs)
        BY <2>3
      <3> QED
        BY <3>1, ElementOfSeq
    <2> QED
      BY <2>1, <2>2, <2>3
  <1>3. Status("OK") \in Answers /\ Status("INTERNAL") \in Answers
    BY DEF Status, Answers
  <1>4. CASE m.rpc = "Ping"
    <2>1. a = [Status("OK") EXCEPT !.ok = TRUE]
      BY <1>4 DEF answerOf, Batches
    <2>2. a = [status |-> "OK", ok |-> TRUE, results |-> <<>>, count |-> 0, rest |-> 0]
      BY <2>1 DEF Status
    <2>3. a.status = "OK" /\ a.count = 0 /\ a \in Answers
      BY <2>2 DEF Answers
    <2> QED
      BY <1>4, <2>3 DEF Unary, Batches, Writers
  <1>5. CASE m.rpc = "Incr" /\ ~rs[1].ok
    <2>1. a = Status("INTERNAL")
      BY <1>5 DEF answerOf, Batches
    <2>2. a.status = "INTERNAL" /\ ~a.ok
      BY <2>1 DEF Status
    <2> QED
      BY <1>2, <1>3, <1>5, <2>1, <2>2 DEF Unary, Batches, Writers
  <1>6. CASE m.rpc \in Batches
    <2>1. a = batchAnswer(m, rs)
      BY <1>6 DEF answerOf, Batches
    <2>2. a.status = "OK" /\ a.results = rs /\ a.count = Succeeded(rs)
          /\ a.rest = Len(rs) - Succeeded(rs)
      BY <2>1 DEF batchAnswer
    <2>3. a \in Answers
      BY <2>1, SucceededType DEF batchAnswer, Answers
    <2> QED
      BY <1>6, <2>2, <2>3 DEF Unary, Batches, Writers
  <1>7. CASE m.rpc \in Unary /\ ~(m.rpc = "Incr" /\ ~rs[1].ok)
    <2> DEFINE good == CASE m.rpc = "GetTTL" -> rs[1].n # -2
                         [] m.rpc \in {"Delete", "Stats"} -> TRUE
                         [] OTHER -> rs[1].ok
               one == IF m.rpc = "Delete" /\ rs[1].ok THEN 1 ELSE 0
    <2>1. a = [Status("OK") EXCEPT !.ok = good, !.results = rs, !.count = one]
      BY <1>7 DEF answerOf, Unary, Batches
    <2>2. good \in BOOLEAN /\ one \in Nat
      BY <1>2, <1>7 DEF Result
    <2>3. /\ m.rpc \in Writers \cup {"Get", "Exists"} => (good <=> rs[1].ok)
          /\ m.rpc = "GetTTL" => (good <=> rs[1].n # -2)
          /\ m.rpc = "Delete" => one = IF rs[1].ok THEN 1 ELSE 0
      BY DEF Writers
    <2> HIDE DEF good, one
    <2>4. a = [status |-> "OK", ok |-> good, results |-> rs, count |-> one, rest |-> 0]
      BY <2>1 DEF Status
    <2>5. a \in Answers /\ a.status = "OK" /\ a.results = rs /\ a.count = one
          /\ (a.ok <=> good)
      BY <2>2, <2>4 DEF Answers
    <2>6. m.rpc \notin Batches /\ m.rpc # "Ping"
      BY <1>7 DEF Unary, Batches
    <2> HIDE DEF a
    <2>7. m.rpc \in Writers => m.rpc \in Writers \cup {"Get", "Exists"}
      OBVIOUS
    <2> QED
      BY <1>2, <1>7, <2>3, <2>5, <2>6, <2>7 DEF a
  <1> QED
    BY <1>1, <1>4, <1>5, <1>6, <1>7

-----------------------------------------------------------------------------
\* The handler has returned without a call.
TurnedAway(t) ==
    answer[t] # NoAnswer /\ answer[t].status \in {"UNAVAILABLE", "INVALID_ARGUMENT"}

ServiceTypes ==
    /\ msg \in [Threads -> Messages \cup {NoMessage}]
    /\ todo \in [Threads -> Seq(Requests)]
    /\ results \in [Threads -> Seq(Result)]
    /\ answer \in [Threads -> Answers \cup {NoAnswer}]

\* What is done and what is to do make up the calls of m.
Divided(m, done, left) ==
    /\ Len(done) + Len(left) = Len(callsOf(m))
    /\ \A i \in 1..Len(left) : left[i] = callsOf(m)[Len(done) + i]

\* Where thread t is with its message.
HandlerOK(t) ==
    /\ msg[t] = NoMessage =>
          /\ todo[t] = <<>> /\ results[t] = <<>> /\ answer[t] = NoAnswer
          /\ pc[t] = "idle"
    /\ answer[t] # NoAnswer =>
          /\ todo[t] = <<>> /\ pc[t] = "idle"
          /\ IF TurnedAway(t)
             THEN results[t] = <<>> /\ answer[t] = Status(answer[t].status)
             ELSE answer[t] = answerOf(msg[t], results[t])
    /\ msg[t] # NoMessage /\ ~TurnedAway(t) =>
          /\ Admitted(msg[t]) /\ Divided(msg[t], results[t], todo[t])
          /\ pc[t] # "idle" => todo[t] # <<>> /\ req[t] = Head(todo[t])

HandlerInv == TypeInv /\ ServiceTypes /\ \A t \in Threads : HandlerOK(t)

\* What every step that is not a call of its own leaves alone.
SameService(t) ==
    /\ msg'[t] = msg[t] /\ todo'[t] = todo[t]
    /\ results'[t] = results[t] /\ answer'[t] = answer[t]

\* What a step may do to thread t.
HandlerStep(t) ==
    \/ SameService(t) /\ SameLocals(t)
    \/ \E m \in Messages : Receive(t, m)
    \/ Issue(t) \/ Within(t) \/ Collect(t) \/ Respond(t) \/ Send(t)

\* The calls a handler makes are requests like any other.
LEMMA IssueInvokes ==
    ASSUME ServiceTypes, NEW t \in Threads, Issue(t)
    PROVE  Invoke(t) /\ Head(todo[t]) \in Requests
  <1>1. todo[t] \in Seq(Requests) /\ todo[t] # <<>>
    BY DEF Issue, ServiceTypes
  <1>2. Head(todo[t]) \in Requests
    BY <1>1
  <1> QED
    BY <1>2 DEF Issue, Invoke

\* Every step of the server with its handlers is one of CacheManager, or none.
LEMMA HandlersCall ==
    ASSUME ServiceTypes, [NextH]_allVars
    PROVE  [Next]_vars
  <1>1. ASSUME NEW t \in Threads, NEW m, Receive(t, m) \/ Respond(t) \/ Send(t)
        PROVE  UNCHANGED vars
    BY <1>1 DEF Receive, Respond, Send
  <1>2. ASSUME NEW t \in Threads, Issue(t) PROVE Next
    BY <1>2, IssueInvokes DEF Next
  <1>3. ASSUME NEW t \in Threads, Within(t) \/ Collect(t) PROVE Next
    BY <1>3 DEF Within, Collect, Next, Step
  <1>4. CASE Initialize \/ ShutdownS \/ (\E k \in Keys : Drop(k)) \/ Tick \/ CatchUp
    BY <1>4 DEF Next, ShutdownS
  <1>5. CASE DoneS \/ UNCHANGED allVars
    BY <1>5 DEF DoneS, allVars
  <1>6. CASE \E t \in Threads : (\E m \in Messages : Receive(t, m)) \/ Serve(t)
    BY <1>1, <1>2, <1>3, <1>6 DEF Serve
  <1> QED
    BY <1>4, <1>5, <1>6 DEF NextH, StepS

\* A step belongs to one thread at most.
LEMMA HandlerSteps ==
    ASSUME TypeInv, ServiceTypes, [NextH]_allVars, NEW t \in Threads
    PROVE  HandlerStep(t)
  <1>0. /\ DOMAIN msg = Threads /\ DOMAIN todo = Threads
        /\ DOMAIN results = Threads /\ DOMAIN answer = Threads
    BY DEF ServiceTypes
  <1>1. ASSUME UNCHANGED serviceVars PROVE SameService(t)
    BY <1>1 DEF serviceVars, SameService
  <1>2. ASSUME UNCHANGED locals PROVE SameLocals(t)
    BY <1>2 DEF locals, SameLocals
  <1>3. CASE /\ \/ Initialize \/ ShutdownS \/ (\E k \in Keys : Drop(k)) \/ Tick
                \/ CatchUp
             /\ UNCHANGED serviceVars
    <2>1. UNCHANGED locals
      BY <1>3 DEF Initialize, ShutdownS, Shutdown, Drop, Tick, CatchUp
    <2> QED
      BY <1>1, <1>2, <1>3, <2>1 DEF HandlerStep
  <1>4. CASE UNCHANGED allVars \/ DoneS
    <2>1. UNCHANGED serviceVars /\ UNCHANGED vars
      BY <1>4 DEF DoneS, allVars
    <2>2. UNCHANGED locals
      BY <2>1 DEF vars
    <2> QED
      BY <1>1, <1>2, <2>1, <2>2 DEF HandlerStep
  <1>5. ASSUME NEW m \in Messages, Receive(t, m) \/ Serve(t) PROVE HandlerStep(t)
    BY <1>5 DEF Serve, HandlerStep
  <1>6. ASSUME NEW u \in Threads, u # t, NEW m \in Messages, Receive(u, m)
        PROVE  HandlerStep(t)
    <2>1. UNCHANGED vars
      BY <1>6 DEF Receive
    <2>2. SameService(t)
      BY <1>0, <1>6 DEF Receive, SameService
    <2> QED
      BY <1>2, <2>1, <2>2 DEF vars, HandlerStep
  <1>7. ASSUME NEW u \in Threads, u # t, Respond(u) \/ Send(u)
        PROVE  HandlerStep(t)
    <2>1. UNCHANGED vars
      BY <1>7 DEF Respond, Send
    <2>2. SameService(t)
      BY <1>0, <1>7 DEF Respond, Send, SameService
    <2> QED
      BY <1>2, <2>1, <2>2 DEF vars, HandlerStep
  <1>8. ASSUME NEW u \in Threads, u # t, Issue(u) \/ Within(u)
        PROVE  HandlerStep(t)
    <2>1. Invoke(u) \/ Step(u)
      BY <1>8, IssueInvokes DEF Within, Step
    <2>2. SameLocals(t)
      BY <1>8, <2>1, OtherLocals
    <2>3. UNCHANGED serviceVars
      BY <1>8 DEF Issue, Within
    <2> QED
      BY <1>1, <2>2, <2>3 DEF HandlerStep
  <1>9. ASSUME NEW u \in Threads, u # t, Collect(u) PROVE HandlerStep(t)
    <2>1. Step(u)
      BY <1>9 DEF Collect, Step
    <2>2. SameLocals(t)
      BY <1>9, <2>1, OtherLocals
    <2>3. SameService(t)
      BY <1>0, <1>9 DEF Collect, SameService
    <2> QED
      BY <2>2, <2>3 DEF HandlerStep
  <1>10. CASE \E u \in Threads : (\E m \in Messages : Receive(u, m)) \/ Serve(u)
    <2>1. PICK u \in Threads : (\E m \in Messages : Receive(u, m)) \/ Serve(u)
      BY <1>10
    <2>2. CASE u = t
      BY <2>1, <2>2 DEF Serve, HandlerStep
    <2>3. CASE u # t
      BY <1>6, <1>7, <1>8, <1>9, <2>1, <2>3 DEF Serve
    <2> QED
      BY <2>2, <2>3
  <1> QED
    BY <1>3, <1>4, <1>10 DEF NextH, StepS

\* The types of what the handlers keep.
LEMMA NextServiceTypes ==
    ASSUME HandlerInv, [NextH]_allVars
    PROVE  ServiceTypes'
  <1>0. /\ msg \in [Threads -> Messages \cup {NoMessage}]
        /\ todo \in [Threads -> Seq(Requests)]
        /\ results \in [Threads -> Seq(Result)]
        /\ answer \in [Threads -> Answers \cup {NoAnswer}]
    BY DEF HandlerInv, ServiceTypes
  <1>1. CASE UNCHANGED serviceVars
    BY <1>0, <1>1 DEF serviceVars, ServiceTypes
  <1>2. ASSUME NEW t \in Threads, NEW m \in Messages, Receive(t, m)
        PROVE  ServiceTypes'
    <2>1. msg' = [msg EXCEPT ![t] = m] /\ results' = results
      BY <1>2 DEF Receive
    <2>2. answer' \in [Threads -> Answers \cup {NoAnswer}]
      <3>1. CASE answer' = answer
        BY <1>0, <3>1
      <3>2. CASE refusal(m) # "none" /\ answer' = [answer EXCEPT ![t] = Status(refusal(m))]
        <4>1. Status(refusal(m)) \in Answers
          BY <3>2 DEF refusal, Status, Answers
        <4> QED
          BY <1>0, <3>2, <4>1
      <3> QED
        BY <1>2, <3>1, <3>2 DEF Receive
    <2>3. todo' \in [Threads -> Seq(Requests)]
      <3>1. CASE refusal(m) # "none"
        BY <1>0, <1>2, <3>1 DEF Receive
      <3>2. CASE refusal(m) = "none"
        <4>1. Admitted(m)
          BY <3>2 DEF refusal, Admitted
        <4>2. todo' = [todo EXCEPT ![t] = callsOf(m)]
          BY <1>2, <3>2 DEF Receive
        <4> QED
          BY <1>0, <4>1, <4>2, CallsFacts
      <3> QED
        BY <3>1, <3>2
    <2> QED
      BY <1>0, <2>1, <2>2, <2>3 DEF ServiceTypes
  <1>3. ASSUME NEW t \in Threads, Collect(t) PROVE ServiceTypes'
    <2>1. /\ results' = [results EXCEPT ![t] = Append(results[t], plan[t].res)]
          /\ todo' = [todo EXCEPT ![t] = Tail(todo[t])]
          /\ msg' = msg /\ answer' = answer /\ pc[t] = "reply"
      BY <1>3 DEF Collect, Return
    <2>2. plan[t].res \in Result
      BY DEF HandlerInv, TypeInv, TypeOK, Decision
    <2>3. todo[t] # <<>>
      <3>1. HandlerOK(t)
        BY DEF HandlerInv
      <3>2. msg[t] # NoMessage /\ answer[t] = NoAnswer
        BY <2>1, <3>1 DEF HandlerOK
      <3> QED
        BY <2>1, <3>1, <3>2 DEF HandlerOK, TurnedAway
    <2>4. Append(results[t], plan[t].res) \in Seq(Result)
      BY <1>0, <2>2
    <2>5. Tail(todo[t]) \in Seq(Requests)
      BY <1>0, <2>3
    <2> QED
      BY <1>0, <2>1, <2>4, <2>5 DEF ServiceTypes
  <1>4. ASSUME NEW t \in Threads, Respond(t) PROVE ServiceTypes'
    <2>1. /\ msg[t] \in Messages /\ answer[t] = NoAnswer /\ todo[t] = <<>>
          /\ answer' = [answer EXCEPT ![t] = answerOf(msg[t], results[t])]
          /\ msg' = msg /\ todo' = todo /\ results' = results
      BY <1>0, <1>4 DEF Respond
    <2>2. Admitted(msg[t]) /\ Len(results[t]) + Len(<<>>) = Len(callsOf(msg[t]))
      BY <1>4, <2>1 DEF HandlerInv, HandlerOK, TurnedAway, Divided, Respond
    <2>3. Len(results[t]) = Len(callsOf(msg[t]))
      BY <1>0, <2>2
    <2>4. answerOf(msg[t], results[t]) \in Answers
      BY <1>0, <2>1, <2>2, <2>3, AnswerFacts
    <2> QED
      BY <1>0, <2>1, <2>4 DEF ServiceTypes
  <1>5. ASSUME NEW t \in Threads, Send(t) PROVE ServiceTypes'
    <2>1. <<>> \in Seq(Result)
      OBVIOUS
    <2> QED
      BY <1>0, <1>5, <2>1 DEF Send, ServiceTypes
  <1>6. ASSUME NEW t \in Threads, Issue(t) \/ Within(t) PROVE UNCHANGED serviceVars
    BY <1>6 DEF Issue, Within
  <1> QED
    BY <1>1, <1>2, <1>3, <1>4, <1>5, <1>6 DEF NextH, StepS, Serve, DoneS, allVars

\* Every step keeps what a handler has done and what it has to do.
LEMMA NextHandlerOK ==
    ASSUME HandlerInv, [NextH]_allVars, NEW t \in Threads
    PROVE  HandlerOK(t)'
  <1>0. /\ msg[t] \in Messages \cup {NoMessage} /\ todo[t] \in Seq(Requests)
        /\ results[t] \in Seq(Result) /\ answer[t] \in Answers \cup {NoAnswer}
        /\ TypeInv /\ ServiceTypes /\ HandlerOK(t) /\ NoMessage \notin Messages
        /\ NoAnswer \notin Answers
    BY ServiceAssumption DEF HandlerInv, ServiceTypes
  <1>d. /\ DOMAIN msg = Threads /\ DOMAIN todo = Threads /\ DOMAIN pc = Threads
        /\ DOMAIN results = Threads /\ DOMAIN answer = Threads
        /\ DOMAIN req = Threads
    BY <1>0 DEF ServiceTypes, TypeInv, TypeOK
  <1>1. CASE SameService(t) /\ SameLocals(t)
    BY <1>0, <1>1 DEF HandlerOK, TurnedAway, SameService, SameLocals
  <1>2. ASSUME NEW m \in Messages, Receive(t, m) PROVE HandlerOK(t)'
    <2>1. /\ msg[t] = NoMessage /\ msg'[t] = m /\ results'[t] = results[t]
          /\ pc' = pc
      BY <1>2, <1>d DEF Receive, vars, locals
    <2>2. /\ todo[t] = <<>> /\ results[t] = <<>> /\ answer[t] = NoAnswer
          /\ pc[t] = "idle"
      BY <1>0, <2>1 DEF HandlerOK
    <2>3. CASE refusal(m) # "none"
      <3>1. todo'[t] = todo[t] /\ answer'[t] = Status(refusal(m))
        BY <1>2, <1>d, <2>3 DEF Receive
      <3>2. /\ Status(refusal(m)).status = refusal(m)
            /\ refusal(m) \in {"UNAVAILABLE", "INVALID_ARGUMENT"}
            /\ Status(refusal(m)) \in Answers
        BY <2>3 DEF refusal, Status, Answers
      <3>3. answer'[t] # NoAnswer
        BY <1>0, <3>1, <3>2
      <3> QED
        BY <1>0, <2>1, <2>2, <3>1, <3>2, <3>3 DEF HandlerOK, TurnedAway
    <2>4. CASE refusal(m) = "none"
      <3>1. todo'[t] = callsOf(m) /\ answer'[t] = NoAnswer
        BY <1>2, <1>d, <2>2, <2>4 DEF Receive
      <3>2. Admitted(m)
        BY <2>4 DEF refusal, Admitted
      <3>3. callsOf(m) \in Seq(Requests)
        BY <3>2, CallsFacts
      <3>4. Divided(m, <<>>, callsOf(m))
        BY <3>3 DEF Divided
      <3> QED
        BY <1>0, <2>1, <2>2, <3>1, <3>2, <3>4 DEF HandlerOK, TurnedAway
    <2> QED
      BY <2>3, <2>4
  <1>3. CASE Issue(t)
    <2>1. todo[t] # <<>> /\ UNCHANGED serviceVars /\ pc[t] = "idle"
      BY <1>3 DEF Issue, Call, CallRefused, Begin
    <2>2. req'[t] = Head(todo[t])
      BY <1>3, <1>d DEF Issue, Call, CallRefused, Begin
    <2>3. msg[t] # NoMessage /\ answer[t] = NoAnswer
      BY <1>0, <2>1 DEF HandlerOK
    <2> QED
      BY <1>0, <2>1, <2>2, <2>3 DEF HandlerOK, TurnedAway, serviceVars
  <1>4. CASE Within(t)
    <2>1. UNCHANGED serviceVars /\ pc[t] # "idle" /\ req'[t] = req[t]
      BY <1>4
      DEF Within, Lock, Find, Decide, CopyThrows, Remove, Allocate, AllocateFails, Link, Load
    <2>2. msg[t] # NoMessage /\ answer[t] = NoAnswer
      BY <1>0, <2>1 DEF HandlerOK
    <2> QED
      BY <1>0, <2>1, <2>2 DEF HandlerOK, TurnedAway, serviceVars
  <1>5. CASE Collect(t)
    <2>1. /\ pc[t] = "reply" /\ pc'[t] = "idle" /\ msg' = msg /\ answer' = answer
          /\ results'[t] = Append(results[t], plan[t].res)
          /\ todo'[t] = Tail(todo[t])
      BY <1>5, <1>d DEF Collect, Return, Goto
    <2>2. msg[t] # NoMessage /\ answer[t] = NoAnswer
      BY <1>0, <2>1 DEF HandlerOK
    <2>3. Admitted(msg[t]) /\ Divided(msg[t], results[t], todo[t]) /\ todo[t] # <<>>
      BY <1>0, <2>1, <2>2 DEF HandlerOK, TurnedAway
    <2>4. Divided(msg[t], Append(results[t], plan[t].res), Tail(todo[t]))
      <3> DEFINE d == results[t]  l == todo[t]  r == plan[t].res  cs == callsOf(msg[t])
      <3>1. /\ d \in Seq(Result) /\ l \in Seq(Requests) /\ l # <<>>
            /\ Len(d) + Len(l) = Len(cs)
            /\ \A i \in 1..Len(l) : l[i] = cs[Len(d) + i]
        BY <1>0, <2>3 DEF Divided
      <3>2. r \in Result
        BY <1>0 DEF TypeInv, TypeOK, Decision
      <3> HIDE DEF d, l, r, cs
      <3>3. Len(Append(d, r)) = Len(d) + 1 /\ Len(Tail(l)) = Len(l) - 1
            /\ Len(d) \in Nat /\ Len(l) \in Nat
            /\ \A i \in 1..(Len(l) - 1) : Tail(l)[i] = l[i + 1] /\ i + 1 \in 1..Len(l)
        BY <3>1, <3>2
      <3>4. Len(Append(d, r)) + Len(Tail(l)) = Len(cs)
        BY <3>1, <3>3
      <3>5. ASSUME NEW i \in 1..Len(Tail(l)) PROVE Tail(l)[i] = cs[Len(Append(d, r)) + i]
        <4>1. i \in 1..(Len(l) - 1) /\ i \in Nat
          BY <3>3
        <4>2. Tail(l)[i] = cs[Len(d) + (i + 1)]
          BY <3>1, <3>3, <4>1
        <4>3. Len(d) + (i + 1) = Len(Append(d, r)) + i
          BY <3>3, <4>1
        <4> QED
          BY <4>2, <4>3
      <3> QED
        BY <3>4, <3>5 DEF Divided, d, l, r, cs
    <2> QED
      BY <1>0, <2>1, <2>2, <2>3, <2>4 DEF HandlerOK, TurnedAway
  <1>6. CASE Respond(t)
    <2>1. /\ msg[t] \in Messages /\ answer[t] = NoAnswer /\ todo[t] = <<>>
          /\ answer'[t] = answerOf(msg[t], results[t])
          /\ msg' = msg /\ todo' = todo /\ results' = results /\ UNCHANGED vars
      BY <1>0, <1>6, <1>d DEF Respond
    <2>2. /\ Admitted(msg[t]) /\ Divided(msg[t], results[t], todo[t])
          /\ pc[t] = "idle"
      BY <1>0, <2>1 DEF HandlerOK, TurnedAway
    <2>3. Len(results[t]) = Len(callsOf(msg[t]))
      BY <1>0, <2>1, <2>2 DEF Divided
    <2>4. /\ answerOf(msg[t], results[t]) \in Answers
          /\ answerOf(msg[t], results[t]).status \in {"OK", "INTERNAL"}
      BY <1>0, <2>1, <2>2, <2>3, AnswerFacts
    <2>5. answer'[t] # NoAnswer /\ ~TurnedAway(t)'
      BY <1>0, <2>1, <2>4 DEF TurnedAway
    <2>6. pc' = pc
      BY <2>1 DEF vars, locals
    <2> QED
      BY <1>0, <2>1, <2>2, <2>5, <2>6 DEF HandlerOK
  <1>7. CASE Send(t)
    <2>1. /\ answer[t] # NoAnswer /\ answer'[t] = NoAnswer /\ msg'[t] = NoMessage
          /\ results'[t] = <<>> /\ todo' = todo /\ UNCHANGED vars
      BY <1>7, <1>d DEF Send
    <2>2. pc' = pc
      BY <2>1 DEF vars, locals
    <2>3. todo[t] = <<>> /\ pc[t] = "idle"
      BY <1>0, <2>1 DEF HandlerOK
    <2> QED
      BY <2>1, <2>2, <2>3 DEF HandlerOK
  <1> QED
    BY <1>0, <1>1, <1>2, <1>3, <1>4, <1>5, <1>6, <1>7, HandlerSteps DEF HandlerStep

\* The handlers and CacheManager below them, throughout.
LEMMA HandlerInvariance == SpecS => []HandlerInv
  <1>1. InitH => HandlerInv
    <2> SUFFICES ASSUME InitH PROVE HandlerInv
      OBVIOUS
    <2>1. Init /\ InitS
      BY DEF InitH, InitS
    <2>2. TypeInv
      BY <2>1, InitTypeInv
    <2>3. ServiceTypes
      BY <2>1 DEF InitS, ServiceTypes
    <2>4. \A t \in Threads : HandlerOK(t)
      BY <2>1 DEF InitS, Init, HandlerOK
    <2> QED
      BY <2>2, <2>3, <2>4 DEF HandlerInv
  <1>2. HandlerInv /\ [NextH]_allVars => HandlerInv'
    <2> SUFFICES ASSUME HandlerInv, [NextH]_allVars PROVE HandlerInv'
      OBVIOUS
    <2>1. TypeInv'
      BY HandlersCall, NextTypeInv DEF HandlerInv
    <2>2. ServiceTypes'
      BY NextServiceTypes
    <2>3. \A t \in Threads : HandlerOK(t)'
      BY NextHandlerOK
    <2> QED
      BY <2>1, <2>2, <2>3 DEF HandlerInv
  <1> QED
    BY <1>1, <1>2, PTL DEF SpecS

\* The server with its unary and batch handlers (CacheServiceImpl.cc:33-501)
\* uses CacheManager as any caller does: each of its behaviours is one of
\* CacheManager, so that everything proved of CacheManager holds of it.
THEOREM HandlersAreCallers == SpecS => Spec
  <1>1. InitH => Init
    BY DEF InitH, InitS
  <1>2. HandlerInv /\ [NextH]_allVars => [Next]_vars
    BY HandlersCall DEF HandlerInv
  <1> QED
    BY <1>1, <1>2, HandlerInvariance, PTL DEF SpecS, Spec

-----------------------------------------------------------------------------
\* The fields of a result that is filled in (CacheManager.h).
LEMMA ResultFields ==
    ASSUME NEW v, NEW n, NEW w
    PROVE  /\ ~NoResult.ok
           /\ [NoResult EXCEPT !.ok = TRUE].ok
           /\ [NoResult EXCEPT !.ok = TRUE, !.val = v].ok
           /\ [NoResult EXCEPT !.ok = TRUE, !.val = v, !.n = n].ok
           /\ [NoResult EXCEPT !.ok = TRUE, !.val = v, !.n = n].val = v
           /\ ~[NoResult EXCEPT !.val = v].ok
           /\ [NoResult EXCEPT !.n = n].n = n
           /\ ~Refused(w).ok
  BY DEF NoResult, Refused

\* A decision to reply as things are.
LEMMA ReplyFields ==
    ASSUME NEW d, NEW x, d = Reply(x)
    PROVE  ~d.write /\ d.res = x
  BY DEF Reply

\* A decision to store.
LEMMA StoreFields ==
    ASSUME NEW d, NEW x, NEW y, NEW z, d = StoreThen(x, y, z)
    PROVE  d.write /\ d.draft = x /\ d.res = y /\ d.fail = z
  BY DEF StoreThen

\* What the decisions say: of the readers what they found, of the others that
\* success means a store.
LEMMA DecideShape ==
    ASSUME NEW r, NEW h \in ItemOrNone, NEW now \in Int, r.op \in FindOps
    PROVE  LET d == decide(r, h, now)
           IN  /\ d.write => d.res.ok /\ ~d.fail.ok
               /\ ~d.write /\ r.op \in LockedOps => ~d.res.ok
               /\ d.write => r.op \in LockedOps
               /\ d.write /\ r.op = "setNX" =>
                     d.draft = [val |-> r.val, ttl |-> r.ttl, created |-> 0]
               /\ r.op = "get" =>
                     (d.res.ok <=> h # NoItem) /\ (h # NoItem => d.res.val = h.val)
               /\ r.op = "exists" => (d.res.ok <=> h # NoItem)
               /\ r.op = "getTTL" => (d.res.n # -2 <=> h # NoItem)
  <1> DEFINE d == decide(r, h, now)
             Writes == (d.write => d.res.ok /\ ~d.fail.ok) /\ (~d.write => ~d.res.ok)
             NX == [val |-> r.val, ttl |-> r.ttl, created |-> 0]
  <1>0. /\ "get" \notin LockedOps /\ "exists" \notin LockedOps
        /\ "getTTL" \notin LockedOps
    BY DEF LockedOps, AddOps
  <1>1. CASE r.op = "get"
    <2>1. d = get(r, h, now)
      BY <1>1 DEF decide, AddOps
    <2> DEFINE n == remainingTtl(h, now)
    <2>2. d = Reply(IF h = NoItem THEN NoResult
                    ELSE [NoResult EXCEPT !.ok = TRUE, !.val = h.val, !.n = n])
      BY <2>1 DEF get
    <2> HIDE DEF n, d
    <2>3. /\ ~d.write
          /\ (d.res.ok <=> h # NoItem) /\ (h # NoItem => d.res.val = h.val)
      <3>1. CASE h = NoItem
        <4>1. d = Reply(NoResult)
          BY <2>2, <3>1, Zenon
        <4>2. ~d.write /\ d.res = NoResult
          BY <4>1, ReplyFields
        <4>3. ~NoResult.ok
          BY DEF NoResult
        <4> QED
          BY <3>1, <4>2, <4>3, Zenon
      <3>2. CASE h # NoItem
        <4> DEFINE x == [NoResult EXCEPT !.ok = TRUE, !.val = h.val, !.n = n]
        <4>1. d = Reply(x)
          BY <2>2, <3>2, Zenon
        <4>2. x.ok /\ x.val = h.val
          BY ResultFields, Zenon
        <4> HIDE DEF x
        <4>3. ~d.write /\ d.res = x
          BY <4>1, ReplyFields
        <4> QED
          BY <3>2, <4>2, <4>3, Zenon
      <3> QED
        BY <3>1, <3>2, Zenon
    <2> QED
      BY <1>0, <1>1, <2>3 DEF d
  <1>2. CASE r.op = "exists"
    <2>1. d = exists(r, h, now)
      BY <1>2 DEF decide, AddOps
    <2> DEFINE x == [NoResult EXCEPT !.ok = h # NoItem]
    <2>2. d = Reply(x)
      BY <2>1 DEF exists
    <2>3. x.ok <=> h # NoItem
      BY Zenon DEF NoResult
    <2> HIDE DEF x, d
    <2>4. ~d.write /\ d.res = x
      BY <2>2, ReplyFields
    <2>5. ~d.write /\ (d.res.ok <=> h # NoItem)
      BY <2>3, <2>4, Zenon
    <2> QED
      BY <1>0, <1>2, <2>5 DEF d
  <1>3. CASE r.op = "getTTL"
    <2>1. d = getTTL(r, h, now)
      BY <1>3 DEF decide, AddOps
    <2> DEFINE n == IF h = NoItem THEN -2 ELSE remainingTtl(h, now)
    <2>2. n # -2 <=> h # NoItem
      BY DEF remainingTtl, ItemOrNone, Item, U32
    <2> DEFINE x == [NoResult EXCEPT !.n = n]
    <2>3. d = Reply(x)
      BY <2>1 DEF getTTL
    <2>x. x.n = n
      BY ResultFields, Zenon
    <2> HIDE DEF n, d, x
    <2>y. ~d.write /\ d.res = x
      BY <2>3, ReplyFields
    <2>4. ~d.write /\ d.res.n = n
      BY <2>x, <2>y, Zenon
    <2> QED
      BY <1>0, <1>3, <2>2, <2>4 DEF d
  <1>4. CASE r.op = "setNX"
    <2>1. d = setNX(r, h, now)
      BY <1>4 DEF decide, AddOps
    <2>2. d = IF h # NoItem THEN Reply([NoResult EXCEPT !.val = h.val])
              ELSE StoreThen(NX, [NoResult EXCEPT !.ok = TRUE], NoResult)
      BY <2>1 DEF setNX
    <2> HIDE DEF d, NX
    <2>3. Writes /\ (d.write => d.draft = NX)
      <3>1. CASE h # NoItem
        <4> DEFINE x == [NoResult EXCEPT !.val = h.val]
        <4>1. d = Reply(x)
          BY <2>2, <3>1, Zenon
        <4>2. ~x.ok
          BY ResultFields, Zenon
        <4> HIDE DEF x
        <4>3. ~d.write /\ d.res = x
          BY <4>1, ReplyFields
        <4> QED
          BY <4>2, <4>3, Zenon
      <3>2. CASE h = NoItem
        <4> DEFINE y == [NoResult EXCEPT !.ok = TRUE]
        <4>1. d = StoreThen(NX, y, NoResult)
          BY <2>2, <3>2, Zenon
        <4>2. y.ok /\ ~NoResult.ok
          BY ResultFields, Zenon
        <4> HIDE DEF y
        <4>3. d.write /\ d.draft = NX /\ d.res = y /\ d.fail = NoResult
          BY <4>1, StoreFields
        <4> QED
          BY <4>2, <4>3, Zenon
      <3> QED
        BY <3>1, <3>2, Zenon
    <2> HIDE DEF Writes
    <2>4. "setNX" \in LockedOps
      BY DEF LockedOps
    <2> QED
      BY <1>4, <2>3, <2>4 DEF d, NX, Writes
  <1>5. ASSUME NEW base, NEW due, NEW ttlSet
        PROVE  LET e == addAndStore(base, r, due, ttlSet)
               IN  (e.write => e.res.ok /\ ~e.fail.ok) /\ (~e.write => ~e.res.ok)
    BY DEF addAndStore, Reply, StoreThen, NoResult, Refused
  <1>6. ~Reply(Refused("Not a valid integer")).write
        /\ ~Reply(Refused("Not a valid integer")).res.ok
    BY DEF Reply, Refused, NoResult
  <1>7. CASE r.op \in AddOps
    <2>1. d = atomicAddValue(r, h, now)
      BY <1>7 DEF decide, AddOps
    <2>2. Writes
      BY <1>5, <1>6, <2>1 DEF atomicAddValue
    <2> QED
      BY <1>7, <2>2 DEF AddOps, LockedOps
  <1>8. CASE r.op = "incr"
    <2>1. d = incr(r, h, now)
      BY <1>8 DEF decide, AddOps
    <2>2. Writes
      BY <1>5, <1>6, <2>1 DEF incr
    <2> QED
      BY <1>8, <2>2 DEF LockedOps
  <1>9. CASE r.op = "compareAndSwap"
    <2>1. d = compareAndSwap(r, h, now)
      BY <1>9 DEF decide, AddOps
    <2> DEFINE y == [NoResult EXCEPT !.ok = TRUE, !.val = r.val]
               z == [NoResult EXCEPT !.val = h.val]
    <2>2. d = Reply(NoResult) \/ d = Reply(z) \/ \E x : d = StoreThen(x, y, z)
      BY <2>1 DEF compareAndSwap
    <2>3. y.ok /\ ~z.ok
      BY ResultFields, Zenon
    <2> HIDE DEF d, y, z
    <2>n. ~NoResult.ok
      BY DEF NoResult
    <2>r. ASSUME NEW x, d = Reply(x), ~x.ok PROVE Writes
      <3>1. ~d.write /\ d.res = x
        BY <2>r, ReplyFields
      <3> QED
        BY <2>r, <3>1, Zenon
    <2>s. ASSUME NEW x, d = StoreThen(x, y, z) PROVE Writes
      <3>1. d.write /\ d.res = y /\ d.fail = z
        BY <2>s, StoreFields
      <3> QED
        BY <2>3, <3>1, Zenon
    <2> HIDE DEF Writes
    <2>4. Writes
      BY <2>2, <2>3, <2>n, <2>r, <2>s, Zenon
    <2> QED
      BY <1>9, <2>4 DEF LockedOps, d, Writes
  <1>10. CASE r.op = "touch"
    <2>1. d = touch(r, h, now)
      BY <1>10 DEF decide, AddOps
    <2> DEFINE y == [NoResult EXCEPT !.ok = TRUE]
               w == Refused("Key not found")
               z == Refused("Failed to store")
    <2>2. d = Reply(w) \/ \E x : d = StoreThen(x, y, z)
      BY <2>1 DEF touch
    <2>3. y.ok /\ ~w.ok /\ ~z.ok
      BY ResultFields, Zenon
    <2> HIDE DEF d, y, w, z
    <2>r. ASSUME d = Reply(w) PROVE Writes
      <3>1. ~d.write /\ d.res = w
        BY <2>r, ReplyFields
      <3> QED
        BY <2>3, <3>1, Zenon
    <2>s. ASSUME NEW x, d = StoreThen(x, y, z) PROVE Writes
      <3>1. d.write /\ d.res = y /\ d.fail = z
        BY <2>s, StoreFields
      <3> QED
        BY <2>3, <3>1, Zenon
    <2> HIDE DEF Writes
    <2>4. Writes
      BY <2>2, <2>r, <2>s, Zenon
    <2> QED
      BY <1>10, <2>4 DEF LockedOps, d, Writes
  <1> QED
    BY <1>1, <1>2, <1>3, <1>4, <1>7, <1>8, <1>9, <1>10 DEF FindOps, LockedOps

\* What a thread carries on its way to a store.
PlanOK(t) ==
    /\ pc[t] = "load" => req[t].op = "getStats"
    /\ pc[t] \in {"allocate", "link"} => plan[t].res.ok /\ ~plan[t].fail.ok
    /\ pc[t] = "allocate" /\ req[t].op \in {"set", "setNX"} =>
          plan[t].draft = [val |-> req[t].val, ttl |-> req[t].ttl, created |-> 0]
    /\ pc[t] = "link" /\ req[t].op \in {"set", "setNX"} =>
          /\ item[t].val = req[t].val
          /\ item[t].expiry = IF req[t].ttl = 0 THEN 0
                              ELSE AddU32(item[t].created, req[t].ttl)

\* Every step keeps it.
LEMMA NextPlanOK ==
    ASSUME TypeInv, [Next]_vars, NEW t \in Threads, PlanOK(t)
    PROVE  PlanOK(t)'
  <1>0. /\ DOMAIN pc = Threads /\ DOMAIN req = Threads /\ DOMAIN handle = Threads
        /\ DOMAIN plan = Threads /\ DOMAIN item = Threads
        /\ handle[t] \in ItemOrNone /\ sysNow \in Int /\ LocalsOK
    BY DEF TypeInv, TypeOK
  <1>1. ASSUME SameLocals(t) PROVE PlanOK(t)'
    BY <1>1 DEF SameLocals, PlanOK
  <1>2. CASE \/ Initialize \/ Shutdown \/ (\E k \in Keys : Drop(k)) \/ Tick
             \/ CatchUp \/ Done \/ UNCHANGED vars
    <2>1. UNCHANGED locals
      BY <1>2 DEF Initialize, Shutdown, Drop, Tick, CatchUp, Done, vars
    <2>2. SameLocals(t)
      BY <2>1 DEF locals, SameLocals
    <2> QED
      BY <1>1, <2>2
  <1>3. ASSUME NEW u \in Threads, u # t, Invoke(u) \/ Step(u) PROVE PlanOK(t)'
    BY <1>1, <1>3, OtherLocals
  <1>4. ASSUME NEW r \in Requests, Call(t, r) PROVE PlanOK(t)'
    <2>1. /\ req'[t] = r /\ pc'[t] = entry(r)
          /\ plan'[t] = IF r.op = "set" THEN set(r) ELSE plan[t]
      BY <1>0, <1>4 DEF Call, Begin, Goto, Conclude
    <2>2. /\ entry(r) # "link"
          /\ entry(r) = "load" => r.op = "getStats"
          /\ entry(r) = "allocate" => r.op = "set"
      BY DEF entry
    <2>3. /\ set(r).res.ok /\ ~set(r).fail.ok
          /\ set(r).draft = [val |-> r.val, ttl |-> r.ttl, created |-> 0]
      BY DEF set, StoreThen, NoResult
    <2> QED
      BY <2>1, <2>2, <2>3 DEF PlanOK
  <1>5. ASSUME NEW r, CallUnready(t, r) \/ CallRefused(t, r) PROVE PlanOK(t)'
    <2>1. pc'[t] = "reply"
      BY <1>0, <1>5 DEF CallUnready, CallRefused, Goto
    <2> QED
      BY <2>1 DEF PlanOK
  <1>6. CASE Decide(t)
    <2> DEFINE d == decide(req[t], handle[t], sysNow)
    <2>1. /\ pc[t] = "decide" /\ plan'[t] = d /\ req' = req
          /\ pc'[t] = IF d.write THEN "allocate" ELSE "reply"
      BY <1>0, <1>6 DEF Decide, Goto, Conclude
    <2>2. req[t].op \in FindOps
      BY <1>0, <2>1 DEF LocalsOK
    <2>3. /\ d.write => d.res.ok /\ ~d.fail.ok
          /\ d.write /\ req[t].op = "setNX" =>
                d.draft = [val |-> req[t].val, ttl |-> req[t].ttl, created |-> 0]
      BY <1>0, <2>2, DecideShape
    <2>4. req[t].op # "set"
      BY <2>2 DEF FindOps, LockedOps, AddOps
    <2> HIDE DEF d
    <2> QED
      BY <2>1, <2>3, <2>4 DEF PlanOK
  <1>7. CASE Allocate(t)
    <2>1. /\ pc[t] = "allocate" /\ pc'[t] = "link" /\ plan' = plan /\ req' = req
          /\ item'[t] = allocate(plan[t].draft.val, plan[t].draft.ttl,
                                 plan[t].draft.created, libNow)
      BY <1>0, <1>7 DEF Allocate, Goto
    <2>2. ASSUME req[t].op \in {"set", "setNX"}
          PROVE  /\ item'[t].val = req[t].val
                 /\ item'[t].expiry = IF req[t].ttl = 0 THEN 0
                                      ELSE AddU32(item'[t].created, req[t].ttl)
      BY <2>1, <2>2 DEF PlanOK, allocate
    <2> QED
      BY <2>1, <2>2 DEF PlanOK
  <1>8. CASE \/ Lock(t) \/ Find(t) \/ CopyThrows(t) \/ Remove(t)
             \/ AllocateFails(t) \/ Link(t) \/ Return(t)
    <2>1. pc'[t] \in {"find", "decide", "reply", "idle"}
      BY <1>0, <1>8
      DEF Lock, Find, CopyThrows, Remove, AllocateFails, Link, Return, Goto
    <2> QED
      BY <2>1 DEF PlanOK
  <1>9. CASE Load(t)
    <2>1. pc[t] = "load" /\ pc'[t] \in {"load", "reply"} /\ req' = req
      BY <1>0, <1>9 DEF Load, Goto
    <2> QED
      BY <2>1 DEF PlanOK
  <1> QED
    BY <1>2, <1>3, <1>4, <1>5, <1>6, <1>7, <1>8, <1>9 DEF Next, Invoke, Step

-----------------------------------------------------------------------------
\* The call a handler is in is about the item after the ones it has results of.
LEMMA CurrentCall ==
    ASSUME HandlerInv, NEW t \in Threads, pc[t] # "idle"
    PROVE  /\ msg[t] \in Messages /\ answer[t] = NoAnswer /\ Admitted(msg[t])
           /\ Len(results[t]) + 1 \in 1..Len(attempted(msg[t]))
           /\ attempted(msg[t])[Len(results[t]) + 1] \in MessageItem
           /\ req[t] = requestOf(msg[t].rpc, attempted(msg[t])[Len(results[t]) + 1])
           /\ req[t].op = opOf(msg[t].rpc)
           /\ req[t].key = attempted(msg[t])[Len(results[t]) + 1].key
           /\ req[t].key \in Keys
  <1> DEFINE d == results[t]  l == todo[t]  cs == callsOf(msg[t])
             items == attempted(msg[t])  rpc == msg[t].rpc
  <1>1. HandlerOK(t) /\ TypeInv /\ ServiceTypes
    BY DEF HandlerInv
  <1>2. msg[t] \in Messages /\ answer[t] = NoAnswer
    BY <1>1 DEF HandlerOK, ServiceTypes
  <1>3. Admitted(msg[t]) /\ Divided(msg[t], d, l) /\ l # <<>> /\ req[t] = Head(l)
    BY <1>1, <1>2, ServiceAssumption DEF HandlerOK, TurnedAway
  <1>4. /\ Len(cs) = Len(items)
        /\ \A n \in 1..Len(cs) : items[n] \in MessageItem /\ cs[n] = requestOf(rpc, items[n])
    BY <1>2, <1>3, CallsFacts
  <1>5. d \in Seq(Result) /\ l \in Seq(Requests)
    BY <1>1 DEF ServiceTypes
  <1>6. Len(d) + Len(l) = Len(cs) /\ \A i \in 1..Len(l) : l[i] = cs[Len(d) + i]
    BY <1>3 DEF Divided
  <1>7. req[t].key \in Keys
    BY <1>1, RequestsAssumption DEF TypeInv, LocalsOK, RequestsOn
  <1> HIDE DEF d, l, cs, items, rpc
  <1>8. Len(d) \in Nat /\ Len(l) \in Nat /\ Len(l) # 0 /\ Head(l) = l[1] /\ 1 \in 1..Len(l)
    BY <1>3, <1>5
  <1>9. Len(d) + 1 \in 1..Len(cs) /\ req[t] = cs[Len(d) + 1]
    BY <1>3, <1>6, <1>8
  <1>10. req[t] = requestOf(rpc, items[Len(d) + 1]) /\ items[Len(d) + 1] \in MessageItem
         /\ Len(d) + 1 \in 1..Len(items)
    BY <1>4, <1>9
  <1>11. req[t].op = opOf(rpc) /\ req[t].key = items[Len(d) + 1].key
    BY <1>10 DEF requestOf
  <1> QED
    BY <1>2, <1>3, <1>7, <1>10, <1>11 DEF d, items, rpc

-----------------------------------------------------------------------------
\* What a reader saw: the value, or nothing.
Seen(h) == IF h = NoItem THEN NoItem ELSE h.val

\* What a reader may return when its key held one of was.
TrueOf(op, r, was) ==
    /\ op = "get" => IF ~r.ok THEN NoItem \in was
                     ELSE \/ r.val \in was
                          \/ r.val = EmptyText /\ \E v \in was : v # NoItem
    /\ op = "exists" => IF r.ok THEN \E v \in was : v # NoItem ELSE NoItem \in was
    /\ op = "getTTL" => IF r.n # -2 THEN \E v \in was : v # NoItem ELSE NoItem \in was

\* The readers.
Readers == {"get", "exists", "getTTL"}

\* Where a reader is, and where its earlier results come from.
TruthOK(t) ==
    msg[t] # NoMessage /\ ~TurnedAway(t) =>
        /\ answer[t] = NoAnswer => \A k \in Keys : Lookup(k) \in held[t][k]
        /\ \A j \in 1..Len(results[t]) :
              TrueOf(opOf(msg[t].rpc), results[t][j],
                     held[t][attempted(msg[t])[j].key])
        /\ pc[t] = "decide" => Seen(handle[t]) \in held[t][req[t].key]
        /\ pc[t] = "reply" => TrueOf(req[t].op, plan[t].res, held[t][req[t].key])

\* A longer history makes nothing false.
LEMMA TrueOfMore ==
    ASSUME NEW op, NEW r, NEW was, NEW more, was \subseteq more, TrueOf(op, r, was)
    PROVE  TrueOf(op, r, more)
  BY DEF TrueOf

\* A decision of a reader tells what it saw.
LEMMA ReadersTellTruth ==
    ASSUME NEW r, NEW h \in ItemOrNone, NEW now \in Int, r.op \in FindOps,
           NEW was, Seen(h) \in was
    PROVE  TrueOf(r.op, decide(r, h, now).res, was)
  <1> DEFINE d == decide(r, h, now)
  <1>1. /\ r.op = "get" =>
              (d.res.ok <=> h # NoItem) /\ (h # NoItem => d.res.val = h.val)
        /\ r.op = "exists" => (d.res.ok <=> h # NoItem)
        /\ r.op = "getTTL" => (d.res.n # -2 <=> h # NoItem)
    BY DecideShape
  <1>2. h # NoItem => Seen(h) = h.val /\ h.val # NoItem
    BY ServiceAssumption DEF Seen, ItemOrNone, Item
  <1>3. h = NoItem => Seen(h) = NoItem
    BY DEF Seen
  <1> HIDE DEF d
  <1> QED
    BY <1>1, <1>2, <1>3 DEF TrueOf, d

\* The history of a handler under way grows, up to its answer by what every
\* key holds after the step.
LEMMA HeldGrows ==
    ASSUME NextH, NEW t \in Threads, msg'[t] # NoMessage
    PROVE  \A k \in Keys :
              /\ held[t][k] \subseteq held'[t][k]
              /\ answer[t] = NoAnswer => Lookup(k)' \in held'[t][k]
  <1>1. held'[t] = IF msg'[t] = NoMessage THEN [k \in Keys |-> {}]
                   ELSE IF answer[t] # NoAnswer THEN held[t]
                   ELSE [k \in Keys |-> held[t][k] \cup {Lookup(k)'}]
    BY DEF NextH
  <1> QED
    BY <1>1

\* Only the keys of the items asked for are looked at.
LEMMA AttemptedKeys ==
    ASSUME NEW m \in Messages, Admitted(m), NEW n \in 1..Len(attempted(m))
    PROVE  attempted(m)[n].key \in Keys
  <1>1. attempted(m)[n] \in MessageItem
    BY CallsFacts
  <1> QED
    BY <1>1 DEF MessageItem

\* There is an item for every result.
LEMMA ResultsFit ==
    ASSUME HandlerInv, NEW t \in Threads, msg[t] # NoMessage, ~TurnedAway(t)
    PROVE  /\ msg[t] \in Messages /\ Admitted(msg[t])
           /\ Len(results[t]) \in Nat
           /\ \A j \in 1..Len(results[t]) :
                 /\ j \in 1..Len(attempted(msg[t]))
                 /\ attempted(msg[t])[j].key \in Keys
  <1> DEFINE d == results[t]  l == todo[t]  cs == callsOf(msg[t])
  <1>1. HandlerOK(t) /\ ServiceTypes
    BY DEF HandlerInv
  <1>2. msg[t] \in Messages /\ Admitted(msg[t]) /\ Divided(msg[t], d, l)
    BY <1>1 DEF HandlerOK, ServiceTypes
  <1>3. d \in Seq(Result) /\ l \in Seq(Requests)
    BY <1>1 DEF ServiceTypes
  <1>4. Len(d) + Len(l) = Len(cs) /\ Len(cs) = Len(attempted(msg[t]))
    BY <1>2, CallsFacts DEF Divided
  <1>5. \A n \in 1..Len(attempted(msg[t])) : attempted(msg[t])[n].key \in Keys
    BY <1>2, AttemptedKeys
  <1> HIDE DEF d, l, cs
  <1>6. Len(d) \in Nat /\ Len(l) \in Nat
    BY <1>3
  <1>7. \A j \in 1..Len(d) : j \in 1..Len(attempted(msg[t]))
    BY <1>4, <1>6
  <1> QED
    BY <1>2, <1>5, <1>6, <1>7 DEF d

\* The results a handler has stay true.
LEMMA ResultsStayTrue ==
    ASSUME HandlerInv, NextH, NEW t \in Threads, msg[t] # NoMessage, ~TurnedAway(t),
           TruthOK(t), msg'[t] = msg[t]
    PROVE  \A j \in 1..Len(results[t]) :
              TrueOf(opOf(msg[t].rpc), results[t][j],
                     held'[t][attempted(msg[t])[j].key])
  <1> SUFFICES ASSUME NEW j \in 1..Len(results[t])
               PROVE  TrueOf(opOf(msg[t].rpc), results[t][j],
                             held'[t][attempted(msg[t])[j].key])
    OBVIOUS
  <1> DEFINE k == attempted(msg[t])[j].key
  <1>1. k \in Keys
    BY ResultsFit
  <1>2. TrueOf(opOf(msg[t].rpc), results[t][j], held[t][k])
    BY DEF TruthOK
  <1> HIDE DEF k
  <1>3. held[t][k] \subseteq held'[t][k]
    BY <1>1, HeldGrows
  <1>4. TrueOf(opOf(msg[t].rpc), results[t][j], held'[t][k])
    BY <1>2, <1>3, TrueOfMore
  <1> QED
    BY <1>4 DEF k

\* Nothing but a lookup decides what a reader returns.
LEMMA OthersDoNotRead ==
    ASSUME NEW op, op \notin Readers, NEW r, NEW was
    PROVE  TrueOf(op, r, was)
  BY DEF TrueOf, Readers

\* A step within CacheManager keeps the reader to what it saw.
LEMMA WithinTruth ==
    ASSUME HandlerInv, NextH, NEW t \in Threads, PlanOK(t), TruthOK(t),
           Within(t), msg[t] # NoMessage, ~TurnedAway(t)
    PROVE  /\ pc'[t] = "decide" => Seen(handle'[t]) \in held'[t][req'[t].key]
           /\ pc'[t] = "reply" =>
                 TrueOf(req'[t].op, plan'[t].res, held'[t][req'[t].key])
  <1>0. /\ DOMAIN pc = Threads /\ DOMAIN req = Threads /\ DOMAIN handle = Threads
        /\ DOMAIN plan = Threads /\ handle[t] \in ItemOrNone /\ sysNow \in Int
        /\ LocalsOK
    BY DEF HandlerInv, TypeInv, TypeOK
  <1>1. UNCHANGED serviceVars /\ pc[t] # "idle" /\ req'[t] = req[t]
    BY DEF Within, Lock, Find, Decide, CopyThrows, Remove, Allocate, AllocateFails, Link, Load
  <1>2. msg'[t] = msg[t] /\ answer[t] = NoAnswer /\ req[t].key \in Keys
    BY <1>1, CurrentCall DEF serviceVars
  <1>3. held[t][req[t].key] \subseteq held'[t][req[t].key]
    BY <1>2, HeldGrows
  <1>4. CASE Lock(t) \/ Allocate(t)
    <2>1. pc'[t] \in {"find", "link"}
      BY <1>0, <1>4 DEF Lock, Allocate, Goto
    <2> QED
      BY <2>1
  <1>5. CASE Find(t)
    <2>1. pc'[t] = "decide" /\ handle'[t] = find(store[req[t].key], libNow)
      BY <1>0, <1>5 DEF Find, Goto
    <2>2. Seen(handle'[t]) = Lookup(req[t].key)
      BY <2>1 DEF Seen, Lookup
    <2>3. Lookup(req[t].key) \in held[t][req[t].key]
      BY <1>2 DEF TruthOK
    <2> QED
      BY <1>1, <1>3, <2>1, <2>2, <2>3
  <1>6. CASE Decide(t)
    <2> DEFINE d == decide(req[t], handle[t], sysNow)
    <2>1. /\ pc[t] = "decide" /\ plan'[t] = d
          /\ pc'[t] = IF d.write THEN "allocate" ELSE "reply"
      BY <1>0, <1>6 DEF Decide, Goto, Conclude
    <2>2. req[t].op \in FindOps
      BY <1>0, <2>1 DEF LocalsOK
    <2>3. Seen(handle[t]) \in held[t][req[t].key]
      BY <2>1 DEF TruthOK
    <2>4. Seen(handle[t]) \in held'[t][req[t].key]
      BY <1>3, <2>3
    <2>5. TrueOf(req[t].op, d.res, held'[t][req[t].key])
      BY <1>0, <2>2, <2>4, ReadersTellTruth
    <2>6. pc'[t] # "decide"
      BY <2>1
    <2> HIDE DEF d
    <2> QED
      BY <1>1, <2>1, <2>5, <2>6
  <1>8. CASE CopyThrows(t)
    <2>1. /\ pc[t] = "decide" /\ pc'[t] = "reply" /\ req[t].op = "get"
          /\ plan'[t] = getThrew /\ handle[t] # NoItem
      BY <1>0, <1>8 DEF CopyThrows, Goto, Conclude
    <2>2. plan'[t].res.ok /\ plan'[t].res.val = EmptyText
      BY <2>1, ThrewResult
    <2>3. Seen(handle[t]) \in held'[t][req[t].key]
      BY <1>3, <2>1 DEF TruthOK
    <2>4. Seen(handle[t]) # NoItem
      BY <1>0, <2>1, ServiceAssumption DEF Seen, ItemOrNone, Item
    <2> QED
      BY <1>1, <2>1, <2>2, <2>3, <2>4 DEF TrueOf
  <1>7. CASE Remove(t) \/ AllocateFails(t) \/ Link(t) \/ Load(t)
    <2>1. pc'[t] \in {"reply", "load"} /\ pc[t] \in {"remove", "allocate", "link", "load"}
      BY <1>0, <1>7 DEF Remove, AllocateFails, Link, Load, Goto
    <2>2. req[t].op \notin Readers
      BY <1>0, <2>1 DEF LocalsOK, PlanOK, Readers, LockedOps, AddOps
    <2> QED
      BY <1>1, <2>1, <2>2, OthersDoNotRead
  <1> QED
    BY <1>4, <1>5, <1>6, <1>7, <1>8 DEF Within

\* Every step keeps what the readers return true.
LEMMA NextTruthOK ==
    ASSUME HandlerInv, [NextH]_allVars, NEW t \in Threads, PlanOK(t), TruthOK(t)
    PROVE  TruthOK(t)'
  <1>0. /\ TypeInv /\ ServiceTypes /\ HandlerOK(t) /\ HandlerStep(t)
        /\ results[t] \in Seq(Result) /\ msg[t] \in Messages \cup {NoMessage}
    BY HandlerSteps DEF HandlerInv, ServiceTypes
  <1>d. /\ DOMAIN msg = Threads /\ DOMAIN todo = Threads /\ DOMAIN pc = Threads
        /\ DOMAIN results = Threads /\ DOMAIN answer = Threads
        /\ DOMAIN req = Threads
    BY <1>0 DEF ServiceTypes, TypeInv, TypeOK
  <1>1. CASE UNCHANGED allVars
    BY <1>1
    DEF allVars, vars, serviceVars, histVars, locals, clocks, TruthOK, TurnedAway,
        Lookup
  <1>2. CASE NextH
    <2> SUFFICES ASSUME msg'[t] # NoMessage, ~TurnedAway(t)'
                 PROVE  TruthOK(t)'
      BY DEF TruthOK
    <2>g. \A k \in Keys : /\ held[t][k] \subseteq held'[t][k]
                          /\ answer[t] = NoAnswer => Lookup(k)' \in held'[t][k]
      BY <1>2, HeldGrows
    <2>1. CASE SameService(t) /\ SameLocals(t)
      <3>1. msg[t] # NoMessage /\ ~TurnedAway(t)
        BY <2>1 DEF SameService, TurnedAway
      <3>2. \A j \in 1..Len(results[t]) :
              TrueOf(opOf(msg[t].rpc), results[t][j],
                     held'[t][attempted(msg[t])[j].key])
        BY <1>2, <2>1, <3>1, ResultsStayTrue DEF SameService
      <3>3. ASSUME pc[t] # "idle"
            PROVE  req[t].key \in Keys
        BY <3>3, CurrentCall
      <3>4. pc[t] = "decide" => Seen(handle[t]) \in held'[t][req[t].key]
        BY <2>g, <3>1, <3>3 DEF TruthOK
      <3>5. ASSUME pc[t] = "reply"
            PROVE  TrueOf(req[t].op, plan[t].res, held'[t][req[t].key])
        <4>1. held[t][req[t].key] \subseteq held'[t][req[t].key]
          BY <2>g, <3>3, <3>5
        <4>2. TrueOf(req[t].op, plan[t].res, held[t][req[t].key])
          BY <3>1, <3>5 DEF TruthOK
        <4> QED
          BY <4>1, <4>2, TrueOfMore
      <3> QED
        BY <2>1, <2>g, <3>2, <3>4, <3>5 DEF SameService, SameLocals, TruthOK
    <2>2. ASSUME NEW m \in Messages, Receive(t, m) PROVE TruthOK(t)'
      <3>1. msg[t] = NoMessage /\ results' = results /\ UNCHANGED vars
        BY <2>2 DEF Receive
      <3>2. results[t] = <<>> /\ answer[t] = NoAnswer /\ pc[t] = "idle"
        BY <1>0, <3>1 DEF HandlerOK
      <3>3. pc'[t] = "idle" /\ Len(results'[t]) = 0
        BY <3>1, <3>2 DEF vars, locals
      <3> QED
        BY <2>g, <3>2, <3>3 DEF TruthOK
    <2>3. CASE Issue(t)
      <3>1. /\ UNCHANGED serviceVars /\ todo[t] # <<>> /\ pc[t] = "idle"
        BY <2>3 DEF Issue, Call, CallRefused, Begin
      <3>2. msg[t] # NoMessage /\ answer[t] = NoAnswer /\ ~TurnedAway(t)
        BY <1>0, <3>1 DEF HandlerOK, TurnedAway
      <3>3. \A j \in 1..Len(results[t]) :
              TrueOf(opOf(msg[t].rpc), results[t][j],
                     held'[t][attempted(msg[t])[j].key])
        BY <1>2, <3>1, <3>2, ResultsStayTrue DEF serviceVars
      <3>4. pc'[t] # "decide" /\ (pc'[t] = "reply" => req'[t].op \notin Readers)
        <4>1. CASE Call(t, Head(todo[t]))
          <5>1. pc'[t] = entry(Head(todo[t]))
            BY <1>d, <4>1 DEF Call, Goto
          <5> QED
            BY <5>1 DEF entry
        <4>2. CASE CallRefused(t, Head(todo[t]))
          <5>1. pc'[t] = "reply" /\ req'[t] = Head(todo[t]) /\ negationRefused(Head(todo[t]))
            BY <1>d, <4>2 DEF CallRefused, Goto, Begin
          <5>2. req'[t].op = "decrement"
            BY <5>1 DEF negationRefused
          <5> QED
            BY <5>1, <5>2 DEF Readers
        <4> QED
          BY <2>3, <4>1, <4>2 DEF Issue
      <3>5. pc'[t] = "reply" => TrueOf(req'[t].op, plan'[t].res, held'[t][req'[t].key])
        BY <3>4, OthersDoNotRead
      <3> QED
        BY <2>g, <3>1, <3>2, <3>3, <3>4, <3>5 DEF TruthOK, serviceVars
    <2>4. CASE Within(t)
      <3>1. UNCHANGED serviceVars
        BY <2>4 DEF Within
      <3>2. msg[t] # NoMessage /\ ~TurnedAway(t)
        BY <3>1 DEF serviceVars, TurnedAway
      <3>3. \A j \in 1..Len(results[t]) :
              TrueOf(opOf(msg[t].rpc), results[t][j],
                     held'[t][attempted(msg[t])[j].key])
        BY <1>2, <3>1, <3>2, ResultsStayTrue DEF serviceVars
      <3>4. /\ pc'[t] = "decide" => Seen(handle'[t]) \in held'[t][req'[t].key]
            /\ pc'[t] = "reply" =>
                 TrueOf(req'[t].op, plan'[t].res, held'[t][req'[t].key])
        BY <1>2, <2>4, <3>2, WithinTruth
      <3> QED
        BY <2>g, <3>1, <3>3, <3>4 DEF TruthOK, serviceVars
    <2>5. CASE Collect(t)
      <3>1. /\ pc[t] = "reply" /\ pc'[t] = "idle" /\ msg' = msg /\ answer' = answer
            /\ results'[t] = Append(results[t], plan[t].res)
        BY <2>5, <1>d DEF Collect, Return, Goto
      <3>2. /\ answer[t] = NoAnswer /\ req[t].op = opOf(msg[t].rpc)
            /\ req[t].key = attempted(msg[t])[Len(results[t]) + 1].key
            /\ req[t].key \in Keys
        BY <3>1, CurrentCall
      <3>3. msg[t] # NoMessage /\ ~TurnedAway(t)
        BY <3>1, <3>2 DEF TurnedAway
      <3>4. \A j \in 1..Len(results[t]) :
              TrueOf(opOf(msg[t].rpc), results[t][j],
                     held'[t][attempted(msg[t])[j].key])
        BY <1>2, <3>1, <3>3, ResultsStayTrue
      <3>5. TrueOf(req[t].op, plan[t].res, held'[t][req[t].key])
        <4>1. held[t][req[t].key] \subseteq held'[t][req[t].key]
          BY <2>g, <3>2
        <4>2. TrueOf(req[t].op, plan[t].res, held[t][req[t].key])
          BY <3>1, <3>3 DEF TruthOK
        <4> QED
          BY <4>1, <4>2, TrueOfMore
      <3>6. \A j \in 1..Len(results'[t]) :
              TrueOf(opOf(msg[t].rpc), results'[t][j],
                     held'[t][attempted(msg[t])[j].key])
        <4> DEFINE d == results[t]  r == plan[t].res
        <4>1. d \in Seq(Result) /\ r \in Result /\ results'[t] = Append(d, r)
          BY <1>0, <3>1 DEF TypeInv, TypeOK, Decision
        <4> HIDE DEF d, r
        <4>2. /\ Len(d) \in Nat /\ Len(Append(d, r)) = Len(d) + 1
              /\ Append(d, r)[Len(d) + 1] = r
              /\ \A j \in 1..Len(d) : Append(d, r)[j] = d[j]
          BY <4>1
        <4> SUFFICES ASSUME NEW j \in 1..Len(results'[t])
                     PROVE  TrueOf(opOf(msg[t].rpc), results'[t][j],
                                   held'[t][attempted(msg[t])[j].key])
          OBVIOUS
        <4>3. CASE j \in 1..Len(d)
          <5>1. results'[t][j] = results[t][j]
            BY <4>1, <4>2, <4>3 DEF d
          <5> QED
            BY <3>4, <4>3, <5>1 DEF d
        <4>4. CASE j = Len(d) + 1
          <5>1. results'[t][j] = plan[t].res /\ j = Len(results[t]) + 1
            BY <4>1, <4>2, <4>4 DEF r, d
          <5> QED
            BY <3>2, <3>5, <5>1
        <4>5. j \in 1..(Len(d) + 1)
          BY <4>1, <4>2
        <4>6. j \in 1..Len(d) \/ j = Len(d) + 1
          BY <4>2, <4>5
        <4> QED
          BY <4>3, <4>4, <4>6
      <3> QED
        BY <2>g, <3>1, <3>2, <3>6 DEF TruthOK
    <2>6. CASE Respond(t)
      <3>1. /\ msg' = msg /\ results' = results /\ UNCHANGED vars
            /\ answer[t] = NoAnswer /\ msg[t] # NoMessage
        BY <2>6 DEF Respond
      <3>2. ~TurnedAway(t) /\ pc[t] = "idle" /\ pc' = pc
        <4>1. todo[t] = <<>>
          BY <2>6 DEF Respond
        <4> QED
          BY <1>0, <3>1, <4>1 DEF HandlerOK, TurnedAway, vars, locals
      <3>3. \A j \in 1..Len(results[t]) :
              TrueOf(opOf(msg[t].rpc), results[t][j],
                     held'[t][attempted(msg[t])[j].key])
        BY <1>2, <3>1, <3>2, ResultsStayTrue
      <3> QED
        BY <2>g, <3>1, <3>2, <3>3 DEF TruthOK
    <2>7. CASE Send(t)
      BY <1>d, <2>7 DEF Send
    <2> QED
      BY <1>0, <2>1, <2>2, <2>3, <2>4, <2>5, <2>6, <2>7 DEF HandlerStep
  <1> QED
    BY <1>1, <1>2

-----------------------------------------------------------------------------
\* The RPCs that store, and those that remove.
Storing  == Writers \cup {"MultiSet"}
Removing == {"Delete", "MultiDelete"}

\* A call that has succeeded and not returned yet.
Landed(t) == IF pc[t] = "reply" /\ plan[t].res.ok THEN 1 ELSE 0

\* What a handler has stored and removed is what its results report.
EffectOK(t) ==
    /\ msg[t] = NoMessage \/ TurnedAway(t) => stored[t] = 0 /\ removed[t] = 0
    /\ msg[t] # NoMessage /\ ~TurnedAway(t) =>
          /\ stored[t] = IF msg[t].rpc \in Storing
                         THEN Succeeded(results[t]) + Landed(t) ELSE 0
          /\ removed[t] = IF msg[t].rpc \in Removing
                          THEN Succeeded(results[t]) + Landed(t) ELSE 0

\* Which operations an RPC stands for.
LEMMA RpcOps ==
    ASSUME NEW rpc \in Unary \cup Batches
    PROVE  /\ opOf(rpc) \in LockedOps \cup {"set"} <=> rpc \in Storing
           /\ opOf(rpc) = "remove" <=> rpc \in Removing
  BY DEF Unary, Batches, opOf, LockedOps, AddOps, Storing, Writers, Removing

\* Ping makes no call.
LEMMA CallersRpc ==
    ASSUME HandlerInv, NEW t \in Threads, pc[t] # "idle"
    PROVE  msg[t].rpc \in Unary \cup Batches
  <1>1. msg[t] \in Messages /\ Admitted(msg[t])
        /\ Len(results[t]) + 1 \in 1..Len(attempted(msg[t]))
    BY CurrentCall
  <1>2. \/ msg[t].rpc \in Unary \cup Batches
        \/ msg[t].rpc = "Ping" /\ msg[t].items = <<>>
    BY <1>1, MessagesAssumption
  <1>3. ASSUME msg[t].rpc = "Ping", msg[t].items = <<>> PROVE FALSE
    <2>1. Len(attempted(msg[t])) = 0
      BY <1>3 DEF attempted
    <2>2. results[t] \in Seq(Result)
      BY DEF HandlerInv, ServiceTypes
    <2>3. Len(results[t]) \in Nat
      BY <2>2
    <2> QED
      BY <1>1, <2>1, <2>3
  <1> QED
    BY <1>2, <1>3

\* A step stores or removes for t exactly when t then has a success to report.
LEMMA WithinLands ==
    ASSUME HandlerInv, NEW t \in Threads, PlanOK(t), Within(t)
    PROVE  /\ Landed(t) = 0 /\ Landed(t)' \in {0, 1}
           /\ msg[t].rpc \in Storing => (Landed(t)' = 1 <=> Links(t))
           /\ msg[t].rpc \in Removing => (Landed(t)' = 1 <=> Removes(t))
           /\ msg[t].rpc \notin Storing => ~Links(t)
           /\ msg[t].rpc \notin Removing => ~Removes(t)
  <1>0. /\ DOMAIN pc = Threads /\ DOMAIN req = Threads /\ DOMAIN handle = Threads
        /\ DOMAIN plan = Threads /\ handle[t] \in ItemOrNone /\ sysNow \in Int
        /\ LocalsOK
    BY DEF HandlerInv, TypeInv, TypeOK
  <1>1. pc[t] \notin {"idle", "reply"}
    BY DEF Within, Lock, Find, Decide, CopyThrows, Remove, Allocate, AllocateFails, Link, Load
  <1>2. /\ req[t].op \in LockedOps \cup {"set"} <=> msg[t].rpc \in Storing
        /\ req[t].op = "remove" <=> msg[t].rpc \in Removing
    BY <1>1, CurrentCall, CallersRpc, RpcOps
  <1>3. Landed(t) = 0
    BY <1>1 DEF Landed
  <1>4. Landed(t)' \in {0, 1} /\ (Landed(t)' = 1 <=> pc'[t] = "reply" /\ plan'[t].res.ok)
    BY DEF Landed
  <1>5. /\ msg[t].rpc \notin Storing => pc[t] \notin {"allocate", "link"}
        /\ msg[t].rpc \notin Removing => pc[t] # "remove"
    BY <1>0, <1>2 DEF LocalsOK
  <1>6. CASE Lock(t) \/ Find(t) \/ Allocate(t)
    <2>1. pc'[t] # "reply"
      BY <1>0, <1>6 DEF Lock, Find, Allocate, Goto
    <2> QED
      BY <1>3, <1>4, <2>1 DEF Links, Removes
  <1>7. CASE Decide(t)
    <2> DEFINE d == decide(req[t], handle[t], sysNow)
    <2>1. /\ pc[t] = "decide" /\ plan'[t] = d
          /\ pc'[t] = IF d.write THEN "allocate" ELSE "reply"
      BY <1>0, <1>7 DEF Decide, Goto, Conclude
    <2>2. req[t].op \in FindOps
      BY <1>0, <2>1 DEF LocalsOK
    <2>3. ~d.write /\ req[t].op \in LockedOps => ~d.res.ok
      BY <1>0, <2>2, DecideShape
    <2>4. req[t].op \notin {"set", "remove"}
      BY <2>2 DEF FindOps, LockedOps, AddOps
    <2> HIDE DEF d
    <2>5. msg[t].rpc \notin Removing
      BY <1>2, <2>4
    <2>6. msg[t].rpc \in Storing => ~(pc'[t] = "reply" /\ plan'[t].res.ok)
      BY <1>2, <2>1, <2>3, <2>4
    <2> QED
      BY <1>3, <1>4, <2>1, <2>5, <2>6 DEF Links, Removes
  <1>12. CASE CopyThrows(t)
    <2>1. pc[t] = "decide" /\ req[t].op = "get"
      BY <1>12 DEF CopyThrows
    <2>2. msg[t].rpc \notin Storing /\ msg[t].rpc \notin Removing
      BY <1>2, <2>1 DEF LockedOps, AddOps
    <2> QED
      BY <1>3, <1>4, <2>1, <2>2 DEF Links, Removes
  <1>8. CASE AllocateFails(t)
    <2>1. pc[t] = "allocate" /\ plan'[t] = Reply(plan[t].fail)
      BY <1>0, <1>8 DEF AllocateFails, Conclude
    <2>2. ~plan[t].fail.ok
      BY <2>1 DEF PlanOK
    <2>3. plan'[t].res = plan[t].fail
      BY <2>1 DEF Reply
    <2>4. ~plan'[t].res.ok
      BY <2>2, <2>3
    <2>5. msg[t].rpc \notin Removing
      BY <1>0, <1>2, <2>1 DEF LocalsOK, LockedOps, AddOps
    <2> QED
      BY <1>3, <1>4, <2>1, <2>4, <2>5 DEF Links, Removes
  <1>9. CASE Link(t)
    <2>1. pc[t] = "link" /\ pc'[t] = "reply" /\ plan' = plan
      BY <1>0, <1>9 DEF Link, Goto
    <2>2. plan'[t].res.ok
      BY <2>1 DEF PlanOK
    <2>3. msg[t].rpc \notin Removing
      BY <1>0, <1>2, <2>1 DEF LocalsOK, LockedOps, AddOps
    <2> QED
      BY <1>3, <1>4, <1>5, <2>1, <2>2, <2>3 DEF Links, Removes
  <1>10. CASE Remove(t)
    <2> DEFINE x == [NoResult EXCEPT !.ok = store[req[t].key] # NoItem]
    <2>1. pc[t] = "remove" /\ pc'[t] = "reply" /\ plan'[t] = Reply(x)
      BY <1>0, <1>10 DEF Remove, Goto, Conclude
    <2>2. x.ok <=> store[req[t].key] # NoItem
      BY Zenon DEF NoResult
    <2> HIDE DEF x
    <2>3. plan'[t].res = x
      BY <2>1, ReplyFields
    <2>4. plan'[t].res.ok <=> store[req[t].key] # NoItem
      BY <2>2, <2>3, Zenon
    <2>5. msg[t].rpc \notin Storing /\ msg[t].rpc \in Removing
      BY <1>0, <1>2, <2>1 DEF LocalsOK, LockedOps, AddOps
    <2>6. ~Links(t)
      BY <2>1 DEF Links
    <2>7. Removes(t) <=> store[req[t].key] # NoItem
      BY <2>1 DEF Removes
    <2> QED
      BY <1>3, <1>4, <2>1, <2>4, <2>5, <2>6, <2>7
  <1>11. CASE Load(t)
    <2>1. pc[t] = "load"
      BY <1>11 DEF Load
    <2>2. req[t].op = "getStats"
      BY <2>1 DEF PlanOK
    <2>3. msg[t].rpc \notin Storing /\ msg[t].rpc \notin Removing
      BY <1>2, <2>2 DEF LockedOps, AddOps
    <2> QED
      BY <1>3, <1>4, <2>1, <2>3 DEF Links, Removes
  <1> QED
    BY <1>6, <1>7, <1>8, <1>9, <1>10, <1>11, <1>12 DEF Within

\* Every step keeps the accounts of a handler.
LEMMA NextEffectOK ==
    ASSUME HandlerInv, [NextH]_allVars, NEW t \in Threads, PlanOK(t), EffectOK(t)
    PROVE  EffectOK(t)'
  <1>0. /\ TypeInv /\ ServiceTypes /\ HandlerOK(t) /\ HandlerStep(t)
        /\ results[t] \in Seq(Result) /\ msg[t] \in Messages \cup {NoMessage}
        /\ NoMessage \notin Messages
        /\ Succeeded(results[t]) \in Nat
    BY HandlerSteps, SucceededType, ServiceAssumption DEF HandlerInv, ServiceTypes
  <1>d. /\ DOMAIN msg = Threads /\ DOMAIN todo = Threads /\ DOMAIN pc = Threads
        /\ DOMAIN results = Threads /\ DOMAIN answer = Threads
        /\ DOMAIN req = Threads /\ DOMAIN plan = Threads
    BY <1>0 DEF ServiceTypes, TypeInv, TypeOK
  <1>1. CASE UNCHANGED allVars
    BY <1>1
    DEF allVars, vars, serviceVars, histVars, locals, EffectOK, TurnedAway, Landed
  <1>2. CASE NextH
    <2>h. /\ stored'[t] = IF msg'[t] = NoMessage THEN 0
                          ELSE IF Links(t) THEN stored[t] + 1 ELSE stored[t]
          /\ removed'[t] = IF msg'[t] = NoMessage THEN 0
                           ELSE IF Removes(t) THEN removed[t] + 1 ELSE removed[t]
      BY <1>2 DEF NextH
    <2>q. ASSUME pc'[t] = pc[t] \/ pc[t] \in {"idle", "reply"}
          PROVE  ~Links(t) /\ ~Removes(t)
      BY <2>q DEF Links, Removes
    <2>1. CASE SameService(t) /\ SameLocals(t)
      <3>1. ~Links(t) /\ ~Removes(t)
        BY <2>1, <2>q DEF SameLocals
      <3>2. /\ msg'[t] = msg[t] /\ results'[t] = results[t] /\ Landed(t)' = Landed(t)
            /\ (TurnedAway(t)' <=> TurnedAway(t))
        BY <2>1 DEF SameService, SameLocals, Landed, TurnedAway
      <3> QED
        BY <2>h, <3>1, <3>2 DEF EffectOK
    <2>2. ASSUME NEW m \in Messages, Receive(t, m) PROVE EffectOK(t)'
      <3>1. msg[t] = NoMessage /\ msg'[t] = m /\ results' = results /\ UNCHANGED vars
        BY <1>d, <2>2 DEF Receive
      <3>2. results[t] = <<>> /\ pc[t] = "idle"
        BY <1>0, <3>1 DEF HandlerOK
      <3>3. pc'[t] = "idle"
        BY <3>1, <3>2 DEF vars, locals
      <3>4. stored'[t] = 0 /\ removed'[t] = 0
        BY <1>0, <2>h, <2>q, <3>1, <3>2 DEF EffectOK
      <3>5. Landed(t)' = 0
        BY <3>3 DEF Landed
      <3>6. Succeeded(results'[t]) = 0
        BY <1>0, <3>1, <3>2, SucceededType
      <3>7. 0 + 0 = 0
        OBVIOUS
      <3> QED
        BY <3>4, <3>5, <3>6, <3>7 DEF EffectOK
    <2>3. CASE Issue(t)
      <3>1. UNCHANGED serviceVars /\ todo[t] # <<>> /\ pc[t] = "idle"
        BY <2>3 DEF Issue, Call, CallRefused, Begin
      <3>2. /\ msg[t] # NoMessage /\ ~TurnedAway(t) /\ ~TurnedAway(t)'
            /\ msg'[t] = msg[t] /\ results'[t] = results[t]
        BY <1>0, <3>1 DEF HandlerOK, TurnedAway, serviceVars
      <3>3. Landed(t) = 0
        BY <3>1 DEF Landed
      <3>4. Landed(t)' = 0
        <4>1. CASE Call(t, Head(todo[t]))
          <5>1. pc'[t] = entry(Head(todo[t]))
            BY <1>d, <4>1 DEF Call, Goto
          <5>2. pc'[t] # "reply"
            BY <5>1 DEF entry
          <5> QED
            BY <5>2 DEF Landed
        <4>2. CASE CallRefused(t, Head(todo[t]))
          <5>1. plan'[t] = Reply(Refused("Cannot be negated"))
            BY <1>d, <4>2 DEF CallRefused, Conclude
          <5>2. plan'[t].res = Refused("Cannot be negated")
            BY <5>1, ReplyFields, Zenon
          <5>3. ~Refused("Cannot be negated").ok
            BY DEF Refused, NoResult
          <5>4. ~plan'[t].res.ok
            BY <5>2, <5>3, Zenon
          <5> QED
            BY <5>4 DEF Landed
        <4> QED
          BY <2>3, <4>1, <4>2 DEF Issue
      <3>5. ~Links(t) /\ ~Removes(t)
        BY <2>q, <3>1
      <3> QED
        BY <2>h, <3>2, <3>3, <3>4, <3>5 DEF EffectOK
    <2>4. CASE Within(t)
      <3>1. UNCHANGED serviceVars /\ pc[t] # "idle"
        BY <2>4
        DEF Within, Lock, Find, Decide, CopyThrows, Remove, Allocate, AllocateFails, Link, Load
      <3>2. /\ msg[t] # NoMessage /\ ~TurnedAway(t) /\ ~TurnedAway(t)'
            /\ msg'[t] = msg[t] /\ results'[t] = results[t]
        BY <1>0, <3>1 DEF HandlerOK, TurnedAway, serviceVars
      <3>3. /\ Landed(t) = 0 /\ Landed(t)' \in {0, 1}
            /\ msg[t].rpc \in Storing => (Landed(t)' = 1 <=> Links(t))
            /\ msg[t].rpc \in Removing => (Landed(t)' = 1 <=> Removes(t))
            /\ msg[t].rpc \notin Storing => ~Links(t)
            /\ msg[t].rpc \notin Removing => ~Removes(t)
        BY <2>4, WithinLands
      <3> DEFINE n == Succeeded(results[t])  before == Landed(t)  after == Landed(t)'
      <3>4. /\ stored[t] = IF msg[t].rpc \in Storing THEN n + before ELSE 0
            /\ removed[t] = IF msg[t].rpc \in Removing THEN n + before ELSE 0
        BY <3>2 DEF EffectOK
      <3>5. n \in Nat
        BY <1>0
      <3> HIDE DEF n, before, after
      <3>6. stored'[t] = IF msg[t].rpc \in Storing THEN n + after ELSE 0
        BY <2>h, <3>2, <3>3, <3>4, <3>5 DEF before, after
      <3>7. removed'[t] = IF msg[t].rpc \in Removing THEN n + after ELSE 0
        BY <2>h, <3>2, <3>3, <3>4, <3>5 DEF before, after
      <3> QED
        BY <3>2, <3>6, <3>7 DEF EffectOK, n, after
    <2>5. CASE Collect(t)
      <3>1. /\ pc[t] = "reply" /\ pc'[t] = "idle" /\ msg' = msg /\ answer' = answer
            /\ results'[t] = Append(results[t], plan[t].res)
        BY <2>5, <1>d DEF Collect, Return, Goto
      <3>2. msg[t] # NoMessage /\ ~TurnedAway(t) /\ ~TurnedAway(t)'
        BY <1>0, <3>1 DEF HandlerOK, TurnedAway
      <3>3. plan[t].res \in Result
        BY <1>0 DEF TypeInv, TypeOK, Decision
      <3>4. Succeeded(results'[t]) =
              IF plan[t].res.ok THEN Succeeded(results[t]) + 1 ELSE Succeeded(results[t])
        BY <1>0, <3>1, <3>3, SucceededAppend
      <3>5. Landed(t) = IF plan[t].res.ok THEN 1 ELSE 0
        BY <3>1 DEF Landed
      <3>6. Landed(t)' = 0
        BY <3>1 DEF Landed
      <3> DEFINE n == Succeeded(results[t])  m == Succeeded(results'[t])
                 before == Landed(t)  after == Landed(t)'
      <3>7. n \in Nat
        BY <1>0
      <3> HIDE DEF n, m, before, after
      <3>8. m + after = n + before
        BY <3>4, <3>5, <3>6, <3>7 DEF n, m, before, after
      <3>9. /\ stored[t] = IF msg[t].rpc \in Storing THEN n + before ELSE 0
            /\ removed[t] = IF msg[t].rpc \in Removing THEN n + before ELSE 0
        BY <3>2 DEF EffectOK, n, before
      <3>10. stored'[t] = stored[t] /\ removed'[t] = removed[t]
        BY <2>h, <2>q, <3>1, <3>2
      <3> QED
        BY <3>1, <3>2, <3>8, <3>9, <3>10 DEF EffectOK, m, after
    <2>6. CASE Respond(t)
      <3>1. /\ msg' = msg /\ results' = results /\ UNCHANGED vars /\ todo[t] = <<>>
            /\ answer[t] = NoAnswer /\ msg[t] \in Messages
            /\ answer'[t] = answerOf(msg[t], results[t])
        BY <1>0, <1>d, <2>6 DEF Respond
      <3>2. /\ ~TurnedAway(t) /\ Admitted(msg[t])
            /\ Divided(msg[t], results[t], todo[t])
        BY <1>0, <3>1 DEF HandlerOK, TurnedAway
      <3>3. Len(results[t]) = Len(callsOf(msg[t]))
        BY <1>0, <3>1, <3>2 DEF Divided
      <3>4. answerOf(msg[t], results[t]).status \in {"OK", "INTERNAL"}
        BY <1>0, <3>1, <3>2, <3>3, AnswerFacts
      <3>5. ~TurnedAway(t)'
        BY <3>1, <3>4 DEF TurnedAway
      <3>6. pc' = pc /\ plan' = plan
        BY <3>1 DEF vars, locals
      <3>7. Landed(t)' = Landed(t)
        BY <3>6 DEF Landed
      <3>8. ~Links(t) /\ ~Removes(t)
        BY <2>q, <3>6
      <3> QED
        BY <2>h, <3>1, <3>2, <3>5, <3>7, <3>8 DEF EffectOK
    <2>7. CASE Send(t)
      <3>1. msg'[t] = NoMessage
        BY <1>d, <2>7 DEF Send
      <3> QED
        BY <2>h, <3>1 DEF EffectOK
    <2> QED
      BY <1>0, <2>1, <2>2, <2>3, <2>4, <2>5, <2>6, <2>7 DEF HandlerStep
  <1> QED
    BY <1>1, <1>2

-----------------------------------------------------------------------------
\* The inductive invariant of the handlers.
ServiceInv ==
    /\ HandlerInv
    /\ \A t \in Threads : PlanOK(t) /\ TruthOK(t) /\ EffectOK(t)

\* It holds throughout.
LEMMA ServiceInvariance == SpecS => []ServiceInv
  <1>1. InitH => \A t \in Threads : PlanOK(t) /\ TruthOK(t) /\ EffectOK(t)
    BY DEF InitH, InitS, Init, PlanOK, TruthOK, EffectOK
  <1>2. InitH /\ HandlerInv => ServiceInv
    BY <1>1 DEF ServiceInv
  <1>3. ServiceInv /\ HandlerInv' /\ [NextH]_allVars => ServiceInv'
    <2> SUFFICES ASSUME ServiceInv, HandlerInv', [NextH]_allVars PROVE ServiceInv'
      OBVIOUS
    <2>1. ASSUME NEW t \in Threads PROVE (PlanOK(t) /\ TruthOK(t) /\ EffectOK(t))'
      <3>1. /\ HandlerInv /\ PlanOK(t) /\ TruthOK(t) /\ EffectOK(t) /\ TypeInv
            /\ ServiceTypes
        BY DEF ServiceInv, HandlerInv
      <3>2. PlanOK(t)'
        BY <3>1, HandlersCall, NextPlanOK
      <3> QED
        BY <3>1, <3>2, NextTruthOK, NextEffectOK
    <2> QED
      BY <2>1 DEF ServiceInv
  <1> QED
    BY <1>2, <1>3, HandlerInvariance, PTL DEF SpecS

-----------------------------------------------------------------------------
\* A handler that answers has made all its calls.
LEMMA AnsweredFacts ==
    ASSUME HandlerInv, NEW t \in Threads, answer[t] # NoAnswer, ~TurnedAway(t)
    PROVE  /\ msg[t] \in Messages /\ Admitted(msg[t]) /\ pc[t] = "idle"
           /\ results[t] \in Seq(Result)
           /\ answer[t] = answerOf(msg[t], results[t])
           /\ Len(results[t]) = Len(callsOf(msg[t]))
           /\ Len(results[t]) = Len(attempted(msg[t]))
  <1>1. HandlerOK(t) /\ ServiceTypes
    BY DEF HandlerInv
  <1>2. msg[t] \in Messages /\ results[t] \in Seq(Result) /\ todo[t] = <<>>
        /\ pc[t] = "idle"
    BY <1>1 DEF HandlerOK, ServiceTypes
  <1>3. /\ Admitted(msg[t]) /\ Divided(msg[t], results[t], todo[t])
        /\ answer[t] = answerOf(msg[t], results[t])
    BY <1>1, <1>2, ServiceAssumption DEF HandlerOK
  <1>4. Len(results[t]) = Len(callsOf(msg[t]))
    BY <1>2, <1>3 DEF Divided
  <1>5. Len(callsOf(msg[t])) = Len(attempted(msg[t]))
    BY <1>2, <1>3, CallsFacts
  <1> QED
    BY <1>2, <1>3, <1>4, <1>5

\* A read answers what was so at some moment of the call, the i-th result of
\* a MultiGet for the i-th key, whoever writes meanwhile
\* (CacheServiceImpl.cc:33-56, 127-177, 393-415), up to the value of an item
\* whose copy threw: for any messages, threads and keys.
THEOREM AnswersWereTrueHolds == SpecS => []AnswersWereTrue
  <1>1. ServiceInv => AnswersWereTrue
    <2> SUFFICES ASSUME ServiceInv, NEW t \in Threads,
                        Answered(t, {"Get", "MultiGet", "Exists", "GetTTL"})
                 PROVE  LET items == msg[t].items
                            rs    == answer[t].results
                        IN  /\ Len(rs) = Len(items)
                            /\ \A i \in 1..Len(items) :
                                  LET was == held[t][items[i].key]
                                  IN  CASE msg[t].rpc = "Exists" \/ msg[t].rpc = "GetTTL" ->
                                             IF answer[t].ok THEN was # {NoItem}
                                             ELSE NoItem \in was
                                        [] OTHER ->
                                             IF ~rs[i].ok THEN NoItem \in was
                                             ELSE \/ rs[i].val \in was
                                                  \/ /\ rs[i].val = EmptyText
                                                     /\ was # {NoItem}
      BY DEF AnswersWereTrue
    <2> DEFINE m == msg[t]  rs == results[t]  a == answer[t]  was(i) == held[t][m.items[i].key]
    <2>1. /\ HandlerInv /\ TruthOK(t) /\ a # NoAnswer /\ a.status = "OK"
          /\ m.rpc \in {"Get", "MultiGet", "Exists", "GetTTL"}
      BY DEF ServiceInv, Answered
    <2>2. ~TurnedAway(t)
      BY <2>1 DEF TurnedAway
    <2>3. /\ m \in Messages /\ Admitted(m) /\ rs \in Seq(Result)
          /\ a = answerOf(m, rs) /\ Len(rs) = Len(callsOf(m))
          /\ Len(rs) = Len(attempted(m))
      BY <2>1, <2>2, AnsweredFacts
    <2>4. attempted(m) = m.items
      BY <2>1 DEF attempted
    <2>5. /\ a.results = rs
          /\ m.rpc \in Unary => Len(rs) = 1
          /\ m.rpc = "Exists" => (a.ok <=> rs[1].ok)
          /\ m.rpc = "GetTTL" => (a.ok <=> rs[1].n # -2)
      <3>1. m.rpc \in Unary \/ m.rpc \in Batches
        BY <2>1 DEF Unary, Batches
      <3> HIDE DEF m, rs, a
      <3> QED
        BY <2>1, <2>3, <3>1, AnswerFacts, Zenon
    <2>6. \A j \in 1..Len(rs) : TrueOf(opOf(m.rpc), rs[j], was(j))
      BY <2>1, <2>2, <2>3, <2>4, ServiceAssumption DEF TruthOK
    <2>7. /\ m.rpc \in {"Get", "MultiGet"} => opOf(m.rpc) = "get"
          /\ m.rpc = "Exists" => opOf(m.rpc) = "exists"
          /\ m.rpc = "GetTTL" => opOf(m.rpc) = "getTTL"
      BY DEF opOf
    <2>8. m.rpc \in {"Exists", "GetTTL"} => Len(rs) = 1
      BY <2>5 DEF Unary
    <2>10. ASSUME NEW i \in 1..Len(rs)
          PROVE  CASE m.rpc = "Exists" \/ m.rpc = "GetTTL" ->
                         IF a.ok THEN was(i) # {NoItem} ELSE NoItem \in was(i)
                   [] OTHER ->
                         IF ~rs[i].ok THEN NoItem \in was(i)
                         ELSE \/ rs[i].val \in was(i)
                              \/ rs[i].val = EmptyText /\ was(i) # {NoItem}
      <3>1. TrueOf(opOf(m.rpc), rs[i], was(i))
        BY <2>6
      <3>i. i \in 1..Len(rs)
        OBVIOUS
      <3> HIDE DEF was, m, rs, a
      <3>2. CASE m.rpc \in {"Get", "MultiGet"}
        <4>1. IF ~rs[i].ok THEN NoItem \in was(i)
              ELSE \/ rs[i].val \in was(i)
                   \/ rs[i].val = EmptyText /\ was(i) # {NoItem}
          <5>1. IF ~rs[i].ok THEN NoItem \in was(i)
                ELSE \/ rs[i].val \in was(i)
                     \/ rs[i].val = EmptyText /\ \E v \in was(i) : v # NoItem
            BY <2>7, <3>1, <3>2 DEF TrueOf
          <5> QED
            BY <5>1
        <4>2. ~(m.rpc = "Exists" \/ m.rpc = "GetTTL")
          BY <3>2
        <4> QED
          BY <4>1, <4>2
      <3>3. CASE m.rpc = "Exists"
        <4>0. Len(rs) = 1
          BY <2>8, <3>3
        <4>1. i = 1
          BY <3>i, <4>0
        <4>2. IF a.ok THEN \E v \in was(i) : v # NoItem ELSE NoItem \in was(i)
          BY <2>5, <2>7, <3>1, <3>3, <4>1, Zenon DEF TrueOf
        <4>3. IF a.ok THEN was(i) # {NoItem} ELSE NoItem \in was(i)
          BY <4>2
        <4> QED
          BY <3>3, <4>3
      <3>4. CASE m.rpc = "GetTTL"
        <4>0. Len(rs) = 1
          BY <2>8, <3>4
        <4>1. i = 1
          BY <3>i, <4>0
        <4>2. IF a.ok THEN \E v \in was(i) : v # NoItem ELSE NoItem \in was(i)
          BY <2>5, <2>7, <3>1, <3>4, <4>1, Zenon DEF TrueOf
        <4>3. IF a.ok THEN was(i) # {NoItem} ELSE NoItem \in was(i)
          BY <4>2
        <4> QED
          BY <3>4, <4>3
      <3> QED
        BY <2>1, <3>2, <3>3, <3>4
    <2>11. Len(rs) = Len(m.items)
      BY <2>3, <2>4
    <2>12. a.results = rs
      BY <2>5
    <2> QED
      BY <2>10, <2>11, <2>12, Zenon
  <1> QED
    BY <1>1, ServiceInvariance, PTL

\* A response tells exactly what its call did to the cache
\* (CacheServiceImpl.cc:58-124, 179-440): for any messages, threads and keys.
THEOREM AnswersTellEffectsHolds == SpecS => []AnswersTellEffects
  <1>1. ServiceInv => AnswersTellEffects
    <2> SUFFICES ASSUME ServiceInv, NEW t \in Threads, answer[t] # NoAnswer
                 PROVE  LET a == answer[t]
                            m == msg[t]
                            n == IF m.rpc = "MultiSet"
                                 THEN Cardinality({i \in 1..Len(m.items) : m.items[i].key # EmptyKey})
                                 ELSE Len(m.items)
                        IN  /\ stored[t] = CASE m.rpc = "MultiSet" -> a.count
                                             [] m.rpc \in Writers -> IF a.ok THEN 1 ELSE 0
                                             [] OTHER -> 0
                            /\ removed[t] = IF m.rpc \in {"Delete", "MultiDelete"} THEN a.count
                                            ELSE 0
                            /\ a.status = "OK" /\ m.rpc \in {"MultiSet", "MultiDelete"}
                                  => a.count + a.rest = n
      BY DEF AnswersTellEffects
    <2> DEFINE a == answer[t]
               m == msg[t]
               rs == results[t]
               n == IF m.rpc = "MultiSet"
                    THEN Cardinality({i \in 1..Len(m.items) : m.items[i].key # EmptyKey})
                    ELSE Len(m.items)
    <2>1. HandlerInv /\ EffectOK(t) /\ HandlerOK(t)
      BY DEF ServiceInv, HandlerInv
    <2>2. CASE TurnedAway(t)
      <3>1. a = Status(a.status) /\ stored[t] = 0 /\ removed[t] = 0 /\ a.status # "OK"
        BY <2>1, <2>2 DEF HandlerOK, EffectOK, TurnedAway
      <3>2. ~a.ok /\ a.count = 0
        BY <3>1 DEF Status
      <3> HIDE DEF a, m, n
      <3>3. stored[t] = CASE m.rpc = "MultiSet" -> a.count
                          [] m.rpc \in Writers -> IF a.ok THEN 1 ELSE 0
                          [] OTHER -> 0
        BY <3>1, <3>2 DEF Writers
      <3> QED
        BY <3>1, <3>2, <3>3 DEF a, m, n
    <2>3. CASE ~TurnedAway(t)
      <3>1. /\ m \in Messages /\ Admitted(m) /\ rs \in Seq(Result) /\ pc[t] = "idle"
            /\ a = answerOf(m, rs) /\ Len(rs) = Len(callsOf(m))
            /\ Len(rs) = Len(attempted(m))
        BY <2>1, <2>3, AnsweredFacts
      <3> DEFINE s == Succeeded(rs)
      <3>2. /\ s \in Nat /\ Len(rs) \in Nat
            /\ Len(rs) = 1 => s = IF rs[1].ok THEN 1 ELSE 0
        BY <3>1, SucceededType
      <3>3. /\ m.rpc \in Unary => Len(rs) = 1
            /\ m.rpc \in Batches => a.count = s /\ a.rest = Len(rs) - s
            /\ m.rpc \in Writers => (a.ok <=> rs[1].ok)
            /\ m.rpc = "Delete" => a.count = IF rs[1].ok THEN 1 ELSE 0
        <4> HIDE DEF m, rs, a
        <4> QED
          BY <3>1, AnswerFacts, Zenon
      <3>4. Landed(t) = 0
        BY <3>1 DEF Landed
      <3>5. /\ stored[t] = IF m.rpc \in Storing THEN s + 0 ELSE 0
            /\ removed[t] = IF m.rpc \in Removing THEN s + 0 ELSE 0
        BY <2>1, <2>3, <3>1, <3>4, ServiceAssumption DEF EffectOK
      <3>6. ASSUME m.rpc \in {"MultiSet", "MultiDelete"} PROVE Len(rs) = n
        <4> DEFINE asked == m.items
        <4>1. asked \in Seq(MessageItem)
          BY <3>1, MessagesAssumption
        <4>2. CASE m.rpc = "MultiSet"
          <5>1. attempted(m) = withKeys(asked)
            BY <4>2 DEF attempted
          <5> HIDE DEF asked
          <5>2. Len(withKeys(asked)) =
                   Cardinality({i \in 1..Len(asked) : asked[i].key # EmptyKey})
            BY <4>1, WithKeys
          <5> QED
            BY <3>1, <4>2, <5>1, <5>2 DEF asked
        <4>3. CASE m.rpc # "MultiSet"
          BY <3>1, <4>3 DEF attempted
        <4> QED
          BY <4>2, <4>3
      <3> HIDE DEF a, m, rs, s, n
      <3>7. stored[t] = CASE m.rpc = "MultiSet" -> a.count
                          [] m.rpc \in Writers -> IF a.ok THEN 1 ELSE 0
                          [] OTHER -> 0
        <4>1. CASE m.rpc = "MultiSet"
          <5>1. m.rpc \notin Writers
            BY <4>1 DEF Writers
          <5> QED
            BY <3>2, <3>3, <3>5, <4>1, <5>1 DEF Storing, Batches
        <4>2. CASE m.rpc \in Writers
          <5>1. m.rpc \in Unary /\ m.rpc \in Storing /\ m.rpc # "MultiSet"
            BY <4>2 DEF Writers, Unary, Storing
          <5>2. stored[t] = IF rs[1].ok THEN 1 ELSE 0
            BY <3>2, <3>3, <3>5, <5>1
          <5>3. stored[t] = IF a.ok THEN 1 ELSE 0
            BY <3>3, <4>2, <5>2
          <5> QED
            BY <4>2, <5>1, <5>3
        <4>3. CASE m.rpc # "MultiSet" /\ m.rpc \notin Writers
          BY <3>5, <4>3 DEF Storing
        <4> QED
          BY <4>1, <4>2, <4>3
      <3>8. removed[t] = IF m.rpc \in {"Delete", "MultiDelete"} THEN a.count ELSE 0
        <4>1. CASE m.rpc = "Delete"
          BY <3>2, <3>3, <3>5, <4>1 DEF Unary, Removing
        <4>2. CASE m.rpc = "MultiDelete"
          BY <3>2, <3>3, <3>5, <4>2 DEF Batches, Removing
        <4>3. CASE m.rpc \notin {"Delete", "MultiDelete"}
          BY <3>5, <4>3 DEF Removing
        <4> QED
          BY <4>1, <4>2, <4>3
      <3>9. m.rpc \in {"MultiSet", "MultiDelete"} => a.count + a.rest = n
        BY <3>2, <3>3, <3>6 DEF Batches
      <3> QED
        BY <3>7, <3>8, <3>9 DEF a, m, n
    <2> QED
      BY <2>2, <2>3
  <1> QED
    BY <1>1, ServiceInvariance, PTL

\* A TTL that fits goes through the cast to uint32_t as it is.
LEMMA NarrowedTtl ==
    ASSUME NEW ttl \in Int
    PROVE  /\ ttl <= 0 => ttlNarrowed(ttl) = 0
           /\ ttl \in 1..(Modulus - 1) => ttlNarrowed(ttl) = ttl
  BY ModulusAssumption DEF ttlNarrowed

\* What a handler stores has the value and the deadline its message asks for
\* (CacheServiceImpl.cc:76-84, 193-199, 276-281), for any TTL.
THEOREM DeadlineAsAskedHolds == SpecS => DeadlineAsAsked
  <1> DEFINE AsAsked(t) ==
          Links(t) /\ msg[t].rpc \in {"Set", "SetNX", "MultiSet"} =>
             LET i   == attempted(msg[t])[Len(results[t]) + 1]
                 new == store'[i.key]
             IN  /\ new.val = i.val
                 /\ i.ttl <= 0 => new.expiry = 0
                 /\ i.ttl \in 1..(Modulus - 1 - new.created)
                       => new.expiry = new.created + i.ttl
  <1>1. ServiceInv /\ [NextH]_allVars => \A t \in Threads : AsAsked(t)
    <2> SUFFICES ASSUME ServiceInv, [NextH]_allVars, NEW t \in Threads, Links(t),
                        msg[t].rpc \in {"Set", "SetNX", "MultiSet"}
                 PROVE  AsAsked(t)
      OBVIOUS
    <2> DEFINE i == attempted(msg[t])[Len(results[t]) + 1]
               it == item[t]
    <2>1. HandlerInv /\ PlanOK(t) /\ TypeInv /\ ServiceTypes /\ pc[t] = "link"
          /\ pc'[t] = "reply"
      BY DEF ServiceInv, HandlerInv, Links
    <2>2. /\ i \in MessageItem /\ req[t] = requestOf(msg[t].rpc, i)
          /\ req[t].op = opOf(msg[t].rpc) /\ req[t].key = i.key /\ i.key \in Keys
      BY <2>1, CurrentCall
    <2>3. Link(t)
      <3>1. HandlerStep(t)
        BY <2>1, HandlerSteps
      <3>2. DOMAIN pc = Threads
        BY <2>1 DEF TypeInv, TypeOK
      <3>3. ~SameLocals(t)
        BY <2>1 DEF SameLocals
      <3>4. ASSUME NEW m, Receive(t, m) \/ Respond(t) \/ Send(t) PROVE FALSE
        <4>1. pc' = pc
          BY <3>4 DEF Receive, Respond, Send, vars, locals
        <4> QED
          BY <2>1, <4>1
      <3>5. ~Issue(t) /\ ~Collect(t)
        BY <2>1 DEF Issue, Call, CallRefused, Begin, Collect, Return
      <3>6. Within(t)
        BY <3>1, <3>3, <3>4, <3>5 DEF HandlerStep
      <3> QED
        BY <2>1, <3>6
        DEF Within, Lock, Find, Decide, CopyThrows, Remove, Allocate, AllocateFails, Load
    <2>4. store'[i.key] = it /\ it \in Item
      <3>1. DOMAIN store = Keys /\ it \in Item
        BY <2>1 DEF TypeInv, TypeOK, LocalsOK
      <3>2. store' = [store EXCEPT ![req[t].key] = item[t]]
        BY <2>3 DEF Link
      <3> QED
        BY <2>2, <3>1, <3>2
    <2>5. req[t].op \in {"set", "setNX"}
      BY <2>2 DEF opOf
    <2>6. /\ it.val = req[t].val
          /\ it.expiry = IF req[t].ttl = 0 THEN 0 ELSE AddU32(it.created, req[t].ttl)
      BY <2>1, <2>5 DEF PlanOK
    <2>7. req[t].val = i.val /\ req[t].ttl = ttlNarrowed(i.ttl)
      BY <2>2 DEF requestOf
    <2>8. i.ttl \in Int /\ it.created \in U32
      BY <2>2, <2>4 DEF MessageItem, Item
    <2> HIDE DEF i, it
    <2>9. i.ttl <= 0 => it.expiry = 0
      BY <2>6, <2>7, <2>8, NarrowedTtl
    <2>10. ASSUME i.ttl \in 1..(Modulus - 1 - it.created)
           PROVE  it.expiry = it.created + i.ttl
      <3>1. i.ttl \in 1..(Modulus - 1) /\ i.ttl # 0 /\ i.ttl + it.created < Modulus
        BY <2>8, <2>10, ModulusAssumption DEF U32
      <3>2. req[t].ttl = i.ttl
        BY <2>7, <2>8, <3>1, NarrowedTtl
      <3>3. AddU32(it.created, i.ttl) = it.created + i.ttl
        BY <2>8, <3>1, ModulusAssumption DEF AddU32, U32
      <3> QED
        BY <2>6, <3>1, <3>2, <3>3
    <2> QED
      BY <2>4, <2>6, <2>7, <2>9, <2>10 DEF i
  <1>2. (\A t \in Threads : AsAsked(t)) <=>
        \A t \in Threads :
          Links(t) /\ msg[t].rpc \in {"Set", "SetNX", "MultiSet"} =>
             LET i   == attempted(msg[t])[Len(results[t]) + 1]
                 new == store'[i.key]
             IN  /\ new.val = i.val
                 /\ i.ttl <= 0 => new.expiry = 0
                 /\ i.ttl \in 1..(Modulus - 1 - new.created)
                       => new.expiry = new.created + i.ttl
    OBVIOUS
  <1> QED
    BY <1>1, <1>2, ServiceInvariance, PTL DEF SpecS, DeadlineAsAsked
=============================================================================
