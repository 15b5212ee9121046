------------------------------ MODULE Pipeline ------------------------------
(***************************************************************************)
(* The bidirectional stream of CacheServiceImpl.cc: its handler reads a    *)
(* request, applies it to CacheManager, writes one response and reads      *)
(* again, until the client has half-closed the stream or is gone.          *)
(*                                                                         *)
(* Requests and responses travel in order through buffers of gRPC that     *)
(* hold Window messages each way; a full one blocks who writes to it.  A   *)
(* cancelled stream delivers nothing more, but the handler may still read  *)
(* a request that had come in before.  Write then fails, which the handler *)
(* does not look at.  Other threads call CacheManager meanwhile.           *)
(***************************************************************************)
EXTENDS CacheManager, RpcMessages

CONSTANTS
    Streams,    \* the gRPC threads that run Pipeline
    Frames,     \* what a client may send: [rpc, item]
    OtherRequests,  \* what the other threads ask of CacheManager
    Window,     \* messages the transport buffers each way
    MaxFrames   \* bound: requests of one stream

ASSUME PipelineAssumption ==
    /\ Streams \subseteq Threads
    /\ OtherRequests \subseteq Requests
    /\ EmptyKey \in Keys
    /\ Window \in Nat \ {0}
    /\ MaxFrames \in Nat

VARIABLES
    sent,       \* what the client has written, in order
    nread,      \* how much of it the handler has read
    written,    \* the responses the handler has written, in order
    ngot,       \* how many of them the client has read
    ended,      \* "open", "halfclosed" (WritesDone) or "cancelled"
    at,         \* where the handler is
    response    \* the response it is filling in

streamVars == <<sent, nread, written, ngot, ended, at, response>>

\* result is the oneof: "none" until one of its members is set.
NoResponse ==
    [id |-> 0, result |-> "none", ok |-> FALSE, val |-> EmptyText, error |-> ""]

InitP ==
    /\ Init
    /\ sent = [s \in Streams |-> <<>>]
    /\ nread = [s \in Streams |-> 0]
    /\ written = [s \in Streams |-> <<>>]
    /\ ngot = [s \in Streams |-> 0]
    /\ ended = [s \in Streams |-> "open"]
    /\ at = [s \in Streams |-> "idle"]
    /\ response = [s \in Streams |-> NoResponse]

Moves(s, from, to) ==
    /\ at[s] = from
    /\ at' = [at EXCEPT ![s] = to]

-----------------------------------------------------------------------------
\* The client writes a request; its sequence_id is its place.
ClientWrite(s, f) ==
    /\ ended[s] = "open"
    /\ at[s] # "returned"
    /\ Len(sent[s]) < MaxFrames
    /\ Len(sent[s]) - nread[s] < Window
    /\ sent' = [sent EXCEPT ![s] = Append(@, f)]
    /\ UNCHANGED <<vars, nread, written, ngot, ended, at, response>>

\* The client reads a response.
ClientRead(s) ==
    /\ ended[s] # "cancelled"
    /\ ngot[s] < Len(written[s])
    /\ ngot' = [ngot EXCEPT ![s] = @ + 1]
    /\ UNCHANGED <<vars, sent, nread, written, ended, at, response>>

\* WritesDone, or TryCancel.
ClientEnds(s, how) ==
    /\ at[s] # "returned"
    /\ ended[s] = "open" \/ (ended[s] = "halfclosed" /\ how = "cancelled")
    /\ ended' = [ended EXCEPT ![s] = how]
    /\ UNCHANGED <<vars, sent, nread, written, ngot, at, response>>

-----------------------------------------------------------------------------
\* The handler is called: it goes on if isReady(), else returns UNAVAILABLE.
Start(s) ==
    /\ Moves(s, "idle", IF phase = "up" THEN "reading" ELSE "returned")
    /\ UNCHANGED <<vars, sent, nread, written, ngot, ended, response>>

\* The error of a request that is not applied.
inBandError(f) ==
    IF f.rpc = "Unknown" THEN "Unknown operation"
    ELSE IF f.item.key = EmptyKey THEN "Key cannot be empty"
    ELSE ""

\* The operations of PipelineRequest, and what they ask of CacheManager.
ASSUME FramesAssumption ==
    \A f \in Frames :
        /\ f.rpc \in {"Get", "Set", "Delete", "Exists", "Unknown"}
        /\ inBandError(f) = "" => requestOf(f.rpc, f.item) \in Requests

\* The handler takes its next request, and fills fresh in with its id.
Takes(s, fresh) ==
    /\ at[s] = "reading"
    /\ nread[s] < Len(sent[s])
    /\ nread' = [nread EXCEPT ![s] = @ + 1]
    /\ LET error == inBandError(sent[s][nread[s] + 1])
       IN  /\ at' = [at EXCEPT ![s] = IF error = "" THEN "applying" ELSE "writing"]
           /\ response' = [response EXCEPT ![s] =
                 [fresh EXCEPT !.id = nread[s] + 1, !.error = error]]
    /\ UNCHANGED <<vars, sent, written, ngot, ended>>

\* A response whose value is that of the last one until it is set.
ReadReusing(s) ==
    Takes(s, [NoResponse EXCEPT !.val = response[s].val])

\* stream->Read returned true; the response is a new object.
Read(s) == Takes(s, NoResponse)

\* A half-closed stream is over, whatever is still to be read.
ReadEndsEarly(s) ==
    /\ Moves(s, "reading", "returned")
    /\ ended[s] # "open"
    /\ UNCHANGED <<vars, sent, nread, written, ngot, ended, response>>

\* stream->Read returned false, and Pipeline returns OK.
ReadEnds(s) ==
    /\ Moves(s, "reading", "returned")
    /\ \/ ended[s] = "cancelled"
       \/ ended[s] = "halfclosed" /\ nread[s] = Len(sent[s])
    /\ UNCHANGED <<vars, sent, nread, written, ngot, ended, response>>

\* The request in hand.
frame(s) == sent[s][nread[s]]

Apply(s) ==
    /\ Moves(s, "applying", "applied")
    /\ Call(s, requestOf(frame(s).rpc, frame(s).item))
    /\ UNCHANGED <<sent, nread, written, ngot, ended, response>>

\* CacheManager returned.  A value is only filled in when one was found.
Applied(s) ==
    /\ Moves(s, "applied", "writing")
    /\ Return(s)
    /\ response' = [response EXCEPT ![s].result = frame(s).rpc,
                                    ![s].ok = plan[s].res.ok,
                                    ![s].val = IF plan[s].res.ok /\ frame(s).rpc = "Get"
                                               THEN plan[s].res.val ELSE @]
    /\ UNCHANGED <<sent, nread, written, ngot, ended>>

\* No response for a request that is in error.
WriteUnlessError(s) ==
    /\ Moves(s, "writing", "reading")
    /\ ended[s] # "cancelled" => Len(written[s]) - ngot[s] < Window
    /\ written' = IF ended[s] = "cancelled" \/ response[s].error # "" THEN written
                  ELSE [written EXCEPT ![s] = Append(@, response[s])]
    /\ UNCHANGED <<vars, sent, nread, ngot, ended, response>>

\* stream->Write blocks while the window is full; on a cancelled stream it
\* fails, and the handler goes on.
Write(s) ==
    /\ Moves(s, "writing", "reading")
    /\ ended[s] # "cancelled" => Len(written[s]) - ngot[s] < Window
    /\ written' = IF ended[s] = "cancelled" THEN written
                  ELSE [written EXCEPT ![s] = Append(@, response[s])]
    /\ UNCHANGED <<vars, sent, nread, ngot, ended, response>>

-----------------------------------------------------------------------------
\* Inside CacheManager, any thread.
Inside(t) ==
    /\ \/ Lock(t) \/ Find(t) \/ Decide(t) \/ CopyThrows(t) \/ Remove(t)
       \/ Allocate(t) \/ AllocateFails(t) \/ Link(t)
    /\ UNCHANGED streamVars

Handle(s) ==
    \/ Start(s) \/ Read(s) \/ ReadEnds(s) \/ Apply(s) \/ Inside(s)
    \/ Applied(s) \/ Write(s)

\* The threads that serve other callers.
Others(t) ==
    \/ Inside(t)
    \/ Return(t) /\ UNCHANGED streamVars
    \/ (\E r \in OtherRequests : Call(t, r)) /\ UNCHANGED streamVars

ShutdownP == Shutdown /\ \A s \in Streams : at[s] \in {"idle", "returned"}

DoneP ==
    /\ phase = "down"
    /\ \A s \in Streams : at[s] = "returned"
    /\ UNCHANGED <<vars, streamVars>>

NextP ==
    \/ /\ Initialize \/ ShutdownP \/ \E k \in Keys : Drop(k)
       /\ UNCHANGED streamVars
    \/ \E s \in Streams :
          \/ \E f \in Frames : ClientWrite(s, f)
          \/ ClientRead(s) \/ Handle(s)
          \/ \E how \in {"halfclosed", "cancelled"} : ClientEnds(s, how)
    \/ \E t \in Threads \ Streams : Others(t)
    \/ DoneP

SpecP == InitP /\ [][NextP]_<<vars, streamVars>>

\* The server's threads run, and a client reads the responses it is sent.
FairSpecP ==
    /\ SpecP
    /\ \A s \in Streams : /\ WF_<<vars, streamVars>>(Handle(s))
                          /\ WF_<<vars, streamVars>>(ClientRead(s))
-----------------------------------------------------------------------------
\* The handler has read a request it has not answered yet.
InHand(s) == IF at[s] \in {"applying", "applied", "writing"} THEN 1 ELSE 0

\* "Clients send a stream of requests and receive responses in order": the
\* i-th response answers the i-th request, with its sequence_id, the member
\* of the oneof that belongs to it, or an error and no member; no request is
\* skipped or answered twice, errors in between or not
\* (CacheServiceImpl.cc:518-585).
ResponsesInOrder ==
    \A s \in Streams :
        /\ ended[s] # "cancelled" => Len(written[s]) + InHand(s) = nread[s]
        /\ \A i \in 1..Len(written[s]) :
              LET w == written[s][i]
                  f == sent[s][i]
              IN  /\ w.id = i
                  /\ w.error = inBandError(f)
                  /\ w.result = IF w.error = "" THEN f.rpc ELSE "none"

\* Somebody else than stream s may store under k.
StoredElsewhere(s, k) ==
    \/ \E r \in OtherRequests :
          r.key = k /\ r.op \notin {"get", "exists", "getTTL", "getStats", "remove"}
    \/ \E u \in Streams \ {s} : \E i \in DOMAIN sent[u] :
          sent[u][i].rpc = "Set" /\ sent[u][i].item.key = k

\* The i-th request stored a value or removed the key, by its response.
Wrote(s, i, k) ==
    LET f == sent[s][i]
    IN  /\ f.item.key = k
        /\ f.rpc = "Delete" \/ (f.rpc = "Set" /\ written[s][i].ok)

\* A stream sees its own writes: what a Get finds under a key nobody else
\* stores to is what the last write of this stream to it stored, for all the
\* evictions and the deletes of others in between, or no value at all if its
\* copy threw; and a Get that finds nothing carries no value, of an earlier
\* response for instance (CacheServiceImpl.cc:519-554).
OwnWritesSeen ==
    \A s \in Streams : \A i \in 1..Len(written[s]) :
        LET w == written[s][i]
            k == sent[s][i].item.key
            writes == {j \in 1..(i - 1) : Wrote(s, j, k)}
        IN  w.result = "Get" /\ ~StoredElsewhere(s, k) =>
              IF ~w.ok THEN w.val = EmptyText
              ELSE \E j \in writes :
                      /\ \A l \in writes : l <= j
                      /\ sent[s][j].rpc = "Set"
                      /\ w.val \in {sent[s][j].item.val, EmptyText}

\* When the client is done, the stream ends: after the last response when it
\* half-closed the stream, in any case when it is gone
\* (CacheServiceImpl.cc:518, 584-587).
StreamEnds ==
    \A s \in Streams :
        ended[s] # "open" ~>
            /\ at[s] = "returned"
            /\ \/ ended[s] = "cancelled"
               \/ nread[s] = 0   \* UNAVAILABLE
               \/ ngot[s] = Len(sent[s])
=============================================================================
