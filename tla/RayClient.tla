------------------------------ MODULE RayClient -----------------------------
(***************************************************************************)
(* A Ray Client session: the client (DataClient), the server (DataServicer *)
(* and its response cache), and the gRPC stream between them, which may    *)
(* break at any time and be replaced by another.  What was on the wire of  *)
(* a stream that breaks is lost in both directions.                        *)
(*                                                                         *)
(* A request that has left request_queue is in the queue of the stream's   *)
(* handler: one lost on the way is one not yet taken from request_queue,   *)
(* which the reconnection replaces.                                        *)
(***************************************************************************)
EXTENDS DataClient, DataServicer

VARIABLES
    stream,           \* the last stream opened
    up                \* whether it is unbroken

vars == <<clientVars, cacheVars, serverVars, stream, up>>

Current == IF up THEN stream ELSE 0

Init ==
    /\ ClientInit
    /\ ServerInit
    /\ CacheInit(FirstId)
    /\ stream = 1
    /\ up = TRUE

serverRest == <<collector, client_last_seen, others, executed>>
wire == <<stream, up>>

\* The application makes a request, or a blocked caller goes on.
MakeRequest ==
    /\ Len(made) < Len(Program)
    /\ \E r \in Program[Len(made) + 1] : Send(r[1], r[2])
    /\ UNCHANGED <<cacheVars, serverVars, wire>>

CallerReturns(id) == (Return(id) \/ GiveUp(id)) /\ UNCHANGED <<cacheVars, serverVars, wire>>

CloseClient == Close /\ UNCHANGED <<cacheVars, serverVars, wire>>

\* gRPC takes a chunk from _requests, and fill_queue puts it in the queue of the
\* stream's handler.
Transmit ==
    /\ up /\ data_thread = "reading"
    /\ handler[stream].phase \notin {"finally", "done"}
    /\ SendChunk
    /\ handler' = [handler EXCEPT ![stream].queue = Append(@, NextRequest)]
    /\ UNCHANGED <<cacheVars, serverRest, responses, wire>>

\* The data thread reads the next response, or the end of the stream.
Deliver ==
    /\ data_thread = "reading" /\ responses # <<>>
    /\ responses' = Tail(responses)
    /\ LET resp == Head(responses)
       IN  \/ resp.code = "OK" /\ ProcessResponse(resp) /\ UNCHANGED up
           \/ resp.code # "OK" /\ Stop(resp.code) /\ up' = FALSE /\ UNCHANGED in_shutdown
    /\ UNCHANGED <<cacheVars, serverRest, handler, stream>>

Break ==
    /\ up /\ data_thread = "reading" /\ stream < MaxStreams
    /\ up' = FALSE
    /\ responses' = <<>>
    /\ IF in_shutdown THEN Stop("UNAVAILABLE") /\ UNCHANGED in_shutdown ELSE StartReconnect
    /\ UNCHANGED <<cacheVars, serverRest, handler, stream>>

Reconnect ==
    /\ Requeue
    /\ stream' = stream + 1
    /\ up' = TRUE
    /\ InitStream(stream')

\* The grace period ends before the server answers, or the worker is closed.
ReconnectFails ==
    /\ data_thread = "reconnecting"
    /\ Stop("CONNECTION_ERROR")
    /\ in_shutdown' = TRUE
    /\ UNCHANGED <<cacheVars, serverVars, wire>>

HandlerStep(g) ==
    /\ \/ TakeCached(g, Current)
       \/ TakeChunk(g, Current)
       \/ TakeGet(g)
       \/ TakeAcknowledge(g)
       \/ TakeAnswer(g, Current)
       \/ Finish(g, Current)
       \/ Wake(g, Current)
       \/ ObjectReady(g)
       \/ LoopEnds(g, Current)
       \/ EndSession(g, Current)
    /\ UNCHANGED <<clientVars, wire>>

OtherClientComesOrGoes == OtherClient /\ UNCHANGED <<clientVars, wire>>

Next ==
    \/ MakeRequest
    \/ \E id \in ReqId : CallerReturns(id)
    \/ CloseClient
    \/ Transmit
    \/ Deliver
    \/ Break
    \/ Reconnect
    \/ ReconnectFails
    \/ \E g \in Streams : HandlerStep(g)
    \/ OtherClientComesOrGoes

Spec == Init /\ [][Next]_vars

(***************************************************************************)
(* The threads of both processes run, the object of a get becomes ready    *)
(* and a grace period ends.  Nobody has to make a request, close the       *)
(* client or break the stream.                                             *)
(***************************************************************************)
Fairness ==
    /\ \A id \in ReqId : WF_vars(CallerReturns(id))
    /\ WF_vars(Transmit)
    /\ WF_vars(Deliver)
    /\ WF_vars(Reconnect \/ ReconnectFails)
    /\ \A g \in Streams : WF_vars(HandlerStep(g))

FairSpec == Spec /\ Fairness
-----------------------------------------------------------------------------
(***************************************************************************)
(* The stream breaks and is replaced, handlers of old streams go on beside *)
(* the new one, requests are sent again: the session still does what       *)
(* SessionCalls promises.  Each request that changes the server is         *)
(* executed at most once and in the order of the calls, and a caller is    *)
(* answered only when its request was executed (the response cache of      *)
(* Datapath and the resending of _reconnect_channel).                      *)
(***************************************************************************)
Reads == {made[i].id : i \in {j \in DOMAIN made : made[j].type = "get"}}

Calls == INSTANCE SessionCalls
    WITH calls <- [i \in DOMAIN made |-> made[i].id], reads <- Reads, log <- executed,
         Ids <- ReqId

CallsRefined == Calls!Spec

(***************************************************************************)
(* An executed request that would be sent again on the next reconnection   *)
(* is answered from the response cache: acknowledgements, which cover all  *)
(* lower ids, never drop the response of a request whose caller has not    *)
(* got it.  The one exception is a response that _process_response left in *)
(* ready_data and that the blocked caller has yet to take.                 *)
(***************************************************************************)
OutstandingIds == {outstanding_requests[i].id : i \in DOMAIN outstanding_requests} \ Reads

RetryIsAnswered ==
    \A id \in OutstandingIds \cap Range(executed) :
        ~Closed => Cached(id) = "done" \/ id \in ready_data

(***************************************************************************)
(* Nobody waits for ever: every caller of _blocking_send and every         *)
(* callback of _async_send gets a response or an error, also when the      *)
(* stream breaks, the reconnection is refused, or the client is closed.    *)
(***************************************************************************)
Unsettled == {made[i].id : i \in DOMAIN made} \ (answered \cup failed)

EveryRequestSettles == []<>(Unsettled = {})

\* The server forgets the session of a client whose data thread ended, whichever
\* of the streams' handlers comes to its finally clause last.
SessionEnds == Closed ~> (client_last_seen = 0)

\* A client that loses responses and reconnects goes on (test_noisy_puts): the
\* data channel is not ended by an error of the server.
SessionSurvives == last_exception # "FAILED_PRECONDITION"
=============================================================================
