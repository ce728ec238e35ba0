----------------------------- MODULE DataClient -----------------------------
(***************************************************************************)
(* The client of the Ray Client data stream (class DataClient and what it  *)
(* uses of class Worker): blocking calls and asynchronous ones share a     *)
(* request queue that a data thread feeds to the stream.  A request stays  *)
(* outstanding until its caller has the response; when the stream breaks,  *)
(* the outstanding ones are queued again, in order, for the next stream.   *)
(***************************************************************************)
EXTENDS RequestIds, Sequences, SequencesExt

CONSTANTS
    Program,          \* the application: the i-th request is one of Program[i]
    FirstId,          \* ids already used, all of them acknowledged
    AckBatch          \* ACKNOWLEDGE_BATCH_SIZE

(***************************************************************************)
(* A request is a pair of its kind and its number of chunks.  PutObject    *)
(* and the requests "call" stands for (Init, Terminate, ListNamedActors,   *)
(* ...) block their caller; Schedule ("task"), ReleaseObject and           *)
(* RegisterGetCallback ("get") do not.                                     *)
(***************************************************************************)
Kinds == {"put", "call", "task", "release", "get"}
Blocking(kind) == kind \in {"put", "call"}

ASSUME ClientAssumption ==
    /\ Program \in Seq(SUBSET (Kinds \X (Nat \ {0})))
    /\ FirstId \in 0..IdMax
    /\ AckBatch \in Nat \ {0}

VARIABLES
    req_id,           \* _req_id
    made,             \* the requests made, in order
    request_queue,    \* requests, acknowledgements, and the sentinel "none"
    next_chunk,       \* the chunk of the first of them that is sent next
    outstanding_requests,
    asyncio_waiting_data,  \* ids with a callback
    ready_data,       \* ids whose response a blocked caller has yet to take
    blocked,          \* ids whose caller waits in _blocking_send
    acknowledge_counter,   \* modulo AckBatch
    data_thread,      \* "reading", "reconnecting" or "stopped"
    in_shutdown,      \* Worker._in_shutdown
    last_exception,   \* the code of the error that stopped the data thread
    answered, failed  \* ids whose caller got a response, an error

clientVars == <<req_id, made, request_queue, next_chunk, outstanding_requests,
                asyncio_waiting_data, ready_data, blocked, acknowledge_counter,
                data_thread, in_shutdown, last_exception, answered, failed>>

\* A request object; start is start_chunk_id of a get.
Req(type, id, total) == [type |-> type, id |-> id, start |-> 0, total |-> total]

\* DataClient._shutdown has run: no callback is left and callers give up.
Closed == data_thread = "stopped"

ClientInit ==
    /\ req_id = FirstId
    /\ made = <<>>
    /\ request_queue = <<>>
    /\ next_chunk = 0
    /\ outstanding_requests = <<>>
    /\ asyncio_waiting_data = {}
    /\ ready_data = {}
    /\ blocked = {}
    /\ acknowledge_counter = 0
    /\ data_thread = "reading"
    /\ in_shutdown = FALSE
    /\ last_exception = "OK"
    /\ answered = {}
    /\ failed = {}

NextId == Successor(req_id)

\* _blocking_send up to its wait, and _async_send.
Send(kind, total) ==
    /\ ~in_shutdown /\ ~Closed
    /\ LET r == Req(kind, NextId, total)
       IN  /\ made' = Append(made, r)
           /\ request_queue' = Append(request_queue, r)
           /\ outstanding_requests' = Append(outstanding_requests, r)
    /\ req_id' = NextId
    /\ IF Blocking(kind)
       THEN blocked' = blocked \cup {NextId} /\ UNCHANGED asyncio_waiting_data
       ELSE asyncio_waiting_data' = asyncio_waiting_data \cup {NextId} /\ UNCHANGED blocked
    /\ UNCHANGED <<next_chunk, ready_data, acknowledge_counter, data_thread, in_shutdown,
                   last_exception, answered, failed>>

Without(id) == SelectSeq(outstanding_requests, LAMBDA r : r.id # id)

\* _acknowledge: every AckBatch-th response is acknowledged.
Acknowledge(id) ==
    /\ acknowledge_counter' = (acknowledge_counter + 1) % AckBatch
    /\ request_queue' = IF acknowledge_counter' = 0
                        THEN Append(request_queue, Req("acknowledge", id, 1))
                        ELSE request_queue

\* _blocking_send after its wait: the caller finds its response.
Return(id) ==
    /\ id \in blocked \cap ready_data
    /\ ~in_shutdown /\ ~Closed
    /\ blocked' = blocked \ {id}
    /\ ready_data' = ready_data \ {id}
    /\ outstanding_requests' = Without(id)
    /\ Acknowledge(id)
    /\ answered' = answered \cup {id}
    /\ UNCHANGED <<req_id, made, next_chunk, asyncio_waiting_data, data_thread, in_shutdown,
                   last_exception, failed>>

\* _blocking_send after its wait: the client is shut down, and _check_shutdown
\* disconnects the worker, which joins the data thread, before it raises.
GiveUp(id) ==
    /\ id \in blocked
    /\ Closed
    /\ blocked' = blocked \ {id}
    /\ failed' = failed \cup {id}
    /\ in_shutdown' = TRUE
    /\ UNCHANGED <<req_id, made, request_queue, next_chunk, outstanding_requests,
                   asyncio_waiting_data, ready_data, acknowledge_counter, data_thread,
                   last_exception, answered>>
-----------------------------------------------------------------------------
\* The next chunk that _requests yields to the stream.
NextRequest ==
    LET r == Head(request_queue)
    IN  [type |-> r.type, id |-> r.id, total |-> r.total,
         chunk |-> IF r.type = "get" THEN r.start ELSE next_chunk]

SendChunk ==
    /\ request_queue # <<>>
    /\ LET more == /\ Head(request_queue).type \in {"put", "task"}
                   /\ next_chunk + 1 < Head(request_queue).total
       IN  /\ next_chunk' = IF more THEN next_chunk + 1 ELSE 0
           /\ request_queue' = IF more THEN request_queue ELSE Tail(request_queue)
    /\ UNCHANGED <<req_id, made, outstanding_requests, asyncio_waiting_data, ready_data, blocked,
                   acknowledge_counter, data_thread, in_shutdown, last_exception, answered, failed>>

\* The chunk a get waits for: ChunkCollector.last_seen_chunk + 1.
Expected(id) ==
    LET i == CHOOSE i \in DOMAIN outstanding_requests : outstanding_requests[i].id = id
    IN  outstanding_requests[i].start

\* The collector of a get stores a chunk and asks only for the rest.
Advance(id) ==
    [i \in DOMAIN outstanding_requests |->
        IF outstanding_requests[i].id = id
        THEN [outstanding_requests[i] EXCEPT !.start = @ + 1] ELSE outstanding_requests[i]]

\* _process_response: a callback takes a response, or a get's collector a chunk
\* of one (a repeated chunk is ignored, a gap ends the get with an error); any
\* other response is kept for a blocked caller.
ProcessResponse(resp) ==
    LET id == resp.id
        gap == resp.chunk > Expected(id)
        over == gap \/ resp.chunk = resp.total - 1
    IN  /\ \/ /\ id = 0
              /\ UNCHANGED <<asyncio_waiting_data, ready_data, outstanding_requests,
                             acknowledge_counter, request_queue, answered, failed>>
           \/ /\ id \in asyncio_waiting_data /\ over
              /\ asyncio_waiting_data' = asyncio_waiting_data \ {id}
              /\ outstanding_requests' = Without(id)
              /\ Acknowledge(id)
              /\ answered' = IF gap THEN answered ELSE answered \cup {id}
              /\ failed' = IF gap THEN failed \cup {id} ELSE failed
              /\ UNCHANGED ready_data
           \/ /\ id \in asyncio_waiting_data /\ ~over
              /\ outstanding_requests' = IF resp.chunk = Expected(id) THEN Advance(id)
                                         ELSE outstanding_requests
              /\ UNCHANGED <<asyncio_waiting_data, ready_data, acknowledge_counter,
                             request_queue, answered, failed>>
           \/ /\ id \notin asyncio_waiting_data \cup {0}
              /\ ready_data' = ready_data \cup {id}
              /\ UNCHANGED <<asyncio_waiting_data, outstanding_requests, acknowledge_counter,
                             request_queue, answered, failed>>
        /\ UNCHANGED <<req_id, made, next_chunk, blocked, data_thread, in_shutdown, last_exception>>

\* A mutant: the callbacks of asynchronous requests are dropped.
Stop_DropsCallbacks(code) ==
    /\ data_thread' = "stopped"
    /\ last_exception' = code
    /\ asyncio_waiting_data' = {}
    /\ UNCHANGED <<req_id, made, request_queue, next_chunk, outstanding_requests, ready_data,
                   blocked, acknowledge_counter, answered, failed>>

\* The data thread ends: _shutdown fails every callback.
Stop(code) ==
    /\ data_thread' = "stopped"
    /\ last_exception' = code
    /\ failed' = failed \cup asyncio_waiting_data
    /\ asyncio_waiting_data' = {}
    /\ UNCHANGED <<req_id, made, request_queue, next_chunk, outstanding_requests, ready_data,
                   blocked, acknowledge_counter, answered>>

\* The stream broke with an error that can be recovered from.
StartReconnect ==
    /\ data_thread' = "reconnecting"
    /\ UNCHANGED <<req_id, made, request_queue, next_chunk, outstanding_requests,
                   asyncio_waiting_data, ready_data, blocked, acknowledge_counter, in_shutdown,
                   last_exception, answered, failed>>

\* _reconnect_channel: a new queue holds the outstanding requests.
Requeue ==
    /\ data_thread = "reconnecting" /\ ~in_shutdown
    /\ data_thread' = "reading"
    /\ request_queue' = outstanding_requests
    /\ next_chunk' = 0
    /\ UNCHANGED <<req_id, made, outstanding_requests, asyncio_waiting_data, ready_data, blocked,
                   acknowledge_counter, in_shutdown, last_exception, answered, failed>>

\* Worker.close and DataClient.close, up to joining the data thread.
Close ==
    /\ ~in_shutdown
    /\ in_shutdown' = TRUE
    /\ request_queue' = request_queue \o <<Req("connection_cleanup", 0, 1), Req("none", 0, 1)>>
    /\ UNCHANGED <<req_id, made, next_chunk, outstanding_requests, asyncio_waiting_data,
                   ready_data, blocked, acknowledge_counter, data_thread, last_exception,
                   answered, failed>>
=============================================================================
