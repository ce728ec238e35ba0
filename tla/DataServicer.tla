---------------------------- MODULE DataServicer ----------------------------
(***************************************************************************)
(* The server of the Ray Client data stream for one client: the generator  *)
(* Datapath runs once per stream, and the one of a broken stream goes on   *)
(* beside that of the stream that replaces it.  A handler takes requests   *)
(* off its queue one by one; a request that is cached is first looked up   *)
(* in the response cache, then executed, then its response is recorded and *)
(* yielded.  gRPC asks a generator for more only while its stream is       *)
(* active, so a handler of a broken stream stops at the next yield.        *)
(*                                                                         *)
(* The session is as it is once the "init" request was served: the client  *)
(* is known and its grace period is not zero.                              *)
(***************************************************************************)
EXTENDS OrderedResponseCache, FiniteSets

CONSTANTS
    MaxStreams,       \* bound: streams the client opens
    Threshold,        \* CLIENT_SERVER_MAX_THREADS / 2
    MaxOthers         \* bound: other clients of the server

ASSUME ServicerAssumption ==
    MaxStreams \in Nat \ {0} /\ Threshold \in Nat /\ MaxOthers \in Nat

VARIABLES
    handler,          \* per stream: the state of its Datapath generator
    collector,        \* put_request_chunk_collector, client_task_chunk_collector
    client_last_seen, \* the stream that last set it, 0 once the session is removed
    others,           \* num_clients, this client excluded
    executed,         \* the cached requests executed, in order
    responses         \* the responses yielded to the client's current stream

serverVars == <<handler, collector, client_last_seen, others, executed, responses>>

Streams == 1..MaxStreams

\* A request as the stream carries it: one chunk of it.  The chunk of a "get" is
\* its start_chunk_id.
Request(type, id, chunk, total) == [type |-> type, id |-> id, chunk |-> chunk, total |-> total]
Response(id, chunk, total) == [code |-> "OK", id |-> id, chunk |-> chunk, total |-> total]
Status(code) == [code |-> code, id |-> 0, chunk |-> 0, total |-> 1]

NoRequest == Request("none", 0, 0, 1)
NoChunks == [id |-> 0, last |-> -1]      \* curr_req_id and last_seen_chunk_id

Idle(phase) ==
    [phase |-> phase, queue |-> <<>>, cur |-> NoRequest, yielded |-> FALSE, gets |-> {}]

IsLast(r) == r.chunk = r.total - 1

\* _should_cache
ShouldCache(r) == r.type \in {"call", "release"} \/ (r.type \in {"put", "task"} /\ IsLast(r))

ServerInit ==
    /\ handler = [g \in Streams |-> Idle(IF g = 1 THEN "loop" ELSE "none")]
    /\ collector = [type \in {"put", "task"} |-> NoChunks]
    /\ client_last_seen = 1
    /\ others = 0
    /\ executed = <<>>
    /\ responses = <<>>

NumClients == others + (IF client_last_seen = 0 THEN 0 ELSE 1)

\* add_chunk: an earlier request still being collected, or a gap, is an error.
ChunkFits(r) ==
    /\ collector[r.type].id \in {0, r.id}
    /\ r.chunk <= collector[r.type].last + 1

Collected(r) ==
    [collector EXCEPT ![r.type] = [id |-> r.id, last |-> IF r.chunk > @.last THEN r.chunk ELSE @.last]]

\* A gap is noticed after the collector has taken the request as its own.
Claimed(r) == [collector EXCEPT ![r.type].id = IF @ = 0 THEN r.id ELSE @]

Live(g, stream) == g = stream

\* yield: what a broken stream yields is lost, and its generator stops there.
Yield(g, stream, r, rest) ==
    /\ handler' = [handler EXCEPT ![g] =
                      [@ EXCEPT !.phase = "loop", !.cur = NoRequest, !.yielded = TRUE, !.queue = rest]]
    /\ responses' = IF Live(g, stream) THEN Append(responses, r) ELSE responses

\* The except clause: the RuntimeErrors of the cache and of the collectors are
\* not recoverable, so the client is told FAILED_PRECONDITION.
Fail(g, stream) ==
    /\ Invalidate
    /\ handler' = [handler EXCEPT ![g] = Idle("finally")]
    /\ responses' = IF Live(g, stream)
                    THEN Append(responses, Status("FAILED_PRECONDITION")) ELSE responses
-----------------------------------------------------------------------------
(***************************************************************************)
(* Take: the next item of the queue of an idle handler.                    *)
(***************************************************************************)
Ready(g) == handler[g].phase = "loop" /\ handler[g].queue # <<>>

Item(g) == Head(handler[g].queue)

Rest(g) == Tail(handler[g].queue)

Proceed(g) == [handler EXCEPT ![g] = [@ EXCEPT !.queue = Rest(g), !.yielded = FALSE]]

\* A request whose response is cached: unknown, in progress, answered or gone.
TakeCached(g, stream) ==
    /\ Ready(g) /\ ShouldCache(Item(g))
    /\ LET r == Item(g)
           found == CheckCache(r.id)
       IN  \/ /\ found = "absent"
              /\ InsertPlaceholder(r.id)
              /\ handler' = [Proceed(g) EXCEPT ![g].phase = "exec", ![g].cur = r]
              /\ UNCHANGED responses
           \/ /\ found = "pending"
              /\ handler' = [Proceed(g) EXCEPT ![g].phase = "wait", ![g].cur = r]
              /\ UNCHANGED <<cacheVars, responses>>
           \/ /\ found = "done"
              /\ Yield(g, stream, Response(r.id, 0, 1), Rest(g))
              /\ UNCHANGED cacheVars
           \/ /\ found \in {"gone", "error"}
              /\ Fail(g, stream)
    /\ UNCHANGED <<collector, client_last_seen, others, executed>>

\* A chunk that is not the last one of its request.
TakeChunk(g, stream) ==
    /\ Ready(g) /\ Item(g).type \in {"put", "task"} /\ ~IsLast(Item(g))
    /\ \/ /\ ChunkFits(Item(g))
          /\ collector' = Collected(Item(g))
          /\ handler' = Proceed(g)
          /\ UNCHANGED <<cacheVars, responses>>
       \/ /\ ~ChunkFits(Item(g))
          /\ Fail(g, stream)
          /\ collector' = Claimed(Item(g))
    /\ UNCHANGED <<client_last_seen, others, executed>>

\* _async_get_object registers a callback that answers through this queue.
TakeGet(g) ==
    /\ Ready(g) /\ Item(g).type = "get"
    /\ handler' = [Proceed(g) EXCEPT ![g].gets = @ \cup {Item(g)}]
    /\ UNCHANGED <<cacheVars, collector, client_last_seen, others, executed, responses>>

TakeAcknowledge(g) ==
    /\ Ready(g) /\ Item(g).type = "acknowledge"
    /\ CleanupCache(Item(g).id)
    /\ handler' = Proceed(g)
    /\ UNCHANGED <<collector, client_last_seen, others, executed, responses>>

\* The answers to an asynchronous get and the connection_cleanup request are
\* yielded as they come off the queue.
TakeAnswer(g, stream) ==
    /\ Ready(g) /\ Item(g).type \in {"answer", "connection_cleanup"}
    /\ Yield(g, stream, Response(Item(g).id, Item(g).chunk, Item(g).total), Rest(g))
    /\ UNCHANGED <<cacheVars, collector, client_last_seen, others, executed>>
-----------------------------------------------------------------------------
\* The request runs, and its response is recorded and yielded.  A last chunk
\* that was seen before is skipped, which leaves the placeholder as it is.
Finish(g, stream) ==
    /\ handler[g].phase = "exec"
    /\ LET r == handler[g].cur
           chunked == r.type \in {"put", "task"}
           repeated == chunked /\ r.chunk <= collector[r.type].last
       IN  \/ /\ chunked => ChunkFits(r)
              /\ executed' = IF repeated THEN executed ELSE Append(executed, r.id)
              /\ collector' = IF chunked /\ ~repeated
                              THEN [collector EXCEPT ![r.type] = NoChunks] ELSE collector
              /\ IF repeated
                 THEN /\ handler' = [handler EXCEPT ![g] = [@ EXCEPT !.phase = "loop", !.cur = NoRequest]]
                      /\ UNCHANGED <<cacheVars, responses>>
                 ELSE IF r.id \in CachedIds
                 THEN UpdateCache(r.id) /\ Yield(g, stream, Response(r.id, 0, 1), handler[g].queue)
                 ELSE Fail(g, stream)
           \/ /\ chunked /\ ~ChunkFits(r)
              /\ Fail(g, stream)
              /\ collector' = Claimed(r)
              /\ UNCHANGED executed
    /\ UNCHANGED <<client_last_seen, others>>

\* check_cache waited for the placeholder to be filled or removed.
Wake(g, stream) ==
    /\ handler[g].phase = "wait"
    /\ LET id == handler[g].cur.id
       IN  \/ /\ Cached(id) = "done"
              /\ Yield(g, stream, Response(id, 0, 1), handler[g].queue)
              /\ UNCHANGED cacheVars
           \/ /\ Cached(id) \in {"absent", "error"}
              /\ Fail(g, stream)
    /\ UNCHANGED <<collector, client_last_seen, others, executed>>

\* send_get_response: the object is ready, its chunks go to the handler's queue.
ObjectReady(g) ==
    /\ \E r \in handler[g].gets :
          handler' = [handler EXCEPT
              ![g].gets = @ \ {r},
              ![g].queue = @ \o [i \in 1..(r.total - r.chunk) |->
                                    Request("answer", r.id, r.chunk + i - 1, r.total)]]
    /\ UNCHANGED <<cacheVars, collector, client_last_seen, others, executed, responses>>

\* The loop ends at the sentinel that follows the last request, or at a yield
\* once the stream is broken.
LoopEnds(g, stream) ==
    /\ handler[g].phase = "loop"
    /\ \/ Ready(g) /\ Item(g).type = "none"
       \/ ~Live(g, stream) /\ (handler[g].queue = <<>> \/ handler[g].yielded)
    /\ handler' = [handler EXCEPT ![g] = Idle("finally")]
    /\ UNCHANGED <<cacheVars, collector, client_last_seen, others, executed, responses>>

\* A mutant: a handler takes its own stream for a later one.
EndSession_OwnStreamCounts(g, stream) ==
    /\ handler[g].phase = "finally"
    /\ client_last_seen' = IF client_last_seen >= g THEN client_last_seen ELSE 0
    /\ handler' = [handler EXCEPT ![g] = Idle("done")]
    /\ responses' = IF Live(g, stream) THEN Append(responses, Status("END")) ELSE responses
    /\ UNCHANGED <<cacheVars, collector, others, executed>>

\* The finally clause, the grace period over or skipped: the session is removed
\* unless a later stream took it over.
EndSession(g, stream) ==
    /\ handler[g].phase = "finally"
    /\ client_last_seen' = IF client_last_seen > g THEN client_last_seen ELSE 0
    /\ handler' = [handler EXCEPT ![g] = Idle("done")]
    /\ responses' = IF Live(g, stream) THEN Append(responses, Status("END")) ELSE responses
    /\ UNCHANGED <<cacheVars, collector, others, executed>>

\* _init for a stream of a reconnecting client.
Accepts == NumClients < Threshold /\ client_last_seen # 0

Rejection == IF NumClients >= Threshold THEN "RESOURCE_EXHAUSTED" ELSE "NOT_FOUND"

InitStream(g) ==
    /\ client_last_seen' = IF Accepts THEN g ELSE client_last_seen
    /\ handler' = [handler EXCEPT ![g] = Idle(IF Accepts THEN "loop" ELSE "done")]
    /\ responses' = IF Accepts THEN <<>> ELSE <<Status(Rejection)>>
    /\ UNCHANGED <<cacheVars, collector, others, executed>>

OtherClient ==
    /\ others' \in {n \in 0..MaxOthers : n = others + 1 \/ n = others - 1}
    /\ others' > others => NumClients < Threshold
    /\ UNCHANGED <<cacheVars, handler, collector, client_last_seen, executed, responses>>
=============================================================================
