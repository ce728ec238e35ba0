---------------------------- MODULE PushManager ----------------------------
(***************************************************************************)
(* Rate limiting of outbound object pushes by a raylet                     *)
(* (src/ray/object_manager/push_manager.{h,cc}) together with the use that *)
(* ObjectManager::PushObjectInternal makes of it: every push request gets  *)
(* a fresh random push_id, every chunk is sent by a call captured with     *)
(* that push_id, and the completion of that call is posted back to         *)
(* OnChunkComplete.                                                        *)
(***************************************************************************)
EXTENDS Integers, FiniteSets, FiniteSetsExt

CONSTANTS
    Nodes,              \* destinations
    Objects,            \* objects that may be pushed
    NumChunks,          \* [Objects -> chunks of the object]
    MaxChunksInFlight,  \* max_chunks_in_flight_
    MaxPushes           \* bound: calls of PushObjectInternal in a behaviour

ASSUME PushAssumption ==
    /\ NumChunks \in [Objects -> Nat \ {0}]
    /\ MaxChunksInFlight \in Nat \ {0}
    /\ MaxPushes \in Nat

VARIABLES
    push_info,         \* push_info_: the active pushes, PushID -> PushState
    chunks_in_flight,  \* chunks_in_flight_
    chunks_remaining,  \* chunks_remaining_
    num_pushes,        \* push_ids handed out so far (source of fresh ids)
    rpcs,              \* chunk sends whose completion has not been handled
    sent               \* history: the chunks sent since the last StartPush

vars == <<push_info, chunks_in_flight, chunks_remaining, num_pushes, rpcs, sent>>

PushID == Nodes \X Objects
Chunks(p) == 0 .. NumChunks[p[2]] - 1

\* The state of the push p. chunk_send_fn is represented by the push_id that
\* the closure captured.
PushState(p) ==
    [num_chunks : {NumChunks[p[2]]}, chunk_send_fn : Nat,
     next_chunk_id : Chunks(p), num_chunks_inflight : Nat,
     num_chunks_to_send : 0 .. NumChunks[p[2]]]

\* A chunk handed to the rpc service, until its completion is handled.
ChunkRpc == [push : PushID, push_id : Nat, chunk : Nat]

TypeOK ==
    /\ DOMAIN push_info \subseteq PushID
    /\ push_info = [p \in DOMAIN push_info |-> push_info[p]]
    /\ \A p \in DOMAIN push_info : push_info[p] \in PushState(p)
    /\ chunks_in_flight \in Nat
    /\ chunks_remaining \in Int
    /\ num_pushes \in Nat
    /\ \A m \in rpcs : m \in ChunkRpc /\ m.chunk \in Chunks(m.push)
    /\ sent \in [PushID -> SUBSET Nat]

Init ==
    /\ push_info = [p \in {} |-> {}]
    /\ chunks_in_flight = 0
    /\ chunks_remaining = 0
    /\ num_pushes = 0
    /\ rpcs = {}
    /\ sent = [p \in PushID |-> {}]

----------------------------------------------------------------------------
\* PushState: a new push, and a push asked for again while it is active.

NewPushState(p, id) ==
    [num_chunks |-> NumChunks[p[2]], chunk_send_fn |-> id, next_chunk_id |-> 0,
     num_chunks_inflight |-> 0, num_chunks_to_send |-> NumChunks[p[2]]]

ResendAllChunks_KeepCount(s, id) ==
    [s EXCEPT !.chunk_send_fn = id]

ResendAllChunks(s, id) ==
    [num_chunks |-> s.num_chunks, chunk_send_fn |-> id,
     next_chunk_id |-> s.next_chunk_id,
     num_chunks_inflight |-> s.num_chunks_inflight,
     num_chunks_to_send |-> s.num_chunks]

\* The chunk i places after start, in the cyclic order of n chunks.
ChunkAt(start, i, n) == (start + i) % n

\* n calls of SendOneChunk on a push that has at least n chunks to send.
SendChunks(s, n) ==
    [num_chunks |-> s.num_chunks, chunk_send_fn |-> s.chunk_send_fn,
     next_chunk_id |-> ChunkAt(s.next_chunk_id, n, s.num_chunks),
     num_chunks_inflight |-> s.num_chunks_inflight + n,
     num_chunks_to_send |-> s.num_chunks_to_send - n]

CompleteChunk(s) == [s EXCEPT !.num_chunks_inflight = @ - 1]

AllChunksComplete_IgnoreToSend(s) == s.num_chunks_inflight <= 0
AllChunksComplete_IgnoreInflight(s) == s.num_chunks_to_send <= 0

AllChunksComplete(s) == s.num_chunks_inflight <= 0 /\ s.num_chunks_to_send <= 0

\* The i-th next call of SendOneChunk on push p (i counted from 0).
SendOneChunk(info, p, i) ==
    [push |-> p, push_id |-> info[p].chunk_send_fn,
     chunk |-> ChunkAt(info[p].next_chunk_id, i, info[p].num_chunks)]

\* The SendOneChunk calls the active pushes still have to make: <<push, i>>.
Unsent(info) ==
    UNION {{p} \X (0 .. info[p].num_chunks_to_send - 1) : p \in DOMAIN info}

\* Those of a batch of such calls that are on the push p.
Positions(info, batch, p) ==
    {i \in 0 .. info[p].num_chunks_to_send - 1 : <<p, i>> \in batch}

\* ScheduleRemainingPushes starting from push_info_ = info with in_flight
\* chunks and outstanding sends out: passes over the map (in any order), one
\* chunk of each push per pass, until the limit is hit or nothing is left.
ScheduleRemainingPushes_NoLimit(info, in_flight, out, done) ==
    LET batch == Unsent(info)
        Count(p) == Cardinality(Positions(info, batch, p))
        new == {SendOneChunk(info, u[1], u[2]) : u \in batch}
    IN  /\ push_info' = [p \in DOMAIN info |-> SendChunks(info[p], Count(p))]
        /\ chunks_in_flight' = in_flight + Cardinality(batch)
        /\ rpcs' = out \cup new
        /\ sent' = [p \in PushID |-> done[p] \cup {m.chunk : m \in {x \in new : x.push = p}}]

ScheduleRemainingPushes(info, in_flight, out, done) ==
    \E batch \in SUBSET Unsent(info) :
        LET Count(p) == Cardinality(Positions(info, batch, p))
            new == {SendOneChunk(info, u[1], u[2]) : u \in batch}
        IN  /\ Cardinality(batch) = Min({MaxChunksInFlight - in_flight,
                                         Cardinality(Unsent(info))})
            /\ \A u \in batch, v \in Unsent(info) : v[2] < u[2] => v \in batch
            /\ push_info' = [p \in DOMAIN info |-> SendChunks(info[p], Count(p))]
            /\ chunks_in_flight' = in_flight + Cardinality(batch)
            /\ rpcs' = out \cup new
            /\ sent' = [p \in PushID |-> done[p] \cup {m.chunk : m \in {x \in new : x.push = p}}]

----------------------------------------------------------------------------
\* ObjectManager::PushObjectInternal: a fresh push_id, then StartPush. The
\* rpc client exists; without one the request is dropped and nothing changes.
StartPush(p) ==
    /\ num_pushes < MaxPushes
    /\ num_pushes' = num_pushes + 1
    /\ LET active == p \in DOMAIN push_info
           state == IF active THEN ResendAllChunks(push_info[p], num_pushes)
                              ELSE NewPushState(p, num_pushes)
           before == IF active THEN push_info[p].num_chunks_to_send ELSE 0
       IN  /\ chunks_remaining' = chunks_remaining + state.num_chunks_to_send - before
           /\ ScheduleRemainingPushes([q \in DOMAIN push_info \cup {p} |->
                                          IF q = p THEN state ELSE push_info[q]],
                                      chunks_in_flight, rpcs,
                                      [sent EXCEPT ![p] = {}])

\* The send of a chunk finished, with success or with an error (the code
\* treats both alike), and its completion runs on the main event loop.
OnChunkComplete(m) ==
    /\ m \in rpcs
    /\ chunks_remaining' = chunks_remaining - 1
    /\ LET info == [push_info EXCEPT ![m.push] = CompleteChunk(@)]
           kept == {q \in DOMAIN info : ~(q = m.push /\ AllChunksComplete(info[q]))}
       IN  ScheduleRemainingPushes([q \in kept |-> info[q]], chunks_in_flight - 1,
                                   rpcs \ {m}, sent)
    /\ UNCHANGED num_pushes

Next ==
    \/ \E p \in PushID : StartPush(p)
    \/ \E m \in rpcs : OnChunkComplete(m)

Spec == Init /\ [][Next]_vars

\* gRPC answers or fails every send, so every completion is eventually posted.
FairSpec == Spec /\ WF_vars(\E m \in rpcs : OnChunkComplete(m))

----------------------------------------------------------------------------
\* OnChunkComplete dereferences push_info_[push_id] without looking whether
\* the push is still there: a push may not be erased while a send of it, of
\* this request or of an earlier one, is outstanding.
CompletionFindsPush == \A m \in rpcs : m.push \in DOMAIN push_info

\* The count that throttles the raylet is the number of sends really
\* outstanding, per push and in total, and never exceeds the limit.
FlowControl ==
    /\ chunks_in_flight = Cardinality(rpcs)
    /\ chunks_in_flight <= MaxChunksInFlight
    /\ \A p \in DOMAIN push_info :
          push_info[p].num_chunks_inflight = Cardinality({m \in rpcs : m.push = p})

\* Room under the limit is never left unused while a push has chunks to send.
WorkConserving ==
    chunks_in_flight < MaxChunksInFlight => Unsent(push_info) = {}

\* The chunks that the next calls of SendOneChunk on a push will send.
ToSend(s) ==
    {ChunkAt(s.next_chunk_id, i, s.num_chunks) : i \in 0 .. s.num_chunks_to_send - 1}

\* A request, also one that arrives while an earlier push of the object to
\* that node is half done, makes the push go through all the chunks with the
\* send function of that request, starting anywhere: when the push leaves
\* push_info_ no chunk is missing.
EveryChunkIsSent ==
    \A p \in PushID :
        IF p \in DOMAIN push_info
        THEN /\ sent[p] \cup ToSend(push_info[p]) = Chunks(p)
             /\ sent[p] \cap ToSend(push_info[p]) = {}
        ELSE sent[p] \in {{}, Chunks(p)}

\* Every push finishes once requests stop coming.
PushesFinish == <>[](push_info = [p \in {} |-> {}] /\ chunks_remaining = 0)

============================================================================
