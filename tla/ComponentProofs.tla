--------------------------- MODULE ComponentProofs --------------------------
(***************************************************************************)
(* Proofs about three components that one process runs: the push manager of *)
(* a node, the scheduling queue of an actor, and the request ids of a client's *)
(* connection.                                                             *)
(***************************************************************************)
EXTENDS PushManager, ActorSchedulingQueue, RequestIds, FiniteSetTheorems, FunctionTheorems,
        TLAPS

(***************************************************************************)
(* PushManager, for every set of nodes and objects, every number of chunks *)
(* and every limit.                                                        *)
(***************************************************************************)

\* Arithmetic of the chunk counter.

\* The number of chunk counts below n.
LEMMA IntervalSize ==
  ASSUME NEW n \in Nat
  PROVE  IsFiniteSet(0 .. n - 1) /\ Cardinality(0 .. n - 1) = n
  BY FS_Interval

\* A chunk index is in range, and there is one wrap-around at most.
LEMMA ChunkAtType ==
  ASSUME NEW n \in Nat, NEW a \in Nat, NEW i \in Nat, a < n, i <= n
  PROVE  /\ ChunkAt(a, i, n) \in Nat
         /\ ChunkAt(a, i, n) < n
         /\ a + i < n => ChunkAt(a, i, n) = a + i
         /\ a + i >= n => ChunkAt(a, i, n) = a + i - n
<1>1. (a + i) % n = IF a + i < n THEN a + i ELSE a + i - n
  OBVIOUS
<1> QED
  BY <1>1 DEF ChunkAt

\* The chunks of one round over the object are pairwise different.
LEMMA ChunkAtInjective ==
  ASSUME NEW n \in Nat, NEW a \in Nat, NEW i \in Nat, NEW j \in Nat,
         a < n, i < n, j < n, i # j
  PROVE  ChunkAt(a, i, n) # ChunkAt(a, j, n)
<1>1. /\ a + i < n => ChunkAt(a, i, n) = a + i
      /\ a + i >= n => ChunkAt(a, i, n) = a + i - n
  BY ChunkAtType
<1>2. /\ a + j < n => ChunkAt(a, j, n) = a + j
      /\ a + j >= n => ChunkAt(a, j, n) = a + j - n
  BY ChunkAtType
<1> QED
  BY <1>1, <1>2

\* One round over the object reaches every chunk.
LEMMA ChunkAtSurjective ==
  ASSUME NEW n \in Nat, NEW a \in Nat, NEW c \in Nat, a < n, c < n
  PROVE  \E i \in 0 .. n - 1 : ChunkAt(a, i, n) = c
<1>1. CASE c >= a
  <2>1. c - a \in 0 .. n - 1 /\ a + (c - a) < n
    BY <1>1
  <2>2. ChunkAt(a, c - a, n) = c
    BY <2>1, ChunkAtType
  <2> QED
    BY <2>1, <2>2
<1>2. CASE c < a
  <2>1. (c - a) + n \in 0 .. n - 1 /\ a + ((c - a) + n) >= n
    BY <1>2
  <2>2. ChunkAt(a, (c - a) + n, n) = c
    BY <2>1, ChunkAtType
  <2> QED
    BY <2>1, <2>2
<1> QED
  BY <1>1, <1>2

\* Position i after moving on by k chunks is position k + i.
LEMMA ChunkAtShift ==
  ASSUME NEW n \in Nat, NEW a \in Nat, NEW k \in Nat, NEW i \in Nat,
         a < n, k + i < n
  PROVE  ChunkAt(ChunkAt(a, k, n), i, n) = ChunkAt(a, k + i, n)
<1> DEFINE b == ChunkAt(a, k, n)
<1>1. /\ b \in Nat /\ b < n
      /\ a + k < n => b = a + k
      /\ a + k >= n => b = a + k - n
  BY ChunkAtType
<1> HIDE DEF b
<1>2. /\ b + i < n => ChunkAt(b, i, n) = b + i
      /\ b + i >= n => ChunkAt(b, i, n) = b + i - n
  BY <1>1, ChunkAtType
<1>3. /\ a + (k + i) < n => ChunkAt(a, k + i, n) = a + (k + i)
      /\ a + (k + i) >= n => ChunkAt(a, k + i, n) = a + (k + i) - n
  BY ChunkAtType
<1>4. ChunkAt(b, i, n) = ChunkAt(a, k + i, n)
  BY <1>1, <1>2, <1>3
<1> QED
  BY <1>4 DEF b

\* A set of naturals below t that contains whatever is below its members is an
\* initial segment.
LEMMA DownwardClosed ==
  ASSUME NEW t \in Nat, NEW D \in SUBSET (0 .. t - 1),
         \A x \in D, y \in 0 .. t - 1 : y < x => y \in D
  PROVE  /\ IsFiniteSet(D)
         /\ Cardinality(D) \in 0 .. t
         /\ D = 0 .. Cardinality(D) - 1
<1>1. IsFiniteSet(D) /\ Cardinality(D) \in Nat /\ Cardinality(D) <= t
  <2>1. IsFiniteSet(0 .. t - 1) /\ Cardinality(0 .. t - 1) = t
    BY FS_Interval
  <2> QED
    BY <2>1, FS_Subset, FS_CardinalityType, Zenon
<1>2. D \subseteq 0 .. Cardinality(D) - 1
  <2> SUFFICES ASSUME NEW x \in D, x >= Cardinality(D)
               PROVE  FALSE
    BY <1>1
  <2>1. 0 .. x \subseteq D
    OBVIOUS
  <2>2. Cardinality(0 .. x) = x + 1
    BY FS_Interval
  <2>3. Cardinality(0 .. x) <= Cardinality(D)
    <3> DEFINE I == 0 .. x
    <3>1. I \in SUBSET D
      BY <2>1
    <3> HIDE DEF I
    <3>2. Cardinality(I) <= Cardinality(D)
      BY <3>1, <1>1, FS_Subset, Zenon
    <3> QED
      BY <3>2 DEF I
  <2> QED
    BY <2>2, <2>3, <1>1
<1> DEFINE k == Cardinality(D)
<1>3. k \in Nat
  BY <1>1
<1> HIDE DEF k
<1>4. IsFiniteSet(0 .. k - 1) /\ Cardinality(0 .. k - 1) = k
  BY <1>3, FS_Interval
<1>5. D = 0 .. k - 1
  BY <1>2, <1>4, FS_Subset, Zenon DEF k
<1> QED
  BY <1>1, <1>5 DEF k

\* The union of two disjoint finite sets.
LEMMA DisjointUnion ==
  ASSUME NEW S, NEW T, IsFiniteSet(S), IsFiniteSet(T), S \cap T = {}
  PROVE  /\ IsFiniteSet(S \cup T)
         /\ Cardinality(S \cup T) = Cardinality(S) + Cardinality(T)
<1>1. Cardinality(S \cap T) = 0
  BY FS_EmptySet
<1>2. Cardinality(S) \in Nat /\ Cardinality(T) \in Nat
  BY FS_CardinalityType
<1>3. /\ IsFiniteSet(S \cup T)
      /\ Cardinality(S \cup T) = Cardinality(S) + Cardinality(T) - Cardinality(S \cap T)
  BY FS_Union, Zenon
<1> QED
  BY <1>1, <1>2, <1>3

----------------------------------------------------------------------------
\* The inductive invariant, as a predicate of what ScheduleRemainingPushes
\* works on: the map, the chunks in flight, the outstanding sends, the chunks
\* sent since the last request, and the number of push_ids handed out.
Consistent(info, in_flight, out, done, ids) ==
    /\ IsFiniteSet(DOMAIN info)
    /\ DOMAIN info \subseteq PushID
    /\ info = [p \in DOMAIN info |-> info[p]]
    /\ \A p \in DOMAIN info : info[p] \in PushState(p) /\ info[p].chunk_send_fn < ids
    /\ IsFiniteSet(out)
    /\ \A m \in out : /\ m \in [push : PushID, push_id : Nat, chunk : Nat]
                      /\ m.push \in DOMAIN info
                      /\ m.push_id < ids
                      /\ m.chunk \in Chunks(m.push)
                      /\ m.push_id = info[m.push].chunk_send_fn => m.chunk \in done[m.push]
    /\ in_flight = Cardinality(out)
    /\ in_flight <= MaxChunksInFlight
    /\ \A p \in DOMAIN info :
          info[p].num_chunks_inflight = Cardinality({m \in out : m.push = p})
    /\ done \in [PushID -> SUBSET Nat]
    /\ \A p \in DOMAIN info : /\ done[p] \cup ToSend(info[p]) = Chunks(p)
                              /\ done[p] \cap ToSend(info[p]) = {}
    /\ \A p \in PushID \ DOMAIN info : done[p] \in {{}, Chunks(p)}

IInv ==
    /\ Consistent(push_info, chunks_in_flight, rpcs, sent, num_pushes)
    /\ WorkConserving
    /\ chunks_remaining \in Int
    /\ num_pushes \in Nat

\* Fields of the states that the PushState operations return.
LEMMA SendChunksFields ==
  ASSUME NEW p \in PushID, NEW s \in PushState(p), NEW k \in 0 .. s.num_chunks_to_send
  PROVE  /\ SendChunks(s, k) \in PushState(p)
         /\ SendChunks(s, k).chunk_send_fn = s.chunk_send_fn
         /\ SendChunks(s, k).num_chunks_inflight = s.num_chunks_inflight + k
         /\ SendChunks(s, k).num_chunks_to_send = s.num_chunks_to_send - k
         /\ SendChunks(s, k).num_chunks = s.num_chunks
         /\ SendChunks(s, k).next_chunk_id = ChunkAt(s.next_chunk_id, k, s.num_chunks)
<1>1. /\ s.num_chunks \in Nat \ {0} /\ s.num_chunks = NumChunks[p[2]]
      /\ s.next_chunk_id \in 0 .. s.num_chunks - 1
      /\ s.num_chunks_to_send \in 0 .. s.num_chunks
      /\ s.num_chunks_inflight \in Nat
      /\ s.chunk_send_fn \in Nat
  BY PushAssumption, Zenon DEF PushState, Chunks, PushID
<1>2. ChunkAt(s.next_chunk_id, k, s.num_chunks) \in 0 .. s.num_chunks - 1
  <2>1. /\ s.next_chunk_id \in Nat /\ s.next_chunk_id < s.num_chunks
        /\ k \in Nat /\ k <= s.num_chunks
    BY <1>1
  <2>2. /\ ChunkAt(s.next_chunk_id, k, s.num_chunks) \in Nat
        /\ ChunkAt(s.next_chunk_id, k, s.num_chunks) < s.num_chunks
    BY <1>1, <2>1, ChunkAtType, Zenon
  <2> QED
    BY <1>1, <2>2
<1> QED
  BY <1>1, <1>2 DEF SendChunks, PushState, Chunks

\* After k sends, the chunks still to send are the old ones but for those k.
LEMMA ToSendAfter ==
  ASSUME NEW p \in PushID, NEW s \in PushState(p), NEW k \in 0 .. s.num_chunks_to_send
  PROVE  LET now == {ChunkAt(s.next_chunk_id, i, s.num_chunks) : i \in 0 .. k - 1}
         IN  /\ ToSend(s) = now \cup ToSend(SendChunks(s, k))
             /\ now \cap ToSend(SendChunks(s, k)) = {}
             /\ ToSend(s) \subseteq Chunks(p)
<1> DEFINE n == s.num_chunks
           a == s.next_chunk_id
           t == s.num_chunks_to_send
           now == {ChunkAt(a, i, n) : i \in 0 .. k - 1}
           later == {ChunkAt(a, i, n) : i \in k .. t - 1}
<1>1. /\ n \in Nat \ {0} /\ n = NumChunks[p[2]]
      /\ a \in 0 .. n - 1
      /\ t \in 0 .. n
  BY PushAssumption, Zenon DEF PushState, Chunks, PushID
<1>2. ToSend(SendChunks(s, k)) = later
  <2>1. ToSend(SendChunks(s, k)) = {ChunkAt(ChunkAt(a, k, n), i, n) : i \in 0 .. t - k - 1}
    BY SendChunksFields DEF ToSend
  <2> HIDE DEF n, a, t
  <2>2. \A i \in 0 .. t - k - 1 : ChunkAt(ChunkAt(a, k, n), i, n) = ChunkAt(a, k + i, n)
    BY <1>1, ChunkAtShift DEF t
  <2>3. {ChunkAt(ChunkAt(a, k, n), i, n) : i \in 0 .. t - k - 1} \subseteq later
    BY <2>2, <1>1 DEF t
  <2>4. later \subseteq {ChunkAt(ChunkAt(a, k, n), i, n) : i \in 0 .. t - k - 1}
    <3> SUFFICES ASSUME NEW i \in k .. t - 1
                 PROVE  \E j \in 0 .. t - k - 1 : ChunkAt(a, i, n) = ChunkAt(ChunkAt(a, k, n), j, n)
      OBVIOUS
    <3>1. i - k \in 0 .. t - k - 1 /\ k + (i - k) = i
      BY <1>1 DEF t
    <3> QED
      BY <3>1, <2>2
  <2> QED
    BY <2>1, <2>3, <2>4, Zenon
<1>3. ToSend(s) = now \cup later
  BY <1>1 DEF ToSend
<1>4. now \cap later = {}
  <2> HIDE DEF n, a, t
  <2> SUFFICES ASSUME NEW i \in 0 .. k - 1, NEW j \in k .. t - 1
               PROVE  ChunkAt(a, i, n) # ChunkAt(a, j, n)
    OBVIOUS
  <2>1. i \in Nat /\ j \in Nat /\ i < n /\ j < n /\ i # j
    BY <1>1 DEF t
  <2> QED
    BY <1>1, <2>1, ChunkAtInjective
<1>5. ToSend(s) \subseteq Chunks(p)
  <2> HIDE DEF n, a, t
  <2>1. \A i \in 0 .. t - 1 : ChunkAt(a, i, n) \in 0 .. n - 1
    <3> TAKE i \in 0 .. t - 1
    <3>1. i \in Nat /\ i <= n /\ a \in Nat /\ a < n
      BY <1>1
    <3>2. ChunkAt(a, i, n) \in Nat /\ ChunkAt(a, i, n) < n
      BY <1>1, <3>1, ChunkAtType, Zenon
    <3> QED
      BY <1>1, <3>2
  <2> QED
    BY <1>1, <2>1 DEF ToSend, Chunks, n, a, t
<1> QED
  BY <1>2, <1>3, <1>4, <1>5, Zenon

\* There are finitely many chunks to send.
LEMMA UnsentFinite ==
  ASSUME NEW info, IsFiniteSet(DOMAIN info), DOMAIN info \subseteq PushID,
         \A p \in DOMAIN info : info[p] \in PushState(p)
  PROVE  IsFiniteSet(Unsent(info))
<1> DEFINE rows == {{p} \X (0 .. info[p].num_chunks_to_send - 1) : p \in DOMAIN info}
           f == [p \in DOMAIN info |-> {p} \X (0 .. info[p].num_chunks_to_send - 1)]
<1>1. f \in Surjection(DOMAIN info, rows)
  <2>1. f \in [DOMAIN info -> rows]
    OBVIOUS
  <2>2. \A r \in rows : \E p \in DOMAIN info : f[p] = r
    OBVIOUS
  <2> QED
    BY <2>1, <2>2, Zenon DEF Surjection
<1>2. IsFiniteSet(rows)
  BY <1>1, FS_Surjection
<1>3. \A r \in rows : IsFiniteSet(r)
  <2> TAKE r \in rows
  <2> PICK p \in DOMAIN info : r = {p} \X (0 .. info[p].num_chunks_to_send - 1)
    OBVIOUS
  <2>1. info[p].num_chunks_to_send - 1 \in Int
    BY PushAssumption DEF PushState, PushID
  <2>2. IsFiniteSet(0 .. info[p].num_chunks_to_send - 1)
    BY <2>1, FS_Interval
  <2>3. IsFiniteSet({p})
    BY FS_Singleton, Zenon
  <2> QED
    BY <2>2, <2>3, FS_Product, Zenon
<1> HIDE DEF rows
<1>4. IsFiniteSet(UNION rows)
  BY <1>2, <1>3, FS_UNION
<1> QED
  BY <1>4 DEF Unsent, rows

\* The sends of the push p in a batch that goes round by round are the next
\* Count(p) ones.
LEMMA BatchOfPush ==
  ASSUME NEW info, NEW p \in DOMAIN info, p \in PushID, info[p] \in PushState(p),
         NEW batch \in SUBSET Unsent(info),
         \A u \in batch, v \in Unsent(info) : v[2] < u[2] => v \in batch
  PROVE  /\ Cardinality(Positions(info, batch, p)) \in 0 .. info[p].num_chunks_to_send
         /\ Positions(info, batch, p) = 0 .. Cardinality(Positions(info, batch, p)) - 1
<1> DEFINE t == info[p].num_chunks_to_send
           I == {i \in 0 .. t - 1 : <<p, i>> \in batch}
<1>1. t \in Nat
  BY PushAssumption DEF PushState, PushID
<1>2. \A i \in 0 .. t - 1 : <<p, i>> \in Unsent(info)
  BY DEF Unsent
<1>3. \A x \in I, y \in 0 .. t - 1 : y < x => y \in I
  <2> TAKE x \in I, y \in 0 .. t - 1
  <2> HAVE y < x
  <2>1. <<p, x>> \in batch /\ <<p, y>> \in Unsent(info)
    BY <1>2
  <2>2. <<p, y>>[2] < <<p, x>>[2]
    OBVIOUS
  <2>3. <<p, y>> \in batch
    BY <2>1, <2>2
  <2> QED
    BY <2>3
<1> HIDE DEF t
<1>4. I \in SUBSET (0 .. t - 1)
  OBVIOUS
<1> HIDE DEF I
<1>5. /\ Cardinality(I) \in 0 .. t
      /\ I = 0 .. Cardinality(I) - 1
  BY <1>1, <1>3, <1>4, DownwardClosed, Zenon
<1> QED
  BY <1>5 DEF I, t, Positions

\* The send of a chunk names the push, its send function and the chunk.
LEMMA SendOneChunkFields ==
  ASSUME NEW info, NEW p, NEW i
  PROVE  /\ SendOneChunk(info, p, i).push = p
         /\ SendOneChunk(info, p, i).push_id = info[p].chunk_send_fn
         /\ SendOneChunk(info, p, i).chunk =
               ChunkAt(info[p].next_chunk_id, i, info[p].num_chunks)
BY Zenon DEF SendOneChunk

\* ScheduleRemainingPushes keeps the map, the counters and the outstanding
\* sends consistent, and leaves no room unused.
LEMMA ScheduleKeeps ==
  ASSUME NEW info, NEW in_flight, NEW out, NEW done, NEW ids \in Nat,
         Consistent(info, in_flight, out, done, ids),
         ScheduleRemainingPushes(info, in_flight, out, done)
  PROVE  /\ Consistent(push_info', chunks_in_flight', rpcs', sent', ids)
         /\ WorkConserving'
<1> DEFINE Upto(p) == 0 .. info[p].num_chunks_to_send - 1
<1>1. PICK batch \in SUBSET Unsent(info) :
        LET Count(p) == Cardinality(Positions(info, batch, p))
            new == {SendOneChunk(info, u[1], u[2]) : u \in batch}
        IN  /\ Cardinality(batch) = Min({MaxChunksInFlight - in_flight,
                                         Cardinality(Unsent(info))})
            /\ \A u \in batch, v \in Unsent(info) : v[2] < u[2] => v \in batch
            /\ push_info' = [p \in DOMAIN info |-> SendChunks(info[p], Count(p))]
            /\ chunks_in_flight' = in_flight + Cardinality(batch)
            /\ rpcs' = out \cup new
            /\ sent' = [p \in PushID |-> done[p] \cup {m.chunk : m \in {x \in new : x.push = p}}]
  BY Zenon DEF ScheduleRemainingPushes
<1> DEFINE I(p) == Positions(info, batch, p)
           Count(p) == Cardinality(I(p))
           new == {SendOneChunk(info, u[1], u[2]) : u \in batch}
           newOf(p) == {m \in new : m.push = p}
<1>2. /\ IsFiniteSet(DOMAIN info) /\ DOMAIN info \subseteq PushID
      /\ \A p \in DOMAIN info : p \in PushID /\ info[p] \in PushState(p) /\ info[p].chunk_send_fn < ids
      /\ IsFiniteSet(out)
  BY Zenon DEF Consistent
<1>3. IsFiniteSet(Unsent(info)) /\ IsFiniteSet(batch)
  BY <1>2, UnsentFinite, FS_Subset, Zenon
<1>4. \A p \in DOMAIN info : Count(p) \in 0 .. info[p].num_chunks_to_send /\ I(p) = 0 .. Count(p) - 1
  <2> TAKE p \in DOMAIN info
  <2>1. \A u \in batch, v \in Unsent(info) : v[2] < u[2] => v \in batch
    BY <1>1, Zenon
  <2>2. p \in PushID /\ info[p] \in PushState(p)
    BY <1>2
  <2> QED
    BY <2>1, <2>2, BatchOfPush, Zenon
<1>5. \A p \in DOMAIN info : newOf(p) = {SendOneChunk(info, p, i) : i \in 0 .. Count(p) - 1}
  <2> TAKE p \in DOMAIN info
  <2>1. newOf(p) \subseteq {SendOneChunk(info, p, i) : i \in I(p)}
    <3> SUFFICES ASSUME NEW u \in batch, SendOneChunk(info, u[1], u[2]).push = p
                 PROVE  SendOneChunk(info, u[1], u[2]) \in {SendOneChunk(info, p, i) : i \in I(p)}
      BY Zenon
    <3>1. u[1] = p
      BY SendOneChunkFields
    <3>2. u \in Unsent(info)
      BY Zenon
    <3>3. u = <<p, u[2]>> /\ u[2] \in Upto(p)
      BY <3>1, <3>2 DEF Unsent
    <3>4. u[2] \in I(p)
      BY <3>3, Zenon DEF Positions
    <3> QED
      BY <3>1, <3>4
  <2>2. {SendOneChunk(info, p, i) : i \in I(p)} \subseteq newOf(p)
    <3> SUFFICES ASSUME NEW i \in I(p)
                 PROVE  SendOneChunk(info, p, i) \in newOf(p)
      BY Zenon
    <3>1. <<p, i>> \in batch /\ <<p, i>>[1] = p /\ <<p, i>>[2] = i
      BY Zenon DEF Positions
    <3>2. SendOneChunk(info, p, i) \in new
      BY <3>1, Zenon
    <3> QED
      BY <3>2, SendOneChunkFields
  <2>3. I(p) = 0 .. Count(p) - 1
    BY <1>4, Zenon
  <2> QED
    BY <2>1, <2>2, <2>3, Zenon
<1>6. \A p \in DOMAIN info :
         /\ info[p].num_chunks \in Nat /\ info[p].num_chunks = NumChunks[p[2]]
         /\ info[p].next_chunk_id \in Nat /\ info[p].next_chunk_id < info[p].num_chunks
         /\ info[p].num_chunks_to_send \in 0 .. info[p].num_chunks
         /\ info[p].num_chunks_inflight \in Nat
         /\ info[p].chunk_send_fn \in Nat
         /\ Count(p) \in Nat /\ Count(p) <= info[p].num_chunks_to_send
  <2> TAKE p \in DOMAIN info
  <2> HIDE DEF Count
  <2>1. /\ info[p] \in PushState(p) /\ p \in PushID
        /\ Count(p) \in 0 .. info[p].num_chunks_to_send
    BY <1>2, <1>4, Zenon
  <2> QED
    BY <2>1, PushAssumption DEF PushState, PushID, Chunks
<1>7. \A p \in DOMAIN info : IsFiniteSet(newOf(p)) /\ Cardinality(newOf(p)) = Count(p)
  <2> TAKE p \in DOMAIN info
  <2> DEFINE k == Count(p)
             f == [i \in 0 .. k - 1 |-> SendOneChunk(info, p, i)]
  <2> HIDE DEF k
  <2>1. k \in Nat /\ k <= info[p].num_chunks
    BY <1>6 DEF k
  <2>2. newOf(p) = {SendOneChunk(info, p, i) : i \in 0 .. k - 1}
    BY <1>5, Zenon DEF k
  <2>3. \A i, j \in 0 .. k - 1 : i # j => f[i] # f[j]
    <3> TAKE i, j \in 0 .. k - 1
    <3> HAVE i # j
    <3>0. info[p].num_chunks \in Nat
      BY <1>6, Zenon
    <3>1. i \in Nat /\ j \in Nat /\ i < info[p].num_chunks /\ j < info[p].num_chunks
      BY <2>1, <3>0
    <3>2. ChunkAt(info[p].next_chunk_id, i, info[p].num_chunks) # ChunkAt(info[p].next_chunk_id, j, info[p].num_chunks)
      BY <3>1, <1>6, ChunkAtInjective
    <3> QED
      BY <3>2, SendOneChunkFields
  <2> HIDE DEF newOf
  <2>4. f \in Bijection(0 .. k - 1, newOf(p))
    <3>1. f \in [0 .. k - 1 -> newOf(p)]
      BY <2>2, Zenon
    <3>2. \A m \in newOf(p) : \E i \in 0 .. k - 1 : f[i] = m
      BY <2>2, Zenon
    <3> QED
      BY <2>3, <3>1, <3>2, Fun_IsBij, Zenon
  <2>5. IsFiniteSet(0 .. k - 1) /\ Cardinality(0 .. k - 1) = k
    BY <2>1, IntervalSize, Zenon
  <2> QED
    BY <2>4, <2>5, FS_Bijection DEF ExistsBijection, k
<1>8. IsFiniteSet(new) /\ Cardinality(new) = Cardinality(batch)
  <2> DEFINE f == [u \in batch |-> SendOneChunk(info, u[1], u[2])]
  <2>1. \A u, v \in batch : u # v => f[u] # f[v]
    <3> TAKE u, v \in batch
    <3> HAVE u # v
    <3>1. /\ u[1] \in DOMAIN info /\ u = <<u[1], u[2]>> /\ u[2] \in Upto(u[1])
          /\ v[1] \in DOMAIN info /\ v = <<v[1], v[2]>> /\ v[2] \in Upto(v[1])
      <4>1. u \in Unsent(info) /\ v \in Unsent(info)
        BY Zenon
      <4> QED
        BY <4>1 DEF Unsent
    <3>2. CASE u[1] # v[1]
      BY <3>2, SendOneChunkFields
    <3>3. CASE u[1] = v[1]
      <4> DEFINE p == u[1]
                 i == u[2]
                 j == v[2]
      <4>1. p \in DOMAIN info /\ i # j /\ i \in Upto(p) /\ j \in Upto(p)
        BY <3>1, <3>3, Zenon
      <4> HIDE DEF p, i, j
      <4>0. info[p].num_chunks \in Nat /\ info[p].num_chunks_to_send \in 0 .. info[p].num_chunks
        BY <4>1, <1>6, Zenon
      <4>2. i \in Nat /\ j \in Nat /\ i < info[p].num_chunks /\ j < info[p].num_chunks
        BY <4>1, <4>0
      <4>3. ChunkAt(info[p].next_chunk_id, i, info[p].num_chunks) # ChunkAt(info[p].next_chunk_id, j, info[p].num_chunks)
        BY <4>1, <4>2, <1>6, ChunkAtInjective, Zenon
      <4>4. SendOneChunk(info, p, i) # SendOneChunk(info, p, j)
        BY <4>3, SendOneChunkFields
      <4> QED
        BY <4>4, <3>3, Zenon DEF p, i, j
    <3> QED
      BY <3>2, <3>3
  <2>2. f \in [batch -> new] /\ \A m \in new : \E u \in batch : f[u] = m
    BY Zenon
  <2> HIDE DEF f, new
  <2>3. f \in Bijection(batch, new)
    BY <2>1, <2>2, Fun_IsBij, Zenon
  <2> QED
    BY <2>3, <1>3, FS_Bijection, Zenon DEF ExistsBijection
<1> HIDE DEF I, Count, new, newOf, Upto
<1>9. \A m \in new :
         /\ m \in [push : PushID, push_id : Nat, chunk : Nat]
         /\ m.push \in DOMAIN info
         /\ m.push_id = info[m.push].chunk_send_fn
         /\ m.push_id < ids
         /\ m.chunk \in ToSend(info[m.push])
         /\ m.chunk \in Chunks(m.push)
  <2> TAKE m \in new
  <2>1. PICK u \in batch : m = SendOneChunk(info, u[1], u[2])
    BY Zenon DEF new
  <2> DEFINE p == u[1]
             i == u[2]
  <2>2. p \in DOMAIN info /\ i \in 0 .. info[p].num_chunks_to_send - 1
    <3>1. u \in Unsent(info)
      BY Zenon
    <3> QED
      BY <3>1 DEF Unsent
  <2>3. m = SendOneChunk(info, p, i)
    BY <2>1, Zenon
  <2> HIDE DEF p, i
  <2>4. p \in PushID /\ info[p] \in PushState(p) /\ info[p].chunk_send_fn < ids
    BY <1>2, <2>2, Zenon
  <2>5. m.push = p /\ m.push_id = info[p].chunk_send_fn
        /\ m.chunk = ChunkAt(info[p].next_chunk_id, i, info[p].num_chunks)
    BY <2>3, SendOneChunkFields
  <2>6. m.chunk \in ToSend(info[p])
    BY <2>2, <2>5, Zenon DEF ToSend
  <2>7. m.chunk \in Chunks(p)
    <3>1. 0 \in 0 .. info[p].num_chunks_to_send
      BY <1>6, <2>2
    <3> QED
      BY <2>4, <2>6, <3>1, ToSendAfter, Zenon
  <2>8. m \in [push : PushID, push_id : Nat, chunk : Nat]
    <3>1. info[p].chunk_send_fn \in Nat
      BY <1>6, <2>2, Zenon
    <3>2. m.chunk \in Nat
      BY <2>7, <2>4, PushAssumption DEF Chunks, PushID
    <3> QED
      BY <2>3, <2>4, <2>5, <3>1, <3>2, Zenon DEF SendOneChunk
  <2> QED
    BY <2>2, <2>4, <2>5, <2>6, <2>7, <2>8, Zenon
<1>10. new \cap out = {}
  <2> SUFFICES ASSUME NEW m \in new, m \in out PROVE FALSE
    BY Zenon
  <2>1. m.push \in DOMAIN info /\ m.chunk \in ToSend(info[m.push]) /\ m.push_id = info[m.push].chunk_send_fn
    BY <1>9, Zenon
  <2>2. m.chunk \in done[m.push]
    BY <2>1, Zenon DEF Consistent
  <2>3. done[m.push] \cap ToSend(info[m.push]) = {}
    BY <2>1 DEF Consistent
  <2> QED
    BY <2>1, <2>2, <2>3
<1>11. /\ push_info' = [p \in DOMAIN info |-> SendChunks(info[p], Count(p))]
       /\ chunks_in_flight' = in_flight + Cardinality(batch)
       /\ rpcs' = out \cup new
       /\ sent' = [p \in PushID |-> done[p] \cup {m.chunk : m \in newOf(p)}]
  BY <1>1, Zenon DEF Count, I, new, newOf
<1>12. \A p \in DOMAIN info :
         LET s == push_info'[p]
         IN  /\ s = SendChunks(info[p], Count(p))
             /\ s \in PushState(p)
             /\ s.chunk_send_fn = info[p].chunk_send_fn
             /\ s.num_chunks_inflight = info[p].num_chunks_inflight + Count(p)
             /\ s.num_chunks_to_send = info[p].num_chunks_to_send - Count(p)
  <2> TAKE p \in DOMAIN info
  <2>1. push_info'[p] = SendChunks(info[p], Count(p))
    BY <1>11, Zenon
  <2>2. p \in PushID /\ info[p] \in PushState(p) /\ Count(p) \in 0 .. info[p].num_chunks_to_send
    BY <1>2, <1>4, Zenon
  <2> QED
    BY <2>1, <2>2, SendChunksFields
<1>13. /\ IsFiniteSet(rpcs')
       /\ chunks_in_flight' = Cardinality(rpcs')
  <2>1. Cardinality(out \cup new) = Cardinality(out) + Cardinality(new) /\ IsFiniteSet(out \cup new)
    BY <1>2, <1>8, <1>10, DisjointUnion, Zenon
  <2> QED
    BY <2>1, <1>8, <1>11, Zenon DEF Consistent
<1>14. /\ chunks_in_flight' <= MaxChunksInFlight
       /\ chunks_in_flight' < MaxChunksInFlight => batch = Unsent(info)
  <2> DEFINE room == MaxChunksInFlight - in_flight
             all == Cardinality(Unsent(info))
  <2>1. in_flight \in Nat /\ in_flight <= MaxChunksInFlight /\ MaxChunksInFlight \in Nat
    BY PushAssumption, FS_CardinalityType, Zenon DEF Consistent
  <2>2. room \in Nat /\ all \in Nat /\ Cardinality(batch) \in Nat
    BY <2>1, <1>3, FS_CardinalityType
  <2>3. Cardinality(batch) = Min({room, all})
    BY <1>1, Zenon
  <2> HIDE DEF room, all
  <2>4. Min({room, all}) = IF room <= all THEN room ELSE all
    BY <2>2 DEF Min
  <2>5. chunks_in_flight' = in_flight + Cardinality(batch)
    BY <1>11, Zenon
  <2>6. Cardinality(batch) = all => batch = Unsent(info)
    BY <1>3, FS_Subset DEF all
  <2> QED
    BY <2>1, <2>2, <2>3, <2>4, <2>5, <2>6 DEF room
<1>15. \A p \in DOMAIN info :
         push_info'[p].num_chunks_inflight = Cardinality({m \in rpcs' : m.push = p})
  <2> TAKE p \in DOMAIN info
  <2> DEFINE outOf == {m \in out : m.push = p}
  <2>1. {m \in rpcs' : m.push = p} = outOf \cup newOf(p)
    BY <1>11, Zenon DEF newOf
  <2>2. outOf \cap newOf(p) = {}
    BY <1>10, Zenon DEF newOf
  <2>3. IsFiniteSet(outOf)
    BY <1>2, FS_Subset, Zenon
  <2>4. info[p].num_chunks_inflight = Cardinality(outOf)
    BY Zenon DEF Consistent
  <2> HIDE DEF outOf
  <2>5. IsFiniteSet(newOf(p)) /\ Cardinality(newOf(p)) = Count(p)
    BY <1>7, Zenon
  <2>6. Cardinality(outOf \cup newOf(p)) = Cardinality(outOf) + Cardinality(newOf(p))
    BY <2>2, <2>3, <2>5, DisjointUnion
  <2> QED
    BY <2>1, <2>4, <2>5, <2>6, <1>12, Zenon
<1>16. /\ sent' \in [PushID -> SUBSET Nat]
       /\ \A p \in DOMAIN info : /\ sent'[p] \cup ToSend(push_info'[p]) = Chunks(p)
                                 /\ sent'[p] \cap ToSend(push_info'[p]) = {}
       /\ \A p \in PushID \ DOMAIN info : sent'[p] = done[p]
  <2>1. \A p \in DOMAIN info :
          {m.chunk : m \in newOf(p)} =
            {ChunkAt(info[p].next_chunk_id, i, info[p].num_chunks) : i \in 0 .. Count(p) - 1}
    <3> TAKE p \in DOMAIN info
    <3>1. newOf(p) = {SendOneChunk(info, p, i) : i \in 0 .. Count(p) - 1}
      BY <1>5, Zenon
    <3> QED
      BY <3>1, SendOneChunkFields
  <2>2. \A p \in DOMAIN info : /\ sent'[p] \cup ToSend(push_info'[p]) = Chunks(p)
                               /\ sent'[p] \cap ToSend(push_info'[p]) = {}
    <3> TAKE p \in DOMAIN info
    <3> DEFINE now == {ChunkAt(info[p].next_chunk_id, i, info[p].num_chunks) : i \in 0 .. Count(p) - 1}
    <3>1. p \in PushID /\ info[p] \in PushState(p) /\ Count(p) \in 0 .. info[p].num_chunks_to_send
      BY <1>2, <1>4
    <3>2. /\ ToSend(info[p]) = now \cup ToSend(SendChunks(info[p], Count(p)))
          /\ now \cap ToSend(SendChunks(info[p], Count(p))) = {}
      BY <3>1, ToSendAfter
    <3>3. sent'[p] = done[p] \cup now
      BY <3>1, <1>11, <2>1, Zenon
    <3>4. push_info'[p] = SendChunks(info[p], Count(p))
      BY <1>12, Zenon
    <3>5. done[p] \cup ToSend(info[p]) = Chunks(p) /\ done[p] \cap ToSend(info[p]) = {}
      BY Zenon DEF Consistent
    <3> HIDE DEF now
    <3> QED
      BY <3>2, <3>3, <3>4, <3>5, Zenon
  <2>3. \A p \in PushID \ DOMAIN info : newOf(p) = {}
    BY <1>9, Zenon DEF newOf
  <2>4. \A p \in PushID \ DOMAIN info : sent'[p] = done[p]
    BY <2>3, <1>11
  <2>5. \A p \in PushID : Chunks(p) \in SUBSET Nat
    BY PushAssumption DEF Chunks, PushID
  <2>6. done \in [PushID -> SUBSET Nat]
    BY DEF Consistent
  <2>7. \A p \in PushID : sent'[p] \in SUBSET Nat
    BY <2>2, <2>4, <2>5, <2>6, Zenon
  <2> QED
    BY <2>2, <2>4, <2>7, <1>11, Zenon
<1>17. \A m \in rpcs' :
         /\ m \in [push : PushID, push_id : Nat, chunk : Nat]
         /\ m.push \in DOMAIN info
         /\ m.push_id < ids
         /\ m.chunk \in Chunks(m.push)
         /\ m.push_id = push_info'[m.push].chunk_send_fn => m.chunk \in sent'[m.push]
  <2> TAKE m \in rpcs'
  <2>1. CASE m \in out
    <3>1. /\ m \in [push : PushID, push_id : Nat, chunk : Nat]
          /\ m.push \in DOMAIN info
          /\ m.push_id < ids
          /\ m.chunk \in Chunks(m.push)
          /\ m.push_id = info[m.push].chunk_send_fn => m.chunk \in done[m.push]
      BY <2>1, Zenon DEF Consistent
    <3>2. done[m.push] \subseteq sent'[m.push]
      BY <3>1, <1>2, <1>11, Zenon
    <3> QED
      BY <3>1, <3>2, <1>12
  <2>2. CASE m \in new
    <3>1. m \in newOf(m.push)
      BY <2>2, Zenon DEF newOf
    <3>2. m.chunk \in sent'[m.push]
      BY <3>1, <1>11, <1>9, <2>2, <1>2
    <3> QED
      BY <2>2, <1>9, <3>2
  <2> QED
    BY <2>1, <2>2, <1>11, Zenon
<1>18. Consistent(push_info', chunks_in_flight', rpcs', sent', ids)
  <2>1. DOMAIN push_info' = DOMAIN info /\ push_info' = [p \in DOMAIN push_info' |-> push_info'[p]]
    BY <1>11, Zenon
  <2>2. \A p \in DOMAIN info : push_info'[p] \in PushState(p) /\ push_info'[p].chunk_send_fn < ids
    BY <1>12, <1>2
  <2>3. \A p \in PushID \ DOMAIN info : sent'[p] \in {{}, Chunks(p)}
    BY <1>16, Zenon DEF Consistent
  <2> QED
    BY <2>1, <2>2, <2>3, <1>2, <1>13, <1>14, <1>15, <1>16, <1>17, Zenon DEF Consistent
<1>19. WorkConserving'
  <2> SUFFICES ASSUME chunks_in_flight' < MaxChunksInFlight
               PROVE  \A p \in DOMAIN push_info' : 0 .. push_info'[p].num_chunks_to_send - 1 = {}
    BY DEF WorkConserving, Unsent
  <2>1. batch = Unsent(info)
    BY <1>14, Zenon
  <2> TAKE p \in DOMAIN push_info'
  <2>2. p \in DOMAIN info
    BY <1>11, Zenon
  <2> DEFINE t == info[p].num_chunks_to_send
  <2>3. t \in Nat /\ Count(p) \in Nat /\ Count(p) <= t
    BY <1>6, <2>2
  <2>4. Positions(info, batch, p) = 0 .. t - 1
    BY <2>1, <2>2 DEF Positions, Unsent
  <2>5. Count(p) = t
    <3>1. Count(p) = Cardinality(0 .. t - 1)
      BY <2>4, Zenon DEF Count, I
    <3> HIDE DEF t
    <3>2. Cardinality(0 .. t - 1) = t
      BY <2>3, FS_Interval
    <3> QED
      BY <3>1, <3>2, Zenon
  <2>6. push_info'[p].num_chunks_to_send = 0
    BY <2>2, <2>3, <2>5, <1>12
  <2> QED
    BY <2>6
<1> QED
  BY <1>18, <1>19, Zenon

----------------------------------------------------------------------------
\* A fresh or restarted push has every chunk of the object to send.
LEMMA AllToSend ==
  ASSUME NEW p \in PushID, NEW s \in PushState(p),
         s.num_chunks_to_send = s.num_chunks
  PROVE  ToSend(s) = Chunks(p)
<1> DEFINE n == s.num_chunks
           a == s.next_chunk_id
<1>1. n \in Nat /\ n = NumChunks[p[2]] /\ a \in Nat /\ a < n
  BY PushAssumption DEF PushState, Chunks, PushID
<1>2. ToSend(s) \subseteq Chunks(p)
  <2>1. 0 \in 0 .. s.num_chunks_to_send
    BY <1>1
  <2> QED
    BY <2>1, ToSendAfter, Zenon
<1>3. ToSend(s) = {ChunkAt(a, i, n) : i \in 0 .. n - 1}
  BY Zenon DEF ToSend
<1> HIDE DEF n, a
<1>4. \A c \in Chunks(p) : c \in Nat /\ c < n
  BY <1>1 DEF Chunks
<1>5. \A c \in Chunks(p) : \E i \in 0 .. n - 1 : ChunkAt(a, i, n) = c
  BY <1>1, <1>4, ChunkAtSurjective, ZenonT(40)
<1> QED
  BY <1>2, <1>3, <1>5, Zenon

\* A request for a push, new or repeated, keeps the invariant.
LEMMA StartPushKeeps ==
  ASSUME IInv, NEW p \in PushID, StartPush(p)
  PROVE  IInv'
<1> DEFINE active == p \in DOMAIN push_info
           state == IF active THEN ResendAllChunks(push_info[p], num_pushes)
                              ELSE NewPushState(p, num_pushes)
           before == IF active THEN push_info[p].num_chunks_to_send ELSE 0
           info == [q \in DOMAIN push_info \cup {p} |-> IF q = p THEN state ELSE push_info[q]]
           done == [sent EXCEPT ![p] = {}]
           ids == num_pushes + 1
<1>1. /\ num_pushes' = ids
      /\ chunks_remaining' = chunks_remaining + state.num_chunks_to_send - before
      /\ ScheduleRemainingPushes(info, chunks_in_flight, rpcs, done)
  BY DEF StartPush
<1>2. /\ Consistent(push_info, chunks_in_flight, rpcs, sent, num_pushes)
      /\ num_pushes \in Nat /\ chunks_remaining \in Int
  BY Zenon DEF IInv
<1>3. /\ state \in PushState(p)
      /\ state.num_chunks_to_send = state.num_chunks
      /\ state.chunk_send_fn = num_pushes
      /\ state.num_chunks_to_send \in Nat
      /\ before \in Nat
      /\ active => state.num_chunks_inflight = push_info[p].num_chunks_inflight
      /\ ~active => state.num_chunks_inflight = 0
  <2>1. CASE active
    <3>1. push_info[p] \in PushState(p)
      BY <2>1, <1>2, Zenon DEF Consistent
    <3> QED
      BY <2>1, <3>1, <1>2, PushAssumption DEF PushState, ResendAllChunks, PushID
  <2>2. CASE ~active
    BY <2>2, <1>2, PushAssumption DEF PushState, NewPushState, PushID, Chunks
  <2> QED
    BY <2>1, <2>2, Zenon
<1> HIDE DEF state, before
<1>4. Consistent(info, chunks_in_flight, rpcs, done, ids)
  <2>1. /\ DOMAIN info = DOMAIN push_info \cup {p}
        /\ info = [q \in DOMAIN info |-> info[q]]
        /\ info[p] = state
        /\ \A q \in DOMAIN push_info \ {p} : info[q] = push_info[q]
    BY Zenon
  <2>2. IsFiniteSet(DOMAIN info) /\ DOMAIN info \subseteq PushID
    <3>1. IsFiniteSet(DOMAIN push_info) /\ DOMAIN push_info \subseteq PushID
      BY <1>2, Zenon DEF Consistent
    <3> QED
      BY <3>1, <2>1, FS_AddElement, Zenon
  <2> HIDE DEF info
  <2>3. \A q \in DOMAIN info : info[q] \in PushState(q) /\ info[q].chunk_send_fn < ids
    <3> TAKE q \in DOMAIN info
    <3>1. CASE q = p
      BY <3>1, <2>1, <1>2, <1>3
    <3>2. CASE q # p
      <4>1. q \in DOMAIN push_info /\ info[q] = push_info[q]
        BY <3>2, <2>1, Zenon
      <4>2. push_info[q] \in PushState(q) /\ push_info[q].chunk_send_fn < num_pushes
        BY <4>1, <1>2, Zenon DEF Consistent
      <4>3. push_info[q].chunk_send_fn \in Nat
        BY <4>2, Zenon DEF PushState
      <4> QED
        BY <4>1, <4>2, <4>3, <1>2
    <3> QED
      BY <3>1, <3>2, Zenon
  <2>4. /\ done \in [PushID -> SUBSET Nat]
        /\ done[p] = {}
        /\ \A q \in PushID \ {p} : done[q] = sent[q]
    BY <1>2, Zenon DEF Consistent
  <2> HIDE DEF done
  <2>5. \A m \in rpcs : /\ m \in [push : PushID, push_id : Nat, chunk : Nat]
                        /\ m.push \in DOMAIN info
                        /\ m.push_id < ids
                        /\ m.chunk \in Chunks(m.push)
                        /\ m.push_id = info[m.push].chunk_send_fn => m.chunk \in done[m.push]
    <3> TAKE m \in rpcs
    <3>1. /\ m \in [push : PushID, push_id : Nat, chunk : Nat]
          /\ m.push \in DOMAIN push_info
          /\ m.push_id < num_pushes
          /\ m.chunk \in Chunks(m.push)
          /\ m.push_id = push_info[m.push].chunk_send_fn => m.chunk \in sent[m.push]
      BY <1>2, Zenon DEF Consistent
    <3>2. m.push_id \in Nat /\ m.push \in PushID
      BY <3>1, Zenon
    <3>3. CASE m.push = p
      BY <3>1, <3>2, <3>3, <2>1, <1>2, <1>3
    <3>4. CASE m.push # p
      BY <3>1, <3>2, <3>4, <2>1, <2>4, <1>2
    <3> QED
      BY <3>3, <3>4, Zenon
  <2>6. \A q \in DOMAIN info :
           info[q].num_chunks_inflight = Cardinality({m \in rpcs : m.push = q})
    <3> TAKE q \in DOMAIN info
    <3>1. CASE q \in DOMAIN push_info
      <4>1. push_info[q].num_chunks_inflight = Cardinality({m \in rpcs : m.push = q})
        BY <3>1, <1>2, Zenon DEF Consistent
      <4> QED
        BY <4>1, <3>1, <2>1, <1>3, Zenon
    <3>2. CASE q \notin DOMAIN push_info
      <4>1. {m \in rpcs : m.push = q} = {}
        BY <3>2, <1>2 DEF Consistent
      <4>2. q = p
        BY <3>2, <2>1, Zenon
      <4> QED
        BY <4>1, <4>2, <3>2, <2>1, <1>3, FS_EmptySet, Zenon
    <3> QED
      BY <3>1, <3>2, Zenon
  <2>7. \A q \in DOMAIN info : /\ done[q] \cup ToSend(info[q]) = Chunks(q)
                               /\ done[q] \cap ToSend(info[q]) = {}
    <3> TAKE q \in DOMAIN info
    <3>1. CASE q = p
      BY <3>1, <2>1, <2>4, <1>3, AllToSend, Zenon
    <3>2. CASE q # p
      <4>1. /\ sent[q] \cup ToSend(push_info[q]) = Chunks(q)
            /\ sent[q] \cap ToSend(push_info[q]) = {}
        BY <3>2, <2>1, <1>2, Zenon DEF Consistent
      <4> QED
        BY <4>1, <3>2, <2>1, <2>2, <2>4, Zenon
    <3> QED
      BY <3>1, <3>2, Zenon
  <2>8. \A q \in PushID \ DOMAIN info : done[q] \in {{}, Chunks(q)}
    BY <2>1, <2>4, <1>2, Zenon DEF Consistent
  <2>9. /\ IsFiniteSet(rpcs)
        /\ chunks_in_flight = Cardinality(rpcs)
        /\ chunks_in_flight <= MaxChunksInFlight
    BY <1>2 DEF Consistent
  <2> HIDE DEF ids
  <2> QED
    BY <2>1, <2>2, <2>3, <2>4, <2>5, <2>6, <2>7, <2>8, <2>9, Zenon DEF Consistent
<1> HIDE DEF info, done
<1>5. ids \in Nat
  BY <1>2
<1> HIDE DEF ids
<1>6. Consistent(push_info', chunks_in_flight', rpcs', sent', ids) /\ WorkConserving'
  BY <1>1, <1>4, <1>5, ScheduleKeeps, Zenon
<1>7. chunks_remaining' \in Int
  BY <1>1, <1>2, <1>3
<1> QED
  BY <1>1, <1>5, <1>6, <1>7, Zenon DEF IInv

\* Removing one of the elements that are counted.
LEMMA RemoveCounted ==
  ASSUME NEW S, IsFiniteSet(S), NEW x \in S
  PROVE  /\ IsFiniteSet(S \ {x})
         /\ Cardinality(S) \in Nat
         /\ Cardinality(S) > 0
         /\ Cardinality(S \ {x}) = Cardinality(S) - 1
<1>1. Cardinality(S) \in Nat
  BY FS_CardinalityType, Zenon
<1>2. Cardinality(S) # 0
  BY FS_EmptySet, Zenon
<1>3. IsFiniteSet(S \ {x}) /\ Cardinality(S \ {x}) = Cardinality(S) - 1
  BY FS_RemoveElement, Zenon
<1> QED
  BY <1>1, <1>2, <1>3

\* The completion of a send keeps the invariant.
LEMMA OnChunkCompleteKeeps ==
  ASSUME IInv, NEW m \in rpcs, OnChunkComplete(m)
  PROVE  IInv'
<1> DEFINE upd == [push_info EXCEPT ![m.push] = CompleteChunk(@)]
           kept == {q \in DOMAIN upd : ~(q = m.push /\ AllChunksComplete(upd[q]))}
           info == [q \in kept |-> upd[q]]
           out == rpcs \ {m}
           Of(S, q) == {x \in S : x.push = q}
<1>1. /\ num_pushes' = num_pushes
      /\ chunks_remaining' = chunks_remaining - 1
      /\ ScheduleRemainingPushes(info, chunks_in_flight - 1, out, sent)
  BY DEF OnChunkComplete
<1>2. /\ Consistent(push_info, chunks_in_flight, rpcs, sent, num_pushes)
      /\ num_pushes \in Nat /\ chunks_remaining \in Int
  BY DEF IInv
<1>3. /\ m.push \in DOMAIN push_info
      /\ DOMAIN upd = DOMAIN push_info
      /\ upd[m.push] = CompleteChunk(push_info[m.push])
      /\ \A q \in DOMAIN push_info \ {m.push} : upd[q] = push_info[q]
  BY <1>2, Zenon DEF Consistent
<1>4. /\ DOMAIN info = kept
      /\ info = [q \in DOMAIN info |-> info[q]]
      /\ \A q \in kept : info[q] = upd[q]
      /\ kept \subseteq DOMAIN push_info
      /\ DOMAIN push_info \ {m.push} \subseteq kept
      /\ m.push \notin kept => AllChunksComplete(upd[m.push])
  BY <1>3, Zenon
<1> HIDE DEF upd, kept, info
<1>5. \A q \in DOMAIN push_info :
         /\ q \in PushID
         /\ push_info[q] \in PushState(q)
         /\ push_info[q].chunk_send_fn < num_pushes
         /\ push_info[q].num_chunks_inflight = Cardinality(Of(rpcs, q))
         /\ IsFiniteSet(Of(rpcs, q))
         /\ sent[q] \cup ToSend(push_info[q]) = Chunks(q)
         /\ sent[q] \cap ToSend(push_info[q]) = {}
  BY <1>2, FS_Subset, Zenon DEF Consistent
<1>6. /\ m \in Of(rpcs, m.push)
      /\ Of(out, m.push) = Of(rpcs, m.push) \ {m}
      /\ \A q \in DOMAIN push_info \ {m.push} : Of(out, q) = Of(rpcs, q)
  OBVIOUS
<1> HIDE DEF Of
<1>7. /\ Cardinality(Of(rpcs, m.push)) \in Nat
      /\ Cardinality(Of(rpcs, m.push)) > 0
      /\ Cardinality(Of(out, m.push)) = Cardinality(Of(rpcs, m.push)) - 1
      /\ IsFiniteSet(Of(out, m.push))
  <2> DEFINE S == Of(rpcs, m.push)
  <2>1. IsFiniteSet(S) /\ m \in S
    BY <1>3, <1>5, <1>6, Zenon
  <2>2. Of(out, m.push) = S \ {m}
    BY <1>6
  <2> HIDE DEF S
  <2>3. /\ IsFiniteSet(S \ {m}) /\ Cardinality(S) \in Nat /\ Cardinality(S) > 0
        /\ Cardinality(S \ {m}) = Cardinality(S) - 1
    BY <2>1, RemoveCounted, Zenon
  <2> QED
    BY <2>2, <2>3, Zenon DEF S
<1>8. /\ upd[m.push] \in PushState(m.push)
      /\ upd[m.push].chunk_send_fn = push_info[m.push].chunk_send_fn
      /\ upd[m.push].num_chunks_inflight = Cardinality(Of(out, m.push))
      /\ upd[m.push].num_chunks_to_send = push_info[m.push].num_chunks_to_send
      /\ upd[m.push].num_chunks = push_info[m.push].num_chunks
      /\ upd[m.push].next_chunk_id = push_info[m.push].next_chunk_id
  <2> DEFINE s == push_info[m.push]
  <2>1. s \in PushState(m.push) /\ s.num_chunks_inflight = Cardinality(Of(rpcs, m.push))
    BY <1>3, <1>5, Zenon
  <2>2. s.num_chunks_inflight \in Nat /\ s.num_chunks_inflight > 0
    BY <2>1, <1>7, Zenon
  <2> HIDE DEF s
  <2>3. /\ CompleteChunk(s) \in PushState(m.push)
        /\ CompleteChunk(s).chunk_send_fn = s.chunk_send_fn
        /\ CompleteChunk(s).num_chunks_inflight = s.num_chunks_inflight - 1
        /\ CompleteChunk(s).num_chunks_to_send = s.num_chunks_to_send
        /\ CompleteChunk(s).num_chunks = s.num_chunks
        /\ CompleteChunk(s).next_chunk_id = s.next_chunk_id
    BY <2>1, <2>2 DEF CompleteChunk, PushState
  <2>4. upd[m.push] = CompleteChunk(s)
    BY <1>3, Zenon DEF s
  <2> QED
    BY <2>1, <2>3, <2>4, <1>7, Zenon DEF s
<1>9. \A q \in DOMAIN push_info :
         /\ upd[q] \in PushState(q)
         /\ upd[q].chunk_send_fn = push_info[q].chunk_send_fn
         /\ upd[q].num_chunks_inflight = Cardinality(Of(out, q))
         /\ ToSend(upd[q]) = ToSend(push_info[q])
  <2> TAKE q \in DOMAIN push_info
  <2>1. CASE q = m.push
    BY <2>1, <1>8, Zenon DEF ToSend
  <2>2. CASE q # m.push
    BY <2>2, <1>3, <1>5, <1>6, Zenon
  <2> QED
    BY <2>1, <2>2, Zenon
<1>10. Consistent(info, chunks_in_flight - 1, out, sent, num_pushes)
  <2>1. IsFiniteSet(DOMAIN info) /\ DOMAIN info \subseteq PushID
    <3>1. IsFiniteSet(DOMAIN push_info) /\ DOMAIN push_info \subseteq PushID
      BY <1>2, Zenon DEF Consistent
    <3> QED
      BY <3>1, <1>4, FS_Subset, Zenon
  <2>2. \A q \in DOMAIN info : info[q] \in PushState(q) /\ info[q].chunk_send_fn < num_pushes
    BY <1>4, <1>5, <1>9, Zenon
  <2>3. /\ IsFiniteSet(out)
        /\ chunks_in_flight - 1 = Cardinality(out)
        /\ chunks_in_flight - 1 <= MaxChunksInFlight
    <3>1. /\ IsFiniteSet(rpcs)
          /\ chunks_in_flight = Cardinality(rpcs)
          /\ chunks_in_flight <= MaxChunksInFlight
      BY <1>2, Zenon DEF Consistent
    <3>2. /\ IsFiniteSet(out) /\ Cardinality(rpcs) \in Nat
          /\ Cardinality(out) = Cardinality(rpcs) - 1
      BY <3>1, RemoveCounted
    <3> QED
      BY <3>1, <3>2, PushAssumption
  <2>4. AllChunksComplete(upd[m.push]) => ToSend(push_info[m.push]) = {} /\ Of(out, m.push) = {}
    <3> HAVE AllChunksComplete(upd[m.push])
    <3>1. /\ upd[m.push].num_chunks_inflight <= 0
          /\ upd[m.push].num_chunks_to_send <= 0
      BY Zenon DEF AllChunksComplete
    <3>2. Cardinality(Of(out, m.push)) = 0
      BY <3>1, <1>7, <1>8
    <3>3. Of(out, m.push) = {}
      BY <3>2, <1>7, FS_EmptySet, Zenon
    <3>4. push_info[m.push].num_chunks_to_send \in Nat
      BY <1>3, <1>5, PushAssumption DEF PushState, PushID
    <3>5. 0 .. push_info[m.push].num_chunks_to_send - 1 = {}
      BY <3>1, <3>4, <1>8
    <3> QED
      BY <3>3, <3>5, Zenon DEF ToSend
  <2>5. \A x \in out : /\ x \in [push : PushID, push_id : Nat, chunk : Nat]
                       /\ x.push \in DOMAIN info
                       /\ x.push_id < num_pushes
                       /\ x.chunk \in Chunks(x.push)
                       /\ x.push_id = info[x.push].chunk_send_fn => x.chunk \in sent[x.push]
    <3> TAKE x \in out
    <3>1. /\ x \in [push : PushID, push_id : Nat, chunk : Nat]
          /\ x.push \in DOMAIN push_info
          /\ x.push_id < num_pushes
          /\ x.chunk \in Chunks(x.push)
          /\ x.push_id = push_info[x.push].chunk_send_fn => x.chunk \in sent[x.push]
      BY <1>2, Zenon DEF Consistent
    <3>2. x.push \in kept
      <4>1. x \in Of(out, x.push)
        BY Zenon DEF Of
      <4> QED
        BY <4>1, <3>1, <1>4, <2>4
    <3> QED
      BY <3>1, <3>2, <1>4, <1>9, Zenon
  <2>6. \A q \in DOMAIN info :
           info[q].num_chunks_inflight = Cardinality({x \in out : x.push = q})
    BY <1>4, <1>9 DEF Of
  <2>7. \A q \in DOMAIN info : /\ sent[q] \cup ToSend(info[q]) = Chunks(q)
                               /\ sent[q] \cap ToSend(info[q]) = {}
    BY <1>4, <1>5, <1>9, Zenon
  <2>8. \A q \in PushID \ DOMAIN info : sent[q] \in {{}, Chunks(q)}
    <3> TAKE q \in PushID \ DOMAIN info
    <3>1. CASE q \in DOMAIN push_info
      <4>1. q = m.push
        BY <3>1, <1>4, Zenon
      <4>2. ToSend(push_info[q]) = {}
        BY <4>1, <1>4, <2>4, Zenon
      <4> QED
        BY <3>1, <4>2, <1>5, Zenon
    <3>2. CASE q \notin DOMAIN push_info
      BY <3>2, <1>2, Zenon DEF Consistent
    <3> QED
      BY <3>1, <3>2, Zenon
  <2>9. sent \in [PushID -> SUBSET Nat]
    BY <1>2, Zenon DEF Consistent
  <2> HIDE DEF out
  <2> QED
    BY <1>4, <2>1, <2>2, <2>3, <2>5, <2>6, <2>7, <2>8, <2>9, Zenon DEF Consistent
<1> HIDE DEF out
<1>11. Consistent(push_info', chunks_in_flight', rpcs', sent', num_pushes) /\ WorkConserving'
  BY <1>1, <1>2, <1>10, ScheduleKeeps
<1> QED
  BY <1>1, <1>2, <1>11 DEF IInv

----------------------------------------------------------------------------
\* The invariant holds in every reachable state.
LEMMA Invariance == Spec => []IInv
<1>1. Init => IInv
  <2> SUFFICES ASSUME Init PROVE IInv
    OBVIOUS
  <2>1. /\ DOMAIN push_info = {} /\ push_info = [p \in DOMAIN push_info |-> push_info[p]]
        /\ rpcs = {} /\ chunks_in_flight = 0 /\ chunks_remaining = 0 /\ num_pushes = 0
        /\ sent = [p \in PushID |-> {}]
    BY Zenon DEF Init
  <2>2. Consistent(push_info, chunks_in_flight, rpcs, sent, num_pushes)
    BY <2>1, FS_EmptySet, PushAssumption DEF Consistent
  <2>3. WorkConserving
    BY <2>1, Zenon DEF WorkConserving, Unsent
  <2> QED
    BY <2>1, <2>2, <2>3 DEF IInv
<1>2. IInv /\ [Next]_vars => IInv'
  <2> SUFFICES ASSUME IInv, [Next]_vars PROVE IInv'
    OBVIOUS
  <2>1. CASE \E p \in PushID : StartPush(p)
    BY <2>1, StartPushKeeps
  <2>2. CASE \E m \in rpcs : OnChunkComplete(m)
    BY <2>2, OnChunkCompleteKeeps, Zenon
  <2>3. CASE UNCHANGED vars
    BY <2>3 DEF vars, IInv, Consistent, WorkConserving, Unsent, PushState, ToSend
  <2> QED
    BY <2>1, <2>2, <2>3 DEF Next
<1> QED
  BY <1>1, <1>2, PTL DEF Spec

\* Every variable keeps its type: chunk indices stay below the number of
\* chunks although next_chunk_id_ wraps, and counters do not go negative.
THEOREM TypeCorrect == Spec => []TypeOK
<1>1. IInv => TypeOK
  <2> SUFFICES ASSUME IInv PROVE TypeOK
    OBVIOUS
  <2>1. Consistent(push_info, chunks_in_flight, rpcs, sent, num_pushes)
    BY Zenon DEF IInv
  <2>2. chunks_in_flight \in Nat
    BY <2>1, FS_CardinalityType DEF Consistent
  <2> QED
    BY <2>1, <2>2 DEF TypeOK, IInv, Consistent, ChunkRpc
<1> QED
  BY <1>1, Invariance, PTL

\* No completion finds its push erased (push_manager.cc:44 dereferences it).
THEOREM CompletionIsSafe == Spec => []CompletionFindsPush
<1>1. IInv => CompletionFindsPush
  BY Zenon DEF IInv, Consistent, CompletionFindsPush
<1> QED
  BY <1>1, Invariance, PTL

\* The in-flight counters equal the sends outstanding and respect the limit.
THEOREM FlowIsControlled == Spec => []FlowControl
<1>1. IInv => FlowControl
  BY Zenon DEF IInv, Consistent, FlowControl
<1> QED
  BY <1>1, Invariance, PTL

\* Every accepted request goes through all the chunks of the object.
THEOREM NoChunkIsMissed == Spec => []EveryChunkIsSent
<1>1. IInv => EveryChunkIsSent
  BY DEF IInv, Consistent, EveryChunkIsSent
<1> QED
  BY <1>1, Invariance, PTL

\* Sending never pauses while there is room and something to send.
THEOREM NoIdleRoom == Spec => []WorkConserving
<1>1. IInv => WorkConserving
  BY Zenon DEF IInv
<1> QED
  BY <1>1, Invariance, PTL

-----------------------------------------------------------------------------
(***************************************************************************)
(* ActorSchedulingQueue: the queue starts tasks in order, each sequence number *)
(* at most once, and answers every request exactly once, whatever requests *)
(* arrive and in whatever order.                                           *)
(***************************************************************************)

\* What the queue's state must satisfy before and after every handler, with
\* the queued requests and next_seq_no_ as parameters: inside Add and
\* OnWaitComplete it also holds of the values handed to ScheduleRequests.
Queued(pend) ==
    /\ DOMAIN pend \subseteq Nat
    /\ pend = [s \in DOMAIN pend |-> pend[s]]
    /\ \A s \in DOMAIN pend :
          /\ pend[s] \in [request : Requests, can_execute : BOOLEAN]
          /\ pend[s].request.seq_no = s

Accounted(pend, recv, over) ==
    LET waiting == Inbound(pend, DOMAIN pend)
    IN  /\ recv = waiting \cup executing \cup Answered \cup over
        /\ waiting \cap (executing \cup Answered \cup over) = {}
        /\ executing \cap (Answered \cup over) = {}
        /\ Answered \cap over = {}
        /\ \A q, r \in replies : q[1] = r[1] => q = r

\* A number below next was executed or answered as skipped.
Complete(next, recv, gave) ==
    ~gave => \A s \in 0 .. next - 1 :
                 s \in executed \/ \E m \in recv : m.seq_no = s /\ m.skip_execution

QueueInv ==
    /\ QueueTypeOK
    /\ Queued(pending)
    /\ NoDoubleExecution
    /\ \A m \in executing : m.seq_no \in executed
    /\ Accounted(pending, received, superseded)
    /\ Complete(next_seq_no, received, gave_up)

LEMMA QueueScheduleKeeps ==
    ASSUME NEW pend, NEW next \in Nat, NEW recv \in SUBSET Requests,
           NEW over \in SUBSET recv, NEW gave \in BOOLEAN,
           Queued(pend), Accounted(pend, recv, over), Complete(next, recv, gave),
           executing \subseteq Requests, replies \subseteq Requests \X Statuses,
           executed \subseteq 0 .. next - 1,
           \A m \in executing : m.seq_no \in executed,
           \A m, n \in executing : m.seq_no = n.seq_no => m = n,
           ScheduleRequests(pend, next),
           timed_out' \in BOOLEAN, received' = recv, superseded' = over, gave_up' = gave
    PROVE  /\ QueueInv'
           /\ \A m \in executing' \ executing, s \in executed : s < m.seq_no
<1>0. PICK n \in next .. next + Cardinality(DOMAIN pend) :
        LET accepted == next .. n - 1
            skipped == {m \in Inbound(pend, accepted) : m.skip_execution}
            started == Inbound(pend, accepted) \ skipped
            stale == {s \in DOMAIN pend : s < next}
        IN  /\ \A k \in accepted : CanExecute(pend, k)
            /\ ~CanExecute(pend, n)
            /\ next_seq_no' = n
            /\ pending' = [s \in DOMAIN pend \ (stale \cup accepted) |-> pend[s]]
            /\ executing' = executing \cup started
            /\ executed' = executed \cup {m.seq_no : m \in started}
            /\ replies' = replies \cup (skipped \X {"OK"})
                                  \cup (Inbound(pend, stale) \X {"Invalid"})
  BY Zenon DEF ScheduleRequests
<1> DEFINE accepted == next .. n - 1
           skipped == {m \in Inbound(pend, accepted) : m.skip_execution}
           started == Inbound(pend, accepted) \ skipped
           stale == {s \in DOMAIN pend : s < next}
           rest == DOMAIN pend \ (stale \cup accepted)
<1>1. /\ \A k \in accepted : k \in DOMAIN pend
      /\ next_seq_no' = n
      /\ pending' = [s \in rest |-> pend[s]]
      /\ executing' = executing \cup started
      /\ executed' = executed \cup {m.seq_no : m \in started}
      /\ replies' = replies \cup (skipped \X {"OK"})
                            \cup (Inbound(pend, stale) \X {"Invalid"})
  BY <1>0, Zenon DEF CanExecute
<1>2. n \in Nat /\ n >= next
  BY <1>0
<1>a. \A k \in accepted : k \in DOMAIN pend
  BY <1>1, Zenon
<1>3. /\ \A m \in Inbound(pend, accepted) :
            m \in Requests /\ m.seq_no \in next .. n - 1
      /\ \A m \in Inbound(pend, stale) : m \in Requests /\ m.seq_no < next
      /\ \A m, k \in Inbound(pend, DOMAIN pend) : m.seq_no = k.seq_no => m = k
      /\ \A s \in accepted : \E m \in Inbound(pend, accepted) : m.seq_no = s
  BY <1>a DEF Inbound, Queued
<1>4. Inbound(pending', DOMAIN pending') = Inbound(pend, rest)
  <2>1. pending' = [s \in rest |-> pend[s]]
    BY <1>1, Zenon
  <2> HIDE DEF rest
  <2>2. rest \cap DOMAIN pend = rest
    BY Zenon DEF rest
  <2> QED
    BY <2>1, <2>2, Zenon DEF Inbound
<1>5. Inbound(pend, DOMAIN pend)
        = Inbound(pend, rest) \cup Inbound(pend, accepted) \cup Inbound(pend, stale)
  BY <1>a, Zenon DEF Inbound
<1>6. /\ Inbound(pend, rest) \cap Inbound(pend, accepted) = {}
      /\ Inbound(pend, rest) \cap Inbound(pend, stale) = {}
      /\ Inbound(pend, stale) \cap Inbound(pend, accepted) = {}
  BY DEF Inbound, Queued
<1>7. /\ Inbound(pend, accepted) = started \cup skipped
      /\ started \cap skipped = {}
  BY Zenon
<1>8. Answered' = Answered \cup skipped \cup Inbound(pend, stale)
  <2>1. \A r \in replies' : r[1] \in Answered \cup skipped \cup Inbound(pend, stale)
    BY <1>1, Zenon DEF Answered
  <2>2. \A m \in skipped : <<m, "OK">> \in replies' /\ <<m, "OK">>[1] = m
    BY <1>1, Zenon
  <2>3. \A m \in Inbound(pend, stale) :
            <<m, "Invalid">> \in replies' /\ <<m, "Invalid">>[1] = m
    BY <1>1, Zenon
  <2>4. \A r \in replies : r \in replies'
    BY <1>1
  <2> HIDE DEF skipped, stale
  <2>5. \A m \in Answered' : m \in Answered \cup skipped \cup Inbound(pend, stale)
    BY <2>1, Zenon DEF Answered
  <2>6. \A m \in Answered : m \in Answered'
    BY <2>4 DEF Answered
  <2>7. \A m \in skipped : m \in Answered'
    BY <2>2, Zenon DEF Answered
  <2>8. \A m \in Inbound(pend, stale) : m \in Answered'
    BY <2>3, Zenon DEF Answered
  <2> QED
    BY <2>5, <2>6, <2>7, <2>8, Zenon
<1>9. Accounted(pending, received, superseded)'
  <2> DEFINE waiting == Inbound(pend, DOMAIN pend)
             left == Inbound(pend, rest)
             dropped == Inbound(pend, stale)
  <2>1. /\ recv = waiting \cup executing \cup Answered \cup over
        /\ waiting \cap (executing \cup Answered \cup over) = {}
        /\ executing \cap (Answered \cup over) = {}
        /\ Answered \cap over = {}
    BY Zenon DEF Accounted
  <2>2. /\ waiting = left \cup started \cup skipped \cup dropped
        /\ left \cap started = {} /\ left \cap skipped = {} /\ left \cap dropped = {}
        /\ dropped \cap started = {} /\ dropped \cap skipped = {}
        /\ started \cap skipped = {}
    <3> HIDE DEF rest, stale, accepted, skipped
    <3> QED
      BY <1>5, <1>6, <1>7, Zenon
  <2>3. /\ executing' = executing \cup started
        /\ Answered' = Answered \cup skipped \cup dropped
        /\ Inbound(pending', DOMAIN pending') = left
        /\ received' = recv /\ superseded' = over
    BY <1>1, <1>4, <1>8
  <2>4. \A q, r \in replies' : q[1] = r[1] => q = r
    <3> SUFFICES ASSUME NEW q \in replies', NEW r \in replies', q[1] = r[1]
                 PROVE  q = r
      BY Zenon
    <3> DEFINE Old(x) == x \in replies /\ x[1] \in Answered
               Skip(x) == x = <<x[1], "OK">> /\ x[1] \in skipped
               Drop(x) == x = <<x[1], "Invalid">> /\ x[1] \in dropped
    <3>1. \A x \in replies' : Old(x) \/ Skip(x) \/ Drop(x)
      BY <1>1 DEF Answered
    <3>2. /\ Answered \cap skipped = {} /\ Answered \cap dropped = {}
          /\ skipped \cap dropped = {}
      <4> HIDE DEF waiting, left, dropped, skipped, started
      <4> QED
        BY <2>1, <2>2, Zenon
    <3>3. \A x, y \in replies : x[1] = y[1] => x = y
      BY Zenon DEF Accounted
    <3>4. Old(q) \/ Skip(q) \/ Drop(q)
      BY <3>1, Zenon
    <3>5. Old(r) \/ Skip(r) \/ Drop(r)
      BY <3>1, Zenon
    <3> HIDE DEF dropped, skipped
    <3>6. (Old(q) /\ Old(r)) \/ (Skip(q) /\ Skip(r)) \/ (Drop(q) /\ Drop(r))
      BY <3>2, <3>4, <3>5
    <3>7. CASE Skip(q) /\ Skip(r)
      BY <3>7, Zenon
    <3>8. CASE Drop(q) /\ Drop(r)
      BY <3>8, Zenon
    <3>9. CASE Old(q) /\ Old(r)
      BY <3>3, <3>9, Zenon
    <3> HIDE DEF Old, Skip, Drop
    <3> QED
      BY <3>6, <3>7, <3>8, <3>9, Zenon
  <2> HIDE DEF waiting, left, dropped, skipped, started
  <2> QED
    BY <2>1, <2>2, <2>3, <2>4, Zenon DEF Accounted
<1>10. Queued(pending)'
  BY <1>1 DEF Queued
<1>11. /\ \A m \in started : m \in Requests /\ m.seq_no \in next .. n - 1
       /\ \A m, k \in started : m.seq_no = k.seq_no => m = k
       /\ \A m \in skipped : m \in recv /\ m.skip_execution
  BY <1>3, <1>7, <1>5, Zenon DEF Accounted
<1>12. \A m \in executing' \ executing, s \in executed : s < m.seq_no
  <2> HIDE DEF started
  <2> QED
    BY <1>1, <1>2, <1>11
<1>13. NoDoubleExecution' /\ (\A m \in executing : m.seq_no \in executed)'
  <2> HIDE DEF started
  <2>s. executed' = executed \cup {m.seq_no : m \in started} /\ executing' = executing \cup started
    BY <1>1, Zenon
  <2>0. \A s \in executed' : s \in executed \/ \E m \in started : s = m.seq_no
    BY <2>s
  <2>1. /\ executed' \subseteq 0 .. n - 1
        /\ \A m \in executing' : m.seq_no \in executed'
    <3>1. \A s \in executed : s \in 0 .. n - 1
      BY <1>2
    <3>2. \A m \in started : m.seq_no \in 0 .. n - 1
      BY <1>2, <1>11
    <3>3. \A m \in executing' : m.seq_no \in executed'
      BY <2>s, Zenon
    <3> QED
      BY <2>0, <3>1, <3>2, <3>3, Zenon
  <2>2. \A m, k \in executing' : m.seq_no = k.seq_no => m = k
    BY <2>s, <1>2, <1>11
  <2> QED
    BY <1>1, <2>1, <2>2, Zenon DEF NoDoubleExecution
<1>14. Complete(next_seq_no, received, gave_up)'
  <2> SUFFICES ASSUME ~gave, NEW s \in 0 .. n - 1
               PROVE  s \in executed' \/ \E m \in recv : m.seq_no = s /\ m.skip_execution
    BY <1>1, Zenon DEF Complete
  <2>0. \A k \in executed : k \in executed'
    BY <1>1, Zenon
  <2>1. CASE s < next
    <3>1. s \in 0 .. next - 1
      BY <2>1
    <3> QED
      BY <2>0, <3>1, Zenon DEF Complete
  <2>2. CASE s >= next
    <3>1. PICK m \in Inbound(pend, accepted) : m.seq_no = s
      BY <2>2, <1>3
    <3>2. CASE m \in started
      <4>1. executed' = executed \cup {k.seq_no : k \in started}
        BY <1>1, Zenon
      <4> HIDE DEF started
      <4> QED
        BY <3>1, <3>2, <4>1, Zenon
    <3>3. CASE m \in skipped
      BY <3>1, <3>3, <1>11, Zenon
    <3> QED
      BY <3>1, <3>2, <3>3, <1>7, Zenon
  <2> QED
    BY <2>1, <2>2
<1>15. QueueTypeOK'
  <2>1. replies' \subseteq Requests \X Statuses
    BY <1>1, <1>3, <1>7 DEF Statuses
  <2>2. executing' \subseteq Requests
    BY <1>1, <1>3, <1>7, Zenon
  <2>3. executed' \subseteq Nat
    <3>1. executed' \subseteq 0 .. n - 1
      BY <1>1, <1>13, Zenon DEF NoDoubleExecution
    <3> QED
      BY <1>2, <3>1
  <2> QED
    BY <1>1, <1>2, <1>10, <2>1, <2>2, <2>3, Zenon DEF QueueTypeOK, Queued
<1> QED
  BY <1>9, <1>10, <1>12, <1>13, <1>14, <1>15, Zenon DEF QueueInv

LEMMA AddKeeps ==
    ASSUME QueueInv, NEW m \in Requests, Add(m)
    PROVE  /\ QueueInv'
           /\ \A x \in executing' \ executing, s \in executed : s < x.seq_no
<1> DEFINE pend == Enqueue(m)
           next == ClientSkips(m)
           recv == received \cup {m}
           over == superseded \cup Inbound(pending, {m.seq_no})
           gave == gave_up \/ m.client_processed_up_to >= next_seq_no
<1>1. /\ ScheduleRequests(pend, next) /\ m \notin received
      /\ received' = recv /\ superseded' = over /\ gave_up' = gave
  BY Zenon DEF Add
<1>2. /\ m.seq_no \in Nat /\ m.client_processed_up_to \in Nat \cup {-1}
      /\ m.dependencies \in BOOLEAN
  BY RequestsAssumption, Zenon
<1>3. /\ next \in Nat /\ next >= next_seq_no
      /\ ~gave => next = next_seq_no /\ ~gave_up
  BY <1>2 DEF QueueInv, QueueTypeOK, ClientSkips
<1>4. Queued(pend)
  BY <1>2, Zenon DEF QueueInv, Queued, Enqueue, InboundRequest
<1>5. /\ Inbound(pend, DOMAIN pend)
            = (Waiting \ Inbound(pending, {m.seq_no})) \cup {m}
      /\ Inbound(pending, {m.seq_no}) \subseteq Waiting
  <2>1. \A s \in DOMAIN pending : pending[s].request.seq_no = s
    BY Zenon DEF QueueInv, Queued
  <2>2. DOMAIN pend = DOMAIN pending \cup {m.seq_no}
    BY Zenon DEF Enqueue
  <2>3. pend[m.seq_no].request = m
    BY Zenon DEF Enqueue, InboundRequest
  <2>4. \A s \in DOMAIN pending : s # m.seq_no => pend[s] = pending[s]
    BY Zenon DEF Enqueue
  <2> HIDE DEF pend
  <2> QED
    BY <2>1, <2>2, <2>3, <2>4 DEF Waiting, Inbound
<1>6. Accounted(pend, recv, over)
  <2>1. /\ received = Waiting \cup executing \cup Answered \cup superseded
        /\ Waiting \cap (executing \cup Answered \cup superseded) = {}
        /\ executing \cap (Answered \cup superseded) = {}
        /\ Answered \cap superseded = {}
        /\ \A q, r \in replies : q[1] = r[1] => q = r
    BY Zenon DEF QueueInv, Accounted, Waiting
  <2> DEFINE old == Inbound(pending, {m.seq_no})
  <2> HIDE DEF pend, old
  <2> QED
    BY <1>1, <1>5, <2>1, Zenon DEF Accounted, old
<1>7. Complete(next, recv, gave)
  <2> HIDE DEF gave, next
  <2> QED
    BY <1>3, Zenon DEF QueueInv, Complete
<1>8. /\ executed \subseteq 0 .. next - 1
      /\ \A x \in executing : x.seq_no \in executed
      /\ \A x, y \in executing : x.seq_no = y.seq_no => x = y
      /\ executing \subseteq Requests /\ replies \subseteq Requests \X Statuses
      /\ recv \in SUBSET Requests
  <2> HIDE DEF next
  <2>1. \A k \in 0 .. next_seq_no - 1 : k \in 0 .. next - 1
    BY <1>3 DEF QueueInv, QueueTypeOK
  <2> QED
    BY <2>1, Zenon DEF QueueInv, QueueTypeOK, NoDoubleExecution
<1>9. over \in SUBSET recv
  BY <1>5, Zenon DEF QueueInv, QueueTypeOK, Accounted, Waiting
<1>10. gave \in BOOLEAN
  BY <1>2, Zenon DEF QueueInv, QueueTypeOK
<1>11. timed_out' \in BOOLEAN
  BY Zenon DEF Add, QueueInv, QueueTypeOK
<1> HIDE DEF pend, next, recv, over, gave
<1> QED
  BY <1>1, <1>3, <1>4, <1>6, <1>7, <1>8, <1>9, <1>10, <1>11,
     QueueScheduleKeeps, Zenon

LEMMA OnWaitCompleteKeeps ==
    ASSUME QueueInv, NEW s \in DOMAIN pending, OnWaitComplete(s)
    PROVE  /\ QueueInv'
           /\ \A x \in executing' \ executing, k \in executed : k < x.seq_no
<1> DEFINE pend == [pending EXCEPT ![s] = MarkDependenciesSatisfied(@)]
<1>1. /\ ScheduleRequests(pend, next_seq_no)
      /\ timed_out' = timed_out
      /\ received' = received /\ superseded' = superseded /\ gave_up' = gave_up
  BY DEF OnWaitComplete
<1>2. /\ DOMAIN pend = DOMAIN pending
      /\ \A k \in DOMAIN pending : pend[k].request = pending[k].request
      /\ \A k \in DOMAIN pending : pend[k] \in [request : Requests, can_execute : BOOLEAN]
  BY Zenon DEF QueueInv, Queued, MarkDependenciesSatisfied
<1>3. Queued(pend)
  <2>1. pend = [k \in DOMAIN pend |-> pend[k]]
    BY Zenon DEF QueueInv, Queued
  <2> HIDE DEF pend
  <2> QED
    BY <1>2, <2>1 DEF QueueInv, Queued
<1>4. Accounted(pend, received, superseded)
  <2>1. Inbound(pend, DOMAIN pend) = Inbound(pending, DOMAIN pending)
    BY <1>2 DEF Inbound
  <2> QED
    BY <2>1, Zenon DEF QueueInv, Accounted
<1> HIDE DEF pend
<1> QED
  BY <1>1, <1>3, <1>4, QueueScheduleKeeps DEF QueueInv, QueueTypeOK, NoDoubleExecution

LEMMA TimeoutKeeps ==
    ASSUME QueueInv, OnSequencingWaitTimeout
    PROVE  QueueInv' /\ executing' = executing
<1>1. PICK n \in {next_seq_no} \cup {s + 1 : s \in DOMAIN pending} :
          n >= next_seq_no /\ next_seq_no' = n
  BY Zenon DEF OnSequencingWaitTimeout
<1>2. /\ replies' = replies \cup (Waiting \X {"Invalid"})
      /\ pending' = [s \in {} |-> {}]
      /\ timed_out' = FALSE /\ gave_up' = TRUE
      /\ UNCHANGED <<executing, received, superseded, executed>>
  BY Zenon DEF OnSequencingWaitTimeout, Waiting
<1>3. n \in Nat
  BY DEF QueueInv, QueueTypeOK
<1>4. Queued(pending)'
  BY <1>2, Zenon DEF Queued
<1>5. Inbound(pending', DOMAIN pending') = {}
  BY <1>2 DEF Inbound
<1>6. Answered' = Answered \cup Waiting
  <2>1. \A r \in replies' : r \in replies \/ r[1] \in Waiting
    BY <1>2, Zenon
  <2>2. \A m \in Waiting : <<m, "Invalid">> \in replies' /\ <<m, "Invalid">>[1] = m
    BY <1>2
  <2>3. \A r \in replies : r \in replies'
    BY <1>2, Zenon
  <2> QED
    BY <2>1, <2>2, <2>3, Zenon DEF Answered
<1>7. Accounted(pending, received, superseded)'
  <2>1. /\ received = Waiting \cup executing \cup Answered \cup superseded
        /\ Waiting \cap (executing \cup Answered \cup superseded) = {}
        /\ executing \cap (Answered \cup superseded) = {}
        /\ Answered \cap superseded = {}
        /\ \A q, r \in replies : q[1] = r[1] => q = r
    BY Zenon DEF QueueInv, Accounted, Waiting
  <2>2. \A q, r \in replies' : q[1] = r[1] => q = r
    <3>1. \A r \in replies' : \/ r \in replies /\ r[1] \in Answered
                              \/ r = <<r[1], "Invalid">> /\ r[1] \in Waiting
      BY <1>2 DEF Answered
    <3>2. Answered \cap Waiting = {}
      BY <2>1, Zenon
    <3> QED
      BY <2>1, <3>1, <3>2, Zenon
  <2> QED
    BY <1>2, <1>5, <1>6, <2>1, <2>2, Zenon DEF Accounted
<1>8. \A m \in Waiting : m \in Requests
  BY DEF QueueInv, Queued, Waiting, Inbound
<1>9. QueueTypeOK'
  <2>1. replies' \subseteq Requests \X Statuses
    BY <1>2, <1>8, Zenon DEF QueueInv, QueueTypeOK, Statuses
  <2> QED
    BY <1>1, <1>2, <1>3, <1>4, <2>1 DEF QueueInv, QueueTypeOK, Queued
<1>10. NoDoubleExecution'
  <2>1. \A k \in 0 .. next_seq_no - 1 : k \in 0 .. n - 1
    BY <1>1, <1>3 DEF QueueInv, QueueTypeOK
  <2> QED
    BY <1>1, <1>2, <2>1, Zenon DEF QueueInv, NoDoubleExecution
<1> QED
  BY <1>2, <1>4, <1>7, <1>9, <1>10, Zenon DEF QueueInv, Complete

LEMMA FinishKeeps ==
    ASSUME QueueInv, NEW m \in executing, Finish(m)
    PROVE  QueueInv' /\ executing' \subseteq executing
<1>1. /\ executing' = executing \ {m}
      /\ replies' = replies \cup {<<m, "OK">>}
      /\ UNCHANGED <<next_seq_no, pending, timed_out, received, superseded, executed, gave_up>>
  BY Zenon DEF Finish
<1>2. Answered' = Answered \cup {m}
  <2>1. \A r \in replies' : r \in replies \/ r[1] = m
    BY <1>1
  <2>2. <<m, "OK">> \in replies' /\ <<m, "OK">>[1] = m
    BY <1>1, Zenon
  <2>3. \A r \in replies : r \in replies'
    BY <1>1, Zenon
  <2> QED
    BY <2>1, <2>2, <2>3, Zenon DEF Answered
<1>3. Accounted(pending, received, superseded)'
  <2>1. /\ received = Waiting \cup executing \cup Answered \cup superseded
        /\ Waiting \cap (executing \cup Answered \cup superseded) = {}
        /\ executing \cap (Answered \cup superseded) = {}
        /\ Answered \cap superseded = {}
        /\ \A q, r \in replies : q[1] = r[1] => q = r
    BY Zenon DEF QueueInv, Accounted, Waiting
  <2>2. \A q, r \in replies' : q[1] = r[1] => q = r
    <3>1. \A r \in replies' : (r \in replies /\ r[1] \in Answered) \/ r = <<m, "OK">>
      BY <1>1, Zenon DEF Answered
    <3>2. m \notin Answered
      BY <2>1
    <3> QED
      BY <2>1, <3>1, <3>2
  <2>3. Inbound(pending', DOMAIN pending') = Waiting
    BY <1>1, Zenon DEF Waiting
  <2> QED
    BY <1>1, <1>2, <2>1, <2>2, <2>3 DEF Accounted
<1>4. QueueTypeOK' /\ Queued(pending)' /\ NoDoubleExecution'
  <2>1. QueueTypeOK'
    BY <1>1 DEF QueueInv, QueueTypeOK, Statuses
  <2>2. Queued(pending)'
    BY <1>1, Zenon DEF QueueInv, Queued
  <2>3. NoDoubleExecution'
    BY <1>1, Zenon DEF QueueInv, NoDoubleExecution
  <2> QED
    BY <2>1, <2>2, <2>3, Zenon
<1> QED
  BY <1>1, <1>3, <1>4, Zenon DEF QueueInv, Complete

LEMMA TimerExpiresKeeps ==
    ASSUME QueueInv, TimerExpires
    PROVE  QueueInv' /\ executing' = executing
<1>1. /\ timed_out' = TRUE
      /\ UNCHANGED <<next_seq_no, pending, executing, replies, received, superseded,
                     executed, gave_up>>
  BY Zenon DEF TimerExpires
<1> QED
  BY <1>1 DEF QueueInv, QueueTypeOK, Queued, NoDoubleExecution, Accounted, Complete,
              Answered, Inbound

LEMMA InitKeeps == QueueInit => QueueInv
<1> SUFFICES ASSUME QueueInit PROVE QueueInv
  OBVIOUS
<1>1. QueueTypeOK /\ Queued(pending)
  BY Zenon DEF QueueInit, QueueTypeOK, Queued
<1>2. NoDoubleExecution
  BY Zenon DEF QueueInit, NoDoubleExecution
<1>3. Complete(next_seq_no, received, gave_up)
  BY DEF QueueInit, Complete
<1>4. Inbound(pending, DOMAIN pending) = {} /\ Answered = {}
  BY Zenon DEF QueueInit, Inbound, Answered
<1> QED
  BY <1>1, <1>2, <1>3, <1>4 DEF QueueInit, QueueInv, Accounted

\* One step from a state that satisfies the invariant.
LEMMA StepKeeps ==
    ASSUME QueueInv, [QueueNext]_queueVars
    PROVE  /\ QueueInv'
           /\ \A x \in executing' \ executing, s \in executed : s < x.seq_no
<1>1. ASSUME NEW m \in Requests, Add(m)
      PROVE  /\ QueueInv'
             /\ \A x \in executing' \ executing, s \in executed : s < x.seq_no
  BY <1>1, AddKeeps, Zenon
<1>2. ASSUME NEW k \in DOMAIN pending, OnWaitComplete(k)
      PROVE  /\ QueueInv'
             /\ \A x \in executing' \ executing, s \in executed : s < x.seq_no
  BY <1>2, OnWaitCompleteKeeps, Zenon
<1>3. CASE OnSequencingWaitTimeout
  BY <1>3, TimeoutKeeps
<1>6. CASE TimerExpires
  BY <1>6, TimerExpiresKeeps
<1>4. ASSUME NEW m \in executing, Finish(m)
      PROVE  /\ QueueInv'
             /\ \A x \in executing' \ executing, s \in executed : s < x.seq_no
  BY <1>4, FinishKeeps, Zenon
<1>5. CASE UNCHANGED queueVars
  BY <1>5 DEF queueVars, QueueInv, QueueTypeOK, Queued, NoDoubleExecution, Accounted, Complete,
              Answered, Inbound
<1> QED
  BY <1>1, <1>2, <1>3, <1>4, <1>5, <1>6, Zenon DEF QueueNext

LEMMA QueueInvariance == QueueSpec => []QueueInv
<1>1. QueueInv /\ [QueueNext]_queueVars => QueueInv'
  BY StepKeeps
<1> QED
  BY InitKeeps, <1>1, PTL DEF QueueSpec

----------------------------------------------------------------------------
\* Every variable of the scheduling queue keeps its type.
THEOREM QueueTypeCorrect == QueueSpec => []QueueTypeOK
<1>1. QueueInv => QueueTypeOK
  BY Zenon DEF QueueInv
<1> QED
  BY <1>1, QueueInvariance, PTL

\* However requests are reordered and resent, no sequence number is executed
\* twice and only numbers below next_seq_no_ have been executed.
THEOREM ExecutedOnce == QueueSpec => []NoDoubleExecution
<1>1. QueueInv => NoDoubleExecution
  BY DEF QueueInv
<1> QED
  BY <1>1, QueueInvariance, PTL

\* ScheduleRequests and OnSequencingWaitTimeout start tasks in the order of
\* their sequence numbers: a task that starts comes after all started before.
THEOREM OrderedStarts == QueueSpec => StartsInOrder
<1>1. QueueInv /\ [QueueNext]_queueVars
        => [\A m \in executing' \ executing, s \in executed : s < m.seq_no]_queueVars
  BY StepKeeps, Zenon
<1> QED
  BY <1>1, QueueInvariance, PTL DEF QueueSpec, StartsInOrder

\* Unless the queue gave up waiting (timeout, or the client said it had the
\* replies), every number passed was executed or marked to be skipped.
THEOREM NoGaps == QueueSpec => []NothingSkipped
<1>1. QueueInv => NothingSkipped
  BY Zenon DEF QueueInv, NothingSkipped, Complete
<1> QED
  BY <1>1, QueueInvariance, PTL

\* Every request received is waiting, executing, answered exactly once, or
\* was overwritten by a resend: accept and reject callbacks are never both
\* called and never called twice.
THEOREM AnsweredOnce == QueueSpec => []OneReplyPerRequest
<1>1. QueueInv => OneReplyPerRequest
  BY DEF QueueInv, OneReplyPerRequest, Accounted, Waiting
<1> QED
  BY <1>1, QueueInvariance, PTL

-----------------------------------------------------------------------------
(***************************************************************************)
(* RequestIds: which distances _id_is_newer orders correctly across the    *)
(* rollover of the request ids.                                            *)
(***************************************************************************)

Half == IdMax \div 2

\* The id handed out k requests after id, for k up to IdMax.
After(id, k) == IF id + k > IdMax THEN id + k - IdMax ELSE id + k

\* What an odd IdMax, as INT32_MAX is, leaves on the other side of its half.
LEMMA HalfOfOdd ==
  ASSUME IdMax % 2 = 1
  PROVE  Half \in Nat /\ IdMax = Half + Half + 1
<1>1. IdMax \in Nat
  BY IdMaxAssumption, Zenon
<1>2. QED
  BY <1>1 DEF Half

\* After is the iteration of _next_id: it starts at id and goes on with the
\* successor, which wraps to 1 and never to 0.
LEMMA AfterIsIteration ==
  ASSUME NEW id \in ReqId, NEW k \in 0..IdMax - 1
  PROVE  /\ After(id, 0) = id
         /\ After(id, k) \in ReqId
         /\ After(id, k + 1) = Successor(After(id, k))
<1>1. IdMax \in Nat \ {0}
  BY IdMaxAssumption, Zenon
<1>2. QED
  BY <1>1 DEF After, Successor, ReqId

\* After composes: k requests after id are k - j requests after the j-th.
LEMMA AfterComposes ==
  ASSUME NEW id \in ReqId, NEW j \in 0..IdMax, NEW k \in 0..IdMax, j <= k
  PROVE  /\ After(id, j) \in ReqId
         /\ After(id, k) = After(After(id, j), k - j)
<1>1. IdMax \in Nat \ {0}
  BY IdMaxAssumption, Zenon
<1>2. QED
  BY <1>1 DEF After, ReqId

\* One id against a later one at most half the range away.
LEMMA NewerThanBefore ==
  ASSUME IdMax % 2 = 1, NEW id \in ReqId, NEW k \in 1..Half
  PROVE  IdIsNewer(After(id, k), id) /\ ~IdIsNewer(id, After(id, k))
<1>1. IdMax \in Nat \ {0} /\ Half \in Nat /\ IdMax = Half + Half + 1
  BY IdMaxAssumption, HalfOfOdd, Zenon
<1>2. id \in 1..IdMax
  BY Zenon DEF ReqId
<1>3. CASE id + k > IdMax
  <2>1. After(id, k) = id + k - IdMax
    BY <1>3, Zenon DEF After
  <2>2. After(id, k) < id /\ id - After(id, k) > Half
    BY <1>1, <1>2, <2>1
  <2>3. QED
    BY <1>1, <1>2, <2>1, <2>2 DEF IdIsNewer, Half
<1>4. CASE ~(id + k > IdMax)
  <2>1. After(id, k) = id + k
    BY <1>4, Zenon DEF After
  <2>2. After(id, k) > id /\ ~(After(id, k) - id > Half)
    BY <1>1, <1>2, <2>1
  <2>3. QED
    BY <1>1, <1>2, <2>1, <2>2 DEF IdIsNewer, Half
<1>5. QED
  BY <1>3, <1>4, Zenon

(***************************************************************************)
(* Among the ids of any Half + 1 consecutive requests, _id_is_newer is the *)
(* order in which _next_id handed them out, also when the counter rolls    *)
(* over among them: the response cache may compare any two ids that are    *)
(* that close.  It needs an odd IdMax: with an even one the two ids half   *)
(* the range apart are ordered the wrong way round after a rollover.       *)
(***************************************************************************)
THEOREM RolloverKeepsOrder ==
  ASSUME IdMax % 2 = 1, NEW id \in ReqId,
         NEW j \in 0..Half, NEW k \in 0..Half, j < k
  PROVE  /\ IdIsNewer(After(id, k), After(id, j))
         /\ ~IdIsNewer(After(id, j), After(id, k))
<1>1. IdMax \in Nat \ {0} /\ Half \in Nat /\ Half <= IdMax
  BY IdMaxAssumption, HalfOfOdd
<1>2. j \in 0..IdMax /\ k \in 0..IdMax /\ j <= k /\ k - j \in 1..Half
  BY <1>1
<1>3. After(id, j) \in ReqId /\ After(id, k) = After(After(id, j), k - j)
  BY <1>2, AfterComposes
<1>4. QED
  BY <1>2, <1>3, NewerThanBefore, Zenon

=============================================================================
