---------------------------- MODULE RoutingProofs ---------------------------
(***************************************************************************)
(* Proofs about a Serve router that follows the controller: of the queries *)
(* it sent since the last announcement, no live replica runs more than     *)
(* max_concurrent_queries.                                                 *)
(***************************************************************************)
EXTENDS ServeRouting, FiniteSetTheorems, TLAPS

QueryStates == {"new", "entering", "waiting", "woken", "assigned"}

RoutingTypeOK ==
    /\ Known \subseteq Replicas
    /\ \A r \in Known : in_flight[r] \subseteq Queries
    /\ query \in [Queries -> QueryStates]
    /\ at \in [Queries -> SUBSET Replicas]
    /\ outcome \in [Queries -> {"none", "ok", "task_error", "actor_error"}]
    /\ started \subseteq Replicas

\* Everything that names a replica names one that was started, so that a replica
\* that comes up new is one the router cannot have a dead actor's query for.
NamesStarted ==
    /\ alive \subseteq started /\ running \subseteq started /\ recovering \subseteq started
    /\ Known \subseteq started
    /\ host_id # Nothing \/ poll = "woken" => host_object \subseteq started
    /\ poll \in {"answered", "scheduled"} => answer.object \subseteq started

\* The record of a query at r: it was assigned, runs nowhere else, and its actor's
\* error means that r is gone.
GoodRecord(r, q) ==
    /\ query[q] = "assigned"
    /\ outcome[q] = "actor_error" => r \notin alive
    /\ \A p \in Replicas : at[q] = {p} => p = r

RecordsAgree ==
    /\ \A r \in Known : \A q \in in_flight[r] : GoodRecord(r, q)
    /\ \A q \in Queries, r \in Replicas : at[q] = {r} => r \in alive /\ outcome[q] = "none"

\* The router has a record of every query it sent since the last announcement and
\* that is still running.
RecentRecorded ==
    \A q \in Queries, r \in Replicas :
        q \in recent /\ at[q] = {r} => r \in Known /\ q \in in_flight[r]

WithinLimit == \A r \in Known : Cardinality(in_flight[r]) <= MaxConcurrent

LInv == RoutingTypeOK /\ NamesStarted /\ RecordsAgree /\ RecentRecorded /\ WithinLimit

LEMMA Finite == \A S \in SUBSET Queries : IsFiniteSet(S) /\ Cardinality(S) \in Nat
  BY QueriesAssumption, FS_Subset, FS_CardinalityType, Zenon

LEMMA Smaller ==
  ASSUME NEW S \in SUBSET Queries, NEW T \in SUBSET S
  PROVE  Cardinality(T) <= Cardinality(S) /\ Cardinality(T) \in Nat /\ Cardinality(S) \in Nat
  BY Finite, FS_Subset, Zenon

LEMMA OneMore ==
  ASSUME NEW S \in SUBSET Queries, NEW q
  PROVE  Cardinality(S \cup {q}) <= Cardinality(S) + 1
<1>1. IsFiniteSet(S) /\ Cardinality(S) \in Nat
  BY Finite, Zenon
<1>2. \/ Cardinality(S \cup {q}) = Cardinality(S)
      \/ Cardinality(S \cup {q}) = Cardinality(S) + 1
  BY <1>1, FS_AddElement, Zenon
<1>3. QED
  BY <1>1, <1>2

LEMMA RoutingInitHolds == RoutingInit => LInv
<1> SUFFICES ASSUME RoutingInit PROVE LInv
  BY Zenon
<1>1. Known = {}
  BY DEF RoutingInit, ReplicaSetInit, Known
<1>2. RoutingTypeOK
  BY <1>1, Zenon DEF RoutingInit, ReplicaSetInit, RoutingTypeOK, QueryStates
<1>3. NamesStarted
  BY <1>1, Zenon DEF RoutingInit, LongPollInit, NamesStarted
<1>4. RecordsAgree /\ RecentRecorded /\ WithinLimit
  BY <1>1, Zenon DEF RoutingInit, ReplicaSetInit, RecordsAgree, RecentRecorded, WithinLimit
<1>5. QED
  BY <1>2, <1>3, <1>4, Zenon DEF LInv

-----------------------------------------------------------------------------
(* The controller, the host and the client: the router is left alone.      *)

RouterSame == UNCHANGED <<replicaSetVars, recent>>

LEMMA RouterSameKeeps ==
  ASSUME LInv, RouterSame, started \subseteq started', started' \subseteq Replicas,
         alive \subseteq alive', alive' \subseteq started',
         running' \subseteq started', recovering' \subseteq started',
         host_id' # Nothing \/ poll' = "woken" => host_object' \subseteq started',
         poll' \in {"answered", "scheduled"} => answer'.object \subseteq started',
         \A r \in Replicas : r \in alive' => r \in alive \/ r \notin started
  PROVE  LInv'
<1>1. /\ Known' = Known /\ in_flight' = in_flight /\ query' = query /\ at' = at
      /\ outcome' = outcome /\ recent' = recent
  BY Zenon DEF RouterSame, replicaSetVars, Known
<1>2. RoutingTypeOK'
  BY <1>1, Zenon DEF LInv, RoutingTypeOK
<1>3. NamesStarted'
  BY <1>1, Zenon DEF LInv, NamesStarted
<1>4. RecordsAgree'
  <2>1. ASSUME NEW r \in Known, NEW q \in in_flight[r] PROVE GoodRecord(r, q)'
    <3>1. GoodRecord(r, q) /\ r \in Replicas /\ r \in started
      BY <2>1, Zenon DEF LInv, RoutingTypeOK, NamesStarted, RecordsAgree
    <3>2. QED
      BY <1>1, <3>1, Zenon DEF GoodRecord
  <2>2. QED
    BY <1>1, <2>1, Zenon DEF LInv, RecordsAgree
<1>5. RecentRecorded' /\ WithinLimit'
  BY <1>1, Zenon DEF LInv, RecentRecorded, WithinLimit
<1>6. QED
  BY <1>2, <1>3, <1>4, <1>5, Zenon DEF LInv

LEMMA AnnounceKeeps ==
  ASSUME NEW set, Announce(set)
  PROVE  /\ running' = set /\ host_object' = set /\ answer' = answer
         /\ poll' \in {"answered", "scheduled"} => poll = poll'
  BY Zenon DEF Announce, NotifyChanged

LEMMA ReplicaUpKeeps == ASSUME LInv, NEW r \in Replicas, ReplicaUp(r) PROVE LInv'
<1>1. /\ RouterSame /\ started' = started \cup {r} /\ alive' = alive \cup {r}
      /\ recovering' = recovering /\ r \notin started
  BY Zenon DEF ReplicaUp, RouterSame
<1>2. /\ running' = running \cup {r} /\ host_object' = running' /\ answer' = answer
      /\ poll' \in {"answered", "scheduled"} => poll = poll'
  BY AnnounceKeeps, Zenon DEF ReplicaUp
<1>3. QED
  BY <1>1, <1>2, RouterSameKeeps, Zenon DEF LInv, RoutingTypeOK, NamesStarted

LEMMA ReplicaDownKeeps == ASSUME LInv, NEW r \in Replicas, ReplicaDown(r) PROVE LInv'
<1>1. RouterSame /\ started' = started /\ alive' = alive /\ recovering' = recovering
  BY Zenon DEF ReplicaDown, RouterSame
<1>2. /\ running' = running \ {r} /\ host_object' = running' /\ answer' = answer
      /\ poll' \in {"answered", "scheduled"} => poll = poll'
  BY AnnounceKeeps, Zenon DEF ReplicaDown
<1>3. QED
  BY <1>1, <1>2, RouterSameKeeps, Zenon DEF LInv, RoutingTypeOK, NamesStarted

LEMMA ReplicaRecoversKeeps == ASSUME LInv, NEW r \in Replicas, ReplicaRecovers(r) PROVE LInv'
<1>1. RouterSame /\ started' = started /\ alive' = alive /\ recovering' = recovering \ {r}
  BY Zenon DEF ReplicaRecovers, RouterSame
<1>2. CASE r \in alive
  <2>1. /\ running' = running \cup {r} /\ host_object' = running' /\ answer' = answer
        /\ poll' \in {"answered", "scheduled"} => poll = poll'
    BY <1>2, AnnounceKeeps, Zenon DEF ReplicaRecovers
  <2>2. QED
    BY <1>1, <1>2, <2>1, RouterSameKeeps, Zenon DEF LInv, RoutingTypeOK, NamesStarted
<1>3. CASE r \notin alive
  BY <1>1, <1>3, RouterSameKeeps, Zenon
    DEF LInv, RoutingTypeOK, NamesStarted, ReplicaRecovers, longPollVars
<1>4. QED
  BY <1>2, <1>3, Zenon

LEMMA ControllerKeeps == ASSUME LInv, ControllerCrashes \/ ControllerKilled PROVE LInv'
<1>1. RouterSame /\ started' = started /\ alive' = alive
  BY Zenon DEF ControllerCrashes, ControllerKilled, RouterSame
<1>2. CASE ControllerCrashes
  BY <1>1, <1>2, RouterSameKeeps, Zenon
    DEF LInv, RoutingTypeOK, NamesStarted, ControllerCrashes, HostRestarts
<1>3. CASE ControllerKilled
  BY <1>1, <1>3, RouterSameKeeps, Zenon
    DEF LInv, RoutingTypeOK, NamesStarted, ControllerKilled, HostKilled
<1>4. QED
  BY <1>2, <1>3, Zenon

LEMMA LongPollKeeps == ASSUME LInv, HostStep \/ ClientStep PROVE LInv'
<1>1. /\ RouterSame /\ started' = started /\ alive' = alive /\ running' = running
      /\ recovering' = recovering
  BY Zenon DEF HostStep, ClientStep, RouterSame, controllerVars
<1>2. host_id' = host_id /\ host_object' = host_object
  BY Zenon DEF HostStep, Listen, ListenWakes, ListenTimesOut, ClientStep, ProcessUpdate, Reset,
         ClientStops
<1>3. poll' # "woken"
  BY DEF HostStep, Listen, ListenWakes, ListenTimesOut, ClientStep, ProcessUpdate, Reset,
         ClientStops
<1>4. poll' \in {"answered", "scheduled"} => answer'.object \subseteq started
  <2>1. CASE HostStep
    BY <2>1 DEF HostStep, Listen, ListenWakes, ListenTimesOut, Outdated, Snapshot, LInv,
                NamesStarted
  <2>2. CASE ClientStep
    BY <2>2, Zenon DEF ClientStep, ProcessUpdate, Reset, ClientStops, LInv, NamesStarted
  <2>3. QED
    BY <2>1, <2>2, Zenon
<1>5. QED
  BY <1>1, <1>2, <1>3, <1>4, RouterSameKeeps, Zenon DEF LInv, RoutingTypeOK, NamesStarted

-----------------------------------------------------------------------------
(* Queries end.                                                            *)

\* Waking queries leaves the assigned ones as they are.
LEMMA WakeKeeps ==
  ASSUME LInv, NEW qs, NEW states \in SUBSET {"entering", "waiting"}, Wake(qs, states)
  PROVE  /\ query' \in [Queries -> QueryStates]
         /\ \A q \in Queries : query[q] = "assigned" => query'[q] = "assigned"
<1>1. query' = [q \in Queries |-> IF q \in {p \in qs : query[p] \in states} THEN "woken" ELSE query[q]]
  BY Zenon DEF Wake
<1>2. query' \in [Queries -> QueryStates]
  BY <1>1, Zenon DEF LInv, RoutingTypeOK, QueryStates
<1>3. ASSUME NEW q \in Queries, query[q] = "assigned" PROVE query'[q] = "assigned"
  <2>1. query[q] \notin states
    BY <1>3, Zenon
  <2>2. QED
    BY <1>1, <1>3, <2>1, Zenon
<1>4. QED
  BY <1>2, <1>3, Zenon

LEMMA CompleteKeeps ==
  ASSUME LInv, NEW qs \in SUBSET Queries, NEW result \in {"ok", "task_error", "actor_error"},
         Complete(qs, result), recent' \subseteq recent, alive' \subseteq alive,
         UNCHANGED <<longPollVars, running, recovering, started>>,
         \A q \in Queries, r \in Replicas : at[q] = {r} /\ q \notin qs => r \in alive',
         result = "actor_error" => \A r \in Known : \A q \in in_flight[r] \cap qs : r \notin alive'
  PROVE  LInv'
<1>1. /\ Known' = Known /\ in_flight' = in_flight
      /\ outcome' = [q \in Queries |-> IF q \in qs THEN result ELSE outcome[q]]
      /\ at' = [q \in Queries |-> IF q \in qs THEN {} ELSE at[q]]
  BY Zenon DEF Complete, Known
<1>2. /\ query' \in [Queries -> QueryStates]
      /\ \A q \in Queries : query[q] = "assigned" => query'[q] = "assigned"
  BY WakeKeeps, Zenon DEF Complete
<1>3. /\ outcome' \in [Queries -> {"none", "ok", "task_error", "actor_error"}]
      /\ at' \in [Queries -> SUBSET Replicas]
  BY <1>1, Zenon DEF LInv, RoutingTypeOK
<1>4. RoutingTypeOK'
  BY <1>1, <1>2, <1>3, Zenon DEF LInv, RoutingTypeOK
<1>5. NamesStarted'
  BY <1>1, Zenon DEF LInv, NamesStarted, longPollVars
<1>6. ASSUME NEW q \in Queries, NEW r \in Replicas, at'[q] = {r}
      PROVE  q \notin qs /\ at[q] = {r} /\ outcome'[q] = outcome[q]
  <2>1. q \notin qs
    <3>1. {r} # {}
      BY Zenon
    <3>2. QED
      BY <1>1, <1>6, <3>1, Zenon
  <2>2. QED
    BY <1>1, <1>6, <2>1, Zenon
<1>7. RecordsAgree'
  <2>1. ASSUME NEW r \in Known, NEW q \in in_flight[r] PROVE GoodRecord(r, q)'
    <3>1. GoodRecord(r, q) /\ q \in Queries
      BY <2>1, Zenon DEF LInv, RoutingTypeOK, RecordsAgree
    <3>2. ASSUME outcome'[q] = "actor_error" PROVE r \notin alive'
      <4>1. CASE q \in qs
        BY <1>1, <2>1, <3>1, <3>2, <4>1, Zenon
      <4>2. CASE q \notin qs
        BY <1>1, <3>1, <3>2, <4>2, Zenon DEF GoodRecord
      <4>3. QED
        BY <4>1, <4>2, Zenon
    <3>3. QED
      BY <1>2, <1>6, <3>1, <3>2, Zenon DEF GoodRecord
  <2>2. ASSUME NEW q \in Queries, NEW r \in Replicas, at'[q] = {r}
        PROVE  r \in alive' /\ outcome'[q] = "none"
    BY <1>6, <2>2, Zenon DEF LInv, RecordsAgree
  <2>3. QED
    BY <1>1, <2>1, <2>2, Zenon DEF RecordsAgree
<1>8. RecentRecorded'
  BY <1>1, <1>6, Zenon DEF LInv, RecentRecorded
<1>9. WithinLimit'
  BY <1>1, Zenon DEF LInv, WithinLimit
<1>10. QED
  BY <1>4, <1>5, <1>7, <1>8, <1>9, Zenon DEF LInv

LEMMA ReplicaDiesKeeps == ASSUME LInv, NEW r \in Replicas, ReplicaDies(r) PROVE LInv'
<1>1. RunningAt(r) \in SUBSET Queries
  BY Zenon DEF RunningAt
<1>2. /\ Complete(RunningAt(r), "actor_error") /\ recent' \subseteq recent /\ alive' = alive \ {r}
      /\ UNCHANGED <<longPollVars, running, recovering, started>>
  BY Zenon DEF ReplicaDies, ActorGone
<1>3. ASSUME NEW q \in Queries, NEW p \in Replicas, at[q] = {p}, q \notin RunningAt(r)
      PROVE  p \in alive'
  <2>1. p \in alive /\ p # r
    BY <1>3, Zenon DEF LInv, RecordsAgree, RunningAt
  <2>2. QED
    BY <1>2, <2>1, Zenon
<1>4. ASSUME NEW p \in Known, NEW q \in in_flight[p] \cap RunningAt(r) PROVE p \notin alive'
  <2>1. at[q] = {r} /\ GoodRecord(p, q)
    BY <1>4, Zenon DEF RunningAt, LInv, RecordsAgree
  <2>2. r = p
    BY <2>1, Zenon DEF GoodRecord
  <2>3. QED
    BY <1>2, <2>2, Zenon
<1>5. QED
  BY <1>1, <1>2, <1>3, <1>4, CompleteKeeps, Zenon

LEMMA QueryAnsweredKeeps == ASSUME LInv, NEW q \in Queries, QueryAnswered(q) PROVE LInv'
<1>1. /\ Complete({q}, "ok") \/ Complete({q}, "task_error")
      /\ recent' \subseteq recent /\ alive' = alive
      /\ UNCHANGED <<longPollVars, running, recovering, started>>
  BY Zenon DEF QueryAnswered, ReplicaAnswers, controllerVars
<1>2. \A p \in Queries, r \in Replicas : at[p] = {r} => r \in alive
  BY Zenon DEF LInv, RecordsAgree
<1>3. QED
  BY <1>1, <1>2, CompleteKeeps, Zenon

-----------------------------------------------------------------------------
\* An announcement: the router starts counting again.
LEMMA RouterUpdatedKeeps == ASSUME LInv, RouterUpdated PROVE LInv'
<1> DEFINE new == answer.object
<1>1. /\ in_flight' = [r \in new |-> {}] /\ Known' = new /\ at' = at /\ outcome' = outcome
      /\ new \subseteq started /\ recent' = {} /\ poll' = "sent"
      /\ UNCHANGED <<host_id, host_object, running, recovering, alive, started>>
  BY Zenon DEF RouterUpdated, PollNext, UpdateRunningReplicas, Known, controllerVars, LInv,
         NamesStarted
<1>2. query' \in [Queries -> QueryStates]
  <2>1. Wake(Queries, {"waiting"}) \/ query' = query
    BY Zenon DEF RouterUpdated, UpdateRunningReplicas
  <2>2. QED
    BY <2>1, WakeKeeps, Zenon DEF LInv, RoutingTypeOK
<1> HIDE DEF new
<1>3. RoutingTypeOK'
  BY <1>1, <1>2, Zenon DEF LInv, RoutingTypeOK
<1>4. NamesStarted'
  BY <1>1, Zenon DEF LInv, NamesStarted
<1>5. RecordsAgree' /\ RecentRecorded'
  BY <1>1, Zenon DEF LInv, RecordsAgree, RecentRecorded
<1>6. WithinLimit'
  <2>1. Cardinality({}) <= MaxConcurrent
    BY FS_EmptySet, MaxConcurrentAssumption
  <2>2. QED
    BY <1>1, <2>1, Zenon DEF WithinLimit
<1>7. QED
  BY <1>3, <1>4, <1>5, <1>6, Zenon DEF LInv

-----------------------------------------------------------------------------
(* A query is assigned, or waits.                                          *)

\* What is left of the router's records after completed queries, and replicas
\* found dead, were taken off: no query still running is lost.
Pruned(f) ==
    /\ DOMAIN f \subseteq Known
    /\ \A r \in Known : r \in alive => r \in DOMAIN f
    /\ \A r \in DOMAIN f : /\ f[r] \subseteq in_flight[r]
                           /\ RunningAt(r) \cap in_flight[r] \subseteq f[r]

LEMMA RecordsPruned ==
  ASSUME LInv, NEW kept \in SUBSET MayHide(in_flight)
  PROVE  Pruned(in_flight) /\ Pruned(Drained(in_flight, kept))
<1>1. Pruned(in_flight)
  BY Zenon DEF Pruned, Known
<1> DEFINE f == Drained(in_flight, kept)
<1>2. DOMAIN f \subseteq Known /\ \A r \in DOMAIN f : f[r] = in_flight[r] \ Finished(in_flight)
  BY Zenon DEF Drained, Known, MayHide, With
<1>3. ASSUME NEW r \in Known, r \in alive PROVE r \in DOMAIN f
  <2>1. \A q \in in_flight[r] : outcome[q] # "actor_error"
    BY <1>3, Zenon DEF LInv, RecordsAgree, GoodRecord
  <2>2. r \notin With(in_flight, "actor_error")
    BY <2>1, Zenon DEF With
  <2>3. QED
    BY <2>2, Zenon DEF Drained, Known
<1>4. ASSUME NEW r \in DOMAIN f PROVE RunningAt(r) \cap in_flight[r] \subseteq f[r]
  <2>1. r \in Replicas
    BY <1>2, Zenon DEF LInv, RoutingTypeOK
  <2>2. \A q \in RunningAt(r) : outcome[q] = "none"
    BY <2>1, Zenon DEF RunningAt, LInv, RecordsAgree
  <2>3. QED
    BY <1>2, <2>2, Zenon DEF Finished
<1>5. QED
  BY <1>1, <1>2, <1>3, <1>4, Zenon DEF Pruned

LEMMA PrunedFits ==
  ASSUME LInv, NEW f, Pruned(f), NEW p \in DOMAIN f
  PROVE  /\ f[p] \in SUBSET Queries /\ Cardinality(f[p]) \in Nat
         /\ Cardinality(f[p]) <= MaxConcurrent
<1>1. p \in Known /\ f[p] \in SUBSET in_flight[p] /\ in_flight[p] \in SUBSET Queries
  BY Zenon DEF Pruned, LInv, RoutingTypeOK
<1>2. Cardinality(in_flight[p]) <= MaxConcurrent
  BY <1>1, Zenon DEF LInv, WithinLimit
<1>3. /\ Cardinality(f[p]) <= Cardinality(in_flight[p])
      /\ Cardinality(f[p]) \in Nat /\ Cardinality(in_flight[p]) \in Nat
  BY <1>1, Smaller, Zenon
<1>4. f[p] \in SUBSET Queries
  BY <1>1, Zenon
<1>5. QED
  BY <1>2, <1>3, <1>4, MaxConcurrentAssumption

\* The record of a recent query that still runs is among those left.
LEMMA RecentStays ==
  ASSUME LInv, NEW f, Pruned(f), NEW q \in recent, q \in Queries, NEW r \in Replicas, at[q] = {r}
  PROVE  r \in DOMAIN f /\ q \in f[r]
<1>1. r \in Known /\ q \in in_flight[r] /\ r \in alive /\ q \in RunningAt(r)
  BY Zenon DEF LInv, RecentRecorded, RecordsAgree, RunningAt
<1>2. QED
  BY <1>1, Zenon DEF Pruned

OthersSame == UNCHANGED <<longPollVars, controllerVars>>

LEMMA AssignKeeps ==
  ASSUME LInv, NEW f, Pruned(f), NEW q \in Queries, query[q] \in {"new", "woken"},
         NEW r \in HasRoom(f), Assign(q, r, f, alive), recent' \subseteq recent \cup {q}, OthersSame
  PROVE  LInv'
<1>1. \A p \in Known : q \notin in_flight[p]
  BY Zenon DEF LInv, RecordsAgree, GoodRecord
<1>2. r \in DOMAIN f /\ r \in Known /\ r \in Replicas /\ Cardinality(f[r]) < MaxConcurrent
  BY Zenon DEF HasRoom, Pruned, LInv, RoutingTypeOK
<1>3. /\ Known' = DOMAIN f
      /\ \A p \in DOMAIN f : in_flight'[p] = IF p = r THEN f[r] \cup {q} ELSE f[p]
  BY <1>2, Zenon DEF Assign, Known
<1>4. /\ at' \in [Queries -> SUBSET Replicas]
      /\ \A o \in Queries : at'[o] = IF o = q THEN {r} \cap alive ELSE at[o]
  BY <1>2, Zenon DEF Assign, LInv, RoutingTypeOK
<1>5. /\ query' \in [Queries -> QueryStates]
      /\ \A o \in Queries : query'[o] = IF o = q THEN "assigned" ELSE query[o]
  BY Zenon DEF Assign, LInv, RoutingTypeOK, QueryStates
<1>6. /\ outcome' \in [Queries -> {"none", "ok", "task_error", "actor_error"}]
      /\ \A o \in Queries : o # q => outcome'[o] = outcome[o]
      /\ outcome'[q] = IF r \in alive THEN "none" ELSE "actor_error"
  BY Zenon DEF Assign, LInv, RoutingTypeOK
<1>7. UNCHANGED <<host_id, host_object, poll, answer, running, recovering, alive, started>>
  BY DEF OthersSame, longPollVars, controllerVars
<1>8. \A p \in DOMAIN f : p \in Known /\ f[p] \subseteq in_flight[p]
  BY Zenon DEF Pruned
<1>9. ASSUME NEW p \in Replicas, at'[q] = {p} PROVE p = r /\ r \in alive
  <2>1. p \in {r} \cap alive
    BY <1>4, <1>9, Zenon
  <2>2. QED
    BY <2>1, Zenon
<1>10. RoutingTypeOK'
  <2>1. Known' \subseteq Replicas
    BY <1>3, <1>8, Zenon DEF LInv, RoutingTypeOK
  <2>2. \A p \in Known' : in_flight'[p] \subseteq Queries
    BY <1>2, <1>3, <1>8, Zenon DEF LInv, RoutingTypeOK
  <2>3. QED
    BY <2>1, <2>2, <1>4, <1>5, <1>6, <1>7, Zenon DEF LInv, RoutingTypeOK
<1>11. NamesStarted'
  BY <1>3, <1>7, <1>8, Zenon DEF LInv, NamesStarted
<1>12. RecordsAgree'
  <2>1. ASSUME NEW p \in Known', NEW o \in in_flight'[p] PROVE GoodRecord(p, o)'
    <3>1. CASE o = q
      <4>1. p = r
        BY <1>1, <1>3, <1>8, <2>1, <3>1, Zenon
      <4>2. QED
        BY <1>5, <1>6, <1>7, <1>9, <3>1, <4>1, Zenon DEF GoodRecord
    <3>2. CASE o # q
      <4>1. o \in in_flight[p] /\ p \in Known
        BY <1>3, <1>8, <2>1, <3>2, Zenon
      <4>2. GoodRecord(p, o) /\ o \in Queries
        BY <4>1, Zenon DEF LInv, RoutingTypeOK, RecordsAgree
      <4>3. QED
        BY <1>4, <1>5, <1>6, <1>7, <3>2, <4>2, Zenon DEF GoodRecord
    <3>3. QED
      BY <3>1, <3>2, Zenon
  <2>2. ASSUME NEW o \in Queries, NEW p \in Replicas, at'[o] = {p}
        PROVE  p \in alive' /\ outcome'[o] = "none"
    <3>1. CASE o = q
      BY <1>6, <1>7, <1>9, <2>2, <3>1, Zenon
    <3>2. CASE o # q
      BY <1>4, <1>6, <1>7, <2>2, <3>2, Zenon DEF LInv, RecordsAgree
    <3>3. QED
      BY <3>1, <3>2, Zenon
  <2>3. QED
    BY <2>1, <2>2, Zenon DEF RecordsAgree
<1>13. RecentRecorded'
  <2> SUFFICES ASSUME NEW o \in Queries, NEW p \in Replicas, o \in recent', at'[o] = {p}
               PROVE  p \in Known' /\ o \in in_flight'[p]
    BY Zenon DEF RecentRecorded
  <2>1. CASE o = q
    BY <1>2, <1>3, <1>9, <2>1, Zenon
  <2>2. CASE o # q
    <3>1. o \in recent /\ at[o] = {p}
      BY <1>4, <2>2, Zenon
    <3>2. p \in DOMAIN f /\ o \in f[p]
      BY <3>1, RecentStays, Zenon
    <3>3. QED
      BY <1>3, <3>2, Zenon
  <2>3. QED
    BY <2>1, <2>2, Zenon
<1>14. WithinLimit'
  <2> SUFFICES ASSUME NEW p \in Known' PROVE Cardinality(in_flight'[p]) <= MaxConcurrent
    BY Zenon DEF WithinLimit
  <2>1. CASE p = r
    <3>1. f[r] \in SUBSET Queries /\ Cardinality(f[r]) \in Nat
      BY <1>2, PrunedFits, Zenon
    <3>2. Cardinality(f[r] \cup {q}) <= Cardinality(f[r]) + 1
      BY <3>1, OneMore, Zenon
    <3>3. Cardinality(f[r] \cup {q}) \in Nat
      <4>1. f[r] \cup {q} \in SUBSET Queries
        BY <3>1, Zenon
      <4>2. QED
        BY <4>1, Finite, Zenon
    <3>4. Cardinality(f[r] \cup {q}) <= MaxConcurrent
      BY <1>2, <3>1, <3>2, <3>3, MaxConcurrentAssumption
    <3>5. QED
      BY <1>2, <1>3, <2>1, <3>4, Zenon
  <2>2. CASE p # r
    BY <1>3, <2>2, PrunedFits, Zenon
  <2>3. QED
    BY <2>1, <2>2, Zenon
<1>15. QED
  BY <1>10, <1>11, <1>12, <1>13, <1>14, Zenon DEF LInv

LEMMA WaitKeeps ==
  ASSUME LInv, NEW f, Pruned(f), NEW q \in Queries, query[q] \in {"new", "woken"},
         Wait(q, f), recent' = recent, OthersSame
  PROVE  LInv'
<1>1. Known' = DOMAIN f /\ in_flight' = f /\ at' = at /\ outcome' = outcome
  BY Zenon DEF Wait, Known
<1>2. /\ query' \in [Queries -> QueryStates]
      /\ \A o \in Queries : query[o] = "assigned" => query'[o] = "assigned"
  BY Zenon DEF Wait, LInv, RoutingTypeOK, QueryStates
<1>3. UNCHANGED <<host_id, host_object, poll, answer, running, recovering, alive, started>>
  BY DEF OthersSame, longPollVars, controllerVars
<1>4. RoutingTypeOK'
  BY <1>1, <1>2, <1>3, Zenon DEF LInv, RoutingTypeOK, Pruned
<1>5. NamesStarted'
  BY <1>1, <1>3, Zenon DEF LInv, NamesStarted, Pruned
<1>6. RecordsAgree'
  <2>1. ASSUME NEW p \in DOMAIN f, NEW o \in f[p] PROVE GoodRecord(p, o)'
    <3>1. GoodRecord(p, o) /\ o \in Queries
      BY Zenon DEF Pruned, LInv, RoutingTypeOK, RecordsAgree
    <3>2. QED
      BY <1>1, <1>2, <1>3, <3>1, Zenon DEF GoodRecord
  <2>2. QED
    BY <1>1, <1>3, <2>1, Zenon DEF LInv, RecordsAgree
<1>7. RecentRecorded'
  BY <1>1, RecentStays, Zenon DEF RecentRecorded
<1>8. WithinLimit'
  BY <1>1, PrunedFits, Zenon DEF WithinLimit
<1>9. QED
  BY <1>4, <1>5, <1>6, <1>7, <1>8, Zenon DEF LInv

\* The task that waits for the event changes only its query's state.
LEMMA EventWaitKeeps ==
  ASSUME LInv, NEW q \in Queries, EventWaitStarts(q), recent' = recent, OthersSame
  PROVE  LInv'
<1>1. Known' = Known /\ in_flight' = in_flight /\ at' = at /\ outcome' = outcome
  BY Zenon DEF EventWaitStarts, Known
<1>2. /\ query' \in [Queries -> QueryStates]
      /\ \A o \in Queries : query[o] = "assigned" => query'[o] = "assigned"
  <2>1. CASE Wake({q}, {"entering"})
    BY <2>1, WakeKeeps, Zenon
  <2>2. CASE query' = [query EXCEPT ![q] = "waiting"]
    BY <2>2, Zenon DEF EventWaitStarts, LInv, RoutingTypeOK, QueryStates
  <2>3. QED
    BY <2>1, <2>2, Zenon DEF EventWaitStarts
<1>3. UNCHANGED <<host_id, host_object, poll, answer, running, recovering, alive, started>>
  BY DEF OthersSame, longPollVars, controllerVars
<1>4. RoutingTypeOK' /\ NamesStarted'
  BY <1>1, <1>2, <1>3, Zenon DEF LInv, RoutingTypeOK, NamesStarted
<1>5. RecordsAgree'
  <2>1. ASSUME NEW p \in Known, NEW o \in in_flight[p] PROVE GoodRecord(p, o)'
    <3>1. GoodRecord(p, o) /\ o \in Queries
      BY <2>1, Zenon DEF LInv, RoutingTypeOK, RecordsAgree
    <3>2. QED
      BY <1>1, <1>2, <1>3, <3>1, Zenon DEF GoodRecord
  <2>2. QED
    BY <1>1, <1>3, <2>1, Zenon DEF LInv, RecordsAgree
<1>6. RecentRecorded' /\ WithinLimit'
  BY <1>1, Zenon DEF LInv, RecentRecorded, WithinLimit
<1>7. QED
  BY <1>4, <1>5, <1>6, Zenon DEF LInv

LEMMA QueryStepKeeps == ASSUME LInv, NEW q \in Queries, QueryStep(q) PROVE LInv'
<1>1. /\ OthersSame /\ recent' \subseteq recent \cup {q}
      /\ query'[q] # "assigned" => recent' = recent
  BY Zenon DEF QueryStep, OthersSame
<1>2. CASE AssignReplica(q, alive)
  <2>1. query[q] \in {"new", "woken"}
    BY <1>2, Zenon DEF AssignReplica
  <2>2. CASE HasRoom(in_flight) # {}
    <3>1. \E r \in HasRoom(in_flight) : Assign(q, r, in_flight, alive)
      BY <1>2, <2>2, Zenon DEF AssignReplica
    <3>2. Pruned(in_flight)
      BY Zenon DEF Pruned, Known
    <3>3. QED
      BY <1>1, <2>1, <3>1, <3>2, AssignKeeps, Zenon
  <2>3. CASE HasRoom(in_flight) = {}
    <3>1. PICK kept \in SUBSET MayHide(in_flight) :
            \/ \E r \in HasRoom(Drained(in_flight, kept)) : Assign(q, r, Drained(in_flight, kept), alive)
            \/ Wait(q, Drained(in_flight, kept))
      BY <1>2, <2>3, Zenon DEF AssignReplica
    <3>2. Pruned(Drained(in_flight, kept))
      BY RecordsPruned, Zenon
    <3>3. ASSUME Wait(q, Drained(in_flight, kept)) PROVE recent' = recent
      <4>1. query'[q] = "entering"
        BY <3>3, Zenon DEF Wait, LInv, RoutingTypeOK
      <4>2. QED
        BY <1>1, <4>1, Zenon
    <3>4. QED
      BY <1>1, <2>1, <3>1, <3>2, <3>3, AssignKeeps, WaitKeeps, Zenon
  <2>4. QED
    BY <2>2, <2>3, Zenon
<1>3. CASE EventWaitStarts(q)
  <2>1. query'[q] \in {"woken", "waiting"}
    BY <1>3, Zenon DEF EventWaitStarts, Wake, LInv, RoutingTypeOK
  <2>2. QED
    BY <1>1, <1>3, <2>1, EventWaitKeeps, Zenon
<1>4. QED
  BY <1>2, <1>3, Zenon DEF QueryStep

-----------------------------------------------------------------------------
\* Every step of the composition keeps the inductive invariant.
LEMMA RoutingStepKeeps == LInv /\ [RoutingNext]_routingVars => LInv'
<1> SUFFICES ASSUME LInv, [RoutingNext]_routingVars PROVE LInv'
  BY Zenon
<1>1. ASSUME NEW r \in Replicas,
             ReplicaUp(r) \/ ReplicaDown(r) \/ ReplicaDies(r) \/ ReplicaRecovers(r)
      PROVE  LInv'
  BY <1>1, ReplicaUpKeeps, ReplicaDownKeeps, ReplicaDiesKeeps, ReplicaRecoversKeeps, Zenon
<1>2. CASE ControllerCrashes \/ ControllerKilled
  BY <1>2, ControllerKeeps, Zenon
<1>3. CASE HostStep \/ ClientStep
  BY <1>3, LongPollKeeps, Zenon
<1>4. CASE RouterUpdated
  BY <1>4, RouterUpdatedKeeps, Zenon
<1>5. ASSUME NEW q \in Queries, QueryStep(q) \/ QueryAnswered(q) PROVE LInv'
  BY <1>5, QueryStepKeeps, QueryAnsweredKeeps, Zenon
<1>6. CASE UNCHANGED routingVars
  <2>1. /\ RouterSame
        /\ UNCHANGED <<host_id, host_object, poll, answer, running, recovering, alive, started>>
    BY <1>6, Zenon DEF routingVars, longPollVars, RouterSame
  <2>2. QED
    BY <2>1, RouterSameKeeps, Zenon DEF LInv, RoutingTypeOK, NamesStarted
<1>7. QED
  BY <1>1, <1>2, <1>3, <1>4, <1>5, <1>6, Zenon DEF RoutingNext

LEMMA RoutingInvariantIsEnough == LInv => BoundSinceAnnounced
<1> SUFFICES ASSUME LInv, NEW r \in alive
             PROVE  Cardinality(RunningAt(r) \cap recent) <= MaxConcurrent
  BY Zenon DEF BoundSinceAnnounced
<1> DEFINE S == RunningAt(r) \cap recent
<1>1. r \in Replicas
  BY Zenon DEF LInv, RoutingTypeOK, NamesStarted
<1>2. \A q \in S : r \in Known /\ q \in in_flight[r]
  BY <1>1, Zenon DEF RunningAt, LInv, RecentRecorded
<1> HIDE DEF S
<1>3. CASE r \in Known
  <2>1. in_flight[r] \in SUBSET Queries /\ S \in SUBSET in_flight[r]
    BY <1>2, <1>3, Zenon DEF LInv, RoutingTypeOK
  <2>2. /\ Cardinality(S) <= Cardinality(in_flight[r])
        /\ Cardinality(S) \in Nat /\ Cardinality(in_flight[r]) \in Nat
    BY <2>1, Smaller, Zenon
  <2>3. Cardinality(in_flight[r]) <= MaxConcurrent
    BY <1>3, Zenon DEF LInv, WithinLimit
  <2>4. Cardinality(S) <= MaxConcurrent
    BY <2>2, <2>3, MaxConcurrentAssumption
  <2>5. QED
    BY <2>4, Zenon DEF S
<1>4. CASE r \notin Known
  <2>1. S = {}
    BY <1>2, <1>4, Zenon
  <2>2. Cardinality(S) <= MaxConcurrent
    BY <2>1, FS_EmptySet, MaxConcurrentAssumption
  <2>3. QED
    BY <2>2, Zenon DEF S
<1>5. QED
  BY <1>3, <1>4, Zenon

(***************************************************************************)
(* For any number of replicas, queries, controller crashes and any         *)
(* max_concurrent_queries: of the queries a router sent since              *)
(* update_running_replicas last ran, a live replica runs at most           *)
(* max_concurrent_queries, whatever completes, fails or dies meanwhile and *)
(* whichever errors _drain_completed_object_refs comes upon first.         *)
(***************************************************************************)
THEOREM LimitSinceAnnounced == RoutingSpec => []BoundSinceAnnounced
<1>1. QED
  BY RoutingInitHolds, RoutingStepKeeps, RoutingInvariantIsEnough, PTL DEF RoutingSpec

=============================================================================
