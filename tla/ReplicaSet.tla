----------------------------- MODULE ReplicaSet -----------------------------
(***************************************************************************)
(* A router's ReplicaSet: which replicas it knows, the queries it has in   *)
(* flight at each, and assign_replica, the coroutine that finds a replica  *)
(* for a query or waits until a query in flight completes or the           *)
(* membership changes.  Everything between two awaits is one step of the   *)
(* event loop. The round robin over a shuffled list is any choice of a     *)
(* replica with room.                                                      *)
(***************************************************************************)
EXTENDS Integers, FiniteSets, Functions

CONSTANTS Queries, Replicas,
          FailingArgs,       \* the queries with an argument that may fail
          MaxConcurrent      \* max_concurrent_queries

ASSUME MaxConcurrentAssumption == MaxConcurrent \in Nat \ {0}
ASSUME QueriesAssumption == IsFiniteSet(Queries)

VARIABLES in_flight,   \* in_flight_queries: from the known replicas to queries
          updated,     \* config_updated_event
          query,       \* new, entering (a wait), waiting, woken or assigned, per query
          waits_for,   \* the queries whose refs a waiting query waits for
          at,          \* the replica that runs a query, a set of at most one
          outcome      \* none, ok, task_error or actor_error: the state of the query's ref

replicaSetVars == <<in_flight, updated, query, waits_for, at, outcome>>

ReplicaSetInit ==
    /\ in_flight = << >>
    /\ updated = FALSE
    /\ query = [q \in Queries |-> "new"]
    /\ waits_for = [q \in Queries |-> {}]
    /\ at = [q \in Queries |-> {}]
    /\ outcome = [q \in Queries |-> "none"]

Known == DOMAIN in_flight
Refs(f) == UNION {f[r] : r \in DOMAIN f}

\* The queries among qs that are in one of these states wake up.
Wake(qs, states) ==
    LET woken == {q \in qs : query[q] \in states}
    IN  /\ query' = [q \in Queries |-> IF q \in woken THEN "woken" ELSE query[q]]
        /\ waits_for' = [q \in Queries |-> IF q \in woken THEN {} ELSE waits_for[q]]

\* A mutant: replicas are told apart by their tags, so that an announcement of
\* the known set is no change.
UpdateRunningReplicas_ByTag(running) ==
    /\ in_flight' = [r \in running |-> IF r \in Known THEN in_flight[r] ELSE {}]
    /\ IF running # Known THEN updated' = TRUE /\ Wake(Queries, {"waiting"})
                          ELSE UNCHANGED <<updated, query, waits_for>>
    /\ UNCHANGED <<at, outcome>>

\* update_running_replicas: the keys are RunningReplicaInfos, whose actor handle
\* is a new object, equal to no other, in every announcement. So all the known
\* ones are removed, with the records of their queries, and all those announced
\* are added; the event is set unless there are neither.
UpdateRunningReplicas(running) ==
    /\ in_flight' = [r \in running |-> {}]
    /\ IF Known \cup running # {} THEN updated' = TRUE /\ Wake(Queries, {"waiting"})
                                  ELSE UNCHANGED <<updated, query, waits_for>>
    /\ UNCHANGED <<at, outcome>>

\* A mutant: off by one.
HasRoom_OneMore(f) == {r \in DOMAIN f : Cardinality(f[r]) <= MaxConcurrent}

\* _try_assign_replica finds one of these.
HasRoom(f) == {r \in DOMAIN f : Cardinality(f[r]) < MaxConcurrent}

\* _drain_completed_object_refs: completed queries are taken off, and a replica
\* whose actor is gone with them, unless ray.get comes upon the error of a task
\* first, which hides that of the actor.
Finished(f) == {q \in Refs(f) : outcome[q] # "none"}
With(f, error) == {r \in DOMAIN f : \E q \in f[r] : outcome[q] = error}
Drained(f, kept) == [r \in (DOMAIN f \ With(f, "actor_error")) \cup kept |-> f[r] \ Finished(f)]
MayHide(f) == With(f, "actor_error") \cap With(f, "task_error")

\* The query goes to r; a ref of a dead actor fails at once.
Assign(q, r, f, alive) ==
    /\ in_flight' = [f EXCEPT ![r] = @ \cup {q}]
    /\ at' = [at EXCEPT ![q] = {r} \cap alive]
    /\ query' = [query EXCEPT ![q] = "assigned"]
    /\ outcome' = [outcome EXCEPT ![q] = IF r \in alive THEN "none" ELSE "actor_error"]
    /\ waits_for' = [waits_for EXCEPT ![q] = {}]

\* asyncio.wait for the refs in flight and for the event, whose wait() is a task
\* of its own that the event loop has yet to start.
Wait(q, f) ==
    /\ in_flight' = f
    /\ query' = [query EXCEPT ![q] = "entering"]
    /\ waits_for' = [waits_for EXCEPT ![q] = Refs(f)]
    /\ UNCHANGED <<at, outcome>>

\* assign_replica, from its start or from its wait to the end or the next wait.
AssignReplica(q, alive) ==
    /\ query[q] \in {"new", "woken"}
    /\ updated' = (updated /\ query[q] = "new")
    /\ IF HasRoom(in_flight) # {}
       THEN \E r \in HasRoom(in_flight) : Assign(q, r, in_flight, alive)
       ELSE \E kept \in SUBSET MayHide(in_flight) :
               LET retry == Drained(in_flight, kept)
               IN  IF HasRoom(retry) # {}
                   THEN \E r \in HasRoom(retry) : Assign(q, r, retry, alive)
                   ELSE Wait(q, retry)

\* The task that waits for the event starts: it returns if the event is set,
\* and is woken by the next time it is set otherwise.
EventWaitStarts(q) ==
    /\ query[q] = "entering"
    /\ IF updated THEN Wake({q}, {"entering"})
                  ELSE query' = [query EXCEPT ![q] = "waiting"] /\ UNCHANGED waits_for
    /\ UNCHANGED <<in_flight, updated, at, outcome>>

\* Refs complete: whoever waits for one of them wakes up.
Complete(qs, result) ==
    /\ outcome' = [q \in Queries |-> IF q \in qs THEN result ELSE outcome[q]]
    /\ at' = [q \in Queries |-> IF q \in qs THEN {} ELSE at[q]]
    /\ Wake({q \in Queries : waits_for[q] \cap qs # {}}, {"entering", "waiting"})
    /\ UNCHANGED <<in_flight, updated>>

RunningAt(r) == {q \in Queries : at[q] = {r}}

\* handle_request returns, or is not run because an argument has failed.
ReplicaAnswers(q) ==
    /\ query[q] = "assigned" /\ outcome[q] = "none"
    /\ \/ Complete({q}, "ok")
       \/ q \in FailingArgs /\ Complete({q}, "task_error")

ActorGone(r) == Complete(RunningAt(r), "actor_error")
=============================================================================
