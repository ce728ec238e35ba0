---------------------------- MODULE ServeRouting ----------------------------
(***************************************************************************)
(* How a router learns of the replicas: the controller changes the set of  *)
(* RUNNING replicas and announces it over the long poll, crashes and       *)
(* recovers its replicas one by one; the router assigns queries meanwhile. *)
(* The controller is DeploymentState reduced to what it announces: every   *)
(* change of the RUNNING set here comes with a notification.               *)
(***************************************************************************)
EXTENDS LongPoll, ReplicaSet

CONSTANTS MaxCrashes   \* bound on controller crashes

VARIABLES running,     \* the replicas the controller has in state RUNNING
          recovering,  \* those a new controller has found and not yet heard from
          alive,       \* the actors
          started,     \* replicas ever started, a replica is not started twice
          killed,      \* the controller was killed by a shutdown
          crashes,
          recent       \* the queries in progress assigned since the router's last announcement

routingVars == <<longPollVars, replicaSetVars, running, recovering, alive, started,
                 killed, crashes, recent>>

controllerVars == <<running, recovering, alive, started, killed, crashes>>

RoutingInit ==
    /\ LongPollInit
    /\ ReplicaSetInit
    /\ running = {}
    /\ recovering = {}
    /\ alive = {}
    /\ started = {}
    /\ killed = FALSE
    /\ crashes = 0
    /\ recent = {}

-----------------------------------------------------------------------------
(* The controller and the actors.                                          *)

\* The RUNNING set changes and is announced.
Announce(set) ==
    /\ ~killed
    /\ running' = set
    /\ NotifyChanged(set)

ReplicaUp(r) ==
    /\ r \notin started
    /\ Announce(running \cup {r})
    /\ started' = started \cup {r}
    /\ alive' = alive \cup {r}
    /\ UNCHANGED <<replicaSetVars, recovering, killed, crashes, recent>>

\* Told to drain, or found dead by a health check.
ReplicaDown(r) ==
    /\ r \in running
    /\ Announce(running \ {r})
    /\ UNCHANGED <<replicaSetVars, recovering, alive, started, killed, crashes, recent>>

\* A crash, or the end of a replica that was told to stop.
ReplicaDies(r) ==
    /\ r \in alive
    /\ alive' = alive \ {r}
    /\ ActorGone(r)
    /\ recent' = recent \ RunningAt(r)
    /\ UNCHANGED <<longPollVars, running, recovering, started, killed, crashes>>

ControllerCrashes ==
    /\ ~killed
    /\ crashes < MaxCrashes
    /\ crashes' = crashes + 1
    /\ HostRestarts
    /\ running' = {}
    /\ recovering' = alive
    /\ UNCHANGED <<replicaSetVars, alive, started, killed, recent>>

\* The replica answers get_metadata and is RUNNING again, or is found dead.
ReplicaRecovers(r) ==
    /\ r \in recovering
    /\ recovering' = recovering \ {r}
    /\ IF r \in alive THEN Announce(running \cup {r})
                      ELSE UNCHANGED <<running, longPollVars>>
    /\ UNCHANGED <<replicaSetVars, alive, started, killed, crashes, recent>>

ControllerKilled ==
    /\ ~killed
    /\ killed' = TRUE
    /\ HostKilled
    /\ UNCHANGED <<replicaSetVars, running, recovering, alive, started, crashes, recent>>

-----------------------------------------------------------------------------
(* The router.                                                             *)

HostStep ==
    /\ Listen \/ ListenWakes \/ ListenTimesOut
    /\ ~killed
    /\ UNCHANGED <<replicaSetVars, controllerVars, recent>>

ClientStep ==
    /\ ProcessUpdate \/ Reset \/ ClientStops
    /\ UNCHANGED <<replicaSetVars, controllerVars, recent>>

\* The callback of the poll's answer, and the next poll.
RouterUpdated ==
    /\ PollNext
    /\ UpdateRunningReplicas(answer.object)
    /\ recent' = {}
    /\ UNCHANGED controllerVars

QueryStep(q) ==
    /\ \/ AssignReplica(q, alive)
       \/ EventWaitStarts(q)
    /\ recent' = IF query'[q] = "assigned" THEN recent \cup {q} ELSE recent
    /\ UNCHANGED <<longPollVars, controllerVars>>

QueryAnswered(q) ==
    /\ ReplicaAnswers(q)
    /\ recent' = recent \ {q}
    /\ UNCHANGED <<longPollVars, controllerVars>>

RoutingNext ==
    \/ \E r \in Replicas : \/ ReplicaUp(r) \/ ReplicaDown(r) \/ ReplicaDies(r)
                           \/ ReplicaRecovers(r)
    \/ ControllerCrashes \/ ControllerKilled
    \/ HostStep \/ ClientStep \/ RouterUpdated
    \/ \E q \in Queries : QueryStep(q) \/ QueryAnswered(q)

RoutingSpec == RoutingInit /\ [][RoutingNext]_routingVars

\* Event loops run what is ready, long polls time out, replicas answer, and the
\* control loop finds a dead replica and hears of a recovering one.
RoutingFairness ==
    /\ WF_routingVars(HostStep) /\ WF_routingVars(ClientStep) /\ WF_routingVars(RouterUpdated)
    /\ \A q \in Queries : WF_routingVars(QueryStep(q)) /\ WF_routingVars(QueryAnswered(q))
    /\ \A r \in Replicas : /\ WF_routingVars(ReplicaRecovers(r))
                           /\ WF_routingVars(r \notin alive /\ ReplicaDown(r))

FairRoutingSpec == RoutingSpec /\ RoutingFairness
-----------------------------------------------------------------------------
(***************************************************************************)
(* max_concurrent_queries bounds what one router has running at a live     *)
(* replica of the queries it sent since the last announcement reached it,  *)
(* in every interleaving of completions, drained refs, dead actors and     *)
(* waits.  Older queries are not counted: update_running_replicas forgets  *)
(* all queries in flight, also when it is told of the replicas it knows.   *)
(***************************************************************************)
BoundSinceAnnounced ==
    \A r \in alive : Cardinality(RunningAt(r) \cap recent) <= MaxConcurrent

(***************************************************************************)
(* A router ends up with the replicas the controller last announced, also  *)
(* when the controller crashed and its new host counts snapshot ids from   *)
(* a start that collides with the id the router has: then only the reset   *)
(* after a poll's timeout gets the router out.                             *)
(***************************************************************************)
RouterCatchesUp == <>[](killed \/ Known = running \/ host_id = Nothing)

(***************************************************************************)
(* No query waits for ever while there are replicas: assign_replica is     *)
(* woken by completed refs, dead actors and membership changes.  A query   *)
(* whose wait for the shared config_updated_event starts after the event   *)
(* was set and another query has cleared it misses that wakeup, and is     *)
(* woken by the announcement that follows the timeout of the router's long *)
(* poll, at the latest.                                                    *)
(***************************************************************************)
EveryQueryAssigned ==
    \A q \in Queries : []<>(query[q] = "assigned" \/ killed \/ running = {})
=============================================================================
