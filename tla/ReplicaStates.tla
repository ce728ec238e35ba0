--------------------------- MODULE ReplicaStates ----------------------------
(***************************************************************************)
(* The replicas of one Serve deployment: the controller's record of each   *)
(* replica (ReplicaStateContainer, DeploymentReplica) together with the    *)
(* actor behind it (ActorReplicaWrapper, RayServeReplica).  Everything here*)
(* is a function from one assignment of replicas to the next; the          *)
(* reconciler in DeploymentState strings them together.                    *)
(***************************************************************************)
EXTENDS Integers, FiniteSets, FiniteSetsExt

CONSTANTS Tags,   \* replica tags, numbers; a tag is used again once nobody knows it
          None

ASSUME TagsAssumption == IsFiniteSet(Tags) /\ \A t \in Tags : t \in Nat
ASSUME NoSetAssumption == \A S \in SUBSET Tags : S # None

\* st  - the state the controller has the replica under, "none" when untracked
\* ver - the version the controller believes the replica has
\* act - the actor: starting (constructor), reconfiguring, answering (a call of
\*       reconfigure without a user_config), ready, failed (the constructor or
\*       reconfigure raised), draining and drained (prepare_for_shutdown), dead, none
\* sick - its health checks fail
\* own - the version the actor reports, None before its constructor returned
\* goal - the version it will have when the call in progress returns
\* A version is a pair of a code version and a user_config, which may be None.
Replica(st, ver, act, sick, own, goal) ==
    [st |-> st, ver |-> ver, act |-> act, sick |-> sick, own |-> own, goal |-> goal]

Unused == Replica("none", None, "none", FALSE, None, None)

Pending == {"STARTING", "UPDATING", "RECOVERING"}
Alive(x) == x.act \notin {"none", "dead"}

In(reps, states) == {t \in Tags : reps[t].st \in states}
AtVersion(reps, states, v) == {t \in In(reps, states) : reps[t].ver = v}
NotAtVersion(reps, states, v) == {t \in In(reps, states) : reps[t].ver # v}

\* ReplicaStateContainer.pop: the states in the order given, and within a state
\* in an order that depends on the nodes, which is left open.
Pops(reps, eligible, order, max) ==
    {S \in SUBSET eligible :
        /\ Cardinality(S) = IF max < Cardinality(eligible)
                            THEN max ELSE Cardinality(eligible)
        /\ \A t \in S, u \in eligible \ S : order[reps[t].st] <= order[reps[u].st]}

\* DeploymentReplica.stop: prepare_for_shutdown is sent if the actor is there.
Stopped(x) == Replica("STOPPING", x.ver, IF Alive(x) THEN "draining" ELSE x.act,
                      x.sick, x.own, x.goal)

\* DeploymentReplica.update_user_config: the controller's version is changed at
\* once.  The actor's reconfigure runs the constructor if that has not succeeded
\* yet, and leaves the actor's version as it is when there is no user_config.
Reconfigured(x, v) ==
    LET act == IF ~Alive(x) THEN x.act
               ELSE IF x.own = None THEN "starting"
               ELSE IF v[2] = None THEN "answering" ELSE "reconfiguring"
    IN  Replica("UPDATING", v, act, x.sick, x.own, IF v[2] = None THEN x.goal ELSE v)

Started(v) == Replica("STARTING", v, "starting", FALSE, None, v)

\* Started or found again: the version is the one the actor reports.
NowUp(x) == Replica("RUNNING", x.own, x.act, x.sick, x.own, x.goal)

\* check_started.  A replica being started or reconfigured answers when the call
\* returns; one being recovered answers get_metadata, whatever its actor is doing.
Succeeds(x, answered) ==
    IF x.st = "RECOVERING" THEN answered /\ Alive(x) /\ x.own # None
                           ELSE x.act = "ready"
StartFails(x, answered) ==
    IF x.st = "RECOVERING" THEN answered /\ (~Alive(x) \/ x.own = None)
                           ELSE x.act \in {"failed", "dead"}

\* force_stop.
Killed(x) == Replica(x.st, x.ver, "dead", x.sick, x.own, x.goal)

\* check_stopped: gone, or drained and then killed.
Gone(x) == x.act \in {"dead", "none", "drained"}

\* The live named actors are what a new controller finds; it knows no version.
Recovered(x) == IF Alive(x) THEN Replica("RECOVERING", None, x.act, x.sick, x.own, x.goal)
                            ELSE Unused
Orphaned(x) == IF Alive(x) THEN Replica("none", None, x.act, x.sick, x.own, x.goal)
                           ELSE Unused
=============================================================================
