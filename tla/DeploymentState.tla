-------------------------- MODULE DeploymentState ---------------------------
(***************************************************************************)
(* The Serve controller's reconciler for one deployment (DeploymentState   *)
(* and the part of DeploymentStateManager around it): deploy, delete and   *)
(* shutdown with their write-ahead checkpoint, the control loop's update   *)
(* with autoscaling, rolling update, scaling, health and startup checks,   *)
(* the broadcast of the running replicas, and recovery of a crashed        *)
(* controller from the checkpoint and the named actors.  update() awaits   *)
(* nothing, so it is one action; what the actors answer while it runs is   *)
(* chosen inside it.                                                       *)
(***************************************************************************)
EXTENDS ReplicaStates

CONSTANTS Infos,      \* what may be deployed: [num, auto, code, conf], where auto is the set
                      \* of numbers autoscaling may choose, empty without autoscaling, code is
                      \* None if the version is left open and conf if there is no user_config
          RetryCount, \* MAX_DEPLOYMENT_CONSTRUCTOR_RETRY_COUNT
          MaxEvents   \* bound on API calls and autoscaling decisions, and on actor
                      \* failures, failed writes and controller crashes, together

\* DeploymentInfo, with any number of replicas, and _target_state.
Info == [num : Nat, auto : SUBSET Nat, code : Int \cup {None}, conf : {i.conf : i \in Infos}]
Target == [info : Info \cup {None}, num : Int, ver : Int \X {i.conf : i \in Infos} \cup {None},
           deleting : BOOLEAN]

ASSUME InfosAssumption == Infos \subseteq Info
ASSUME NoneAssumption ==
    None \notin Info /\ None \notin Target /\ None \notin Int \X {i.conf : i \in Infos}

VARIABLES exists,     \* the deployment has an entry in _deployment_states
          target,     \* _target_state
          status,     \* _curr_status_info.status
          retries,    \* _replica_constructor_retry_counter
          replicas,   \* _replicas, with the actors
          announced,  \* RUNNING_REPLICAS of the long poll host, None if never set
          checkpoint, \* the CHECKPOINT_KEY entry of this deployment, None if absent
          accepted,   \* the targets that may hold: the one set by the last call that wrote
                      \* its target and returned normally, and those asked for since by
                      \* calls that failed or were taken for redundant
          calls, faults

vars == <<exists, target, status, retries, replicas, announced, checkpoint,
          accepted, calls, faults>>

\* DeploymentVersion: a version left open gets a random code, unlike any other.
RandomCode == -1 - calls
Version(i) == <<IF i.code = None THEN RandomCode ELSE i.code, i.conf>>

Default == [info |-> None, num |-> -1, ver |-> None, deleting |-> FALSE]
FromInfo(i) == [info |-> i, num |-> i.num, ver |-> Version(i), deleting |-> FALSE]
Deleting(i) == [info |-> i, num |-> 0, ver |-> None, deleting |-> TRUE]

Init ==
    /\ exists = FALSE
    /\ target = Default
    /\ status = "UPDATING"
    /\ retries = 0
    /\ replicas = [t \in Tags |-> Unused]
    /\ announced = None
    /\ checkpoint = None
    /\ accepted = {Deleting(None)}
    /\ calls = 0
    /\ faults = 0

Running == In(replicas, {"RUNNING"})

-----------------------------------------------------------------------------
(* The API.  The checkpoint is written before the target state is set.  A   *)
(* write that fails raises to the caller and leaves the target state; it   *)
(* may have been made all the same, when only its answer was lost.         *)

Call == calls + faults < MaxEvents /\ calls' = calls + 1
Fault == calls + faults < MaxEvents /\ faults' = faults + 1

\* A mutant: the target is not written to the checkpoint.
SetTarget_NotSaved(i) ==
    /\ checkpoint' = checkpoint
    /\ target' = FromInfo(i)
    /\ status' = "UPDATING"
    /\ retries' = 0

\* _set_target_state.
SetTarget(i) ==
    /\ checkpoint' = FromInfo(i)
    /\ target' = FromInfo(i)
    /\ status' = "UPDATING"
    /\ retries' = 0

\* The write of tg fails.
WriteFails(tg) ==
    /\ checkpoint' \in {checkpoint, tg}
    /\ accepted' = accepted \cup {tg}

\* A deploy of what is already the target's info does nothing, also when the
\* deployment is on its way out.
Redundant(i) == exists /\ i.code # None /\ target.info = i

Deploy(i) ==
    /\ Call
    /\ exists' = TRUE
    /\ IF Redundant(i) THEN /\ accepted' = accepted \cup {FromInfo(i)}
                            /\ UNCHANGED <<target, checkpoint, status, retries>>
                       ELSE accepted' = {FromInfo(i)} /\ SetTarget(i)
    /\ UNCHANGED <<replicas, announced, faults>>

\* The entry of a new deployment is made before the write that then fails.
DeployFails(i) ==
    /\ Call /\ Fault
    /\ ~Redundant(i)
    /\ exists' = TRUE
    /\ WriteFails(FromInfo(i))
    /\ UNCHANGED <<target, status, retries, replicas, announced>>

\* _set_target_state_deleting keeps the retry counter.
SetTargetDeleting ==
    /\ exists
    /\ target' = Deleting(target.info)
    /\ status' = "UPDATING"
    /\ UNCHANGED <<exists, retries, replicas, announced>>

Delete ==
    /\ Call
    /\ SetTargetDeleting
    /\ checkpoint' = Deleting(target.info)
    /\ accepted' = {Deleting(target.info)}
    /\ UNCHANGED faults

DeleteFails ==
    /\ Call /\ Fault
    /\ exists
    /\ WriteFails(Deleting(target.info))
    /\ UNCHANGED <<exists, target, status, retries, replicas, announced>>

\* shutdown deletes every deployment, and then the checkpoint.
Shutdown ==
    /\ Call
    /\ SetTargetDeleting
    /\ checkpoint' = None
    /\ accepted' = {Deleting(target.info)}
    /\ UNCHANGED faults

\* The checkpoint's removal fails; a failed write before it is that of DeleteFails.
ShutdownFails ==
    /\ Call /\ Fault
    /\ SetTargetDeleting
    /\ checkpoint' \in {Deleting(target.info), None}
    /\ accepted' = accepted \cup {Deleting(target.info)}

-----------------------------------------------------------------------------
(* update(), in the order of the code.                                     *)

LargerOf(a, b) == IF a > b THEN a ELSE b
SmallerOf(a, b) == IF a < b THEN a ELSE b

RolloutSize(num) == LargerOf(num \div 5, 1)

\* A mutant: replicas that are still starting count as available.
MaxToStop_IgnoresPending(reps, tg) == IF tg.num = 0 THEN 0 ELSE RolloutSize(tg.num)

\* How many replicas of another version _stop_wrong_version_replicas may take.
MaxToStop(reps, tg) ==
    LET v == tg.ver
        oldRunning == Cardinality(NotAtVersion(reps, {"STARTING", "UPDATING", "RUNNING"}, v))
        oldStopping == Cardinality(NotAtVersion(reps, {"STOPPING"}, v))
        newRunning == Cardinality(AtVersion(reps, {"RUNNING"}, v))
    IN  IF tg.num = 0 \/ tg.num < oldRunning + oldStopping THEN 0
        ELSE LargerOf(RolloutSize(tg.num) - (tg.num - newRunning - oldRunning), 0)

WrongVersionPops(reps, tg) ==
    Pops(reps, NotAtVersion(reps, {"STARTING", "RUNNING"}, tg.ver),
         [STARTING |-> 1, RUNNING |-> 2], MaxToStop(reps, tg))

CodeDiffers(x, tg) == x.ver[1] # tg.ver[1]

StopWrongVersion(reps, popped, tg) ==
    [t \in Tags |-> IF t \notin popped THEN reps[t]
                    ELSE IF CodeDiffers(reps[t], tg) THEN Stopped(reps[t])
                    ELSE Reconfigured(reps[t], tg.ver)]

\* _scale_deployment_replicas: how many are missing (or, negative, too many).
Delta(reps, tg) ==
    tg.num - Cardinality(In(reps, {"STARTING", "UPDATING", "RUNNING", "RECOVERING"}))

ScaleDownPops(reps, tg) ==
    Pops(reps, In(reps, {"STARTING", "UPDATING", "RECOVERING", "RUNNING"}),
         [STARTING |-> 1, UPDATING |-> 2, RECOVERING |-> 3, RUNNING |-> 4],
         LargerOf(-Delta(reps, tg), 0))

\* Tags nobody holds, lowest first.
Fresh(reps, n) ==
    LET free == {t \in Tags : reps[t] = Unused /\ (announced = None \/ t \notin announced)}
    IN  {t \in free : Cardinality({u \in free : u < t}) < n}

ToAdd(reps, tg) ==
    LargerOf(Delta(reps, tg) - Cardinality(In(reps, {"STOPPING"})), 0)

Scale(reps, popped, tg) ==
    LET added == Fresh(reps, ToAdd(reps, tg))
    IN  [t \in Tags |-> IF t \in popped THEN Stopped(reps[t])
                        ELSE IF t \in added THEN Started(tg.ver)
                        ELSE reps[t]]

\* What _scale_deployment_replicas reports: nothing when no replica is missing or
\* too many, even if a replica of another version was just stopped.
ScaleReports(reps, popped, tg) ==
    LET stopped == {t \in popped : CodeDiffers(reps[t], tg)}
        delta == Delta(StopWrongVersion(reps, popped, tg), tg)
    IN  delta < 0 \/ (delta > 0 /\ stopped # {})

\* _check_and_update_replicas.  noticed: running replicas whose health check
\* failed often enough or found the actor dead, and recovering ones that
\* answered; late: recovering ones past the slow-startup limit and stopping ones
\* past their deadline.
Unhealthy(reps, noticed) ==
    {t \in In(reps, {"RUNNING"}) \cap noticed : reps[t].act = "dead" \/ reps[t].sick}

NowRunning(reps, noticed) ==
    {t \in In(reps, Pending) : Succeeds(reps[t], t \in noticed)}

FailedToStart(reps, noticed) ==
    {t \in In(reps, Pending) : StartFails(reps[t], t \in noticed)}

TooSlow(reps, noticed, late) ==
    (In(reps, {"RECOVERING"}) \cap late) \ noticed

AfterChecks(reps, noticed, late) ==
    LET drop == Unhealthy(reps, noticed) \cup FailedToStart(reps, noticed)
                    \cup TooSlow(reps, noticed, late)
        up == NowRunning(reps, noticed)
    IN  [t \in Tags |-> IF t \in drop THEN Stopped(reps[t])
                        ELSE IF t \in up THEN NowUp(reps[t])
                        ELSE reps[t]]

\* A mutant: nothing is killed at its deadline.
AfterStops_NoDeadline(reps, late) ==
    [t \in Tags |-> IF reps[t].st = "STOPPING" /\ Gone(reps[t]) THEN Unused ELSE reps[t]]

\* The replicas that stopped are forgotten; one past its deadline is killed and
\* found gone by a later update.
AfterStops(reps, late) ==
    [t \in Tags |-> IF reps[t].st # "STOPPING" THEN reps[t]
                    ELSE IF Gone(reps[t]) THEN Unused
                    ELSE IF t \in late THEN Killed(reps[t])
                    ELSE reps[t]]

\* A mutant: a replica that comes up is not reported.
CheckReports_OnlyFailures(reps, noticed) == Unhealthy(reps, noticed) # {}

\* Whether _check_and_update_replicas reports a change of the running replicas.
CheckReports(reps, noticed) ==
    Unhealthy(reps, noticed) # {} \/ NowRunning(reps, noticed) # {}

StatusAfterChecks(st, reps, noticed, warn, tg) ==
    IF \E t \in Unhealthy(reps, noticed) : reps[t].ver = tg.ver THEN "UNHEALTHY"
    ELSE IF warn /\ st # "UNHEALTHY" THEN "UPDATING"
    ELSE st

\* Only compared with a threshold of at most RetryCount, so it stops there.
RetriesAfterChecks(c, reps, noticed) ==
    IF c < 0 THEN c
    ELSE SmallerOf(c + Cardinality(FailedToStart(reps, noticed)), RetryCount)

\* _check_curr_status.
RunningAtTarget(reps, tg) ==
    IF tg.deleting THEN In(reps, {"RUNNING"}) ELSE AtVersion(reps, {"RUNNING"}, tg.ver)

TooManyFailures(c, tg) ==
    LET threshold == SmallerOf(RetryCount, 3 * tg.num)
    IN  threshold # 0 /\ c >= threshold

NothingPending(reps) == In(reps, Pending \cup {"STOPPING"}) = {}

GivesUp(c, reps, tg) == TooManyFailures(c, tg) /\ RunningAtTarget(reps, tg) = {}

WasDeleted(c, reps, tg) ==
    /\ ~GivesUp(c, reps, tg)
    /\ NothingPending(reps)
    /\ tg.deleting
    /\ In(reps, {"RUNNING"}) = {}

CurrStatus(st, c, reps, tg) ==
    IF GivesUp(c, reps, tg) THEN "UNHEALTHY"
    ELSE IF NothingPending(reps) /\ tg.num = Cardinality(RunningAtTarget(reps, tg))
    THEN "HEALTHY"
    ELSE st

CurrRetries(c, reps, tg) ==
    IF TooManyFailures(c, tg) /\ ~GivesUp(c, reps, tg) THEN -1 ELSE c

\* One update() towards the target tg, from status st and counter c.  The manager
\* drops the entry of a deployment that was deleted.
Update(tg, st, c, noticed, late, warn) ==
    \E outdated \in WrongVersionPops(replicas, tg) :
    \E r1 \in {StopWrongVersion(replicas, outdated, tg)} :
    \E surplus \in ScaleDownPops(r1, tg) :
    \E r2 \in {Scale(r1, surplus, tg)} :
    \E r3 \in {AfterChecks(r2, noticed, late)} :
    \E r4 \in {AfterStops(r3, late)} :
    \E c3 \in {RetriesAfterChecks(c, r2, noticed)} :
        LET slow == warn /\ In(r2, Pending) \cap In(r3, Pending) # {}
            st3 == StatusAfterChecks(st, r2, noticed, slow, tg)
            deleted == WasDeleted(c3, r4, tg)
        IN  /\ replicas' = r4
            /\ announced' =
                  IF ScaleReports(replicas, outdated, tg) \/ CheckReports(r2, noticed)
                  THEN In(r4, {"RUNNING"}) ELSE announced
            /\ exists' = ~deleted
            /\ target' = IF deleted THEN Default ELSE tg
            /\ status' = IF deleted THEN "UPDATING" ELSE CurrStatus(st3, c3, r4, tg)
            /\ retries' = IF deleted THEN 0 ELSE CurrRetries(c3, r4, tg)

\* An entry left by a failed first deploy has no info, on which the manager's
\* update raises before anything is done.
Updatable == exists /\ target.info # None

ControlLoop(noticed, late, warn) ==
    /\ Updatable
    /\ UNCHANGED <<checkpoint, accepted, calls, faults>>
    /\ Update(target, status, retries, noticed, late, warn)

\* The autoscaling policy decides on another number: any of its range when it has
\* metrics of a running replica, one when it has none, there are to be no replicas
\* and queries are queued.
Decisions ==
    CASE target.deleting -> {}
      [] ~target.deleting /\ Running # {} -> target.info.auto \ {target.info.num}
      [] ~target.deleting /\ Running = {} ->
            IF target.info.num = 0 THEN target.info.auto \cap {1} ELSE {}

\* A version left open becomes the one it was given.
Scaled(n) ==
    FromInfo([target.info EXCEPT !.num = n, !.code = IF @ = None THEN target.ver[1] ELSE @])

\* The target is written ahead and set before the update.
Autoscale(n, noticed, late, warn) ==
    /\ Call
    /\ checkpoint' = Scaled(n)
    /\ accepted' = {Scaled(n)}
    /\ Update(Scaled(n), "UPDATING", 0, noticed, late, warn)
    /\ UNCHANGED faults

\* The shallow copy shares its config with the target's info: when the write
\* fails, the info has the new number and the target the old one.
AutoscaleFails(n) ==
    /\ Call /\ Fault
    /\ WriteFails(Scaled(n))
    /\ target' = [target EXCEPT !.info = [target.info EXCEPT !.num = n]]
    /\ UNCHANGED <<exists, status, retries, replicas, announced>>

-----------------------------------------------------------------------------
(* The actors, and the controller's crash.                                 *)

Becomes(t, act, sick, own) ==
    /\ replicas' = [replicas EXCEPT ![t] = Replica(@.st, @.ver, act, sick, own, @.goal)]
    /\ UNCHANGED <<exists, target, status, retries, announced, checkpoint, accepted, calls>>

\* The constructor or reconfigure returns.
ActorReady(t) ==
    /\ replicas[t].act \in {"starting", "reconfiguring", "answering"}
    /\ Becomes(t, "ready", replicas[t].sick, replicas[t].goal)
    /\ UNCHANGED faults

\* The constructor raises, or reconfigure does after it has set the version.
ActorFails(t) ==
    /\ Fault
    /\ \/ /\ replicas[t].act = "starting"
          /\ Becomes(t, "failed", FALSE, None)
       \/ /\ replicas[t].act \in {"starting", "reconfiguring"}
          /\ replicas[t].goal[2] # None
          /\ Becomes(t, "failed", replicas[t].sick, replicas[t].goal)

\* prepare_for_shutdown returns: no request is left.
ActorDrained(t) ==
    /\ replicas[t].act = "draining"
    /\ Becomes(t, "drained", replicas[t].sick, replicas[t].own)
    /\ UNCHANGED faults

ActorSick(t) ==
    /\ Fault
    /\ replicas[t].act = "ready" /\ ~replicas[t].sick
    /\ Becomes(t, "ready", TRUE, replicas[t].own)

ActorDies(t) ==
    /\ Fault
    /\ Alive(replicas[t])
    /\ Becomes(t, "dead", replicas[t].sick, replicas[t].own)

\* The controller dies and is started again: the target comes from the
\* checkpoint, the replicas from the names of the live actors, nothing else.
Crash ==
    /\ Fault
    /\ exists' = (checkpoint # None)
    /\ target' = IF checkpoint = None THEN Default ELSE checkpoint
    /\ status' = "UPDATING"
    /\ retries' = 0
    /\ announced' = None
    /\ replicas' = [t \in Tags |-> IF checkpoint = None THEN Orphaned(replicas[t])
                                                       ELSE Recovered(replicas[t])]
    /\ UNCHANGED <<checkpoint, accepted, calls>>

Noticeable ==
    In(replicas, {"RECOVERING"})
        \cup {t \in In(replicas, {"RUNNING"}) : replicas[t].act = "dead" \/ replicas[t].sick}

\* Past a deadline can be a replica that an earlier update told to stop or found,
\* and one whose failure stops it at once, without a graceful timeout.  A slow
\* start only changes the status of a healthy deployment.
CanBeLate ==
    {t \in Tags : /\ Alive(replicas[t])
                  /\ \/ replicas[t].st \in {"STOPPING", "RECOVERING"}
                     \/ replicas[t].act = "failed" \/ replicas[t].sick}
CanBeSlow == status = "HEALTHY" /\ In(replicas, Pending) # {}

Next ==
    \/ \E i \in Infos : Deploy(i) \/ DeployFails(i)
    \/ Delete \/ DeleteFails \/ Shutdown \/ ShutdownFails
    \/ \E noticed \in SUBSET Noticeable, late \in SUBSET CanBeLate,
          warn \in {FALSE, CanBeSlow} :
          \/ ControlLoop(noticed, late, warn)
          \/ Updatable /\ \E n \in Decisions : Autoscale(n, noticed, late, warn)
    \/ Updatable /\ \E n \in Decisions : AutoscaleFails(n)
    \/ \E t \in Tags : \/ ActorReady(t) \/ ActorFails(t) \/ ActorDrained(t)
                       \/ ActorSick(t) \/ ActorDies(t)
    \/ Crash

Spec == Init /\ [][Next]_vars

\* The control loop runs for ever; health checks and recovery calls are answered
\* and deadlines pass; constructors and reconfigure return or raise.
Fairness ==
    /\ WF_vars(ControlLoop(Noticeable, CanBeLate \ Noticeable, FALSE))
    /\ \A t \in Tags : WF_vars(ActorReady(t))

FairSpec == Spec /\ Fairness
-----------------------------------------------------------------------------
(***************************************************************************)
(* What a deploy, delete, shutdown or autoscaling decision asked for and   *)
(* wrote stays what the controller works towards, whatever crashes since   *)
(* (the controller's promise that "the change was made and will be         *)
(* reflected in the system even if the controller or other actors die"):   *)
(* the number of replicas and the version are the target's, or the         *)
(* deployment is gone or on its way out.  After a call that failed, either *)
(* what it asked for or what held before is the target; a deploy that      *)
(* deploy() takes for redundant writes nothing and ends no such doubt, and *)
(* does not take back a delete.  It rests on the checkpoint being written  *)
(* before the target is set, and on Crash taking the target from there.    *)
(***************************************************************************)
Reflects(ex, tg, a) ==
    IF a.deleting THEN ~ex \/ tg.info = None \/ tg.deleting
                  ELSE ex /\ tg.num = a.num /\ tg.ver = a.ver

AcceptedIsTarget == \E a \in accepted : Reflects(exists, target, a)

(***************************************************************************)
(* A replica the controller has as RUNNING is one the routers have been    *)
(* told of: update() broadcasts whenever its steps report a change, and    *)
(* no order of rollouts, scaling, failed starts and recoveries lets a      *)
(* replica become RUNNING in an update whose steps all report none.        *)
(***************************************************************************)
RunningIsAnnounced == Running # {} => announced # None /\ Running \subseteq announced

(***************************************************************************)
(* What an update may take down (max_to_stop and rollout_size in           *)
(* _stop_wrong_version_replicas, the order of states in                    *)
(* _scale_deployment_replicas).  When an update takes out of service       *)
(* replicas whose actors are fine, either at least target - RolloutSize of *)
(* the others that could serve remain, whatever is still starting or       *)
(* stopping from an earlier rollout, a crash or another target; or the     *)
(* deployment is scaled down, and then a full target number of replicas is *)
(* kept and none of these is only starting.  A replica lost to its own     *)
(* failure, or recovered too slowly, was not taken down.                   *)
(***************************************************************************)
Available(reps) == In(reps, {"RUNNING", "UPDATING"})

TakenDown == {t \in Available(replicas) : /\ ~replicas[t].sick
                                          /\ replicas[t].act \in {"ready", "reconfiguring", "answering"}
                                          /\ t \notin Available(replicas')}

Kept == {t \in In(replicas, Pending \cup {"RUNNING"}) :
            \/ replicas'[t].st \in {"UPDATING", "RECOVERING", "RUNNING"}
            \/ replicas[t].act \in {"failed", "dead"} \/ replicas[t].sick
            \/ replicas[t].st = "RECOVERING"}

RolloutKeepsServing ==
    [][TakenDown # {} /\ exists' /\ faults' = faults =>
         \/ Cardinality(Available(replicas) \ TakenDown) >= target'.num - RolloutSize(target'.num)
         \/ Cardinality(Kept) >= target'.num]_vars

(***************************************************************************)
(* The reconciler gets there: once nobody calls and nothing fails any      *)
(* more, the deployment is HEALTHY with exactly the target number of       *)
(* RUNNING replicas of the target version and nothing pending, or it is    *)
(* gone with all its replicas.  Three ends are not that: a shutdown        *)
(* followed by a crash leaves actors nobody knows of, since the            *)
(* checkpoint goes first; a first deploy whose checkpoint could not be     *)
(* written leaves an entry that no update touches; and a target without a  *)
(* user_config is never reached by a replica of its code that has one,     *)
(* which is reconfigured again and again to no effect.                     *)
(***************************************************************************)
Settled ==
    /\ Updatable
    /\ ~target.deleting
    /\ NothingPending(replicas)
    /\ Cardinality(RunningAtTarget(replicas, target)) = target.num
    /\ status = "HEALTHY"

Removed == ~exists /\ (checkpoint # None => \A t \in Tags : replicas[t] = Unused)

NeverDeployed == exists /\ target.info = None

ReconfiguredInVain ==
    /\ Updatable /\ ~target.deleting
    /\ target.ver[2] = None
    /\ \E t \in In(replicas, Pending \cup {"RUNNING"}) :
          replicas[t].own # None /\ replicas[t].own[1] = target.ver[1] /\ replicas[t].own[2] # None

Converges == <>[](Settled \/ Removed \/ NeverDeployed \/ ReconfiguredInVain)
=============================================================================
