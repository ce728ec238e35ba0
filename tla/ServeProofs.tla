----------------------------- MODULE ServeProofs ----------------------------
(***************************************************************************)
(* Proofs about the Serve controller's deployment state: what was asked    *)
(* for survives crashes and failed writes, running replicas are announced, *)
(* and no update takes down more than a rollout or a scaling down may.     *)
(***************************************************************************)
EXTENDS DeploymentState, FiniteSetTheorems, TLAPS

\* A target has a version just when there is something to run.
Proper(tg) == tg \in Target /\ (tg.ver = None <=> tg.deleting \/ tg.info = None)

\* What a call asks for: to run a version or to delete.
Asked(tg) == Proper(tg) /\ (tg.info = None => tg.deleting)

TargetTypeOK ==
    /\ exists \in BOOLEAN
    /\ calls \in Int
    /\ Proper(target)
    /\ checkpoint # None => Asked(checkpoint)
    /\ \A a \in accepted : Asked(a)

\* The target a crash would bring back.
AfterCrash == IF checkpoint = None THEN Default ELSE checkpoint

(***************************************************************************)
(* The strengthening: the target that a crash would bring back reflects    *)
(* what was asked for as well, though not by the same request; and without *)
(* an entry there is no target.                                            *)
(***************************************************************************)
IInv ==
    /\ TargetTypeOK
    /\ ~exists => target = Default
    /\ \E a \in accepted : Reflects(exists, target, a)
    /\ \E a \in accepted : Reflects(checkpoint # None, AfterCrash, a)

LEMMA DefaultTarget == Proper(Default) /\ Default.info = None
<1>1. /\ Default \in Target /\ Default.info = None /\ Default.ver = None
      /\ Default.deleting = FALSE
  BY DEF Default, Target
<1>2. QED
  BY <1>1, Zenon DEF Proper

LEMMA AskedFromInfo ==
  ASSUME calls \in Int, NEW i \in Info
  PROVE  /\ Asked(FromInfo(i)) /\ FromInfo(i) # None
         /\ FromInfo(i).deleting = FALSE /\ FromInfo(i).info = i
<1>1. RandomCode \in Int
  BY DEF RandomCode
<1>2. i.num \in Int /\ i.code \in Int \cup {None} /\ i.conf \in {j.conf : j \in Infos}
  BY DEF Info
<1>3. Version(i) \in Int \X {j.conf : j \in Infos}
  BY <1>1, <1>2 DEF Version
<1>4. /\ FromInfo(i) \in Target /\ FromInfo(i).info = i
      /\ FromInfo(i).deleting = FALSE /\ FromInfo(i).ver = Version(i)
  BY <1>2, <1>3 DEF FromInfo, Target
<1>5. i # None /\ Version(i) # None /\ FromInfo(i) # None
  BY <1>3, <1>4, NoneAssumption, Zenon
<1>6. QED
  BY <1>4, <1>5, Zenon DEF Asked, Proper

LEMMA AskedDeleting ==
  ASSUME NEW i \in Info \cup {None}
  PROVE  Asked(Deleting(i)) /\ Deleting(i) # None /\ Deleting(i).deleting = TRUE
<1>1. /\ Deleting(i) \in Target /\ Deleting(i).ver = None
      /\ Deleting(i).deleting = TRUE
  BY DEF Deleting, Target
<1>2. Deleting(i) # None
  BY <1>1, NoneAssumption, Zenon
<1>3. QED
  BY <1>1, <1>2, Zenon DEF Asked, Proper

\* A target reflects itself.
LEMMA ReflectsItself == \A a : Reflects(TRUE, a, a)
  BY Zenon DEF Reflects

LEMMA InitHolds == Init => IInv
<1> SUFFICES ASSUME Init PROVE IInv
  OBVIOUS
<1>1. /\ exists = FALSE /\ target = Default /\ checkpoint = None
      /\ accepted = {Deleting(None)} /\ calls = 0
  BY Zenon DEF Init
<1>2. Asked(Deleting(None)) /\ Deleting(None).deleting
  BY AskedDeleting, Zenon
<1>3. TargetTypeOK
  <2>1. calls \in Int
    BY <1>1
  <2>2. QED
    BY <1>1, <1>2, <2>1, DefaultTarget, Zenon DEF TargetTypeOK
<1>4. Reflects(exists, target, Deleting(None)) /\ Reflects(checkpoint # None, AfterCrash, Deleting(None))
  BY <1>1, <1>2, Zenon DEF Reflects
<1>5. QED
  BY <1>1, <1>3, <1>4, Zenon DEF IInv

\* Every step's calls counter.
LEMMA CallsTyped == ASSUME calls \in Int, Call \/ calls' = calls PROVE calls' \in Int
  BY DEF Call

\* A target that is set and written, and is what was asked for.
LEMMA AcceptKeeps ==
  ASSUME NEW tg, Asked(tg), tg # None, calls' \in Int,
         exists' = TRUE, target' = tg, checkpoint' = tg, accepted' = {tg}
  PROVE  IInv'
<1>1. TargetTypeOK'
  BY Zenon DEF TargetTypeOK, Asked, Proper
<1>2. Reflects(exists', target', tg)
  BY ReflectsItself, Zenon
<1>3. Reflects(checkpoint' # None, AfterCrash', tg)
  BY ReflectsItself, Zenon DEF AfterCrash, Reflects
<1>4. QED
  BY <1>1, <1>2, <1>3, Zenon DEF IInv

\* A call that fails: what it asked for is written or not, and the target is as
\* good as before.
LEMMA FailedWriteKeeps ==
  ASSUME IInv, NEW tg, Asked(tg), tg # None, WriteFails(tg), calls' \in Int,
         exists' = TRUE, Proper(target'),
         \A a \in accepted : Reflects(exists, target, a) => Reflects(exists', target', a)
  PROVE  IInv'
<1>1. checkpoint' \in {checkpoint, tg} /\ accepted' = accepted \cup {tg}
  BY Zenon DEF WriteFails
<1>2. TargetTypeOK'
  BY <1>1, Zenon DEF IInv, TargetTypeOK, Asked, Proper
<1>3. \E a \in accepted' : Reflects(exists', target', a)
  BY <1>1, Zenon DEF IInv
<1>4. \E a \in accepted' : Reflects(checkpoint' # None, AfterCrash', a)
  <2>1. CASE checkpoint' = checkpoint
    BY <1>1, <2>1, Zenon DEF IInv, AfterCrash
  <2>2. CASE checkpoint' = tg
    <3>1. Reflects(checkpoint' # None, AfterCrash', tg)
      BY <2>2, ReflectsItself, Zenon DEF AfterCrash, Reflects
    <3>2. QED
      BY <1>1, <3>1, Zenon
  <2>3. QED
    BY <1>1, <2>1, <2>2, Zenon
<1>5. QED
  BY <1>2, <1>3, <1>4, Zenon DEF IInv

LEMMA InfoOfTarget == ASSUME IInv PROVE target.info \in Info \cup {None}
  BY Zenon DEF IInv, TargetTypeOK, Proper, Target

LEMMA DeployKeeps == ASSUME IInv, NEW i \in Infos, Deploy(i) PROVE IInv'
<1>1. i \in Info /\ calls \in Int /\ calls' \in Int
  BY InfosAssumption, CallsTyped DEF Deploy, IInv, TargetTypeOK
<1>2. Asked(FromInfo(i)) /\ FromInfo(i) # None
  BY <1>1, AskedFromInfo, Zenon
<1>3. CASE Redundant(i)
  <2>1. /\ exists' = TRUE /\ exists = TRUE /\ target' = target /\ checkpoint' = checkpoint
        /\ accepted' = accepted \cup {FromInfo(i)}
    BY <1>3, Zenon DEF Deploy, Redundant, IInv, TargetTypeOK
  <2>2. TargetTypeOK'
    BY <1>1, <1>2, <2>1, Zenon DEF IInv, TargetTypeOK, Proper, Asked
  <2>3. QED
    BY <2>1, <2>2, Zenon DEF IInv, AfterCrash, Reflects
<1>4. CASE ~Redundant(i)
  <2>1. /\ exists' = TRUE /\ target' = FromInfo(i) /\ checkpoint' = FromInfo(i)
        /\ accepted' = {FromInfo(i)}
    BY <1>4, Zenon DEF Deploy, SetTarget
  <2>2. QED
    BY <1>1, <1>2, <2>1, AcceptKeeps, Zenon
<1>5. QED
  BY <1>3, <1>4, Zenon

LEMMA DeployFailsKeeps == ASSUME IInv, NEW i \in Infos, DeployFails(i) PROVE IInv'
<1>1. i \in Info /\ calls \in Int /\ calls' \in Int
  BY InfosAssumption, CallsTyped DEF DeployFails, IInv, TargetTypeOK
<1>2. Asked(FromInfo(i)) /\ FromInfo(i) # None
  BY <1>1, AskedFromInfo, Zenon
<1>3. exists' = TRUE /\ target' = target /\ WriteFails(FromInfo(i))
  BY Zenon DEF DeployFails
<1>4. Proper(target')
  BY <1>3, Zenon DEF IInv, TargetTypeOK
<1>5. ASSUME NEW a \in accepted, Reflects(exists, target, a)
      PROVE  Reflects(exists', target', a)
  <2>1. ~exists => target.info = None
    BY DefaultTarget, Zenon DEF IInv
  <2>2. QED
    BY <1>3, <1>5, <2>1, Zenon DEF Reflects
<1>6. QED
  BY <1>1, <1>2, <1>3, <1>4, <1>5, FailedWriteKeeps, Zenon

\* What _set_target_state_deleting has before it.
LEMMA DeletingTarget ==
  ASSUME IInv, Call
  PROVE  /\ calls' \in Int /\ Asked(Deleting(target.info))
         /\ Deleting(target.info) # None /\ Deleting(target.info).deleting
<1>1. calls' \in Int
  BY CallsTyped, Zenon DEF IInv, TargetTypeOK
<1>2. QED
  BY <1>1, AskedDeleting, InfoOfTarget, Zenon

LEMMA DeleteKeeps == ASSUME IInv, Delete PROVE IInv'
<1>1. /\ exists' = TRUE /\ target' = Deleting(target.info)
      /\ checkpoint' = Deleting(target.info) /\ accepted' = {Deleting(target.info)}
  BY Zenon DEF Delete, SetTargetDeleting, IInv, TargetTypeOK
<1>2. Call
  BY Zenon DEF Delete
<1>3. QED
  BY <1>1, <1>2, DeletingTarget, AcceptKeeps, Zenon

LEMMA DeleteFailsKeeps == ASSUME IInv, DeleteFails PROVE IInv'
<1>1. /\ exists' = exists /\ exists = TRUE /\ target' = target /\ Call
      /\ WriteFails(Deleting(target.info))
  BY Zenon DEF DeleteFails, IInv, TargetTypeOK
<1>2. Proper(target')
  BY <1>1, Zenon DEF IInv, TargetTypeOK
<1>3. QED
  BY <1>1, <1>2, DeletingTarget, FailedWriteKeeps, Zenon

\* A shutdown deletes the checkpoint, or fails to.
LEMMA ShutdownsKeep == ASSUME IInv, Shutdown \/ ShutdownFails PROVE IInv'
<1> DEFINE tg == Deleting(target.info)
<1>1. /\ exists' = TRUE /\ target' = tg /\ checkpoint' \in {tg, None}
      /\ tg \in accepted' /\ accepted' \subseteq accepted \cup {tg}
  BY Zenon DEF Shutdown, ShutdownFails, SetTargetDeleting, IInv, TargetTypeOK
<1>2. Asked(tg) /\ tg # None /\ tg.deleting /\ calls' \in Int
  BY DeletingTarget, Zenon DEF Shutdown, ShutdownFails
<1> HIDE DEF tg
<1>3. TargetTypeOK'
  BY <1>1, <1>2, Zenon DEF IInv, TargetTypeOK, Asked, Proper
<1>4. Reflects(exists', target', tg) /\ Reflects(checkpoint' # None, AfterCrash', tg)
  BY <1>1, <1>2, Zenon DEF Reflects, AfterCrash
<1>5. QED
  BY <1>1, <1>3, <1>4, Zenon DEF IInv

\* All an update does to the target is to drop that of a deleted deployment.
LEMMA UpdateTarget ==
  ASSUME NEW tg, NEW st, NEW c, NEW noticed, NEW late, NEW warn,
         Update(tg, st, c, noticed, late, warn)
  PROVE  \/ exists' = TRUE /\ target' = tg
         \/ tg.deleting /\ exists' = FALSE /\ target' = Default
<1>1. PICK r4, c3 :
        /\ exists' = ~WasDeleted(c3, r4, tg)
        /\ target' = IF WasDeleted(c3, r4, tg) THEN Default ELSE tg
  BY SMT DEF Update
<1>2. CASE WasDeleted(c3, r4, tg)
  BY <1>1, <1>2, Zenon DEF WasDeleted
<1>3. CASE ~WasDeleted(c3, r4, tg)
  BY <1>1, <1>3, Zenon
<1>4. QED
  BY <1>2, <1>3, Zenon

LEMMA ControlLoopKeeps ==
  ASSUME IInv, NEW noticed, NEW late, NEW warn, ControlLoop(noticed, late, warn)
  PROVE  IInv'
<1>1. checkpoint' = checkpoint /\ accepted' = accepted /\ calls' = calls /\ exists = TRUE
  BY Zenon DEF ControlLoop, Updatable, IInv, TargetTypeOK
<1>2. \/ exists' = TRUE /\ target' = target
      \/ target.deleting /\ exists' = FALSE /\ target' = Default
  BY UpdateTarget, Zenon DEF ControlLoop
<1>3. TargetTypeOK'
  BY <1>1, <1>2, DefaultTarget, Zenon DEF IInv, TargetTypeOK, Asked, Proper
<1>4. \E a \in accepted' : Reflects(exists', target', a)
  <2>1. PICK a \in accepted : Reflects(exists, target, a)
    BY Zenon DEF IInv
  <2>2. CASE target.deleting
    <3>1. target.ver = None /\ Asked(a)
      BY <2>2, Zenon DEF IInv, TargetTypeOK, Proper
    <3>2. a.deleting
      BY <2>1, <3>1, Zenon DEF Reflects, Asked, Proper
    <3>3. Reflects(exists', target', a)
      BY <1>2, <2>2, <3>2, Zenon DEF Reflects
    <3>4. QED
      BY <1>1, <3>3, Zenon
  <2>3. CASE ~target.deleting
    BY <1>1, <1>2, <2>1, <2>3, Zenon
  <2>4. QED
    BY <2>2, <2>3, Zenon
<1>5. \E a \in accepted' : Reflects(checkpoint' # None, AfterCrash', a)
  BY <1>1, Zenon DEF IInv, AfterCrash
<1>6. ~exists' => target' = Default
  BY <1>2, Zenon
<1>7. QED
  BY <1>3, <1>4, <1>5, <1>6, Zenon DEF IInv

\* What autoscaling asks for is a target like that of a deploy.
LEMMA AskedScaled ==
  ASSUME IInv, Updatable, NEW n \in Decisions
  PROVE  /\ target.info \in Info /\ ~target.deleting
         /\ [target.info EXCEPT !.num = n] \in Info
         /\ Asked(Scaled(n)) /\ Scaled(n) # None /\ ~Scaled(n).deleting
<1>1. target.info \in Info /\ target \in Target
  BY Zenon DEF IInv, TargetTypeOK, Proper, Target, Updatable
<1>2. ~target.deleting /\ n \in target.info.auto
  BY <1>1 DEF Decisions, Target
<1>3. n \in Nat
  BY <1>1, <1>2 DEF Info
<1>4. target.ver \in Int \X {i.conf : i \in Infos}
  <2>1. target.ver # None
    BY <1>2, Zenon DEF IInv, TargetTypeOK, Proper, Updatable
  <2>2. QED
    BY <1>1, <2>1, Zenon DEF Target
<1>5. target.ver[1] \in Int
  BY <1>4
<1>6. [target.info EXCEPT !.num = n] \in Info
  BY <1>1, <1>3 DEF Info
<1> DEFINE i == [target.info EXCEPT !.num = n, !.code = IF @ = None THEN target.ver[1] ELSE @]
<1>7. i \in Info
  BY <1>1, <1>3, <1>5, Zenon DEF Info
<1>8. calls \in Int
  BY Zenon DEF IInv, TargetTypeOK
<1> HIDE DEF i
<1>9. Asked(FromInfo(i)) /\ FromInfo(i) # None /\ ~FromInfo(i).deleting
  BY <1>7, <1>8, AskedFromInfo, Zenon
<1>10. QED
  BY <1>1, <1>2, <1>6, <1>9, Zenon DEF Scaled, i

LEMMA AutoscaleKeeps ==
  ASSUME IInv, Updatable, NEW n \in Decisions, NEW noticed, NEW late, NEW warn,
         Autoscale(n, noticed, late, warn)
  PROVE  IInv'
<1>1. /\ Call /\ checkpoint' = Scaled(n) /\ accepted' = {Scaled(n)}
      /\ Update(Scaled(n), "UPDATING", 0, noticed, late, warn)
  BY Zenon DEF Autoscale
<1>2. exists' = TRUE /\ target' = Scaled(n)
  BY <1>1, AskedScaled, UpdateTarget, Zenon
<1>3. calls' \in Int
  BY <1>1, CallsTyped, Zenon DEF IInv, TargetTypeOK
<1>4. QED
  BY <1>1, <1>2, <1>3, AskedScaled, AcceptKeeps, Zenon

LEMMA AutoscaleFailsKeeps ==
  ASSUME IInv, Updatable, NEW n \in Decisions, AutoscaleFails(n)
  PROVE  IInv'
<1> DEFINE i == [target.info EXCEPT !.num = n]
<1>1. /\ target.info \in Info /\ ~target.deleting /\ i \in Info
      /\ Asked(Scaled(n)) /\ Scaled(n) # None
  BY AskedScaled, Zenon
<1>2. /\ target' = [target EXCEPT !.info = i] /\ exists' = exists
      /\ WriteFails(Scaled(n)) /\ Call
  BY Zenon DEF AutoscaleFails
<1> HIDE DEF i
<1>3. target \in Target /\ exists = TRUE /\ (target.ver = None <=> target.deleting \/ target.info = None)
  BY Zenon DEF IInv, TargetTypeOK, Proper, Updatable
<1>4. /\ target' \in Target /\ target'.info = i /\ target'.ver = target.ver
      /\ target'.num = target.num /\ target'.deleting = target.deleting
  BY <1>1, <1>2, <1>3 DEF Target
<1>5. target.info # None /\ i # None
  BY <1>1, NoneAssumption, Zenon
<1>6. Proper(target')
  BY <1>3, <1>4, <1>5, Zenon DEF Proper
<1>7. \A a \in accepted : Reflects(exists, target, a) => Reflects(exists', target', a)
  BY <1>1, <1>2, <1>4, <1>5, Zenon DEF Reflects
<1>8. calls' \in Int
  BY <1>2, CallsTyped, Zenon DEF IInv, TargetTypeOK
<1>9. QED
  BY <1>1, <1>2, <1>3, <1>6, <1>7, <1>8, FailedWriteKeeps, Zenon

LEMMA CrashKeeps == ASSUME IInv, Crash PROVE IInv'
<1>1. /\ exists' = (checkpoint # None) /\ target' = AfterCrash
      /\ checkpoint' = checkpoint /\ accepted' = accepted /\ calls' = calls
  BY Zenon DEF Crash, AfterCrash
<1>2. Proper(AfterCrash)
  BY DefaultTarget, Zenon DEF AfterCrash, IInv, TargetTypeOK, Asked
<1>3. TargetTypeOK'
  BY <1>1, <1>2, Zenon DEF IInv, TargetTypeOK, Asked, Proper
<1>4. ~exists' => target' = Default
  BY <1>1, Zenon DEF AfterCrash
<1>5. AfterCrash' = AfterCrash
  BY <1>1, Zenon DEF AfterCrash
<1>6. QED
  BY <1>1, <1>3, <1>4, <1>5, Zenon DEF IInv

\* The actors' steps do not touch what the invariant is about.
LEMMA UntouchedKeeps ==
  ASSUME IInv, UNCHANGED <<exists, target, checkpoint, accepted, calls>>
  PROVE  IInv'
<1>1. TargetTypeOK'
  BY Zenon DEF IInv, TargetTypeOK, Proper, Asked
<1>2. QED
  BY <1>1, Zenon DEF IInv, AfterCrash

LEMMA StepKeeps == IInv /\ [Next]_vars => IInv'
<1> SUFFICES ASSUME IInv, [Next]_vars PROVE IInv'
  OBVIOUS
<1>1. ASSUME NEW i \in Infos, Deploy(i) \/ DeployFails(i) PROVE IInv'
  BY <1>1, DeployKeeps, DeployFailsKeeps, Zenon
<1>2. CASE Delete \/ DeleteFails \/ Shutdown \/ ShutdownFails
  BY <1>2, DeleteKeeps, DeleteFailsKeeps, ShutdownsKeep, Zenon
<1>3. ASSUME NEW noticed, NEW late, NEW warn,
             \/ ControlLoop(noticed, late, warn)
             \/ Updatable /\ \E n \in Decisions : Autoscale(n, noticed, late, warn)
      PROVE  IInv'
  BY <1>3, ControlLoopKeeps, AutoscaleKeeps, Zenon
<1>4. ASSUME Updatable, NEW n \in Decisions, AutoscaleFails(n) PROVE IInv'
  BY <1>4, AutoscaleFailsKeeps, Zenon
<1>5. ASSUME NEW t \in Tags,
             ActorReady(t) \/ ActorFails(t) \/ ActorDrained(t) \/ ActorSick(t) \/ ActorDies(t)
      PROVE  IInv'
  <2>1. UNCHANGED <<exists, target, checkpoint, accepted, calls>>
    BY <1>5, Zenon DEF ActorReady, ActorFails, ActorDrained, ActorSick, ActorDies, Becomes
  <2>2. QED
    BY <2>1, UntouchedKeeps, Zenon
<1>6. CASE Crash
  BY <1>6, CrashKeeps, Zenon
<1>7. CASE UNCHANGED vars
  BY <1>7, UntouchedKeeps, Zenon DEF vars
<1>8. QED
  BY <1>1, <1>2, <1>3, <1>4, <1>5, <1>6, <1>7, Zenon DEF Next

LEMMA Invariance == Spec => []IInv
  BY InitHolds, StepKeeps, PTL DEF Spec

(***************************************************************************)
(* For all deployments, any number of replicas and any sequence of calls,  *)
(* failed writes and crashes: the target the controller works towards is   *)
(* the one set by the last call that wrote its target and returned         *)
(* normally, or one asked for since by a call that failed or was taken for *)
(* redundant (deploy, delete_deployment, shutdown and autoscale).          *)
(***************************************************************************)
THEOREM AcceptedTargetsSurvive == Spec => []AcceptedIsTarget
<1>1. IInv => AcceptedIsTarget
  BY Zenon DEF IInv, AcceptedIsTarget
<1>2. QED
  BY <1>1, Invariance, PTL
-----------------------------------------------------------------------------
(* Running replicas are announced.                                         *)

RunningIn(reps) == {t \in Tags : reps[t].st = "RUNNING"}

\* The replicas are a function; it is all the induction needs besides.
AInv == (\E f : replicas = [t \in Tags |-> f[t]]) /\ RunningIsAnnounced

LEMMA RunningIs == Running = RunningIn(replicas) /\ \A r : In(r, {"RUNNING"}) = RunningIn(r)
  BY Zenon DEF Running, In, RunningIn

\* The fields of a replica after the reconciler's operations on it.
LEMMA ReconfiguredFields ==
  ASSUME NEW x, NEW v
  PROVE  /\ Reconfigured(x, v).st = "UPDATING"
         /\ Reconfigured(x, v).act \in {"failed", "dead"} => x.act = "dead"
         /\ Reconfigured(x, v).sick = x.sick
<1> DEFINE act == IF ~Alive(x) THEN x.act
                  ELSE IF x.own = None THEN "starting"
                  ELSE IF v[2] = None THEN "answering" ELSE "reconfiguring"
           goal == IF v[2] = None THEN x.goal ELSE v
<1>1. Reconfigured(x, v) = Replica("UPDATING", v, act, x.sick, x.own, goal)
  BY Zenon DEF Reconfigured
<1>2. act \in {"failed", "dead"} => x.act = "dead"
  BY Zenon DEF Alive
<1> HIDE DEF act, goal
<1>3. /\ Reconfigured(x, v).st = "UPDATING" /\ Reconfigured(x, v).act = act
      /\ Reconfigured(x, v).sick = x.sick
  BY <1>1 DEF Replica
<1>4. QED
  BY <1>2, <1>3, Zenon

LEMMA FoundFields ==
  ASSUME NEW x
  PROVE  Recovered(x).st # "RUNNING" /\ Orphaned(x).st # "RUNNING"
<1>1. Unused.st = "none"
  BY DEF Unused, Replica
<1>2. /\ Replica("RECOVERING", None, x.act, x.sick, x.own, x.goal).st = "RECOVERING"
      /\ Replica("none", None, x.act, x.sick, x.own, x.goal).st = "none"
  BY DEF Replica
<1>3. CASE Alive(x)
  BY <1>2, <1>3, Zenon DEF Recovered, Orphaned
<1>4. CASE ~Alive(x)
  BY <1>1, <1>4, Zenon DEF Recovered, Orphaned
<1>5. QED
  BY <1>3, <1>4, Zenon

\* What the reconciler does to a single replica makes none RUNNING, except for
\* one that came up.
LEMMA RecordStates ==
  /\ Unused.st = "none"
  /\ \A x : Stopped(x).st = "STOPPING" /\ Killed(x).st = x.st /\ NowUp(x).st = "RUNNING"
  /\ \A x, v : Reconfigured(x, v).st = "UPDATING"
  /\ \A v : Started(v).st = "STARTING"
  /\ \A x : Recovered(x).st # "RUNNING" /\ Orphaned(x).st # "RUNNING"
<1>1. Unused.st = "none"
  BY DEF Unused, Replica
<1>2. ASSUME NEW x
      PROVE  Stopped(x).st = "STOPPING" /\ Killed(x).st = x.st /\ NowUp(x).st = "RUNNING"
  BY DEF Stopped, Killed, NowUp, Replica
<1>3. ASSUME NEW v PROVE Started(v).st = "STARTING"
  BY DEF Started, Replica
<1>4. ASSUME NEW x, NEW v PROVE Reconfigured(x, v).st = "UPDATING"
  BY ReconfiguredFields, Zenon
<1>5. ASSUME NEW x PROVE Recovered(x).st # "RUNNING" /\ Orphaned(x).st # "RUNNING"
  BY FoundFields, Zenon
<1>6. QED
  BY <1>1, <1>2, <1>3, <1>4, <1>5, Zenon

LEMMA ScalingStartsNone ==
  ASSUME NEW reps, NEW popped, NEW tg
  PROVE  /\ RunningIn(StopWrongVersion(reps, popped, tg)) \subseteq RunningIn(reps)
         /\ RunningIn(Scale(reps, popped, tg)) \subseteq RunningIn(reps)
<1>1. \A t \in Tags : /\ StopWrongVersion(reps, popped, tg)[t].st = "RUNNING" => reps[t].st = "RUNNING"
                      /\ Scale(reps, popped, tg)[t].st = "RUNNING" => reps[t].st = "RUNNING"
  BY RecordStates DEF StopWrongVersion, Scale
<1>2. QED
  BY <1>1, Zenon DEF RunningIn

LEMMA StopsStartNone ==
  ASSUME NEW reps, NEW late
  PROVE  RunningIn(AfterStops(reps, late)) \subseteq RunningIn(reps)
<1>1. ASSUME NEW t \in Tags, AfterStops(reps, late)[t].st = "RUNNING"
      PROVE  reps[t].st = "RUNNING"
  <2>1. CASE reps[t].st # "STOPPING"
    BY <1>1, <2>1, Zenon DEF AfterStops
  <2>2. CASE reps[t].st = "STOPPING" /\ Gone(reps[t])
    BY <1>1, <2>2, RecordStates, Zenon DEF AfterStops
  <2>3. CASE reps[t].st = "STOPPING" /\ ~Gone(reps[t])
    BY <1>1, <2>3, RecordStates, Zenon DEF AfterStops
  <2>4. QED
    BY <2>1, <2>2, <2>3
<1>2. QED
  BY <1>1 DEF RunningIn

\* A check that reports no change brought no replica up.
LEMMA SilentChecksStartNone ==
  ASSUME NEW reps, NEW noticed, NEW late, ~CheckReports(reps, noticed)
  PROVE  RunningIn(AfterChecks(reps, noticed, late)) \subseteq RunningIn(reps)
<1>1. NowRunning(reps, noticed) = {}
  BY Zenon DEF CheckReports
<1>2. ASSUME NEW t \in Tags, AfterChecks(reps, noticed, late)[t].st = "RUNNING"
      PROVE  reps[t].st = "RUNNING"
  BY <1>1, <1>2, RecordStates DEF AfterChecks
<1>3. QED
  BY <1>2 DEF RunningIn

\* After an update the announced replicas are the running ones, or it reported
\* nothing and no replica became RUNNING in it.
LEMMA UpdateAnnounces ==
  ASSUME NEW tg, NEW st, NEW c, NEW noticed, NEW late, NEW warn,
         Update(tg, st, c, noticed, late, warn)
  PROVE  \/ announced' = RunningIn(replicas')
         \/ announced' = announced /\ RunningIn(replicas') \subseteq RunningIn(replicas)
<1>1. PICK outdated, r1, surplus, r2, r3, r4 :
        /\ r1 = StopWrongVersion(replicas, outdated, tg)
        /\ r2 = Scale(r1, surplus, tg)
        /\ r3 = AfterChecks(r2, noticed, late)
        /\ r4 = AfterStops(r3, late)
        /\ replicas' = r4
        /\ announced' =
              IF ScaleReports(replicas, outdated, tg) \/ CheckReports(r2, noticed)
              THEN In(r4, {"RUNNING"}) ELSE announced
  BY SMT DEF Update
<1>2. CASE ScaleReports(replicas, outdated, tg) \/ CheckReports(r2, noticed)
  BY <1>1, <1>2, RunningIs, Zenon
<1>3. CASE ~(ScaleReports(replicas, outdated, tg) \/ CheckReports(r2, noticed))
  <2>1. announced' = announced
    BY <1>1, <1>3, Zenon
  <2>2. RunningIn(r1) \subseteq RunningIn(replicas) /\ RunningIn(r2) \subseteq RunningIn(r1)
    BY <1>1, ScalingStartsNone, Zenon
  <2>3. RunningIn(r3) \subseteq RunningIn(r2)
    BY <1>1, <1>3, SilentChecksStartNone, Zenon
  <2>4. RunningIn(r4) \subseteq RunningIn(r3)
    BY <1>1, StopsStartNone
  <2>5. QED
    BY <1>1, <2>1, <2>2, <2>3, <2>4
<1>4. QED
  BY <1>2, <1>3, Zenon

\* The announcement contains the running replicas.
LEMMA AnnouncedMeans ==
  RunningIsAnnounced <=> (RunningIn(replicas) # {} =>
                            announced # None /\ RunningIn(replicas) \subseteq announced)
  BY RunningIs, Zenon DEF RunningIsAnnounced

LEMMA UpdateIsFunction ==
  ASSUME NEW tg, NEW st, NEW c, NEW noticed, NEW late, NEW warn,
         Update(tg, st, c, noticed, late, warn)
  PROVE  \E f : replicas' = [t \in Tags |-> f[t]]
<1>1. PICK r3, r4 : r4 \in {AfterStops(r3, late)} /\ replicas' = r4
  BY SMT DEF Update
<1>2. replicas' = [t \in Tags |-> AfterStops(r3, late)[t]]
  BY <1>1 DEF AfterStops
<1>3. QED
  BY <1>2, Zenon

LEMMA UpdateKeepsAnnounced ==
  ASSUME AInv, NEW tg, NEW st, NEW c, NEW noticed, NEW late, NEW warn,
         Update(tg, st, c, noticed, late, warn)
  PROVE  AInv'
<1>1. CASE announced' = RunningIn(replicas')
  <2>1. announced' # None
    BY <1>1, NoSetAssumption, Zenon DEF RunningIn
  <2>2. RunningIsAnnounced'
    BY <1>1, <2>1, RunningIs DEF RunningIsAnnounced, Running, In, RunningIn
  <2>3. QED
    BY <2>2, UpdateIsFunction DEF AInv
<1>2. CASE announced' = announced /\ RunningIn(replicas') \subseteq RunningIn(replicas)
  <2>1. RunningIn(replicas) # {} => announced # None /\ RunningIn(replicas) \subseteq announced
    BY AnnouncedMeans DEF AInv
  <2>2. RunningIn(replicas') # {} => announced' # None /\ RunningIn(replicas') \subseteq announced'
    BY <1>2, <2>1, Zenon
  <2>3. RunningIsAnnounced'
    BY <2>2 DEF RunningIsAnnounced, Running, In, RunningIn
  <2>4. QED
    BY <2>3, UpdateIsFunction DEF AInv
<1>3. QED
  BY <1>1, <1>2, UpdateAnnounces

LEMMA InitAnnounced == Init => AInv
<1> SUFFICES ASSUME Init PROVE AInv
  OBVIOUS
<1>1. replicas = [t \in Tags |-> Unused]
  BY DEF Init
<1>2. replicas = [t \in Tags |-> replicas[t]]
  BY <1>1, Zenon
<1>3. RunningIn(replicas) = {}
  BY <1>1, RecordStates DEF RunningIn
<1>4. QED
  BY <1>2, <1>3, AnnouncedMeans DEF AInv

\* An actor's step leaves the state the controller has its replica under.
LEMMA ActorKeepsAnnounced ==
  ASSUME AInv, NEW t \in Tags, NEW act, NEW sick, NEW own, Becomes(t, act, sick, own)
  PROVE  AInv'
<1>1. announced' = announced
      /\ replicas' = [replicas EXCEPT ![t] =
                         Replica(replicas[t].st, replicas[t].ver, act, sick, own, replicas[t].goal)]
  BY DEF Becomes
<1>2. DOMAIN replicas = Tags
  BY Zenon DEF AInv
<1>3. \A u \in Tags : replicas'[u].st = replicas[u].st
  BY <1>1, <1>2 DEF Replica
<1>4. \E f : replicas' = [u \in Tags |-> f[u]]
  <2>1. replicas' = [u \in Tags |-> replicas'[u]]
    BY <1>1, <1>2, Zenon
  <2>2. QED
    BY <2>1
<1>5. RunningIsAnnounced'
  BY <1>1, <1>3, Zenon DEF AInv, RunningIsAnnounced, Running, In
<1>6. QED
  BY <1>4, <1>5, Zenon DEF AInv

LEMMA CrashKeepsAnnounced == ASSUME AInv, Crash PROVE AInv'
<1>1. replicas' = [t \in Tags |-> IF checkpoint = None THEN Orphaned(replicas[t])
                                                      ELSE Recovered(replicas[t])]
  BY Zenon DEF Crash
<1>2. replicas' = [t \in Tags |-> replicas'[t]]
  BY <1>1
<1>3. \A t \in Tags : replicas'[t].st # "RUNNING"
  BY <1>1, RecordStates, Zenon
<1>4. RunningIsAnnounced'
  BY <1>3 DEF RunningIsAnnounced, Running, In
<1>5. QED
  BY <1>2, <1>4 DEF AInv

LEMMA StepKeepsAnnounced == AInv /\ [Next]_vars => AInv'
<1> SUFFICES ASSUME AInv, [Next]_vars PROVE AInv'
  OBVIOUS
<1>1. ASSUME UNCHANGED <<replicas, announced>> PROVE AInv'
  BY <1>1, Zenon DEF AInv, RunningIsAnnounced, Running, In
<1>2. ASSUME NEW i \in Infos, Deploy(i) \/ DeployFails(i) PROVE AInv'
  BY <1>1, <1>2, Zenon DEF Deploy, DeployFails
<1>3. CASE Delete \/ DeleteFails \/ Shutdown \/ ShutdownFails
  BY <1>1, <1>3, Zenon DEF Delete, DeleteFails, Shutdown, ShutdownFails, SetTargetDeleting
<1>4. ASSUME NEW noticed, NEW late, NEW warn,
             \/ ControlLoop(noticed, late, warn)
             \/ Updatable /\ \E n \in Decisions : Autoscale(n, noticed, late, warn)
      PROVE  AInv'
  <2>1. \E tg, st, c : Update(tg, st, c, noticed, late, warn)
    BY <1>4, Zenon DEF ControlLoop, Autoscale
  <2>2. QED
    BY <2>1, UpdateKeepsAnnounced
<1>5. ASSUME NEW n \in Decisions, AutoscaleFails(n) PROVE AInv'
  BY <1>1, <1>5 DEF AutoscaleFails
<1>6. ASSUME NEW t \in Tags,
             ActorReady(t) \/ ActorFails(t) \/ ActorDrained(t) \/ ActorSick(t) \/ ActorDies(t)
      PROVE  AInv'
  <2>1. \E act, sick, own : Becomes(t, act, sick, own)
    BY <1>6, Zenon DEF ActorReady, ActorFails, ActorDrained, ActorSick, ActorDies
  <2>2. QED
    BY <2>1, ActorKeepsAnnounced
<1>7. CASE Crash
  BY <1>7, CrashKeepsAnnounced
<1>8. CASE UNCHANGED vars
  BY <1>1, <1>8 DEF vars
<1>9. QED
  BY <1>2, <1>3, <1>4, <1>5, <1>6, <1>7, <1>8, Zenon DEF Next

(***************************************************************************)
(* The routers have been told of every replica the controller has as       *)
(* RUNNING, for any number of replicas, whatever update() does in an       *)
(* iteration whose steps report no change.                                 *)
(***************************************************************************)
THEOREM RunningReplicasAnnounced == Spec => []RunningIsAnnounced
<1>1. AInv => RunningIsAnnounced
  BY Zenon DEF AInv
<1>2. QED
  BY <1>1, InitAnnounced, StepKeepsAnnounced, PTL DEF Spec

-----------------------------------------------------------------------------
(* What an update may take down.                                           *)

LEMMA TagSets ==
  ASSUME NEW S \in SUBSET Tags
  PROVE  IsFiniteSet(S) /\ Cardinality(S) \in Nat
  BY TagsAssumption, FS_Subset, FS_CardinalityType, Zenon

LEMMA TagSubsets ==
  ASSUME NEW S \in SUBSET Tags, NEW R \in SUBSET S
  PROVE  /\ Cardinality(R) <= Cardinality(S)
         /\ Cardinality(S \ R) = Cardinality(S) - Cardinality(R)
<1>1. IsFiniteSet(S)
  BY TagSets
<1>2. Cardinality(R) <= Cardinality(S)
  BY <1>1, FS_Subset
<1>3. Cardinality(S \ R) = Cardinality(S) - Cardinality(S \cap R)
  BY <1>1, FS_Difference
<1>4. S \cap R = R
  OBVIOUS
<1>5. QED
  BY <1>2, <1>3, <1>4

LEMMA TagUnions ==
  ASSUME NEW S \in SUBSET Tags, NEW R \in SUBSET Tags, S \cap R = {}
  PROVE  Cardinality(S \cup R) = Cardinality(S) + Cardinality(R)
<1>1. Cardinality(S \cup R) = Cardinality(S) + Cardinality(R) - Cardinality(S \cap R)
  BY TagSets, FS_Union
<1>2. Cardinality(S \cap R) = 0
  BY FS_EmptySet, Zenon
<1>3. QED
  BY <1>1, <1>2, TagSets

\* What pop takes: no more than asked for, and all of them if there are enough;
\* from a later state only when nothing is left of an earlier one.
LEMMA PopsTakes ==
  ASSUME NEW reps, NEW eligible \in SUBSET Tags, NEW order, NEW max \in Nat,
         NEW S \in Pops(reps, eligible, order, max)
  PROVE  /\ S \subseteq eligible
         /\ Cardinality(S) <= max
         /\ max <= Cardinality(eligible) => Cardinality(S) = max
         /\ \A t \in S, u \in eligible \ S : order[reps[t].st] <= order[reps[u].st]
<1>1. Cardinality(eligible) \in Nat
  BY TagSets, Zenon
<1>2. QED
  BY <1>1 DEF Pops

\* The states an update goes through.
Stages(tg, noticed, late, outdated, surplus, r1, r2, r3, r4) ==
  /\ outdated \in WrongVersionPops(replicas, tg)
  /\ r1 = StopWrongVersion(replicas, outdated, tg)
  /\ surplus \in ScaleDownPops(r1, tg)
  /\ r2 = Scale(r1, surplus, tg)
  /\ r3 = AfterChecks(r2, noticed, late)
  /\ r4 = AfterStops(r3, late)
  /\ replicas' = r4

LEMMA UpdateStages ==
  ASSUME NEW tg, NEW st, NEW c, NEW noticed, NEW late, NEW warn,
         Update(tg, st, c, noticed, late, warn)
  PROVE  \E outdated, surplus, r1, r2, r3, r4 :
           Stages(tg, noticed, late, outdated, surplus, r1, r2, r3, r4)
  BY SMT DEF Update, Stages

\* What the update's steps do with a replica the scaling step neither stopped nor
\* started: it stays where the rollout left it, unless the checks drop it.
LEMMA StageOfOne ==
  ASSUME NEW tg, NEW noticed, NEW late, NEW outdated, NEW surplus,
         NEW r1, NEW r2, NEW r3, NEW r4,
         Stages(tg, noticed, late, outdated, surplus, r1, r2, r3, r4),
         NEW t \in Tags, t \notin surplus, r1[t].st \in {"UPDATING", "RECOVERING", "RUNNING"}
  PROVE  \/ replicas'[t].st \in {r1[t].st, "RUNNING"}
         \/ r1[t].st = "RUNNING" /\ (r1[t].act = "dead" \/ r1[t].sick)
         \/ r1[t].st = "UPDATING" /\ r1[t].act \in {"failed", "dead"}
         \/ r1[t].st = "RECOVERING"
<1>1. r2[t] = r1[t]
  <2>1. t \notin Fresh(r1, ToAdd(r1, tg))
    BY RecordStates, Zenon DEF Fresh
  <2>2. QED
    BY <2>1, Zenon DEF Stages, Scale
<1> DEFINE drop == Unhealthy(r2, noticed) \cup FailedToStart(r2, noticed)
                     \cup TooSlow(r2, noticed, late)
<1>2. CASE t \notin drop
  <2>1. r3[t] = r2[t] \/ r3[t] = NowUp(r2[t])
    BY <1>2, Zenon DEF Stages, AfterChecks
  <2>2. r3[t].st \in {r1[t].st, "RUNNING"} /\ r3[t].st # "STOPPING"
    BY <1>1, <2>1, RecordStates, Zenon
  <2>3. r4[t] = r3[t]
    BY <2>2, Zenon DEF Stages, AfterStops
  <2>4. QED
    BY <2>2, <2>3, Zenon DEF Stages
<1>3. CASE t \in Unhealthy(r2, noticed)
  BY <1>1, <1>3, Zenon DEF Unhealthy, In
<1>4. CASE t \in FailedToStart(r2, noticed)
  <2>1. r2[t].st \in Pending
    BY <1>4 DEF FailedToStart, In
  <2>2. r2[t].st # "RECOVERING" => r2[t].act \in {"failed", "dead"}
    BY <1>4, Zenon DEF FailedToStart, StartFails
  <2>3. QED
    BY <1>1, <2>1, <2>2, Zenon DEF Pending
<1>5. CASE t \in TooSlow(r2, noticed, late)
  BY <1>1, <1>5, Zenon DEF TooSlow, In
<1>6. QED
  BY <1>2, <1>3, <1>4, <1>5, Zenon

\* What the rollout leaves of a replica.
LEMMA RolledOut ==
  ASSUME NEW tg, NEW outdated \in WrongVersionPops(replicas, tg),
         NEW r1, r1 = StopWrongVersion(replicas, outdated, tg), NEW t \in Tags
  PROVE  /\ t \notin outdated => r1[t] = replicas[t]
         /\ t \in outdated =>
              /\ replicas[t].st \in {"STARTING", "RUNNING"} /\ replicas[t].ver # tg.ver
              /\ \/ r1[t].st = "STOPPING"
                 \/ /\ r1[t].st = "UPDATING"
                    /\ r1[t].act \in {"failed", "dead"} => replicas[t].act = "dead"
<1>1. t \notin outdated => r1[t] = replicas[t]
  BY Zenon DEF StopWrongVersion
<1>2. ASSUME t \in outdated
      PROVE  replicas[t].st \in {"STARTING", "RUNNING"} /\ replicas[t].ver # tg.ver
  BY <1>2, Zenon DEF WrongVersionPops, Pops, NotAtVersion, In
<1>3. ASSUME t \in outdated
      PROVE  r1[t] = Stopped(replicas[t]) \/ r1[t] = Reconfigured(replicas[t], tg.ver)
  BY <1>3 DEF StopWrongVersion
<1>4. ASSUME t \in outdated, r1[t] = Reconfigured(replicas[t], tg.ver)
      PROVE  r1[t].st = "UPDATING" /\ (r1[t].act \in {"failed", "dead"} => replicas[t].act = "dead")
  BY <1>4, ReconfiguredFields
<1>5. ASSUME t \in outdated, r1[t] = Stopped(replicas[t]) PROVE r1[t].st = "STOPPING"
  BY <1>5, RecordStates, Zenon
<1>6. QED
  BY <1>1, <1>2, <1>3, <1>4, <1>5, Zenon

\* A replica that scaling does not stop is kept, unless it is only starting.
LEMMA NotSurplusIsKept ==
  ASSUME NEW tg, NEW noticed, NEW late, NEW outdated, NEW surplus,
         NEW r1, NEW r2, NEW r3, NEW r4,
         Stages(tg, noticed, late, outdated, surplus, r1, r2, r3, r4),
         NEW t \in Tags, t \notin surplus, r1[t].st \in {"UPDATING", "RECOVERING", "RUNNING"}
  PROVE  t \in Kept
<1>1. \/ replicas'[t].st \in {r1[t].st, "RUNNING"}
      \/ r1[t].st = "RUNNING" /\ (r1[t].act = "dead" \/ r1[t].sick)
      \/ r1[t].st = "UPDATING" /\ r1[t].act \in {"failed", "dead"}
      \/ r1[t].st = "RECOVERING"
  BY StageOfOne, Zenon
<1>2. outdated \in WrongVersionPops(replicas, tg) /\ r1 = StopWrongVersion(replicas, outdated, tg)
  BY Zenon DEF Stages
<1>3. CASE t \notin outdated
  <2>1. r1[t] = replicas[t]
    BY <1>2, <1>3, RolledOut
  <2>2. QED
    BY <1>1, <2>1, Zenon DEF Kept, In, Pending
<1>4. CASE t \in outdated
  <2>1. /\ replicas[t].st \in {"STARTING", "RUNNING"}
        /\ r1[t].st = "UPDATING" /\ (r1[t].act \in {"failed", "dead"} => replicas[t].act = "dead")
    BY <1>2, <1>4, RolledOut
  <2>2. QED
    BY <1>1, <2>1, Zenon DEF Kept, In, Pending
<1>5. QED
  BY <1>3, <1>4, Zenon

\* A replica that is fine is taken down by the rollout or as surplus, never by
\* the checks.
LEMMA TakenDownBy ==
  ASSUME NEW tg, NEW noticed, NEW late, NEW outdated, NEW surplus,
         NEW r1, NEW r2, NEW r3, NEW r4,
         Stages(tg, noticed, late, outdated, surplus, r1, r2, r3, r4),
         NEW t \in TakenDown
  PROVE  \/ t \in surplus /\ r1[t].st # "STARTING"
         \/ t \in outdated /\ replicas[t].st = "RUNNING"
<1>1. /\ t \in Tags /\ replicas[t].st \in {"RUNNING", "UPDATING"}
      /\ ~replicas[t].sick /\ replicas[t].act \in {"ready", "reconfiguring", "answering"}
      /\ replicas'[t].st \notin {"RUNNING", "UPDATING"}
  BY DEF TakenDown, Available, In
<1>2. outdated \in WrongVersionPops(replicas, tg) /\ r1 = StopWrongVersion(replicas, outdated, tg)
  BY Zenon DEF Stages
<1>3. CASE t \in outdated
  BY <1>1, <1>2, <1>3, RolledOut
<1>4. CASE t \notin outdated /\ t \in surplus
  BY <1>1, <1>2, <1>4, RolledOut
<1>5. CASE t \notin outdated /\ t \notin surplus
  <2>1. r1[t] = replicas[t]
    BY <1>1, <1>2, <1>5, RolledOut
  <2>2. \/ replicas'[t].st \in {r1[t].st, "RUNNING"}
        \/ r1[t].st = "RUNNING" /\ (r1[t].act = "dead" \/ r1[t].sick)
        \/ r1[t].st = "UPDATING" /\ r1[t].act \in {"failed", "dead"}
        \/ r1[t].st = "RECOVERING"
    <3>1. r1[t].st \in {"UPDATING", "RECOVERING", "RUNNING"}
      BY <1>1, <2>1, Zenon
    <3>2. QED
      BY <1>1, <1>5, <3>1, StageOfOne, Zenon
  <2>3. QED
    BY <1>1, <2>1, <2>2, Zenon
<1>6. QED
  BY <1>3, <1>4, <1>5, Zenon

LEMMA RolloutNumbers ==
  ASSUME NEW tg, tg.num \in Int
  PROVE  /\ RolloutSize(tg.num) \in Nat \ {0}
         /\ MaxToStop(replicas, tg) \in Nat
<1>1. tg.num \div 5 \in Int
  OBVIOUS
<1>2. RolloutSize(tg.num) \in Nat \ {0}
  BY <1>1 DEF RolloutSize, LargerOf
<1>3. \A states, v : /\ Cardinality(NotAtVersion(replicas, states, v)) \in Nat
                     /\ Cardinality(AtVersion(replicas, states, v)) \in Nat
  BY TagSets, Zenon DEF NotAtVersion, AtVersion, In
<1> DEFINE O == Cardinality(NotAtVersion(replicas, {"STARTING", "UPDATING", "RUNNING"}, tg.ver))
           N == Cardinality(AtVersion(replicas, {"RUNNING"}, tg.ver))
           d == RolloutSize(tg.num) - (tg.num - N - O)
<1>4. MaxToStop(replicas, tg) \in {0, LargerOf(d, 0)}
  BY Zenon DEF MaxToStop
<1>5. d \in Int
  BY <1>2, <1>3
<1> HIDE DEF d
<1>6. LargerOf(d, 0) \in Nat
  BY <1>5 DEF LargerOf
<1>7. QED
  BY <1>2, <1>4, <1>6

(***************************************************************************)
(* The rollout alone: max_to_stop counts the old replicas that are still   *)
(* starting as if they could serve, but pop takes those first, so once a   *)
(* running one is stopped none of them is left and the count is right.     *)
(***************************************************************************)
LEMMA RolloutLeavesEnough ==
  ASSUME NEW tg, tg.num \in Int, NEW outdated \in WrongVersionPops(replicas, tg),
         TakenDown # {}, \A t \in TakenDown : t \in outdated /\ replicas[t].st = "RUNNING"
  PROVE  Cardinality(Available(replicas) \ TakenDown) >= tg.num - RolloutSize(tg.num)
<1> DEFINE v == tg.ver
           elig == NotAtVersion(replicas, {"STARTING", "RUNNING"}, v)
           order == [STARTING |-> 1, RUNNING |-> 2]
           old == NotAtVersion(replicas, {"STARTING", "UPDATING", "RUNNING"}, v)
           new == AtVersion(replicas, {"RUNNING"}, v)
           max == MaxToStop(replicas, tg)
           left == Available(replicas) \ TakenDown
<1>1. /\ elig \in SUBSET Tags /\ old \in SUBSET Tags /\ new \in SUBSET Tags
      /\ elig \subseteq old /\ new \cap old = {} /\ left \in SUBSET Tags
  BY Zenon DEF NotAtVersion, AtVersion, In, Available
<1>2. /\ outdated \subseteq elig
      /\ Cardinality(outdated) <= max
      /\ \A t \in outdated, u \in elig \ outdated : order[replicas[t].st] <= order[replicas[u].st]
  <2>1. outdated \in Pops(replicas, elig, order, max)
    BY Zenon DEF WrongVersionPops
  <2>2. max \in Nat
    BY RolloutNumbers, Zenon
  <2> HIDE DEF elig, max, order
  <2>3. QED
    BY <1>1, <2>1, <2>2, PopsTakes, Zenon
<1>3. PICK t \in outdated : replicas[t].st = "RUNNING"
  BY Zenon
<1>4. ASSUME NEW u \in elig \ outdated PROVE replicas[u].st = "RUNNING"
  <2>1. replicas[u].st \in {"STARTING", "RUNNING"}
    BY <1>4, Zenon DEF NotAtVersion, In
  <2>2. 2 <= order[replicas[u].st]
    BY <1>2, <1>3, <1>4
  <2>3. QED
    BY <2>1, <2>2
<1>5. new \cup (old \ outdated) \subseteq left
  <2>1. ASSUME NEW u \in new PROVE u \in left
    <3>1. u \in Tags /\ replicas[u].st = "RUNNING" /\ u \notin outdated
      BY <1>1, <1>2, <2>1, Zenon DEF AtVersion, In
    <3>2. QED
      BY <3>1, Zenon DEF Available, In
  <2>2. ASSUME NEW u \in old \ outdated PROVE u \in left
    <3>1. u \in Tags /\ replicas[u].st \in {"STARTING", "UPDATING", "RUNNING"}
      BY <2>2, Zenon DEF NotAtVersion, In
    <3>2. replicas[u].st # "STARTING"
      <4>1. replicas[u].st = "STARTING" => u \in elig
        BY <2>2 DEF NotAtVersion, In
      <4>2. QED
        BY <1>4, <2>2, <4>1, Zenon
    <3>3. QED
      BY <2>2, <3>1, <3>2, Zenon DEF Available, In
  <2>3. QED
    BY <2>1, <2>2
<1>6. Cardinality(outdated) >= 1 /\ Cardinality(outdated) \in Nat
  <2>1. outdated \in SUBSET Tags /\ {t} \in SUBSET outdated
    BY <1>1, <1>2, <1>3, Zenon
  <2>2. Cardinality({t}) = 1
    BY FS_Singleton, Zenon
  <2>3. QED
    BY <2>1, <2>2, TagSets, TagSubsets, Zenon
<1>7. max = RolloutSize(tg.num) - (tg.num - Cardinality(new) - Cardinality(old))
  <2> DEFINE d == RolloutSize(tg.num) - (tg.num - Cardinality(new) - Cardinality(old))
  <2>1. max \in {0, LargerOf(d, 0)}
    BY Zenon DEF MaxToStop
  <2>2. max \in Nat /\ max >= 1
    BY <1>2, <1>6, RolloutNumbers
  <2> HIDE DEF d, max
  <2>3. QED
    BY <2>1, <2>2 DEF LargerOf, d
<1>8. Cardinality(new \cup (old \ outdated)) = Cardinality(new) + (Cardinality(old) - Cardinality(outdated))
  <2>1. /\ old \ outdated \in SUBSET Tags /\ new \cap (old \ outdated) = {}
        /\ outdated \in SUBSET old
    BY <1>1, <1>2, Zenon
  <2> HIDE DEF new, old
  <2>2. Cardinality(old \ outdated) = Cardinality(old) - Cardinality(outdated)
    BY <1>1, <2>1, TagSubsets, Zenon
  <2>3. QED
    BY <1>1, <2>1, <2>2, TagUnions, Zenon
<1>9. Cardinality(new \cup (old \ outdated)) <= Cardinality(left)
  <2> HIDE DEF new, old, left
  <2>1. QED
    BY <1>1, <1>5, TagSubsets, Zenon
<1>10. /\ Cardinality(new) \in Nat /\ Cardinality(old) \in Nat /\ Cardinality(left) \in Nat
       /\ RolloutSize(tg.num) \in Nat
  BY <1>1, TagSets, RolloutNumbers, Zenon
<1> HIDE DEF new, old, left, max
<1>11. Cardinality(left) >= tg.num - RolloutSize(tg.num)
  BY <1>2, <1>6, <1>7, <1>8, <1>9, <1>10
<1>12. QED
  BY <1>11, Zenon DEF left

(***************************************************************************)
(* Scaling down: exactly the target number is left, and if a replica that  *)
(* is past its start was stopped, pop found none that is only starting.    *)
(***************************************************************************)
LEMMA ScaleDownKeepsTarget ==
  ASSUME NEW tg, tg.num \in Nat, NEW noticed, NEW late, NEW outdated, NEW surplus,
         NEW r1, NEW r2, NEW r3, NEW r4,
         Stages(tg, noticed, late, outdated, surplus, r1, r2, r3, r4),
         NEW t \in surplus, r1[t].st # "STARTING"
  PROVE  Cardinality(Kept) >= tg.num
<1> DEFINE elig == In(r1, {"STARTING", "UPDATING", "RECOVERING", "RUNNING"})
           order == [STARTING |-> 1, UPDATING |-> 2, RECOVERING |-> 3, RUNNING |-> 4]
           max == LargerOf(-Delta(r1, tg), 0)
<1>1. elig \in SUBSET Tags /\ Kept \in SUBSET Tags
  BY Zenon DEF In, Kept
<1>2. Cardinality(elig) \in Nat
  BY <1>1, TagSets, Zenon
<1>3. Delta(r1, tg) = tg.num - Cardinality(elig)
  <2>1. In(r1, {"STARTING", "UPDATING", "RUNNING", "RECOVERING"}) = elig
    BY Zenon DEF In
  <2>2. QED
    BY <2>1, Zenon DEF Delta
<1>4. max \in Nat /\ (max = 0 \/ max = Cardinality(elig) - tg.num)
  <2> HIDE DEF elig
  <2>1. QED
    BY <1>2, <1>3 DEF LargerOf
<1>5. /\ surplus \subseteq elig
      /\ Cardinality(surplus) <= max
      /\ max <= Cardinality(elig) => Cardinality(surplus) = max
      /\ \A w \in surplus, u \in elig \ surplus : order[r1[w].st] <= order[r1[u].st]
  <2>1. surplus \in Pops(r1, elig, order, max)
    BY Zenon DEF Stages, ScaleDownPops
  <2> HIDE DEF elig, order, max
  <2>2. QED
    BY <1>1, <1>4, <2>1, PopsTakes, Zenon
<1>6. Cardinality(surplus) >= 1 /\ Cardinality(surplus) \in Nat
  <2>1. surplus \in SUBSET Tags /\ {t} \in SUBSET surplus
    BY <1>1, <1>5
  <2>2. Cardinality({t}) = 1
    BY FS_Singleton, Zenon
  <2>3. QED
    BY <2>1, <2>2, TagSets, TagSubsets, Zenon
<1>7. Cardinality(elig \ surplus) = tg.num
  <2>1. Cardinality(elig \ surplus) = Cardinality(elig) - Cardinality(surplus)
    <3> HIDE DEF elig
    <3>1. QED
      BY <1>1, <1>5, TagSubsets, Zenon
  <2> HIDE DEF elig, max
  <2>2. QED
    BY <1>2, <1>4, <1>5, <1>6, <2>1
<1>8. elig \ surplus \subseteq Kept
  <2> SUFFICES ASSUME NEW u \in elig \ surplus PROVE u \in Kept
    OBVIOUS
  <2>1. u \in Tags /\ r1[u].st \in {"STARTING", "UPDATING", "RECOVERING", "RUNNING"}
    BY Zenon DEF In
  <2>2. r1[t].st \in {"UPDATING", "RECOVERING", "RUNNING"}
    BY <1>5, Zenon DEF In
  <2>3. order[r1[t].st] <= order[r1[u].st]
    BY <1>5, Zenon
  <2>4. r1[u].st # "STARTING"
    BY <2>2, <2>3
  <2>5. QED
    BY <2>1, <2>4, NotSurplusIsKept, Zenon
<1>9. Cardinality(elig \ surplus) <= Cardinality(Kept)
  <2> HIDE DEF elig
  <2>1. QED
    BY <1>1, <1>8, TagSubsets, Zenon
<1>10. Cardinality(Kept) \in Nat
  BY <1>1, TagSets, Zenon
<1>11. QED
  BY <1>7, <1>9, <1>10

LEMMA UpdateKeepsServing ==
  ASSUME NEW tg, tg.num \in Int, NEW st, NEW c, NEW noticed, NEW late, NEW warn,
         Update(tg, st, c, noticed, late, warn), TakenDown # {}
  PROVE  \/ Cardinality(Available(replicas) \ TakenDown) >= tg.num - RolloutSize(tg.num)
         \/ Cardinality(Kept) >= tg.num
<1>1. PICK outdated, surplus, r1, r2, r3, r4 :
        Stages(tg, noticed, late, outdated, surplus, r1, r2, r3, r4)
  BY UpdateStages, Zenon
<1>2. CASE tg.num < 0
  <2>1. Cardinality(Kept) \in Nat
    BY TagSets, Zenon DEF Kept, In
  <2>2. Cardinality(Kept) >= tg.num
    BY <1>2, <2>1
  <2>3. QED
    BY <2>2, Zenon
<1>3. CASE ~(tg.num < 0) /\ \E t \in surplus : r1[t].st # "STARTING"
  <2>1. tg.num \in Nat
    BY <1>3
  <2>2. PICK t \in surplus : r1[t].st # "STARTING"
    BY <1>3, Zenon
  <2>3. Cardinality(Kept) >= tg.num
    BY <1>1, <2>1, <2>2, ScaleDownKeepsTarget
  <2>4. QED
    BY <2>3, Zenon
<1>4. CASE \A t \in surplus : r1[t].st = "STARTING"
  <2>1. \A t \in TakenDown : t \in outdated /\ replicas[t].st = "RUNNING"
    BY <1>1, <1>4, TakenDownBy
  <2>2. outdated \in WrongVersionPops(replicas, tg)
    BY <1>1, Zenon DEF Stages
  <2>3. QED
    BY <2>1, <2>2, RolloutLeavesEnough, Zenon
<1>5. QED
  BY <1>2, <1>3, <1>4, Zenon

\* A step that leaves every replica in its state takes none down.
LEMMA SameStatesTakeNone ==
  ASSUME \A t \in Tags : replicas'[t].st = replicas[t].st
  PROVE  TakenDown = {}
  BY Zenon DEF TakenDown, Available, In

LEMMA ActorTakesNone ==
  ASSUME AInv, NEW t \in Tags, NEW act, NEW sick, NEW own, Becomes(t, act, sick, own)
  PROVE  TakenDown = {}
<1>1. DOMAIN replicas = Tags
  BY DEF AInv
<1>2. \A u \in Tags : replicas'[u].st = replicas[u].st
  BY <1>1, Zenon DEF Becomes, Replica
<1>3. QED
  BY <1>2, SameStatesTakeNone, Zenon

FaultsTyped == faults \in Nat

LEMMA FaultsCounted == Spec => []FaultsTyped
<1>1. Init => FaultsTyped
  BY DEF Init, FaultsTyped
<1>2. FaultsTyped /\ [Next]_vars => FaultsTyped'
  <2> SUFFICES ASSUME FaultsTyped, [Next]_vars PROVE FaultsTyped'
    OBVIOUS
  <2>1. faults' = faults \/ faults' = faults + 1
    BY Zenon DEF Next, vars, Deploy, DeployFails, Delete, DeleteFails, Shutdown,
         ShutdownFails, SetTargetDeleting, ControlLoop, Autoscale,
         AutoscaleFails, ActorReady, ActorFails, ActorDrained, ActorSick, ActorDies, Crash, Fault
  <2>2. QED
    BY <2>1 DEF FaultsTyped
<1>3. QED
  BY <1>1, <1>2, PTL DEF Spec

(***************************************************************************)
(* No update takes down more than a rollout or a scaling down may, for any *)
(* number of replicas, versions and targets, and whatever an earlier       *)
(* rollout, a crash or a failing actor left behind.                        *)
(***************************************************************************)
THEOREM UpdatesKeepServing == Spec => RolloutKeepsServing
<1> DEFINE Goal == TakenDown # {} /\ exists' /\ faults' = faults =>
             \/ Cardinality(Available(replicas) \ TakenDown)
                  >= target'.num - RolloutSize(target'.num)
             \/ Cardinality(Kept) >= target'.num
<1>1. ASSUME IInv, AInv, FaultsTyped, [Next]_vars PROVE [Goal]_vars
  <2> SUFFICES ASSUME Next, TakenDown # {}, exists', faults' = faults PROVE Goal
    BY <1>1, Zenon
  <2>1. ASSUME UNCHANGED replicas PROVE FALSE
    BY <2>1, SameStatesTakeNone, Zenon
  <2>2. ASSUME NEW i \in Infos, Deploy(i) \/ DeployFails(i) PROVE Goal
    BY <2>1, <2>2 DEF Deploy, DeployFails
  <2>3. CASE Delete \/ DeleteFails \/ Shutdown \/ ShutdownFails
    BY <2>1, <2>3, Zenon DEF Delete, DeleteFails, Shutdown, ShutdownFails, SetTargetDeleting
  <2>4. ASSUME NEW noticed, NEW late, NEW warn, NEW tg, NEW st, NEW c, tg.num \in Int,
               Update(tg, st, c, noticed, late, warn)
        PROVE  Goal
    <3>1. target' = tg
      BY <2>4, UpdateTarget, Zenon
    <3>2. QED
      BY <2>4, <3>1, UpdateKeepsServing, Zenon
  <2>5. ASSUME NEW noticed, NEW late, NEW warn, ControlLoop(noticed, late, warn) PROVE Goal
    <3>1. target.num \in Int
      BY <1>1, Zenon DEF IInv, TargetTypeOK, Proper, Target
    <3>2. Update(target, status, retries, noticed, late, warn)
      BY <2>5, Zenon DEF ControlLoop
    <3>3. QED
      BY <2>4, <3>1, <3>2, Zenon
  <2>6. ASSUME NEW noticed, NEW late, NEW warn, Updatable, NEW n \in Decisions,
               Autoscale(n, noticed, late, warn)
        PROVE  Goal
    <3>1. Scaled(n) \in Target
      BY <1>1, <2>6, AskedScaled, Zenon DEF Asked, Proper
    <3>2. Update(Scaled(n), "UPDATING", 0, noticed, late, warn)
      BY <2>6, Zenon DEF Autoscale
    <3>3. Scaled(n).num \in Int
      BY <3>1, Zenon DEF Target
    <3>4. QED
      BY <2>4, <3>2, <3>3, Zenon
  <2>7. ASSUME NEW n \in Decisions, AutoscaleFails(n) PROVE Goal
    BY <2>1, <2>7, Zenon DEF AutoscaleFails
  <2>8. ASSUME NEW t \in Tags,
               ActorReady(t) \/ ActorFails(t) \/ ActorDrained(t) \/ ActorSick(t) \/ ActorDies(t)
        PROVE  Goal
    <3>1. \E act, sick, own : Becomes(t, act, sick, own)
      BY <2>8, Zenon DEF ActorReady, ActorFails, ActorDrained, ActorSick, ActorDies
    <3>2. QED
      BY <1>1, <3>1, ActorTakesNone
  <2>9. CASE Crash
    <3>1. faults' = faults + 1
      BY <2>9, Zenon DEF Crash, Fault
    <3>2. QED
      BY <1>1, <3>1 DEF FaultsTyped
  <2> HIDE DEF Goal
  <2>10. QED
    BY <2>2, <2>3, <2>5, <2>6, <2>7, <2>8, <2>9, Zenon DEF Next
<1>2. Spec => []AInv
  BY InitAnnounced, StepKeepsAnnounced, PTL DEF Spec
<1>3. [][Goal]_vars <=> RolloutKeepsServing
  BY Zenon DEF RolloutKeepsServing
<1>4. QED
  BY <1>1, <1>2, <1>3, Invariance, FaultsCounted, PTL DEF Spec
=============================================================================
