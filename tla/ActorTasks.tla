----------------------------- MODULE ActorTasks -----------------------------
(***************************************************************************)
(* Actor tasks from one caller to one actor, end to end:                   *)
(*   - the caller's CoreWorkerDirectActorTaskSubmitter with its            *)
(*     SequentialActorSubmitQueue, the retries of its TaskManager and the  *)
(*     CoreWorkerClient of each connection;                                *)
(*   - an unreliable network that delays, reorders and drops requests and  *)
(*     replies;                                                            *)
(*   - the actor's worker process with its ActorSchedulingQueue;           *)
(*   - the GCS, which restarts the actor and publishes its state;          *)
(*     notifications arrive late, out of order, twice, or never.           *)
(* A task is its actor counter. Incarnation n of the actor is the process  *)
(* created by its n-th restart, and stands for that process's address.     *)
(***************************************************************************)
EXTENDS Integers, FiniteSets, FiniteSetsExt, Sequences, SequentialActorSubmitQueue

CONSTANTS
    MaxTasks,         \* bound: tasks submitted in a behaviour
    TaskRetries,      \* values of max_task_retries to consider
    MaxRestarts,      \* max_restarts of the actor
    MaxPendingCalls,  \* max_pending_calls, -1 for no limit
    MaxRpcsInFlight,  \* kMaxBytesInFlight, with every request of size one
    PlasmaTasks,      \* tasks with arguments the actor's worker must fetch
    DepsMayFail,      \* whether ResolveDependencies may fail
    MaxFaults         \* bound: rpc errors while the actor is alive

ASSUME ActorTasksAssumption ==
    /\ MaxTasks \in Nat \ {0} /\ TaskRetries \subseteq Nat /\ MaxRestarts \in Nat
    /\ MaxPendingCalls \in Int /\ MaxRpcsInFlight \in Nat \ {0}
    /\ PlasmaTasks \subseteq Nat /\ DepsMayFail \in BOOLEAN /\ MaxFaults \in Nat

Tasks == 0 .. MaxTasks - 1
Incarnations == 0 .. MaxRestarts
None == -1

\* A PushTask request. attempt is the attempt number of the task spec;
\* skip_queue selects the path through CoreWorkerClient::PushActorTask.
Requests ==
    [task : Tasks, attempt : 0 .. Max(TaskRetries), incarnation : Incarnations,
     seq_no : Tasks, dependencies : BOOLEAN, skip_execution : BOOLEAN,
     skip_queue : BOOLEAN, client_processed_up_to : Tasks \cup {None}]

VARIABLES
    \* the caller: ActorHandle and TaskManager
    max_task_retries,   \* of the actor
    task_counter,   \* ActorHandle::task_counter_
    result,         \* per task: none, pending, OK, failed, or waiting_death_info
    retries_left,   \* num_retries_left of the task entry
    to_resubmit,    \* CoreWorker::to_resubmit_
    \* the caller: ClientQueue of the actor
    queue,          \* actor_submit_queue
    state,          \* state
    num_restarts,   \* num_restarts
    rpc_client,     \* incarnation that rpc_client talks to, or None
    inflight,       \* inflight_task_callbacks: task -> the push it is for
    cur_pending_calls,
    force_fail,     \* posted SendPendingTasks_ForceFail handlers
    \* the network
    clients,        \* CoreWorkerClient per incarnation
    outstanding,    \* sent requests whose rpc callback has not run
    network,        \* requests on their way to the actor
    faults,         \* rpc errors so far while the actor was alive
    \* the actor and the GCS
    incarnation, alive,
    notices,        \* actor states published so far
    \* the actor's ActorSchedulingQueue
    next_seq_no, pending, executing, timed_out, replies, received, superseded, executed,
    gave_up

handleVars == <<max_task_retries, task_counter>>
taskVars == <<handleVars, result, retries_left, to_resubmit>>
submitVars == <<queue, state, num_restarts, rpc_client, inflight,
                cur_pending_calls, force_fail>>
netVars == <<clients, outstanding, network, faults>>
gcsVars == <<incarnation, alive, notices>>
actorVars == <<next_seq_no, pending, executing, timed_out, replies, received,
               superseded, executed, gave_up>>
vars == <<taskVars, submitVars, netVars, gcsVars, actorVars>>

\* The queue of the actor's current process.
Actor == INSTANCE ActorSchedulingQueue

Notices ==
    [state : {"RESTARTING", "ALIVE", "DEAD"}, num_restarts : Incarnations]

TypeOK ==
    /\ task_counter \in 0 .. MaxTasks
    /\ result \in [Tasks -> {"none", "pending", "OK", "failed", "waiting_death_info"}]
    /\ max_task_retries \in TaskRetries
    /\ retries_left \in [Tasks -> 0 .. max_task_retries]
    /\ to_resubmit \subseteq Tasks /\ force_fail \subseteq Tasks
    /\ DOMAIN queue.requests \subseteq Tasks
    /\ queue.next_send_position \in Nat /\ queue.next_task_reply_position \in 0 .. MaxTasks
    /\ queue.caller_starts_at \in 0 .. MaxTasks
    /\ queue.out_of_order_completed_tasks \subseteq Tasks
    /\ state \in {"DEPENDENCIES_UNREADY", "ALIVE", "RESTARTING", "DEAD"}
    /\ num_restarts \in Incarnations \cup {None}
    /\ rpc_client \in Incarnations \cup {None}
    /\ DOMAIN inflight \subseteq Tasks
    /\ \A c \in DOMAIN inflight : inflight[c] \in Requests /\ inflight[c].task = c
    /\ cur_pending_calls \in Int
    /\ \A i \in Incarnations :
          /\ clients[i].send_queue \in Seq(Requests)
          /\ clients[i].in_flight \in 0 .. MaxRpcsInFlight
          /\ clients[i].max_finished_seq_no \in Tasks \cup {None}
    /\ \A m \in outstanding \cup network : m \in Requests
    /\ faults \in 0 .. MaxFaults
    /\ incarnation \in Incarnations /\ alive \in BOOLEAN
    /\ \A n \in notices : n \in Notices
    /\ Actor!QueueTypeOK

Init ==
    /\ task_counter = 0
    /\ result = [c \in Tasks |-> "none"]
    /\ max_task_retries \in TaskRetries
    /\ retries_left = [c \in Tasks |-> max_task_retries]
    /\ to_resubmit = {}
    /\ queue = NewQueue
    /\ state = "DEPENDENCIES_UNREADY"
    /\ num_restarts = None
    /\ rpc_client = None
    /\ inflight = [c \in {} |-> {}]
    /\ cur_pending_calls = 0
    /\ force_fail = {}
    /\ clients = [i \in Incarnations |->
                     [send_queue |-> <<>>, in_flight |-> 0, max_finished_seq_no |-> None]]
    /\ outstanding = {}
    /\ network = {}
    /\ faults = 0
    /\ incarnation = 0
    /\ alive = FALSE
    /\ notices = {}
    /\ Actor!QueueInit

----------------------------------------------------------------------------
\* CoreWorkerClient: requests wait in send_queue_ while too much is in flight.

\* SendRequests: the requests it sends, stamped with max_finished_seq_no_, and
\* the client afterwards.
NumToSend(cl) == Min({Len(cl.send_queue), MaxRpcsInFlight - cl.in_flight})

Sent_UpToItself(cl) ==
    {[cl.send_queue[k] EXCEPT !.client_processed_up_to = cl.send_queue[k].seq_no - 1] :
        k \in 1 .. NumToSend(cl)}

Sent(cl) ==
    {[cl.send_queue[k] EXCEPT !.client_processed_up_to = cl.max_finished_seq_no] :
        k \in 1 .. NumToSend(cl)}

AfterSend(cl) ==
    [cl EXCEPT !.send_queue = SubSeq(@, NumToSend(cl) + 1, Len(@)),
               !.in_flight = @ + NumToSend(cl)]

\* CoreWorkerClient::PushActorTask for the pushes P, in the order of their
\* tasks: those with skip_queue are sent at once, the others are queued.
InTaskOrder(P) ==
    CHOOSE ms \in UNION {[1 .. n -> P] : n \in 0 .. MaxTasks} :
        /\ \A m \in P : \E i \in DOMAIN ms : ms[i] = m
        /\ \A i, j \in DOMAIN ms : i < j => ms[i].task < ms[j].task

Queued(cl, P) == [cl EXCEPT !.send_queue = @ \o InTaskOrder({m \in P : ~m.skip_queue})]

\* The rpc callback that SendRequests installs, before it calls SendRequests.
Finished(cl, m) ==
    [cl EXCEPT !.max_finished_seq_no = Max({@, m.seq_no}), !.in_flight = @ - 1]

----------------------------------------------------------------------------
\* CoreWorkerDirectActorTaskSubmitter

PushRequest(q, c, inc, skip_exec, skip_queue) ==
    [task |-> c, attempt |-> max_task_retries - retries_left[c], incarnation |-> inc,
     seq_no |-> GetSequenceNumber(q, c), dependencies |-> c \in PlasmaTasks,
     skip_execution |-> skip_exec, skip_queue |-> skip_queue,
     client_processed_up_to |-> None]

\* The pushes of ResendOutOfOrderTasks and of SendPendingTasks on client inc.
ResendOutOfOrderTasks_None(q, inc) == {}
ResendOutOfOrderTasks(q, inc) ==
    {PushRequest(q, c, inc, TRUE, TRUE) : c \in q.out_of_order_completed_tasks}

SendPendingTasks(q, inc) ==
    {PushRequest(q, c, inc, FALSE, SkipQueue(q, c)) : c \in Sendable(q)}

\* PushActorTask for the pushes P, given the callbacks old in
\* inflight_task_callbacks (emplace keeps an existing entry).
PushActorTasks(P, inc, old) ==
    LET cl == Queued(clients[inc], P)
        now == {m \in P : m.skip_queue} \cup Sent(cl)
        new == [c \in {m.task : m \in P} |-> CHOOSE m \in P : m.task = c]
    IN  /\ inflight' = [c \in DOMAIN old \cup DOMAIN new |->
                           IF c \in DOMAIN old THEN old[c] ELSE new[c]]
        /\ clients' = [clients EXCEPT ![inc] = AfterSend(cl)]
        /\ outstanding' = outstanding \cup now
        /\ network' = network \cup now

\* The tasks for which HandlePushTaskReply calls MarkTaskCompleted.
CompletedBy_Any(S, retried) == {m.task : m \in S}
CompletedBy(S, retried) == {m.task : m \in S} \ retried

\* HandlePushTaskReply with the given status for the callbacks of the pushes S,
\* with the queue, the actor state and the results as they are then. A failed
\* task is retried (FailOrRetryPendingTask) or failed: at once if the actor is
\* dead, otherwise it waits for the actor's death info.
HandlePushTaskReplies(q, S, status, st, res) ==
    LET real == {m.task : m \in {x \in S : ~x.skip_execution}}
        retried == IF status = "OK" THEN {} ELSE {c \in real : retries_left[c] > 0}
        final == CASE status = "OK" -> "OK"
                   [] status # "OK" /\ st = "DEAD" -> "failed"
                   [] OTHER -> "waiting_death_info"
    IN  /\ result' = [c \in Tasks |-> IF c \in real \ retried THEN final ELSE res[c]]
        /\ retries_left' = [c \in Tasks |-> IF c \in retried THEN retries_left[c] - 1
                                                             ELSE retries_left[c]]
        /\ to_resubmit' = to_resubmit \cup retried
        /\ queue' = MarkTasksCompleted(q, CompletedBy(S, retried))
        /\ cur_pending_calls' = cur_pending_calls - Cardinality(S)

\* SubmitTask up to posting the resolution of the task's dependencies; for a
\* dead actor the task is cancelled (no retry) and failed.
SubmitTask(c) ==
    /\ IF state # "DEAD"
       THEN /\ queue' = Emplace(queue, c)
            /\ cur_pending_calls' = cur_pending_calls + 1
            /\ result' = [result EXCEPT ![c] = "pending"]
            /\ UNCHANGED retries_left
       ELSE /\ result' = [result EXCEPT ![c] = "failed"]
            /\ retries_left' = [retries_left EXCEPT ![c] = 0]
            /\ UNCHANGED <<queue, cur_pending_calls>>
    /\ UNCHANGED <<state, num_restarts, rpc_client, inflight, force_fail>>

PendingTasksFull == MaxPendingCalls > 0 /\ cur_pending_calls >= MaxPendingCalls

\* CoreWorker::SubmitActorTask
SubmitActorTask ==
    /\ task_counter < MaxTasks
    /\ ~PendingTasksFull
    /\ task_counter' = task_counter + 1
    /\ SubmitTask(task_counter)
    /\ UNCHANGED <<max_task_retries, to_resubmit, netVars, gcsVars, actorVars>>

\* CoreWorker::InternalHeartbeat resubmits a task whose retry delay is over.
Resubmit(c) ==
    /\ c \in to_resubmit
    /\ to_resubmit' = to_resubmit \ {c}
    /\ SubmitTask(c)
    /\ UNCHANGED <<handleVars, netVars, gcsVars, actorVars>>

FailIfActorUnreachable == max_task_retries = 0

\* The callback of ResolveDependencies, when all is resolved: with a client
\* SendPendingTasks sends; without one, while the actor restarts and tasks are
\* not retried, it posts the failure of the tasks it pops.
DependenciesResolved(c) ==
    /\ c \in DOMAIN queue.requests /\ ~queue.requests[c]
    /\ LET q == MarkDependencyResolved(queue, c)
       IN  \/ /\ rpc_client # None
              /\ queue' = PopSendable(q)
              /\ PushActorTasks(SendPendingTasks(q, rpc_client), rpc_client, inflight)
              /\ UNCHANGED force_fail
           \/ /\ rpc_client = None /\ state = "RESTARTING" /\ FailIfActorUnreachable
              /\ queue' = PopSendable(q)
              /\ force_fail' = force_fail \cup Sendable(q)
              /\ UNCHANGED <<inflight, clients, outstanding, network>>
           \/ /\ rpc_client = None /\ ~(state = "RESTARTING" /\ FailIfActorUnreachable)
              /\ queue' = q
              /\ UNCHANGED <<force_fail, inflight, clients, outstanding, network>>
    /\ UNCHANGED <<taskVars, state, num_restarts, rpc_client, cur_pending_calls, faults,
                   gcsVars, actorVars>>

\* The same callback with an error: the task leaves the queue and is retried
\* or failed; next_send_position and cur_pending_calls stay.
DependencyFailed(c) ==
    /\ DepsMayFail
    /\ c \in DOMAIN queue.requests /\ ~queue.requests[c]
    /\ queue' = MarkDependencyFailed(queue, c)
    /\ IF retries_left[c] > 0
       THEN /\ retries_left' = [retries_left EXCEPT ![c] = @ - 1]
            /\ to_resubmit' = to_resubmit \cup {c}
            /\ UNCHANGED result
       ELSE /\ result' = [result EXCEPT ![c] = "failed"]
            /\ UNCHANGED <<retries_left, to_resubmit>>
    /\ UNCHANGED <<handleVars, state, num_restarts, rpc_client, inflight,
                   cur_pending_calls, force_fail, netVars, gcsVars, actorVars>>

\* The posted handler SendPendingTasks_ForceFail.
ForceFail(c) ==
    /\ c \in force_fail
    /\ force_fail' = force_fail \ {c}
    /\ HandlePushTaskReplies(queue, {[task |-> c, skip_execution |-> FALSE]}, "IOError",
                             state, result)
    /\ UNCHANGED <<handleVars, state, num_restarts, rpc_client, inflight,
                   netVars, gcsVars, actorVars>>

\* inflight_task_callbacks once the callback of task c is taken.
CallbacksWithout_Keep(c) == inflight
CallbacksWithout(c) == [d \in DOMAIN inflight \ {c} |-> inflight[d]]

\* The callback of the rpc of request m, with its status: the client sends
\* more, and the callback registered for the task, if any, is taken and run.
RpcCallback(m, status) ==
    /\ LET cl == Finished(clients[m.incarnation], m)
           more == IF m.skip_queue THEN {} ELSE Sent(cl)
       IN  /\ clients' = IF m.skip_queue THEN clients
                         ELSE [clients EXCEPT ![m.incarnation] = AfterSend(cl)]
           /\ outstanding' = (outstanding \ {m}) \cup more
           /\ network' = network \cup more
    /\ IF m.task \in DOMAIN inflight
       THEN /\ inflight' = CallbacksWithout(m.task)
            /\ HandlePushTaskReplies(queue, {inflight[m.task]}, status, state, result)
       ELSE UNCHANGED <<inflight, result, retries_left, to_resubmit, queue, cur_pending_calls>>
    /\ UNCHANGED <<handleVars, state, num_restarts, rpc_client, force_fail, gcsVars>>

DisconnectRpcClient == rpc_client' = None

\* The callbacks that FailInflightTasks runs with an error.
FailInflightTasks_None == {}
FailInflightTasks == {inflight[c] : c \in DOMAIN inflight}

\* ConnectActor, down to FailInflightTasks: the callbacks of the old connection
\* are failed after the queued tasks were sent on the new one.
ConnectActor(inc) ==
    /\ inc >= num_restarts
    /\ rpc_client # inc
    /\ state # "DEAD"
    /\ LET q == OnClientConnected(queue)
           sends == ResendOutOfOrderTasks(q, inc) \cup SendPendingTasks(q, inc)
           old == IF rpc_client # None THEN FailInflightTasks ELSE {}
           kept == IF rpc_client # None THEN [c \in {} |-> {}] ELSE inflight
       IN  /\ PushActorTasks(sends, inc, kept)
           /\ HandlePushTaskReplies(PopAllOutOfOrderCompletedTasks(PopSendable(q)), old,
                                    "IOError", "ALIVE", result)
    /\ num_restarts' = inc
    /\ state' = "ALIVE"
    /\ rpc_client' = inc
    /\ UNCHANGED force_fail

\* DisconnectActor: a restart newer than what the queue knows, or the death of
\* the actor, fails what is in flight; death also fails what is queued or
\* waits for the death info.
DisconnectActor(restarts, dead) ==
    /\ dead \/ restarts > num_restarts
    /\ state' = IF dead \/ state = "DEAD" THEN "DEAD" ELSE "RESTARTING"
    /\ num_restarts' = IF dead \/ state = "DEAD" THEN num_restarts ELSE restarts
    /\ LET failed == {c \in Tasks : c \in DOMAIN queue.requests
                                       \/ result[c] = "waiting_death_info"}
       IN  HandlePushTaskReplies(IF dead THEN ClearAllTasks(queue) ELSE queue,
                                 FailInflightTasks, "IOError", state',
                                 [c \in Tasks |-> IF dead /\ c \in failed THEN "failed"
                                                                          ELSE result[c]])
    /\ DisconnectRpcClient
    /\ inflight' = [c \in {} |-> {}]
    /\ UNCHANGED <<force_fail, clients, outstanding, network>>

\* ActorManager::HandleActorStateNotification
HandleActorStateNotification(n) ==
    /\ n \in notices
    /\ \/ n.state = "ALIVE" /\ ConnectActor(n.num_restarts)
       \/ n.state = "RESTARTING" /\ DisconnectActor(n.num_restarts, FALSE)
       \/ n.state = "DEAD" /\ DisconnectActor(n.num_restarts, TRUE)
    /\ UNCHANGED <<handleVars, faults, gcsVars, actorVars>>

\* CheckTimeoutTasks for the tasks S whose grace period is over.
CheckTimeoutTasks(S) ==
    /\ S # {}
    /\ \A c \in S : result[c] = "waiting_death_info"
    /\ result' = [c \in Tasks |-> IF c \in S THEN "failed" ELSE result[c]]
    /\ UNCHANGED <<handleVars, retries_left, to_resubmit, submitVars, netVars, gcsVars,
                   actorVars>>

----------------------------------------------------------------------------
\* The network, the actor's process and the GCS.

submitterSide == <<taskVars, submitVars, clients, outstanding>>

Connected(m) == alive /\ m.incarnation = incarnation

\* A reply reaches the caller.
HandleReply(m, status) ==
    /\ <<m, status>> \in replies
    /\ m \in outstanding
    /\ replies' = replies \ {<<m, status>>}
    /\ RpcCallback(m, status)
    /\ UNCHANGED <<faults, next_seq_no, pending, executing, timed_out, received,
                   superseded, executed, gave_up>>

\* An rpc fails: the process it was sent to is gone, or the network drops the
\* request or its reply. The caller sees no other reply of this rpc.
RpcFails(m) ==
    /\ m \in outstanding
    /\ \/ ~Connected(m) /\ UNCHANGED faults
       \/ Connected(m) /\ faults < MaxFaults /\ faults' = faults + 1
    /\ replies' = {r \in replies : r[1] # m}
    /\ RpcCallback(m, "IOError")
    /\ UNCHANGED <<next_seq_no, pending, executing, timed_out, received, superseded,
                   executed, gave_up>>

\* A request reaches the actor's process.
HandlePushTask(m) ==
    /\ m \in network
    /\ Connected(m)
    /\ network' = network \ {m}
    /\ Actor!Add(m)
    /\ UNCHANGED <<submitterSide, faults, gcsVars>>

ActorStep ==
    /\ alive
    /\ \/ \E s \in DOMAIN pending : Actor!OnWaitComplete(s)
       \/ Actor!TimerExpires
       \/ Actor!OnSequencingWaitTimeout
       \/ \E m \in executing : Actor!Finish(m)
    /\ UNCHANGED <<submitterSide, network, faults, gcsVars>>

\* The process dies with everything in it. The GCS publishes that the actor
\* restarts, or that it is dead when no restart is left.
Crash ==
    /\ alive
    /\ alive' = FALSE
    /\ notices' = notices \cup
          {[state |-> IF incarnation < MaxRestarts THEN "RESTARTING" ELSE "DEAD",
            num_restarts |-> Min({incarnation + 1, MaxRestarts})]}
    /\ incarnation' = Min({incarnation + 1, MaxRestarts})
    /\ network' = {}
    /\ next_seq_no' = 0 /\ pending' = [s \in {} |-> {}] /\ executing' = {} /\ timed_out' = FALSE
    /\ received' = {} /\ superseded' = {} /\ executed' = {} /\ gave_up' = FALSE
    /\ UNCHANGED <<submitterSide, faults, replies>>

\* The actor creation task has run in a new process; the GCS publishes that
\* the actor is alive.
Start ==
    /\ ~alive
    /\ ~\E n \in notices : n.state = "DEAD"
    /\ alive' = TRUE
    /\ notices' = notices \cup {[state |-> "ALIVE", num_restarts |-> incarnation]}
    /\ UNCHANGED <<submitterSide, network, faults, incarnation, actorVars>>

Next ==
    \/ SubmitActorTask
    \/ \E c \in Tasks : \/ Resubmit(c)
                        \/ DependenciesResolved(c)
                        \/ DependencyFailed(c)
                        \/ ForceFail(c)
    \/ \E S \in SUBSET Tasks : CheckTimeoutTasks(S)
    \/ \E n \in notices : HandleActorStateNotification(n)
    \/ \E m \in outstanding : \/ \E status \in Actor!Statuses : HandleReply(m, status)
                              \/ RpcFails(m)
    \/ \E m \in network : HandlePushTask(m)
    \/ ActorStep
    \/ Crash
    \/ Start

Spec == Init /\ [][Next]_vars

\* Event loops run what is posted to them, timers fire, tasks return, requests
\* and replies between live processes arrive, rpcs to dead processes fail, the
\* GCS restarts the actor, and each published state is seen.
FairSpec ==
    /\ Spec
    /\ \A c \in Tasks : /\ WF_vars(Resubmit(c))
                        /\ WF_vars(DependenciesResolved(c))
                        /\ WF_vars(ForceFail(c))
    /\ WF_vars(\E S \in SUBSET Tasks : CheckTimeoutTasks(S))
    /\ WF_vars(\E n \in notices : HandleActorStateNotification(n))
    /\ WF_vars(\E m \in outstanding, status \in Actor!Statuses : HandleReply(m, status))
    /\ WF_vars(\E m \in outstanding : ~Connected(m) /\ RpcFails(m))
    /\ WF_vars(\E m \in network : HandlePushTask(m))
    /\ WF_vars(ActorStep)
    /\ WF_vars(Start)

----------------------------------------------------------------------------
\* TaskManager aborts the process (RAY_CHECK) when a task that is not pending is
\* completed, failed or retried, and a pending task that is nowhere hangs for
\* ever: every pending task is in exactly one of the places from which it goes
\* on, and a task that is settled is in none.
PendingTaskInOnePlace ==
    LET pushed == {c \in DOMAIN inflight : ~inflight[c].skip_execution}
        queued == DOMAIN queue.requests
    IN  /\ {c \in Tasks : result[c] = "pending"}
              = queued \cup pushed \cup to_resubmit \cup force_fail
        /\ queued \cap (pushed \cup to_resubmit \cup force_fail) = {}
        /\ pushed \cap (to_resubmit \cup force_fail) = {}
        /\ to_resubmit \cap force_fail = {}

\* GetSequenceNumber aborts (RAY_CHECK) for a task before caller_starts_at, and
\* MarkTaskCompleted stops for ever when a completed task lies before the reply
\* position: restarts and retries never lead there.
PositionsAhead ==
    /\ \A c \in Tasks : result[c] = "pending" => c >= queue.caller_starts_at
    /\ \A c \in queue.out_of_order_completed_tasks : c > queue.next_task_reply_position
    /\ queue.caller_starts_at <= queue.next_task_reply_position

\* As long as the actor is not dead, a task is settled exactly when the reply
\* position has passed it, it is kept as completed out of order, or it is
\* being resent only for its sequence number.
CompletedExactly ==
    state # "DEAD" /\ ~DepsMayFail =>
        {c \in Tasks : result[c] \in {"OK", "failed", "waiting_death_info"}}
          = (0 .. queue.next_task_reply_position - 1)
              \cup queue.out_of_order_completed_tasks
              \cup {c \in DOMAIN inflight : inflight[c].skip_execution}

\* One incarnation of the actor starts the caller's tasks in the order of
\* submission, and none twice, whatever is resent, retried or reordered: a task
\* that starts comes after every task this process received under a sequence
\* number it has started.
TasksStartInOrder ==
    [][\A m \in executing' \ executing :
          \A x \in received : x.seq_no \in executed => x.task < m.task]_vars

\* Nothing is overtaken: unless the actor gave up waiting for a request, a
\* task starts only after every earlier task was settled or was started by the
\* same incarnation.
NoOvertaking ==
    [][\A m \in executing' \ executing :
          ~gave_up /\ faults = 0 =>
              \A d \in 0 .. m.task - 1 :
                  \/ result[d] \in {"OK", "failed", "waiting_death_info"}
                  \/ d - (m.task - m.seq_no) \in executed']_vars

\* Every task submitted gets a result, through restarts, retries and the death
\* of the actor.
EveryTaskSettles ==
    \A c \in Tasks : result[c] = "pending" ~> result[c] \in {"OK", "failed"}

============================================================================
