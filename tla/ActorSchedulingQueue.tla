------------------------ MODULE ActorSchedulingQueue ------------------------
(***************************************************************************)
(* The queue that an actor's worker process keeps for the tasks of one     *)
(* caller (src/ray/core_worker/transport/actor_scheduling_queue.{h,cc})    *)
(* and the callbacks that CoreWorkerDirectTaskReceiver::HandleTask puts in *)
(* it. Requests may arrive in any order; they are handed to the executor   *)
(* in the order of their sequence numbers.                                 *)
(*                                                                         *)
(* A request is a record with at least the fields seq_no,                  *)
(* client_processed_up_to, dependencies (it has plasma arguments to wait   *)
(* for) and skip_execution.                                                *)
(***************************************************************************)
EXTENDS Integers, FiniteSets

CONSTANT Requests    \* every request the caller may send to this process

ASSUME RequestsAssumption ==
    \A m \in Requests : /\ m.seq_no \in Nat
                        /\ m.client_processed_up_to \in Nat \cup {-1}
                        /\ m.dependencies \in BOOLEAN
                        /\ m.skip_execution \in BOOLEAN

VARIABLES
    next_seq_no,     \* next_seq_no_
    pending,         \* pending_actor_tasks_: sequence number -> InboundRequest
    executing,       \* requests accepted and handed to the executor
    timed_out,       \* wait_timer_ has expired, its handler is yet to run
    replies,         \* replies sent to the caller: <<request, status>>
    received,        \* history: the requests received so far
    superseded,      \* history: pending requests overwritten by a resend
    executed,        \* history: the sequence numbers whose task was started
    gave_up          \* history: some sequence number was skipped over

queueVars == <<next_seq_no, pending, executing, timed_out, replies, received,
               superseded, executed, gave_up>>

Statuses == {"OK", "Invalid"}

QueueTypeOK ==
    /\ next_seq_no \in Nat
    /\ DOMAIN pending \subseteq Nat
    /\ pending = [s \in DOMAIN pending |-> pending[s]]
    /\ \A s \in DOMAIN pending :
          /\ pending[s] \in [request : Requests, can_execute : BOOLEAN]
          /\ pending[s].request.seq_no = s
    /\ executing \subseteq Requests
    /\ timed_out \in BOOLEAN
    /\ replies \subseteq Requests \X Statuses
    /\ received \subseteq Requests
    /\ superseded \subseteq received
    /\ executed \subseteq Nat
    /\ gave_up \in BOOLEAN

QueueInit ==
    /\ next_seq_no = 0
    /\ pending = [s \in {} |-> {}]
    /\ executing = {}
    /\ timed_out = FALSE
    /\ replies = {}
    /\ received = {}
    /\ superseded = {}
    /\ executed = {}
    /\ gave_up = FALSE

----------------------------------------------------------------------------
InboundRequest(m) == [request |-> m, can_execute |-> ~m.dependencies]
MarkDependenciesSatisfied(r) == [r EXCEPT !.can_execute = TRUE]

CanExecute(pend, s) == s \in DOMAIN pend /\ pend[s].can_execute

\* The requests with the numbers in S.
Inbound(pend, S) == {pend[s].request : s \in S \cap DOMAIN pend}

\* ScheduleRequests on the requests pend with next_seq_no_ = next: cancel the
\* stale requests (reject_request: the reply is Invalid), then accept the
\* consecutive ones, up to a number n that is missing or cannot execute yet.
\* Accepting a request with skip_execution answers it at once.
ScheduleRequests(pend, next) ==
    \E n \in next .. next + Cardinality(DOMAIN pend) :
        LET accepted == next .. n - 1
            skipped == {m \in Inbound(pend, accepted) : m.skip_execution}
            started == Inbound(pend, accepted) \ skipped
            stale == {s \in DOMAIN pend : s < next}
        IN  /\ \A k \in accepted : CanExecute(pend, k)
            /\ ~CanExecute(pend, n)
            /\ next_seq_no' = n
            /\ pending' = [s \in DOMAIN pend \ (stale \cup accepted) |-> pend[s]]
            /\ executing' = executing \cup started
            /\ executed' = executed \cup {m.seq_no : m \in started}
            /\ replies' = replies \cup (skipped \X {"OK"})
                                  \cup (Inbound(pend, stale) \X {"Invalid"})

\* pending_actor_tasks_[seq_no] = InboundRequest(...)
Enqueue(m) ==
    [s \in DOMAIN pending \cup {m.seq_no} |->
        IF s = m.seq_no THEN InboundRequest(m) ELSE pending[s]]

\* A caller that has the replies up to client_processed_up_to does not wait
\* for the requests before that to be executed.
ClientSkips_Rewind(m) ==
    IF m.seq_no < next_seq_no THEN m.seq_no ELSE next_seq_no

ClientSkips(m) ==
    IF m.client_processed_up_to >= next_seq_no THEN m.client_processed_up_to + 1
                                               ELSE next_seq_no

\* HandleTask for an actor task, down to ActorSchedulingQueue::Add.
Add(m) ==
    /\ m \in Requests \ received
    /\ received' = received \cup {m}
    /\ superseded' = superseded \cup Inbound(pending, {m.seq_no})
    /\ gave_up' = (gave_up \/ m.client_processed_up_to >= next_seq_no)
    /\ ScheduleRequests(Enqueue(m), ClientSkips(m))
    /\ UNCHANGED timed_out

\* The callback given to DependencyWaiter::Wait: the plasma arguments of the
\* request with number s are local.
OnWaitComplete(s) ==
    /\ s \in DOMAIN pending
    /\ ~pending[s].can_execute
    /\ ScheduleRequests([pending EXCEPT ![s] = MarkDependenciesSatisfied(@)],
                        next_seq_no)
    /\ UNCHANGED <<timed_out, received, superseded, gave_up>>

\* wait_timer_ runs when the first queued request waits for nothing but an
\* earlier request to arrive.
WaitTimerArmed_Inverted ==
    \E s \in DOMAIN pending :
        ~pending[s].can_execute /\ \A t \in DOMAIN pending : s <= t

WaitTimerArmed ==
    \E s \in DOMAIN pending :
        pending[s].can_execute /\ \A t \in DOMAIN pending : s <= t

\* The deadline passes and the handler is posted to the event loop.
TimerExpires ==
    /\ WaitTimerArmed /\ ~timed_out
    /\ timed_out' = TRUE
    /\ UNCHANGED <<next_seq_no, pending, executing, replies, received, superseded,
                   executed, gave_up>>

\* All queued requests are cancelled, and the queue goes on after the last one.
\* A handler once posted runs, also when ScheduleRequests has cancelled the timer
\* or set it again since: it cancels whatever is queued by then.
OnSequencingWaitTimeout_ReadyOnly ==
    /\ timed_out /\ timed_out' = FALSE
    /\ \E n \in {next_seq_no} \cup {s + 1 : s \in DOMAIN pending} :
          /\ n >= next_seq_no /\ \A s \in DOMAIN pending : s < n
          /\ next_seq_no' = n
    /\ replies' = replies \cup
          ({pending[s].request : s \in {k \in DOMAIN pending : pending[k].can_execute}}
              \X {"Invalid"})
    /\ pending' = [s \in {} |-> {}]
    /\ gave_up' = TRUE
    /\ UNCHANGED <<executing, received, superseded, executed>>

OnSequencingWaitTimeout ==
    /\ timed_out /\ timed_out' = FALSE
    /\ \E n \in {next_seq_no} \cup {s + 1 : s \in DOMAIN pending} :
          /\ n >= next_seq_no /\ \A s \in DOMAIN pending : s < n
          /\ next_seq_no' = n
    /\ replies' = replies \cup (Inbound(pending, DOMAIN pending) \X {"Invalid"})
    /\ pending' = [s \in {} |-> {}]
    /\ gave_up' = TRUE
    /\ UNCHANGED <<executing, received, superseded, executed>>

\* The executor (the main thread, a thread pool or fibers) finishes a task
\* and send_reply_callback is called.
Finish(m) ==
    /\ m \in executing
    /\ executing' = executing \ {m}
    /\ replies' = replies \cup {<<m, "OK">>}
    /\ UNCHANGED <<next_seq_no, pending, timed_out, received, superseded, executed,
                   gave_up>>

QueueNext ==
    \/ \E m \in Requests : Add(m)
    \/ \E s \in DOMAIN pending : OnWaitComplete(s)
    \/ TimerExpires
    \/ OnSequencingWaitTimeout
    \/ \E m \in executing : Finish(m)

QueueSpec == QueueInit /\ [][QueueNext]_queueVars

\* Plasma arguments are pulled, timers fire and tasks return.
FairQueueSpec ==
    /\ QueueSpec
    /\ \A s \in {m.seq_no : m \in Requests} : WF_queueVars(OnWaitComplete(s))
    /\ WF_queueVars(TimerExpires) /\ WF_queueVars(OnSequencingWaitTimeout)
    /\ \A m \in Requests : WF_queueVars(Finish(m))

----------------------------------------------------------------------------
\* Requests arrive in any order, twice, late, with and without arguments to
\* wait for: a task that starts has a higher sequence number than every task
\* started before, so tasks start in order and none starts twice.
StartsInOrder ==
    [][\A m \in executing' \ executing, s \in executed : s < m.seq_no]_queueVars

\* A resent request may meet the original, executing or done: the original is
\* never executed again, so one sequence number has one executing request.
NoDoubleExecution ==
    /\ executed \subseteq 0 .. next_seq_no - 1
    /\ \A m, n \in executing : m.seq_no = n.seq_no => m = n

\* Unless the queue gave up waiting, everything before next_seq_no_ was
\* received, and what was not marked to be skipped was executed.
NothingSkipped ==
    ~gave_up =>
        \A s \in 0 .. next_seq_no - 1 :
            s \in executed \/ \E m \in received : m.seq_no = s /\ m.skip_execution

\* Every request is in exactly one place: waiting, executing, answered (once),
\* or overwritten by a resend of it, the one case in which no reply is sent.
Answered == {r[1] : r \in replies}
Waiting == Inbound(pending, DOMAIN pending)

OneReplyPerRequest ==
    /\ received = Waiting \cup executing \cup Answered \cup superseded
    /\ Waiting \cap (executing \cup Answered \cup superseded) = {}
    /\ executing \cap (Answered \cup superseded) = {}
    /\ Answered \cap superseded = {}
    /\ \A q, r \in replies : q[1] = r[1] => q = r

\* No request waits behind one that never comes: everything received is
\* answered or overwritten.
EveryRequestAnswered ==
    \A m \in Requests :
        m \in received ~> m \in superseded \cup Answered

============================================================================
