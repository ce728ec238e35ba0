--------------------- MODULE SequentialActorSubmitQueue ---------------------
(***************************************************************************)
(* The per-actor queue of a caller                                         *)
(* (src/ray/core_worker/transport/sequential_actor_submit_queue.{h,cc}) as *)
(* operators on its state. A task is represented by its actor counter,     *)
(* which is also its position in the queue; a retry keeps the counter.     *)
(***************************************************************************)
EXTENDS Integers, FiniteSets

\* requests: position -> are the task's dependencies resolved.
NewQueue ==
    [requests |-> [c \in {} |-> FALSE], next_send_position |-> 0,
     next_task_reply_position |-> 0, caller_starts_at |-> 0,
     out_of_order_completed_tasks |-> {}]

Emplace(q, c) ==
    [q EXCEPT !.requests = [d \in DOMAIN q.requests \cup {c} |->
                               IF d = c THEN FALSE ELSE q.requests[d]]]

Erase(q, S) ==
    [q EXCEPT !.requests = [d \in DOMAIN q.requests \ S |-> q.requests[d]]]

MarkDependencyFailed(q, c) == Erase(q, {c})

MarkDependencyResolved(q, c) == [q EXCEPT !.requests[c] = TRUE]

ClearAllTasks(q) == Erase(q, DOMAIN q.requests)

\* next_send_position when c is the head of the queue in a loop of
\* PopNextTaskToSend: every pop advances it, also the pop of a resent task.
SendPosition(q, c) ==
    q.next_send_position + Cardinality({d \in DOMAIN q.requests : d < c})

\* The tasks that a loop of PopNextTaskToSend pops: heads of the queue, while
\* the head is resolved and not beyond next_send_position.
Sendable(q) ==
    {c \in DOMAIN q.requests :
        \A d \in DOMAIN q.requests :
            d <= c => q.requests[d] /\ d <= SendPosition(q, d)}

\* The second component of the pair PopNextTaskToSend returns.
SkipQueue(q, c) == c < SendPosition(q, c)

PopSendable(q) ==
    [Erase(q, Sendable(q)) EXCEPT !.next_send_position = @ + Cardinality(Sendable(q))]

PopAllOutOfOrderCompletedTasks(q) == [q EXCEPT !.out_of_order_completed_tasks = {}]

OnClientConnected(q) == [q EXCEPT !.caller_starts_at = q.next_task_reply_position]

GetSequenceNumber(q, c) == c - q.caller_starts_at

\* MarkTaskCompleted for each task of S (the order does not matter): the reply
\* position moves over the completed tasks that follow on from it. A completed
\* task below the reply position would stop it for ever.
MarkTasksCompleted(q, S) ==
    LET done == q.out_of_order_completed_tasks \cup S
        next == q.next_task_reply_position
        first == IF \E d \in done : d < next THEN next
                 ELSE CHOOSE n \in {next} \cup {d + 1 : d \in done} :
                          n \notin done /\ next .. n - 1 \subseteq done
    IN  [q EXCEPT !.next_task_reply_position = first,
                  !.out_of_order_completed_tasks = done \ (next .. first - 1)]

=============================================================================
