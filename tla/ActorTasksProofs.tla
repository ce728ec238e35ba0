-------------------------- MODULE ActorTasksProofs --------------------------
(***************************************************************************)
(* Where the tasks of a caller are, for every number of tasks, retries,    *)
(* restarts, lost requests and repeated notifications; then what the       *)
(* client's send queue and the actor's process do with a request, which    *)
(* ActorOrderProofs builds on.                                             *)
(***************************************************************************)
EXTENDS ActorTasks, WellFoundedInduction, TLAPS

\* Results of a task: of one that is not there yet, that may still run, that is settled.
Results == {"none", "pending", "OK", "failed", "waiting_death_info"}
SettledResults == {"OK", "failed", "waiting_death_info"}

\* The record of the queue and the ranges of its positions.
QueueOK(q) ==
    /\ q = [requests |-> q.requests, next_send_position |-> q.next_send_position,
            next_task_reply_position |-> q.next_task_reply_position,
            caller_starts_at |-> q.caller_starts_at,
            out_of_order_completed_tasks |-> q.out_of_order_completed_tasks]
    /\ DOMAIN q.requests \subseteq Tasks
    /\ q.next_task_reply_position \in Nat /\ q.caller_starts_at \in Nat
    /\ q.next_task_reply_position <= MaxTasks
    /\ q.out_of_order_completed_tasks \subseteq Tasks

\* Nothing but the requests and the send position differs.
SamePositions(r, q) ==
    /\ r.next_task_reply_position = q.next_task_reply_position
    /\ r.caller_starts_at = q.caller_starts_at
    /\ r.out_of_order_completed_tasks = q.out_of_order_completed_tasks

----------------------------------------------------------------------------
\* The operations of the queue

\* The queue of a new handle.
LEMMA NewQueueOK ==
  /\ QueueOK(NewQueue) /\ DOMAIN NewQueue.requests = {}
  /\ NewQueue.out_of_order_completed_tasks = {} /\ NewQueue.next_task_reply_position = 0
  /\ NewQueue.caller_starts_at = 0
  BY ActorTasksAssumption DEF NewQueue, QueueOK

\* emplace adds one task to the queue and moves no position.
LEMMA EmplaceEffect ==
  ASSUME NEW q, QueueOK(q), NEW c \in Tasks
  PROVE  /\ QueueOK(Emplace(q, c)) /\ SamePositions(Emplace(q, c), q)
         /\ DOMAIN Emplace(q, c).requests = DOMAIN q.requests \cup {c}
<1> DEFINE f == [d \in DOMAIN q.requests \cup {c} |-> IF d = c THEN FALSE ELSE q.requests[d]]
<1>1. Emplace(q, c) = [q EXCEPT !.requests = f]
  BY DEF Emplace
<1>2. DOMAIN f = DOMAIN q.requests \cup {c}
  OBVIOUS
<1> HIDE DEF f
<1> QED
  BY <1>1, <1>2 DEF QueueOK, SamePositions

\* Erasing tasks moves no position.
LEMMA EraseEffect ==
  ASSUME NEW q, QueueOK(q), NEW S
  PROVE  /\ QueueOK(Erase(q, S)) /\ SamePositions(Erase(q, S), q)
         /\ DOMAIN Erase(q, S).requests = DOMAIN q.requests \ S
  BY DEF Erase, QueueOK, SamePositions

\* Marking a dependency resolved keeps the tasks and the positions.
LEMMA ResolvedEffect ==
  ASSUME NEW q, QueueOK(q), NEW c
  PROVE  /\ QueueOK(MarkDependencyResolved(q, c)) /\ SamePositions(MarkDependencyResolved(q, c), q)
         /\ DOMAIN MarkDependencyResolved(q, c).requests = DOMAIN q.requests
<1> DEFINE f == [q.requests EXCEPT ![c] = TRUE]
<1>1. MarkDependencyResolved(q, c) = [q EXCEPT !.requests = f]
  BY DEF MarkDependencyResolved
<1>2. DOMAIN f = DOMAIN q.requests
  OBVIOUS
<1> HIDE DEF f
<1> QED
  BY <1>1, <1>2 DEF QueueOK, SamePositions

\* A loop of PopNextTaskToSend takes tasks out of the queue and moves only
\* next_send_position.
LEMMA PopEffect ==
  ASSUME NEW q, QueueOK(q)
  PROVE  /\ QueueOK(PopSendable(q)) /\ SamePositions(PopSendable(q), q)
         /\ DOMAIN PopSendable(q).requests = DOMAIN q.requests \ Sendable(q)
         /\ Sendable(q) \subseteq DOMAIN q.requests
<1>1. /\ QueueOK(Erase(q, Sendable(q))) /\ SamePositions(Erase(q, Sendable(q)), q)
      /\ DOMAIN Erase(q, Sendable(q)).requests = DOMAIN q.requests \ Sendable(q)
  BY EraseEffect
<1>2. Sendable(q) \subseteq DOMAIN q.requests
  BY DEF Sendable
<1> DEFINE r == Erase(q, Sendable(q))
           n == r.next_send_position + Cardinality(Sendable(q))
<1>3. PopSendable(q) = [r EXCEPT !.next_send_position = n]
  BY DEF PopSendable
<1> HIDE DEF r, n
<1> QED
  BY <1>1, <1>2, <1>3 DEF QueueOK, SamePositions, r

\* The positions after MarkTasksCompleted: what is completed and in a row is
\* passed, the rest is kept.
Marks(q, S, r) ==
    LET done == q.out_of_order_completed_tasks \cup S
        next == q.next_task_reply_position
        first == r.next_task_reply_position
    IN  /\ QueueOK(r) /\ r.requests = q.requests /\ r.caller_starts_at = q.caller_starts_at
        /\ first >= next /\ first \notin done
        /\ \A c \in Tasks : next <= c /\ c < first => c \in done
        /\ r.out_of_order_completed_tasks = {c \in done : c > first}

\* Among numbers below a bound, one follows on from next and is the first that is not
\* in the set.
LEMMA FirstGap ==
  ASSUME NEW next \in Nat, NEW max \in Nat, next <= max, NEW done,
         done \subseteq 0 .. max - 1
  PROVE  \E n \in {next} \cup {d + 1 : d \in done} :
            n \notin done /\ next .. n - 1 \subseteq done
<1> DEFINE R == {ss \in Nat \X Nat : ss[1] < ss[2]}
           T == {n \in Nat : n >= next /\ n \notin done}
<1>1. IsWellFoundedOn(R, Nat)
  BY NatLessThanWellFounded DEF OpToRel
<1>2. max \in T
  OBVIOUS
<1>3. PICK n \in T : \A m \in T : ~(<<m, n>> \in R)
  BY <1>1, <1>2, WFMin, Zenon
<1>4. \A m \in T : ~(m < n)
  BY <1>3, Zenon
<1>5. next .. n - 1 \subseteq done
  BY <1>4
<1>6. n # next => n - 1 \in done /\ n = (n - 1) + 1
  BY <1>5
<1> QED
  BY <1>5, <1>6

\* MarkTaskCompleted moves the reply position over completed tasks only.
LEMMA MarkEffect ==
  ASSUME NEW q, QueueOK(q), NEW S \in SUBSET Tasks,
         \A c \in q.out_of_order_completed_tasks \cup S : c >= q.next_task_reply_position
  PROVE  Marks(q, S, MarkTasksCompleted(q, S))
<1> DEFINE done == q.out_of_order_completed_tasks \cup S
           next == q.next_task_reply_position
           Gap(n) == n \notin done /\ next .. n - 1 \subseteq done
           first == CHOOSE n \in {next} \cup {d + 1 : d \in done} : Gap(n)
           kept == done \ (next .. first - 1)
<1>1. next \in Nat /\ done \in SUBSET Tasks /\ Tasks \subseteq Nat /\ \A d \in done : ~(d < next)
  BY ActorTasksAssumption DEF QueueOK, Tasks
<1>2. MaxTasks \in Nat /\ next <= MaxTasks /\ done \subseteq 0 .. MaxTasks - 1
  BY <1>1, ActorTasksAssumption DEF QueueOK, Tasks
<1>3. \E n \in {next} \cup {d + 1 : d \in done} : Gap(n)
  <2> HIDE DEF done, next
  <2> QED
    BY <1>1, <1>2, FirstGap, Zenon
<1>4. first \in {next} \cup {d + 1 : d \in done} /\ Gap(first)
  BY <1>3
<1>5. MarkTasksCompleted(q, S) =
         [q EXCEPT !.next_task_reply_position = first, !.out_of_order_completed_tasks = kept]
  BY <1>1, Zenon DEF MarkTasksCompleted
<1> HIDE DEF first
<1>6. first \in Nat /\ first >= next /\ first <= MaxTasks
  <2>1. first \in Nat /\ first >= next
    BY <1>1, <1>2, <1>4
  <2>2. CASE first = next
    BY <2>1, <2>2 DEF QueueOK
  <2>3. CASE first # next
    <3>1. first - 1 \in next .. first - 1
      BY <1>1, <2>1, <2>3
    <3>2. first - 1 \in Tasks
      BY <1>1, <1>4, <3>1
    <3> QED
      BY <2>1, <3>2, ActorTasksAssumption DEF Tasks
  <2> QED
    BY <2>1, <2>2, <2>3
<1>7. first \notin done /\ \A c \in Tasks : next <= c /\ c < first => c \in done
  BY <1>1, <1>4, <1>6
<1> HIDE DEF done
<1>8. kept = {c \in done : c > first}
  <2>1. ASSUME NEW c \in done PROVE c \in next .. first - 1 <=> ~(c > first)
    <3>1. c \in Nat /\ ~(c < next) /\ c # first
      BY <1>1, <1>7, Zenon
    <3> QED
      BY <1>1, <1>6, <3>1
  <2> QED
    BY <2>1
<1> HIDE DEF kept
<1>9. /\ QueueOK(MarkTasksCompleted(q, S))
      /\ MarkTasksCompleted(q, S).requests = q.requests
      /\ MarkTasksCompleted(q, S).caller_starts_at = q.caller_starts_at
      /\ MarkTasksCompleted(q, S).next_task_reply_position = first
      /\ MarkTasksCompleted(q, S).out_of_order_completed_tasks = kept
  BY <1>1, <1>5, <1>6, <1>8, Zenon DEF QueueOK
<1> QED
  BY <1>6, <1>7, <1>8, <1>9 DEF Marks, done

----------------------------------------------------------------------------
\* The places of tasks, as sets: P and Z are the pending and the settled tasks, Q,
\* U, T and F those that are queued, pushed, to be resubmitted and to be failed, R
\* those resent for their sequence number, D those completed out of order. next
\* and start are positions, k is the number of tasks submitted.
Places(P, Z, Q, U, R, T, F, D, next, start, k) ==
    /\ P = Q \cup U \cup T \cup F
    /\ Q \cap U = {} /\ Q \cap T = {} /\ Q \cap F = {}
    /\ U \cap T = {} /\ U \cap F = {} /\ T \cap F = {}
    /\ P \cap Z = {} /\ D \subseteq Z /\ R \subseteq Z /\ D \cap R = {}
    /\ \A c \in Tasks : c < next => c \in Z
    /\ \A c \in D : c > next
    /\ \A c \in R : c >= next
    /\ \A c \in P \cup Z : c < k
    /\ start <= next

\* Every settled task has been counted as completed, or will be.
Accounted(Z, R, D, next) == \A c \in Z : c < next \/ c \in D \/ c \in R

\* The callbacks of the tasks all are taken; real are pending, of them retried are
\* tried again, and first is the reply position afterwards.
Taken(P, Z, Q, U, R, T, F, D, next, start, k, all, real, retried, first) ==
    /\ P \subseteq Tasks /\ Z \subseteq Tasks
    /\ next \in Nat /\ start \in Nat /\ k \in Nat /\ first \in Nat
    /\ Places(P, Z, Q, U, R, T, F, D, next, start, k)
    /\ real \subseteq U \cup F /\ retried \subseteq real
    /\ real \subseteq all /\ all \ real \subseteq R
    /\ first >= next /\ first \notin D \cup (all \ retried)
    /\ \A c \in Tasks : next <= c /\ c < first => c \in D \cup (all \ retried)

\* Places after the callbacks of the tasks all ran: real were pushed to be executed,
\* retried of them are resubmitted, and the reply position moved to first.
AfterTaken(P, Z, Q, U, R, T, F, D, next, start, k, all, real, retried, first) ==
    LET P2 == P \ (real \ retried)
        Z2 == Z \cup (real \ retried)
        R2 == R \ (all \ real)
        D2 == {c \in D \cup (all \ retried) : c > first}
    IN  /\ Places(P2, Z2, Q, U \ real, R2, T \cup retried, F \ real, D2, first, start, k)
        /\ Accounted(Z, R, D, next) => Accounted(Z2, R2, D2, first)

\* Running callbacks takes every task from one place to one other.
LEMMA RepliesPlaces ==
  ASSUME NEW P, NEW Z, NEW Q, NEW U, NEW R, NEW T, NEW F, NEW D, NEW next, NEW start, NEW k,
         NEW all, NEW real, NEW retried, NEW first,
         Taken(P, Z, Q, U, R, T, F, D, next, start, k, all, real, retried, first)
  PROVE  AfterTaken(P, Z, Q, U, R, T, F, D, next, start, k, all, real, retried, first)
<1> USE DEF Taken
<1> DEFINE done == D \cup (all \ retried)
           P2 == P \ (real \ retried)
           Z2 == Z \cup (real \ retried)
           R2 == R \ (all \ real)
           D2 == {c \in done : c > first}
<1>0. Tasks \subseteq Nat
  BY ActorTasksAssumption DEF Tasks
<1>1. done \subseteq Z2 /\ Z2 \subseteq Tasks
  BY DEF Places
<1>2. \A c \in Tasks : c < first => c \in Z2
  <2> SUFFICES ASSUME NEW c \in Tasks, c < first PROVE c \in Z2
    OBVIOUS
  <2>1. CASE c < next
    BY <2>1 DEF Places
  <2>2. CASE ~(c < next)
    <3>1. next <= c
      BY <1>0, <2>2
    <3> QED
      BY <1>1, <3>1
  <2> QED
    BY <2>1, <2>2
<1>3. ASSUME NEW c \in R2 PROVE c >= first /\ c \notin done
  <2>1. c \in Z /\ c \notin P /\ c \notin D /\ c >= next /\ c \in Tasks
    BY DEF Places
  <2>2. c \notin all \/ c \in real
    OBVIOUS
  <2>3. real \subseteq P
    BY DEF Places
  <2>4. c \notin done
    BY <2>1, <2>2, <2>3
  <2>5. ~(next <= c /\ c < first)
    BY <2>1, <2>4
  <2> QED
    BY <1>0, <2>1, <2>4, <2>5
<1>4. P2 \cap Z2 = {} /\ P2 = Q \cup (U \ real) \cup (T \cup retried) \cup (F \ real)
  BY DEF Places
<1>5. /\ Q \cap (T \cup retried) = {} /\ (U \ real) \cap (T \cup retried) = {}
      /\ (T \cup retried) \cap (F \ real) = {}
  BY DEF Places
<1>6. D2 \subseteq Z2 /\ R2 \subseteq Z2 /\ D2 \cap R2 = {} /\ \A c \in R2 : c >= first
  BY <1>1, <1>3 DEF Places
<1>7. start <= first /\ \A c \in P2 \cup Z2 : c < k
  BY DEF Places
<1>8. Places(P2, Z2, Q, U \ real, R2, T \cup retried, F \ real, D2, first, start, k)
  BY <1>2, <1>4, <1>5, <1>6, <1>7 DEF Places
<1>9. ASSUME Accounted(Z, R, D, next), NEW c \in Z2 PROVE c < first \/ c \in D2 \/ c \in R2
  <2>1. c < next \/ c \in done \/ c \in R2
    BY <1>9 DEF Accounted
  <2>2. c < next => c < first
    BY <1>0, <1>1
  <2>3. c \in done => c < first \/ c \in D2
    BY <1>0, <1>1
  <2> QED
    BY <2>1, <2>2, <2>3
<1> QED
  BY <1>8, <1>9 DEF Accounted, AfterTaken

\* The tasks of a kind of result.
PendingIn(res) == {c \in Tasks : res[c] = "pending"}
SettledIn(res) == {c \in Tasks : res[c] \in SettledResults}

\* Places with the positions of queue q, the results res and the callbacks given by
\* the pushed and the resent tasks.
PlacesOf(q, res, U, R, T, F) ==
    Places(PendingIn(res), SettledIn(res), DOMAIN q.requests, U, R, T, F,
           q.out_of_order_completed_tasks, q.next_task_reply_position,
           q.caller_starts_at, task_counter)

\* Accounted, with the positions of queue q.
AccountedOf(q, res, R) ==
    Accounted(SettledIn(res), R, q.out_of_order_completed_tasks, q.next_task_reply_position)

\* The tasks of the callbacks S, and those of them that were pushed to be executed.
TasksIn(S) == {m.task : m \in S}
RealIn(S) == {m.task : m \in {x \in S : ~x.skip_execution}}

\* HandlePushTaskReplies settles or retries the tasks of its callbacks.
LEMMA RepliesEffect ==
  ASSUME NEW q, QueueOK(q), NEW S, NEW status, NEW st, NEW res \in [Tasks -> Results],
         NEW U, NEW R, NEW F, task_counter \in Nat,
         PlacesOf(q, res, U, R, to_resubmit, F),
         RealIn(S) \subseteq U \cup F, TasksIn(S) \ RealIn(S) \subseteq R,
         HandlePushTaskReplies(q, S, status, st, res)
  PROVE  LET real == RealIn(S)
             R2 == R \ (TasksIn(S) \ real)
             P2 == PendingIn(result)'
             Z2 == SettledIn(result)'
         IN  /\ QueueOK(queue)' /\ result' \in [Tasks -> Results]
             /\ queue'.requests = q.requests
             /\ Places(P2, Z2, DOMAIN queue'.requests, U \ real, R2, to_resubmit', F \ real,
                       queue'.out_of_order_completed_tasks, queue'.next_task_reply_position,
                       queue'.caller_starts_at, task_counter)
             /\ AccountedOf(q, res, R) =>
                  Accounted(Z2, R2, queue'.out_of_order_completed_tasks,
                            queue'.next_task_reply_position)
<1> DEFINE all == TasksIn(S)
           real == RealIn(S)
           retried == IF status = "OK" THEN {} ELSE {c \in real : retries_left[c] > 0}
           final == CASE status = "OK" -> "OK"
                      [] status # "OK" /\ st = "DEAD" -> "failed"
                      [] OTHER -> "waiting_death_info"
           P == PendingIn(res)
           Z == SettledIn(res)
           D == q.out_of_order_completed_tasks
           next == q.next_task_reply_position
           start == q.caller_starts_at
<1>1. /\ result' = [c \in Tasks |-> IF c \in real \ retried THEN final ELSE res[c]]
      /\ to_resubmit' = to_resubmit \cup retried
      /\ queue' = MarkTasksCompleted(q, all \ retried)
  BY Zenon DEF HandlePushTaskReplies, CompletedBy, TasksIn, RealIn
<1>2. real \subseteq all /\ retried \subseteq real
  BY DEF TasksIn, RealIn
<1>3. final \in SettledResults
  BY DEF SettledResults
<1> HIDE DEF all, real, retried, final
<1>4. /\ P \in SUBSET Tasks /\ Z \in SUBSET Tasks /\ next \in Nat /\ start \in Nat
      /\ real \subseteq U \cup F /\ all \ real \subseteq R /\ Tasks \subseteq Nat
  BY ActorTasksAssumption DEF PendingIn, SettledIn, QueueOK, all, real, Tasks
<1> HIDE DEF P, Z
<1>5. Places(P, Z, DOMAIN q.requests, U, R, to_resubmit, F, D, next, start, task_counter)
  BY DEF PlacesOf, P, Z
<1>6. real \subseteq P /\ all \subseteq P \cup Z
  BY <1>2, <1>4, <1>5, Zenon DEF Places
<1>7. \A c \in D \cup (all \ retried) : c >= next
  <2> SUFFICES ASSUME NEW c \in D \cup (all \ retried) PROVE c >= next
    OBVIOUS
  <2>1. c \in Tasks /\ c \in Nat
    BY <1>4, <1>5, <1>6, Zenon DEF Places
  <2>2. CASE c \in D \cup R
    BY <1>4, <1>5, <2>1, <2>2 DEF Places
  <2>3. CASE c \in real
    <3>1. c \notin Z
      BY <1>5, <1>6, <2>3, Zenon DEF Places
    <3>2. ~(c < next)
      BY <1>5, <2>1, <3>1, Zenon DEF Places
    <3> QED
      BY <1>4, <2>1, <3>2
  <2> QED
    BY <1>4, <2>2, <2>3, Zenon
<1>8. Marks(q, all \ retried, queue')
  <2>1. all \ retried \in SUBSET Tasks
    BY <1>4, <1>6, Zenon
  <2> QED
    BY <1>1, <1>7, <2>1, MarkEffect
<1>9. result' \in [Tasks -> Results] /\ P \ (real \ retried) = PendingIn(result)'
      /\ Z \cup (real \ retried) = SettledIn(result)'
  <2>1. real \ retried \subseteq Tasks
    BY <1>4, <1>6, Zenon
  <2> QED
    BY <1>1, <1>3, <2>1 DEF PendingIn, SettledIn, P, Z, Results, SettledResults
<1> DEFINE first == queue'.next_task_reply_position
           D2 == {c \in D \cup (all \ retried) : c > first}
<1>10. /\ queue'.out_of_order_completed_tasks = D2 /\ queue'.caller_starts_at = start
       /\ queue'.requests = q.requests /\ QueueOK(queue)' /\ first \in Nat
       /\ first >= next /\ first \notin D \cup (all \ retried)
       /\ \A c \in Tasks : next <= c /\ c < first => c \in D \cup (all \ retried)
  BY <1>8, Zenon DEF Marks, QueueOK
<1> HIDE DEF first, D, next, start
<1> DEFINE Q == DOMAIN q.requests
<1> HIDE DEF Q
<1>11. Taken(P, Z, Q, U, R, to_resubmit, F, D, next, start, task_counter, all, real, retried,
             first)
  BY <1>2, <1>4, <1>5, <1>10 DEF Q, Taken
<1>12. AfterTaken(P, Z, Q, U, R, to_resubmit, F, D, next, start, task_counter, all, real,
                  retried, first)
  BY <1>11, RepliesPlaces, Zenon
<1>13. /\ Places(P \ (real \ retried), Z \cup (real \ retried), Q, U \ real,
                 R \ (all \ real), to_resubmit \cup retried, F \ real, D2, first, start,
                 task_counter)
       /\ Accounted(Z, R, D, next) =>
             Accounted(Z \cup (real \ retried), R \ (all \ real), D2, first)
  BY <1>12 DEF AfterTaken
<1> HIDE DEF D2
<1> QED
  BY <1>1, <1>9, <1>10, <1>13, Zenon DEF AccountedOf, all, real, P, Z, first, D, next, start, Q

----------------------------------------------------------------------------
\* The inductive invariant

\* The tasks whose callback is for a push to be executed, and for a resend.
PushedIn(f) == {c \in DOMAIN f : ~f[c].skip_execution}
ResentIn(f) == {c \in DOMAIN f : f[c].skip_execution}

\* Callbacks are registered under the task they are for.
InflightOK(f) ==
    /\ DOMAIN f \subseteq Tasks
    /\ \A c \in DOMAIN f : f[c].task = c /\ f[c].skip_execution \in BOOLEAN

\* The inductive invariant: the ranges, the place of every task and, while no
\* dependency fails and the actor is not dead, where every settled task is counted.
IInv ==
    /\ QueueOK(queue) /\ result \in [Tasks -> Results] /\ task_counter \in Nat
    /\ InflightOK(inflight) /\ (rpc_client = None => DOMAIN inflight = {})
    /\ PlacesOf(queue, result, PushedIn(inflight), ResentIn(inflight), to_resubmit, force_fail)
    /\ (state # "DEAD" /\ ~DepsMayFail) => AccountedOf(queue, result, ResentIn(inflight))

\* It holds before anything is submitted.
LEMMA InvInit == Init => IInv
<1> SUFFICES ASSUME Init PROVE IInv
  OBVIOUS
<1>1. /\ task_counter = 0 /\ result = [c \in Tasks |-> "none"] /\ to_resubmit = {}
      /\ queue = NewQueue /\ inflight = [c \in {} |-> {}] /\ force_fail = {}
  BY DEF Init
<1>2. DOMAIN inflight = {} /\ PushedIn(inflight) = {} /\ ResentIn(inflight) = {}
  BY <1>1 DEF PushedIn, ResentIn
<1>3. PendingIn(result) = {} /\ SettledIn(result) = {} /\ result \in [Tasks -> Results]
  BY <1>1 DEF PendingIn, SettledIn, Results, SettledResults
<1>4. \A c \in Tasks : ~(c < 0)
  BY ActorTasksAssumption DEF Tasks
<1>5. PlacesOf(queue, result, {}, {}, {}, {})
  BY <1>1, <1>3, <1>4, NewQueueOK DEF PlacesOf, Places
<1>6. AccountedOf(queue, result, {})
  BY <1>3, Zenon DEF AccountedOf, Accounted
<1> QED
  BY <1>1, <1>2, <1>3, <1>5, <1>6, NewQueueOK, Zenon DEF IInv, InflightOK

\* The pushes that resend the tasks D and send the tasks W.
Pushes(q, D, W, inc) ==
    {PushRequest(q, c, inc, TRUE, TRUE) : c \in D}
      \cup {PushRequest(q, c, inc, FALSE, SkipQueue(q, c)) : c \in W}

\* The callbacks after the pushes for D and W, old being kept.
PushNew(q, D, W, inc, old) ==
    /\ DOMAIN old \cap (D \cup W) = {} /\ D \cap W = {}
    /\ PushActorTasks(Pushes(q, D, W, inc), inc, old)

\* What they are: one for every task, the old one first.
Registered(D, W, old, new) ==
    /\ DOMAIN new = DOMAIN old \cup D \cup W
    /\ \A c \in DOMAIN old : new[c] = old[c]
    /\ \A c \in D : new[c].task = c /\ new[c].skip_execution = TRUE
    /\ \A c \in W : new[c].task = c /\ new[c].skip_execution = FALSE

\* The callbacks that PushActorTasks registers, when none is there for these tasks.
LEMMA PushEffect ==
  ASSUME NEW q, NEW D, NEW W, NEW inc, NEW old, PushNew(q, D, W, inc, old)
  PROVE  Registered(D, W, old, inflight')
<1> USE DEF PushNew
<1> DEFINE a(c) == PushRequest(q, c, inc, TRUE, TRUE)
           b(c) == PushRequest(q, c, inc, FALSE, SkipQueue(q, c))
           P == {a(c) : c \in D} \cup {b(c) : c \in W}
           tasks == {m.task : m \in P}
           new == [c \in tasks |-> CHOOSE m \in P : m.task = c]
<1>1. /\ \A c : a(c).task = c /\ a(c).skip_execution = TRUE
      /\ \A c : b(c).task = c /\ b(c).skip_execution = FALSE
  BY Zenon DEF PushRequest
<1>2. inflight' = [c \in DOMAIN old \cup DOMAIN new |-> IF c \in DOMAIN old THEN old[c] ELSE new[c]]
  BY Zenon DEF PushActorTasks, Pushes
<1> HIDE DEF a, b
<1>3. tasks = D \cup W
  BY <1>1
<1>4. ASSUME NEW c \in D PROVE new[c] = a(c)
  <2>1. a(c) \in P /\ \A m \in P : m.task = c => m = a(c)
    BY <1>1
  <2> HIDE DEF P
  <2>2. (CHOOSE m \in P : m.task = c) = a(c)
    BY <1>1, <2>1, Zenon
  <2> QED
    BY <1>3, <2>2
<1>5. ASSUME NEW c \in W PROVE new[c] = b(c)
  <2>1. b(c) \in P /\ \A m \in P : m.task = c => m = b(c)
    BY <1>1
  <2> HIDE DEF P
  <2>2. (CHOOSE m \in P : m.task = c) = b(c)
    BY <1>1, <2>1, Zenon
  <2> QED
    BY <1>3, <2>2
<1>6. DOMAIN new = D \cup W
  BY <1>3, Zenon
<1> HIDE DEF new, tasks, P
<1> QED
  BY <1>1, <1>2, <1>4, <1>5, <1>6 DEF Registered

\* Moves between places that leave the positions alone.
LEMMA PlacesSubmit ==
  ASSUME NEW P, NEW Z, NEW Q, NEW U, NEW R, NEW T, NEW F, NEW D, NEW next, NEW start, NEW k,
         Places(P, Z, Q, U, R, T, F, D, next, start, k),
         NEW c, c \notin P \cup Z \/ c \in T, NEW k2,
         \A d \in P \cup Z : d < k => d < k2, c < k2
  PROVE  /\ Places(P \cup {c}, Z, Q \cup {c}, U, R, T \ {c}, F, D, next, start, k2)
         /\ Places(P \ {c}, Z \cup {c}, Q, U, R, T \ {c}, F, D, next, start, k2)
<1>1. c \notin Z /\ c \notin Q /\ c \notin U /\ c \notin F
  BY Zenon DEF Places
<1>2. Places(P \cup {c}, Z, Q \cup {c}, U, R, T \ {c}, F, D, next, start, k2)
  <2>1. /\ P \cup {c} = Q \cup {c} \cup U \cup (T \ {c}) \cup F
        /\ (Q \cup {c}) \cap U = {} /\ (Q \cup {c}) \cap (T \ {c}) = {}
        /\ (Q \cup {c}) \cap F = {} /\ (P \cup {c}) \cap Z = {}
    BY <1>1, Zenon DEF Places
  <2> QED
    BY <2>1, Zenon DEF Places
<1>3. Places(P \ {c}, Z \cup {c}, Q, U, R, T \ {c}, F, D, next, start, k2)
  <2>1. P \ {c} = Q \cup U \cup (T \ {c}) \cup F /\ (P \ {c}) \cap (Z \cup {c}) = {}
    BY <1>1, Zenon DEF Places
  <2> QED
    BY <2>1 DEF Places
<1> QED
  BY <1>2, <1>3

\* Tasks W leave the queue: to be sent, to be failed, to be resubmitted, or settled.
LEMMA PlacesPop ==
  ASSUME NEW P, NEW Z, NEW Q, NEW U, NEW R, NEW T, NEW F, NEW D, NEW next, NEW start, NEW k,
         Places(P, Z, Q, U, R, T, F, D, next, start, k), NEW W \in SUBSET Q
  PROVE  /\ Places(P, Z, Q \ W, U \cup W, R, T, F, D, next, start, k)
         /\ Places(P, Z, Q \ W, U, R, T, F \cup W, D, next, start, k)
         /\ Places(P, Z, Q \ W, U, R, T \cup W, F, D, next, start, k)
         /\ Places(P \ W, Z \cup W, Q \ W, U, R, T, F, D, next, start, k)
<1>1. /\ P = (Q \ W) \cup (U \cup W) \cup T \cup F
      /\ (Q \ W) \cap (U \cup W) = {} /\ (U \cup W) \cap T = {} /\ (U \cup W) \cap F = {}
  BY DEF Places
<1>2. /\ P = (Q \ W) \cup U \cup T \cup (F \cup W)
      /\ (Q \ W) \cap (F \cup W) = {} /\ U \cap (F \cup W) = {} /\ T \cap (F \cup W) = {}
  BY DEF Places
<1>3. /\ P = (Q \ W) \cup U \cup (T \cup W) \cup F
      /\ (Q \ W) \cap (T \cup W) = {} /\ U \cap (T \cup W) = {} /\ (T \cup W) \cap F = {}
  BY DEF Places
<1>4. /\ P \ W = (Q \ W) \cup U \cup T \cup F /\ (P \ W) \cap (Z \cup W) = {}
      /\ (P \ W) \cup (Z \cup W) \subseteq P \cup Z
  BY DEF Places
<1>5. /\ (Q \ W) \cap U = {} /\ (Q \ W) \cap T = {} /\ (Q \ W) \cap F = {}
  BY Zenon DEF Places
<1>6. Places(P, Z, Q \ W, U \cup W, R, T, F, D, next, start, k)
  BY <1>1, <1>5, Zenon DEF Places
<1>7. Places(P, Z, Q \ W, U, R, T, F \cup W, D, next, start, k)
  BY <1>2, <1>5, Zenon DEF Places
<1>8. Places(P, Z, Q \ W, U, R, T \cup W, F, D, next, start, k)
  BY <1>3, <1>5, Zenon DEF Places
<1>9. Places(P \ W, Z \cup W, Q \ W, U, R, T, F, D, next, start, k)
  BY <1>4, <1>5, Zenon DEF Places
<1> QED
  BY <1>6, <1>7, <1>8, <1>9

\* What was completed out of order is resent, and the sequence numbers start at the
\* reply position.
LEMMA PlacesResend ==
  ASSUME NEW P, NEW Z, NEW Q, NEW U, NEW R, NEW T, NEW F, NEW D \in SUBSET Nat,
         NEW next \in Nat, NEW start, NEW k,
         Places(P, Z, Q, U, R, T, F, D, next, start, k)
  PROVE  Places(P, Z, Q, U, R \cup D, T, F, {}, next, next, k)
<1>1. \A c \in R \cup D : c >= next
  BY DEF Places
<1>2. next <= next /\ {} \cap (R \cup D) = {} /\ R \cup D \subseteq Z
  BY DEF Places
<1> QED
  BY <1>1, <1>2 DEF Places

----------------------------------------------------------------------------
\* Every action keeps the invariant

\* Tasks are numbers.
LEMMA TasksNat == Tasks \subseteq Nat
  BY ActorTasksAssumption DEF Tasks

\* Steps that do not touch the caller.
LEMMA QuietKeeps ==
  ASSUME IInv, UNCHANGED <<task_counter, result, to_resubmit, queue, state, rpc_client,
                           inflight, force_fail>>
  PROVE  IInv'
  BY DEF IInv, PlacesOf, AccountedOf

\* SubmitTask puts the task into the queue, or fails it when the actor is dead.
LEMMA SubmitKeeps ==
  ASSUME IInv, NEW c \in Tasks, SubmitTask(c), to_resubmit' = to_resubmit \ {c},
         \/ c = task_counter /\ task_counter' = task_counter + 1
         \/ c \in to_resubmit /\ task_counter' = task_counter
  PROVE  IInv'
<1> DEFINE P == PendingIn(result)
           Z == SettledIn(result)
           Q == DOMAIN queue.requests
           U == PushedIn(inflight)
           R == ResentIn(inflight)
           D == queue.out_of_order_completed_tasks
           next == queue.next_task_reply_position
           start == queue.caller_starts_at
<1>1. /\ QueueOK(queue) /\ result \in [Tasks -> Results] /\ task_counter \in Nat
      /\ InflightOK(inflight) /\ (rpc_client = None => DOMAIN inflight = {})
      /\ Places(P, Z, Q, U, R, to_resubmit, force_fail, D, next, start, task_counter)
      /\ (state # "DEAD" /\ ~DepsMayFail) => Accounted(Z, R, D, next)
  BY Zenon DEF IInv, PlacesOf, AccountedOf
<1>2. /\ task_counter' \in Nat /\ c < task_counter'
      /\ \A d \in P \cup Z : d < task_counter => d < task_counter'
      /\ c \notin P \cup Z \/ c \in to_resubmit
  <2>1. \A d \in P \cup Z : d \in Nat /\ d < task_counter
    BY <1>1, TasksNat, Zenon DEF Places, PendingIn, SettledIn
  <2>2. c \in to_resubmit => c \in P
    BY <1>1 DEF Places
  <2> HIDE DEF P, Z
  <2> QED
    BY <1>1, <2>1, <2>2
<1>3. /\ Places(P \cup {c}, Z, Q \cup {c}, U, R, to_resubmit', force_fail, D, next, start,
                task_counter')
      /\ Places(P \ {c}, Z \cup {c}, Q, U, R, to_resubmit', force_fail, D, next, start,
                task_counter')
  <2> HIDE DEF P, Z, Q, U, R, D, next, start
  <2> QED
    BY <1>1, <1>2, PlacesSubmit, Zenon
<1>4. UNCHANGED <<state, rpc_client, inflight, force_fail>>
  BY DEF SubmitTask
<1>5. U = PushedIn(inflight)' /\ R = ResentIn(inflight)' /\ InflightOK(inflight)'
  BY <1>1, <1>4, Zenon
<1>6. CASE state # "DEAD"
  <2>1. queue' = Emplace(queue, c) /\ result' = [result EXCEPT ![c] = "pending"]
    BY <1>6, Zenon DEF SubmitTask
  <2>2. /\ QueueOK(queue)' /\ DOMAIN queue'.requests = Q \cup {c}
        /\ queue'.out_of_order_completed_tasks = D /\ queue'.caller_starts_at = start
        /\ queue'.next_task_reply_position = next
    BY <1>1, <2>1, EmplaceEffect, Zenon DEF SamePositions
  <2>3. c \notin Z
    BY <1>1, <1>2, Zenon DEF Places
  <2>4. /\ result' \in [Tasks -> Results]
        /\ PendingIn(result)' = P \cup {c} /\ SettledIn(result)' = Z
    BY <1>1, <2>1, <2>3 DEF PendingIn, SettledIn, Results, SettledResults
  <2> HIDE DEF P, Z, Q, U, R, D, next, start
  <2> QED
    BY <1>1, <1>2, <1>3, <1>4, <1>5, <2>2, <2>4 DEF IInv, PlacesOf, AccountedOf
<1>7. CASE state = "DEAD"
  <2>1. queue' = queue /\ result' = [result EXCEPT ![c] = "failed"]
    BY <1>7, Zenon DEF SubmitTask
  <2>2. /\ result' \in [Tasks -> Results]
        /\ PendingIn(result)' = P \ {c} /\ SettledIn(result)' = Z \cup {c}
    BY <1>1, <2>1 DEF PendingIn, SettledIn, Results, SettledResults
  <2>3. PlacesOf(queue, result, PushedIn(inflight), ResentIn(inflight), to_resubmit, force_fail)'
    <3> HIDE DEF P, Z, U, R
    <3> QED
      BY <1>3, <1>4, <1>5, <2>1, <2>2, Zenon DEF PlacesOf
  <2> QED
    BY <1>1, <1>2, <1>4, <1>5, <1>7, <2>1, <2>2, <2>3, Zenon DEF IInv
<1> QED
  BY <1>6, <1>7, Zenon

\* SendPendingTasks moves tasks from the queue to the callbacks, or to the posted
\* failures.
LEMMA DependenciesResolvedKeeps ==
  ASSUME IInv, NEW c \in Tasks, DependenciesResolved(c)
  PROVE  IInv'
<1> DEFINE q == MarkDependencyResolved(queue, c)
           W == Sendable(q)
           P == PendingIn(result)
           Z == SettledIn(result)
           Q == DOMAIN queue.requests
           U == PushedIn(inflight)
           R == ResentIn(inflight)
           D == queue.out_of_order_completed_tasks
           next == queue.next_task_reply_position
           start == queue.caller_starts_at
<1>1. /\ QueueOK(queue) /\ result \in [Tasks -> Results] /\ task_counter \in Nat
      /\ InflightOK(inflight) /\ (rpc_client = None => DOMAIN inflight = {})
      /\ Places(P, Z, Q, U, R, to_resubmit, force_fail, D, next, start, task_counter)
      /\ (state # "DEAD" /\ ~DepsMayFail) => Accounted(Z, R, D, next)
  BY Zenon DEF IInv, PlacesOf, AccountedOf
<1>2. UNCHANGED <<task_counter, result, to_resubmit, state, rpc_client>>
  BY Zenon DEF DependenciesResolved, taskVars, handleVars
<1>3. QueueOK(q) /\ SamePositions(q, queue) /\ DOMAIN q.requests = Q
  BY <1>1, ResolvedEffect, Zenon
<1> HIDE DEF q
<1>4. /\ QueueOK(PopSendable(q)) /\ SamePositions(PopSendable(q), queue)
      /\ DOMAIN PopSendable(q).requests = Q \ W /\ W \subseteq Q
  <2>1. /\ QueueOK(PopSendable(q)) /\ SamePositions(PopSendable(q), q)
        /\ DOMAIN PopSendable(q).requests = DOMAIN q.requests \ W
        /\ W \subseteq DOMAIN q.requests
    BY <1>3, PopEffect
  <2> QED
    BY <1>3, <2>1, Zenon DEF SamePositions
<1>5. /\ Places(P, Z, Q \ W, U \cup W, R, to_resubmit, force_fail, D, next, start, task_counter)
      /\ Places(P, Z, Q \ W, U, R, to_resubmit, force_fail \cup W, D, next, start, task_counter)
  <2> HIDE DEF P, Z, Q, U, R, D, next, start, W
  <2> QED
    BY <1>1, <1>4, PlacesPop, ZenonT(40)
<1>6. CASE /\ rpc_client # None /\ queue' = PopSendable(q)
           /\ PushActorTasks(SendPendingTasks(q, rpc_client), rpc_client, inflight)
           /\ UNCHANGED force_fail
  <2>1. DOMAIN inflight = U \cup R
    BY <1>1, Zenon DEF InflightOK, PushedIn, ResentIn
  <2>2. DOMAIN inflight \cap W = {}
    <3> HIDE DEF P, Z, Q, U, R, D, next, start, W
    <3> QED
      BY <1>1, <1>4, <2>1 DEF Places
  <2>3. PushActorTasks(Pushes(q, {}, W, rpc_client), rpc_client, inflight)
    <3>1. SendPendingTasks(q, rpc_client) = Pushes(q, {}, W, rpc_client)
      BY DEF SendPendingTasks, Pushes
    <3> QED
      BY <1>6, <3>1
  <2>4. Registered({}, W, inflight, inflight')
    <3>1. PushNew(q, {}, W, rpc_client, inflight)
      <4> HIDE DEF W
      <4> QED
        BY <2>2, <2>3, Zenon DEF PushNew
    <3> QED
      BY <3>1, PushEffect, Zenon
  <2>5. W \subseteq Tasks
    BY <1>1, <1>4 DEF QueueOK
  <2> HIDE DEF W
  <2>6. /\ PushedIn(inflight)' = U \cup W /\ ResentIn(inflight)' = R /\ InflightOK(inflight)'
    BY <1>1, <2>2, <2>4, <2>5, Zenon DEF PushedIn, ResentIn, InflightOK, Registered
  <2> HIDE DEF P, Z, Q, U, R, D, next, start
  <2> QED
    BY <1>1, <1>2, <1>4, <1>5, <1>6, <2>6, ZenonT(40)
    DEF IInv, PlacesOf, AccountedOf, SamePositions, P, Z, D, next, start
<1>7. CASE queue' = PopSendable(q) /\ force_fail' = force_fail \cup W /\ UNCHANGED inflight
  <2> HIDE DEF W
  <2> QED
    BY <1>1, <1>2, <1>4, <1>5, <1>7, Zenon DEF IInv, PlacesOf, AccountedOf, SamePositions
<1>8. CASE queue' = q /\ UNCHANGED <<force_fail, inflight>>
  BY <1>1, <1>2, <1>3, <1>8, Zenon DEF IInv, PlacesOf, AccountedOf, SamePositions
<1> QED
  BY <1>6, <1>7, <1>8, Zenon DEF DependenciesResolved, q

\* A failed dependency: the task is retried or settled.
LEMMA DependencyFailedKeeps ==
  ASSUME IInv, NEW c \in Tasks, DependencyFailed(c)
  PROVE  IInv'
<1> DEFINE P == PendingIn(result)
           Z == SettledIn(result)
           Q == DOMAIN queue.requests
           U == PushedIn(inflight)
           R == ResentIn(inflight)
           D == queue.out_of_order_completed_tasks
           next == queue.next_task_reply_position
           start == queue.caller_starts_at
<1>1. /\ QueueOK(queue) /\ result \in [Tasks -> Results] /\ task_counter \in Nat
      /\ InflightOK(inflight) /\ (rpc_client = None => DOMAIN inflight = {})
      /\ Places(P, Z, Q, U, R, to_resubmit, force_fail, D, next, start, task_counter)
  BY Zenon DEF IInv, PlacesOf, AccountedOf
<1>2. /\ UNCHANGED <<task_counter, state, rpc_client, inflight, force_fail>>
      /\ DepsMayFail /\ c \in Q /\ queue' = Erase(queue, {c})
  BY Zenon DEF DependencyFailed, handleVars, MarkDependencyFailed
<1>3. QueueOK(queue)' /\ SamePositions(queue', queue) /\ DOMAIN queue'.requests = Q \ {c}
  BY <1>1, <1>2, EraseEffect
<1>4. /\ Places(P, Z, Q \ {c}, U, R, to_resubmit \cup {c}, force_fail, D, next, start,
                task_counter)
      /\ Places(P \ {c}, Z \cup {c}, Q \ {c}, U, R, to_resubmit, force_fail, D, next, start,
                task_counter)
  <2>1. {c} \in SUBSET Q
    BY <1>2, Zenon
  <2> HIDE DEF P, Z, Q, U, R, D, next, start
  <2> QED
    BY <1>1, <2>1, PlacesPop, Zenon
<1>5. result' \in [Tasks -> Results]
      /\ PlacesOf(queue, result, PushedIn(inflight), ResentIn(inflight), to_resubmit, force_fail)'
  <2>1. CASE result' = result /\ to_resubmit' = to_resubmit \cup {c}
    BY <1>1, <1>2, <1>3, <1>4, <2>1, Zenon DEF PlacesOf, SamePositions
  <2>2. CASE result' = [result EXCEPT ![c] = "failed"] /\ to_resubmit' = to_resubmit
    <3>1. /\ result' \in [Tasks -> Results]
          /\ PendingIn(result)' = P \ {c} /\ SettledIn(result)' = Z \cup {c}
      BY <1>1, <2>2 DEF PendingIn, SettledIn, Results, SettledResults
    <3> HIDE DEF P, Z
    <3> QED
      BY <1>2, <1>3, <1>4, <2>2, <3>1, Zenon DEF PlacesOf, SamePositions
  <2> QED
    BY <2>1, <2>2 DEF DependencyFailed
<1> QED
  BY <1>1, <1>2, <1>3, <1>5, Zenon DEF IInv

\* A posted failure: the task is retried or settled.
LEMMA ForceFailKeeps ==
  ASSUME IInv, NEW c \in Tasks, ForceFail(c)
  PROVE  IInv'
<1> DEFINE S == {[task |-> c, skip_execution |-> FALSE]}
           U == PushedIn(inflight)
           R == ResentIn(inflight)
<1>1. TasksIn(S) = {c} /\ RealIn(S) = {c}
  BY DEF TasksIn, RealIn
<1>2. /\ UNCHANGED <<task_counter, state, rpc_client, inflight>>
      /\ c \in force_fail /\ force_fail' = force_fail \ {c}
      /\ HandlePushTaskReplies(queue, S, "IOError", state, result)
  BY DEF ForceFail, handleVars
<1>3. PlacesOf(queue, result, U, R, to_resubmit, force_fail)
  BY Zenon DEF IInv
<1>4. U \ {c} = U
  BY <1>2, <1>3, Zenon DEF PlacesOf, Places
<1>5. RealIn(S) \subseteq U \cup force_fail /\ TasksIn(S) \ RealIn(S) \subseteq R
  BY <1>1, <1>2, Zenon
<1>6. QueueOK(queue) /\ result \in [Tasks -> Results] /\ task_counter \in Nat
  BY DEF IInv
<1> HIDE DEF S, U, R
<1>7. /\ QueueOK(queue)' /\ result' \in [Tasks -> Results]
      /\ Places(PendingIn(result)', SettledIn(result)', DOMAIN queue'.requests, U \ RealIn(S),
                R \ (TasksIn(S) \ RealIn(S)), to_resubmit', force_fail \ RealIn(S),
                queue'.out_of_order_completed_tasks, queue'.next_task_reply_position,
                queue'.caller_starts_at, task_counter)
      /\ AccountedOf(queue, result, R) =>
           Accounted(SettledIn(result)', R \ (TasksIn(S) \ RealIn(S)),
                     queue'.out_of_order_completed_tasks, queue'.next_task_reply_position)
  BY <1>2, <1>3, <1>5, <1>6, RepliesEffect, Zenon
<1>8. R \ (TasksIn(S) \ RealIn(S)) = R
  BY <1>1
<1> QED
  BY <1>1, <1>2, <1>4, <1>7, <1>8, Zenon DEF IInv, PlacesOf, AccountedOf, U, R

\* The callback of an rpc, taken from the callbacks of the queue if it is there.
LEMMA RpcCallbackKeeps ==
  ASSUME IInv, NEW m, NEW status, RpcCallback(m, status)
  PROVE  IInv'
<1>1. UNCHANGED <<task_counter, state, rpc_client, force_fail>>
  BY Zenon DEF RpcCallback, handleVars
<1>2. CASE m.task \notin DOMAIN inflight
  BY <1>1, <1>2, QuietKeeps DEF RpcCallback
<1>3. CASE m.task \in DOMAIN inflight
  <2> DEFINE c == m.task
             S == {inflight[c]}
             U == PushedIn(inflight)
             R == ResentIn(inflight)
             real == RealIn(S)
             all == TasksIn(S)
  <2>1. /\ inflight' = [d \in DOMAIN inflight \ {c} |-> inflight[d]]
        /\ HandlePushTaskReplies(queue, S, status, state, result)
    BY <1>3 DEF RpcCallback, CallbacksWithout
  <2>2. /\ QueueOK(queue) /\ result \in [Tasks -> Results] /\ task_counter \in Nat
        /\ InflightOK(inflight) /\ (rpc_client = None => DOMAIN inflight = {})
        /\ PlacesOf(queue, result, U, R, to_resubmit, force_fail)
    BY Zenon DEF IInv
  <2>3. /\ real = U \cap {c} /\ all \ real = R \cap {c}
        /\ inflight[c].task = c /\ inflight[c].skip_execution \in BOOLEAN
    BY <1>3, <2>2 DEF InflightOK, RealIn, TasksIn, PushedIn, ResentIn
  <2>4. /\ InflightOK(inflight)' /\ PushedIn(inflight)' = U \ real
        /\ ResentIn(inflight)' = R \ (all \ real)
        /\ (rpc_client = None => DOMAIN inflight = {})'
    BY <1>1, <2>1, <2>2, <2>3, Zenon DEF InflightOK, PushedIn, ResentIn
  <2>5. force_fail \ real = force_fail
    BY <2>2, <2>3, Zenon DEF PlacesOf, Places
  <2>6. real \subseteq U \cup force_fail /\ all \ real \subseteq R
    BY <2>3
  <2> HIDE DEF S, U, R
  <2>7. /\ QueueOK(queue)' /\ result' \in [Tasks -> Results]
        /\ Places(PendingIn(result)', SettledIn(result)', DOMAIN queue'.requests, U \ real,
                  R \ (all \ real), to_resubmit', force_fail \ real,
                  queue'.out_of_order_completed_tasks, queue'.next_task_reply_position,
                  queue'.caller_starts_at, task_counter)
        /\ AccountedOf(queue, result, R) =>
             Accounted(SettledIn(result)', R \ (all \ real),
                       queue'.out_of_order_completed_tasks, queue'.next_task_reply_position)
    BY <2>1, <2>2, <2>6, RepliesEffect, Zenon
  <2> HIDE DEF real, all
  <2> QED
    BY <1>1, <2>2, <2>4, <2>5, <2>7, ZenonT(40) DEF IInv, PlacesOf, AccountedOf, R
<1> QED
  BY <1>2, <1>3, Zenon

\* The callbacks of all that is in flight.
LEMMA FailInflightTasksSplits ==
  ASSUME InflightOK(inflight)
  PROVE  /\ RealIn(FailInflightTasks) = PushedIn(inflight)
         /\ TasksIn(FailInflightTasks) \ RealIn(FailInflightTasks) = ResentIn(inflight)
<1>1. TasksIn(FailInflightTasks) = DOMAIN inflight
  BY DEF InflightOK, TasksIn, FailInflightTasks
<1>2. RealIn(FailInflightTasks) = PushedIn(inflight)
  BY DEF InflightOK, RealIn, FailInflightTasks, PushedIn
<1> QED
  BY <1>1, <1>2, Zenon DEF PushedIn, ResentIn, InflightOK

\* DisconnectActor fails what is in flight, and on death what is queued.
LEMMA DisconnectKeeps ==
  ASSUME IInv, NEW restarts, NEW dead \in BOOLEAN, DisconnectActor(restarts, dead),
         UNCHANGED task_counter
  PROVE  IInv'
<1> DEFINE P == PendingIn(result)
           Z == SettledIn(result)
           Q == DOMAIN queue.requests
           U == PushedIn(inflight)
           R == ResentIn(inflight)
           D == queue.out_of_order_completed_tasks
           next == queue.next_task_reply_position
           start == queue.caller_starts_at
           S == FailInflightTasks
           failed == {c \in Tasks : c \in DOMAIN queue.requests
                                       \/ result[c] = "waiting_death_info"}
           q == IF dead THEN ClearAllTasks(queue) ELSE queue
           res == [c \in Tasks |-> IF dead /\ c \in failed THEN "failed" ELSE result[c]]
<1>1. /\ QueueOK(queue) /\ result \in [Tasks -> Results] /\ task_counter \in Nat
      /\ InflightOK(inflight)
      /\ Places(P, Z, Q, U, R, to_resubmit, force_fail, D, next, start, task_counter)
  BY Zenon DEF IInv, PlacesOf
<1>2. /\ HandlePushTaskReplies(q, S, "IOError", state', res)
      /\ rpc_client' = None /\ inflight' = [c \in {} |-> {}] /\ force_fail' = force_fail
      /\ state' = IF dead \/ state = "DEAD" THEN "DEAD" ELSE "RESTARTING"
  BY Zenon DEF DisconnectActor, DisconnectRpcClient
<1>3. /\ DOMAIN inflight' = {} /\ PushedIn(inflight)' = {} /\ ResentIn(inflight)' = {}
      /\ InflightOK(inflight)'
  BY <1>2 DEF PushedIn, ResentIn, InflightOK
<1>4. RealIn(S) = U /\ TasksIn(S) \ RealIn(S) = R
  BY <1>1, FailInflightTasksSplits, Zenon
<1>5. /\ QueueOK(q) /\ res \in [Tasks -> Results]
      /\ PlacesOf(q, res, U, R, to_resubmit, force_fail)
      /\ ~dead => q = queue /\ res = result
  <2>1. CASE dead
    <3>1. QueueOK(q) /\ SamePositions(q, queue) /\ DOMAIN q.requests = Q \ Q
      BY <1>1, <2>1, EraseEffect, Zenon DEF ClearAllTasks
    <3>2. res \in [Tasks -> Results] /\ PendingIn(res) = P \ Q /\ SettledIn(res) = Z \cup Q
      BY <1>1, <2>1 DEF PendingIn, SettledIn, Results, SettledResults, QueueOK
    <3>3. Places(P \ Q, Z \cup Q, Q \ Q, U, R, to_resubmit, force_fail, D, next, start,
                 task_counter)
      <4> HIDE DEF P, Z, Q, U, R, D, next, start
      <4>1. Q \in SUBSET Q
        BY Zenon
      <4> QED
        BY <1>1, <4>1, PlacesPop, Zenon
    <3> HIDE DEF q, res, P, Z, Q
    <3> QED
      BY <2>1, <3>1, <3>2, <3>3 DEF PlacesOf, SamePositions
  <2>2. CASE ~dead
    <3>1. q = queue /\ res = result
      BY <1>1, <2>2
    <3> HIDE DEF q, res
    <3> QED
      BY <1>1, <3>1, Zenon DEF PlacesOf
  <2> QED
    BY <2>1, <2>2, Zenon
<1> HIDE DEF q, res, S, U, R
<1>6. /\ QueueOK(queue)' /\ result' \in [Tasks -> Results]
      /\ Places(PendingIn(result)', SettledIn(result)', DOMAIN queue'.requests, U \ RealIn(S),
                (R \ (TasksIn(S) \ RealIn(S))), to_resubmit', force_fail \ RealIn(S),
                queue'.out_of_order_completed_tasks, queue'.next_task_reply_position,
                queue'.caller_starts_at, task_counter)
      /\ AccountedOf(q, res, R) =>
           Accounted(SettledIn(result)', R \ (TasksIn(S) \ RealIn(S)),
                     queue'.out_of_order_completed_tasks, queue'.next_task_reply_position)
  BY <1>1, <1>2, <1>4, <1>5, RepliesEffect, Zenon
<1>7. U \ RealIn(S) = {} /\ R \ (TasksIn(S) \ RealIn(S)) = {}
  BY <1>4, Zenon
<1>8. force_fail \ RealIn(S) = force_fail
  BY <1>1, <1>4 DEF Places
<1>9. PlacesOf(queue, result, PushedIn(inflight), ResentIn(inflight), to_resubmit, force_fail)'
  BY <1>2, <1>3, <1>6, <1>7, <1>8, Zenon DEF PlacesOf
<1>10. (state # "DEAD" /\ ~DepsMayFail)' => AccountedOf(queue, result, ResentIn(inflight))'
  <2> SUFFICES ASSUME state' # "DEAD", ~DepsMayFail
               PROVE  AccountedOf(queue, result, ResentIn(inflight))'
    BY Zenon
  <2>1. ~dead /\ state # "DEAD"
    BY <1>2, Zenon
  <2>2. AccountedOf(q, res, R)
    BY <1>5, <2>1, Zenon DEF IInv, R
  <2> QED
    BY <1>3, <1>6, <1>7, <2>2, Zenon DEF AccountedOf
<1> QED
  BY <1>1, <1>3, <1>6, <1>9, <1>10, Zenon DEF IInv

\* CheckTimeoutTasks settles what was already settled.
LEMMA CheckTimeoutTasksKeeps ==
  ASSUME IInv, NEW S \in SUBSET Tasks, CheckTimeoutTasks(S)
  PROVE  IInv'
<1>1. /\ \A c \in S : result[c] = "waiting_death_info"
      /\ result' = [c \in Tasks |-> IF c \in S THEN "failed" ELSE result[c]]
      /\ UNCHANGED <<task_counter, to_resubmit, queue, state, rpc_client, inflight, force_fail>>
  BY Zenon DEF CheckTimeoutTasks, handleVars, submitVars
<1>2. result \in [Tasks -> Results]
  BY Zenon DEF IInv
<1>3. /\ result' \in [Tasks -> Results] /\ PendingIn(result)' = PendingIn(result)
      /\ SettledIn(result)' = SettledIn(result)
  BY <1>1, <1>2 DEF PendingIn, SettledIn, Results, SettledResults
<1> QED
  BY <1>1, <1>3, Zenon DEF IInv, PlacesOf, AccountedOf

\* The queue after a new connection: what is sendable has left it, the positions
\* start at the reply position, nothing is kept as completed out of order.
LEMMA ConnectedQueue ==
  ASSUME NEW q0, QueueOK(q0)
  PROVE  LET q == OnClientConnected(q0)
             r == PopAllOutOfOrderCompletedTasks(PopSendable(q))
         IN  /\ QueueOK(r) /\ DOMAIN r.requests = DOMAIN q0.requests \ Sendable(q)
             /\ Sendable(q) \subseteq DOMAIN q0.requests
             /\ r.next_task_reply_position = q0.next_task_reply_position
             /\ r.caller_starts_at = q0.next_task_reply_position
             /\ r.out_of_order_completed_tasks = {}
             /\ q.out_of_order_completed_tasks = q0.out_of_order_completed_tasks
<1> DEFINE q == OnClientConnected(q0)
           s == PopSendable(q)
<1>1. /\ QueueOK(q) /\ q.requests = q0.requests
      /\ q.next_task_reply_position = q0.next_task_reply_position
      /\ q.caller_starts_at = q0.next_task_reply_position
      /\ q.out_of_order_completed_tasks = q0.out_of_order_completed_tasks
  BY DEF QueueOK, OnClientConnected
<1> HIDE DEF q
<1>2. /\ QueueOK(s) /\ SamePositions(s, q)
      /\ DOMAIN s.requests = DOMAIN q.requests \ Sendable(q)
      /\ Sendable(q) \subseteq DOMAIN q.requests
  BY <1>1, PopEffect
<1> HIDE DEF s
<1>3. /\ QueueOK([s EXCEPT !.out_of_order_completed_tasks = {}])
      /\ [s EXCEPT !.out_of_order_completed_tasks = {}].requests = s.requests
      /\ [s EXCEPT !.out_of_order_completed_tasks = {}].next_task_reply_position
           = s.next_task_reply_position
      /\ [s EXCEPT !.out_of_order_completed_tasks = {}].caller_starts_at = s.caller_starts_at
      /\ [s EXCEPT !.out_of_order_completed_tasks = {}].out_of_order_completed_tasks = {}
  BY <1>2 DEF QueueOK
<1> QED
  BY <1>1, <1>2, <1>3 DEF PopAllOutOfOrderCompletedTasks, SamePositions, s, q

\* ConnectActor resends and sends on the new connection, then fails the callbacks of
\* the old one.
LEMMA ConnectKeeps ==
  ASSUME IInv, NEW inc \in Nat, ConnectActor(inc), UNCHANGED task_counter
  PROVE  IInv'
<1> DEFINE P == PendingIn(result)
           Z == SettledIn(result)
           Q == DOMAIN queue.requests
           U == PushedIn(inflight)
           R == ResentIn(inflight)
           D == queue.out_of_order_completed_tasks
           next == queue.next_task_reply_position
           start == queue.caller_starts_at
           q == OnClientConnected(queue)
           W == Sendable(q)
           r == PopAllOutOfOrderCompletedTasks(PopSendable(q))
           S == IF rpc_client # None THEN FailInflightTasks ELSE {}
           kept == IF rpc_client # None THEN [c \in {} |-> {}] ELSE inflight
<1>1. /\ QueueOK(queue) /\ result \in [Tasks -> Results] /\ task_counter \in Nat
      /\ InflightOK(inflight) /\ (rpc_client = None => DOMAIN inflight = {})
      /\ Places(P, Z, Q, U, R, to_resubmit, force_fail, D, next, start, task_counter)
      /\ D \in SUBSET Tasks /\ Q \in SUBSET Tasks /\ next \in Nat
  BY DEF IInv, PlacesOf, QueueOK
<1>2. /\ HandlePushTaskReplies(r, S, "IOError", "ALIVE", result)
      /\ PushActorTasks(ResendOutOfOrderTasks(q, inc) \cup SendPendingTasks(q, inc), inc, kept)
      /\ state # "DEAD" /\ rpc_client' = inc /\ force_fail' = force_fail
  BY Zenon DEF ConnectActor
<1>3. DOMAIN kept = {}
  BY <1>1
<1>4. RealIn(S) = U /\ TasksIn(S) \ RealIn(S) = R
  <2>1. CASE rpc_client # None
    BY <1>1, <2>1, FailInflightTasksSplits, Zenon
  <2>2. CASE rpc_client = None
    <3>1. RealIn({}) = {} /\ TasksIn({}) = {}
      BY Zenon DEF RealIn, TasksIn
    <3>2. U = {} /\ R = {}
      BY <1>1, <2>2 DEF PushedIn, ResentIn
    <3> QED
      BY <2>2, <3>1, <3>2
  <2> QED
    BY <2>1, <2>2, Zenon
<1>5. /\ QueueOK(r) /\ DOMAIN r.requests = Q \ W /\ W \subseteq Q
      /\ r.next_task_reply_position = next /\ r.caller_starts_at = next
      /\ r.out_of_order_completed_tasks = {} /\ q.out_of_order_completed_tasks = D
  BY <1>1, ConnectedQueue, Zenon
<1> HIDE DEF P, Z, Q, U, R, D, next, start, q, W, r, S, kept
<1>6. Places(P, Z, Q \ W, U \cup W, R \cup D, to_resubmit, force_fail, {}, next, next,
             task_counter)
  <2>1. Places(P, Z, Q \ W, U \cup W, R, to_resubmit, force_fail, D, next, start, task_counter)
    BY <1>1, <1>5, PlacesPop, Zenon
  <2>2. D \in SUBSET Nat
    BY <1>1, TasksNat, Zenon
  <2> QED
    BY <1>1, <2>1, <2>2, PlacesResend
<1>7. /\ D \cap W = {} /\ (U \cup W) \ U = W /\ (R \cup D) \ R = D /\ force_fail \ U = force_fail
  BY <1>1, <1>5 DEF Places
<1>8. Registered(D, W, kept, inflight')
  <2>1. ResendOutOfOrderTasks(q, inc) \cup SendPendingTasks(q, inc) = Pushes(q, D, W, inc)
    BY <1>5 DEF ResendOutOfOrderTasks, SendPendingTasks, Pushes, W
  <2>2. PushNew(q, D, W, inc, kept)
    BY <1>2, <1>3, <1>7, <2>1, Zenon DEF PushNew
  <2> QED
    BY <2>2, PushEffect, Zenon
<1>9. /\ InflightOK(inflight)' /\ PushedIn(inflight)' = W /\ ResentIn(inflight)' = D
  <2>1. /\ DOMAIN inflight' = D \cup W /\ D \cup W \subseteq Tasks
        /\ \A c \in D : inflight'[c].task = c /\ inflight'[c].skip_execution = TRUE
        /\ \A c \in W : inflight'[c].task = c /\ inflight'[c].skip_execution = FALSE
    BY <1>1, <1>3, <1>5, <1>8, Zenon DEF Registered
  <2> QED
    BY <1>7, <2>1, ZenonT(40) DEF InflightOK, PushedIn, ResentIn
<1>10. PlacesOf(r, result, U \cup W, R \cup D, to_resubmit, force_fail)
  BY <1>5, <1>6, Zenon DEF PlacesOf, P, Z
<1>11. /\ RealIn(S) \subseteq (U \cup W) \cup force_fail
       /\ TasksIn(S) \ RealIn(S) \subseteq R \cup D
  BY <1>4
<1> DEFINE U2 == U \cup W
           R2 == R \cup D
<1>12. /\ QueueOK(queue)' /\ result' \in [Tasks -> Results]
       /\ Places(PendingIn(result)', SettledIn(result)', DOMAIN queue'.requests,
                 U2 \ RealIn(S), R2 \ (TasksIn(S) \ RealIn(S)), to_resubmit',
                 force_fail \ RealIn(S), queue'.out_of_order_completed_tasks,
                 queue'.next_task_reply_position, queue'.caller_starts_at, task_counter)
       /\ AccountedOf(r, result, R2) =>
            Accounted(SettledIn(result)', R2 \ (TasksIn(S) \ RealIn(S)),
                      queue'.out_of_order_completed_tasks, queue'.next_task_reply_position)
  <2>1. /\ PlacesOf(r, result, U2, R2, to_resubmit, force_fail)
        /\ RealIn(S) \subseteq U2 \cup force_fail
        /\ TasksIn(S) \ RealIn(S) \subseteq R2
    BY <1>10, <1>11, Zenon
  <2>2. /\ QueueOK(r) /\ result \in [Tasks -> Results] /\ task_counter \in Nat
        /\ HandlePushTaskReplies(r, S, "IOError", "ALIVE", result)
    BY <1>1, <1>2, <1>5, Zenon
  <2> HIDE DEF U2, R2
  <2> QED
    BY <2>1, <2>2, RepliesEffect, Zenon
<1>13. PlacesOf(queue, result, PushedIn(inflight), ResentIn(inflight), to_resubmit, force_fail)'
  BY <1>2, <1>4, <1>7, <1>9, <1>12 DEF PlacesOf
<1>14. ~DepsMayFail => AccountedOf(queue, result, ResentIn(inflight))'
  <2> SUFFICES ASSUME ~DepsMayFail PROVE AccountedOf(queue, result, ResentIn(inflight))'
    BY Zenon
  <2>1. Accounted(Z, R, D, next)
    BY <1>2, Zenon DEF IInv, AccountedOf, Z, R, D, next
  <2>2. AccountedOf(r, result, R \cup D)
    BY <1>5, <2>1, Zenon DEF AccountedOf, Accounted, Z
  <2> QED
    BY <1>4, <1>7, <1>9, <1>12, <2>2, Zenon DEF AccountedOf
<1>15. rpc_client' # None
  BY <1>2 DEF None
<1> QED
  BY <1>1, <1>9, <1>12, <1>13, <1>14, <1>15, Zenon DEF IInv

----------------------------------------------------------------------------
\* The GCS counts the restarts of the actor from zero.
RestartsCounted ==
    incarnation \in Nat /\ \A n \in notices : n.num_restarts \in Nat

\* The smaller of two numbers.
LEMMA MinOf ==
  ASSUME NEW a \in Int, NEW b \in Int
  PROVE  Min({a, b}) \in {a, b} /\ Min({a, b}) <= a /\ Min({a, b}) <= b
<1>1. \E x \in {a, b} : \A y \in {a, b} : x <= y
  <2>1. CASE a <= b
    BY <2>1
  <2>2. CASE ~(a <= b)
    BY <2>2
  <2> QED
    BY <2>1, <2>2
<1> DEFINE c == CHOOSE x \in {a, b} : \A y \in {a, b} : x <= y
<1>2. c \in {a, b} /\ \A y \in {a, b} : c <= y
  BY <1>1
<1>3. Min({a, b}) = c
  BY Zenon DEF Min
<1> HIDE DEF c
<1> QED
  BY <1>2, <1>3

\* The number of restarts stays a number.
LEMMA RestartsStep ==
  ASSUME RestartsCounted, [Next]_vars
  PROVE  RestartsCounted'
<1>1. CASE UNCHANGED gcsVars
  BY <1>1, Zenon DEF RestartsCounted, gcsVars
<1>2. CASE Crash
  <2>1. Min({incarnation + 1, MaxRestarts}) \in Nat
    <3>1. incarnation + 1 \in Nat /\ MaxRestarts \in Nat
      BY ActorTasksAssumption DEF RestartsCounted
    <3>2. Min({incarnation + 1, MaxRestarts}) \in {incarnation + 1, MaxRestarts}
      BY <3>1, MinOf
    <3> QED
      BY <3>1, <3>2, Zenon
  <2> DEFINE k == Min({incarnation + 1, MaxRestarts})
             s == IF incarnation < MaxRestarts THEN "RESTARTING" ELSE "DEAD"
  <2>2. incarnation' = k /\ notices' = notices \cup {[state |-> s, num_restarts |-> k]}
    BY <1>2, Zenon DEF Crash
  <2> HIDE DEF k, s
  <2> QED
    BY <2>1, <2>2 DEF RestartsCounted, k
<1>3. CASE Start
  BY <1>3 DEF Start, RestartsCounted
<1>4. ASSUME NEW c \in Tasks,
             Resubmit(c) \/ DependenciesResolved(c) \/ DependencyFailed(c) \/ ForceFail(c)
      PROVE  UNCHANGED gcsVars
  BY <1>4, Zenon DEF Resubmit, DependenciesResolved, DependencyFailed, ForceFail
<1>5. ASSUME SubmitActorTask PROVE UNCHANGED gcsVars
  BY <1>5, Zenon DEF SubmitActorTask
<1>6. ASSUME NEW S, CheckTimeoutTasks(S) PROVE UNCHANGED gcsVars
  BY <1>6, Zenon DEF CheckTimeoutTasks
<1>7. ASSUME NEW n, HandleActorStateNotification(n) PROVE UNCHANGED gcsVars
  BY <1>7 DEF HandleActorStateNotification
<1>8. ASSUME NEW m, NEW status, HandleReply(m, status) \/ RpcFails(m) PROVE UNCHANGED gcsVars
  BY <1>8, Zenon DEF HandleReply, RpcFails, RpcCallback
<1>9. ASSUME NEW m, HandlePushTask(m) PROVE UNCHANGED gcsVars
  BY <1>9 DEF HandlePushTask
<1>10. ASSUME ActorStep \/ vars' = vars PROVE UNCHANGED gcsVars
  BY <1>10, Zenon DEF ActorStep, vars
<1> QED
  BY <1>1, <1>2, <1>3, <1>4, <1>5, <1>6, <1>7, <1>8, <1>9, <1>10, Zenon DEF Next

\* Every step keeps the inductive invariant.
LEMMA InvStep ==
  ASSUME IInv, RestartsCounted, [Next]_vars
  PROVE  IInv'
<1>1. CASE SubmitActorTask
  <2>1. /\ SubmitTask(task_counter) /\ to_resubmit' = to_resubmit
        /\ task_counter' = task_counter + 1 /\ task_counter < MaxTasks
    BY <1>1, Zenon DEF SubmitActorTask
  <2>2. task_counter \in Tasks
    BY <2>1, ActorTasksAssumption DEF IInv, Tasks
  <2>3. to_resubmit' = to_resubmit \ {task_counter}
    <3>1. \A c \in to_resubmit : c < task_counter
      BY DEF IInv, PlacesOf, Places
    <3>2. task_counter \in Nat
      BY Zenon DEF IInv
    <3> QED
      BY <2>1, <3>1, <3>2
  <2> QED
    BY <2>1, <2>2, <2>3, SubmitKeeps
<1>2. ASSUME NEW c \in Tasks, Resubmit(c) PROVE IInv'
  BY <1>2, SubmitKeeps DEF Resubmit, handleVars
<1>3. ASSUME NEW n \in notices, HandleActorStateNotification(n) PROVE IInv'
  <2>1. n.num_restarts \in Nat
    BY Zenon DEF RestartsCounted
  <2>2. UNCHANGED task_counter
    BY <1>3, Zenon DEF HandleActorStateNotification, handleVars
  <2>3. CASE ConnectActor(n.num_restarts)
    BY <2>1, <2>2, <2>3, ConnectKeeps
  <2>4. CASE DisconnectActor(n.num_restarts, FALSE)
    BY <2>2, <2>4, DisconnectKeeps, Zenon
  <2>5. CASE DisconnectActor(n.num_restarts, TRUE)
    BY <2>2, <2>5, DisconnectKeeps, Zenon
  <2> QED
    BY <1>3, <2>3, <2>4, <2>5, Zenon DEF HandleActorStateNotification
<1>4. ASSUME NEW m, NEW status, HandleReply(m, status) PROVE IInv'
  BY <1>4, RpcCallbackKeeps, Zenon DEF HandleReply
<1>5. ASSUME NEW m, RpcFails(m) PROVE IInv'
  BY <1>5, RpcCallbackKeeps, Zenon DEF RpcFails
<1>6. ASSUME UNCHANGED submitterSide PROVE IInv'
  BY <1>6, QuietKeeps, Zenon DEF submitterSide, taskVars, handleVars, submitVars
<1>7. ASSUME NEW m, HandlePushTask(m) PROVE IInv'
  BY <1>6, <1>7 DEF HandlePushTask
<1>8. CASE ActorStep
  BY <1>6, <1>8, Zenon DEF ActorStep
<1>9. CASE Crash
  BY <1>6, <1>9, Zenon DEF Crash
<1>10. CASE Start
  BY <1>6, <1>10, Zenon DEF Start
<1>11. CASE vars' = vars
  BY <1>6, <1>11 DEF vars, submitterSide, netVars
<1>12. ASSUME NEW c \in Tasks, DependenciesResolved(c) PROVE IInv'
  BY <1>12, DependenciesResolvedKeeps
<1>13. ASSUME NEW c \in Tasks, DependencyFailed(c) PROVE IInv'
  BY <1>13, DependencyFailedKeeps, Zenon
<1>14. ASSUME NEW c \in Tasks, ForceFail(c) PROVE IInv'
  BY <1>14, ForceFailKeeps
<1>15. ASSUME NEW S \in SUBSET Tasks, CheckTimeoutTasks(S) PROVE IInv'
  BY <1>15, CheckTimeoutTasksKeeps
<1> QED
  BY <1>1, <1>2, <1>3, <1>4, <1>5, <1>7, <1>8, <1>9, <1>10, <1>11, <1>12, <1>13, <1>14, <1>15, Zenon
  DEF Next

\* The places, the positions and the accounting hold in every state of the caller.
THEOREM PlacesInvariance == Spec => [](IInv /\ RestartsCounted)
<1>1. Init => RestartsCounted
  BY DEF Init, RestartsCounted
<1> QED
  BY <1>1, InvInit, InvStep, RestartsStep, PTL DEF Spec

\* TaskManager's RAY_CHECKs on a task that is completed, failed or retried hold: a
\* pending task is queued, pushed, waiting to be resubmitted or waiting to be failed,
\* one of these and only one, and a task with a result is in none of these places.
THEOREM OnePlaceEach == Spec => []PendingTaskInOnePlace
<1>1. IInv => PendingTaskInOnePlace
  BY Zenon DEF IInv, PlacesOf, Places, PendingTaskInOnePlace, PendingIn, PushedIn
<1> QED
  BY <1>1, PlacesInvariance, PTL

\* GetSequenceNumber's RAY_CHECK holds for whatever is still to be sent, and what
\* MarkTaskCompleted keeps lies beyond the reply position, so that the position is
\* never stuck.
THEOREM SequenceNumbersDefined == Spec => []PositionsAhead
<1>1. IInv => PositionsAhead
  <2> SUFFICES ASSUME IInv PROVE PositionsAhead
    BY Zenon
  <2> DEFINE next == queue.next_task_reply_position
             start == queue.caller_starts_at
  <2>1. next \in Nat /\ start \in Nat /\ start <= next
    BY Zenon DEF IInv, QueueOK, PlacesOf, Places
  <2>2. \A c \in queue.out_of_order_completed_tasks : c > next
    BY Zenon DEF IInv, PlacesOf, Places
  <2>3. ASSUME NEW c \in Tasks, result[c] = "pending" PROVE c >= start
    <3>1. c < next => c \in SettledIn(result)
      BY Zenon DEF IInv, PlacesOf, Places
    <3>2. ~(c < next)
      BY <2>3, <3>1, Zenon DEF SettledIn, SettledResults
    <3> QED
      BY <2>1, <3>2, TasksNat
  <2> QED
    BY <2>1, <2>2, <2>3 DEF PositionsAhead
<1> QED
  BY <1>1, PlacesInvariance, PTL

\* While the actor is not dead, MarkTaskCompleted has seen the settled tasks and no
\* others: a settled task lies before the reply position, is kept as completed out of
\* order, or is resent for its sequence number, and none of these is unsettled.
THEOREM CompletionIsExact == Spec => []CompletedExactly
<1>1. IInv => CompletedExactly
  <2> SUFFICES ASSUME IInv, state # "DEAD", ~DepsMayFail
               PROVE  SettledIn(result)
                        = (0 .. queue.next_task_reply_position - 1)
                            \cup queue.out_of_order_completed_tasks \cup ResentIn(inflight)
    BY Zenon DEF CompletedExactly, SettledIn, SettledResults, ResentIn
  <2> DEFINE next == queue.next_task_reply_position
             Z == SettledIn(result)
             D == queue.out_of_order_completed_tasks
             R == ResentIn(inflight)
  <2>1. next \in Nat /\ next <= MaxTasks /\ MaxTasks \in Nat /\ Z \subseteq Tasks
    BY ActorTasksAssumption, Zenon DEF IInv, QueueOK, SettledIn
  <2>2. /\ D \subseteq Z /\ R \subseteq Z /\ \A c \in Tasks : c < next => c \in Z
        /\ \A c \in Z : c < next \/ c \in D \/ c \in R
    BY Zenon DEF IInv, PlacesOf, Places, AccountedOf, Accounted
  <2> HIDE DEF next, Z, D, R
  <2>3. 0 .. next - 1 = {c \in Tasks : c < next}
    BY <2>1 DEF Tasks
  <2>4. Z = (0 .. next - 1) \cup D \cup R
    BY <2>1, <2>2, <2>3, Zenon
  <2> QED
    BY <2>4 DEF next, Z, D, R
<1> QED
  BY <1>1, PlacesInvariance, PTL

----------------------------------------------------------------------------
\* The client's send queue

\* f lists the elements of K in their order.
Lists(f, n, K) ==
    /\ f \in [1 .. n -> K]
    /\ \A i, j \in 1 .. n : i < j => f[i] < f[j]
    /\ \A c \in K : \E j \in 1 .. n : f[j] = c

\* Every set of tasks can be listed: there is no least k for which the tasks below k
\* cannot.
LEMMA Listing ==
  ASSUME NEW K \in SUBSET Tasks
  PROVE  \E n \in 0 .. MaxTasks : \E f : Lists(f, n, K)
<1> DEFINE Part(k) == {c \in K : c < k}
           Good(k) == \E n \in 0 .. k : \E f : Lists(f, n, Part(k))
           R == {ss \in Nat \X Nat : ss[1] < ss[2]}
           T == {k \in Nat : ~Good(k)}
<1>0. \A c \in K : c \in Nat /\ c < MaxTasks /\ MaxTasks \in Nat
  BY ActorTasksAssumption DEF Tasks
<1>1. IsWellFoundedOn(R, Nat)
  BY NatLessThanWellFounded, Zenon DEF OpToRel
<1>2. Good(0)
  <2>1. Part(0) = {}
    BY <1>0
  <2>2. 0 \in 0 .. 0 /\ Lists(<<>>, 0, Part(0))
    BY <2>1 DEF Lists
  <2> HIDE DEF Part
  <2> QED
    BY <2>2, Zenon
<1>3. ASSUME NEW k \in Nat, k # 0, Good(k - 1) PROVE Good(k)
  <2>1. PICK n \in 0 .. k - 1 : \E f : Lists(f, n, Part(k - 1))
    BY <1>3, Zenon
  <2>2. PICK f : Lists(f, n, Part(k - 1))
    BY <2>1, Zenon
  <2>4. CASE k - 1 \notin K
    <3>1. Part(k) = Part(k - 1)
      BY <1>0, <1>3, <2>4
    <3> HIDE DEF Part
    <3> QED
      BY <2>2, <3>1
  <2>5. CASE k - 1 \in K
    <3> DEFINE g == [j \in 1..n + 1 |-> IF j = n + 1 THEN k - 1 ELSE f[j]]
    <3>1. Part(k) = Part(k - 1) \cup {k - 1} /\ \A i \in Part(k - 1) : i < k - 1
      BY <1>0, <1>3, <2>5
    <3>2. \A j \in 1..n : f[j] \in Part(k - 1) /\ f[j] < k - 1 /\ f[j] \in Int
      BY <1>0, <2>2, <3>1 DEF Lists
    <3> HIDE DEF Part
    <3>3. g \in [1..n + 1 -> Part(k)]
      BY <3>1, <3>2
    <3>4. \A i, j \in 1 .. n + 1 : i < j => g[i] < g[j]
      BY <1>3, <2>2, <3>2 DEF Lists
    <3>5. \A i \in Part(k) : \E j \in 1 .. n + 1 : g[j] = i
      <4>1. ASSUME NEW i \in Part(k - 1) PROVE \E j \in 1 .. n + 1 : g[j] = i
        <5>1. PICK j \in 1..n : f[j] = i
          BY <2>2, Zenon DEF Lists
        <5>2. j \in 1..n + 1 /\ j # n + 1
          OBVIOUS
        <5> QED
          BY <5>1, <5>2, Zenon
      <4>2. g[n + 1] = k - 1 /\ n + 1 \in 1 .. n + 1
        OBVIOUS
      <4> QED
        BY <3>1, <4>1, <4>2, Zenon
    <3>6. Lists(g, n + 1, Part(k)) /\ n + 1 \in 0 .. k
      BY <3>3, <3>4, <3>5 DEF Lists
    <3> HIDE DEF g
    <3> QED
      BY <3>6, Zenon
  <2> QED
    BY <2>4, <2>5, Zenon
<1>4. T = {}
  <2> SUFFICES ASSUME T # {} PROVE FALSE
    OBVIOUS
  <2> HIDE DEF Good
  <2>1. PICK k \in T : \A l \in T : ~(<<l, k>> \in R)
    BY <1>1, WFMin, Zenon
  <2>2. k \in Nat /\ ~Good(k) /\ k # 0
    BY <1>2
  <2>3. \A l \in T : ~(l < k)
    BY <2>1, Zenon
  <2>4. k - 1 \in Nat /\ k - 1 < k
    BY <2>2
  <2>5. Good(k - 1)
    BY <2>3, <2>4, Zenon
  <2> QED
    BY <1>3, <2>2, <2>5, Zenon
<1>5. Good(MaxTasks)
  BY <1>4, ActorTasksAssumption
<1>6. Part(MaxTasks) = K
  BY <1>0, Zenon
<1> HIDE DEF Part
<1> QED
  BY <1>5, <1>6, Zenon

\* Requests for different tasks.
Distinct(P) == \A m, n \in P : m.task = n.task => m = n

\* The order in which the pushes P are queued exists, so they are what is queued.
LEMMA TaskOrder ==
  ASSUME NEW P, Distinct(P), \A m \in P : m.task \in Tasks
  PROVE  InTaskOrder(P) \in Seq(P)
<1> DEFINE K == {m.task : m \in P}
<1>1. PICK n \in 0 .. MaxTasks : \E f : Lists(f, n, K)
  BY Listing, Zenon
<1>2. PICK f : Lists(f, n, K)
  BY <1>1, Zenon
<1> DEFINE ms == [j \in 1 .. n |-> CHOOSE m \in P : m.task = f[j]]
<1>3. ASSUME NEW j \in 1 .. n PROVE ms[j] \in P /\ ms[j].task = f[j]
  <2>1. \E m \in P : m.task = f[j]
    BY <1>2, Zenon DEF Lists
  <2> QED
    BY <2>1, Zenon
<1>4. ms \in [1 .. n -> P]
  BY <1>3, Zenon
<1>5. ASSUME NEW m \in P PROVE \E j \in 1 .. n : ms[j] = m
  <2>1. PICK j \in 1 .. n : f[j] = m.task
    BY <1>2, Zenon DEF Lists
  <2> QED
    BY <1>3, <2>1 DEF Distinct
<1> HIDE DEF ms
<1>6. \A i, j \in DOMAIN ms : i < j => ms[i].task < ms[j].task
  BY <1>2, <1>3, <1>4 DEF Lists
<1>7. ms \in UNION {[1 .. k -> P] : k \in 0 .. MaxTasks}
  BY <1>4
<1>8. InTaskOrder(P) \in UNION {[1 .. k -> P] : k \in 0 .. MaxTasks}
  BY <1>4, <1>5, <1>6, <1>7, Zenon DEF InTaskOrder
<1> QED
  BY <1>8

\* A push request, whatever its fields are.
IsRequest(m) ==
    m = [task |-> m.task, attempt |-> m.attempt, incarnation |-> m.incarnation,
         seq_no |-> m.seq_no, dependencies |-> m.dependencies,
         skip_execution |-> m.skip_execution, skip_queue |-> m.skip_queue,
         client_processed_up_to |-> m.client_processed_up_to]

\* m is n, up to what SendRequests stamps on it.
Like(m, n) ==
    /\ IsRequest(m)
    /\ m.task = n.task /\ m.incarnation = n.incarnation /\ m.seq_no = n.seq_no
    /\ m.skip_execution = n.skip_execution

\* A stamp changes nothing else.
LEMMA StampEffect ==
  ASSUME NEW m, IsRequest(m), NEW v
  PROVE  LET w == [m EXCEPT !.client_processed_up_to = v]
         IN  Like(w, m) /\ w.client_processed_up_to = v
  BY DEF IsRequest, Like

\* The requests a client keeps to send.
Elements(s) == {s[k] : k \in 1 .. Len(s)}
Waits(cl) == Elements(cl.send_queue)

\* A sequence is a sequence over its elements.
LEMMA ElementsOf ==
  ASSUME NEW S, NEW s \in Seq(S)
  PROVE  Elements(s) \subseteq S /\ s \in Seq(Elements(s)) /\ Len(s) \in Nat
<1>1. Len(s) \in Nat /\ s \in [1 .. Len(s) -> S]
  OBVIOUS
<1>2. s \in [1 .. Len(s) -> Elements(s)]
  BY <1>1, Zenon DEF Elements
<1>3. s \in Seq(Elements(s))
  BY <1>1, <1>2
<1> QED
  BY <1>1, <1>3 DEF Elements

\* The client of incarnation i: it keeps requests for this incarnation, and has at
\* most MaxRpcsInFlight of them in flight.
ClientOK(cl, i) ==
    /\ cl = [send_queue |-> cl.send_queue, in_flight |-> cl.in_flight,
             max_finished_seq_no |-> cl.max_finished_seq_no]
    /\ cl.send_queue \in Seq(Waits(cl))
    /\ cl.in_flight \in Int /\ cl.in_flight <= MaxRpcsInFlight
    /\ cl.max_finished_seq_no \in Int
    /\ \A m \in Waits(cl) : IsRequest(m) /\ m.incarnation = i

\* The larger of two numbers.
LEMMA MaxOf ==
  ASSUME NEW a \in Int, NEW b \in Int
  PROVE  Max({a, b}) \in {a, b}
<1>1. \E x \in {a, b} : \A y \in {a, b} : x >= y
  <2>1. CASE a <= b
    BY <2>1
  <2>2. CASE ~(a <= b)
    BY <2>2
  <2> QED
    BY <2>1, <2>2
<1> DEFINE c == CHOOSE x \in {a, b} : \A y \in {a, b} : x >= y
<1>2. c \in {a, b}
  BY <1>1
<1>3. Max({a, b}) = c
  BY Zenon DEF Max
<1> HIDE DEF c
<1> QED
  BY <1>2, <1>3, Zenon

\* SendRequests sends from the front of the queue, and stamps what it sends.
LEMMA SendEffect ==
  ASSUME NEW cl, NEW i, ClientOK(cl, i)
  PROVE  /\ ClientOK(AfterSend(cl), i) /\ Waits(AfterSend(cl)) \subseteq Waits(cl)
         /\ AfterSend(cl).max_finished_seq_no = cl.max_finished_seq_no
         /\ \A m \in Sent(cl) : /\ \E n \in Waits(cl) : Like(m, n)
                                /\ m.incarnation = i
                                /\ m.client_processed_up_to = cl.max_finished_seq_no
<1> DEFINE s == cl.send_queue
           n == NumToSend(cl)
           r == SubSeq(s, n + 1, Len(s))
<1>1. s \in Seq(Waits(cl)) /\ Len(s) \in Nat
  BY ElementsOf, Zenon DEF ClientOK
<1>2. n \in Nat /\ n <= Len(s) /\ cl.in_flight + n <= MaxRpcsInFlight /\ cl.in_flight + n \in Int
  <2>1. MaxRpcsInFlight - cl.in_flight \in Nat /\ cl.in_flight \in Int /\ MaxRpcsInFlight \in Int
    BY ActorTasksAssumption DEF ClientOK
  <2>2. /\ n \in {Len(s), MaxRpcsInFlight - cl.in_flight}
        /\ n <= Len(s) /\ n <= MaxRpcsInFlight - cl.in_flight
    <3> DEFINE a == Len(s)
               b == MaxRpcsInFlight - cl.in_flight
    <3>a. n = Min({a, b})
      BY Zenon DEF NumToSend
    <3>b. a \in Int /\ b \in Int
      BY <1>1, <2>1
    <3>1. a \in Int /\ b \in Int /\ n = Min({a, b})
      BY <3>a, <3>b, Zenon
    <3> HIDE DEF a, b, n
    <3>2. n \in {a, b} /\ n <= a /\ n <= b
      BY <3>1, MinOf, Zenon
    <3> QED
      BY <3>2, Zenon DEF a, b
  <2> HIDE DEF n
  <2> QED
    BY <1>1, <2>1, <2>2
<1> HIDE DEF n
<1>3. r \in Seq(Waits(cl))
  BY <1>1, <1>2
<1>a. AfterSend(cl) = [cl EXCEPT !.send_queue = r, !.in_flight = cl.in_flight + n]
  BY DEF AfterSend, n
<1> HIDE DEF r
<1>4. AfterSend(cl) = [send_queue |-> r, in_flight |-> cl.in_flight + n,
                       max_finished_seq_no |-> cl.max_finished_seq_no]
  BY <1>a, Zenon DEF ClientOK
<1>5. Elements(r) \subseteq Waits(cl) /\ r \in Seq(Elements(r))
  BY <1>3, ElementsOf, Zenon
<1>6. ClientOK(AfterSend(cl), i) /\ Waits(AfterSend(cl)) \subseteq Waits(cl)
  BY <1>2, <1>4, <1>5 DEF ClientOK, Waits
<1>7. ASSUME NEW m \in Sent(cl)
      PROVE  /\ \E w \in Waits(cl) : Like(m, w)
             /\ m.incarnation = i /\ m.client_processed_up_to = cl.max_finished_seq_no
  <2>1. PICK k \in 1 .. n : m = [s[k] EXCEPT !.client_processed_up_to = cl.max_finished_seq_no]
    BY Zenon DEF Sent, n
  <2>2. s[k] \in Waits(cl)
    BY <1>1, <1>2 DEF Waits, Elements
  <2>3. IsRequest(s[k]) /\ s[k].incarnation = i
    BY <2>2 DEF ClientOK
  <2>4. Like(m, s[k]) /\ m.client_processed_up_to = cl.max_finished_seq_no
    BY <2>1, <2>3, StampEffect, Zenon
  <2> QED
    BY <2>2, <2>3, <2>4 DEF Like
<1> QED
  BY <1>4, <1>6, <1>7

\* PushActorTask queues the pushes that have not skip_queue.
LEMMA QueuedEffect ==
  ASSUME NEW cl, NEW i, ClientOK(cl, i), NEW P, Distinct(P),
         \A m \in P : m.task \in Tasks /\ IsRequest(m) /\ m.incarnation = i
  PROVE  /\ ClientOK(Queued(cl, P), i) /\ Waits(Queued(cl, P)) \subseteq Waits(cl) \cup P
         /\ Queued(cl, P).max_finished_seq_no = cl.max_finished_seq_no
<1> DEFINE X == {m \in P : ~m.skip_queue}
           s == cl.send_queue \o InTaskOrder(X)
<1>1. InTaskOrder(X) \in Seq(X)
  BY TaskOrder, Zenon DEF Distinct
<1>2. cl.send_queue \in Seq(Waits(cl) \cup X) /\ InTaskOrder(X) \in Seq(Waits(cl) \cup X)
  <2>1. cl.send_queue \in Seq(Waits(cl))
    BY Zenon DEF ClientOK
  <2> HIDE DEF X
  <2> QED
    BY <1>1, <2>1
<1>3. s \in Seq(Waits(cl) \cup X)
  BY <1>2
<1>a. Queued(cl, P) = [cl EXCEPT !.send_queue = s]
  BY DEF Queued
<1> HIDE DEF s
<1>4. Queued(cl, P) = [send_queue |-> s, in_flight |-> cl.in_flight,
                       max_finished_seq_no |-> cl.max_finished_seq_no]
  BY <1>a, Zenon DEF ClientOK
<1>5. Elements(s) \subseteq Waits(cl) \cup X /\ s \in Seq(Elements(s))
  BY <1>3, ElementsOf
<1>6. Elements(s) \subseteq Waits(cl) \cup P
  BY <1>5, Zenon
<1> HIDE DEF X
<1> QED
  BY <1>4, <1>5, <1>6 DEF ClientOK, Waits

\* The rpc callback's bookkeeping.
LEMMA FinishedEffect ==
  ASSUME NEW cl, NEW i, ClientOK(cl, i), NEW m, m.seq_no \in Int
  PROVE  /\ ClientOK(Finished(cl, m), i) /\ Waits(Finished(cl, m)) = Waits(cl)
         /\ Finished(cl, m).max_finished_seq_no \in {cl.max_finished_seq_no, m.seq_no}
<1> DEFINE x == Max({cl.max_finished_seq_no, m.seq_no})
<1>1. x \in {cl.max_finished_seq_no, m.seq_no}
  BY MaxOf, Zenon DEF ClientOK
<1>a. Finished(cl, m) = [cl EXCEPT !.max_finished_seq_no = x, !.in_flight = cl.in_flight - 1]
  BY DEF Finished
<1> HIDE DEF x
<1>2. Finished(cl, m) = [send_queue |-> cl.send_queue, in_flight |-> cl.in_flight - 1,
                         max_finished_seq_no |-> x]
  BY <1>a, Zenon DEF ClientOK
<1>3. cl.in_flight - 1 \in Int /\ cl.in_flight - 1 <= MaxRpcsInFlight
  BY ActorTasksAssumption DEF ClientOK
<1> QED
  BY <1>1, <1>2, <1>3 DEF ClientOK, Waits

----------------------------------------------------------------------------
\* The actor's process

\* The requests with a reply on its way to the caller.
Replied == {r[1] : r \in replies}

\* What waits in the queue was received, and waits under its number.
QueuedOK(pend, recv) ==
    /\ DOMAIN pend \subseteq Int
    /\ \A s \in DOMAIN pend :
          /\ pend[s] = [request |-> pend[s].request, can_execute |-> pend[s].can_execute]
          /\ pend[s].request.seq_no = s /\ pend[s].request \in recv

\* Unless the queue gave up, the numbers before next were executed or marked to skip.
Complete(next, recv, gave) ==
    ~gave => \A s \in 0 .. next - 1 :
                s \in executed \/ \E m \in recv : m.seq_no = s /\ m.skip_execution

\* The invariant of the actor's queue, for the requests of its incarnation.
ActorInv ==
    /\ next_seq_no \in Nat /\ gave_up \in BOOLEAN
    /\ QueuedOK(pending, received) /\ executing \subseteq received
    /\ \A m \in received : m.seq_no \in Nat /\ m.incarnation = incarnation
    /\ \A m \in executing : m.seq_no < next_seq_no
    /\ executed \subseteq 0 .. next_seq_no - 1
    /\ Complete(next_seq_no, received, gave_up)
    /\ ~alive => next_seq_no = 0

\* What was answered by the process that runs now has a number before next_seq_no_.
AnsweredBefore(next) ==
    \A m \in Replied : m.seq_no \in Nat /\ (m.incarnation = incarnation => m.seq_no < next)

\* ScheduleRequests starts requests that wait, with numbers from next on.
LEMMA ScheduleEffect ==
  ASSUME NEW pend, NEW next \in Nat, NEW recv, NEW gave \in BOOLEAN,
         QueuedOK(pend, recv), Complete(next, recv, gave),
         \A m \in recv : m.seq_no \in Nat /\ m.incarnation = incarnation,
         executing \subseteq recv, \A m \in executing : m.seq_no < next,
         executed \subseteq 0 .. next - 1, alive,
         AnsweredBefore(next),
         Actor!ScheduleRequests(pend, next),
         received' = recv, gave_up' = gave, UNCHANGED <<incarnation, alive>>
  PROVE  /\ ActorInv' /\ AnsweredBefore(next_seq_no)' /\ next_seq_no' >= next
         /\ \A m \in Replied' : m \in Replied \/ m \in recv
         /\ \A m \in executing' \ executing :
               m \in recv /\ next <= m.seq_no /\ m.seq_no < next_seq_no'
<1>0. PICK n \in next .. next + Actor!Cardinality(DOMAIN pend) :
        LET accepted == next .. n - 1
            skipped == {m \in Actor!Inbound(pend, accepted) : m.skip_execution}
            started == Actor!Inbound(pend, accepted) \ skipped
            stale == {s \in DOMAIN pend : s < next}
        IN  /\ \A k \in accepted : Actor!CanExecute(pend, k)
            /\ ~Actor!CanExecute(pend, n)
            /\ next_seq_no' = n
            /\ pending' = [s \in DOMAIN pend \ (stale \cup accepted) |-> pend[s]]
            /\ executing' = executing \cup started
            /\ executed' = executed \cup {m.seq_no : m \in started}
            /\ replies' = replies \cup (skipped \X {"OK"})
                                  \cup (Actor!Inbound(pend, stale) \X {"Invalid"})
  BY ZenonT(40) DEF Actor!ScheduleRequests
<1> DEFINE accepted == next .. n - 1
           skipped == {m \in Actor!Inbound(pend, accepted) : m.skip_execution}
           started == Actor!Inbound(pend, accepted) \ skipped
           stale == {s \in DOMAIN pend : s < next}
           rest == DOMAIN pend \ (stale \cup accepted)
<1>1. /\ \A k \in accepted : Actor!CanExecute(pend, k)
      /\ next_seq_no' = n
      /\ pending' = [s \in rest |-> pend[s]]
      /\ executing' = executing \cup started
      /\ executed' = executed \cup {m.seq_no : m \in started}
      /\ replies' = replies \cup (skipped \X {"OK"})
                            \cup (Actor!Inbound(pend, stale) \X {"Invalid"})
  BY <1>0, ZenonT(40)
<1>2. n \in Nat /\ n >= next /\ \A k \in accepted : k \in DOMAIN pend
  BY <1>1 DEF Actor!CanExecute
<1>3. /\ \A m \in Actor!Inbound(pend, accepted) : m \in recv /\ m.seq_no \in accepted
      /\ \A m \in Actor!Inbound(pend, stale) : m \in recv /\ m.seq_no < next
      /\ \A s \in accepted : \E m \in Actor!Inbound(pend, accepted) : m.seq_no = s
  BY <1>2 DEF Actor!Inbound, QueuedOK
<1>4. QueuedOK(pending', recv)
  BY <1>1, Zenon DEF QueuedOK
<1> DEFINE acc == Actor!Inbound(pend, accepted)
           old == Actor!Inbound(pend, stale)
           sk == skipped
           go == started
<1>5. /\ sk \subseteq acc /\ go \subseteq acc /\ acc = sk \cup go
      /\ \A m \in sk : m.skip_execution
  OBVIOUS
<1>6. /\ next_seq_no' = n /\ executing' = executing \cup go
      /\ executed' = executed \cup {m.seq_no : m \in go}
      /\ replies' = replies \cup (sk \X {"OK"}) \cup (old \X {"Invalid"})
  BY <1>1, ZenonT(40)
<1>7. \A m \in acc : m \in recv /\ m.seq_no \in Nat /\ next <= m.seq_no /\ m.seq_no < n
  BY <1>2, <1>3
<1>8. \A m \in old : m \in recv /\ m.seq_no < next
  BY <1>3
<1>9. \A s \in next .. n - 1 : \E m \in acc : m.seq_no = s
  BY <1>3, ZenonT(40)
<1> HIDE DEF acc, old, sk, go, accepted, skipped, started, stale, rest
<1>10. /\ executing' \subseteq recv /\ \A m \in executing' : m.seq_no < n
  BY <1>2, <1>5, <1>6, <1>7
<1>11. executed' \subseteq 0 .. n - 1
  <2>1. \A s \in executed' : s \in 0 .. next - 1 \/ \E m \in acc : s = m.seq_no
    BY <1>5, <1>6, Zenon
  <2>2. ASSUME NEW s \in executed' PROVE s \in 0 .. n - 1
    <3>1. s \in Nat /\ s < n
      BY <1>2, <1>7, <2>1
    <3> QED
      BY <1>2, <3>1
  <2> QED
    BY <2>2, Zenon
<1>12. Complete(n, recv, gave)'
  <2> SUFFICES ASSUME ~gave, NEW s \in 0 .. n - 1
               PROVE  s \in executed' \/ \E m \in recv : m.seq_no = s /\ m.skip_execution
    BY Zenon DEF Complete
  <2>1. CASE s < next
    BY <1>6, <2>1 DEF Complete
  <2>2. CASE ~(s < next)
    <3>1. PICK m \in acc : m.seq_no = s
      BY <1>2, <1>9, <2>2
    <3> QED
      BY <1>5, <1>6, <1>7, <3>1, ZenonT(40)
  <2> QED
    BY <2>1, <2>2, Zenon
<1>13. \A m \in Replied' : m \in Replied \/ m \in sk \/ m \in old
  <2>1. ASSUME NEW r \in replies' PROVE r[1] \in Replied \/ r[1] \in sk \/ r[1] \in old
    BY <1>6, <2>1, Zenon DEF Replied
  <2> QED
    BY <2>1, Zenon DEF Replied
<1>14. \A m \in Replied' : m.seq_no \in Nat /\ (m.incarnation = incarnation => m.seq_no < n)
  <2>1. ASSUME NEW m \in Replied
        PROVE  m.seq_no \in Nat /\ (m.incarnation = incarnation => m.seq_no < n)
    <3>1. m.seq_no \in Nat /\ (m.incarnation = incarnation => m.seq_no < next)
      BY ZenonT(40) DEF AnsweredBefore
    <3> QED
      BY <1>2, <3>1
  <2> QED
    BY <1>2, <1>5, <1>7, <1>8, <1>13, <2>1
<1>15. Complete(next_seq_no, received, gave_up)'
  BY <1>6, <1>12, ZenonT(40) DEF Complete
<1>16. ActorInv'
  BY <1>2, <1>4, <1>6, <1>10, <1>11, <1>15, Zenon DEF ActorInv, QueuedOK
<1>17. AnsweredBefore(next_seq_no)'
  BY <1>6, <1>14, Zenon DEF AnsweredBefore
<1> QED
  BY <1>2, <1>5, <1>6, <1>7, <1>8, <1>13, <1>16, <1>17, ZenonT(40)

\* A step starts requests that were received, with numbers from next_seq_no_ on, and
\* does not give up unless an rpc failed.
StartedInOrder ==
    \A m \in executing' \ executing :
        /\ m \in received' /\ next_seq_no <= m.seq_no /\ m.seq_no < next_seq_no'
        /\ ~gave_up /\ faults = 0 => ~gave_up'

\* What a step of the actor's process shows to the rest.
ActorKeeps ==
    /\ ActorInv' /\ AnsweredBefore(next_seq_no)' /\ next_seq_no' >= next_seq_no
    /\ \A m \in Replied' : m \in Replied \/ m \in received'
    /\ StartedInOrder

\* A request that enters the queue is the one queued under its number.
LEMMA EnqueueKeeps ==
  ASSUME QueuedOK(pending, received), NEW m, m.seq_no \in Nat
  PROVE  QueuedOK(Actor!Enqueue(m), received \cup {m})
<1> DEFINE pend == Actor!Enqueue(m)
<1>1. DOMAIN pend = DOMAIN pending \cup {m.seq_no} /\ m.seq_no \in Int
  BY DEF Actor!Enqueue
<1>2. pend[m.seq_no] = [request |-> m, can_execute |-> ~m.dependencies]
  BY Zenon DEF Actor!Enqueue, Actor!InboundRequest
<1>3. \A s \in DOMAIN pending : s # m.seq_no => pend[s] = pending[s]
  BY Zenon DEF Actor!Enqueue
<1> HIDE DEF pend
<1>4. ASSUME NEW s \in DOMAIN pend, s = m.seq_no
      PROVE  /\ pend[s] = [request |-> pend[s].request, can_execute |-> pend[s].can_execute]
             /\ pend[s].request.seq_no = s /\ pend[s].request \in received \cup {m}
  BY <1>2, <1>4
<1>5. ASSUME NEW s \in DOMAIN pend, s # m.seq_no
      PROVE  /\ pend[s] = [request |-> pend[s].request, can_execute |-> pend[s].can_execute]
             /\ pend[s].request.seq_no = s /\ pend[s].request \in received \cup {m}
  BY <1>1, <1>3, <1>5, Zenon DEF QueuedOK
<1> QED
  BY <1>1, <1>4, <1>5, Zenon DEF QueuedOK, pend

\* Add, the callbacks and the timer keep the invariant of the queue.
LEMMA AddEffect ==
  ASSUME ActorInv, AnsweredBefore(next_seq_no), alive, NEW m, Actor!Add(m),
         m.incarnation = incarnation, UNCHANGED <<incarnation, alive>>,
         faults = 0 => m.client_processed_up_to < next_seq_no
  PROVE  ActorKeeps /\ received' = received \cup {m}
<1> DEFINE pend == Actor!Enqueue(m)
           next == Actor!ClientSkips(m)
           recv == received \cup {m}
           gave == (gave_up \/ m.client_processed_up_to >= next_seq_no)
<1>1. /\ received' = recv /\ gave_up' = gave /\ Actor!ScheduleRequests(pend, next)
      /\ m \in Requests
  BY Zenon DEF Actor!Add
<1>2. m.seq_no \in Nat /\ m.client_processed_up_to \in Int /\ m.client_processed_up_to >= -1
  <2>1. m.seq_no \in Tasks /\ m.client_processed_up_to \in Tasks \cup {None}
    BY <1>1 DEF Requests
  <2>2. m.seq_no \in Nat /\ m.client_processed_up_to \in Nat \cup {None}
    BY <2>1, TasksNat, Zenon
  <2> QED
    BY <2>2 DEF None
<1>3. /\ next_seq_no \in Nat /\ QueuedOK(pending, received) /\ executing \subseteq received
      /\ \A x \in received : x.seq_no \in Nat /\ x.incarnation = incarnation
      /\ \A x \in executing : x.seq_no < next_seq_no
      /\ executed \subseteq 0 .. next_seq_no - 1
      /\ Complete(next_seq_no, received, gave_up)
  BY ZenonT(40) DEF ActorInv
<1>n. next_seq_no \in Nat
  BY <1>3, Zenon
<1>4. /\ next \in Nat /\ next >= next_seq_no /\ (~gave => next = next_seq_no)
      /\ gave \in BOOLEAN /\ (~gave => ~gave_up)
  BY <1>2, <1>n DEF Actor!ClientSkips
<1>5. QueuedOK(pend, recv)
  BY <1>2, <1>3, EnqueueKeeps, Zenon
<1> HIDE DEF pend, next
<1>6. Complete(next, recv, gave)
  BY <1>3, <1>4, Zenon DEF Complete
<1>g. faults = 0 /\ ~gave_up => ~gave
  BY <1>2, <1>n
<1> HIDE DEF gave
<1>7. /\ \A x \in recv : x.seq_no \in Nat /\ x.incarnation = incarnation
      /\ executing \subseteq recv /\ \A x \in executing : x.seq_no < next
      /\ executed \subseteq 0 .. next - 1
  <2>1. ASSUME NEW x \in executing PROVE x.seq_no < next
    <3>1. x.seq_no \in Nat /\ x.seq_no < next_seq_no
      BY <1>3, Zenon
    <3> QED
      BY <1>3, <1>4, <3>1
  <2>2. ASSUME NEW x \in executed PROVE x \in 0 .. next - 1
    <3>1. x \in 0 .. next_seq_no - 1
      BY <1>3, Zenon
    <3> QED
      BY <1>3, <1>4, <3>1
  <2> QED
    BY <1>2, <1>3, <2>1, <2>2, Zenon
<1>8. AnsweredBefore(next)
  <2> SUFFICES ASSUME NEW x \in Replied
               PROVE  x.seq_no \in Nat /\ (x.incarnation = incarnation => x.seq_no < next)
    BY DEF AnsweredBefore
  <2>1. x.seq_no \in Nat /\ (x.incarnation = incarnation => x.seq_no < next_seq_no)
    BY Zenon DEF AnsweredBefore
  <2> QED
    BY <1>3, <1>4, <2>1
<1> HIDE DEF recv
<1>9. /\ ActorInv' /\ AnsweredBefore(next_seq_no)' /\ next_seq_no' >= next
      /\ \A x \in Replied' : x \in Replied \/ x \in recv
      /\ \A x \in executing' \ executing :
            x \in recv /\ next <= x.seq_no /\ x.seq_no < next_seq_no'
  BY <1>1, <1>4, <1>5, <1>6, <1>7, <1>8, ScheduleEffect, Zenon
<1>10. next_seq_no' \in Nat /\ \A x \in received' : x.seq_no \in Nat
  BY <1>9, Zenon DEF ActorInv
<1>11. next_seq_no' >= next_seq_no
  BY <1>3, <1>4, <1>9, <1>10
<1>12. StartedInOrder
  <2> SUFFICES ASSUME NEW x \in executing' \ executing
               PROVE  /\ x \in received' /\ next_seq_no <= x.seq_no /\ x.seq_no < next_seq_no'
                      /\ ~gave_up /\ faults = 0 => ~gave_up'
    BY DEF StartedInOrder
  <2>1. x \in received' /\ next <= x.seq_no /\ x.seq_no < next_seq_no' /\ x.seq_no \in Nat
    BY <1>1, <1>9, <1>10, Zenon
  <2>2. next_seq_no <= x.seq_no
    BY <1>3, <1>4, <2>1
  <2> QED
    BY <1>1, <1>g, <2>1, <2>2, Zenon
<1> QED
  BY <1>1, <1>9, <1>11, <1>12, Zenon DEF ActorKeeps, recv

LEMMA OnWaitCompleteEffect ==
  ASSUME ActorInv, AnsweredBefore(next_seq_no), alive, NEW s, Actor!OnWaitComplete(s),
         UNCHANGED <<incarnation, alive>>
  PROVE  ActorKeeps /\ received' = received
<1> DEFINE pend == [pending EXCEPT ![s] = Actor!MarkDependenciesSatisfied(@)]
<1>1. /\ s \in DOMAIN pending /\ Actor!ScheduleRequests(pend, next_seq_no)
      /\ received' = received /\ gave_up' = gave_up
  BY Zenon DEF Actor!OnWaitComplete
<1>2. /\ next_seq_no \in Nat /\ QueuedOK(pending, received) /\ executing \subseteq received
      /\ \A x \in received : x.seq_no \in Nat /\ x.incarnation = incarnation
      /\ \A x \in executing : x.seq_no < next_seq_no
      /\ executed \subseteq 0 .. next_seq_no - 1 /\ gave_up \in BOOLEAN
      /\ Complete(next_seq_no, received, gave_up)
  BY Zenon DEF ActorInv
<1>3. QueuedOK(pend, received)
  <2>1. DOMAIN pend = DOMAIN pending
    BY Zenon
  <2>2. ASSUME NEW k \in DOMAIN pending
        PROVE  /\ pend[k] = [request |-> pend[k].request, can_execute |-> pend[k].can_execute]
               /\ pend[k].request = pending[k].request
    <3>1. pending[k] = [request |-> pending[k].request, can_execute |-> pending[k].can_execute]
      BY <1>2, Zenon DEF QueuedOK
    <3>2. CASE k = s
      <4>1. pend[k] = [pending[k] EXCEPT !.can_execute = TRUE]
        BY <3>2, Zenon DEF Actor!MarkDependenciesSatisfied
      <4> HIDE DEF pend
      <4> QED
        BY <3>1, <4>1, Zenon
    <3>3. CASE k # s
      <4>1. pend[k] = pending[k]
        BY <3>3, Zenon
      <4> HIDE DEF pend
      <4> QED
        BY <3>1, <4>1
    <3> QED
      BY <3>2, <3>3
  <2> HIDE DEF pend
  <2> QED
    BY <1>2, <2>1, <2>2, Zenon DEF QueuedOK
<1> HIDE DEF pend
<1>4. /\ ActorInv' /\ AnsweredBefore(next_seq_no)' /\ next_seq_no' >= next_seq_no
      /\ \A x \in Replied' : x \in Replied \/ x \in received
      /\ \A x \in executing' \ executing :
            x \in received /\ next_seq_no <= x.seq_no /\ x.seq_no < next_seq_no'
  BY <1>1, <1>2, <1>3, ScheduleEffect, Zenon
<1> QED
  BY <1>1, <1>4, Zenon DEF ActorKeeps, StartedInOrder

LEMMA TimeoutEffect ==
  ASSUME ActorInv, AnsweredBefore(next_seq_no), alive, Actor!OnSequencingWaitTimeout,
         UNCHANGED <<incarnation, alive>>
  PROVE  ActorKeeps /\ received' = received
<1>1. PICK n \in {next_seq_no} \cup {s + 1 : s \in DOMAIN pending} :
         /\ n >= next_seq_no /\ \A s \in DOMAIN pending : s < n
         /\ next_seq_no' = n
  BY Zenon DEF Actor!OnSequencingWaitTimeout
<1> DEFINE gone == Actor!Inbound(pending, DOMAIN pending)
<1>2. /\ replies' = replies \cup (gone \X {"Invalid"}) /\ pending' = [s \in {} |-> {}]
      /\ gave_up' = TRUE /\ UNCHANGED <<executing, received, executed>>
  BY Zenon DEF Actor!OnSequencingWaitTimeout
<1>3. /\ next_seq_no \in Nat /\ QueuedOK(pending, received) /\ executing \subseteq received
      /\ \A x \in received : x.seq_no \in Nat /\ x.incarnation = incarnation
      /\ \A x \in executing : x.seq_no < next_seq_no
      /\ executed \subseteq 0 .. next_seq_no - 1
  BY Zenon DEF ActorInv
<1>4. n \in Nat /\ n >= next_seq_no
  BY <1>1, <1>3 DEF QueuedOK
<1>5. \A x \in gone : x \in received /\ x.seq_no < n
  BY <1>1, <1>3 DEF Actor!Inbound, QueuedOK
<1> HIDE DEF gone
<1>6. \A x \in Replied' : x \in Replied \/ x \in gone
  <2>1. ASSUME NEW r \in replies' PROVE r[1] \in Replied \/ r[1] \in gone
    BY <1>2, <2>1, Zenon DEF Replied
  <2> QED
    BY <2>1, Zenon DEF Replied
<1>7. AnsweredBefore(next_seq_no)'
  <2> SUFFICES ASSUME NEW x \in Replied'
               PROVE  x.seq_no \in Nat /\ (x.incarnation = incarnation => x.seq_no < n)
    BY <1>1, Zenon DEF AnsweredBefore
  <2>1. CASE x \in Replied
    <3>1. x.seq_no \in Nat /\ (x.incarnation = incarnation => x.seq_no < next_seq_no)
      BY <2>1, Zenon DEF AnsweredBefore
    <3> QED
      BY <1>3, <1>4, <3>1
  <2>2. CASE x \in gone
    BY <1>3, <1>5, <2>2, Zenon
  <2> QED
    BY <1>6, <2>1, <2>2, Zenon
<1>8. ActorInv'
  <2>1. QueuedOK(pending, received)'
    BY <1>2, Zenon DEF QueuedOK
  <2>2. ASSUME NEW x \in executing PROVE x.seq_no < n
    <3>1. x.seq_no \in Nat /\ x.seq_no < next_seq_no
      BY <1>3, Zenon
    <3> QED
      BY <1>3, <1>4, <3>1
  <2>3. ASSUME NEW x \in executed PROVE x \in 0 .. n - 1
    <3>1. x \in 0 .. next_seq_no - 1
      BY <1>3, Zenon
    <3> QED
      BY <1>3, <1>4, <3>1
  <2>4. Complete(next_seq_no, received, gave_up)'
    BY <1>2, Zenon DEF Complete
  <2> QED
    BY <1>1, <1>2, <1>3, <1>4, <2>1, <2>2, <2>3, <2>4, ZenonT(40) DEF ActorInv
<1> QED
  BY <1>1, <1>2, <1>4, <1>5, <1>6, <1>7, <1>8, Zenon DEF ActorKeeps, StartedInOrder

LEMMA ExpiryEffect ==
  ASSUME ActorInv, AnsweredBefore(next_seq_no), alive, Actor!TimerExpires,
         UNCHANGED <<incarnation, alive>>
  PROVE  ActorKeeps /\ received' = received
<1>1. UNCHANGED <<next_seq_no, pending, executing, replies, received, executed, gave_up>>
  BY Zenon DEF Actor!TimerExpires
<1>2. Replied' = Replied
  BY <1>1, Zenon DEF Replied
<1>3. AnsweredBefore(next_seq_no)'
  BY <1>1, <1>2, Zenon DEF AnsweredBefore
<1>4. ActorInv'
  BY <1>1 DEF ActorInv, QueuedOK, Complete
<1>5. next_seq_no \in Nat
  BY Zenon DEF ActorInv
<1> QED
  BY <1>1, <1>2, <1>3, <1>4, <1>5 DEF ActorKeeps, StartedInOrder

LEMMA FinishEffect ==
  ASSUME ActorInv, AnsweredBefore(next_seq_no), alive, NEW m \in executing, Actor!Finish(m),
         UNCHANGED <<incarnation, alive>>
  PROVE  ActorKeeps /\ received' = received
<1>1. /\ executing' = executing \ {m} /\ replies' = replies \cup {<<m, "OK">>}
      /\ UNCHANGED <<next_seq_no, pending, received, executed, gave_up>>
  BY DEF Actor!Finish
<1>2. m \in received /\ m.seq_no \in Nat /\ m.seq_no < next_seq_no /\ next_seq_no \in Nat
  BY Zenon DEF ActorInv
<1>3. \A x \in Replied' : x \in Replied \/ x = m
  <2>1. ASSUME NEW r \in replies' PROVE r[1] \in Replied \/ r[1] = m
    BY <1>1, <2>1 DEF Replied
  <2> QED
    BY <2>1, Zenon DEF Replied
<1>4. AnsweredBefore(next_seq_no)'
  BY <1>1, <1>2, <1>3, Zenon DEF AnsweredBefore
<1>5. ActorInv'
  BY <1>1 DEF ActorInv, QueuedOK, Complete
<1> QED
  BY <1>1, <1>2, <1>3, <1>4, <1>5 DEF ActorKeeps, StartedInOrder

=============================================================================
