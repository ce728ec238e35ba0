-------------------------- MODULE ActorOrderProofs --------------------------
(***************************************************************************)
(* The order in which the actor starts the tasks of a caller, for every    *)
(* number of tasks, retries, restarts, lost requests and repeated          *)
(* notifications.                                                          *)
(***************************************************************************)
EXTENDS ActorTasksProofs

----------------------------------------------------------------------------
\* The requests of the caller, wherever they are.
Sending == UNION {Waits(clients[i]) : i \in Incarnations}
Everything == outstanding \cup network \cup received \cup Sending

\* The GCS said that incarnation i runs; that the actor is dead.
Heard(i) == \E n \in notices : n.state = "ALIVE" /\ n.num_restarts = i
Dead == \E n \in notices : n.state = "DEAD"

\* The task whose sequence number is zero on the connection of m.
Offset(m) == m.task - m.seq_no

\* A request is for a task that was submitted, on a connection to an incarnation the
\* caller has heard of, and the tasks before its Offset had their replies when the
\* caller connected. A request to skip is for a settled task.
RequestOK(m) ==
    /\ IsRequest(m) /\ m.task \in Tasks /\ m.seq_no \in Int
    /\ m.incarnation \in Incarnations /\ Heard(m.incarnation)
    /\ m.incarnation <= num_restarts
    /\ m.task < task_counter
    /\ Offset(m) <= queue.caller_starts_at
    /\ m.skip_execution => m.task \in SettledIn(result)

\* Requests on one connection agree on the task with number zero: the sequence numbers
\* of an incarnation are the order of the tasks.
OneOffset(E) == \A m, n \in E : m.incarnation = n.incarnation => Offset(m) = Offset(n)

\* The clients of all incarnations.
ClientsOK ==
    /\ DOMAIN clients = Incarnations
    /\ \A i \in Incarnations : ClientOK(clients[i], i)

\* The requests E2 are among E, up to their stamps.
Covered(E2, E) == \A m \in E2 : \E n \in E : Like(m, n)

\* What net2 has and net has not is on client inc, and is not stamped beyond v.
Fresh(net2, net, inc, v) ==
    \A m \in net2 : \/ m \in net
                    \/ m.incarnation = inc /\ m.client_processed_up_to \in {None, v}

\* Pushes for different tasks, on client inc.
PushesOn(P, inc) ==
    /\ Distinct(P)
    /\ \A m \in P : /\ m.task \in Tasks /\ IsRequest(m) /\ m.incarnation = inc
                    /\ m.client_processed_up_to = None

LEMMA LikeItself == \A m : IsRequest(m) => Like(m, m)
  BY Zenon DEF Like

\* PushActorTask queues and sends the pushes, and sends what was queued.
LEMMA PushClients ==
  ASSUME ClientsOK, NEW P, NEW inc \in Incarnations, PushesOn(P, inc), NEW old,
         PushActorTasks(P, inc, old), received' = received,
         \A m \in Everything : IsRequest(m)
  PROVE  /\ ClientsOK' /\ Covered(Everything', Everything \cup P)
         /\ \A i \in Incarnations :
               clients'[i].max_finished_seq_no = clients[i].max_finished_seq_no
         /\ Fresh(network', network, inc, clients[inc].max_finished_seq_no)
<1> DEFINE c0 == clients[inc]
           cl == Queued(c0, P)
           now == {m \in P : m.skip_queue} \cup Sent(cl)
<1>1. /\ clients' = [clients EXCEPT ![inc] = AfterSend(cl)]
      /\ outstanding' = outstanding \cup now /\ network' = network \cup now
  BY DEF PushActorTasks
<1>2. /\ ClientOK(cl, inc) /\ Waits(cl) \subseteq Waits(c0) \cup P
      /\ cl.max_finished_seq_no = c0.max_finished_seq_no
  <2>1. ClientOK(c0, inc)
    BY DEF ClientsOK
  <2> HIDE DEF c0
  <2> QED
    BY <2>1, QueuedEffect DEF PushesOn
<1> HIDE DEF cl
<1>3. /\ ClientOK(AfterSend(cl), inc) /\ Waits(AfterSend(cl)) \subseteq Waits(cl)
      /\ AfterSend(cl).max_finished_seq_no = cl.max_finished_seq_no
      /\ \A m \in Sent(cl) : /\ \E n \in Waits(cl) : Like(m, n)
                             /\ m.incarnation = inc
                             /\ m.client_processed_up_to = cl.max_finished_seq_no
  BY <1>2, SendEffect, Zenon
<1> HIDE DEF now
<1>4. /\ DOMAIN clients' = Incarnations /\ clients'[inc] = AfterSend(cl)
      /\ \A i \in Incarnations : i # inc => clients'[i] = clients[i]
  BY <1>1, Zenon DEF ClientsOK
<1>5. ClientsOK'
  BY <1>3, <1>4, Zenon DEF ClientsOK
<1>6. \A i \in Incarnations : clients'[i].max_finished_seq_no = clients[i].max_finished_seq_no
  BY <1>2, <1>3, <1>4 DEF c0
<1>7. Waits(c0) \subseteq Everything
  BY DEF Everything, Sending, c0
<1>8. ASSUME NEW m \in now
      PROVE  /\ \E n \in Everything \cup P : Like(m, n)
             /\ m.incarnation = inc /\ m.client_processed_up_to \in {None, c0.max_finished_seq_no}
  <2>1. CASE m \in P
    BY <2>1, LikeItself DEF PushesOn
  <2>2. CASE m \in Sent(cl)
    BY <1>2, <1>3, <1>7, <2>2
  <2> QED
    BY <2>1, <2>2 DEF now
<1>9. Fresh(network', network, inc, clients[inc].max_finished_seq_no)
  BY <1>1, <1>8 DEF Fresh, c0
<1>10. Sending' \subseteq Everything \cup P
  <2>1. ASSUME NEW i \in Incarnations PROVE Waits(clients'[i]) \subseteq Everything \cup P
    <3>1. CASE i = inc
      BY <1>2, <1>3, <1>4, <1>7, <3>1
    <3>2. CASE i # inc
      <4>1. Waits(clients[i]) \subseteq Everything
        BY DEF Everything, Sending
      <4> QED
        BY <1>4, <3>2, <4>1
    <3> QED
      BY <3>1, <3>2, Zenon
  <2>2. Sending' = UNION {Waits(clients'[i]) : i \in Incarnations}
    BY Zenon DEF Sending, Waits, Elements
  <2> QED
    BY <2>1, <2>2
<1>11. ASSUME NEW m \in Everything' PROVE \E n \in Everything \cup P : Like(m, n)
  <2>1. m \in outstanding \cup network \cup received \cup now \/ m \in Sending'
    BY <1>1, Zenon DEF Everything
  <2>2. m \in now \/ m \in Everything \cup P
    BY <1>10, <2>1 DEF Everything
  <2>3. CASE m \in Everything \cup P
    BY <2>3, LikeItself, Zenon DEF PushesOn
  <2> QED
    BY <1>8, <2>2, <2>3, Zenon
<1> QED
  BY <1>5, <1>6, <1>9, <1>11, Zenon DEF Covered

\* The callback of an rpc: the client notes its sequence number and sends more.
LEMMA RpcClients ==
  ASSUME ClientsOK, NEW m \in outstanding, NEW status, RpcCallback(m, status),
         received' = received, m.incarnation \in Incarnations, m.seq_no \in Int,
         \A x \in Everything : IsRequest(x)
  PROVE  LET inc == m.incarnation
         IN  /\ ClientsOK' /\ Covered(Everything', Everything)
             /\ \A i \in Incarnations :
                   i # inc => clients'[i].max_finished_seq_no = clients[i].max_finished_seq_no
             /\ clients'[inc].max_finished_seq_no \in {clients[inc].max_finished_seq_no, m.seq_no}
             /\ Fresh(network', network, inc, clients'[inc].max_finished_seq_no)
<1> DEFINE inc == m.incarnation
           c0 == clients[inc]
           cl == Finished(c0, m)
           more == IF m.skip_queue THEN {} ELSE Sent(cl)
<1>1. /\ clients' = IF m.skip_queue THEN clients ELSE [clients EXCEPT ![inc] = AfterSend(cl)]
      /\ outstanding' = (outstanding \ {m}) \cup more /\ network' = network \cup more
  BY DEF RpcCallback
<1> HIDE DEF inc
<1>0. inc \in Incarnations
  BY Zenon DEF inc
<1>2. /\ ClientOK(cl, inc) /\ Waits(cl) = Waits(c0)
      /\ cl.max_finished_seq_no \in {c0.max_finished_seq_no, m.seq_no}
  <2>1. ClientOK(c0, inc)
    BY <1>0 DEF ClientsOK
  <2> HIDE DEF c0
  <2> QED
    BY <2>1, FinishedEffect
<1> HIDE DEF cl
<1>3. /\ ClientOK(AfterSend(cl), inc) /\ Waits(AfterSend(cl)) \subseteq Waits(cl)
      /\ AfterSend(cl).max_finished_seq_no = cl.max_finished_seq_no
      /\ \A x \in Sent(cl) : /\ \E n \in Waits(cl) : Like(x, n)
                             /\ x.incarnation = inc
                             /\ x.client_processed_up_to = cl.max_finished_seq_no
  BY <1>2, SendEffect, Zenon
<1>4. CASE m.skip_queue
  <2>1. clients' = clients /\ network' = network /\ outstanding' \subseteq outstanding
    BY <1>1, <1>4, Zenon
  <2>2. Everything' \subseteq Everything
    BY <2>1 DEF Everything, Sending
  <2>3. Fresh(network', network, inc, clients'[inc].max_finished_seq_no)
    BY <2>1, Zenon DEF Fresh
  <2> QED
    BY <2>1, <2>2, <2>3, LikeItself, Zenon DEF ClientsOK, Covered, inc
<1>5. CASE ~m.skip_queue
  <2>1. /\ DOMAIN clients' = Incarnations /\ clients'[inc] = AfterSend(cl)
        /\ \A i \in Incarnations : i # inc => clients'[i] = clients[i]
    BY <1>0, <1>1, <1>5, Zenon DEF ClientsOK
  <2>2. ClientsOK'
    BY <1>0, <1>3, <2>1 DEF ClientsOK
  <2>3. Waits(c0) \subseteq Everything
    BY <1>0, Zenon DEF Everything, Sending, c0
  <2>4. \A x \in Sent(cl) : \E n \in Everything : Like(x, n)
    BY <1>2, <1>3, <2>3
  <2>5. Sending' \subseteq Everything
    <3>1. ASSUME NEW i \in Incarnations PROVE Waits(clients'[i]) \subseteq Everything
      <4>1. CASE i = inc
        BY <1>2, <1>3, <2>1, <2>3, <4>1, Zenon
      <4>2. CASE i # inc
        <5>1. Waits(clients[i]) \subseteq Everything
          BY Zenon DEF Everything, Sending
        <5> QED
          BY <2>1, <4>2, <5>1, Zenon
      <4> QED
        BY <4>1, <4>2, Zenon
    <3>2. Sending' = UNION {Waits(clients'[i]) : i \in Incarnations}
      BY Zenon DEF Sending, Waits, Elements
    <3> QED
      BY <3>1, <3>2, Zenon
  <2>6. outstanding' \subseteq outstanding \cup Sent(cl) /\ network' = network \cup Sent(cl)
    BY <1>1, <1>5
  <2>7. ASSUME NEW x \in Everything' PROVE \E n \in Everything : Like(x, n)
    <3>1. x \in outstanding \cup network \cup received \cup Sent(cl) \/ x \in Sending'
      BY <2>6 DEF Everything
    <3>2. x \in Sent(cl) \/ x \in Everything
      BY <2>5, <3>1, Zenon DEF Everything
    <3> QED
      BY <2>4, <3>2, LikeItself, Zenon
  <2>8. Fresh(network', network, inc, clients'[inc].max_finished_seq_no)
    BY <1>3, <2>1, <2>6, Zenon DEF Fresh
  <2>9. clients'[inc].max_finished_seq_no \in {c0.max_finished_seq_no, m.seq_no}
    BY <1>2, <1>3, <2>1
  <2> QED
    BY <2>1, <2>2, <2>7, <2>8, <2>9, Zenon DEF Covered, inc, c0
<1> QED
  BY <1>4, <1>5, Zenon

----------------------------------------------------------------------------
\* The connection the caller has now, and what it sent on it.
Linked ==
    /\ num_restarts \in Int
    /\ rpc_client # None =>
          /\ rpc_client = num_restarts /\ rpc_client \in Incarnations /\ Heard(rpc_client)
          /\ \A m \in Everything :
                m.incarnation = rpc_client => Offset(m) = queue.caller_starts_at
    /\ rpc_client = None /\ state # "DEAD" =>
          \A m \in Everything : m.incarnation < num_restarts

\* Only a client that was connected has seen a reply.
FinishedHeard ==
    \A i \in Incarnations : clients[i].max_finished_seq_no # None => Heard(i)

\* The caller's part of the invariant.
CallerInv ==
    /\ ClientsOK /\ FinishedHeard
    /\ \A m \in Everything : RequestOK(m)
    /\ OneOffset(Everything)
    /\ Linked

\* What never goes back: settled tasks, the start of the numbering, restarts, notices.
Grows ==
    /\ SettledIn(result) \subseteq SettledIn(result')
    /\ queue.caller_starts_at <= queue'.caller_starts_at
    /\ task_counter <= task_counter' /\ notices \subseteq notices'
    /\ num_restarts <= num_restarts' /\ num_restarts' \in Int

LEMMA IncarnationsInt == Incarnations \subseteq Int
  BY ActorTasksAssumption DEF Incarnations

\* RequestOK does not depend on the stamp.
LEMMA LikeOK ==
  ASSUME NEW m, NEW n, Like(m, n)
  PROVE  Offset(m) = Offset(n) /\ m.incarnation = n.incarnation /\ (RequestOK(n) => RequestOK(m))
  BY Zenon DEF Like, Offset, RequestOK

\* A request stays good.
LEMMA GrowOK ==
  ASSUME IInv, IInv', num_restarts \in Int, Grows, NEW m, RequestOK(m)
  PROVE  RequestOK(m)'
<1>1. /\ task_counter \in Nat /\ task_counter' \in Nat
      /\ queue.caller_starts_at \in Nat /\ queue'.caller_starts_at \in Nat
  BY DEF IInv, QueueOK
<1>2. /\ m.task \in Int /\ Offset(m) \in Int /\ m.incarnation \in Int
  <2>1. m.task \in Nat /\ m.seq_no \in Int /\ m.incarnation \in Int
    BY TasksNat, IncarnationsInt, Zenon DEF RequestOK
  <2> QED
    BY <2>1 DEF Offset
<1>3. /\ m.incarnation <= num_restarts' /\ m.task < task_counter'
      /\ Offset(m) <= queue'.caller_starts_at
  BY <1>1, <1>2 DEF Grows, RequestOK
<1>4. Heard(m.incarnation)'
  BY Zenon DEF Grows, RequestOK, Heard
<1>5. m.skip_execution => m.task \in SettledIn(result')
  BY Zenon DEF Grows, RequestOK
<1> QED
  BY <1>3, <1>4, <1>5, Zenon DEF RequestOK, SettledIn, Offset

\* Pushes P with the offset of their connection keep all requests good.
LEMMA GrowAll ==
  ASSUME IInv, IInv', CallerInv, Grows, NEW P, Covered(Everything', Everything \cup P),
         \A m \in P : RequestOK(m)', OneOffset(P),
         \A m \in P, n \in Everything : m.incarnation = n.incarnation => Offset(m) = Offset(n)
  PROVE  /\ \A m \in Everything' : RequestOK(m)'
         /\ OneOffset(Everything')
<1>1. ASSUME NEW m \in Everything'
      PROVE  /\ RequestOK(m)'
             /\ \E n \in Everything \cup P : m.incarnation = n.incarnation /\ Offset(m) = Offset(n)
  <2>1. PICK n \in Everything \cup P : Like(m, n)
    BY Zenon DEF Covered
  <2>2. m.incarnation = n.incarnation /\ Offset(m) = Offset(n)
    BY <2>1, LikeOK, Zenon
  <2>3. RequestOK(n)'
    <3>1. CASE n \in P
      BY <3>1, Zenon
    <3>2. CASE n \in Everything
      <4>1. RequestOK(n) /\ num_restarts \in Int
        BY <3>2, Zenon DEF CallerInv, Linked
      <4> QED
        BY <4>1, GrowOK, Zenon
    <3> QED
      BY <3>1, <3>2, Zenon
  <2>4. RequestOK(m)'
    BY <2>1, <2>3, Zenon DEF Like, RequestOK, Offset
  <2> QED
    BY <2>2, <2>4
<1>2. OneOffset(Everything')
  <2>1. SUFFICES ASSUME NEW m \in Everything', NEW x \in Everything',
                        m.incarnation = x.incarnation
                 PROVE  Offset(m) = Offset(x)
    BY Zenon DEF OneOffset
  <2>2. PICK n \in Everything \cup P : m.incarnation = n.incarnation /\ Offset(m) = Offset(n)
    BY <1>1, Zenon
  <2>3. PICK y \in Everything \cup P : x.incarnation = y.incarnation /\ Offset(x) = Offset(y)
    BY <1>1
  <2>4. n.incarnation = y.incarnation
    BY <2>1, <2>2, <2>3, Zenon
  <2>5. Offset(n) = Offset(y)
    BY <2>4, Zenon DEF CallerInv, OneOffset
  <2> QED
    BY <2>2, <2>3, <2>5, Zenon
<1> QED
  BY <1>1, <1>2, Zenon

\* Steps that keep the connection, the pushes P being made on it.
SameConnection(P) ==
    /\ UNCHANGED <<rpc_client, num_restarts, state>>
    /\ queue'.caller_starts_at = queue.caller_starts_at
    /\ Covered(Everything', Everything \cup P)
    /\ \A m \in P : /\ RequestOK(m)' /\ rpc_client # None /\ m.incarnation = rpc_client
                    /\ Offset(m) = queue.caller_starts_at

\* Such steps keep the invariant.
LEMMA SameConnectionKeeps ==
  ASSUME IInv, IInv', CallerInv, Grows, NEW P, SameConnection(P), ClientsOK', FinishedHeard'
  PROVE  CallerInv'
<1>1. OneOffset(P) /\ \A m \in P, n \in Everything :
                          m.incarnation = n.incarnation => Offset(m) = Offset(n)
  BY Zenon DEF SameConnection, OneOffset, CallerInv, Linked
<1>2. /\ \A m \in Everything' : RequestOK(m)'
      /\ OneOffset(Everything')
  BY <1>1, GrowAll, Zenon DEF SameConnection
<1>3. ASSUME NEW m \in Everything'
      PROVE  \E n \in Everything \cup P : m.incarnation = n.incarnation /\ Offset(m) = Offset(n)
  BY LikeOK, Zenon DEF SameConnection, Covered
<1>4. Linked'
  <2>1. num_restarts' \in Int
    BY Zenon DEF Grows
  <2>2. ASSUME rpc_client' # None
        PROVE  /\ rpc_client' = num_restarts' /\ rpc_client' \in Incarnations /\ Heard(rpc_client)'
               /\ \A m \in Everything' :
                     m.incarnation = rpc_client' => Offset(m) = queue'.caller_starts_at
    <3>1. rpc_client = num_restarts /\ rpc_client \in Incarnations /\ Heard(rpc_client)
      BY <2>2, Zenon DEF CallerInv, Linked, SameConnection
    <3>2. Heard(rpc_client)'
      BY <3>1, Zenon DEF Heard, Grows, SameConnection
    <3>3. ASSUME NEW m \in Everything', m.incarnation = rpc_client'
          PROVE  Offset(m) = queue'.caller_starts_at
      <4>1. PICK n \in Everything \cup P : m.incarnation = n.incarnation /\ Offset(m) = Offset(n)
        BY <1>3, Zenon
      <4>2. Offset(n) = queue.caller_starts_at
        BY <2>2, <3>3, <4>1, Zenon DEF CallerInv, Linked, SameConnection
      <4> QED
        BY <4>1, <4>2, Zenon DEF SameConnection
    <3> QED
      BY <3>1, <3>2, <3>3, Zenon DEF SameConnection
  <2>3. ASSUME rpc_client' = None, state' # "DEAD", NEW m \in Everything'
        PROVE  m.incarnation < num_restarts'
    <3>1. rpc_client = None /\ state # "DEAD" /\ num_restarts' = num_restarts /\ P = {}
      BY <2>3, Zenon DEF SameConnection
    <3>2. PICK n \in Everything : m.incarnation = n.incarnation
      BY <1>3, <3>1, Zenon
    <3> QED
      BY <3>1, <3>2, Zenon DEF CallerInv, Linked
  <2> QED
    BY <2>1, <2>2, <2>3 DEF Linked
<1> QED
  BY <1>2, <1>4, Zenon DEF CallerInv, OneOffset

\* Steps that send nothing.
Silent ==
    /\ clients' = clients /\ outstanding' = outstanding
    /\ network' \cup received' \subseteq network \cup received
    /\ notices \subseteq notices'

\* They lose requests at most.
LEMMA SilentEffect ==
  ASSUME CallerInv, Silent
  PROVE  /\ ClientsOK' /\ FinishedHeard' /\ Everything' \subseteq Everything
         /\ Covered(Everything', Everything \cup {})
<1>1. Everything' \subseteq Everything
  BY Zenon DEF Silent, Everything, Sending
<1>2. ClientsOK' /\ FinishedHeard'
  BY Zenon DEF Silent, CallerInv, ClientsOK, FinishedHeard, Heard
<1>3. \A m \in Everything : IsRequest(m)
  BY Zenon DEF CallerInv, RequestOK
<1> QED
  BY <1>1, <1>2, <1>3, LikeItself, Zenon DEF Covered

LEMMA SilentKeeps ==
  ASSUME IInv, IInv', CallerInv, Grows, Silent, UNCHANGED <<rpc_client, num_restarts, state>>,
         queue'.caller_starts_at = queue.caller_starts_at
  PROVE  CallerInv'
<1>1. SameConnection({})
  BY SilentEffect, Zenon DEF SameConnection
<1> QED
  BY <1>1, SilentEffect, SameConnectionKeeps, Zenon

----------------------------------------------------------------------------
\* Every action of the caller keeps its requests in order

\* HandlePushTaskReply settles tasks, and the start of the numbering stays.
LEMMA RepliesGrow ==
  ASSUME NEW q, QueueOK(q), NEW S, NEW status, NEW st, NEW res \in [Tasks -> Results],
         HandlePushTaskReplies(q, S, status, st, res)
  PROVE  /\ SettledIn(res) \subseteq SettledIn(result')
         /\ queue'.caller_starts_at = q.caller_starts_at
<1> DEFINE real == {m.task : m \in {x \in S : ~x.skip_execution}}
           retried == IF status = "OK" THEN {} ELSE {c \in real : retries_left[c] > 0}
           final == CASE status = "OK" -> "OK"
                      [] status # "OK" /\ st = "DEAD" -> "failed"
                      [] OTHER -> "waiting_death_info"
           C == CompletedBy(S, retried)
<1>1. /\ result' = [c \in Tasks |-> IF c \in real \ retried THEN final ELSE res[c]]
      /\ queue' = MarkTasksCompleted(q, C)
  BY DEF HandlePushTaskReplies
<1>2. final \in SettledResults
  BY Zenon DEF SettledResults
<1> HIDE DEF real, retried, final, C
<1>3. SettledIn(res) \subseteq SettledIn(result')
  BY <1>1, <1>2, Zenon DEF SettledIn
<1>4. \E x, y : queue' = [q EXCEPT !.next_task_reply_position = x, !.out_of_order_completed_tasks = y]
  BY <1>1, Zenon DEF MarkTasksCompleted
<1> QED
  BY <1>3, <1>4 DEF QueueOK

\* What the ordering needs of the places: the numbering starts at a task before which
\* all are settled.
LEMMA QueueStart ==
  ASSUME IInv
  PROVE  /\ queue.caller_starts_at \in Nat /\ task_counter \in Nat
         /\ queue.caller_starts_at <= queue.next_task_reply_position
         /\ queue.next_task_reply_position \in Nat
         /\ \A c \in PendingIn(result) \cup SettledIn(result) : c < task_counter
         /\ \A c \in Tasks : c < queue.next_task_reply_position => c \in SettledIn(result)
         /\ DOMAIN queue.requests \subseteq PendingIn(result)
         /\ to_resubmit \subseteq PendingIn(result)
         /\ queue.out_of_order_completed_tasks \subseteq SettledIn(result)
         /\ PendingIn(result) \cap SettledIn(result) = {}
<1>1. queue.caller_starts_at \in Nat /\ task_counter \in Nat
      /\ queue.next_task_reply_position \in Nat
  BY Zenon DEF IInv, QueueOK
<1> QED
  BY <1>1, Zenon DEF IInv, PlacesOf, Places

\* The results, the positions and the connection of the queue stay, or grow.
Still ==
    /\ SettledIn(result) \subseteq SettledIn(result')
    /\ queue'.caller_starts_at = queue.caller_starts_at
    /\ task_counter <= task_counter'
    /\ UNCHANGED <<rpc_client, num_restarts, state>>

LEMMA StillGrows ==
  ASSUME IInv, CallerInv, Still, notices \subseteq notices'
  PROVE  Grows
<1>1. num_restarts \in Int /\ queue.caller_starts_at \in Nat
  BY QueueStart, Zenon DEF CallerInv, Linked
<1> QED
  BY <1>1 DEF Still, Grows

\* A step that is still for the caller and sends nothing keeps the invariant.
LEMMA StillKeeps ==
  ASSUME IInv, IInv', CallerInv, Still, Silent
  PROVE  CallerInv'
<1>1. Grows
  BY StillGrows, Zenon DEF Silent
<1> QED
  BY <1>1, SilentKeeps, Zenon DEF Still

\* The actions that are still: submission, failures and timeouts.
LEMMA SubmitStill ==
  ASSUME IInv, NEW c \in Tasks, SubmitTask(c),
         \/ c = task_counter /\ task_counter' = task_counter + 1
         \/ c \in to_resubmit /\ task_counter' = task_counter
  PROVE  Still
<1>1. QueueOK(queue) /\ result \in [Tasks -> Results]
  BY Zenon DEF IInv
<1>2. c \notin SettledIn(result) /\ task_counter <= task_counter'
  BY QueueStart
<1>3. UNCHANGED <<rpc_client, num_restarts, state>>
  BY Zenon DEF SubmitTask
<1>4. CASE state # "DEAD"
  <2>1. queue' = Emplace(queue, c) /\ result' = [result EXCEPT ![c] = "pending"]
    BY <1>4, Zenon DEF SubmitTask
  <2>2. queue'.caller_starts_at = queue.caller_starts_at
    BY <1>1, <2>1, EmplaceEffect, Zenon DEF SamePositions
  <2>3. SettledIn(result) \subseteq SettledIn(result')
    BY <1>1, <1>2, <2>1 DEF SettledIn
  <2> QED
    BY <1>2, <1>3, <2>2, <2>3, Zenon DEF Still
<1>5. CASE state = "DEAD"
  <2>1. queue' = queue /\ result' = [result EXCEPT ![c] = "failed"]
    BY <1>5, Zenon DEF SubmitTask
  <2>2. SettledIn(result) \subseteq SettledIn(result')
    BY <1>1, <2>1, Zenon DEF SettledIn, SettledResults
  <2> QED
    BY <1>2, <1>3, <2>1, <2>2, ZenonT(40) DEF Still
<1> QED
  BY <1>4, <1>5, Zenon

LEMMA DependencyFailedStill ==
  ASSUME IInv, NEW c \in Tasks, DependencyFailed(c)
  PROVE  Still
<1>1. QueueOK(queue) /\ result \in [Tasks -> Results] /\ task_counter \in Nat
  BY Zenon DEF IInv
<1>2. UNCHANGED <<task_counter, rpc_client, num_restarts, state>> /\ queue' = Erase(queue, {c})
  BY DEF DependencyFailed, handleVars, MarkDependencyFailed
<1>3. queue'.caller_starts_at = queue.caller_starts_at
  BY <1>1, <1>2, EraseEffect, Zenon DEF SamePositions
<1>4. result' = result \/ result' = [result EXCEPT ![c] = "failed"]
  BY Zenon DEF DependencyFailed
<1>5. SettledIn(result) \subseteq SettledIn(result')
  BY <1>1, <1>4, Zenon DEF SettledIn, SettledResults
<1> QED
  BY <1>1, <1>2, <1>3, <1>5 DEF Still

LEMMA ForceFailStill ==
  ASSUME IInv, NEW c \in Tasks, ForceFail(c)
  PROVE  Still
<1>1. QueueOK(queue) /\ result \in [Tasks -> Results] /\ task_counter \in Nat
  BY DEF IInv
<1>2. /\ UNCHANGED <<task_counter, rpc_client, num_restarts, state>>
      /\ \E S : HandlePushTaskReplies(queue, S, "IOError", state, result)
  BY Zenon DEF ForceFail, handleVars
<1> QED
  BY <1>1, <1>2, RepliesGrow DEF Still

LEMMA CheckTimeoutTasksStill ==
  ASSUME IInv, NEW S \in SUBSET Tasks, CheckTimeoutTasks(S)
  PROVE  Still
<1>1. /\ result' = [c \in Tasks |-> IF c \in S THEN "failed" ELSE result[c]]
      /\ UNCHANGED <<task_counter, queue, rpc_client, num_restarts, state>>
  BY Zenon DEF CheckTimeoutTasks, handleVars, submitVars
<1>2. result \in [Tasks -> Results] /\ task_counter \in Nat
  BY Zenon DEF IInv
<1>3. SettledIn(result) \subseteq SettledIn(result')
  BY <1>1, <1>2, Zenon DEF SettledIn, SettledResults
<1> QED
  BY <1>1, <1>2, <1>3 DEF Still

LEMMA RpcCallbackStill ==
  ASSUME IInv, NEW m, NEW status, RpcCallback(m, status)
  PROVE  Still
<1>1. QueueOK(queue) /\ result \in [Tasks -> Results] /\ task_counter \in Nat
  BY Zenon DEF IInv
<1>2. UNCHANGED <<task_counter, rpc_client, num_restarts, state>>
  BY Zenon DEF RpcCallback, handleVars
<1>3. \/ UNCHANGED <<result, queue>>
      \/ \E S : HandlePushTaskReplies(queue, S, status, state, result)
  BY Zenon DEF RpcCallback
<1>4. SettledIn(result) \subseteq SettledIn(result') /\ queue'.caller_starts_at = queue.caller_starts_at
  <2>1. CASE UNCHANGED <<result, queue>>
    BY <2>1, Zenon
  <2>2. CASE \E S : HandlePushTaskReplies(queue, S, status, state, result)
    BY <1>1, <2>2, RepliesGrow, Zenon
  <2> QED
    BY <1>3, <2>1, <2>2, Zenon
<1> QED
  BY <1>1, <1>2, <1>4 DEF Still

\* An rpc callback sends more requests on the connection of the rpc.
LEMMA RpcCallbackOrder ==
  ASSUME IInv, IInv', CallerInv, NEW m \in outstanding, NEW status, RpcCallback(m, status),
         received' = received
  PROVE  /\ CallerInv'
         /\ \A i \in Incarnations : i # m.incarnation =>
                clients'[i].max_finished_seq_no = clients[i].max_finished_seq_no
         /\ clients'[m.incarnation].max_finished_seq_no
               \in {clients[m.incarnation].max_finished_seq_no, m.seq_no}
         /\ Fresh(network', network, m.incarnation, clients'[m.incarnation].max_finished_seq_no)
<1>1. RequestOK(m) /\ ClientsOK /\ \A x \in Everything : IsRequest(x)
  BY Zenon DEF CallerInv, Everything, RequestOK
<1>2. m.incarnation \in Incarnations /\ m.seq_no \in Int /\ Heard(m.incarnation)
  BY <1>1 DEF RequestOK
<1> DEFINE inc == m.incarnation
<1>3. /\ ClientsOK' /\ Covered(Everything', Everything)
      /\ \A i \in Incarnations :
            i # inc => clients'[i].max_finished_seq_no = clients[i].max_finished_seq_no
      /\ clients'[inc].max_finished_seq_no \in {clients[inc].max_finished_seq_no, m.seq_no}
      /\ Fresh(network', network, inc, clients'[inc].max_finished_seq_no)
  BY <1>1, <1>2, RpcClients, Zenon
<1>4. Still /\ notices' = notices
  BY RpcCallbackStill DEF RpcCallback, gcsVars
<1>5. Grows
  BY <1>4, StillGrows, Zenon
<1>6. FinishedHeard'
  <2>1. FinishedHeard
    BY Zenon DEF CallerInv
  <2> HIDE DEF inc
  <2>2. Heard(inc)
    BY <1>2 DEF inc
  <2> QED
    BY <1>3, <1>4, <2>1, <2>2, Zenon DEF FinishedHeard, Heard
<1>7. SameConnection({})
  BY <1>3, <1>4, ZenonT(40) DEF SameConnection, Still, Covered
<1>8. CallerInv'
  BY <1>3, <1>5, <1>6, <1>7, SameConnectionKeeps, Zenon
<1> QED
  BY <1>3, <1>8, Zenon

\* What a connection with offset q.caller_starts_at pushes.
LEMMA PushesEffect ==
  ASSUME NEW q, q.caller_starts_at \in Nat, NEW D \in SUBSET Tasks, NEW W \in SUBSET Tasks,
         D \cap W = {}, NEW inc
  PROVE  /\ PushesOn(Pushes(q, D, W, inc), inc)
         /\ \A m \in Pushes(q, D, W, inc) :
               /\ m.task \in D \cup W /\ m.seq_no \in Int
               /\ Offset(m) = q.caller_starts_at /\ (m.skip_execution => m.task \in D)
<1> DEFINE a(c) == PushRequest(q, c, inc, TRUE, TRUE)
           b(c) == PushRequest(q, c, inc, FALSE, SkipQueue(q, c))
           P == {a(c) : c \in D} \cup {b(c) : c \in W}
           Made(m, c) == /\ m.task = c /\ IsRequest(m) /\ m.incarnation = inc
                         /\ m.client_processed_up_to = None /\ m.seq_no = c - q.caller_starts_at
<1>1. ASSUME NEW c PROVE Made(a(c), c)
  BY ZenonT(40) DEF PushRequest, IsRequest, GetSequenceNumber
<1>2. ASSUME NEW c PROVE Made(b(c), c) /\ ~b(c).skip_execution
  BY Zenon DEF PushRequest, IsRequest, GetSequenceNumber
<1>t. ASSUME NEW c PROVE a(c).task = c /\ b(c).task = c
  BY <1>1, <1>2, Zenon DEF Made
<1> HIDE DEF a, b, Made
<1>3. ASSUME NEW m \in P
      PROVE  Made(m, m.task) /\ m.task \in D \cup W /\ (m.skip_execution => m.task \in D)
  <2>1. CASE \E c \in D : m = a(c)
    BY <1>1, <1>t, <2>1, Zenon
  <2>2. CASE \E c \in W : m = b(c)
    <3>1. PICK c \in W : m = b(c)
      BY <2>2, Zenon
    <3>2. Made(b(c), c) /\ ~b(c).skip_execution /\ b(c).task = c
      BY <1>2, <1>t, Zenon
    <3> QED
      BY <3>1, <3>2, Zenon
  <2> QED
    BY <2>1, <2>2, Zenon
<1>4. Distinct(P)
  <2> SUFFICES ASSUME NEW m \in P, NEW n \in P, m.task = n.task PROVE m = n
    BY Zenon DEF Distinct
  <2>1. \/ \E c \in D : m = a(c)
        \/ \E c \in W : m = b(c)
    BY Zenon
  <2>2. \/ \E c \in D : n = a(c)
        \/ \E c \in W : n = b(c)
    BY Zenon
  <2> HIDE DEF P
  <2> QED
    BY <1>t, <2>1, <2>2
<1> HIDE DEF P
<1>5. ASSUME NEW m \in P PROVE m.seq_no \in Int /\ Offset(m) = q.caller_starts_at
  <2>1. m.task \in Nat /\ m.seq_no = m.task - q.caller_starts_at
    BY <1>3, TasksNat, Zenon DEF Made
  <2> QED
    BY <2>1 DEF Offset
<1>6. PushesOn(P, inc)
  BY <1>3, <1>4, Zenon DEF PushesOn, Made
<1>7. Pushes(q, D, W, inc) = P
  BY DEF Pushes, P, a, b
<1> QED
  BY <1>3, <1>5, <1>6, <1>7

\* SendPendingTasks numbers the tasks from the start of the connection.
LEMMA DependenciesResolvedOrder ==
  ASSUME IInv, IInv', CallerInv, NEW c \in Tasks, DependenciesResolved(c)
  PROVE  /\ CallerInv'
         /\ \A i \in Incarnations :
                clients'[i].max_finished_seq_no = clients[i].max_finished_seq_no
         /\ \/ network' = network
            \/ /\ rpc_client \in Incarnations
               /\ Fresh(network', network, rpc_client, clients[rpc_client].max_finished_seq_no)
<1> DEFINE q == MarkDependencyResolved(queue, c)
           W == Sendable(q)
           inc == rpc_client
           P == Pushes(q, {}, W, inc)
<1>1. QueueOK(queue) /\ queue.caller_starts_at \in Nat /\ DOMAIN queue.requests \subseteq PendingIn(result)
      /\ DOMAIN queue.requests \subseteq Tasks
  BY QueueStart, Zenon DEF IInv, QueueOK
<1>2. UNCHANGED <<task_counter, result, state, rpc_client, num_restarts, received, notices>>
  BY DEF DependenciesResolved, taskVars, handleVars, actorVars, gcsVars
<1>3. /\ QueueOK(q) /\ q.caller_starts_at = queue.caller_starts_at
      /\ DOMAIN q.requests = DOMAIN queue.requests
  BY <1>1, ResolvedEffect, Zenon DEF SamePositions
<1>4. /\ \/ inc # None /\ queue' = PopSendable(q) /\ PushActorTasks(SendPendingTasks(q, inc), inc, inflight)
         \/ queue' \in {q, PopSendable(q)} /\ UNCHANGED <<clients, outstanding, network>>
  BY Zenon DEF DependenciesResolved
<1> HIDE DEF q
<1>5. PopSendable(q).caller_starts_at = queue.caller_starts_at /\ W \subseteq DOMAIN queue.requests
  BY <1>3, PopEffect, Zenon DEF SamePositions
<1>6. Still /\ notices \subseteq notices'
  <2>1. task_counter \in Nat
    BY Zenon DEF IInv
  <2> HIDE DEF inc, P, W
  <2>2. queue'.caller_starts_at = queue.caller_starts_at
    BY <1>3, <1>4, <1>5, Zenon
  <2> QED
    BY <1>2, <2>1, <2>2 DEF Still
<1>7. Grows
  BY <1>6, StillGrows, Zenon
<1>8. CASE UNCHANGED <<clients, outstanding, network>>
  <2>1. Silent
    BY <1>2, <1>8, Zenon DEF Silent
  <2> QED
    BY <1>6, <1>8, <2>1, StillKeeps
<1>9. CASE inc # None /\ PushActorTasks(SendPendingTasks(q, inc), inc, inflight)
  <2>1. inc = num_restarts /\ inc \in Incarnations /\ Heard(inc)
    BY <1>9, Zenon DEF CallerInv, Linked
  <2>2. SendPendingTasks(q, inc) = P
    BY Zenon DEF SendPendingTasks, Pushes
  <2>3. W \in SUBSET Tasks /\ {} \cap W = {} /\ {} \in SUBSET Tasks
    BY <1>1, <1>5, Zenon
  <2>4. /\ PushesOn(P, inc)
        /\ \A m \in P : /\ m.task \in {} \cup W /\ m.seq_no \in Int
                        /\ Offset(m) = queue.caller_starts_at /\ (m.skip_execution => m.task \in {})
    <3> HIDE DEF W, inc
    <3> QED
      <4>1. q.caller_starts_at \in Nat
        BY <1>1, <1>3, Zenon
      <4>2. /\ PushesOn(Pushes(q, {}, W, inc), inc)
            /\ \A m \in Pushes(q, {}, W, inc) :
                  /\ m.task \in {} \cup W /\ m.seq_no \in Int
                  /\ Offset(m) = q.caller_starts_at /\ (m.skip_execution => m.task \in {})
        BY <2>3, <4>1, PushesEffect, Zenon
      <4> QED
        BY <1>3, <4>2
  <2> HIDE DEF P, W, inc
  <2>5. \A m \in Everything : IsRequest(m)
    BY Zenon DEF CallerInv, RequestOK
  <2>6. PushActorTasks(P, inc, inflight)
    BY <1>9, <2>2, Zenon
  <2>7. /\ ClientsOK' /\ Covered(Everything', Everything \cup P)
        /\ \A i \in Incarnations :
              clients'[i].max_finished_seq_no = clients[i].max_finished_seq_no
        /\ Fresh(network', network, inc, clients[inc].max_finished_seq_no)
    BY <1>2, <2>1, <2>4, <2>5, <2>6, PushClients, ZenonT(40) DEF CallerInv
  <2>8. FinishedHeard'
    BY <1>2, <2>7, ZenonT(40) DEF FinishedHeard, CallerInv, Heard
  <2>9. ASSUME NEW m \in P PROVE RequestOK(m)'
    <3>1. m.task \in PendingIn(result) /\ m.task \in Tasks /\ IsRequest(m) /\ m.incarnation = inc
      BY <1>1, <1>5, <2>4, ZenonT(40) DEF PushesOn
    <3>2. m.task < task_counter
      BY <3>1, QueueStart, Zenon
    <3>3. m.incarnation <= num_restarts /\ Offset(m) <= queue'.caller_starts_at
      BY <1>1, <1>6, <2>1, <2>4, <3>1, IncarnationsInt DEF Still
    <3>4. Heard(m.incarnation)'
      BY <1>2, <2>1, <3>1 DEF Heard
    <3> QED
      BY <1>2, <2>1, <2>4, <3>1, <3>2, <3>3, <3>4 DEF RequestOK, Offset
  <2>10. SameConnection(P)
    BY <1>6, <1>9, <2>4, <2>7, <2>9, Zenon DEF SameConnection, Still, PushesOn, inc
  <2> QED
    BY <1>7, <2>1, <2>7, <2>8, <2>10, SameConnectionKeeps DEF inc
<1> QED
  BY <1>4, <1>8, <1>9, Zenon

\* DisconnectActor leaves no connection: what was sent is for an earlier incarnation.
LEMMA DisconnectOrder ==
  ASSUME IInv, IInv', CallerInv, NEW restarts \in Int, NEW dead \in BOOLEAN,
         DisconnectActor(restarts, dead), UNCHANGED <<task_counter, received, notices>>
  PROVE  CallerInv' /\ clients' = clients /\ network' = network
<1> DEFINE failed == {c \in Tasks : c \in DOMAIN queue.requests
                                       \/ result[c] = "waiting_death_info"}
           q == IF dead THEN ClearAllTasks(queue) ELSE queue
           res == [c \in Tasks |-> IF dead /\ c \in failed THEN "failed" ELSE result[c]]
<1>1. QueueOK(queue) /\ result \in [Tasks -> Results] /\ task_counter \in Nat
      /\ queue.caller_starts_at \in Nat /\ num_restarts \in Int
  BY QueueStart, ZenonT(40) DEF IInv, CallerInv, Linked
<1>2. /\ HandlePushTaskReplies(q, FailInflightTasks, "IOError", state', res)
      /\ rpc_client' = None
      /\ UNCHANGED <<clients, outstanding, network>>
      /\ dead \/ restarts > num_restarts
      /\ state' = IF dead \/ state = "DEAD" THEN "DEAD" ELSE "RESTARTING"
      /\ num_restarts' = IF dead \/ state = "DEAD" THEN num_restarts ELSE restarts
  BY Zenon DEF DisconnectActor, DisconnectRpcClient
<1>3. /\ QueueOK(q) /\ q.caller_starts_at = queue.caller_starts_at
      /\ res \in [Tasks -> Results] /\ SettledIn(result) \subseteq SettledIn(res)
  <2>1. QueueOK(q) /\ q.caller_starts_at = queue.caller_starts_at
    BY <1>1, EraseEffect, Zenon DEF ClearAllTasks, SamePositions
  <2>2. res \in [Tasks -> Results] /\ SettledIn(result) \subseteq SettledIn(res)
    BY <1>1, Zenon DEF SettledIn, Results, SettledResults
  <2> QED
    BY <2>1, <2>2, Zenon
<1> HIDE DEF q, res
<1>4. SettledIn(result) \subseteq SettledIn(result') /\ queue'.caller_starts_at = queue.caller_starts_at
  BY <1>2, <1>3, RepliesGrow, Zenon
<1>5. num_restarts <= num_restarts' /\ num_restarts' \in Int
  BY <1>1, <1>2
<1>6. Grows
  BY <1>1, <1>4, <1>5 DEF Grows
<1>7. Silent
  BY <1>2, Zenon DEF Silent
<1>8. /\ ClientsOK' /\ FinishedHeard' /\ Everything' \subseteq Everything
      /\ Covered(Everything', Everything \cup {})
  BY <1>7, SilentEffect, Zenon
<1>9. /\ \A m \in Everything' : RequestOK(m)'
      /\ OneOffset(Everything')
  <2>1. OneOffset({})
    BY Zenon DEF OneOffset
  <2> QED
    BY <1>6, <1>8, <2>1, GrowAll, Zenon
<1>10. Linked'
  <2>1. ASSUME state' # "DEAD", NEW m \in Everything PROVE m.incarnation < num_restarts'
    <3>1. num_restarts' > num_restarts
      BY <1>2, <2>1, Zenon
    <3>2. m.incarnation <= num_restarts /\ m.incarnation \in Int
      BY IncarnationsInt, Zenon DEF CallerInv, RequestOK
    <3> QED
      BY <1>1, <1>5, <3>1, <3>2
  <2> QED
    BY <1>2, <1>5, <1>8, <2>1, Zenon DEF Linked
<1> QED
  BY <1>2, <1>8, <1>9, <1>10, Zenon DEF CallerInv, OneOffset

\* ConnectActor numbers from the reply position on. The incarnation is new to the
\* caller, so no request has another number for the same task on it.
LEMMA ConnectOrder ==
  ASSUME IInv, IInv', CallerInv, NEW inc \in Incarnations, Heard(inc), ConnectActor(inc),
         UNCHANGED <<task_counter, received, notices>>
  PROVE  /\ CallerInv'
         /\ \A i \in Incarnations :
                clients'[i].max_finished_seq_no = clients[i].max_finished_seq_no
         /\ Fresh(network', network, inc, clients[inc].max_finished_seq_no)
<1> DEFINE q == OnClientConnected(queue)
           D == queue.out_of_order_completed_tasks
           W == Sendable(q)
           P == Pushes(q, D, W, inc)
           r == PopAllOutOfOrderCompletedTasks(PopSendable(q))
           S == IF rpc_client # None THEN FailInflightTasks ELSE {}
           kept == IF rpc_client # None THEN [c \in {} |-> {}] ELSE inflight
           start == queue.next_task_reply_position
<1>1. /\ QueueOK(queue) /\ result \in [Tasks -> Results] /\ task_counter \in Nat
      /\ queue.caller_starts_at \in Nat /\ num_restarts \in Int /\ start \in Nat
      /\ queue.caller_starts_at <= start /\ DOMAIN queue.requests \subseteq Tasks
  BY QueueStart, Zenon DEF IInv, CallerInv, Linked, QueueOK
<1>2. /\ HandlePushTaskReplies(r, S, "IOError", "ALIVE", result)
      /\ PushActorTasks(ResendOutOfOrderTasks(q, inc) \cup SendPendingTasks(q, inc), inc, kept)
      /\ inc >= num_restarts /\ rpc_client # inc /\ state # "DEAD"
      /\ rpc_client' = inc /\ num_restarts' = inc
  BY Zenon DEF ConnectActor
<1>3. /\ QueueOK(r) /\ W \subseteq DOMAIN queue.requests
      /\ r.caller_starts_at = start /\ q.out_of_order_completed_tasks = D
  BY <1>1, ConnectedQueue, Zenon
<1>4. q.caller_starts_at = start
  BY <1>1, Zenon DEF OnClientConnected, QueueOK
<1>5. PushActorTasks(P, inc, kept)
  <2>1. ResendOutOfOrderTasks(q, inc) \cup SendPendingTasks(q, inc) = P
    BY <1>3, ZenonT(40) DEF ResendOutOfOrderTasks, SendPendingTasks, Pushes
  <2> QED
    BY <1>2, <2>1, Zenon
<1> HIDE DEF q, r, S, kept
<1>6. SettledIn(result) \subseteq SettledIn(result') /\ queue'.caller_starts_at = start
  BY <1>1, <1>2, <1>3, RepliesGrow, Zenon
<1>7. inc \in Int
  BY IncarnationsInt, Zenon
<1>8. Grows
  BY <1>1, <1>2, <1>6, <1>7 DEF Grows
<1>9. /\ D \subseteq SettledIn(result) /\ W \subseteq PendingIn(result) /\ D \cap W = {}
      /\ D \in SUBSET Tasks /\ W \in SUBSET Tasks
  <2> HIDE DEF W
  <2> QED
    BY <1>1, <1>3, QueueStart, Zenon DEF SettledIn
<1> HIDE DEF D, W, start
<1>10. /\ PushesOn(P, inc)
       /\ \A m \in P : /\ m.task \in D \cup W /\ m.seq_no \in Int
                       /\ Offset(m) = start /\ (m.skip_execution => m.task \in D)
  <2>1. q.caller_starts_at \in Nat
    BY <1>1, <1>4, Zenon
  <2>2. /\ PushesOn(Pushes(q, D, W, inc), inc)
        /\ \A m \in Pushes(q, D, W, inc) :
              /\ m.task \in D \cup W /\ m.seq_no \in Int
              /\ Offset(m) = q.caller_starts_at /\ (m.skip_execution => m.task \in D)
    BY <1>9, <2>1, PushesEffect, Zenon
  <2> QED
    BY <1>4, <2>2, Zenon
<1> HIDE DEF P
<1>11. \A m \in Everything : IsRequest(m)
  BY Zenon DEF CallerInv, RequestOK
<1>12. /\ ClientsOK' /\ Covered(Everything', Everything \cup P)
       /\ \A i \in Incarnations :
             clients'[i].max_finished_seq_no = clients[i].max_finished_seq_no
       /\ Fresh(network', network, inc, clients[inc].max_finished_seq_no)
  BY <1>5, <1>10, <1>11, PushClients, ZenonT(40) DEF CallerInv
<1>13. FinishedHeard'
  BY <1>12, Zenon DEF FinishedHeard, CallerInv, Heard
<1>14. ASSUME NEW m \in P PROVE RequestOK(m)' /\ m.incarnation = inc /\ Offset(m) = start
  <2>1. m.task \in Tasks /\ IsRequest(m) /\ m.incarnation = inc
    BY <1>10, Zenon DEF PushesOn
  <2>2. m.task < task_counter /\ (m.skip_execution => m.task \in SettledIn(result'))
    BY <1>6, <1>9, <1>10, QueueStart, Zenon
  <2>3. m.incarnation <= num_restarts' /\ Offset(m) <= queue'.caller_starts_at
    BY <1>1, <1>2, <1>6, <1>7, <1>10, <2>1
  <2>4. Heard(m.incarnation)'
    BY <2>1, Zenon DEF Heard
  <2> QED
    BY <1>10, <2>1, <2>2, <2>3, <2>4, Zenon DEF RequestOK, Offset, SettledIn
<1>15. ASSUME NEW m \in Everything PROVE m.incarnation # inc
  <2>1. m.incarnation <= num_restarts /\ m.incarnation \in Int
    BY IncarnationsInt, Zenon DEF CallerInv, RequestOK
  <2>2. CASE rpc_client = None
    BY <1>1, <1>2, <1>7, <2>1, <2>2 DEF CallerInv, Linked
  <2>3. CASE rpc_client # None
    BY <1>1, <1>2, <1>7, <2>1, <2>3 DEF CallerInv, Linked
  <2> QED
    BY <2>2, <2>3, Zenon
<1>16. OneOffset(P)
  BY <1>14, Zenon DEF OneOffset
<1>17. /\ \A m \in Everything' : RequestOK(m)'
       /\ OneOffset(Everything')
  BY <1>8, <1>12, <1>14, <1>15, <1>16, GrowAll, ZenonT(40)
<1>18. Linked'
  <2>1. inc # None
    BY ActorTasksAssumption DEF Incarnations, None
  <2>2. ASSUME NEW m \in Everything', m.incarnation = inc PROVE Offset(m) = start
    <3>1. PICK n \in Everything \cup P : Like(m, n)
      BY <1>12, Zenon DEF Covered
    <3>2. Offset(m) = Offset(n) /\ n.incarnation = inc
      BY <2>2, <3>1, LikeOK, Zenon
    <3> QED
      BY <1>14, <1>15, <3>2, Zenon
  <2>3. Heard(inc)'
    BY Zenon DEF Heard
  <2> QED
    BY <1>2, <1>6, <1>7, <2>1, <2>2, <2>3, Zenon DEF Linked
<1> QED
  BY <1>12, <1>13, <1>17, <1>18, Zenon DEF CallerInv, OneOffset

----------------------------------------------------------------------------
\* The whole system

\* The GCS says that an incarnation runs only once it does.
GcsOK ==
    /\ incarnation \in Incarnations /\ alive \in BOOLEAN
    /\ \A n \in notices :
          /\ n.num_restarts \in Incarnations
          /\ n.state = "ALIVE" => \/ n.num_restarts < incarnation
                                  \/ n.num_restarts = incarnation /\ (alive \/ Dead)
    /\ Dead => ~alive

\* Requests of the process that runs now carry no number beyond its own, as long as
\* no rpc failed: what the caller has the reply to was accepted or cancelled.
Stamped ==
    /\ faults \in Nat /\ \A m \in network : m.client_processed_up_to \in Int
    /\ alive /\ faults = 0 =>
          /\ clients[incarnation].max_finished_seq_no < next_seq_no
          /\ \A m \in network : m.incarnation = incarnation =>
                                   m.client_processed_up_to < next_seq_no

\* Replies are to requests of incarnations the caller has heard of.
Answers ==
    /\ \A m \in Replied : m.seq_no \in Nat /\ Heard(m.incarnation)
    /\ alive => AnsweredBefore(next_seq_no)

\* The inductive invariant of the ordering.
OrderInv == GcsOK /\ CallerInv /\ ActorInv /\ Answers /\ Stamped

\* It holds before the actor exists.
LEMMA OrderInit == Init => OrderInv
<1> SUFFICES ASSUME Init PROVE OrderInv
  BY Zenon
<1>1. /\ clients = [i \in Incarnations |->
                     [send_queue |-> <<>>, in_flight |-> 0, max_finished_seq_no |-> None]]
      /\ outstanding = {} /\ network = {} /\ faults = 0 /\ incarnation = 0
      /\ alive = FALSE /\ notices = {} /\ rpc_client = None /\ num_restarts = None
  BY Zenon DEF Init
<1>2. /\ next_seq_no = 0 /\ pending = [s \in {} |-> {}] /\ executing = {} /\ replies = {}
      /\ received = {} /\ executed = {} /\ gave_up = FALSE
  BY Zenon DEF Init, Actor!QueueInit
<1>3. Waits([send_queue |-> <<>>, in_flight |-> 0, max_finished_seq_no |-> None]) = {}
  BY DEF Waits, Elements
<1>4. ClientsOK /\ FinishedHeard
  <2>1. ASSUME NEW i \in Incarnations PROVE ClientOK(clients[i], i)
    <3> DEFINE cl == [send_queue |-> <<>>, in_flight |-> 0, max_finished_seq_no |-> None]
    <3>1. clients[i] = cl
      BY <1>1, Zenon
    <3>2. /\ cl.send_queue = <<>> /\ cl.in_flight = 0 /\ cl.max_finished_seq_no = -1
          /\ Waits(cl) = {}
      BY <1>3, Zenon DEF None
    <3>3. cl = [send_queue |-> cl.send_queue, in_flight |-> cl.in_flight,
                max_finished_seq_no |-> cl.max_finished_seq_no]
      BY Zenon
    <3> HIDE DEF cl
    <3>4. <<>> \in Seq({}) /\ 0 <= MaxRpcsInFlight
      BY ActorTasksAssumption
    <3> QED
      BY <3>1, <3>2, <3>3, <3>4 DEF ClientOK
  <2> QED
    BY <1>1, <2>1, Zenon DEF ClientsOK, FinishedHeard
<1>5. Everything = {}
  BY <1>1, <1>2, <1>3, Zenon DEF Everything, Sending
<1>6. CallerInv
  BY <1>1, <1>4, <1>5 DEF CallerInv, OneOffset, Linked, None
<1>7. GcsOK
  BY <1>1, ActorTasksAssumption DEF GcsOK, Dead, Incarnations
<1>8. ActorInv
  <2>1. DOMAIN pending = {}
    BY <1>2, Zenon
  <2>2. QueuedOK(pending, received)
    BY <2>1, Zenon DEF QueuedOK
  <2>3. Complete(next_seq_no, received, gave_up)
    BY <1>2 DEF Complete
  <2>4. ~alive => next_seq_no = 0
    BY <1>2, Zenon
  <2> QED
    BY <1>2, <2>2, <2>3, <2>4, Zenon DEF ActorInv
<1>9. Answers /\ Stamped
  BY <1>1, <1>2, Zenon DEF Answers, Replied, Stamped
<1> QED
  BY <1>6, <1>7, <1>8, <1>9 DEF OrderInv

\* Steps of the caller leave the actor's process alone.
ActorIdle ==
    /\ UNCHANGED <<incarnation, alive, notices, next_seq_no, pending, executing, received,
                   executed, gave_up>>
    /\ replies' \subseteq replies

\* The actor's part when the actor does nothing.
LEMMA IdleKeeps ==
  ASSUME OrderInv, ActorIdle, CallerInv', Stamped'
  PROVE  OrderInv' /\ StartedInOrder
<1>1. Replied' \subseteq Replied
  BY Zenon DEF ActorIdle, Replied
<1>2. GcsOK' /\ ActorInv'
  BY ZenonT(40) DEF OrderInv, ActorIdle, GcsOK, ActorInv, Dead, QueuedOK, Complete
<1>3. Answers'
  BY <1>1 DEF OrderInv, ActorIdle, Answers, AnsweredBefore, Heard
<1>4. StartedInOrder
  BY Zenon DEF ActorIdle, StartedInOrder
<1> QED
  BY <1>2, <1>3, <1>4, Zenon DEF OrderInv

\* Stamps when nothing is sent.
LEMMA QuietStamps ==
  ASSUME Stamped, ActorIdle, UNCHANGED <<clients, network, faults>>
  PROVE  Stamped'
  BY Zenon DEF Stamped, ActorIdle

\* What goes out on client inc is stamped with what this client has the replies of.
LEMMA FreshStamps ==
  ASSUME OrderInv, ActorIdle, ClientsOK', NEW inc \in Incarnations,
         faults' \in Nat, faults' = 0 => faults = 0,
         \A i \in Incarnations : i # inc =>
            clients'[i].max_finished_seq_no = clients[i].max_finished_seq_no,
         Fresh(network', network, inc, clients'[inc].max_finished_seq_no),
         alive /\ faults' = 0 /\ inc = incarnation =>
            clients'[inc].max_finished_seq_no < next_seq_no
  PROVE  Stamped'
<1> DEFINE v == clients'[inc].max_finished_seq_no
<1>1. v \in Int /\ None \in Int /\ None < 0
  BY DEF ClientsOK, ClientOK, None
<1>2. Stamped /\ next_seq_no \in Nat /\ incarnation \in Incarnations
  BY ZenonT(40) DEF OrderInv, ActorInv, GcsOK
<1>3. UNCHANGED <<incarnation, alive, next_seq_no>>
  BY ZenonT(40) DEF ActorIdle
<1>4. ASSUME NEW m \in network' PROVE m.client_processed_up_to \in Int
  BY <1>1, <1>2, Zenon DEF Fresh, Stamped
<1>5. ASSUME alive, faults' = 0
      PROVE  /\ clients'[incarnation].max_finished_seq_no < next_seq_no
             /\ \A m \in network' : m.incarnation = incarnation =>
                                       m.client_processed_up_to < next_seq_no
  <2>1. /\ clients[incarnation].max_finished_seq_no < next_seq_no
        /\ \A m \in network : m.incarnation = incarnation =>
                                 m.client_processed_up_to < next_seq_no
    BY <1>2, <1>5, Zenon DEF Stamped
  <2>2. clients'[incarnation].max_finished_seq_no < next_seq_no
    BY <1>2, <1>5, <2>1, Zenon
  <2> HIDE DEF v
  <2>3. ASSUME NEW m \in network', m.incarnation = incarnation
        PROVE  m.client_processed_up_to < next_seq_no
    <3>1. CASE m \in network
      BY <2>1, <2>3, <3>1, Zenon
    <3>2. CASE m \notin network
      <4>1. inc = incarnation /\ m.client_processed_up_to \in {None, v}
        BY <2>3, <3>2, Zenon DEF Fresh, v
      <4>2. v < next_seq_no
        BY <2>2, <4>1, Zenon DEF v
      <4>3. None < next_seq_no
        BY <1>1, <1>2
      <4> QED
        BY <4>1, <4>2, <4>3, Zenon
    <3> QED
      BY <3>1, <3>2, Zenon
  <2> QED
    BY <2>2, <2>3, Zenon
<1> QED
  BY <1>3, <1>4, <1>5, Zenon DEF Stamped

----------------------------------------------------------------------------
\* Every action keeps the invariant

\* The actions of the caller that send nothing.
LEMMA CallerQuiet ==
  ASSUME IInv, IInv', OrderInv, Still, ActorIdle, UNCHANGED <<clients, outstanding, network, faults>>
  PROVE  OrderInv' /\ StartedInOrder
<1>1. Silent
  BY Zenon DEF Silent, ActorIdle
<1>2. CallerInv'
  BY <1>1, StillKeeps, Zenon DEF OrderInv
<1>3. Stamped'
  BY QuietStamps, Zenon DEF OrderInv
<1> QED
  BY <1>2, <1>3, IdleKeeps, Zenon

\* The actions of the caller that send.
LEMMA DependenciesResolvedKeepsOrder ==
  ASSUME IInv, IInv', OrderInv, NEW c \in Tasks, DependenciesResolved(c)
  PROVE  OrderInv' /\ StartedInOrder
<1>1. ActorIdle /\ faults' = faults
  BY Zenon DEF DependenciesResolved, ActorIdle, gcsVars, actorVars
<1>2. /\ CallerInv'
      /\ \A i \in Incarnations :
            clients'[i].max_finished_seq_no = clients[i].max_finished_seq_no
      /\ \/ network' = network
         \/ /\ rpc_client \in Incarnations
            /\ Fresh(network', network, rpc_client, clients[rpc_client].max_finished_seq_no)
  BY DependenciesResolvedOrder, Zenon DEF OrderInv
<1>3. \E i \in Incarnations : Fresh(network', network, i, clients'[i].max_finished_seq_no)
  <2>1. incarnation \in Incarnations
    BY Zenon DEF OrderInv, GcsOK
  <2> QED
    BY <1>2, <2>1, Zenon DEF Fresh
<1>4. PICK inc \in Incarnations : Fresh(network', network, inc, clients'[inc].max_finished_seq_no)
  BY <1>3, Zenon
<1>5. alive /\ faults' = 0 /\ inc = incarnation => clients'[inc].max_finished_seq_no < next_seq_no
  BY <1>1, <1>2, Zenon DEF OrderInv, Stamped
<1>6. faults' \in Nat /\ ClientsOK'
  BY <1>1, <1>2, Zenon DEF OrderInv, Stamped, CallerInv
<1>7. Stamped'
  BY <1>1, <1>2, <1>4, <1>5, <1>6, FreshStamps, Zenon
<1> QED
  BY <1>1, <1>2, <1>7, IdleKeeps, Zenon

LEMMA NotificationKeepsOrder ==
  ASSUME IInv, IInv', OrderInv, NEW n \in notices, HandleActorStateNotification(n)
  PROVE  OrderInv' /\ StartedInOrder
<1>1. ActorIdle /\ UNCHANGED <<task_counter, received, notices, faults>>
  BY Zenon DEF HandleActorStateNotification, ActorIdle, gcsVars, actorVars, handleVars
<1>2. n.num_restarts \in Incarnations /\ n.num_restarts \in Int /\ CallerInv /\ faults \in Nat
  BY IncarnationsInt, Zenon DEF OrderInv, GcsOK, Stamped
<1>3. CASE n.state = "ALIVE" /\ ConnectActor(n.num_restarts)
  <2> DEFINE inc == n.num_restarts
  <2>1. Heard(inc)
    BY <1>3, Zenon DEF Heard
  <2>2. /\ CallerInv'
        /\ \A i \in Incarnations :
              clients'[i].max_finished_seq_no = clients[i].max_finished_seq_no
        /\ Fresh(network', network, inc, clients[inc].max_finished_seq_no)
    BY <1>1, <1>2, <1>3, <2>1, ConnectOrder, ZenonT(40)
  <2> HIDE DEF inc
  <2>3. inc \in Incarnations
    BY <1>2, Zenon DEF inc
  <2>4. alive /\ faults' = 0 /\ inc = incarnation => clients'[inc].max_finished_seq_no < next_seq_no
    BY <1>1, <2>2, <2>3, Zenon DEF OrderInv, Stamped
  <2>5. Fresh(network', network, inc, clients'[inc].max_finished_seq_no)
    BY <2>2, <2>3, Zenon
  <2>6. ClientsOK'
    BY <2>2, Zenon DEF CallerInv
  <2>7. Stamped'
    BY <1>1, <1>2, <2>2, <2>3, <2>4, <2>5, <2>6, FreshStamps, ZenonT(40)
  <2> QED
    BY <1>1, <2>2, <2>7, IdleKeeps, Zenon
<1>4. ASSUME NEW dead \in BOOLEAN, DisconnectActor(n.num_restarts, dead)
      PROVE  OrderInv' /\ StartedInOrder
  <2>1. CallerInv' /\ clients' = clients /\ network' = network
    BY <1>1, <1>2, <1>4, DisconnectOrder, Zenon
  <2>2. Stamped'
    BY <1>1, <2>1, QuietStamps, Zenon DEF OrderInv
  <2> QED
    BY <1>1, <2>1, <2>2, IdleKeeps, Zenon
<1> QED
  BY <1>3, <1>4, Zenon DEF HandleActorStateNotification

\* A reply moves max_finished_seq_no_ to a number the actor answered, so one before
\* its next_seq_no_.
LEMMA ReplyKeepsOrder ==
  ASSUME IInv, IInv', OrderInv, NEW m \in outstanding, NEW status, HandleReply(m, status)
  PROVE  OrderInv' /\ StartedInOrder
<1>1. /\ <<m, status>> \in replies /\ replies' = replies \ {<<m, status>>}
      /\ RpcCallback(m, status)
      /\ UNCHANGED <<faults, next_seq_no, pending, executing, received, executed, gave_up>>
  BY Zenon DEF HandleReply
<1>2. UNCHANGED <<incarnation, alive, notices>>
  BY <1>1, Zenon DEF RpcCallback, gcsVars
<1>3. ActorIdle
  BY <1>1, <1>2, Zenon DEF ActorIdle
<1> DEFINE inc == m.incarnation
<1>4. /\ CallerInv'
      /\ \A i \in Incarnations : i # inc =>
            clients'[i].max_finished_seq_no = clients[i].max_finished_seq_no
      /\ clients'[inc].max_finished_seq_no \in {clients[inc].max_finished_seq_no, m.seq_no}
      /\ Fresh(network', network, inc, clients'[inc].max_finished_seq_no)
  BY <1>1, RpcCallbackOrder, ZenonT(40) DEF OrderInv
<1>5. inc \in Incarnations /\ ClientsOK' /\ faults' \in Nat /\ faults' = faults
  BY <1>1, <1>4, Zenon DEF OrderInv, CallerInv, Everything, RequestOK, Stamped
<1>6. m \in Replied
  <2>1. <<m, status>>[1] = m
    BY Zenon
  <2> QED
    BY <1>1, <2>1, Zenon DEF Replied
<1>7. ASSUME alive, faults' = 0, inc = incarnation
      PROVE  clients'[inc].max_finished_seq_no < next_seq_no
  <2>1. m.seq_no < next_seq_no
    BY <1>6, <1>7, Zenon DEF OrderInv, Answers, AnsweredBefore
  <2>2. clients[inc].max_finished_seq_no < next_seq_no
    BY <1>5, <1>7, ZenonT(40) DEF OrderInv, Stamped
  <2> HIDE DEF inc
  <2> QED
    BY <1>4, <2>1, <2>2, Zenon
<1> HIDE DEF inc
<1>8. Stamped'
  BY <1>3, <1>4, <1>5, <1>7, FreshStamps, ZenonT(40)
<1> QED
  BY <1>3, <1>4, <1>8, IdleKeeps, Zenon

\* An rpc that fails moves it too; while the actor runs, that counts as a fault.
LEMMA RpcFailsKeepsOrder ==
  ASSUME IInv, IInv', OrderInv, NEW m \in outstanding, RpcFails(m)
  PROVE  OrderInv' /\ StartedInOrder
<1>1. /\ replies' \subseteq replies /\ RpcCallback(m, "IOError")
      /\ UNCHANGED <<next_seq_no, pending, executing, received, executed, gave_up>>
      /\ \/ ~(alive /\ m.incarnation = incarnation) /\ faults' = faults
         \/ faults' = faults + 1
  BY Zenon DEF RpcFails, Connected
<1>2. UNCHANGED <<incarnation, alive, notices>>
  BY <1>1, Zenon DEF RpcCallback, gcsVars
<1>3. ActorIdle
  BY <1>1, <1>2, Zenon DEF ActorIdle
<1> DEFINE inc == m.incarnation
<1>4. /\ CallerInv'
      /\ \A i \in Incarnations : i # inc =>
            clients'[i].max_finished_seq_no = clients[i].max_finished_seq_no
      /\ clients'[inc].max_finished_seq_no \in {clients[inc].max_finished_seq_no, m.seq_no}
      /\ Fresh(network', network, inc, clients'[inc].max_finished_seq_no)
  BY <1>1, RpcCallbackOrder, ZenonT(40) DEF OrderInv
<1>5. inc \in Incarnations /\ ClientsOK' /\ faults \in Nat
  BY <1>4, Zenon DEF OrderInv, CallerInv, Everything, RequestOK, Stamped
<1>6. /\ faults' \in Nat /\ (faults' = 0 => faults = 0)
      /\ ~(alive /\ faults' = 0 /\ inc = incarnation)
  BY <1>1, <1>5
<1> HIDE DEF inc
<1>7. Stamped'
  BY <1>3, <1>4, <1>5, <1>6, FreshStamps, ZenonT(40)
<1> QED
  BY <1>3, <1>4, <1>7, IdleKeeps, ZenonT(40)

\* A step of the actor or the GCS is still for the caller.
LEMMA SideStill ==
  ASSUME IInv, UNCHANGED submitterSide
  PROVE  Still /\ UNCHANGED <<clients, outstanding>>
<1>1. task_counter \in Nat
  BY Zenon DEF IInv
<1>2. UNCHANGED <<task_counter, result, queue, rpc_client, num_restarts, state, clients, outstanding>>
  BY Zenon DEF submitterSide, taskVars, handleVars, submitVars
<1> QED
  BY <1>1, <1>2 DEF Still

\* Steps of the actor's process.
LEMMA ActorKeepsOrder ==
  ASSUME IInv, IInv', OrderInv, ActorKeeps, alive, UNCHANGED submitterSide, UNCHANGED gcsVars,
         UNCHANGED faults, network' \subseteq network, received' \subseteq network \cup received
  PROVE  OrderInv' /\ StartedInOrder
<1>1. UNCHANGED <<incarnation, alive, notices>>
  BY Zenon DEF gcsVars
<1>2. Still /\ UNCHANGED <<clients, outstanding>>
  BY SideStill, Zenon
<1>3. Silent
  BY <1>1, <1>2, Zenon DEF Silent
<1>4. CallerInv'
  BY <1>2, <1>3, StillKeeps, Zenon DEF OrderInv
<1>5. GcsOK'
  BY <1>1, Zenon DEF OrderInv, GcsOK, Dead
<1>6. Answers'
  <2>1. ASSUME NEW x \in Replied' PROVE x.seq_no \in Nat /\ Heard(x.incarnation)'
    <3>1. CASE x \in Replied
      BY <1>1, <3>1, Zenon DEF OrderInv, Answers, Heard
    <3>2. CASE x \in received'
      <4>1. RequestOK(x)'
        BY <1>4, <3>2, Zenon DEF CallerInv, Everything
      <4> QED
        BY <3>2, <4>1, Zenon DEF RequestOK, ActorKeeps, ActorInv
    <3> QED
      BY <3>1, <3>2, Zenon DEF ActorKeeps
  <2> QED
    BY <2>1, Zenon DEF Answers, ActorKeeps
<1>7. Stamped'
  <2>1. next_seq_no \in Nat /\ next_seq_no' \in Nat /\ next_seq_no' >= next_seq_no
    BY Zenon DEF OrderInv, ActorInv, ActorKeeps
  <2>2. clients[incarnation].max_finished_seq_no \in Int
    BY ZenonT(40) DEF OrderInv, GcsOK, CallerInv, ClientsOK, ClientOK
  <2>3. faults \in Nat /\ \A m \in network : m.client_processed_up_to \in Int
    BY ZenonT(40) DEF OrderInv, Stamped
  <2>4. ASSUME faults = 0
        PROVE  /\ clients[incarnation].max_finished_seq_no < next_seq_no'
               /\ \A m \in network : m.incarnation = incarnation =>
                                        m.client_processed_up_to < next_seq_no'
    <3>1. /\ clients[incarnation].max_finished_seq_no < next_seq_no
          /\ \A m \in network : m.incarnation = incarnation =>
                                   m.client_processed_up_to < next_seq_no
      BY <2>4, Zenon DEF OrderInv, Stamped
    <3> QED
      BY <2>1, <2>2, <2>3, <3>1
  <2> QED
    BY <1>1, <1>2, <2>3, <2>4, Zenon DEF Stamped
<1> QED
  BY <1>4, <1>5, <1>6, <1>7, Zenon DEF OrderInv, ActorKeeps

LEMMA PushTaskKeepsOrder ==
  ASSUME IInv, IInv', OrderInv, NEW m \in network, HandlePushTask(m)
  PROVE  OrderInv' /\ StartedInOrder
<1>1. /\ alive /\ m.incarnation = incarnation /\ network' = network \ {m} /\ Actor!Add(m)
      /\ UNCHANGED submitterSide /\ UNCHANGED gcsVars /\ UNCHANGED faults
  BY Zenon DEF HandlePushTask, Connected
<1>2. UNCHANGED <<incarnation, alive>>
  BY <1>1, Zenon DEF gcsVars
<1>3. /\ ActorInv /\ AnsweredBefore(next_seq_no)
      /\ faults = 0 => m.client_processed_up_to < next_seq_no
  BY <1>1, Zenon DEF OrderInv, Answers, Stamped
<1>4. ActorKeeps /\ received' = received \cup {m}
  BY <1>1, <1>2, <1>3, AddEffect, Zenon
<1> QED
  BY <1>1, <1>4, ActorKeepsOrder, Zenon

LEMMA ActorStepKeepsOrder ==
  ASSUME IInv, IInv', OrderInv, ActorStep
  PROVE  OrderInv' /\ StartedInOrder
<1>1. /\ alive /\ UNCHANGED submitterSide /\ UNCHANGED gcsVars /\ UNCHANGED faults
      /\ network' = network
  BY Zenon DEF ActorStep
<1>2. UNCHANGED <<incarnation, alive>>
  BY <1>1, Zenon DEF gcsVars
<1>3. ActorInv /\ AnsweredBefore(next_seq_no)
  BY <1>1, Zenon DEF OrderInv, Answers
<1>4. ActorKeeps /\ received' = received
  BY <1>1, <1>2, <1>3, OnWaitCompleteEffect, ExpiryEffect, TimeoutEffect, FinishEffect,
     Zenon DEF ActorStep
<1> QED
  BY <1>1, <1>4, ActorKeepsOrder, Zenon

\* A crash empties the network and the process; the next incarnation is one nobody
\* has heard of, or there is none.
LEMMA CrashKeepsOrder ==
  ASSUME IInv, IInv', OrderInv, Crash
  PROVE  OrderInv' /\ StartedInOrder
<1> DEFINE k == Min({incarnation + 1, MaxRestarts})
           s == IF incarnation < MaxRestarts THEN "RESTARTING" ELSE "DEAD"
<1>1. /\ alive /\ alive' = FALSE /\ incarnation' = k
      /\ notices' = notices \cup {[state |-> s, num_restarts |-> k]}
      /\ network' = {} /\ next_seq_no' = 0 /\ pending' = [x \in {} |-> {}] /\ executing' = {}
      /\ received' = {} /\ executed' = {} /\ gave_up' = FALSE
      /\ UNCHANGED submitterSide /\ UNCHANGED <<faults, replies>>
  BY Zenon DEF Crash
<1>2. incarnation \in Nat /\ incarnation <= MaxRestarts /\ MaxRestarts \in Nat
  BY ActorTasksAssumption DEF OrderInv, GcsOK, Incarnations
<1>3. /\ k \in Incarnations
      /\ \/ incarnation < MaxRestarts /\ k = incarnation + 1
         \/ incarnation = MaxRestarts /\ k = incarnation
  <2>1. /\ k \in {incarnation + 1, MaxRestarts} /\ k <= incarnation + 1 /\ k <= MaxRestarts
    BY <1>2, MinOf
  <2> HIDE DEF k
  <2> QED
    BY <1>2, <2>1 DEF Incarnations
<1> DEFINE notice == [state |-> s, num_restarts |-> k]
<1>4. /\ notice.num_restarts = k /\ notice.state # "ALIVE"
      /\ incarnation = MaxRestarts => notice.state = "DEAD"
  BY <1>2
<1> HIDE DEF k, s, notice
<1>5. notices' = notices \cup {notice}
  BY <1>1, Zenon DEF notice
<1>6. GcsOK'
  <2>1. ASSUME NEW n \in notices', n.state = "ALIVE"
        PROVE  n.num_restarts < k \/ (n.num_restarts = k /\ Dead')
    <3>1. n \in notices
      BY <1>4, <1>5, <2>1, Zenon
    <3>2. /\ n.num_restarts \in Int
          /\ n.num_restarts < incarnation \/ n.num_restarts = incarnation
      <4>1. n.num_restarts \in Incarnations
        BY <3>1, Zenon DEF OrderInv, GcsOK
      <4>2. n.num_restarts < incarnation \/ n.num_restarts = incarnation
        BY <2>1, <3>1, Zenon DEF OrderInv, GcsOK
      <4> QED
        BY <4>1, <4>2, IncarnationsInt, Zenon
    <3>3. incarnation = MaxRestarts => Dead'
      BY <1>4, <1>5, Zenon DEF Dead
    <3> QED
      BY <1>2, <1>3, <3>2, <3>3
  <2>2. ASSUME NEW n \in notices' PROVE n.num_restarts \in Incarnations
    BY <1>3, <1>4, <1>5, Zenon DEF OrderInv, GcsOK
  <2> QED
    BY <1>1, <1>3, <2>1, <2>2, Zenon DEF GcsOK
<1>7. Still /\ UNCHANGED <<clients, outstanding>>
  BY <1>1, SideStill, Zenon
<1>8. Silent
  BY <1>1, <1>7, Zenon DEF Silent
<1>9. CallerInv'
  BY <1>7, <1>8, StillKeeps, Zenon DEF OrderInv
<1>10. ActorInv'
  <2>1. DOMAIN pending' = {}
    BY <1>1, Zenon
  <2>2. QueuedOK(pending, received)'
    BY <2>1, Zenon DEF QueuedOK
  <2>3. Complete(next_seq_no, received, gave_up)'
    BY <1>1 DEF Complete
  <2> QED
    BY <1>1, <2>2, <2>3, Zenon DEF ActorInv
<1>11. Answers' /\ Stamped'
  BY <1>1, <1>5, Zenon DEF OrderInv, Answers, Stamped, Replied, Heard
<1> QED
  BY <1>1, <1>6, <1>9, <1>10, <1>11, Zenon DEF OrderInv, StartedInOrder

\* A process that starts has the numbers of nobody: no request names its incarnation.
LEMMA StartKeepsOrder ==
  ASSUME IInv, IInv', OrderInv, Start
  PROVE  OrderInv' /\ StartedInOrder
<1> DEFINE notice == [state |-> "ALIVE", num_restarts |-> incarnation]
<1>1. /\ ~alive /\ ~Dead /\ alive' = TRUE /\ notices' = notices \cup {notice}
      /\ UNCHANGED submitterSide
      /\ UNCHANGED <<network, faults, incarnation, next_seq_no, pending, executing, replies,
                     received, executed, gave_up>>
  BY Zenon DEF Start, Dead, actorVars
<1>2. notice.state = "ALIVE" /\ notice.num_restarts = incarnation
  BY Zenon
<1> HIDE DEF notice
<1>3. GcsOK'
  <2>1. ~Dead'
    BY <1>1, <1>2, Zenon DEF Dead
  <2> QED
    BY <1>1, <1>2, <2>1, Zenon DEF OrderInv, GcsOK
<1>4. Still /\ UNCHANGED <<clients, outstanding>>
  BY <1>1, SideStill, Zenon
<1>5. Silent
  BY <1>1, <1>4, Zenon DEF Silent
<1>6. CallerInv'
  BY <1>4, <1>5, StillKeeps DEF OrderInv
<1>7. ActorInv' /\ next_seq_no = 0
  BY <1>1, Zenon DEF OrderInv, ActorInv, QueuedOK, Complete
<1>8. ~Heard(incarnation)
  <2>1. incarnation \in Int
    BY IncarnationsInt, Zenon DEF OrderInv, GcsOK
  <2> QED
    BY <1>1, <2>1 DEF OrderInv, GcsOK, Heard
<1>9. Answers'
  BY <1>1, <1>8, Zenon DEF OrderInv, Answers, AnsweredBefore, Replied, Heard
<1>10. Stamped'
  <2>1. clients[incarnation].max_finished_seq_no = None
    BY <1>8, Zenon DEF OrderInv, CallerInv, FinishedHeard, GcsOK
  <2>2. \A m \in network : m.incarnation # incarnation
    BY <1>8, Zenon DEF OrderInv, CallerInv, Everything, RequestOK
  <2> QED
    BY <1>1, <1>4, <1>7, <2>1, <2>2 DEF OrderInv, Stamped, None
<1> QED
  BY <1>1, <1>3, <1>6, <1>7, <1>9, <1>10, Zenon DEF OrderInv, StartedInOrder

\* Every step keeps the invariant and starts tasks in order.
LEMMA OrderStep ==
  ASSUME IInv, IInv', OrderInv, [Next]_vars
  PROVE  OrderInv' /\ StartedInOrder
<1> USE DEF netVars, gcsVars, actorVars, ActorIdle
<1>1. CASE SubmitActorTask
  <2>1. /\ SubmitTask(task_counter) /\ task_counter' = task_counter + 1
        /\ task_counter < MaxTasks /\ UNCHANGED <<netVars, gcsVars, actorVars>>
    BY <1>1, Zenon DEF SubmitActorTask
  <2>2. task_counter \in Tasks
    BY <2>1, ActorTasksAssumption DEF IInv, Tasks
  <2>3. Still
    BY <2>1, <2>2, SubmitStill, Zenon
  <2> QED
    BY <2>1, <2>3, CallerQuiet, Zenon
<1>2. ASSUME NEW c \in Tasks, Resubmit(c) PROVE OrderInv' /\ StartedInOrder
  <2>1. /\ SubmitTask(c) /\ c \in to_resubmit /\ task_counter' = task_counter
        /\ UNCHANGED <<netVars, gcsVars, actorVars>>
    BY <1>2, Zenon DEF Resubmit, handleVars
  <2>2. Still
    BY <2>1, SubmitStill, Zenon
  <2> QED
    BY <2>1, <2>2, CallerQuiet, Zenon
<1>3. ASSUME NEW c \in Tasks, DependencyFailed(c) PROVE OrderInv' /\ StartedInOrder
  <2>1. Still /\ UNCHANGED <<netVars, gcsVars, actorVars>>
    BY <1>3, DependencyFailedStill, ZenonT(40) DEF DependencyFailed
  <2> QED
    BY <2>1, CallerQuiet, Zenon
<1>4. ASSUME NEW c \in Tasks, ForceFail(c) PROVE OrderInv' /\ StartedInOrder
  <2>1. Still /\ UNCHANGED <<netVars, gcsVars, actorVars>>
    BY <1>4, ForceFailStill, Zenon DEF ForceFail
  <2> QED
    BY <2>1, CallerQuiet
<1>5. ASSUME NEW S \in SUBSET Tasks, CheckTimeoutTasks(S) PROVE OrderInv' /\ StartedInOrder
  <2>1. Still /\ UNCHANGED <<netVars, gcsVars, actorVars>>
    BY <1>5, CheckTimeoutTasksStill, Zenon DEF CheckTimeoutTasks
  <2> QED
    BY <2>1, CallerQuiet, Zenon
<1>6. CASE UNCHANGED vars
  <2>1. UNCHANGED submitterSide /\ UNCHANGED <<netVars, gcsVars, actorVars>>
    BY <1>6, Zenon DEF vars, submitterSide
  <2>2. Still
    BY <2>1, SideStill, Zenon
  <2> QED
    BY <2>1, <2>2, CallerQuiet, Zenon
<1>7. ASSUME NEW c \in Tasks, DependenciesResolved(c) PROVE OrderInv' /\ StartedInOrder
  BY <1>7, DependenciesResolvedKeepsOrder, Zenon
<1>8. ASSUME NEW n \in notices, HandleActorStateNotification(n) PROVE OrderInv' /\ StartedInOrder
  BY <1>8, NotificationKeepsOrder, Zenon
<1>9. ASSUME NEW m \in outstanding, NEW status, HandleReply(m, status) PROVE OrderInv' /\ StartedInOrder
  BY <1>9, ReplyKeepsOrder, Zenon
<1>10. ASSUME NEW m \in outstanding, RpcFails(m) PROVE OrderInv' /\ StartedInOrder
  BY <1>10, RpcFailsKeepsOrder
<1>11. ASSUME NEW m \in network, HandlePushTask(m) PROVE OrderInv' /\ StartedInOrder
  BY <1>11, PushTaskKeepsOrder
<1> QED
  BY <1>1, <1>2, <1>3, <1>4, <1>5, <1>6, <1>7, <1>8, <1>9, <1>10, <1>11,
     ActorStepKeepsOrder, CrashKeepsOrder, StartKeepsOrder, Zenon DEF Next

\* Sequence numbers are the order of the tasks on every connection, through restarts,
\* resends, lost rpcs and late notifications, and the queue of the actor that runs
\* follows them.
THEOREM OrderInvariance == Spec => [](IInv /\ OrderInv)
<1>1. IInv /\ IInv' /\ OrderInv /\ [Next]_vars => OrderInv'
  BY OrderStep, Zenon
<1> QED
  BY <1>1, OrderInit, PlacesInvariance, PTL DEF Spec

\* A task starts in a step of the actor's process, which receives requests and
\* loses none.
LEMMA StartsElsewhere ==
  ASSUME [Next]_vars, IInv, OrderInv, NEW m \in executing' \ executing
  PROVE  received \subseteq received' /\ UNCHANGED <<result, queue>>
<1> USE DEF netVars, gcsVars, actorVars, submitterSide, taskVars, submitVars
<1>1. ASSUME NEW x \in network, HandlePushTask(x)
      PROVE  received \subseteq received' /\ UNCHANGED <<result, queue>>
  BY <1>1, Zenon DEF HandlePushTask, Actor!Add
<1>2. CASE ActorStep
  BY <1>2, ZenonT(40) DEF ActorStep, Actor!OnWaitComplete, Actor!TimerExpires,
     Actor!OnSequencingWaitTimeout, Actor!Finish
<1>3. CASE UNCHANGED executing
  BY <1>3, Zenon
<1>4. Crash => executing' = {}
  BY Zenon DEF Crash
<1>5. ASSUME ~ActorStep, ~(\E x \in network : HandlePushTask(x)), ~Crash
      PROVE  UNCHANGED executing
  <2>1. CASE SubmitActorTask
    BY <2>1, Zenon DEF SubmitActorTask
  <2>2. ASSUME NEW c, Resubmit(c) PROVE UNCHANGED executing
    BY <2>2, Zenon DEF Resubmit
  <2>3. ASSUME NEW c, DependenciesResolved(c) PROVE UNCHANGED executing
    BY <2>3, Zenon DEF DependenciesResolved
  <2>4. ASSUME NEW c, DependencyFailed(c) PROVE UNCHANGED executing
    BY <2>4, Zenon DEF DependencyFailed
  <2>5. ASSUME NEW c, ForceFail(c) PROVE UNCHANGED executing
    BY <2>5, Zenon DEF ForceFail
  <2>6. ASSUME NEW n, HandleActorStateNotification(n) PROVE UNCHANGED executing
    BY <2>6, Zenon DEF HandleActorStateNotification
  <2>7. ASSUME NEW S, CheckTimeoutTasks(S) PROVE UNCHANGED executing
    BY <2>7, Zenon DEF CheckTimeoutTasks
  <2>8. ASSUME NEW x, NEW status, HandleReply(x, status) PROVE UNCHANGED executing
    BY <2>8, Zenon DEF HandleReply
  <2>9. ASSUME NEW x, RpcFails(x) PROVE UNCHANGED executing
    BY <2>9, Zenon DEF RpcFails
  <2>10. CASE Start
    BY <2>10, Zenon DEF Start
  <2>11. CASE UNCHANGED vars
    BY <2>11, Zenon DEF vars
  <2> QED
    BY <1>5, <2>1, <2>2, <2>3, <2>4, <2>5, <2>6, <2>7, <2>8, <2>9, <2>10, <2>11, Zenon DEF Next
<1> QED
  BY <1>1, <1>2, <1>3, <1>4, <1>5, Zenon

\* For every number of tasks, retries, restarts and lost rpcs, the process of an actor
\* starts the tasks of a caller in the order of submission, and none twice.
THEOREM StartsAreOrdered == Spec => TasksStartInOrder
<1>1. ASSUME IInv, OrderInv, IInv', OrderInv', [Next]_vars,
             NEW m \in executing' \ executing, NEW x \in received, x.seq_no \in executed
      PROVE  x.task < m.task
  <2>1. m \in received' /\ next_seq_no <= m.seq_no /\ next_seq_no \in Nat
    BY <1>1, OrderStep, ZenonT(40) DEF StartedInOrder, OrderInv, ActorInv
  <2>2. x.seq_no < next_seq_no /\ x.seq_no \in Nat
    BY <1>1, <2>1 DEF OrderInv, ActorInv
  <2>3. x \in received' /\ m.incarnation = x.incarnation
    BY <1>1, <2>1, StartsElsewhere, Zenon DEF OrderInv, ActorInv
  <2>4. Offset(x) = Offset(m)
    BY <1>1, <2>1, <2>3, Zenon DEF OrderInv, CallerInv, OneOffset, Everything
  <2>5. RequestOK(x)' /\ RequestOK(m)'
    BY <1>1, <2>1, <2>3, Zenon DEF OrderInv, CallerInv, Everything
  <2>6. x.task \in Nat /\ m.task \in Nat /\ m.seq_no \in Int
    BY <2>5, TasksNat, Zenon DEF RequestOK
  <2> QED
    BY <2>1, <2>2, <2>4, <2>6 DEF Offset
<1>2. IInv /\ OrderInv /\ IInv' /\ OrderInv' /\ [Next]_vars
        => [\A m \in executing' \ executing :
              \A x \in received : x.seq_no \in executed => x.task < m.task]_vars
  BY <1>1, Zenon
<1> QED
  BY <1>2, OrderInvariance, PTL DEF Spec, TasksStartInOrder

\* While no rpc to a running process failed and the actor has not given up waiting, a
\* task starts only when every earlier task was settled before or is started too:
\* OnClientConnected and ResendOutOfOrderTasks leave no hole in the numbering.
THEOREM NothingOvertakes == Spec => NoOvertaking
<1>1. ASSUME IInv, OrderInv, IInv', OrderInv', [Next]_vars,
             NEW m \in executing' \ executing, ~gave_up, faults = 0,
             NEW d \in 0 .. m.task - 1
      PROVE  \/ result[d] \in {"OK", "failed", "waiting_death_info"}
             \/ d - (m.task - m.seq_no) \in executed'
  <2>1. m \in received' /\ m.seq_no < next_seq_no' /\ next_seq_no' \in Nat /\ ~gave_up'
    BY <1>1, OrderStep, Zenon DEF StartedInOrder, OrderInv, ActorInv
  <2>2. RequestOK(m)'
    BY <1>1, <2>1, Zenon DEF OrderInv, CallerInv, Everything
  <2>3. /\ m.task \in Tasks /\ m.task \in Nat /\ m.seq_no \in Int
        /\ Offset(m) <= queue'.caller_starts_at
    BY <2>2, TasksNat, Zenon DEF RequestOK
  <2>4. UNCHANGED <<result, queue>>
    BY <1>1, StartsElsewhere, Zenon
  <2>5. d \in Tasks /\ d \in Int /\ d < m.task
    BY <2>3, ActorTasksAssumption DEF Tasks
  <2>6. SettledIn(result) \subseteq {c \in Tasks : result[c] \in {"OK", "failed", "waiting_death_info"}}
    BY Zenon DEF SettledIn, SettledResults
  <2>7. CASE d < Offset(m)
    <3>1. d < queue.next_task_reply_position
      BY <1>1, <2>3, <2>4, <2>5, <2>7, QueueStart DEF Offset
    <3>2. d \in SettledIn(result)
      BY <1>1, <2>5, <3>1, QueueStart, Zenon
    <3> QED
      BY <2>6, <3>2, Zenon
  <2>8. CASE ~(d < Offset(m))
    <3> DEFINE s == d - (m.task - m.seq_no)
    <3>1. s \in 0 .. next_seq_no' - 1
      BY <2>1, <2>3, <2>5, <2>8 DEF Offset
    <3>2. Complete(next_seq_no, received, gave_up)'
      BY <1>1, Zenon DEF OrderInv, ActorInv
    <3>3. s \in executed' \/ \E x \in received' : x.seq_no = s /\ x.skip_execution
      BY <2>1, <3>1, <3>2, Zenon DEF Complete
    <3>4. ASSUME NEW x \in received', x.seq_no = s, x.skip_execution
          PROVE  d \in SettledIn(result)
      <4>1. RequestOK(x)' /\ Offset(x) = Offset(m)
        BY <1>1, <2>1, Zenon DEF OrderInv, CallerInv, Everything, OneOffset, ActorInv
      <4>2. x.task \in Tasks /\ x.task \in Nat /\ x.task \in SettledIn(result)
        BY <2>4, <3>4, <4>1, TasksNat, Zenon DEF RequestOK, SettledIn
      <4>3. x.task = d
        BY <2>3, <2>5, <3>4, <4>1, <4>2 DEF Offset
      <4> QED
        BY <4>2, <4>3, Zenon
    <3> QED
      BY <2>6, <3>3, <3>4, Zenon
  <2> QED
    BY <2>7, <2>8, Zenon
<1>2. IInv /\ OrderInv /\ IInv' /\ OrderInv' /\ [Next]_vars
        => [\A m \in executing' \ executing :
              ~gave_up /\ faults = 0 =>
                  \A d \in 0 .. m.task - 1 :
                      \/ result[d] \in {"OK", "failed", "waiting_death_info"}
                      \/ d - (m.task - m.seq_no) \in executed']_vars
  BY <1>1
<1> QED
  BY <1>2, OrderInvariance, PTL DEF Spec, NoOvertaking

=============================================================================
