---------------------------- MODULE SessionCalls ----------------------------
(***************************************************************************)
(* What a Ray Client session promises its application, whatever happens to *)
(* the connection: the requests are executed in the order in which they    *)
(* were made and never twice, an answer is one of an executed request, and *)
(* a caller gets an answer or an error, once.  Reads leave no trace on the *)
(* server.                                                                 *)
(***************************************************************************)
EXTENDS Naturals, Sequences

CONSTANT Ids

VARIABLES
    calls,      \* the ids of the requests made, in order
    reads,      \* those that are reads
    log,        \* the ids of the requests executed, in order
    answered, failed

vars == <<calls, reads, log, answered, failed>>

Made == {calls[i] : i \in DOMAIN calls}
Executed == {log[i] : i \in DOMAIN log}
Waiting == Made \ (answered \cup failed)

Init ==
    /\ calls = <<>> /\ reads = {}
    /\ log = <<>>
    /\ answered = {} /\ failed = {}

Call(id) ==
    /\ id \notin Made
    /\ calls' = Append(calls, id)
    /\ reads' \in {reads, reads \cup {id}}
    /\ UNCHANGED <<log, answered, failed>>

\* The first request, reads aside, that was not executed yet.
IsNext(id) ==
    \E i \in DOMAIN calls :
        /\ calls[i] = id /\ id \notin reads
        /\ id \notin Executed
        /\ \A j \in 1..(i - 1) : calls[j] \in reads \cup Executed

Execute(id) ==
    /\ IsNext(id)
    /\ log' = Append(log, id)
    /\ UNCHANGED <<calls, reads, answered, failed>>

Answer(id) ==
    /\ id \in Waiting
    /\ id \in reads \cup Executed
    /\ answered' = answered \cup {id}
    /\ UNCHANGED <<calls, reads, log, failed>>

\* A session that ends fails every request that waits.
Fail(ids) ==
    /\ ids # {} /\ ids \subseteq Waiting
    /\ failed' = failed \cup ids
    /\ UNCHANGED <<calls, reads, log, answered>>

Next ==
    \/ \E id \in Ids : Call(id) \/ Execute(id) \/ Answer(id)
    \/ \E ids \in SUBSET Waiting : Fail(ids)

Spec == Init /\ [][Next]_vars
=============================================================================
