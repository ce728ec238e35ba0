----------------------- MODULE MCActorSchedulingQueue -----------------------
(***************************************************************************)
(* Requests with the numbers 0..3. Numbers 0..2 are sent twice, number 0   *)
(* the second time with skip_execution; numbers 1 and 3 have plasma        *)
(* arguments; one request carries client_processed_up_to = 0.              *)
(***************************************************************************)
EXTENDS ActorSchedulingQueue

MCRequest(id, seq, upto, deps, skip) ==
    [id |-> id, seq_no |-> seq, client_processed_up_to |-> upto,
     dependencies |-> deps, skip_execution |-> skip]

MCRequests ==
    {MCRequest(1, 0, -1, FALSE, FALSE), MCRequest(2, 0, -1, FALSE, TRUE),
     MCRequest(3, 1, -1, TRUE, FALSE), MCRequest(4, 1, -1, TRUE, FALSE),
     MCRequest(5, 2, 0, FALSE, FALSE), MCRequest(6, 2, -1, FALSE, FALSE),
     MCRequest(7, 3, -1, TRUE, FALSE)}

=============================================================================
