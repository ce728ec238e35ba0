------------------------- MODULE MCDeploymentState --------------------------
(***************************************************************************)
(* DeploymentState on a small instance: one replica of a version, two of  *)
(* a version left open, and the code of the first without a user_config,   *)
(* autoscaled between none and two replicas.                               *)
(***************************************************************************)
EXTENDS DeploymentState

MCInfos ==
    {[num |-> 1, auto |-> {}, code |-> 1, conf |-> "c"],
     [num |-> 2, auto |-> {}, code |-> None, conf |-> "c"],
     [num |-> 0, auto |-> {0, 1, 2}, code |-> 1, conf |-> None]}
=============================================================================
