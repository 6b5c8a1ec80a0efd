-------------------------- MODULE MCPoolReconciler --------------------------
(***************************************************************************)
(* A small instance of PoolReconciler for TLC: one pool of each kind,       *)
(* with one pod.                                                            *)
(***************************************************************************)
EXTENDS PoolReconciler, TLC

OneOfEach ==
    {[kind |-> k, autoscaling |-> a, replicas |-> 1] :
        <<k, a>> \in {<<"worker", FALSE>>, <<"worker", TRUE>>,
                     <<"snapshot", FALSE>>}}
=============================================================================
