------------------------ MODULE MCClusterReconciler ------------------------
(***************************************************************************)
(* Small instances of ClusterReconciler for TLC: the constants of each run  *)
(* are in its .cfg, the budgets of disturbances here.                       *)
(***************************************************************************)
EXTENDS ClusterReconciler, TLC

OneInitJob == <<"temporal-ns-register">>
BothInitJobs == <<"temporal-ns-register", "temporal-search-attr">>

\* No disturbance, and no limit on their sum.
Quiet == [d \in Disturbances |-> IF d = "total" THEN 9 ELSE 0]

\* Two of an upgrade, failing jobs and a deleted deployment.
StaleBudget ==
    ("version" :> 1 @@ "jobfail" :> 2 @@ "drift" :> 1 @@ "total" :> 2) @@ Quiet

\* An upgrade and three failures of jobs and of requests.
FaultyBudget ==
    ("version" :> 1 @@ "jobfail" :> 2 @@ "fault" :> 2 @@ "total" :> 4) @@ Quiet

\* An upgrade with its approval given and withdrawn, and one backup.
FenceBudget == ("version" :> 1 @@ "backup" :> 2 @@ "policy" :> 2) @@ Quiet

\* Every two of the disturbances that can come to an end.
ConvergeBudget ==
    ("version" :> 1 @@ "jobfail" :> 1 @@ "podfail" :> 1 @@ "maintenance" :> 1
       @@ "secret" :> 2 @@ "paused" :> 2 @@ "backup" :> 2 @@ "fault" :> 1
       @@ "total" :> 2) @@ Quiet

OneUpgrade == ("version" :> 1) @@ Quiet

TwoUpgrades == ("version" :> 2) @@ Quiet

ThereAndBackAgain == ("version" :> 3) @@ Quiet

ManualBudget == ("version" :> 2 @@ "policy" :> 1) @@ Quiet

OneBackup == ("backup" :> 1) @@ Quiet
=============================================================================
