--------------------------- MODULE UpgradeHistory ---------------------------
(***************************************************************************)
(* ClusterReconciler with a history variable, the upgrade as it was         *)
(* published before the last write of the status, and the refinement        *)
(* mapping under which it implements UpgradeProtocol.  The history variable *)
(* is written only: it restricts no step.                                   *)
(***************************************************************************)
EXTENDS ClusterReconciler

VARIABLE before

Published(st) == [phase |-> st.phase, target |-> st.toVersion]

historyVars == <<vars, before>>

HistoryInit == Init /\ before = Published(cluster.status)

HistoryNext ==
    /\ Next
    /\ before' = IF cluster'.status = cluster.status
                 THEN before
                 ELSE Published(cluster.status)

HistorySpec == HistoryInit /\ [][HistoryNext]_historyVars

Protocol == INSTANCE UpgradeProtocol WITH
                upgrade <- Published(cluster.status), before <- before

\* Every write of the status, by whichever stale, retried or conflicting
\* reconcile, publishes an upgrade that follows in one step from the last
\* publication or from the one before it.
ImplementsProtocol == Protocol!Spec

=============================================================================
