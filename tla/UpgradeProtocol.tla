-------------------------- MODULE UpgradeProtocol --------------------------
(***************************************************************************)
(* What status.upgrade promises to whoever watches a PeerDBCluster, with no *)
(* word of caches, jobs, deployments or failures: the phases come in their  *)
(* order, none is left out, and the target is chosen when an upgrade        *)
(* begins.  Module UpgradeHistory says how ClusterReconciler implements it. *)
(*                                                                          *)
(* The promise is not that each publication follows from the last.  The     *)
(* operator reads the status from a cache and writes what it computed from  *)
(* it, so a publication may follow from the one before the last and take    *)
(* the upgrade back a phase.  It never follows from an older one: the       *)
(* status is written only when the cache is up to date.                     *)
(***************************************************************************)
EXTENDS PeerDBCluster

VARIABLES
    upgrade,    \* what status.upgrade says
    before      \* what it said before the last publication of the status

Upgrades == [phase: UpgradePhases, target: Versions \cup {NoVersion}]

NoUpgrade == [phase |-> "None", target |-> NoVersion]

\* Where the handler of a phase may take the upgrade.
PhasesAfter(p) ==
    CASE p = "Waiting" -> {"StartMaintenance", "Config"}
      [] p = "Blocked" -> {"Waiting"}
      [] p = "StartMaintenance" -> {"Config"}
      [] p = "Config" -> {"InitJobs"}
      [] p = "InitJobs" -> {"FlowAPI", "Blocked"}
      [] p = "FlowAPI" -> {"PeerDBServer"}
      [] p = "PeerDBServer" -> {"UI"}
      [] p = "UI" -> {"EndMaintenance", "Complete"}
      [] p = "EndMaintenance" -> {"Complete"}
      [] OTHER -> {}

\* What one reconcile that has read u may publish: u itself; the record of
\* the installed version; an upgrade to another version, waiting or already
\* past its gate; or the next phase towards the same target.
Follows(u) ==
    {u}
      \cup {[phase |-> "Complete", target |-> v] :
              v \in {w \in Versions : u.phase = "None"}}
      \cup {[phase |-> p, target |-> v] :
              p \in {"Waiting", "StartMaintenance", "Config"},
              v \in {w \in Versions : u.phase = "Complete" /\ w # u.target}}
      \cup {[phase |-> p, target |-> u.target] : p \in PhasesAfter(u.phase)}

Init == upgrade = NoUpgrade /\ before = NoUpgrade

Publish ==
    /\ upgrade' \in Follows(upgrade) \cup Follows(before)
    /\ before' = upgrade

Spec == Init /\ [][Publish]_<<upgrade, before>>

=============================================================================
