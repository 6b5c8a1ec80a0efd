--------------------------- MODULE PeerDBCluster ---------------------------
(***************************************************************************)
(* The PeerDBCluster custom resource: the part of its spec, of its          *)
(* annotations and of its status that the operator's control flow reads.    *)
(*                                                                          *)
(* Abstractions.  A version string is a positive number (only equality      *)
(* matters to the code; the order is used by the environment to tell a      *)
(* rollback from an upgrade).  A status condition is its status, or its     *)
(* reason where two reasons of one status mean different things.  Messages, *)
(* timestamps, endpoints, observedGeneration and TemporalReady (always set  *)
(* together with CatalogReady=True, never False) are left out.              *)
(***************************************************************************)
EXTENDS Naturals, Sequences

CONSTANTS
    Versions,        \* the values spec.version may take
    InitialVersion   \* spec.version when the cluster is created

ASSUME VersionsAssumption ==
    /\ Versions \subseteq Nat \ {0}
    /\ InitialVersion \in Versions

\* toVersion of a cluster whose status.upgrade is nil.
NoVersion == 0

\* The control plane deployments, in the order the code reconciles them.  A
\* component has the name of the upgrade phase that rolls it out.
ComponentOrder == <<"FlowAPI", "PeerDBServer", "UI">>
Components == {"FlowAPI", "PeerDBServer", "UI"}

\* Phases of status.upgrade; "None" stands for status.upgrade = nil.
UpgradePhases ==
    {"None", "Complete", "Waiting", "Blocked", "StartMaintenance", "Config",
     "InitJobs", "FlowAPI", "PeerDBServer", "UI", "EndMaintenance"}

UpgradePolicies == {"Automatic", "Manual"}

\* A condition that was never set, or its status.
ConditionStatus == {"Unset", "True", "False"}

\* BackupSafe: True, or False with reason BackupUnsafe or BackupInProgress.
BackupSafeStatus == {"Unset", "True", "BackupUnsafe", "BackupInProgress"}

\* MaintenanceMode by reason: Starting, Active and Ending are status True,
\* Complete is status False.
MaintenanceModeStatus == {"Unset", "Starting", "Active", "Ending", "Complete"}

ClusterSpec == [version: Versions, upgradePolicy: UpgradePolicies,
                maintenance: BOOLEAN, paused: BOOLEAN]

ClusterStatus ==
    [phase: UpgradePhases, toVersion: Versions \cup {NoVersion},
     upgradeInProgress: ConditionStatus, reconciling: ConditionStatus,
     catalogReady: ConditionStatus, initialized: ConditionStatus,
     componentsReady: ConditionStatus, ready: ConditionStatus,
     degraded: ConditionStatus, backupSafe: BackupSafeStatus,
     maintenanceMode: MaintenanceModeStatus]

\* backup: the annotation peerdb.io/backup-in-progress is set.
ClusterObject == [spec: ClusterSpec, backup: BOOLEAN, status: ClusterStatus]

EmptyStatus ==
    [phase |-> "None", toVersion |-> NoVersion,
     upgradeInProgress |-> "Unset", reconciling |-> "Unset",
     catalogReady |-> "Unset", initialized |-> "Unset",
     componentsReady |-> "Unset", ready |-> "Unset",
     degraded |-> "Unset", backupSafe |-> "Unset",
     maintenanceMode |-> "Unset"]

\* A cluster as a user first creates it.
NewCluster(maintenance) ==
    [spec |-> [version |-> InitialVersion, upgradePolicy |-> "Automatic",
               maintenance |-> maintenance, paused |-> FALSE],
     backup |-> FALSE, status |-> EmptyStatus]

AsCondition(b) == IF b THEN "True" ELSE "False"

\* The upgrade state machine is at work on this status.
Upgrading(status) == status.phase \notin {"None", "Complete"}
=============================================================================
