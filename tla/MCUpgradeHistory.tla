-------------------------- MODULE MCUpgradeHistory --------------------------
(***************************************************************************)
(* Small instances of UpgradeHistory for TLC.                               *)
(***************************************************************************)
EXTENDS UpgradeHistory, MCClusterReconciler
=============================================================================
