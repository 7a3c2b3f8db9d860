---------------------------- MODULE MCBackupSync ----------------------------
(***************************************************************************)
(* Instances of BackupSync for TLC: the constants are in the .cfg files.   *)
(***************************************************************************)
EXTENDS BackupSync
=============================================================================
