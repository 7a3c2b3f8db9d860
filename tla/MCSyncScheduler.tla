-------------------------- MODULE MCSyncScheduler --------------------------
(* SyncScheduler for TLC: the constants are in MCSyncScheduler_*.cfg.       *)
EXTENDS SyncScheduler
=============================================================================
