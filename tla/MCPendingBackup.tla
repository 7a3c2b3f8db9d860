-------------------------- MODULE MCPendingBackup --------------------------
(* PendingBackup for TLC: the constants are in the MCPendingBackup_*.cfg.   *)
EXTENDS PendingBackup, TLC

(* Add-ons are alike but for this one, and so are tasks: for runs that check *)
(* safety only.                                                             *)
Alike == Permutations(Addons \ {Own}) \union Permutations(Tasks)

(* Bound: one disturbance, which is a fault or something others do.         *)
OneDisturbance == budget.faults + budget.outside >= MaxFaults + MaxOutside - 1
=============================================================================
