---------------------------- MODULE MCStoredState ----------------------------
(* StoredState for TLC: the constants are in MCStoredState_*.cfg.  Backups  *)
(* are alike, and so are accounts; every property checked is a safety one.  *)
EXTENDS StoredState, TLC

Alike == Permutations(Slugs) \union Permutations(Accounts)

(* Bound: faults hit one of the two files until it is whole again.          *)
OneFileHurt == C!Whole \/ K!Whole
=============================================================================
