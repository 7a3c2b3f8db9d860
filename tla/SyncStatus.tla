----------------------------- MODULE SyncStatus -----------------------------
(***************************************************************************)
(* What the status page may rely on: the part of the add-on's status that  *)
(* is about synchronisation, as the fields of a getstatus answer show it.  *)
(* How syncs are started, kept apart and cancelled is not said here:       *)
(* SyncScheduler does that and implements this module; StatusPage reads    *)
(* these variables from the other end of a connection.                     *)
(***************************************************************************)
EXTENDS Naturals

VARIABLES
    syncing,        \* a sync is going on
    firstSync,      \* no sync has ended since the add-on started
    lastError,      \* the last sync that ended had an error
    failures,       \* how many syncs had an error since the add-on started
    ignoreErrors    \* the user asked for something that is to mend the error

statusVars == <<syncing, firstSync, lastError, failures, ignoreErrors>>

StatusTypeOK ==
    /\ syncing \in BOOLEAN /\ firstSync \in BOOLEAN
    /\ lastError \in BOOLEAN /\ ignoreErrors \in BOOLEAN
    /\ failures \in Nat

InitStatus ==
    /\ syncing = FALSE
    /\ firstSync = TRUE
    /\ lastError = FALSE
    /\ failures = 0
    /\ ignoreErrors = FALSE

Begin ==
    /\ ~syncing
    /\ syncing' = TRUE
    /\ UNCHANGED <<firstSync, lastError, failures, ignoreErrors>>

(* A sync ends once, and with one outcome. *)
Succeed ==
    /\ syncing
    /\ syncing' = FALSE
    /\ firstSync' = FALSE
    /\ lastError' = FALSE
    /\ ignoreErrors' = FALSE
    /\ UNCHANGED failures

Fail ==
    /\ syncing
    /\ syncing' = FALSE
    /\ firstSync' = FALSE
    /\ lastError' = TRUE
    /\ failures' = failures + 1
    /\ ignoreErrors' = FALSE

(* A sync that is cancelled before its first step ends with no outcome. *)
Vanish ==
    /\ syncing
    /\ syncing' = FALSE
    /\ UNCHANGED <<firstSync, lastError, failures, ignoreErrors>>

IgnoreForNow ==
    /\ ignoreErrors' = TRUE
    /\ UNCHANGED <<syncing, firstSync, lastError, failures>>

(* A request that both silences the errors and starts the sync it is for. *)
BeginIgnoring ==
    /\ ~syncing
    /\ syncing' = TRUE
    /\ ignoreErrors' = TRUE
    /\ UNCHANGED <<firstSync, lastError, failures>>

(* All of it is in memory only: a new process begins anew. *)
RestartStatus ==
    /\ syncing' = FALSE
    /\ firstSync' = TRUE
    /\ lastError' = FALSE
    /\ failures' = 0
    /\ ignoreErrors' = FALSE

NextStatus ==
    \/ Begin \/ Succeed \/ Fail \/ Vanish
    \/ IgnoreForNow \/ BeginIgnoring

(* Syncs are made again and again, and each of them ends. *)
StatusFairness ==
    /\ WF_statusVars(Begin)
    /\ WF_statusVars(Succeed \/ Fail \/ Vanish)

StatusSpec == InitStatus /\ [][NextStatus]_statusVars
FairStatusSpec == StatusSpec /\ StatusFairness
=============================================================================
