------------------------ MODULE SyncScheduler_proofs ------------------------
(***************************************************************************)
(* Proofs about SyncScheduler, for any number of web requests, any         *)
(* interval, backoff and bound: its invariants, and that the status it     *)
(* reports is one that SyncStatus allows.                                  *)
(***************************************************************************)
EXTENDS SyncScheduler, TLAPS

USE DEF Syncing, Locking, Active

LEMMA PeekNat == ASSUME NEW n \in Nat PROVE Peek(n) \in Nat
  BY SchedulerAssumption DEF Peek

LEMMA InitInv == Init => SchedulerInv
  <1> SUFFICES ASSUME Init PROVE SchedulerInv
    OBVIOUS
  <1>1. TypeOK
    <2>1. call \in [Callers -> CallStates] /\ sync \in [Callers -> TaskStates]
      BY DEF Init, CallStates, TaskStates
    <2>2. wait \in Nat /\ counter \in 0..CounterCap
      BY SchedulerAssumption DEF Init
    <2>3. budget \in [requests : Nat, faults : Nat]
      BY SchedulerAssumption DEF Init
    <2> QED
      BY <2>1, <2>2, <2>3 DEF Init, TypeOK
  <1>2. LockInv /\ CacheInv
    BY DEF Init, LockInv, CacheInv
  <1> QED
    BY <1>1, <1>2 DEF SchedulerInv

(***************************************************************************)
(* Steps by which a caller enters, leaves or waits for the soft lock.      *)
(***************************************************************************)
LEMMA CallSyncInv ==
  ASSUME SchedulerInv, NEW c \in Callers, NEW state \in Syncing,
         CallSync(c, state), ~Active(c), call[c] \notin Locking,
         UNCHANGED <<began, wait, counter, firstSync, lastError, failures>>,
         unanswered' \subseteq Pages, requested' \in BOOLEAN,
         ignoreErrors' \in BOOLEAN, permit' \in BOOLEAN,
         cache' \in {cache, "empty"}, UNCHANGED fetching,
         budget' \in [requests : Nat, faults : Nat]
  PROVE  SchedulerInv'
  <1>1. TypeOK'
    BY DEF SchedulerInv, TypeOK, CallSync, StartTask, Refused, Rest,
           CallStates, TaskStates
  <1>2. LockInv'
    BY DEF SchedulerInv, TypeOK, LockInv, CallSync, StartTask, Refused, Rest
  <1>3. CacheInv'
    BY DEF SchedulerInv, TypeOK, LockInv, CacheInv, CallSync, StartTask,
           Refused
  <1> QED
    BY <1>1, <1>2, <1>3 DEF SchedulerInv

LEMMA SpendType ==
  ASSUME budget \in [requests : Nat, faults : Nat],
         NEW kind \in {"requests", "faults"}, Spend(kind)
  PROVE  budget' \in [requests : Nat, faults : Nat]
  BY DEF Spend

(* A caller that neither takes nor leaves the lock goes on. *)
LEMMA CallInv ==
  ASSUME SchedulerInv, NEW c \in Callers, NEW s \in CallStates \ Locking,
         call[c] \notin Locking, call' = [call EXCEPT ![c] = s],
         UNCHANGED <<busy, sync, task, began, wait, counter, firstSync,
                     lastError, failures, permit, fetching>>,
         unanswered' \subseteq Pages, requested' \in BOOLEAN,
         ignoreErrors' \in BOOLEAN, cache' \in {cache, "empty"},
         budget' \in [requests : Nat, faults : Nat]
  PROVE  SchedulerInv'
  <1>1. TypeOK'
    BY DEF SchedulerInv, TypeOK
  <1>2. LockInv' /\ CacheInv'
    BY DEF SchedulerInv, TypeOK, LockInv, CacheInv
  <1> QED
    BY <1>1, <1>2 DEF SchedulerInv

(* A step that leaves the lock and the tasks alone. *)
LEMMA AsideInv ==
  ASSUME SchedulerInv, UNCHANGED <<lockVars, failures, counter, firstSync,
                                   lastError, permit, budget>>,
         requested' \in BOOLEAN, ignoreErrors' \in BOOLEAN, wait' \in Nat,
         cache' \in {cache, "empty", "stored"}, fetching' \in BOOLEAN
  PROVE  SchedulerInv'
  <1>1. TypeOK'
    BY DEF SchedulerInv, TypeOK, lockVars
  <1>2. LockInv' /\ CacheInv'
    BY DEF SchedulerInv, TypeOK, LockInv, CacheInv, lockVars
  <1> QED
    BY <1>1, <1>2 DEF SchedulerInv

(* A sync task goes on from one state to another. *)
LEMMA TaskInv ==
  ASSUME SchedulerInv, NEW c \in Callers, NEW t \in TaskStates, Active(c),
         sync' = [sync EXCEPT ![c] = t], cache' = "outdated" => t = "work",
         UNCHANGED <<busy, call, task, requested, fetching>>,
         began' \in BOOLEAN, unanswered' \subseteq Pages,
         wait' \in Nat, counter' \in 0..CounterCap,
         firstSync' \in BOOLEAN, lastError' \in BOOLEAN, failures' \in Nat,
         ignoreErrors' \in BOOLEAN, permit' \in BOOLEAN,
         cache' \in {cache, "empty", "outdated"},
         budget' \in [requests : Nat, faults : Nat]
  PROVE  SchedulerInv'
  <1>1. TypeOK'
    BY DEF SchedulerInv, TypeOK
  <1>2. LockInv' /\ CacheInv'
    BY DEF SchedulerInv, TypeOK, LockInv, CacheInv
  <1> QED
    BY <1>1, <1>2 DEF SchedulerInv

-----------------------------------------------------------------------------
(* The steps of the worker, of a sync and of the lock's holders. *)

LEMMA WorkerInv ==
  ASSUME SchedulerInv, WorkerPolls \/ WorkerSyncs
  PROVE  SchedulerInv'
  <1> USE DEF SchedulerInv
  <1>1. CASE WorkerPolls
    <2>1. Worker \in Callers
      BY DEF Callers
    <2> QED
      BY <1>1, <2>1, CallInv
         DEF WorkerPolls, TypeOK, CallStates, timeVars, infoVars, cacheVars
  <1>2. CASE WorkerSyncs
    <2>1. Worker \in Callers /\ ~Active(Worker)
      BY <1>2 DEF WorkerSyncs, LockInv, Callers
    <2> QED
      BY <1>2, <2>1, CallSyncInv
         DEF WorkerSyncs, TypeOK, timeVars, infoVars, cacheVars
  <1> QED
    BY <1>1, <1>2

LEMMA SyncInv ==
  ASSUME SchedulerInv, NEW c \in Callers,
         SyncBegins(c) \/ SyncReads(c) \/ SyncChanges(c)
  PROVE  SchedulerInv'
  <1> USE DEF SchedulerInv, TaskStates, timeVars, infoVars, cacheVars
  <1>0. ~Active(c) \/ cache # "outdated" \/ sync[c] = "work"
    BY DEF LockInv, CacheInv
  <1>1. CASE SyncBegins(c)
    BY <1>0, <1>1, TaskInv DEF SyncBegins, TypeOK
  <1>2. CASE SyncReads(c)
    BY <1>0, <1>2, TaskInv DEF SyncReads, TypeOK
  <1>3. CASE SyncChanges(c)
    <2>1. sync' = [sync EXCEPT ![c] = "work"]
      BY <1>3 DEF SyncChanges, lockVars, TypeOK
    <2> QED
      BY <1>3, <2>1, TaskInv DEF SyncChanges, lockVars, TypeOK
  <1> QED
    BY <1>1, <1>2, <1>3

LEMMA SyncFailedInv ==
  ASSUME SchedulerInv, NEW c \in Callers, Active(c), NEW n \in 0..CounterCap,
         SyncFailed(c, n), budget' \in [requests : Nat, faults : Nat]
  PROVE  SchedulerInv'
  <1> USE DEF SyncFailed, TaskDone, ClearCaches
  <1>1. wait' \in Nat /\ counter' \in 0..CounterCap
    BY SchedulerAssumption, PeekNat
  <1>2. /\ began' \in BOOLEAN /\ unanswered' \subseteq Pages
        /\ permit' \in BOOLEAN /\ failures' \in Nat
    BY DEF SchedulerInv, TypeOK
  <1>4. /\ firstSync' \in BOOLEAN /\ lastError' \in BOOLEAN
        /\ ignoreErrors' \in BOOLEAN
    OBVIOUS
  <1>3. /\ "none" \in TaskStates /\ sync' = [sync EXCEPT ![c] = "none"]
        /\ cache' = "empty"
        /\ UNCHANGED <<busy, call, task, requested, fetching>>
    BY DEF TaskStates
  <1> HIDE DEF SyncFailed, TaskDone, ClearCaches, Active
  <1> QED
    BY <1>1, <1>2, <1>3, <1>4, TaskInv

LEMMA SyncEndsInv ==
  ASSUME SchedulerInv, NEW c \in Callers, SyncEnds(c)
  PROVE  SchedulerInv'
  <1> USE DEF SchedulerInv, TypeOK
  <1>1. CASE SyncSucceeds(c)
    <2> USE <1>1 DEF SyncSucceeds, TaskDone, ClearCaches
    <2>1. wait' \in Nat /\ counter' \in 0..CounterCap
      BY SchedulerAssumption
    <2>2. began' \in BOOLEAN /\ unanswered' \subseteq Pages
          /\ permit' \in BOOLEAN /\ firstSync' \in BOOLEAN
          /\ lastError' \in BOOLEAN /\ failures' \in Nat
          /\ ignoreErrors' \in BOOLEAN
      OBVIOUS
    <2>3. /\ "none" \in TaskStates /\ sync' = [sync EXCEPT ![c] = "none"]
          /\ cache' = "empty" /\ Active(c)
          /\ UNCHANGED <<busy, call, task, requested, fetching, budget>>
      BY DEF TaskStates
    <2> HIDE <1>1 DEF SyncSucceeds, TaskDone, ClearCaches, Active
    <2> QED
      BY <2>1, <2>2, <2>3, TaskInv
  <1>2. CASE SyncFails(c)
    <2>1. PICK n \in 0..CounterCap : SyncFailed(c, n)
      BY <1>2, SchedulerAssumption DEF SyncFails
    <2> QED
      BY <1>2, <2>1, SyncFailedInv, SpendType DEF SyncFails
  <1>3. CASE SyncCancelled(c)
    <2>1. CounterCap \in 0..CounterCap
      BY SchedulerAssumption
    <2> QED
      BY <1>3, <2>1, SyncFailedInv DEF SyncCancelled
  <1>4. CASE SyncDropped(c)
    <2>1. cache # "outdated"
      BY <1>4 DEF SyncDropped, LockInv, CacheInv
    <2> QED
      BY <1>4, <2>1, TaskInv
         DEF SyncDropped, TaskDone, TaskStates, timeVars, infoVars, cacheVars
  <1> QED
    BY <1>1, <1>2, <1>3, <1>4 DEF SyncEnds

LEMMA ReleaseInv ==
  ASSUME SchedulerInv, NEW c \in Callers, Release(c)
  PROVE  SchedulerInv'
  <1> USE DEF Release, Rest, timeVars, infoVars, cacheVars
  <1>1. TypeOK'
    BY DEF SchedulerInv, TypeOK, CallStates
  <1>2. \A d \in Callers : call[d] \in Locking => d = c
    BY DEF SchedulerInv, LockInv
  <1>3. \A d \in Callers : call'[d] \notin Locking /\ sync[d] = "none"
    BY <1>2 DEF SchedulerInv, TypeOK, LockInv
  <1>4. LockInv' /\ CacheInv'
    BY <1>3 DEF SchedulerInv, LockInv, CacheInv
  <1> QED
    BY <1>1, <1>4 DEF SchedulerInv
-----------------------------------------------------------------------------
(* The steps of the web requests. *)

LEMMA AskSyncInv ==
  ASSUME SchedulerInv, NEW p \in Pages, call[p] \notin Locking, AskSync(p),
         UNCHANGED <<firstSync, lastError, failures, permit>>,
         ignoreErrors' \in BOOLEAN, budget' \in [requests : Nat, faults : Nat]
  PROVE  SchedulerInv'
  <1>1. p \in Callers /\ "asked" \in CallStates \ Locking
    BY DEF Callers, CallStates
  <1>2. unanswered' \subseteq Pages /\ requested' \in BOOLEAN
    BY DEF AskSync, SchedulerInv, TypeOK
  <1> QED
    BY <1>1, <1>2, CallInv DEF AskSync, ClearCaches, timeVars

LEMMA CancelTaskInv ==
  ASSUME SchedulerInv, NEW p \in Pages, NEW n \in {"cancels", "saves"},
         call[p] \notin Locking, CancelTask(p, n),
         budget' \in [requests : Nat, faults : Nat]
  PROVE  SchedulerInv'
  <1> USE DEF CancelTask, ClearCaches, timeVars, infoVars
  <1>1. p \in Callers /\ n \in CallStates \ Locking
    BY DEF Callers, CallStates
  <1>2. task \in Callers
    BY DEF SchedulerInv, TypeOK, IsSyncing
  <1>3. sync' \in [Callers -> TaskStates]
    BY <1>2 DEF SchedulerInv, TypeOK, TaskStates
  <1>4. TypeOK'
    BY <1>1, <1>3 DEF SchedulerInv, TypeOK
  <1>5. \A d \in Callers : sync'[d] # "none" => sync[d] # "none"
    BY <1>2 DEF SchedulerInv, TypeOK, IsSyncing
  <1>6. \A d \in Callers : d # p => call'[d] = call[d]
    BY DEF SchedulerInv, TypeOK
  <1>7. call'[p] \notin Locking
    BY <1>1 DEF SchedulerInv, TypeOK
  <1>8. LockInv'
    BY <1>5, <1>6, <1>7 DEF SchedulerInv, LockInv
  <1> QED
    BY <1>4, <1>8 DEF SchedulerInv, CacheInv

LEMMA PageInv ==
  ASSUME SchedulerInv, NEW p \in Pages,
         \/ StartSync(p) \/ RunAsked(p) \/ SyncRequest(p)
         \/ ConfirmDelete(p) \/ CancelSync(p) \/ SaveConfig(p)
         \/ SaveStarts(p)
  PROVE  SchedulerInv'
  <1> USE DEF timeVars, infoVars, cacheVars
  <1>1. budget \in [requests : Nat, faults : Nat]
    BY DEF SchedulerInv, TypeOK
  <1>2. "requests" \in {"requests", "faults"}
    OBVIOUS
  <1>3. /\ ignoreErrors \in BOOLEAN /\ permit \in BOOLEAN
        /\ requested \in BOOLEAN /\ unanswered \subseteq Pages
        /\ p \in Callers
    BY DEF SchedulerInv, TypeOK, Callers
  <1>4. CASE StartSync(p)
    <2>1. budget' \in [requests : Nat, faults : Nat]
      BY <1>1, <1>2, <1>4, SpendType DEF StartSync
    <2>2. ignoreErrors' \in BOOLEAN
      BY <1>3, <1>4 DEF StartSync
    <2> QED
      BY <1>4, <2>1, <2>2, AskSyncInv DEF StartSync
  <1>5. CASE RunAsked(p)
    <2>1. ~Active(p) /\ call[p] \notin Locking /\ "awaits" \in Syncing
      BY <1>3, <1>5 DEF RunAsked, SchedulerInv, LockInv
    <2> QED
      BY <1>1, <1>3, <1>5, <2>1, CallSyncInv DEF RunAsked
  <1>6. CASE SyncRequest(p)
    <2>1. budget' \in [requests : Nat, faults : Nat]
      BY <1>1, <1>2, <1>6, SpendType DEF SyncRequest
    <2>2. ignoreErrors' \in BOOLEAN
      BY <1>3, <1>6 DEF SyncRequest
    <2>3. ~Active(p) /\ call[p] \notin Locking /\ "awaits" \in Syncing
      BY <1>3, <1>6 DEF SyncRequest, SchedulerInv, LockInv
    <2> QED
      BY <1>3, <1>6, <2>1, <2>2, <2>3, CallSyncInv
         DEF SyncRequest, ClearCaches
  <1>7. CASE ConfirmDelete(p)
    <2>1. budget' \in [requests : Nat, faults : Nat]
      BY <1>1, <1>2, <1>7, SpendType DEF ConfirmDelete
    <2>2. ignoreErrors' \in BOOLEAN /\ permit' \in BOOLEAN
      BY <1>7 DEF ConfirmDelete
    <2>3. ~Active(p) /\ call[p] \notin Locking /\ "confirms" \in Syncing
      BY <1>3, <1>7 DEF ConfirmDelete, SchedulerInv, LockInv
    <2> QED
      BY <1>3, <1>7, <2>1, <2>2, <2>3, CallSyncInv
         DEF ConfirmDelete, ClearCaches
  <1>8. CASE CancelSync(p) \/ SaveConfig(p)
    <2>1. budget' \in [requests : Nat, faults : Nat]
      BY <1>1, <1>2, <1>8, SpendType DEF CancelSync, SaveConfig
    <2>2. call[p] \notin Locking
      BY <1>8 DEF CancelSync, SaveConfig
    <2> QED
      BY <1>3, <1>8, <2>1, <2>2, AskSyncInv, CancelTaskInv
         DEF CancelSync, SaveConfig
  <1>9. CASE SaveStarts(p)
    <2>1. call[p] \notin Locking
      BY <1>9 DEF SaveStarts
    <2> QED
      BY <1>1, <1>3, <1>9, <2>1, AskSyncInv DEF SaveStarts
  <1> QED
    BY <1>4, <1>5, <1>6, <1>7, <1>8, <1>9

LEMMA HoldInv ==
  ASSUME SchedulerInv, NEW p \in Pages, Hold(p) \/ HoldEnds(p)
  PROVE  SchedulerInv'
  <1> USE DEF timeVars, infoVars, cacheVars
  <1>1. budget' \in [requests : Nat, faults : Nat]
    <2>1. budget \in [requests : Nat, faults : Nat]
      BY DEF SchedulerInv, TypeOK
    <2> QED
      BY <2>1, SpendType DEF Hold, HoldEnds
  <1>2. p \in Callers
    BY DEF Callers
  <1>3. TypeOK'
    BY <1>1, <1>2
       DEF Hold, HoldEnds, SchedulerInv, TypeOK, ClearCaches, CallStates
  <1>4. \A d \in Callers \ {p} : call[d] \notin Locking
    BY <1>2 DEF Hold, HoldEnds, SchedulerInv, LockInv
  <1>5. LockInv' /\ CacheInv'
    BY <1>2, <1>4 DEF Hold, HoldEnds, SchedulerInv, TypeOK, LockInv, CacheInv,
                      ClearCaches
  <1> QED
    BY <1>3, <1>5 DEF SchedulerInv

LEMMA AsideStepInv ==
  ASSUME SchedulerInv,
         \/ TriggerSync \/ FetchStarts \/ FetchEnds \/ Expires
         \/ Tick \/ BackupDue
  PROVE  SchedulerInv'
  <1> USE DEF timeVars, infoVars, cacheVars
  <1>1. UNCHANGED <<lockVars, failures, counter, firstSync, lastError, permit,
                    budget>>
    BY DEF TriggerSync, FetchStarts, FetchEnds, Expires, Tick, BackupDue
  <1>3. requested' \in BOOLEAN /\ ignoreErrors' \in BOOLEAN
    BY DEF SchedulerInv, TypeOK, TriggerSync, FetchStarts, FetchEnds, Expires,
           Tick, BackupDue
  <1>4. wait' \in Nat
    <2>1. wait \in Nat
      BY DEF SchedulerInv, TypeOK
    <2>2. wait' = wait \/ (wait > 0 /\ wait' = wait - 1) \/ wait' = 0
      BY DEF TriggerSync, FetchStarts, FetchEnds, Expires, Tick, BackupDue
    <2> QED
      BY <2>1, <2>2
  <1>2. cache' \in {cache, "empty", "stored"} /\ fetching' \in BOOLEAN
    BY DEF SchedulerInv, TypeOK, TriggerSync, FetchStarts, FetchEnds, Expires,
           Tick, BackupDue
  <1> QED
    BY <1>1, <1>2, <1>3, <1>4, AsideInv

LEMMA NextInv == SchedulerInv /\ [Next]_vars => SchedulerInv'
  <1> SUFFICES ASSUME SchedulerInv, [Next]_vars PROVE SchedulerInv'
    OBVIOUS
  <1>1. CASE UNCHANGED vars
    <2>1. /\ UNCHANGED <<busy, call, sync, task, began, unanswered, requested>>
          /\ UNCHANGED <<wait, counter, firstSync, lastError, failures>>
          /\ UNCHANGED <<ignoreErrors, permit, cache, fetching, budget>>
      BY <1>1 DEF vars, lockVars, timeVars, infoVars, cacheVars
    <2> QED
      BY <2>1 DEF SchedulerInv, TypeOK, LockInv, CacheInv
  <1>2. CASE WorkerPolls \/ WorkerSyncs
    BY <1>2, WorkerInv
  <1>3. ASSUME NEW c \in Callers,
               SyncBegins(c) \/ SyncReads(c) \/ SyncChanges(c)
        PROVE  SchedulerInv'
    BY <1>3, SyncInv
  <1>4. ASSUME NEW c \in Callers, SyncEnds(c) PROVE SchedulerInv'
    BY <1>4, SyncEndsInv
  <1>5. ASSUME NEW c \in Callers, Release(c) PROVE SchedulerInv'
    BY <1>5, ReleaseInv
  <1>6. ASSUME NEW p \in Pages,
               \/ StartSync(p) \/ RunAsked(p) \/ SyncRequest(p)
               \/ ConfirmDelete(p) \/ CancelSync(p) \/ SaveConfig(p)
               \/ SaveStarts(p)
        PROVE  SchedulerInv'
    BY <1>6, PageInv
  <1>7. ASSUME NEW p \in Pages, Hold(p) \/ HoldEnds(p) PROVE SchedulerInv'
    BY <1>7, HoldInv
  <1>8. CASE \/ TriggerSync \/ FetchStarts \/ FetchEnds \/ Expires
            \/ Tick \/ BackupDue
    BY <1>8, AsideStepInv
  <1> QED
    BY <1>1, <1>2, <1>3, <1>4, <1>5, <1>6, <1>7, <1>8 DEF Next
-----------------------------------------------------------------------------
(* The soft lock and the tasks agree, and a listing that a sync has made   *)
(* out of date is only there as long as that sync works.                   *)
THEOREM SchedulerInvariant == Spec => []SchedulerInv
  BY InitInv, NextInv, PTL DEF Spec

(* No two synchronisations are ever in progress, for any number of web     *)
(* requests.                                                               *)
THEOREM OneSyncHolds == Spec => []OneSync
  <1>1. SchedulerInv => OneSync
    BY DEF SchedulerInv, LockInv, OneSync
  <1> QED
    BY <1>1, SchedulerInvariant, PTL

(* A sync never starts from a listing that was stored before an earlier    *)
(* sync changed the destination.                                           *)
THEOREM ListingKnowsSyncsHolds == Spec => []ListingKnowsSyncs
  <1>1. SchedulerInv => ListingKnowsSyncs
    BY DEF SchedulerInv, LockInv, CacheInv, ListingKnowsSyncs
  <1> QED
    BY <1>1, SchedulerInvariant, PTL

-----------------------------------------------------------------------------
(* How a step changes who is syncing: somebody starts, somebody ends, or   *)
(* nothing changes.                                                        *)
LEMMA OthersRest ==
  ASSUME SchedulerInv, ~busy
  PROVE  \A c \in Callers : ~Active(c)
  BY DEF SchedulerInv, LockInv

LEMMA SyncingIsActive ==
  ASSUME SchedulerInv
  PROVE  IsSyncing <=> \E c \in Callers : Active(c)
  BY SchedulerAssumption DEF SchedulerInv, TypeOK, LockInv, IsSyncing

LEMMA SyncingSame ==
  ASSUME SchedulerInv, UNCHANGED task,
         \A c \in Callers : sync'[c] = "none" <=> sync[c] = "none"
  PROVE  IsSyncing' = IsSyncing
  BY DEF SchedulerInv, TypeOK, IsSyncing

LEMMA CallSyncStatus ==
  ASSUME SchedulerInv, NEW c \in Callers, NEW state, CallSync(c, state)
  PROVE  \/ ~IsSyncing /\ IsSyncing' = TRUE
         \/ IsSyncing' = IsSyncing
  <1>1. CASE StartTask(c, state)
    <2>1. ~IsSyncing
      BY <1>1, OthersRest, SyncingIsActive DEF StartTask
    <2>2. IsSyncing' = TRUE
      BY <1>1, SchedulerAssumption
         DEF StartTask, IsSyncing, SchedulerInv, TypeOK
    <2> QED
      BY <2>1, <2>2
  <1>2. CASE Refused(c)
    BY <1>2 DEF Refused, IsSyncing
  <1> QED
    BY <1>1, <1>2 DEF CallSync

LEMMA TaskDoneStatus ==
  ASSUME SchedulerInv, NEW c \in Callers, Active(c), TaskDone(c)
  PROVE  IsSyncing /\ IsSyncing' = FALSE
  BY SyncingIsActive DEF TaskDone, SchedulerInv, TypeOK, LockInv, IsSyncing

(***************************************************************************)
(* Each step is one of SyncStatus, or leaves the status alone.             *)
(***************************************************************************)
LEMMA StatusStep ==
  ASSUME SchedulerInv, [Next]_vars
  PROVE  [Status!NextStatus]_Status!statusVars
  <1> USE DEF timeVars, infoVars, cacheVars, lockVars,
              Status!NextStatus, Status!statusVars
  <1>1. CASE UNCHANGED vars
    BY <1>1 DEF vars, IsSyncing
  <1>2. CASE WorkerPolls
    BY <1>2 DEF WorkerPolls, IsSyncing
  <1>3. CASE WorkerSyncs
    <2>1. Worker \in Callers
      BY DEF Callers
    <2> QED
      BY <1>3, <2>1, CallSyncStatus DEF WorkerSyncs, Status!Begin
  <1>4. ASSUME NEW c \in Callers,
               SyncBegins(c) \/ SyncReads(c) \/ SyncChanges(c)
        PROVE  [Status!NextStatus]_Status!statusVars
    <2>1. IsSyncing' = IsSyncing
      <3>1. /\ UNCHANGED task
            /\ \A d \in Callers : sync'[d] = "none" <=> sync[d] = "none"
        BY <1>4 DEF SyncBegins, SyncReads, SyncChanges, SchedulerInv, TypeOK
      <3> QED
        BY <3>1, SyncingSame
    <2> QED
      BY <1>4, <2>1 DEF SyncBegins, SyncReads, SyncChanges
  <1>5. ASSUME NEW c \in Callers, SyncEnds(c)
        PROVE  [Status!NextStatus]_Status!statusVars
    <2>1. Active(c) /\ TaskDone(c)
      BY <1>5 DEF SyncEnds, SyncSucceeds, SyncFails, SyncCancelled,
                  SyncDropped, SyncFailed
    <2>2. IsSyncing /\ IsSyncing' = FALSE
      BY <2>1, TaskDoneStatus
    <2>3. CASE SyncSucceeds(c)
      BY <2>2, <2>3 DEF SyncSucceeds, Status!Succeed
    <2>4. CASE SyncFails(c) \/ SyncCancelled(c)
      <3>1. Status!Fail
        BY <2>2, <2>4 DEF SyncFails, SyncCancelled, SyncFailed, Status!Fail
      <3> QED
        BY <3>1
    <2>5. CASE SyncDropped(c)
      BY <2>2, <2>5 DEF SyncDropped, Status!Vanish
    <2> QED
      BY <1>5, <2>3, <2>4, <2>5 DEF SyncEnds
  <1>6. ASSUME NEW c \in Callers, Release(c)
        PROVE  [Status!NextStatus]_Status!statusVars
    BY <1>6 DEF Release, IsSyncing
  <1>7. ASSUME NEW p \in Pages, StartSync(p) \/ SaveStarts(p)
        PROVE  [Status!NextStatus]_Status!statusVars
    BY <1>7 DEF StartSync, SaveStarts, AskSync, IsSyncing,
                Status!IgnoreForNow
  <1>8. ASSUME NEW p \in Pages, RunAsked(p) \/ SyncRequest(p) \/ ConfirmDelete(p)
        PROVE  [Status!NextStatus]_Status!statusVars
    <2>1. \/ ~IsSyncing /\ IsSyncing' = TRUE
          \/ IsSyncing' = IsSyncing
      <3>1. p \in Callers
        BY DEF Callers
      <3> QED
        BY <1>8, <3>1, CallSyncStatus DEF RunAsked, SyncRequest, ConfirmDelete
    <2>2. UNCHANGED <<firstSync, lastError, failures>>
      BY <1>8 DEF RunAsked, SyncRequest, ConfirmDelete
    <2>3. ignoreErrors' = ignoreErrors \/ ignoreErrors' = TRUE
      BY <1>8 DEF RunAsked, SyncRequest, ConfirmDelete
    <2> QED
      BY <2>1, <2>2, <2>3
         DEF Status!Begin, Status!BeginIgnoring, Status!IgnoreForNow
  <1>9. ASSUME NEW p \in Pages, CancelSync(p) \/ SaveConfig(p)
        PROVE  [Status!NextStatus]_Status!statusVars
    <2>1. ASSUME NEW n, CancelTask(p, n)
          PROVE  IsSyncing' = IsSyncing
      <3>1. /\ UNCHANGED task
            /\ \A d \in Callers : sync'[d] = "none" <=> sync[d] = "none"
        BY <2>1 DEF CancelTask, SchedulerInv, TypeOK, IsSyncing
      <3> QED
        BY <3>1, SyncingSame
    <2>2. IsSyncing' = IsSyncing
      BY <1>9, <2>1 DEF CancelSync, SaveConfig, AskSync, IsSyncing
    <2> QED
      BY <1>9, <2>2 DEF CancelSync, SaveConfig, CancelTask
  <1>10. ASSUME NEW p \in Pages, Hold(p) \/ HoldEnds(p)
         PROVE  [Status!NextStatus]_Status!statusVars
    BY <1>10 DEF Hold, HoldEnds, IsSyncing
  <1>11. CASE TriggerSync
    BY <1>11 DEF TriggerSync, IsSyncing, Status!IgnoreForNow
  <1>12. CASE FetchStarts \/ FetchEnds \/ Expires \/ Tick \/ BackupDue
    BY <1>12 DEF FetchStarts, FetchEnds, Expires, Tick, BackupDue, IsSyncing
  <1> QED
    BY <1>1, <1>2, <1>3, <1>4, <1>5, <1>6, <1>7, <1>8, <1>9, <1>10, <1>11,
       <1>12 DEF Next

(* The scheduler implements SyncStatus, for any number of web requests:    *)
(* the status reported changes as that module says and in no other way.    *)
THEOREM Refinement == Spec => ImplementsStatus
  <1>1. Init => Status!InitStatus
    BY DEF Init, Status!InitStatus, IsSyncing
  <1>2. SchedulerInv /\ [Next]_vars => [Status!NextStatus]_Status!statusVars
    BY StatusStep
  <1> QED
    BY <1>1, <1>2, SchedulerInvariant, PTL
       DEF Spec, ImplementsStatus, Status!StatusSpec

-----------------------------------------------------------------------------
(* The permission that confirmdelete gives is there for the whole of the   *)
(* sync that it makes: no other sync can end, and so withdraw it, while    *)
(* that one is active.                                                     *)
LEMMA PermissionStep ==
  ASSUME SchedulerInv, PermissionCoversSync, [Next]_vars
  PROVE  PermissionCoversSync'
  <1> USE DEF timeVars, infoVars, cacheVars, lockVars
  <1> SUFFICES ASSUME NEW p \in Pages, call'[p] = "confirms", sync'[p] # "none"
               PROVE  permit'
    BY DEF PermissionCoversSync
  <1>0. p \in Callers /\ p # Worker
    BY SchedulerAssumption DEF Callers
  <1>1. CASE ConfirmDelete(p)
    BY <1>1 DEF ConfirmDelete
  <1>2. CASE \E c \in Callers : SyncSucceeds(c)
    <2>1. PICK c \in Callers : SyncSucceeds(c)
      BY <1>2
    <2>2. c # p /\ sync[p] # "none" /\ sync[c] # "none"
      BY <2>1, <1>0 DEF SyncSucceeds, TaskDone, SchedulerInv, TypeOK
    <2> QED
      BY <2>2, <1>0 DEF SchedulerInv, LockInv
  <1>3. CASE ~ConfirmDelete(p) /\ ~\E c \in Callers : SyncSucceeds(c)
    <2>1. permit' = permit \/ permit' = TRUE
      BY <1>3 DEF Next, vars, WorkerPolls, WorkerSyncs, SyncBegins, SyncReads,
           SyncChanges, SyncEnds, SyncFails, SyncCancelled, SyncDropped,
           SyncFailed, Release, StartSync, RunAsked, SyncRequest,
           ConfirmDelete, CancelSync, SaveConfig, CancelTask, SaveStarts, Hold,
           HoldEnds, TriggerSync, FetchStarts, FetchEnds, Expires, Tick,
           BackupDue
    <2>2. call[p] = "confirms" /\ sync[p] # "none"
      <3> USE <1>0, <1>3 DEF SchedulerInv, TypeOK
      <3>1. CASE WorkerPolls \/ WorkerSyncs
        BY <3>1 DEF WorkerPolls, WorkerSyncs, CallSync, StartTask, Refused, Rest
      <3>2. ASSUME NEW c \in Callers,
                   \/ SyncBegins(c) \/ SyncReads(c) \/ SyncChanges(c)
                   \/ SyncEnds(c)
            PROVE  call[p] = "confirms" /\ sync[p] # "none"
        BY <3>2 DEF SyncBegins, SyncReads, SyncChanges, SyncEnds,
             SyncSucceeds, SyncFails, SyncCancelled, SyncDropped, SyncFailed,
             TaskDone
      <3>3. ASSUME NEW c \in Callers, Release(c)
            PROVE  call[p] = "confirms" /\ sync[p] # "none"
        BY <3>3 DEF Release, Rest
      <3>4. ASSUME NEW q \in Pages,
                   \/ StartSync(q) \/ RunAsked(q) \/ SyncRequest(q)
                   \/ (ConfirmDelete(q) /\ q # p) \/ SaveStarts(q)
            PROVE  call[p] = "confirms" /\ sync[p] # "none"
        BY <3>4 DEF StartSync, AskSync, RunAsked, SyncRequest, ConfirmDelete,
             SaveStarts, CallSync, StartTask, Refused, Rest, Callers
      <3>5. ASSUME NEW q \in Pages, CancelSync(q) \/ SaveConfig(q)
            PROVE  call[p] = "confirms" /\ sync[p] # "none"
        BY <3>5 DEF CancelSync, SaveConfig, CancelTask, AskSync, IsSyncing,
             Callers
      <3>6. ASSUME NEW q \in Pages, Hold(q) \/ HoldEnds(q)
            PROVE  call[p] = "confirms" /\ sync[p] # "none"
        BY <3>6 DEF Hold, HoldEnds, Callers
      <3>7. CASE \/ TriggerSync \/ FetchStarts \/ FetchEnds \/ Expires
                \/ Tick \/ BackupDue
        BY <3>7 DEF TriggerSync, FetchStarts, FetchEnds, Expires, Tick,
             BackupDue
      <3>8. CASE UNCHANGED vars
        BY <3>8 DEF vars
      <3> QED
        BY <3>1, <3>2, <3>3, <3>4, <3>5, <3>6, <3>7, <3>8 DEF Next
    <2> QED
      BY <1>0, <2>1, <2>2 DEF PermissionCoversSync
  <1> QED
    BY <1>1, <1>2, <1>3

(* The permission for multiple deletes holds for the whole of the sync     *)
(* that confirmdelete makes.                                               *)
THEOREM PermissionCoversSyncHolds == Spec => []PermissionCoversSync
  <1>1. Init => PermissionCoversSync
    BY DEF Init, PermissionCoversSync, Callers
  <1>2. SchedulerInv /\ PermissionCoversSync /\ [Next]_vars
            => PermissionCoversSync'
    BY PermissionStep
  <1> QED
    BY <1>1, <1>2, SchedulerInvariant, PTL DEF Spec
=============================================================================
