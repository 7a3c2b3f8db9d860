--------------------------- MODULE SyncScheduler ---------------------------
(***************************************************************************)
(* When synchronisations are made, and what keeps them apart: Coordinator  *)
(* with its soft lock and its one task, Scyncer's worker that polls the    *)
(* triggers, the web requests that start, cancel and exclude syncs,        *)
(* Backoff, and DestinationPrecache, which lists the destination some time *)
(* before a sync so that the sync need not.                                *)
(*                                                                         *)
(* Everything runs on one event loop: a step of the model is what runs     *)
(* from one await to the next.  Time is the number of units until the next *)
(* attempt is due (wait); a unit stands for half a minute or so.           *)
(* What a sync does to the stores is BackupSync.                           *)
(***************************************************************************)
EXTENDS Naturals

CONSTANTS
    Pages,          \* web requests that may be open at the same time
    Interval,       \* MAX_SYNC_INTERVAL_SECONDS, in units
    MaxBackoff,     \* MAX_BACKOFF_SECONDS, in units
    CounterCap,     \* a backoff counter from which on the wait is MaxBackoff
    Warm,           \* CACHE_WARMUP_MAX_SECONDS, in units; 0 for no precache
    MaxRequests,    \* bound on web requests
    MaxFaults       \* bound on syncs that end with an error of their own

Worker == "worker"
Callers == Pages \cup {Worker}
NoTask == "no task"

ASSUME SchedulerAssumption ==
    /\ Worker \notin Pages /\ NoTask \notin Callers
    /\ Interval \in Nat \ {0} /\ MaxBackoff \in Nat \ {0}
    /\ CounterCap \in Nat /\ CounterCap >= 2
    /\ 2 ^ (CounterCap - 2) >= MaxBackoff
    /\ Warm \in Nat
    /\ MaxRequests \in Nat /\ MaxFaults \in Nat

VARIABLES
    busy,           \* Coordinator._busy, the soft lock
    call,           \* where each caller is, see CallStates
    sync,           \* the sync task each caller has created, see TaskStates
    task,           \* Coordinator._sync_task: the caller whose task it is
    began,          \* Coordinator._sync_start, an event that is never cleared
    unanswered,     \* the startSync requests that wait for that event
    requested,      \* the flag of some trigger is set
    wait,           \* time left until nextSyncAttempt
    counter,        \* Backoff._counter
    firstSync, lastError, failures, ignoreErrors,   \* GlobalInfo
    permit,         \* GlobalInfo._multipleDeletesPermitted
    cache,          \* DestinationPrecache._cache: empty, a listing, or one
                    \* that was stored before a sync changed the destination
    fetching,       \* the precache waits for a listing
    budget

lockVars == <<busy, call, sync, task, began, unanswered>>
infoVars == <<firstSync, lastError, failures, ignoreErrors, permit>>
timeVars == <<wait, counter>>
cacheVars == <<cache, fetching>>
vars == <<lockVars, requested, timeVars, infoVars, cacheVars, budget>>

(* poll: the worker is between two polls; wants: its triggers are reset    *)
(* and it waits for a sync to end; awaits, confirms: in Coordinator.sync,  *)
(* the latter for confirmdelete; asked: startSync has created a task that  *)
(* has not called Coordinator.sync yet; holds: has the soft lock for       *)
(* something else; cancels, saves: cancelSync or saveconfig waits for the  *)
(* task it has cancelled; saved: that task is done.                        *)
CallStates == {"idle", "poll", "wants", "awaits", "confirms", "asked",
               "holds", "cancels", "saves", "saved"}

(* new: created; read: before it has listed the destination; work: after;  *)
(* cancelled, dropped: cancelled after and before its first step.          *)
TaskStates == {"none", "new", "read", "work", "cancelled", "dropped"}

TypeOK ==
    /\ busy \in BOOLEAN
    /\ call \in [Callers -> CallStates]
    /\ sync \in [Callers -> TaskStates]
    /\ task \in Callers \cup {NoTask}
    /\ began \in BOOLEAN
    /\ unanswered \subseteq Pages
    /\ requested \in BOOLEAN
    /\ wait \in Nat /\ counter \in 0..CounterCap
    /\ firstSync \in BOOLEAN /\ lastError \in BOOLEAN
    /\ failures \in Nat /\ ignoreErrors \in BOOLEAN
    /\ permit \in BOOLEAN
    /\ cache \in {"empty", "stored", "outdated"}
    /\ fetching \in BOOLEAN
    /\ budget \in [requests : Nat, faults : Nat]

-----------------------------------------------------------------------------
Active(c) == sync[c] # "none"
IsSyncing == task # NoTask /\ sync[task] # "none"

Spend(kind) ==
    /\ budget[kind] > 0
    /\ budget' = [budget EXCEPT ![kind] = @ - 1]

(* The coordinator triggers itself when it is made, and GlobalInfo takes   *)
(* the start for the last success.  All of this is in memory: a behaviour  *)
(* is the life of one process.                                             *)
Init ==
    /\ busy = FALSE
    /\ call = [c \in Callers |-> IF c = Worker THEN "poll" ELSE "idle"]
    /\ sync = [c \in Callers |-> "none"]
    /\ task = NoTask
    /\ began = FALSE /\ unanswered = {}
    /\ requested = TRUE
    /\ wait = Interval /\ counter = 0
    /\ firstSync = TRUE /\ lastError = FALSE /\ failures = 0
    /\ ignoreErrors = FALSE /\ permit = FALSE
    /\ cache = "empty" /\ fetching = FALSE
    /\ budget = [requests |-> MaxRequests, faults |-> MaxFaults]

(* Backoff(initial = 0, base = 1 unit, exp = 2).peek *)
Peek(n) ==
    IF n = 1 THEN 0
    ELSE IF 2 ^ (n - 2) \in 0..MaxBackoff THEN 2 ^ (n - 2) ELSE MaxBackoff

-----------------------------------------------------------------------------
(* The soft lock.  A call that finds it taken is refused with PleaseWait   *)
(* and goes back to where a caller rests.                                  *)
Rest(c) == IF c = Worker THEN "poll" ELSE "idle"

\* (slip) As if _busy were set and never looked at.
StartTaskUnlocked(c, state) ==
    /\ busy' = TRUE
    /\ sync' = [sync EXCEPT ![c] = "new"]
    /\ task' = c
    /\ call' = [call EXCEPT ![c] = state]

StartTask(c, state) ==
    /\ ~busy
    /\ busy' = TRUE
    /\ sync' = [sync EXCEPT ![c] = "new"]
    /\ task' = c
    /\ call' = [call EXCEPT ![c] = state]

Refused(c) ==
    /\ busy
    /\ call' = [call EXCEPT ![c] = Rest(c)]
    /\ UNCHANGED <<busy, sync, task>>

CallSync(c, state) == StartTask(c, state) \/ Refused(c)

ClearCaches == cache' = "empty" /\ UNCHANGED fetching

-----------------------------------------------------------------------------
(* Scyncer.checkforSync.  The poll resets every flag it finds; whether a   *)
(* sync is due is computed anew each time.                                 *)
\* (slip) As if the coordinator's trigger had a flag only.
WorkerPollsFlags ==
    /\ call[Worker] = "poll"
    /\ requested
    /\ requested' = FALSE
    /\ call' = [call EXCEPT ![Worker] = "wants"]
    /\ UNCHANGED <<busy, sync, task, began, unanswered, timeVars, infoVars,
                   cacheVars, budget>>

WorkerPolls ==
    /\ call[Worker] = "poll"
    /\ requested \/ wait = 0
    /\ requested' = FALSE
    /\ call' = [call EXCEPT ![Worker] = "wants"]
    /\ UNCHANGED <<busy, sync, task, began, unanswered, timeVars, infoVars,
                   cacheVars, budget>>

WorkerSyncs ==
    /\ call[Worker] = "wants"
    /\ ~IsSyncing
    /\ CallSync(Worker, "awaits")
    /\ UNCHANGED <<began, unanswered, requested, timeVars, infoVars,
                   cacheVars, budget>>

(* Coordinator._sync: the first step, the listing of the sources, what is  *)
(* done to them, and the end, which has no await between the outcome and   *)
(* the return.                                                             *)
\* (slip) As if the event were set at the end of a sync.
SyncBeginsSilently(c) ==
    /\ sync[c] = "new"
    /\ sync' = [sync EXCEPT ![c] = "read"]
    /\ UNCHANGED <<busy, call, task, began, unanswered, requested, timeVars,
                   infoVars, cacheVars, budget>>

SyncBegins(c) ==
    /\ sync[c] = "new"
    /\ sync' = [sync EXCEPT ![c] = "read"]
    /\ began' = TRUE /\ unanswered' = {}
    /\ UNCHANGED <<busy, call, task, requested, timeVars, infoVars,
                   cacheVars, budget>>

SyncReads(c) ==
    /\ sync[c] = "read"
    /\ sync' = [sync EXCEPT ![c] = "work"]
    /\ UNCHANGED <<busy, call, task, began, unanswered, requested, timeVars,
                   infoVars, cacheVars, budget>>

SyncChanges(c) ==
    /\ sync[c] = "work"
    /\ cache = "stored"
    /\ cache' = "outdated"
    /\ UNCHANGED <<lockVars, requested, timeVars, infoVars, fetching, budget>>

TaskDone(c) ==
    /\ sync' = [sync EXCEPT ![c] = "none"]
    /\ UNCHANGED <<busy, call, task, began, unanswered, requested>>

SyncSucceeds(c) ==
    /\ sync[c] = "work"
    /\ TaskDone(c)
    /\ firstSync' = FALSE /\ lastError' = FALSE /\ UNCHANGED failures
    /\ ignoreErrors' = FALSE /\ permit' = FALSE
    /\ counter' = 0 /\ wait' = Interval
    /\ ClearCaches
    /\ UNCHANGED budget

\* (slip) As if the caches were cleared after a success only.
SyncFailedUncleared(c, n) ==
    /\ TaskDone(c)
    /\ firstSync' = FALSE /\ lastError' = TRUE /\ failures' = failures + 1
    /\ ignoreErrors' = FALSE /\ UNCHANGED permit
    /\ counter' = n /\ wait' = Peek(n)
    /\ UNCHANGED cacheVars

(* handleError: n is the backoff counter after it *)
SyncFailed(c, n) ==
    /\ TaskDone(c)
    /\ firstSync' = FALSE /\ lastError' = TRUE /\ failures' = failures + 1
    /\ ignoreErrors' = FALSE /\ UNCHANGED permit
    /\ counter' = n /\ wait' = Peek(n)
    /\ ClearCaches

SyncFails(c) ==
    /\ sync[c] \in {"read", "work"}
    /\ Spend("faults")
    /\ \E soon \in BOOLEAN :
          SyncFailed(c, IF soon /\ counter < CounterCap THEN counter + 1
                        ELSE CounterCap)

SyncCancelled(c) ==
    /\ sync[c] = "cancelled"
    /\ SyncFailed(c, CounterCap)
    /\ UNCHANGED budget

(* A task that is cancelled before its first step never enters its try. *)
SyncDropped(c) ==
    /\ sync[c] = "dropped"
    /\ TaskDone(c)
    /\ UNCHANGED <<timeVars, infoVars, cacheVars, budget>>

SyncEnds(c) ==
    \/ SyncSucceeds(c) \/ SyncFails(c) \/ SyncCancelled(c) \/ SyncDropped(c)

\* (slip) As if the wrapper did not wait for the task it makes.
ReleaseEarly(c) ==
    /\ call[c] \in {"awaits", "confirms"}
    /\ busy' = FALSE
    /\ call' = [d \in Callers |-> CASE d = c -> Rest(c)
                                   [] call[d] = "cancels" -> "idle"
                                   [] call[d] = "saves" -> "saved"
                                   [] OTHER -> call[d]]
    /\ UNCHANGED <<sync, task, began, unanswered, requested, timeVars,
                   infoVars, cacheVars, budget>>

(* _sync_wrapper and _withSoftLock, some steps after the task was done.    *)
(* The loop wakes those who cancelled the task next, in the same pass.     *)
Release(c) ==
    /\ call[c] \in {"awaits", "confirms"}
    /\ sync[c] = "none"
    /\ busy' = FALSE
    /\ call' = [d \in Callers |-> CASE d = c -> Rest(c)
                                   [] call[d] = "cancels" -> "idle"
                                   [] call[d] = "saves" -> "saved"
                                   [] OTHER -> call[d]]
    /\ UNCHANGED <<sync, task, began, unanswered, requested, timeVars,
                   infoVars, cacheVars, budget>>

-----------------------------------------------------------------------------
(* UiServer.startSync: the task it creates calls Coordinator.sync later,   *)
(* and the request is answered when any sync has ever begun.               *)
AskSync(p) ==
    /\ ClearCaches
    /\ call' = [call EXCEPT ![p] = "asked"]
    /\ unanswered' = IF began THEN unanswered ELSE unanswered \cup {p}
    /\ UNCHANGED <<busy, sync, task, began, requested, timeVars>>

StartSync(p) ==
    /\ call[p] = "idle" /\ p \notin unanswered
    /\ Spend("requests")
    /\ AskSync(p)
    /\ \/ UNCHANGED infoVars
       \/ ignoreErrors' = TRUE      \* skipspacecheck
          /\ UNCHANGED <<firstSync, lastError, failures, permit>>

RunAsked(p) ==
    /\ call[p] = "asked"
    /\ CallSync(p, "awaits")
    /\ UNCHANGED <<began, unanswered, requested, timeVars, infoVars,
                   cacheVars, budget>>

(* UiServer.sync, also for resolvefolder and ignorestartupcooldown *)
SyncRequest(p) ==
    /\ call[p] = "idle" /\ p \notin unanswered
    /\ Spend("requests")
    /\ ClearCaches
    /\ CallSync(p, "awaits")
    /\ ignoreErrors' \in {ignoreErrors, TRUE}
    /\ UNCHANGED <<began, unanswered, requested, timeVars, firstSync,
                   lastError, failures, permit>>

ConfirmDelete(p) ==
    /\ call[p] = "idle" /\ p \notin unanswered
    /\ Spend("requests")
    /\ ClearCaches
    /\ CallSync(p, "confirms")
    /\ permit' = TRUE /\ ignoreErrors' = TRUE
    /\ UNCHANGED <<began, unanswered, requested, timeVars, firstSync,
                   lastError, failures>>

(* Coordinator.cancel: n is where the request waits for the task *)
CancelTask(p, n) ==
    /\ IsSyncing
    /\ sync' = [sync EXCEPT ![task] =
                 IF @ \in {"new", "dropped"} THEN "dropped" ELSE "cancelled"]
    /\ ClearCaches
    /\ call' = [call EXCEPT ![p] = n]
    /\ UNCHANGED <<busy, task, began, unanswered, requested, timeVars,
                   infoVars>>

CancelSync(p) ==
    /\ call[p] = "idle" /\ p \notin unanswered
    /\ Spend("requests")
    /\ CancelTask(p, "cancels")

(* saveconfig: cancelSync, then startSync, and no trigger *)
SaveConfig(p) ==
    /\ call[p] = "idle" /\ p \notin unanswered
    /\ Spend("requests")
    /\ \/ CancelTask(p, "saves")
       \/ ~IsSyncing /\ AskSync(p) /\ UNCHANGED infoVars

SaveStarts(p) ==
    /\ call[p] = "saved"
    /\ AskSync(p)
    /\ UNCHANGED <<infoVars, budget>>

(* startBackup, delete, ignore and uploadBackups; a refused one is over *)
Hold(p) ==
    /\ call[p] = "idle" /\ p \notin unanswered
    /\ ~busy
    /\ Spend("requests")
    /\ busy' = TRUE
    /\ call' = [call EXCEPT ![p] = "holds"]
    /\ ClearCaches
    /\ UNCHANGED <<sync, task, began, unanswered, requested, timeVars,
                   infoVars>>

HoldEnds(p) ==
    /\ call[p] = "holds"
    /\ busy' = FALSE
    /\ call' = [call EXCEPT ![p] = "idle"]
    /\ UNCHANGED <<sync, task, began, unanswered, requested, timeVars,
                   infoVars, cacheVars, budget>>

(* Trigger.trigger of the Home Assistant source, the Drive source, the     *)
(* watcher or the web server; changefolder and token also hush the errors. *)
TriggerSync ==
    /\ requested' = TRUE
    /\ ignoreErrors' \in {ignoreErrors, TRUE}
    /\ UNCHANGED <<lockVars, timeVars, firstSync, lastError, failures,
                   permit, cacheVars, budget>>

-----------------------------------------------------------------------------
(* DestinationPrecache.checkForSmoothing: its random offset makes any time *)
(* of the last Warm units before a sync possible.  A fetch that fails      *)
(* stores nothing (and is followed by none for long).  A listing is valid  *)
(* until a minute after the sync it was fetched for; here it may lose its  *)
(* validity at any time.                                                   *)
FetchStarts ==
    /\ ~fetching /\ cache = "empty"
    /\ wait > 0 /\ wait <= Warm
    /\ fetching' = TRUE
    /\ UNCHANGED <<lockVars, requested, timeVars, infoVars, cache, budget>>

FetchEnds ==
    /\ fetching
    /\ fetching' = FALSE
    /\ cache' \in {cache, "stored"}
    /\ UNCHANGED <<lockVars, requested, timeVars, infoVars, budget>>

Expires ==
    /\ cache # "empty"
    /\ cache' = "empty"
    /\ UNCHANGED <<lockVars, requested, timeVars, infoVars, fetching, budget>>

Tick ==
    /\ wait > 0
    /\ wait' = wait - 1
    /\ UNCHANGED <<lockVars, requested, counter, infoVars, cacheVars, budget>>

(* The schedule asks for a backup before the next refresh is due. *)
BackupDue ==
    /\ ~lastError
    /\ wait > 0
    /\ wait' = 0
    /\ UNCHANGED <<lockVars, requested, counter, infoVars, cacheVars, budget>>

Next ==
    \/ WorkerPolls \/ WorkerSyncs
    \/ \E c \in Callers : \/ SyncBegins(c) \/ SyncReads(c) \/ SyncChanges(c)
                          \/ SyncEnds(c) \/ Release(c)
    \/ \E p \in Pages : \/ StartSync(p) \/ RunAsked(p) \/ SyncRequest(p)
                        \/ ConfirmDelete(p) \/ CancelSync(p) \/ SaveConfig(p)
                        \/ SaveStarts(p) \/ Hold(p) \/ HoldEnds(p)
    \/ TriggerSync
    \/ FetchStarts \/ FetchEnds \/ Expires
    \/ Tick \/ BackupDue

Spec == Init /\ [][Next]_vars

(* The event loop runs whoever is ready, requests to the stores end (they  *)
(* have time-outs), and time passes.  Nothing is assumed of the precache,  *)
(* of requests or of triggers.                                             *)
Fairness ==
    /\ WF_vars(WorkerPolls) /\ WF_vars(WorkerSyncs) /\ WF_vars(Tick)
    /\ \A c \in Callers :
          /\ WF_vars(SyncBegins(c)) /\ WF_vars(SyncReads(c))
          /\ WF_vars(SyncEnds(c)) /\ WF_vars(Release(c))
    /\ \A p \in Pages :
          /\ WF_vars(RunAsked(p)) /\ WF_vars(SaveStarts(p))
          /\ WF_vars(HoldEnds(p))

FairSpec == Spec /\ Fairness

-----------------------------------------------------------------------------
(* Properties *)

(* The soft lock is held by at most one caller, and whoever runs a task    *)
(* holds it and is the one that _sync_task points at.                      *)
Syncing == {"awaits", "confirms"}
Locking == Syncing \cup {"holds"}

LockInv ==
    /\ \A c \in Callers : call[c] \in Locking => busy
    /\ \A c, d \in Callers :
          call[c] \in Locking /\ call[d] \in Locking => c = d
    /\ \A c \in Callers : Active(c) => call[c] \in Syncing /\ task = c

CacheInv == cache = "outdated" => \E c \in Callers : sync[c] = "work"

(* What one needs to know of a state to know that a step keeps the three   *)
(* invariants below and that it is a step of SyncStatus.                   *)
SchedulerInv == TypeOK /\ LockInv /\ CacheInv

(* No two synchronisations are ever in progress: not when a request comes  *)
(* between the end of a task and the release of the soft lock, nor when a  *)
(* cancelled task is still on its way out as saveconfig starts the next.   *)
OneSync == \A c, d \in Callers : Active(c) /\ Active(d) => c = d

(* What Coordinator's comment asks of clearCaches, as far as the code has  *)
(* it: the next sync never takes for the destination's content a listing   *)
(* that was stored before an earlier sync changed the destination.  (One   *)
(* that was still on its way when the caches were cleared, and one stored  *)
(* while a delete request was under way, it may take.)                     *)
ListingKnowsSyncs ==
    \A c \in Callers :
        sync[c] \in {"new", "read"} =>
            cache # "outdated"

(* The permission for multiple deletes holds for the whole of the sync     *)
(* that confirmdelete makes, though the success of any sync withdraws it.  *)
PermissionCoversSync ==
    \A p \in Pages :
        call[p] = "confirms" /\ Active(p) => permit

(* The status reported is one of SyncStatus: one outcome for each sync,    *)
(* one sync at a time, and syncs begin and end for ever - also when the    *)
(* worker's request is refused and forgotten with its triggers reset.      *)
Status == INSTANCE SyncStatus WITH syncing <- IsSyncing
ImplementsStatus == Status!StatusSpec
ImplementsFairStatus == Status!FairStatusSpec

(* Whatever backoff an error or a cancelled sync leaves behind, another    *)
(* attempt follows, and when the faults are over one succeeds.             *)
Recovers == lastError ~> ~lastError

(* Every web request is answered and done: those that wait for a task they *)
(* cancelled, and a startSync before the first sync, also when that sync   *)
(* is refused or cancelled before its first step.                          *)
RequestsAnswered ==
    \A p \in Pages :
        (call[p] # "idle" \/ p \in unanswered)
            ~> (call[p] = "idle" /\ p \notin unanswered)
=============================================================================
