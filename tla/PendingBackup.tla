--------------------------- MODULE PendingBackup ----------------------------
(***************************************************************************)
(* HaSource makes a backup with the supervisor.  The coroutine that wants  *)
(* one (a sync, or the user's request: they exclude each other by the      *)
(* coordinator's lock) stops the add-ons, puts a placeholder where the     *)
(* others see it, starts a task that sends the request, and waits for the  *)
(* task, but not for long.  The task starts the add-ons again when the     *)
(* request is answered.  Whoever lists the backups later, a sync or the    *)
(* watcher of the backup directory, replaces the placeholder by the backup *)
(* it stands for, or drops it, and then cancels the task.                  *)
(*                                                                         *)
(* A listing takes a while: what it shows may be old when it is used.      *)
(*                                                                         *)
(* A task, its placeholder and the backup it asks for have one name.       *)
(***************************************************************************)
EXTENDS AddonStopper

CONSTANTS
    MaxFaults,      \* bound on failed or lost requests
    MaxRestarts,    \* bound on restarts of the add-on
    MaxCancels,     \* bound on syncs the user cancels
    MaxOutside      \* bound on what others do at the supervisor

Other == "other"
Sync == "sync"
Watcher == "watcher"

ASSUME PendingBackupAssumption ==
    /\ MaxFaults \in Nat /\ MaxRestarts \in Nat
    /\ MaxCancels \in Nat /\ MaxOutside \in Nat

VARIABLES
    \* The supervisor.
    making,     \* the backup it is making: a task's, someone else's, or None
    exists,     \* the backups it has
    \* HaSource.
    pending,    \* pending_backup: the task it stands for, or None
    outcome,    \* outcome[i]: what is known of the request of task i
    stale,      \* pending.isStale()
    at,         \* at[i]: where task i is
    lastSlugs,  \* last_slugs
    slugs,      \* slugs[who]: what the listing of the sync or the watcher shows
    watching,   \* the watcher is listing
    \* The coroutine that holds the coordinator's lock.
    job,        \* where it is
    syncing,    \* it is a sync
    \* What is left of the bounds.
    budget

backupVars == <<making, exists>>
taskVars == <<pending, outcome, stale, at>>
listVars == <<lastSlugs, slugs, watching>>
haVars == <<taskVars, listVars>>
jobVars == <<job, syncing>>
vars == <<addonVars, backupVars, haVars, jobVars, budget>>

Outcomes == {"none", "pending", "complete", "failed", "unknown"}
Places == {"none", "request", "logs", "startAddons"}
Jobs == {"idle", "list", "listed", "create", "stopAddons", "wait", "rest"}

Spend(what) ==
    /\ budget[what] > 0
    /\ budget' = [budget EXCEPT ![what] = @ - 1]

\* HaSource.create holds _pending_backup_lock.
Creating == job \in {"stopAddons", "wait"}

-----------------------------------------------------------------------------
(* The jobs of the coordinator.                                            *)

BeginSync ==
    /\ job = "idle"
    /\ job' = "list" /\ syncing' = TRUE
    /\ UNCHANGED <<addonVars, backupVars, haVars, budget>>

\* The bound on backups: the tasks nobody has started yet.
Unused == {i \in Tasks : at[i] = "none"}

BeginBackup ==
    /\ job = "idle" /\ Unused # {}
    /\ job' = "create" /\ syncing' = FALSE
    /\ UNCHANGED <<addonVars, backupVars, haVars, budget>>

\* A backup is in progress, as far as HaSource knows.
InProgress == pending # None /\ outcome[pending] \notin {"failed", "complete"}

Refuse ==
    /\ job = "create" /\ InProgress
    /\ job' = "idle"
    /\ UNCHANGED <<addonVars, backupVars, haVars, syncing, budget>>

\* The add-ons have to be stopped first: stand in line for that.
StopAddons ==
    /\ job = "create" /\ ~InProgress /\ Unused # {}
    /\ job' = "stopAddons"
    /\ Arrive(Creator)
    /\ UNCHANGED <<supervisorVars, stopperVars, historyVars, step, addon, todo,
                   changed, backupVars, haVars, syncing, budget>>

\* (slip) Nobody waits for the add-ons to stop.
RequestAtOnce(i) ==
    /\ job = "stopAddons" /\ i \in Unused
    /\ job' = "wait"
    /\ pending' = i /\ stale' = FALSE
    /\ outcome' = [outcome EXCEPT ![i] = "pending"]
    /\ at' = [at EXCEPT ![i] = "request"]
    /\ UNCHANGED <<addonVars, backupVars, listVars, syncing, budget>>

\* They are: start the task and wait for it.
Request(i) ==
    /\ job = "stopAddons" /\ ~Waits(Creator) /\ i \in Unused
    /\ job' = "wait"
    /\ pending' = i /\ stale' = FALSE
    /\ outcome' = [outcome EXCEPT ![i] = "pending"]
    /\ at' = [at EXCEPT ![i] = "request"]
    /\ UNCHANGED <<addonVars, backupVars, listVars, syncing, budget>>

\* The task is done or new_backup_timeout_seconds are over.
StopWaiting ==
    /\ job = "wait"
    /\ job' = IF outcome[pending] \in {"failed", "unknown"} \/ ~syncing
              THEN "idle" ELSE "rest"
    /\ UNCHANGED <<addonVars, backupVars, haVars, syncing, budget>>

\* Nothing is due, or this instance has made all its backups.
NothingDue ==
    /\ job = "create" /\ syncing
    /\ job' = "rest"
    /\ UNCHANGED <<addonVars, backupVars, haVars, syncing, budget>>

\* HaSource.postSync
PostSync ==
    /\ job = "rest"
    /\ job' = "idle"
    /\ PostSyncStopper(pending # None)
    /\ UNCHANGED <<backupVars, haVars, syncing, budget>>

\* The job fails where it awaits something, for one of many reasons.
JobFails ==
    /\ job \in {"list", "listed", "create", "rest"}
    /\ job' = "idle" /\ slugs' = [slugs EXCEPT ![Sync] = {}]
    /\ UNCHANGED <<addonVars, backupVars, taskVars, lastSlugs, watching, syncing, budget>>

\* Coordinator.cancel
Cancel ==
    /\ syncing /\ job # "idle" /\ (job = "stopAddons" => Waits(Creator))
    /\ Spend("cancels")
    /\ job' = "idle" /\ slugs' = [slugs EXCEPT ![Sync] = {}]
    /\ IF job = "stopAddons"
       THEN Drop(Creator) /\ UNCHANGED <<mustStart, mustWatch, backingUp, allowRun, late>>
       ELSE UNCHANGED addonVars
    /\ UNCHANGED <<backupVars, taskVars, lastSlugs, watching, syncing>>

-----------------------------------------------------------------------------
(* The task (HaSource._requestAsync) and the supervisor's part in it.      *)

Ends(i, what) ==
    /\ outcome' = [outcome EXCEPT ![i] = what]
    /\ at' = [at EXCEPT ![i] = IF what = "complete" THEN "startAddons" ELSE "logs"]

\* finally: the add-ons are started, whatever came of the request.
FinishTask(i) ==
    /\ ExpectStart(i)
    /\ UNCHANGED <<supervisorVars, historyVars, mustStart, mustWatch, saved, allowRun,
                   step, addon, todo, changed>>

SupervisorBegins(i) ==
    /\ at[i] = "request" /\ making = None /\ i \notin exists
    /\ making' = i
    /\ UNCHANGED <<addonVars, exists, haVars, jobVars, budget>>

\* HTTP 400: it is making another one.
SupervisorBusy(i) ==
    /\ at[i] = "request" /\ making \notin {None, i}
    /\ Ends(i, "unknown")
    /\ UNCHANGED <<addonVars, backupVars, pending, stale, listVars, jobVars, budget>>

\* The backup is made; its task, if it still waits, is told its slug.
SupervisorEnds ==
    /\ making # None
    /\ making' = None /\ exists' = exists \cup {making}
    /\ IF making \in Tasks /\ at[making] = "request"
       THEN Ends(making, "complete") /\ FinishTask(making)
       ELSE UNCHANGED <<outcome, at, addonVars>>
    /\ UNCHANGED <<pending, stale, listVars, jobVars, budget>>

SupervisorFails ==
    /\ making # None /\ Spend("faults")
    /\ making' = None
    /\ IF making \in Tasks /\ at[making] = "request"
       THEN Ends(making, "failed") ELSE UNCHANGED <<outcome, at>>
    /\ UNCHANGED <<addonVars, exists, pending, stale, listVars, jobVars>>

\* The answer is lost, or pending_backup_timeout_seconds are over.
RequestTimesOut(i) ==
    /\ at[i] = "request" /\ Spend("faults")
    /\ Ends(i, "failed")
    /\ UNCHANGED <<addonVars, backupVars, pending, stale, listVars, jobVars>>

GotLogs(i) ==
    /\ at[i] = "logs"
    /\ at' = [at EXCEPT ![i] = "startAddons"]
    /\ FinishTask(i)
    /\ UNCHANGED <<backupVars, pending, outcome, stale, listVars, jobVars, budget>>

-----------------------------------------------------------------------------
(* Listing the backups (HaSource.get).                                     *)

\* isStale() of a placeholder, some time after its request has failed.
GetsStale ==
    /\ pending # None /\ outcome[pending] \in {"failed", "unknown"} /\ ~stale
    /\ stale' = TRUE
    /\ UNCHANGED <<addonVars, backupVars, pending, outcome, at, listVars, jobVars, budget>>

\* (slip) A placeholder goes only when it is stale.
DropsStale(who) == pending # None /\ stale

\* What the listing shows ends the placeholder.
Drops(who) ==
    /\ pending # None
    /\ \/ stale
       \/ outcome[pending] = "complete" /\ pending \in slugs[who]
       \/ slugs[who] \ lastSlugs # {}

\* _killPending: the task is cancelled unless it is done, and what it has
\* left to do is to start the add-ons.
Kill(i) ==
    /\ pending' = None /\ stale' = FALSE
    /\ CASE at[i] \in {"request", "logs"} ->
              at' = [at EXCEPT ![i] = "startAddons"] /\ FinishTask(i)
         [] at[i] = "startAddons" /\ Waits(i) ->
              /\ Drop(i)
              /\ UNCHANGED <<at, mustStart, mustWatch, backingUp, allowRun, late>>
         [] OTHER -> UNCHANGED <<at, addonVars>>

\* The supervisor's list, and later what is made of it.
ReadList(who) ==
    /\ slugs' = [slugs EXCEPT ![who] = exists]
    /\ UNCHANGED <<addonVars, backupVars, taskVars, lastSlugs, budget>>

UseList(who) ==
    /\ IF Drops(who) THEN Kill(pending) ELSE UNCHANGED <<pending, stale, at, addonVars>>
    /\ lastSlugs' = slugs[who]
    /\ slugs' = [slugs EXCEPT ![who] = {}]
    /\ UNCHANGED <<backupVars, outcome, budget>>

List ==
    /\ job = "list" /\ job' = "listed"
    /\ ReadList(Sync)
    /\ UNCHANGED <<syncing, watching>>

Listed ==
    /\ job = "listed" /\ job' = "create"
    /\ UseList(Sync)
    /\ UNCHANGED <<syncing, watching>>

\* The watcher lists without the coordinator's lock, when files change.
WatcherLists ==
    /\ ~watching /\ exists # lastSlugs
    /\ watching' = TRUE
    /\ ReadList(Watcher)
    /\ UNCHANGED jobVars

WatcherListed ==
    /\ watching /\ watching' = FALSE
    /\ Creating => pending = None
    /\ UseList(Watcher)
    /\ UNCHANGED jobVars

-----------------------------------------------------------------------------
(* Others at the supervisor, failures and restarts.                        *)

OtherBackup ==
    /\ making = None /\ Other \notin exists
    /\ Spend("outside")
    /\ making' = Other
    /\ UNCHANGED <<addonVars, exists, haVars, jobVars>>

User ==
    /\ Spend("outside")
    /\ \E a \in Addons : UserStarts(a) \/ UserStops(a)
    /\ UNCHANGED <<backupVars, haVars, jobVars>>

StopperFails ==
    /\ RequestFails /\ Spend("faults")
    /\ UNCHANGED <<backupVars, haVars, jobVars>>

\* Requests the supervisor has begun to serve go on.
Restart ==
    /\ Spend("restarts")
    /\ RestartStopper
    /\ pending' = None /\ stale' = FALSE
    /\ lastSlugs' = {} /\ slugs' = [who \in {Sync, Watcher} |-> {}] /\ watching' = FALSE
    /\ at' = [i \in Tasks |-> IF at[i] = "none" THEN "none" ELSE "startAddons"]
    /\ job' = "idle" /\ syncing' = FALSE
    /\ UNCHANGED <<backupVars, outcome>>

StopperOnly(A) == A /\ UNCHANGED <<backupVars, haVars, jobVars, budget>>
Stopper == StopperOnly(Answer \/ TimerRings \/ Later)

Init ==
    /\ AddonInit
    /\ making = None /\ exists \in SUBSET {Other}
    /\ pending = None /\ outcome = [i \in Tasks |-> "none"] /\ stale = FALSE
    /\ at = [i \in Tasks |-> "none"]
    /\ lastSlugs = {} /\ slugs = [who \in {Sync, Watcher} |-> {}] /\ watching = FALSE
    /\ job = "idle" /\ syncing = FALSE
    /\ budget = [faults |-> MaxFaults, restarts |-> MaxRestarts,
                 cancels |-> MaxCancels, outside |-> MaxOutside]

GoesOn ==
    \/ List \/ Listed \/ NothingDue \/ Refuse \/ StopAddons
    \/ \E i \in Tasks : Request(i)
    \/ StopWaiting \/ PostSync \/ JobFails

Job == BeginSync \/ BeginBackup \/ GoesOn \/ Cancel

Supervisor ==
    \/ \E i \in Tasks : SupervisorBegins(i) \/ SupervisorBusy(i)
    \/ SupervisorEnds \/ SupervisorFails \/ OtherBackup \/ User

Task == \E i \in Tasks : GotLogs(i) \/ RequestTimesOut(i)

Next ==
    \/ Stopper \/ Job \/ Supervisor \/ Task \/ GetsStale
    \/ WatcherLists \/ WatcherListed
    \/ StopperFails \/ Restart

Spec == Init /\ [][Next]_vars

-----------------------------------------------------------------------------
BackupTypeOK ==
    /\ making \in Tasks \cup {None, Other}
    /\ exists \in SUBSET (Tasks \cup {Other}) /\ lastSlugs \in SUBSET (Tasks \cup {Other})
    /\ pending \in Tasks \cup {None}
    /\ slugs \in [{Sync, Watcher} -> SUBSET (Tasks \cup {Other})] /\ watching \in BOOLEAN
    /\ outcome \in [Tasks -> Outcomes] /\ at \in [Tasks -> Places]
    /\ stale \in BOOLEAN /\ syncing \in BOOLEAN
    /\ job \in Jobs
    /\ budget \in [faults : Nat, restarts : Nat, cancels : Nat, outside : Nat]
TypeOK == AddonTypeOK /\ BackupTypeOK

\* Nobody stands in line twice, only the holder of the lock has a request
\* under way, the next one finds nothing of the last, and whoever is in line is
\* there for what its job or its task is doing.
OneAtATime ==
    /\ \A m, n \in DOMAIN line : line[m] = line[n] => m = n
    /\ step = "enter" => addon = None /\ todo = {} /\ ~changed
    /\ step \in StopSteps => Holds(Creator)
    /\ step \in CheckSteps => line # <<>> /\ ~Holds(Creator)
    /\ Waits(Creator) => job = "stopAddons"
    /\ \A i \in Tasks : Waits(i) => at[i] = "startAddons"

\* No request has failed so far.
Faultless == budget.faults = MaxFaults

\* While the request of the placeholder is answered by nobody, or is about to
\* be sent, the stopper knows and is not starting add-ons, unless a request has
\* failed: then the task of an older placeholder may still be about.
StopperKnows ==
    /\ budget.faults <= MaxFaults
    /\ job = "stopAddons" => ~InProgress
    /\ \A i \in Tasks : at[i] = "request" => outcome[i] = "pending"
    /\ Faultless =>
          /\ \A i \in Tasks :
                /\ at[i] = "request" => pending = i
                /\ at[i] = "logs" => pending = i /\ outcome[i] = "unknown"
          /\ \/ pending # None /\ outcome[pending] = "pending"
             \/ job = "stopAddons" /\ (~Waits(Creator) \/ step \in StopSteps)
             => backingUp /\ step \notin CheckSteps

\* This step of the stopper starts an add-on.
StartsAddon == step = "start" /\ step' # "start" /\ running' # running

\* No add-on is started while a backup is made that the placeholder stands
\* for, unless some request failed before.
KnownBackupUndisturbed ==
    [][StartsAddon /\ Faultless =>
          ~(making = pending /\ making # None /\ outcome[making] = "pending")]_vars

\* "Addons selected below will be stopped before backup and started after."
StartedAfterBackup == [][StartsAddon => making \notin Tasks]_vars

-----------------------------------------------------------------------------
(* Progress.  Requests are answered, timers ring, the supervisor finishes  *)
(* what it makes, and syncs are started again and again.                   *)

Steady ==
    /\ WF_vars(StopperOnly(Answer)) /\ WF_vars(StopperOnly(Later))
    /\ WF_vars(StopperOnly(TimerRings))
    /\ WF_vars(Supervisor) /\ WF_vars(Task) /\ WF_vars(GetsStale)
    /\ WF_vars(GoesOn) /\ SF_vars(BeginSync)

\* Not every sync fails: again and again one comes to its end.
SyncsSucceed == []<><<PostSync>>_vars

FairSpec == Spec /\ Steady /\ SyncsSucceed

\* What the stopper has stopped or switched off, and neither gave up nor
\* forgot by ending before it was saved, is put right again.
AddonsReturn ==
    \A a \in Addons :
        /\ (a \in stopped \ lost.start) ~> (a \notin stopped \/ a \in lost.start)
        /\ (a \in unguarded \ lost.watchdog) ~> (a \notin unguarded \/ a \in lost.watchdog)

\* A placeholder does not stay for ever.
PlaceholderGoes == \A i \in Tasks : pending = i ~> pending # i
=============================================================================
