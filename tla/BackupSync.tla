----------------------------- MODULE BackupSync -----------------------------
(***************************************************************************)
(* The add-on keeps backups in two stores, Home Assistant and Google       *)
(* Drive.  One job at a time (the coordinator's soft lock) works on them:  *)
(* a sync, which lists both stores, purges old copies, creates the backup  *)
(* that is due and uploads what Drive misses; or a request of the web UI   *)
(* (delete, start, load back into Home Assistant).  The job is a coroutine *)
(* that decides from a view of the stores (Model.backups) it listed        *)
(* earlier; while it awaits an answer the stores change behind its back    *)
(* and the requests that take no lock ("Never Delete", cancel, the         *)
(* confirmation of a purge) run on the same event loop.                    *)
(*                                                                         *)
(* A backup is a number, its creation date: all decisions of the sync      *)
(* compare dates only.                                                     *)
(***************************************************************************)
EXTENDS Integers, FiniteSets

CONSTANTS
    Slugs,              \* the backups that may ever exist, by date
    MaxHA, MaxDrive,    \* max_backups_in_ha, max_backups_in_google_drive
    HaveCredentials,    \* Drive credentials are present
    UploadEnabled,      \* enable_drive_upload
    DeleteAfterUpload,  \* delete_after_upload
    DeleteBeforeNew,    \* delete_before_new_backup
    ConfirmMultiple,    \* confirm_multiple_deletes
    DeleteIgnored,      \* delete_ignored_after_days > 0 and backups can be ignored
    MaxFaults,          \* bound on failed or lost requests and restarts
    MaxOutside,         \* bound on changes made by others in the stores
    MaxRequests         \* bound on requests of the web UI

ASSUME BackupSyncAssumption ==
    /\ Slugs \subseteq Nat \ {0}
    /\ IsFiniteSet(Slugs)
    /\ MaxHA \in Nat /\ MaxDrive \in Nat
    /\ HaveCredentials \in BOOLEAN /\ UploadEnabled \in BOOLEAN
    /\ DeleteAfterUpload \in BOOLEAN /\ DeleteBeforeNew \in BOOLEAN
    /\ ConfirmMultiple \in BOOLEAN /\ DeleteIgnored \in BOOLEAN
    /\ MaxFaults \in Nat /\ MaxOutside \in Nat /\ MaxRequests \in Nat

VARIABLES
    \* What the stores hold.
    copies,      \* copies[st]: the backups in store st
    kept,        \* kept[st]: those marked "Never Delete" (HA: config.retained)
    used,        \* the backups that exist or ever existed
    creating,    \* the backup the supervisor is making in the background
    \* What the add-on knows of them.
    seen,        \* seen[st]: the backups with a copy in st in Model.backups
    seenKept,    \* seenKept[st]: those whose copy it takes for retained
    ignored,     \* backups whose HA copy is to be ignored (HABackup.ignore)
    savedIgnored,\* what a restarted add-on will think of that (DataCache file)
    permitted,   \* GlobalInfo._multipleDeletesPermitted
    \* The job that holds the soft lock.
    stage,       \* where its coroutine is
    target,      \* the backup of its request in flight, or None
    queue,       \* the backups its loop still has to treat
    listing,     \* the listing on its way back
    deleteFrom,  \* the stores a delete request still has to treat
    \* A "Never Delete" request on its way to Drive (it takes no lock).
    flagging,
    \* History, read by no guard of the system.
    dirty,       \* dirty[st]: changed by others since the job listed st
    picked,      \* what the sync chose to upload while Drive was within its limit,
                 \* since a mark last changed
    \* What is left of the bounds.
    budget

jobVars   == <<stage, target, queue, listing, deleteFrom>>
storeVars == <<copies, kept, used, creating>>
viewVars  == <<seen, seenKept, ignored, savedIgnored, permitted>>
vars == <<storeVars, viewVars, jobVars, flagging, dirty, picked, budget>>

-----------------------------------------------------------------------------
Stores == {"ha", "drive"}
None == 0
SlugOrNone == Slugs \cup {None}

SyncStages == {"listHA", "gotHA", "listDrive", "gotDrive", "purgeHA",
               "purgeDrive", "findExpired", "expire", "schedule",
               "prepurgeHA", "create", "repurgeHA", "gather", "uploads",
               "prepurgeDrive", "save", "trimDrive", "finalHA", "post"}
UIDeleteStages == {"uiDeleteHA", "uiDeleteDrive"}
UIStages == UIDeleteStages \cup {"uiStart", "uiUpload"}
Stages == SyncStages \cup UIStages \cup {"idle"}

NoListing == [copies |-> {}, kept |-> {}]
RetainRequests ==
    [slug : SlugOrNone, value : BOOLEAN, applied : BOOLEAN, live : BOOLEAN]
NotFlagging == [slug |-> None, value |-> FALSE, applied |-> FALSE, live |-> FALSE]

\* With uploads turned off Drive is not even listed.
DriveEnabled == HaveCredentials /\ UploadEnabled

\* With uploads wanted and no credentials, Model.sync purges and creates nothing.
NeedsConfiguration == UploadEnabled /\ ~DriveEnabled

MaxCount(st) == IF st = "ha" THEN MaxHA ELSE MaxDrive
Enabled(st) == st = "ha" \/ DriveEnabled

\* Backup.ignore(): no source of the backup wants it tracked.  A Drive copy
\* always does, whatever is said of the copy in Home Assistant.
Ignore(s) == s \in ignored /\ s \notin seen["drive"]

Newest(S) == CHOOSE s \in S : \A t \in S : t <= s
Oldest(S) == CHOOSE s \in S : \A t \in S : s <= t

-----------------------------------------------------------------------------
(* Deciding what to purge.                                                 *)

\* (slip) considerForPurge is forgotten.
ConsideredAll(st) == {s \in seen[st] : ~Ignore(s)}

\* (slip) Whether the backup is to be ignored is forgotten.
ConsideredIgnored(st) == seen[st] \ seenKept[st]

\* (slip) DeleteAfterUploadScheme takes a backup that is in this store only.
ConsideredAnywhere(st) == {s \in seen[st] \ seenKept[st] : ~Ignore(s)}

\* The copies the delete scheme of store st chooses from.
Considered(st) ==
    LET purgeable == {s \in seen[st] \ seenKept[st] : ~Ignore(s)}
    IN  IF st = "ha" /\ DeleteAfterUpload
        THEN purgeable \cap seen["drive"]
        ELSE purgeable

\* How many of them the scheme leaves alone.
Keeps(st, prePurge) ==
    IF st = "ha" /\ DeleteAfterUpload THEN 0
    ELSE IF prePurge THEN MaxCount(st) - 1
    ELSE MaxCount(st)

Purges(st) ==
    /\ Enabled(st)
    /\ MaxCount(st) # 0 \/ (st = "ha" /\ DeleteAfterUpload)

\* (slip) Every purge makes room for a backup to come.
PurgeCountAhead(st, prePurge) ==
    LET n == Cardinality(Considered(st)) - Keeps(st, TRUE)
    IN  IF Purges(st) /\ n > 0 THEN n ELSE 0

\* The length of Model._getPurgeList.
PurgeCount(st, prePurge) ==
    LET n == Cardinality(Considered(st)) - Keeps(st, prePurge)
    IN  IF Purges(st) /\ n > 0 THEN n ELSE 0

PurgeStages == {"purgeHA", "purgeDrive", "prepurgeHA", "repurgeHA",
                "prepurgeDrive", "trimDrive", "finalHA"}
PurgeStore(p) ==
    IF p \in {"purgeHA", "prepurgeHA", "repurgeHA", "finalHA"} THEN "ha" ELSE "drive"
PrePurge(p) == p \in {"prepurgeHA", "prepurgeDrive"}
AfterPurge ==
    [p \in PurgeStages |->
        CASE p = "purgeHA"       -> "purgeDrive"
          [] p = "purgeDrive"    -> "findExpired"
          [] p = "prepurgeHA"    -> "create"
          [] p = "repurgeHA"     -> "gather"
          [] p = "prepurgeDrive" -> "save"
          [] p = "trimDrive"     -> "uploads"
          [] p = "finalHA"       -> "post"]

\* (slip) The backup to upload is not counted.
PurgedNextUncounted(s) ==
    /\ Purges("drive")
    /\ Cardinality(Considered("drive")) > MaxDrive
    /\ \A t \in Considered("drive") : s < t

\* (slip) The limit is forgotten.
PurgedNextByDate(s) == \A t \in Considered("drive") : s < t

\* Uploading s is pointless if its copy would be the next one purged.
PurgedNext(s) ==
    /\ Purges("drive")
    /\ Cardinality(Considered("drive")) + 1 > MaxDrive
    /\ \A t \in Considered("drive") : s < t

-----------------------------------------------------------------------------
(* Scheduling.  The coroutines share one thread: a step of another one can *)
(* come only where the job awaits an answer.                               *)

Awaiting ==
    \/ stage \in {"idle", "listHA", "gotHA", "listDrive"}
    \/ stage = "gotDrive" /\ DriveEnabled
    \/ target # None

\* The job is over: the soft lock is released.
EndJob ==
    /\ stage' = "idle" /\ target' = None /\ queue' = {}
    /\ listing' = NoListing /\ deleteFrom' = {} /\ picked' = {}

Goto(next) == stage' = next /\ UNCHANGED <<target, queue, listing, deleteFrom, picked>>

Spend(what) ==
    /\ budget[what] > 0
    /\ budget' = [budget EXCEPT ![what] = @ - 1]

Dirty(st, s) == dirty' = [dirty EXCEPT ![st] = @ \cup {s}]

\* (slip) The view of the other store is lost as well.
ForgetBackup(st, s) ==
    /\ seen' = [t \in {st} |-> seen[t] \ {s}]
    /\ UNCHANGED <<seenKept, flagging>>

\* (slip) The copy stays in the view.
ForgetMark(st, s) ==
    /\ seenKept' = [seenKept EXCEPT ![st] = @ \ {s}]
    /\ UNCHANGED <<seen, flagging>>

\* The view loses the copy of s in st; the object a flagging request holds
\* is no longer part of it.
Forget(st, s) ==
    /\ seen' = [seen EXCEPT ![st] = @ \ {s}]
    /\ seenKept' = [seenKept EXCEPT ![st] = @ \ {s}]
    /\ flagging' = IF st = "drive" /\ flagging.slug = s
                   THEN [flagging EXCEPT !.live = FALSE] ELSE flagging

\* The mark of a Drive copy goes with the file, that of an HA copy is config.
RemoveCopy(st, s) ==
    /\ copies' = [copies EXCEPT ![st] = @ \ {s}]
    /\ kept' = IF st = "drive" THEN [kept EXCEPT !["drive"] = @ \ {s}] ELSE kept
AddCopy(st, s) == copies' = [copies EXCEPT ![st] = @ \cup {s}]
See(st, s) == seen' = [seen EXCEPT ![st] = @ \cup {s}]

-----------------------------------------------------------------------------
(* Listing the stores (Model._syncBackups).                                *)

BeginSync ==
    /\ stage = "idle"
    /\ Goto("listHA")
    /\ UNCHANGED <<storeVars, viewVars, flagging, dirty, budget>>

\* The store answers: what the job will learn is fixed here.
List(st) ==
    /\ stage = IF st = "ha" THEN "listHA" ELSE "listDrive"
    /\ stage' = IF st = "ha" THEN "gotHA" ELSE "gotDrive"
    /\ listing' = [copies |-> copies[st], kept |-> kept[st] \cap copies[st]]
    /\ dirty' = [dirty EXCEPT ![st] = {}]
    /\ UNCHANGED <<storeVars, viewVars, flagging, budget, target, queue,
                   deleteFrom, picked>>

\* (slip) A "Never Delete" request marks the object it started from, whether
\* the view still has it or not.
LearnBeside(st) ==
    /\ stage = IF st = "ha" THEN "gotHA" ELSE "gotDrive"
    /\ seen' = [seen EXCEPT ![st] = listing.copies]
    /\ seenKept' = [seenKept EXCEPT ![st] = listing.kept]
    /\ UNCHANGED flagging

\* The answer replaces what was known of the store.
Learn(st) ==
    /\ stage = IF st = "ha" THEN "gotHA" ELSE "gotDrive"
    /\ seen' = [seen EXCEPT ![st] = listing.copies]
    /\ seenKept' = [seenKept EXCEPT ![st] = listing.kept]
    /\ flagging' = IF st = "drive" THEN [flagging EXCEPT !.live = FALSE] ELSE flagging

\* The job takes the listing for what the store holds and goes on.
Merge(st) ==
    /\ Learn(st)
    /\ stage' = IF st = "ha"
                THEN IF DriveEnabled THEN "listDrive" ELSE "gotDrive"
                ELSE IF NeedsConfiguration THEN "findExpired" ELSE "purgeHA"
    /\ listing' = NoListing
    /\ UNCHANGED <<storeVars, ignored, savedIgnored, permitted, dirty, budget, target, queue,
                   deleteFrom, picked>>

\* DriveSource.checkBeforeChanges: there is another backup folder, the user has
\* to say which one to use.  The view is fresh and nothing more is done.
FolderQuestion ==
    /\ Learn("drive") /\ DriveEnabled
    /\ EndJob
    /\ Spend("faults")
    /\ UNCHANGED <<storeVars, ignored, savedIgnored, permitted, dirty>>

-----------------------------------------------------------------------------
(* Purging (Model._purge): the list is made anew before every deletion.    *)

PurgeDone(p) ==
    /\ stage = p /\ target = None
    /\ PurgeCount(PurgeStore(p), PrePurge(p)) = 0
    /\ Goto(AfterPurge[p])
    /\ UNCHANGED <<storeVars, viewVars, flagging, dirty, budget>>

\* (slip) confirm_multiple_deletes is not asked for.
PurgeUnconfirmed(p) ==
    /\ stage = p /\ target = None
    /\ PurgeCount(PurgeStore(p), PrePurge(p)) > 0
    /\ target' = Oldest(Considered(PurgeStore(p)))
    /\ UNCHANGED <<storeVars, viewVars, flagging, dirty, budget, stage, queue,
                   listing, deleteFrom, picked>>

\* Model.deleteBackup asks the store to drop the first of the list.
PurgeRequest(p) ==
    /\ stage = p /\ target = None
    /\ PurgeCount(PurgeStore(p), PrePurge(p)) > 0
    /\ PurgeCount(PurgeStore(p), PrePurge(p)) = 1 \/ ~ConfirmMultiple \/ permitted
    /\ target' = Oldest(Considered(PurgeStore(p)))
    /\ UNCHANGED <<storeVars, viewVars, flagging, dirty, budget, stage, queue,
                   listing, deleteFrom, picked>>

\* DeleteMutlipleBackupsError: the user has to confirm first.
PurgeRefused(p) ==
    /\ stage = p /\ target = None
    /\ PurgeCount(PurgeStore(p), PrePurge(p)) > 1
    /\ ConfirmMultiple /\ ~permitted
    /\ EndJob
    /\ UNCHANGED <<storeVars, viewVars, flagging, dirty, budget>>

\* The backups Model.sync drops because they are ignored and old enough.
FindExpired ==
    /\ stage = "findExpired"
    /\ \E cutoff \in Slugs \cup {None} :
           queue' = IF DeleteIgnored
                    THEN {s \in seen["ha"] : Ignore(s) /\ s <= cutoff}
                    ELSE {}
    /\ stage' = "expire"
    /\ UNCHANGED <<storeVars, viewVars, flagging, dirty, budget, target, listing,
                   deleteFrom, picked>>

ExpireRequest ==
    /\ stage = "expire" /\ target = None
    /\ \E s \in queue : target' = s /\ queue' = queue \ {s}
    /\ UNCHANGED <<storeVars, viewVars, flagging, dirty, budget, stage, listing,
                   deleteFrom, picked>>

ExpireDone ==
    /\ stage = "expire" /\ target = None /\ queue = {}
    /\ Goto("schedule")
    /\ UNCHANGED <<storeVars, viewVars, flagging, dirty, budget>>

Deleting == target # None /\ stage \in PurgeStages \cup {"expire"} \cup UIDeleteStages

\* The store the deletion in flight is for.
DeleteStore ==
    CASE stage \in {"expire", "uiDeleteHA"} -> "ha"
      [] stage = "uiDeleteDrive"           -> "drive"
      [] OTHER                             -> PurgeStore(stage)

\* The store deletes the copy and the answer updates the view.
Deleted ==
    /\ Deleting /\ target \in copies[DeleteStore]
    /\ RemoveCopy(DeleteStore, target)
    /\ Forget(DeleteStore, target)
    /\ deleteFrom' = deleteFrom \ {DeleteStore}
    /\ target' = None
    /\ UNCHANGED <<used, creating, ignored, savedIgnored, permitted, stage, queue,
                   listing, picked, dirty, budget>>

\* Someone else was faster: the store refuses and the job fails.
DeleteRefused ==
    /\ Deleting /\ target \notin copies[DeleteStore]
    /\ EndJob
    /\ UNCHANGED <<storeVars, viewVars, flagging, dirty, budget>>

-----------------------------------------------------------------------------
(* Creating the backup that is due.                                        *)

Fresh == {s \in Slugs \ used : \A t \in used : t < s}

NotDue ==
    /\ stage = "schedule"
    /\ Goto("gather")
    /\ UNCHANGED <<storeVars, viewVars, flagging, dirty, budget>>

Due ==
    /\ stage = "schedule" /\ ~NeedsConfiguration /\ Fresh # {}
    /\ Goto(IF DeleteBeforeNew THEN "prepurgeHA" ELSE "create")
    /\ UNCHANGED <<storeVars, viewVars, flagging, dirty, budget>>

\* HaSource.create hands the request to the supervisor...
CreateRequest ==
    /\ stage = "create" /\ target = None
    /\ creating = None
    /\ \E s \in Fresh : target' = s /\ used' = used \cup {s}
    /\ UNCHANGED <<copies, kept, creating, viewVars, flagging, dirty, budget, stage,
                   queue, listing, deleteFrom, picked>>

\* ... unless one is running (BackupInProgress).  Out of dates to give it,
\* this instance refuses as well.
CreateRefused ==
    /\ stage = "create" /\ target = None
    /\ creating # None \/ Fresh = {}
    /\ EndJob
    /\ UNCHANGED <<storeVars, viewVars, flagging, dirty, budget>>

AfterCreate ==
    IF stage = "create"
    THEN /\ stage' = "repurgeHA" /\ target' = None
         /\ UNCHANGED <<queue, listing, deleteFrom, picked>>
    ELSE EndJob

\* It is made within new_backup_timeout_seconds ...
Created ==
    /\ stage \in {"create", "uiStart"} /\ target # None
    /\ AddCopy("ha", target) /\ See("ha", target)
    /\ AfterCreate
    /\ UNCHANGED <<kept, used, creating, seenKept, ignored, savedIgnored, permitted,
                   flagging, dirty, budget>>

\* ... or the job goes on with a placeholder that nothing purges or uploads.
CreatePending ==
    /\ stage \in {"create", "uiStart"} /\ target # None
    /\ creating' = target
    /\ AfterCreate
    /\ UNCHANGED <<copies, kept, used, viewVars, flagging, dirty, budget>>

BackupFinishes ==
    /\ creating # None
    /\ AddCopy("ha", creating)
    /\ Dirty("ha", creating)
    /\ creating' = None
    /\ UNCHANGED <<kept, used, viewVars, jobVars, picked, flagging, budget>>

BackupFails ==
    /\ creating # None
    /\ creating' = None
    /\ Spend("faults")
    /\ UNCHANGED <<copies, kept, used, viewVars, jobVars, picked, flagging, dirty>>

-----------------------------------------------------------------------------
(* Uploading, newest backup first.                                         *)

Gather ==
    /\ stage = "gather"
    /\ queue' = IF DriveEnabled
                THEN {s \in seen["ha"] \ seen["drive"] : ~Ignore(s)}
                ELSE {}
    /\ stage' = IF DriveEnabled THEN "uploads" ELSE "post"
    /\ UNCHANGED <<storeVars, viewVars, flagging, dirty, budget, target, listing,
                   deleteFrom, picked>>

NextUpload ==
    /\ stage = "uploads" /\ queue # {}
    /\ ~PurgedNext(Newest(queue))
    /\ stage' = IF DeleteBeforeNew THEN "prepurgeDrive" ELSE "save"
    /\ picked' = IF PurgeCount("drive", FALSE) = 0
                 THEN picked \cup {Newest(queue)} ELSE picked
    /\ UNCHANGED <<storeVars, viewVars, flagging, dirty, budget, target, queue,
                   listing, deleteFrom>>

UploadsDone ==
    /\ stage = "uploads"
    /\ queue # {} => PurgedNext(Newest(queue))
    /\ stage' = IF DeleteAfterUpload THEN "finalHA" ELSE "post"
    /\ queue' = {}
    /\ UNCHANGED <<storeVars, viewVars, flagging, dirty, budget, target, listing,
                   deleteFrom, picked>>

SaveRequest ==
    /\ stage = "save" /\ target = None
    /\ target' = Newest(queue)
    /\ queue' = queue \ {target'}
    /\ UNCHANGED <<storeVars, viewVars, flagging, dirty, budget, stage, listing,
                   deleteFrom, picked>>

\* The file is read from Home Assistant while it is written to Drive.
Saved ==
    /\ stage = "save" /\ target # None /\ target \in copies["ha"]
    /\ AddCopy("drive", target) /\ See("drive", target)
    /\ stage' = "trimDrive" /\ target' = None
    /\ UNCHANGED <<kept, used, creating, seenKept, ignored, savedIgnored, permitted,
                   flagging, dirty, budget, queue, listing, deleteFrom, picked>>

SaveRefused ==
    /\ stage = "save" /\ target # None /\ target \notin copies["ha"]
    /\ EndJob
    /\ UNCHANGED <<storeVars, viewVars, flagging, dirty, budget>>

\* The sync succeeded: GlobalInfo.success, DataCache.saveIfDirty.
Succeed ==
    /\ stage = "post"
    /\ EndJob
    /\ permitted' = FALSE
    /\ savedIgnored' = ignored
    /\ UNCHANGED <<storeVars, seen, seenKept, ignored, flagging, dirty, budget>>

-----------------------------------------------------------------------------
(* Requests of the web UI that take the soft lock.  While another job holds*)
(* it they are answered with PleaseWait and change nothing.                *)

UIRequest(next) ==
    /\ stage = "idle"
    /\ Spend("requests")
    /\ stage' = next
    /\ UNCHANGED <<storeVars, seen, seenKept, savedIgnored, permitted, flagging,
                   dirty, listing, picked>>

BeginDelete(s, from) ==
    /\ UIRequest("uiDeleteHA")
    /\ s \in seen["ha"] \cup seen["drive"]
    /\ queue' = {s} /\ deleteFrom' = from
    /\ UNCHANGED <<ignored, target>>

\* Coordinator._delete treats one source after the other, in the order of the
\* request.
DeleteRequest ==
    /\ stage \in UIDeleteStages /\ target = None
    /\ \E s \in queue, st \in deleteFrom :
          /\ s \in seen[st] /\ Enabled(st)
          /\ target' = s
          /\ stage' = IF st = "ha" THEN "uiDeleteHA" ELSE "uiDeleteDrive"
    /\ UNCHANGED <<storeVars, viewVars, flagging, dirty, budget, queue, listing,
                   deleteFrom, picked>>

\* Nothing is left to delete, or the next copy is not there (NoBackup).
DeleteDone ==
    /\ stage \in UIDeleteStages /\ target = None
    /\ \/ deleteFrom = {}
       \/ \E s \in queue, st \in deleteFrom : s \notin seen[st] \/ ~Enabled(st)
    /\ EndJob
    /\ UNCHANGED <<storeVars, viewVars, flagging, dirty, budget>>

\* Coordinator._startBackup asks for a backup now.
BeginStart ==
    /\ stage = "idle" /\ creating = None
    /\ Spend("requests")
    /\ \E s \in Fresh : target' = s /\ used' = used \cup {s}
    /\ stage' = "uiStart"
    /\ UNCHANGED <<copies, kept, creating, viewVars, flagging, dirty, queue, listing,
                   deleteFrom, picked>>

\* Coordinator._uploadBackup loads a backup from Drive into Home Assistant.
BeginLoad(s) ==
    /\ UIRequest("uiUpload")
    /\ s \in seen["drive"] \ seen["ha"] /\ DriveEnabled
    /\ target' = s
    /\ UNCHANGED <<ignored, queue, deleteFrom>>

\* HaSource.save marks what it loads as retained.
Loaded ==
    /\ stage = "uiUpload" /\ target \in copies["drive"]
    /\ AddCopy("ha", target) /\ See("ha", target)
    /\ kept' = [kept EXCEPT !["ha"] = @ \cup {target}]
    /\ seenKept' = [seenKept EXCEPT !["ha"] = @ \cup {target}]
    /\ EndJob
    /\ UNCHANGED <<used, creating, ignored, savedIgnored, permitted, flagging,
                   dirty, budget>>

LoadRefused ==
    /\ stage = "uiUpload" /\ target \notin copies["drive"]
    /\ EndJob
    /\ UNCHANGED <<storeVars, viewVars, flagging, dirty, budget>>

\* Coordinator._ignore never awaits: the request is one step.
SetIgnored(s, value) ==
    /\ UIRequest("idle")
    /\ s \in seen["ha"]
    /\ ignored' = IF value THEN ignored \cup {s} ELSE ignored \ {s}
    /\ UNCHANGED <<queue, deleteFrom, target>>

-----------------------------------------------------------------------------
(* Requests of the web UI that take no lock: they run wherever the job     *)
(* awaits an answer.                                                       *)

\* "Never Delete" for the copy in Home Assistant is add-on configuration.
RetainHA(s, value) ==
    /\ Awaiting
    /\ Spend("requests")
    /\ s \in seen["ha"]
    /\ kept' = [kept EXCEPT !["ha"] = IF value THEN @ \cup {s} ELSE @ \ {s}]
    /\ seenKept' = [seenKept EXCEPT !["ha"] = IF value THEN @ \cup {s} ELSE @ \ {s}]
    /\ IF stage = "gotHA" THEN Dirty("ha", s) ELSE UNCHANGED dirty
    /\ picked' = {}
    /\ UNCHANGED <<copies, used, creating, seen, ignored, savedIgnored, permitted,
                   jobVars, flagging>>

\* For the copy in Drive it is a property of the file: ask Drive first, ...
RetainDrive(s, value) ==
    /\ Awaiting
    /\ Spend("requests")
    /\ flagging.slug = None
    /\ DriveEnabled /\ s \in seen["drive"]
    /\ (s \in seenKept["drive"]) # value
    /\ flagging' = [slug |-> s, value |-> value, applied |-> FALSE, live |-> TRUE]
    /\ UNCHANGED <<storeVars, viewVars, jobVars, picked, dirty>>

\* ... Drive applies it ...
DriveRetains ==
    /\ flagging.slug \in copies["drive"] /\ ~flagging.applied
    /\ kept' = [kept EXCEPT !["drive"] =
                   IF flagging.value THEN @ \cup {flagging.slug} ELSE @ \ {flagging.slug}]
    /\ Dirty("drive", flagging.slug)
    /\ flagging' = [flagging EXCEPT !.applied = TRUE]
    /\ UNCHANGED <<copies, used, creating, viewVars, jobVars, picked, budget>>

\* ... and the answer marks the object the request started from.
RetainDone ==
    /\ Awaiting
    /\ flagging.applied
    /\ seenKept' = IF ~flagging.live THEN seenKept
                   ELSE [seenKept EXCEPT !["drive"] = IF flagging.value
                             THEN @ \cup {flagging.slug} ELSE @ \ {flagging.slug}]
    /\ dirty' = IF flagging.live /\ stage # "gotDrive" /\ flagging.slug \in copies["drive"]
                THEN [dirty EXCEPT !["drive"] = @ \ {flagging.slug}] ELSE dirty
    /\ flagging' = NotFlagging
    /\ picked' = {}
    /\ UNCHANGED <<storeVars, seen, ignored, savedIgnored, permitted, jobVars, budget>>

\* The request fails: the file is gone, or its answer is lost.
RetainFails ==
    /\ Awaiting /\ flagging.slug # None
    /\ IF flagging.slug \in copies["drive"] THEN Spend("faults") ELSE UNCHANGED budget
    /\ flagging' = NotFlagging
    /\ UNCHANGED <<storeVars, viewVars, jobVars, picked, dirty>>

\* GlobalInfo.allowMultipleDeletes
ConfirmDeletes ==
    /\ Awaiting /\ ~permitted
    /\ Spend("requests")
    /\ permitted' = TRUE
    /\ UNCHANGED <<storeVars, seen, seenKept, ignored, savedIgnored, jobVars,
                   picked, flagging, dirty>>

-----------------------------------------------------------------------------
(* What the store did with a request nobody waits for any more.            *)

Abandoned ==
    \/ UNCHANGED <<copies, kept, creating>>
    \/ /\ Deleting
       /\ RemoveCopy(DeleteStore, target)
       /\ UNCHANGED creating
    \/ /\ stage = "save" /\ target \in copies["ha"]
       /\ AddCopy("drive", target)
       /\ UNCHANGED <<kept, creating>>
    \/ /\ stage = "uiUpload" /\ target \in copies["drive"]
       /\ AddCopy("ha", target)
       /\ UNCHANGED <<kept, creating>>
    \/ /\ stage \in {"create", "uiStart"}
       /\ creating' = target
       /\ UNCHANGED <<copies, kept>>

InFlight == target # None \/ (stage # "idle" /\ Awaiting)

\* A request fails, or its answer is lost: the job ends with an error.
RequestFails ==
    /\ InFlight
    /\ Spend("faults")
    /\ Abandoned
    /\ EndJob
    /\ UNCHANGED <<used, viewVars, flagging, dirty>>

\* Coordinator.cancel throws CancelledError into a sync.
Cancel ==
    /\ InFlight /\ stage \in SyncStages
    /\ Spend("requests")
    /\ Abandoned
    /\ EndJob
    /\ UNCHANGED <<used, viewVars, flagging, dirty>>

\* The add-on stops anywhere and starts again with nothing in memory.
Restart ==
    /\ Spend("faults")
    /\ Abandoned
    /\ EndJob
    /\ seen' = [st \in Stores |-> {}] /\ seenKept' = [st \in Stores |-> {}]
    /\ ignored' = savedIgnored /\ permitted' = FALSE
    /\ flagging' = NotFlagging
    /\ UNCHANGED <<used, savedIgnored, dirty>>

-----------------------------------------------------------------------------
(* Others use the stores too.                                              *)

\* A backup made by someone else appears; it may be of a kind to ignore.
OutsideBackup(s, ignore) ==
    /\ Spend("outside")
    /\ s \in Slugs \ used
    /\ used' = used \cup {s}
    /\ AddCopy("ha", s) /\ Dirty("ha", s)
    /\ ignored' = IF ignore THEN ignored \cup {s} ELSE ignored
    /\ savedIgnored' = IF ignore THEN savedIgnored \cup {s} ELSE savedIgnored
    /\ UNCHANGED <<kept, creating, seen, seenKept, permitted, jobVars, picked, flagging>>

OutsideDelete(st, s) ==
    /\ Spend("outside")
    /\ s \in copies[st]
    /\ RemoveCopy(st, s) /\ Dirty(st, s)
    /\ UNCHANGED <<used, creating, viewVars, jobVars, picked, flagging>>

-----------------------------------------------------------------------------
\* The add-on starts on whatever the two stores hold.
Init ==
    /\ copies \in [Stores -> SUBSET Slugs]
    /\ kept \in [Stores -> SUBSET Slugs]
    /\ \A st \in Stores : kept[st] \subseteq copies[st]
    /\ used = copies["ha"] \cup copies["drive"]
    /\ creating = None
    /\ seen = [st \in Stores |-> {}] /\ seenKept = [st \in Stores |-> {}]
    /\ ignored = {} /\ savedIgnored = {} /\ permitted = FALSE
    /\ stage = "idle" /\ target = None /\ queue = {} /\ listing = NoListing
    /\ deleteFrom = {} /\ picked = {}
    /\ flagging = NotFlagging
    /\ dirty = [st \in Stores |-> {}]
    /\ budget = [faults |-> MaxFaults, outside |-> MaxOutside, requests |-> MaxRequests]

\* What the holder of the soft lock does when nothing goes wrong.
Sync ==
    \/ BeginSync
    \/ \E st \in Stores : List(st) \/ Merge(st)
    \/ \E p \in PurgeStages : PurgeDone(p) \/ PurgeRequest(p) \/ PurgeRefused(p)
    \/ FindExpired \/ ExpireRequest \/ ExpireDone
    \/ NotDue \/ Due \/ CreateRequest \/ CreateRefused
    \/ Gather \/ NextUpload \/ UploadsDone \/ SaveRequest \/ Saved \/ SaveRefused
    \/ Succeed

Answers == Deleted \/ DeleteRefused \/ Created \/ CreatePending \/ Loaded \/ LoadRefused

WebUI ==
    \/ \E s \in Slugs, from \in SUBSET Stores : from # {} /\ BeginDelete(s, from)
    \/ DeleteRequest \/ DeleteDone
    \/ BeginStart
    \/ \E s \in Slugs : BeginLoad(s)
    \/ \E s \in Slugs, value \in BOOLEAN :
          SetIgnored(s, value) \/ RetainHA(s, value) \/ RetainDrive(s, value)
    \/ DriveRetains \/ RetainDone \/ ConfirmDeletes \/ Cancel

Outside ==
    \/ BackupFinishes
    \/ \E s \in Slugs, ignore \in BOOLEAN : OutsideBackup(s, ignore)
    \/ \E st \in Stores, s \in Slugs : OutsideDelete(st, s)

Faults == RequestFails \/ RetainFails \/ BackupFails \/ FolderQuestion \/ Restart

Next == Sync \/ Answers \/ WebUI \/ Outside \/ Faults

Spec == Init /\ [][Next]_vars

-----------------------------------------------------------------------------
(* What the sync promises.                                                 *)

TypeOK ==
    /\ copies \in [Stores -> SUBSET Slugs]
    /\ kept \in [Stores -> SUBSET Slugs]
    /\ used \in SUBSET Slugs
    /\ creating \in SlugOrNone
    /\ seen \in [Stores -> SUBSET Slugs]
    /\ seenKept \in [Stores -> SUBSET Slugs]
    /\ ignored \in SUBSET Slugs /\ savedIgnored \in SUBSET Slugs
    /\ permitted \in BOOLEAN
    /\ stage \in Stages
    /\ target \in SlugOrNone
    /\ queue \in SUBSET Slugs
    /\ listing \in [copies : SUBSET Slugs, kept : SUBSET Slugs]
    /\ deleteFrom \in SUBSET Stores
    /\ flagging \in RetainRequests
    /\ dirty \in [Stores -> SUBSET Slugs]
    /\ picked \in SUBSET Slugs
    /\ budget \in [faults : Nat, outside : Nat, requests : Nat]

Listed(st) ==
    stage \in SyncStages \ IF st = "ha" THEN {"listHA", "gotHA"}
                           ELSE {"listHA", "gotHA", "listDrive", "gotDrive"}

\* After a sync has listed a store, what it takes for true of the copies in
\* it stays true through all its own deletions, creations and uploads, but
\* for the copies someone else has touched meanwhile.  (Model._syncBackups
\* and every addSource and removeSource after it.)
ViewMatches ==
    \A st \in Stores : Listed(st) /\ Enabled(st) =>
        \A s \in Slugs \ dirty[st] :
            /\ s \in seen[st] <=> s \in copies[st]
            /\ s \in seen[st] => (s \in seenKept[st] <=> s \in kept[st])

(* Why: what holds between the steps so that the view keeps matching.       *)

\* Nothing is known of a backup that never existed.
OnlyUsed ==
    /\ \A st \in Stores : copies[st] \cup kept[st] \cup seen[st] \subseteq used
    /\ listing.copies \cup queue \subseteq used
    /\ creating # None => creating \in used

\* A mark belongs to a copy, and of a Drive it does not list the add-on knows
\* nothing.
MarksHaveCopies ==
    /\ \A st \in Stores : seenKept[st] \subseteq seen[st]
    /\ kept["drive"] \subseteq copies["drive"]
    /\ listing.kept \subseteq listing.copies
    /\ stage = "listDrive" => DriveEnabled
    /\ ~DriveEnabled => seen["drive"] = {} /\ (stage = "gotDrive" => listing = NoListing)

\* A request is in flight only in the stages that make one.
OneRequest ==
    target # None =>
        stage \in PurgeStages \cup UIStages \cup {"expire", "create", "save"}

\* What is being created is a backup nobody has heard of.
NewIsNew ==
    stage \in {"create", "uiStart"} /\ target # None =>
        /\ target \in used /\ creating = None
        /\ target \notin seen["ha"] \cup copies["ha"] \cup kept["ha"]

\* What is left to upload is not in Drive as far as the sync knows, and not
\* to be ignored.
UploadsMissing ==
    /\ stage \in {"uploads", "prepurgeDrive", "save", "trimDrive"} =>
          DriveEnabled /\ queue \cap (seen["drive"] \cup ignored) = {}
    /\ stage = "prepurgeDrive" \/ (stage = "save" /\ target = None) => queue # {}
    /\ stage = "save" => target \notin seen["drive"] \cup queue

\* The answer that comes back agrees with the store it was asked of.
ListingMatches ==
    \A st \in Stores : Enabled(st) /\ stage = (IF st = "ha" THEN "gotHA" ELSE "gotDrive") =>
        \A s \in Slugs \ dirty[st] :
            /\ s \in listing.copies <=> s \in copies[st]
            /\ s \in listing.copies => (s \in listing.kept <=> s \in kept[st])

\* The object a "Never Delete" request holds is still in the view, or its
\* answer is of no consequence; Drive has what it was told.
FlaggingHolds ==
    flagging.live =>
        /\ flagging.slug \in seen["drive"]
        /\ flagging.applied /\ flagging.slug \in copies["drive"] =>
              (flagging.slug \in kept["drive"] <=> flagging.value)

\* The inductive invariant: with it every step keeps ViewMatches.
SyncInv ==
    /\ TypeOK /\ OnlyUsed /\ MarksHaveCopies /\ OneRequest /\ NewIsNew
    /\ UploadsMissing /\ ListingMatches /\ FlaggingHolds /\ ViewMatches

\* This step decides to delete the backup target' in purge stage p.
Chooses(p) == stage = p /\ target = None /\ stage' = p /\ target' # None

\* A purge never picks a copy that is marked "Never Delete" in its store,
\* unless the mark was set while, or after, the sync listed the store and
\* the sync has not learned of it.
PurgeSparesKept ==
    [][\A p \in PurgeStages : Chooses(p) =>
          \/ target' \notin kept[PurgeStore(p)]
          \/ target' \in dirty[PurgeStore(p)]]_vars

Unignored == {s \in Slugs : s \notin ignored \/ (DriveEnabled /\ s \in copies["drive"])}
Purgeable(st) == (copies[st] \ kept[st]) \cap Unignored
Touched == dirty["ha"] \cup dirty["drive"]

\* A purge is never ahead of the limit: when it picks a copy, the store holds
\* at least as many newer copies as it is to keep, less those others touched.
PurgeLeavesEnough ==
    [][\A p \in PurgeStages : Chooses(p) =>
          Cardinality({s \in Purgeable(PurgeStore(p)) : s > target'} \cup Touched)
              >= Keeps(PurgeStore(p), PrePurge(p))]_vars

\* Without the user's confirmation a purge only ever removes the one copy too
\* many: with it gone, the store holds no more than it is to keep.
UnconfirmedPurgeIsLast ==
    [][\A p \in PurgeStages : Chooses(p) /\ ConfirmMultiple /\ ~permitted =>
          LET left == (Purgeable(PurgeStore(p)) \ Touched) \ {target'}
          IN  Cardinality(IF PurgeStore(p) = "ha" /\ DeleteAfterUpload
                          THEN left \cap copies["drive"] ELSE left)
                  <= Keeps(PurgeStore(p), PrePurge(p))]_vars

\* delete_after_upload removes a copy from Home Assistant only while Drive
\* holds the backup, unless someone took it away after Drive was listed.
DeletedOnlyAfterUpload ==
    [][\A p \in PurgeStages :
          Chooses(p) /\ PurgeStore(p) = "ha" /\ DeleteAfterUpload =>
              target' \in copies["drive"] \cup dirty["drive"]]_vars

\* What a sync uploads it does not purge again, when Drive held no more than it
\* is to keep and no mark was changed since: Model.sync uploads only what would
\* not be the next copy to go, and looks no further than that one.
UploadSurvives ==
    [][\A p \in PurgeStages :
          Chooses(p) /\ PurgeStore(p) = "drive" => target' \notin picked]_vars

\* A backup that is to be ignored and is not in Drive is neither purged nor
\* uploaded.
IgnoredLeftAlone ==
    [][\A p \in PurgeStages \cup {"save"} : Chooses(p) =>
          target' \in Unignored \cup dirty["drive"]]_vars

\* "You can choose to keep it from being deleted in Home Assistant or Google
\* Drive": once the request to keep a copy is answered no purge picks it.
KeptIsNeverPurged ==
    [][\A p \in PurgeStages : Chooses(p) =>
          target' \notin kept[PurgeStore(p)] \/ target' = flagging.slug]_vars

-----------------------------------------------------------------------------
(* Progress.  The scheduler starts a sync again and again, every request   *)
(* is answered or times out, and the supervisor finishes what it makes.    *)

Job == Sync \/ Answers \/ DeleteRequest \/ DeleteDone \/ RequestFails

FairSpec ==
    /\ Spec
    /\ WF_vars(Job)
    /\ WF_vars(BackupFinishes \/ BackupFails)
    /\ WF_vars(DriveRetains \/ RetainDone \/ RetainFails)

\* The copies a store has beyond what it is to keep.
Excess(st) ==
    Cardinality(IF st = "ha" /\ DeleteAfterUpload
                THEN Purgeable(st) \cap copies["drive"] ELSE Purgeable(st))
        - Keeps(st, FALSE)

\* Each store is within its limit and Drive has every backup it has room for.
Settled ==
    LET inDrive == copies["drive"] \ kept["drive"]
        missing == (copies["ha"] \ copies["drive"]) \cap Unignored
    IN  /\ \A st \in Stores : Purges(st) /\ ~NeedsConfiguration => Excess(st) <= 0
        /\ DriveEnabled => \A s \in missing :
              /\ MaxDrive > 0 /\ Cardinality(inDrive) >= MaxDrive
              /\ \A t \in inDrive : s < t

\* No sync gets past its purge of a store before the user permits it.
WaitsForUser ==
    ConfirmMultiple /\ ~permitted /\ \E st \in Stores : Purges(st) /\ Excess(st) > 1

\* When nobody interferes any more, the stores get to the state the settings
\* ask for and stay in it; or two or more copies are too many somewhere, each
\* sync is refused there, and that lasts until the user confirms.
SettlesDown == <>[]Settled \/ <>[]WaitsForUser
=============================================================================
