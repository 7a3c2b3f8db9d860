# Home Assistant Google Drive Backup in TLA+

This directory models the add-on under `src/hassio-google-drive-backup/backup` (Python,
asyncio): it makes backups of Home Assistant on a schedule, copies them to Google Drive and
deletes old copies in both places. All paths below are relative to that directory.

## Inventory

Everything runs as coroutines on **one event loop**: only an `await` lets another coroutine in.
The two stores (the supervisor's backup directory and a Drive folder) are changed by others too.

| component | state | operations | talks to | hard behaviour | what makes it correct |
|---|---|---|---|---|---|
| sync engine (`model/coordinator.py`, `model/model.py`, `model/backups.py`) | `Model.backups`, soft lock `_busy`, backoff | sync (list, purge, expire, create, upload, purge), delete, start, upload, ignore, retain, note, cancel | both sources, GlobalInfo, precache, DataCache | decisions from a listing that ages while requests are awaited; requests that take no lock; failure anywhere | the view stays right; purges spare marked copies and leave enough; ends where the settings say |
| delete schemes (`model/backupscheme.py`) | none | choose the next copy to purge | the engine | zero and off-by-one of counts, generations | never ahead of the limit, newest kept |
| Home Assistant source (`ha/hasource.py`) | pending backup, `last_slugs`, DataCache entries, retained configuration | list, create with time-out, delete, retain, ignore, load | supervisor, AddonStopper | a backup finishing after its time-out; stale, failed, subverted placeholders; restart | one backup at a time; the placeholder ends; own backups recognised |
| add-on stopper (`ha/addon_stopper.py`) | `must_start`, `must_enable_watchdog`, saved file, `_backing_up`, `allow_run` | stopAddons, startAddons, check (every 10 s), postSync | supervisor | failing calls, restart between stop and save, timer against backup | whatever it stopped it starts again |
| Drive source (`drive/drivesource.py`, `drive/folderfinder.py`) | folder id, trashed and duplicate folders | list, upload, delete, retain, find folder | Drive requests | folder removed or duplicated | uploads end in the folder that is listed |
| Drive requests (`drive/driverequests.py`, `creds/`) | upload session, access token | resumable upload, refresh, retry | Google | resume after partial chunk, expired session, expired token | the file arrives whole, once |
| scheduling (`worker/`, `model/syncer.py`, `watcher.py`, `util/backoff.py`) | triggers, next sync time, event flags | check, trigger, sync | the engine | a trigger reset while the lock is held | every request for a sync is followed by one |
| precache (`model/destinationprecache.py`) | cached listing, validity, last error | warm, clear | engine, Drive | fetch in flight when cleared | a sync takes no listing stored before an earlier sync |
| files (`file/jsonfilesaver.py`, `util/data_cache.py`) | file and its backup copy; dirty cache | write, read, delete, saveIfDirty | disk | torn writes | what was written can be read |
| configuration (`config/`) | settings, retained slugs | update, validate, retain | everyone | | |
| disk estimator (`util/estimator.py`) | disk statistics | refresh, checkSpace | engine | | |
| web UI server (`ui/uiserver.py`) | none of its own that matters | requests of the user | the engine | runs between any two awaits of a sync | every request is answered |
| status page (`static/js/scripts.js`, in the browser) | cards, toasts, last status, dismissed error | refresh, dismiss, resolve, reload | web UI server | answers late, lost or in another order; restarts of the add-on | it comes to show the status; what is resolved stays hidden |
| settings dialog, theme, about (`static/js/settings.js`, `theme.js`, `about.js`) | widgets | fill, read back | web UI server | | |
| HTTP helpers (`util/asynchttpgetter.py`, `util/token_bucket.py`, `util/resolver.py`) | position in a stream, tokens | read, consume | network | retry in mid-stream | bytes arrive in order, once |
| others: HA updater, debug worker, logger, credential server, exceptions, start-up, names, simulators, tests, vendored JavaScript | | | | pure output, wiring, or not part of the add-on | |

The hazards, each at its line and with the properties that cover it, are in `PROJECT.json`. Where the
code lets the bad case happen and the properties state it as an exception, or assume it away, the
hazard carries a note that says so: no run would report it.

## The modules

| module | is | extends or instantiates | proofs | runs |
|---|---|---|---|---|
| `BackupSync` | the sync engine over both stores, with the requests of the web UI | | `BackupSync_proofs` | `outside`, `settles`, `kept` |
| `AddonStopper` | what is stopped before a backup is started after it | | | |
| `PendingBackup` | the placeholder, the tasks that make backups, the supervisor | `AddonStopper` | `PendingBackup_proofs` | `requests`, `returns`, `started` |
| `SyncStatus` | abstract: what the status says of synchronisation | | | |
| `SyncScheduler` | worker, triggers, soft lock, cancel, backoff, precache | implements `SyncStatus` | `SyncScheduler_proofs` | `schedule` |
| `StatusPage` | the page in the browser at the other end of a bad connection | `SyncStatus` | `StatusPage_proofs` | `page` |
| `ResumableUpload` | one backup's way into a file in Drive | | `ResumableUpload_proofs` | `upload`, `stalled` |
| `Register` | abstract: a file that is written as a whole | | | |
| `DurableFile` | the two copies behind a file | implements `Register` | `DurableFile_proofs` | |
| `StoredState` | data cache and credentials over two such files | `DurableFile` twice | `StoredState_proofs` | `files`, `garbled` |

They meet where the code's parts do. `BackupSync` takes an upload for one request that may fail
with or without a file, `ResumableUpload` is what is inside it; a creation likewise, with
`PendingBackup` inside. `SyncScheduler` says when the syncs of `BackupSync` are made and that they
do not overlap, which `BackupSync` assumes with its one `stage`. `SyncStatus` is what `StatusPage`
may rely on and what `SyncScheduler` is shown to provide. `StoredState` is what `savedIgnored` of
`BackupSync` stands on. The `MC` modules give TLC the constants, which are in the `.cfg` files.

Left for whoever goes on: the search for the Drive folder, the download stream, the loop of the
device code. Every invariant and action property of a passing run is proved below. Only the
liveness properties are model-checked alone: `SettlesDown`, `AddonsReturn`, `PlaceholderGoes`,
`Recovers`, `RequestsAnswered`, `CatchesUp`, `Delivered`, and the fairness in `ImplementsFairStatus`.
The prover has no rules for fairness and `ENABLED`.

## `BackupSync`

State and code:

| variable | code |
|---|---|
| `copies`, `kept` | what the stores hold and which copies are marked; for Home Assistant the mark is add-on configuration (`Config.setRetained`) and outlives the copy, for Drive it is a property of the file |
| `creating`, `used` | the backup the supervisor makes in the background; every backup that ever existed |
| `seen`, `seenKept` | `Model.backups`: which source each backup has, and `retained()` of each |
| `ignored`, `savedIgnored` | `HABackup.ignore()` from the DataCache, in memory and on disk |
| `permitted` | `GlobalInfo._multipleDeletesPermitted` |
| `stage`, `target`, `queue`, `listing`, `deleteFrom` | where the coroutine that holds the soft lock is, the backup of the request in flight, what its loop has left, the listing on its way back |
| `flagging` | a "Never Delete" request on its way to Drive |
| `dirty`, `picked` | history: copies others touched since the store was listed; what the sync chose to upload while Drive was within its limit, since a mark last changed. No guard reads them, only properties |
| `budget` | the bounds on faults, others' changes and UI requests |

One sync is the walk of `stage` through `listHA`, `gotHA`, `listDrive`, `gotDrive`, `purgeHA`,
`purgeDrive`, `findExpired`, `expire`, `schedule`, (`prepurgeHA`), `create`, `repurgeHA`,
`gather`, `uploads`, (`prepurgeDrive`), `save`, `trimDrive`, `finalHA`, `post`, in the order of
`Model.sync`. A request is two steps: asked (`target` is set) and answered (`Deleted`, `Saved`,
`Created`, `CreatePending` and their refusals); between them, and only there, `Awaiting` lets the
requests without lock (`RetainHA`, `RetainDrive`, `ConfirmDeletes`, `Cancel`) in. Others and the
supervisor act at any time. `RequestFails`, `Cancel` and `Restart` end the job anywhere and leave
open whether the store did what it was asked (`Abandoned`).

Abstractions:

- Time: a backup is its creation date, `Due` and `NotDue` are both possible, any cut-off may be
  the one for ignored backups. Which date the next backup has is not modelled.
- The listing of Home Assistant fetches the details of each backup in turn; it is taken as one
  instant. A slug has at most one file in Drive.
- Deletion schemes: `OldestScheme` and `DeleteAfterUploadScheme`; with neither generations
  nor notes nor a precache nor the space check. Backups made on request are not marked at once.
- The two conditions under which Drive is a source at all, credentials and `enable_drive_upload`, are
  constants (`HaveCredentials`, `UploadEnabled`, together `DriveEnabled`): a sync lists, purges and
  fills Drive only when both hold. With uploads on and no credentials (`NeedsConfiguration`) a sync
  neither purges at its beginning nor makes a backup. The runs have both; the proofs assume neither.
- A placeholder is never purged or uploaded, so it is only `creating`. A request made while the
  supervisor works on someone else's backup is a failed request.
- When the instance is out of dates (`Fresh = {}`) a creation is refused. This is a bound.

### Runs

All use three backups and limits of one or two, so that a purge has to choose, there may be one
copy too many or two, and an upload may compete with a copy in Drive. The bounds `MaxFaults`,
`MaxOutside`, `MaxRequests` are 0 or 1; each run has the kinds of disturbance its properties are
about. `Init` is every content of the stores.

| run | settings | disturbances | shows |
|---|---|---|---|
| `outside` | `delete_after_upload`, `delete_before_new_backup`, `confirm_multiple_deletes`, `delete_ignored`, Drive limit 2 | one change by others, one UI request | `TypeOK`, `ViewMatches`, `PurgeSparesKept`, `PurgeLeavesEnough`, `DeletedOnlyAfterUpload`, `UnconfirmedPurgeIsLast` |
| `settles` | defaults of the four settings above (`confirm_multiple_deletes` on, the others off), limits 1 | one fault or restart, one UI request | `SyncInv` (the inductive invariant), `PurgeLeavesEnough`, `UploadSurvives`, `IgnoredLeftAlone`, `SettlesDown` |
| `kept` | as `settles` | one UI request | violation of `KeptIsNeverPurged`, see below |

Why one of each is enough for these properties: a disturbance acts on a decision through the
view only, and three backups in two stores let it come before, between and after the listing,
the decision and the answer. The proofs have no such bound: lost
answers with `delete_after_upload`, which no run has together, are covered by `OnlyAfterUpload`.

Fairness (`FairSpec`): `Job`, because the worker starts a sync again and again, after failures
with a backoff of at most `max_backoff_seconds`, and every HTTP request is answered or times out;
`BackupFinishes \/ BackupFails`, because `_requestAsync` has a time-out; the flag request, for the
same reason as `Job`. Nothing is assumed of the user or others. `SettlesDown` is about the
behaviours in which the bounded disturbances are over. With the defaults a store that has two or more
copies too many is not purged: every sync ends in `DeleteMutlipleBackupsError` until the user
confirms, and nothing makes a user do that. So `SettlesDown` has two ends: the stores get to what the
settings ask for and stay there (`Settled`: no purge is due, and Drive has every backup it has room
for), or from some moment on more than one copy is too many somewhere and nobody has permitted to
delete them (`WaitsForUser`). Limits of 1, where the defaults are 4, are a bound: they bring both ends
within reach of three backups.

### Finding

`Coordinator.retain` (`model/coordinator.py:281`) takes no lock. When it runs while a sync awaits
the rest of `HaSource.get`, `Model._syncBackups` replaces the marked object by the one that was
built before the mark was set, and the same sync may purge the copy, though the web page said the
copy "will not be deleted" (`details.jinja2:46`) and `README.md:242` says the same. Run `kept`
shows the sequence: list, retain, merge, purge. `PurgeSparesKept` says what does hold: the
mark is respected by every purge whose listing is younger than the mark.

Met while proving `UploadSurvives`: `Model.sync` asks of each upload only whether it would be the
next copy to go (`model.py:247`), which says enough while Drive holds no more than it is to keep.
When a mark is withdrawn between the purge of Drive and the uploads, Drive holds more: with one copy
to keep, 1 (its mark withdrawn while the sync deletes an expired backup) and 3 in Drive, the sync
uploads 2, purges 1 and then 2 again. `picked` leaves these uploads out.

### Proofs

`BackupSync_proofs` proves for every value of the constants that satisfies
`BackupSyncAssumption`:

- `SyncInvariant`: `Spec => []SyncInv`. `ViewMatches` is not inductive: that the view stays right
  when a listing is merged needs that the listing is right (`ListingMatches`); when an answer to a
  "Never Delete" arrives, that Drive has been told the same (`FlaggingHolds`); when a backup is
  created or uploaded, that it is new there (`NewIsNew`, `UploadsMissing`); that marks belong to
  copies (`MarksHaveCopies`), that only the stages that make requests have one in flight
  (`OneRequest`) and that the names in use include all names known (`OnlyUsed`). Their
  conjunction is `SyncInv`; run `settles` checks it too.
- `TypeCorrect`, `ViewCorrect` follow from it.
- `SparesKept`, `OnlyAfterUpload`, `LeavesEnough`, `UnconfirmedIsLast`, `IgnoredSpared`: the
  action properties, from `SyncInv` before the step and lemmas on what a purge considers
  (`ConsideredIsPurgeable`, `ConsideredCount`) and picks (`OldestExists`, `PurgePicks`).

- `UploadsSurvive`: `Spec => UploadSurvives`, from `SyncInv` and `PickedInv` of the proofs. The
  uploads come newest first (`NewestFirst`), so an upload never makes one before it the oldest; when
  one is chosen Drive is within its limit, and if there is no room left an older copy is there to go
  (`RoomInDrive`, which follows the number of copies through purge, upload and purge).

Only model-checked: `SettlesDown`, a liveness property under fairness, which the prover does not
handle.

## `AddonStopper` and `PendingBackup`

`PendingBackup` extends `AddonStopper`: the coroutines below share one event loop, and each
action is what one of them does between two awaits.

| coroutine | code | variables |
|---|---|---|
| a job of the coordinator: a sync, or the user's request for a backup | `Model.sync`, `Coordinator._startBackup`, `HaSource.create` | `job` (`list`, `listed`, `create`, `stopAddons`, `wait`, `rest`), `syncing` |
| the task of each requested backup | `HaSource._requestAsync` | `at[i]` (`request`, `logs`, `startAddons`), `outcome[i]` |
| the watcher of the backup directory | `Watcher.check` | `watching` |
| the timer of the stopper | `AddonStopper.check` | in `line` as `Timer` |

| variable | code |
|---|---|
| `mustStart`, `mustWatch`, `saved` | `must_start`, `must_enable_watchdog`, and the file of both |
| `backingUp`, `allowRun`, `late` | `_backing_up`, `allow_run`, `now > stop_start_check_time` |
| `line` | the queue of the `asyncio.Lock`; its head holds the lock |
| `step`, `addon`, `todo`, `changed` | where the holder is in `stopAddons` or `check`, the add-on it has asked the supervisor to change, what its loop has left, `changes` |
| `pending`, `stale`, `lastSlugs` | `pending_backup`, its `isStale()`, `last_slugs` |
| `slugs` | what the listing of the sync or the watcher shows, until it is used |
| `running`, `guarded`, `making`, `exists` | the supervisor: add-ons that run, watchdogs that are on, the backup it is making, the backups there are |
| `stopped`, `unguarded`, `lost` | history: what the stopper has switched off and not on again, and what it gave up on, was never told of, or forgot because it ended before it was saved. No guard reads them |

A request to the supervisor takes effect in the step that handles its answer. When it fails, or
its coroutine is cancelled, or the process ends, it may have taken effect or not (`Effect`).
A listing takes two steps: between them placeholders come and go.

Abstractions: an add-on is started or stopped (states the code does not recognise are left out);
the supervisor's answers to `getAddonInfo` are what is true when they are handled; whether a
backup is due is left open; a task, its placeholder and its backup have one name. A restart is
the end of the process at any moment; the orderly end, in which `HaSource.stop` cancels the task
and waits for it to start the add-ons, is not modelled, nor a file system that refuses the file,
nor the user removing a backup. The number of requests is a bound: each takes a name of `Tasks`.

### Runs

| run | add-ons, requests | disturbances | shows |
|---|---|---|---|
| `requests` | 1, 2 | one failed or lost request of the stopper, or one act of another user | `TypeOK`, `StopperInv` (inductive), `OneAtATime`, `StopperKnows`, `KnownBackupUndisturbed` |
| `returns` | 1, 1 | one restart, one cancelled sync | `Remembered`, `AddonsReturn`, `PlaceholderGoes` |
| `started` | 2, of which one is this add-on, 2 | none | violation of `StartedAfterBackup` |

The initial state has every combination of running add-ons, watchdogs and one older backup.
One add-on is stopped at a time and each is treated alike, so one shows what its memory, the lock and
the timers make of it; `started` has a second one, this add-on itself (`Own`), which the loop of
`stopAddons` passes over. Two requests are enough for a placeholder to be taken for another one's
backup. `requests` has one disturbance in all (`OneDisturbance`) and takes requests and add-ons for
alike (`Alike`). The safety properties are proved without any of these bounds.

Three of them state exceptions, which the code needs: `StopperKnows` and `KnownBackupUndisturbed` are
about backups whose request did not fail (`Faultless`), since a task that comes to its end late starts
the add-ons while the next backup is made; `Remembered` leaves out what is `lost`: an add-on stopped
by a request whose answer was lost, or before the list was saved, is not started by anyone.

Fairness (`Steady`): requests of the stopper are answered (`Answer`), the minute of
`stop_start_check_time` passes (`Later`) and the timer rings every ten seconds; the supervisor
finishes what it makes and tasks end, because requests have time-outs; failed placeholders get
stale; a job of the coordinator goes on, and syncs are begun again and again (the worker of
`model/syncer.py`). `FairSpec` assumes besides that some syncs come to their end (`SyncsSucceed`).
That is no fairness of the code but a condition, and it is needed: a backup finished during the
first sync is done before `allow_run` is set, and `postSync` (`ha/hasource.py:506`) then sets
`_backing_up` because the placeholder is still there. Only a later sync that succeeds withdraws
it; while Google Drive cannot be reached, say, the add-ons stay stopped.

### Finding

The settings page (`settings.jinja2:491`) says: "Addons selected below will be stopped before
backup and started after."

- `started`: `HaSource.get` (`ha/hasource.py:313`) ends the placeholder when a listing shows any
  backup `last_slugs` does not have. The first listing after a start shows all of them, and the
  listing after two quick requests shows the first backup when the placeholder stands for the
  second. Ending it cancels its task, whose `finally` starts the add-ons while the supervisor is
  still making the backup. `KnownBackupUndisturbed` says what does hold: not while the
  placeholder stands for that backup and no request has failed.

### Proofs

`PendingBackup_proofs` proves for any add-ons, tasks and bounds that satisfy
`AddonStopperAssumption` and `PendingBackupAssumption`:

- `StopperInvariant`, `TypeCorrect`, `NothingForgotten`: `Remembered` is not inductive, because
  the stopper strikes off an add-on that is running or whose watchdog is on; `StopperInv` adds
  that what it has to put right is not, and that a request under way is about an add-on. One
  lemma for each operation of `AddonStopper`, then one for each part of `Next`.
- `InOrder`, `Undisturbed`, `StopperIsTold`: when the stopper is starting add-ons it has seen `_backing_up` low;
  `StopperKnows` says that it is high while a request is about to be sent or is under way, and
  that the tasks that could lower it are gone by then unless a request failed. That needs to know
  who stands in line for the lock and why (`OneAtATime`), which rests on lemmas about the three
  ways the line changes (`ArriveLine`, `LeaveLine`, `WithoutLine`).

Only model-checked: `AddonsReturn` and `PlaceholderGoes`, liveness under fairness.

## `SyncStatus` and `SyncScheduler`

| variable | code |
|---|---|
| `busy`, `task` | `Coordinator._busy`, `_sync_task` (the caller whose task it is) |
| `call[c]` | where the worker or a web request is: polling, waiting for a sync, holding the soft lock for something else, cancelling |
| `sync[c]` | the task `_sync` that `c` has created: `new` (before its first step), `read`, `work`, `cancelled`, `dropped` (cancelled while new) |
| `began`, `unanswered` | `_sync_start`, and the `startSync` requests that wait for it |
| `requested`, `wait`, `counter` | the triggers' flags; the time until `nextSyncAttempt`; `Backoff._counter` |
| `firstSync`, `lastError`, `failures`, `ignoreErrors`, `permit` | `GlobalInfo` |
| `cache`, `fetching` | `DestinationPrecache._cache` (`outdated`: stored before a sync changed the destination), a fetch under way |

An action is what runs from one await to the next: the worker's poll and its call of
`Coordinator.sync`, the steps of a sync, its end (`SyncSucceeds`, `SyncFails`, `SyncCancelled`,
`SyncDropped`), the release of the lock some steps later, and each web request that starts, cancels
or excludes syncs. `SyncStatus` has the five variables the status page reads and says that syncs
begin and end one at a time, each with one outcome or, if dropped, none.

Abstractions: a unit of time is half a minute or so. What a sync does to the stores is
`BackupSync`; here it may change the destination while it works (`SyncChanges`). `ConfirmDelete` is
the branch of `confirmdelete` without "always". Marking Never Delete, notes and downloads, which
clear the caches without the lock, are left out, and a listing may lose its validity at any time.

Run `schedule` (two web requests open at a time, two in all, one failing sync, two units between
syncs, backoff up to two): `SchedulerInv` (inductive), `OneSync`, `ListingKnowsSyncs`,
`PermissionCoversSync`, `ImplementsFairStatus`, `Recovers`, `RequestsAnswered`. Two requests beside
the worker are enough for a lock that one holds, one is refused and one cancels; one failing sync
beside cancelled ones for every value of the backoff. Fairness: the event loop runs whoever is
ready, requests to the stores end because they have time-outs, time passes. Nothing is assumed of
the precache, of users or of triggers.

Proved for any number of web requests and any delays (`SchedulerAssumption`):

- `SchedulerInvariant`, by one lemma for each group of actions. `OneSync` is not inductive: that a
  task is the one `_sync_task` points at and that its caller holds the lock (`LockInv`) is what keeps
  a second task from being made. For the precache one has to know that only a working sync leaves
  a listing behind its own changes (`CacheInv`), since every outcome clears it.
- `OneSyncHolds`, `ListingKnowsSyncsHolds` from it; `PermissionCoversSyncHolds`: the one sync that
  could withdraw the permission is the one it was given for.
- `Refinement`: every step is a step of `SyncStatus` or changes nothing of it. That its fairness is
  implemented as well is only model-checked, and so are `Recovers` and `RequestsAnswered`.

Met while modelling, not properties: the worker that is told PleaseWait has reset its triggers, and
only the timer makes up for the sync; a fetch of the precache that is under way when the caches are
cleared stores its older listing afterwards, and a deletion or upload on request clears them only
before it changes the store, though the comment at `coordinator.py:207` wants the next sync to use
fresh data;
the pause of the precache after an error is a `timedelta` of days (`destinationprecache.py:69`).

## `StatusPage`

It takes the server's side of synchronisation from `SyncStatus` (any step of `NextStatus`), adds the
listed backups and restarts, and models the page of `static/js/scripts.js`.

| variable | code |
|---|---|
| `working`, `backups`, `life` | the server: an upload is in progress (which makes it ignore errors), `Coordinator.backups`, restarts |
| `requests` | requests of the page under way; a status carries the answer made when it was handled |
| `cards`, `placeholders` | the cards in the two lists of backups, in order, with the timestamps they were drawn with; "loading" and "no backups" |
| `syncToast`, `lostToast` | `sync_toast`, `error_toast` |
| `errorShown`, `errorMinimum`, `lastData` | the error card, `error_minimum`, `last_data` |
| `hushed`, `resolved` | history, read by no guard: the last error the server ignores, the one the user resolved here |

`StatusArrives` is `processStatusUpdate` as a whole: both lists (`PopulateBackupDiv`), toasts,
placeholders, error card. `RefreshFails` and `PostFails` are lost requests, `Click`,
`ResolveFolder`, `Dismisses` the buttons of error cards and their answers, `Reload` the page loaded
anew. Answers arrive in any order. A status is taken from the server when it is answered: what
happens to it before shows nowhere. Error cards are told apart by their number only.

Run `page` (three backups and a pending one, two of them listed when the page is opened, two requests
under way, two steps of the add-on, three of the user, one loss; the first sync has failed): `PageInv`,
`CardsInOrder`, `ResolvedStaysHidden`, `CatchesUp`. Two answers under way are what it takes for one to
overtake the other, three backups for a card to be inserted between two. With two steps a sync can
fail or be cancelled, but not fail in a second life of the add-on; for that there are the proofs.
Fairness: the five-second timer fires, and a request ends in an answer or an error. `CatchesUp` is
about the behaviours in which the add-on comes to rest.

Met while modelling: `failures` starts at 0 with the add-on while the page keeps its watermark, so
that an error of the new process with the same number is hidden (`CatchesUp` allows it: "unless
dismissed"). The answer to "Try syncing" dismisses whatever error was drawn last by then. The card
of a pending backup keeps the timestamp of an earlier one, which `CardsInOrder` excepts.
`GlobalInfo.isErrorSuppressed` returns the method `suppressError` where the flag was meant
(`globalinfo.py:94`).

Proved for any backups, dates, requests under way and number of disturbances (`PageAssumption`):

- `PageInvariant`: `PageInv`. What the page says beside its cards agrees with the answer it says it
  shows (`ShowsLastAnswer`), and what answers carry, now or when they come, keeps its type.
- `PopulateDraws`, of `populateBackupDiv` alone: a list in which no slug is twice and timestamps
  descend (`Drawn`) is turned into such a list of exactly the backups listed. It is the invariant of
  two loops. The first inserts (`InsertCardDraws`, with the place that `PlaceForCard` finds, and
  `InsertCardsDraws` for the loop, a recursive function whose every value is `Drawn`); the
  second removes (`KeptDraws`). Both rest on `InOrder`, the sorting by date, for which
  `OrderExists` shows that a finite set has an order by any key. That is an induction over the size
  of a set; it is made from the smallest number for which it would fail.
- `CardsStayInOrder`: the timestamps a card was drawn with are the dates of its backup, but for the
  pending one, since a slug has one date whichever answer shows it (`WellDated`).
- `ResolvedIsHidden`: `ResolvedStaysHidden`, with an invariant (`ErrorsFit`) that says of the error
  hushed last why no status shows it: the server ignores errors until another takes its place, and
  so does each answer under way, or the page's watermark hides it (`Quiet`, `Hidden`).

Only model-checked: `CatchesUp`, a liveness property.

## `ResumableUpload`

| variable | code |
|---|---|
| `phase`, `job`, `location`, `position`, `chunk`, `tries` | where `DriveRequests.create` is, its arguments and local variables, the counter of `retryRequest` |
| `last` | the `last_attempt_` fields: session, metadata, count of attempts, older than the expiration |
| `note` | metadata the user may change between attempts |
| `sessions` | external: Drive's upload sessions and the bytes each has; a finished one is a file |
| `flying` | external: chunks sent whose answer was lost, and which may still arrive |
| `landed` | history, read by no guard: files finished by a chunk of an attempt given up |

`BeginUpload` chooses between a new session (`SessionStarts`) and a query of the last one
(`QueryAnswered`); then chunks are sent and Drive takes some or all of each (`ChunkAnswered`), or
none (`ChunkUnacknowledged`); the file is read (`FileRead`). A request that failed is made again
(`Retries`): after a passing fault, as often as there are tries left (`Counts`), or at once and
uncounted when the access token had expired (`Renews`); or the attempt `GivesUp`. `Restarts` forgets
`last`. Drive may forget a session, fail at every request
to it, or answer every chunk without taking any (`SessionFails`, constant `Failures`).

Abstractions: a unit is the smallest chunk; identical chunks in flight are one; the time that decides
the size of the next chunk is left open; an accepted chunk takes at least one unit (with a `Range`
that does not advance the code would send it again without a pause).

| run | bounds | shows |
|---|---|---|
| `upload` | two backups of two units, chunks of one or two, one retry, two attempts per session, two faults, one change of a note | `UploadInv` (inductive), `FilesWhole`, `FileAsAsked`, `OneFile`, `Delivered` |
| `stalled` | one backup, one fault, sessions that take nothing | violation of `NotRetriedForever` |

Two units are enough for a chunk taken in part and for a backup sent in several, two faults for a
lost answer followed by a late arrival or a failing session. Fairness: syncs go on being tried and
each request is answered or fails; nothing says that a chunk in flight arrives.

Finding (`stalled`): `DriveRequests.create` sets `last_attempt_count = 1` for any answer to a chunk
(`driverequests.py:323`), before it looks whether Drive took any of it. A session that answers 308
without `Range`, which line 245 reads as "nothing uploaded yet", is resumed by every attempt,
though lines 49-51 say that a session is given up after a number of attempts "so we don't retry the
same broken session forever" and that the count "gets reset every time a chunk successfully
uploads". `Delivered` says what does hold: sessions that are gone or fail are given up.

Proved for any backups, sizes and numbers of faults (`UploadAssumption`): `UploadInvariant`,
`FilesAreWhole`, `FileIsAsAsked`, `OneFileOnly`. The invariant says that whatever chunk may arrive next, of this
attempt or of one given up, is of the session's own backup and leaves no gap to what Drive has
(`OwnChunks`); that needs that the session an attempt works with has its metadata wherever it was
found (`OwnSession`), and that sessions only grow, which `Grows` of the proofs carries from step to
step. `OneFile` counts files, and needs to know which step may make one (`Counted`): a chunk in flight
that its attempt has not given up is of the session the attempt works with, or of one that is
finished already; so among the backup's files without that session there are at most `landed`.
Then `AppendedOneFile` adds one file, by the attempt or by a chunk that counts as landed, and
`NoMoreFiles` says that no other step adds any. Only model-checked: `Delivered`, a liveness property.

Met while modelling: a session that a late chunk has finished answers 200 to the query, and a second
upload, with a second file, follows (`OneFile` counts these); the start time of a session is set anew
by each attempt that resumes it (line 290), so the expiration is counted from the last attempt.

## `Register`, `DurableFile`, `StoredState`

`Register` is a file as its users see it: one value, written as a whole. The comment of
`JsonFileSaver` (`jsonfilesaver.py:10-19`) promises that one fault between two complete writes is not
seen, be it a write that breaks off (`BreakOff`) or damage to one of the two places (`Damage`). The
code breaks that promise twice, and `Register` says where: the first write of all may leave a file
that can't be read, and so may a file damaged in a way that reading is not prepared for (`Garble`).
After a second fault (`hurt`, `FaultAgain`) there is no promise: both copies can be lost, since the
copy is emptied first also when it is the only one that can be read, and reading repairs nothing.

`DurableFile` is the code: `main` and `copy` are the two files, `stage` how far a write is; opening a
file empties it. A file that is damaged is `Absent`, `Torn` (a JSON error) or `Garbled` (bytes that are
not UTF-8, or that the disk does not give). `Read` looks at the copy for the first two only.

| variable of `StoredState` | code |
|---|---|
| `cacheFile`, `credsFile` | the two pairs of files |
| `cache`, `dirty` | `DataCache._data`, `_dirty`: of each backup whose it is and when it was last seen; which backup was asked for, and when |
| `creds`, `refreshing` | `DriveRequests.creds`, and what a refresh under way began with |
| `now` | the day |
| `running`, `starting` | the add-on runs; it is in `DataCache._load` |
| `building`, `made`, `others` | the supervisor: the backup it is making for the add-on, those it has made, those of others |
| `saved`, `excused`, `overtaken` | history: the cache last written while a copy of it is left, own backups that may not be recognised, and whether credentials were saved during a refresh. No guard reads them |

The process may end at any moment of a write (`Stops`), a write may raise an error (`CacheWriteFails`,
`CredsWriteFails`, `StartFails`), the disk may damage one file after the other (`DiskDamages`) and
`DayPasses`. `JsonFileSaver` never awaits, so nothing else runs while a file is written (`Quiet`).
`SaveIfDirty` first drops every entry that was not seen for `Expiration` days (`Fresh`,
`data_cache.py:110-113`). A start loads the cache as it is (`StartsAgain`), or saves it at once, because
the version is new or a setting says which backups to ignore, and drops what is old before anything
was listed (`StartsAndSaves`), or begins an empty one (`StartsEmpty`); one that is there and can't be
read keeps the add-on from starting.

So what the add-on remembers has conditions, and the properties name them. `SavedIsKept`: what was
saved of a backup is known until it was not seen for `Expiration` days or both files are gone at a
start. `OwnIsKnown`: an own backup is taken for another's only if its request ended in an error, was
followed by another request before it was listed or by a restart before a sync succeeded; if it
expired (an add-on that was off for a month and starts with a new version forgets its own backups); or
if both files were gone. `CredsAsSaved` leaves out credentials saved while a refresh was awaited.

| run | bounds | shows |
|---|---|---|
| `files` | two backups, two accounts, two days, one stop, faults on one of the two files until it is whole again (`OneFileHurt`); backups and accounts are symmetric | `StoredInv`, `SavedIsKept`, `OwnIsKnown`, `CredsAsSaved`, `FilesAreRegisters` |
| `garbled` | the same, without `OneFileHurt` | violation of `OneCopyIsEnough` |

The unit of time is the expiration (`Expiration = 0`: what was not seen today is old), so the second
day is the month in which the add-on was off. Two accounts are what a refresh overtaken by an
authorization takes, two backups what a request overwritten by the next takes.

Finding (`garbled`): `JsonFileSaver.read` catches `JSONDecodeError` (`jsonfilesaver.py:29`) and
`FileNotFoundError` (line 36). The error for bytes that are no text, or for a file the disk does not
give, goes to the caller, though the copy is good and lines 13-19 say that reading tries "to find a
copy of the file that isn't corrupted or deleted" and name "HD corruption". For the cache that means
that the add-on does not start, for the credentials that they are done without.

`DurableFile_proofs` proves, of one file with any values and any number of faults, `FileInvariant`
(what each of the two holds at each stage of a write; while nothing has gone wrong they are alike
between two writes, and during one the file is the old one until its copy is the new one) and
`RegisterRefinement` (every step is one of `Register` or changes nothing of it).
`StoredState_proofs` uses them for both files by `INSTANCE`:

- `FilesImplementRegisters`: every step of the add-on leaves a file alone or is a step of it.
- `StoredInvariant`, `SavedStays`, `OwnBackupsKnown`: from `NotesInv`, which speaks of every cache that
  may come to be in memory: the one that is, and whatever of the two files holds one (`Disk`), since
  any number of faults may make a start read either. Each is `Sound` (it notes only backups there are,
  and own ones as own or not at all, unless excused), of no later day (`Past`), and `Keeps` what
  was saved and is not old. The one in memory lacks only backups it is excused of; one on the
  disk may lack more, but only what the one saved lacks too, and that a stop excuses. Dropping what is
  old keeps all of this (`FreshIsSound`, `FreshKeeps`), and so does a day (`DayKeeps`).
- `CredentialsAsSaved`: from `CredsInv`. A refresh that is awaited brings back the credentials it
  began with, and none begins while they are being replaced.

Met while modelling: when the first write of all is interrupted the cache can't be read, and its
constructor raises at every start (`Starts` is not enabled), where the comment of `JsonFileSaver`
says the old contents are used; credentials that can't be read are silently done without; there is
no `fsync`, so closed files are taken to be on the disk.

## Not modelled

- Third-party JavaScript shipped with the pages (`moment.js`, `materialize.js`, `colpick.js`,
  `URI.js`): 27,800 of the 29,442 lines of JavaScript under `static/js`. It is no part of the add-on's
  own logic. Of the add-on's own JavaScript `StatusPage` models what keeps state, in `scripts.js`;
  nearly all of the program is Python, which is where the other modules map to.
- `settings.js`, `theme.js`, `about.js`: widgets filled from an answer and read back into one.
- Device code authorization, HTTP transfer, Home Assistant requests, the resolver: one request after
  the other, retried by their callers; their outcomes are the environment of the models above.
- Folder search (`drive/folderfinder.py`): its outcome is `FolderQuestion` of `BackupSync`.
- Configuration, disk estimator, names, `GenerationalScheme`, `RangeLookup`, time: functions of their
  inputs without state, covered by unit tests; where an outcome steers a sync (space, date of the
  next backup, which cut-off) both are possible.
- State updater, logger, debug worker: they read the state of others and report it.
- Deleting files, and what the upgrade flags are shown for; the orderly end of the process; the
  credential server, a separate program; simulators and tests.
