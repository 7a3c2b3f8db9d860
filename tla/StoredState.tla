------------------------------ MODULE StoredState ------------------------------
(***************************************************************************)
(* What the add-on keeps on the disk, over the files of DurableFile, and   *)
(* what a restart makes of it: the DataCache (util/data_cache.py), where   *)
(* HASource notes which backups it made itself (ha/hasource.py), and the   *)
(* credentials of DriveRequests (drive/driverequests.py).                  *)
(*                                                                         *)
(* Memory and file part company in between: the cache is changed by every  *)
(* listing and saved at the end of a sync that succeeds, and by some starts*)
(* of the add-on; credentials are replaced by a refresh that may have begun*)
(* before others were saved.  And every save drops from the cache what was *)
(* not seen for a month, which is the time the add-on was off, if it was.  *)
(***************************************************************************)
EXTENDS Naturals, FiniteSets

CONSTANTS
    Slugs,          \* backups
    Accounts,       \* Google accounts, each with its credentials
    Absent, Torn, Garbled,  \* a file that is missing, malformed, or worse
    None,           \* Python's None
    Expiration,     \* CACHE_EXPIRATION_DAYS
    MaxDays,        \* bound: how many days pass
    MaxStops        \* bound: how often the add-on stops

(* The part of the cache modelled: KEY_I_MADE_THIS and KEY_LAST_SEEN of    *)
(* each backup that has an entry, and of the entry KEY_PENDING the backup  *)
(* that was asked for, and when.  A day is 0 where there is no entry.      *)
Caches == [entry : [Slugs -> {"none", "own", "other"}], seen : [Slugs -> Nat],
           pending : Slugs \union {None}, asked : Nat]

ASSUME StoredAssumption ==
    /\ \A v \in {Absent, Torn, Garbled, None} : v \notin Caches /\ v \notin Accounts
    /\ None \notin Slugs
    /\ Absent # Torn /\ Absent # Garbled /\ Torn # Garbled
    /\ Expiration \in Nat /\ MaxDays \in Nat /\ MaxStops \in Nat

EmptyCache == [entry |-> [s \in Slugs |-> "none"], seen |-> [s \in Slugs |-> 0],
               pending |-> None, asked |-> 0]

VARIABLES
    cacheFile, credsFile,   \* the two files
    now,                    \* the day
    running,                \* whether the add-on is
    starting,               \* it is in DataCache._load
    cache, dirty,           \* DataCache._data, ._dirty
    creds,                  \* DriveRequests.creds
    refreshing,             \* the credentials a getToken is refreshing
    building,               \* the backup the supervisor is making for the add-on
    made, others,           \* its backups: those the add-on asked for, and others
    saved,                  \* history: the cache last written, while a copy is left
    excused,                \* history: own backups the add-on may not recognise
    overtaken,              \* history: credentials were saved during a refresh
    stops                   \* how often the add-on has stopped

memory == <<running, starting, cache, dirty, creds, refreshing>>
supervisor == <<building, made, others>>
history == <<saved, excused, overtaken, stops>>
vars == <<cacheFile, credsFile, now, memory, supervisor, history>>

C == INSTANCE DurableFile WITH file <- cacheFile, Values <- Caches, Nothing <- None
K == INSTANCE DurableFile WITH file <- credsFile, Values <- Accounts, Nothing <- None

(* Nothing else runs while a file is written: JsonFileSaver never awaits.  *)
Quiet == running /\ C!Idle /\ K!Idle

Backups == made \union others

-----------------------------------------------------------------------------
(* HASource and the DataCache.                                             *)

(* setDataCacheInfo, for every backup listed: it is seen today, and when it*)
(* has no entry it is our own when it is the one that was asked for.       *)
NotedEntries(c, listed) ==
    [s \in Slugs |->
        IF s \in listed /\ c.entry[s] = "none"
        THEN IF s = c.pending THEN "own" ELSE "other"
        ELSE c.entry[s]]

SeenToday(c, listed) == [s \in Slugs |-> IF s \in listed THEN now ELSE c.seen[s]]

\* (slip) the note of the request is dropped at the first listing after it
NotedOnce(c, listed) ==
    [entry |-> NotedEntries(c, listed), seen |-> SeenToday(c, listed),
     pending |-> None, asked |-> 0]

(* The request is forgotten once its backup has come: no other one can be  *)
(* the backup that was asked for.                                          *)
Noted(c, listed) ==
    LET come == c.pending \in listed /\ c.entry[c.pending] = "none"
    IN  [entry |-> NotedEntries(c, listed), seen |-> SeenToday(c, listed),
         pending |-> IF come THEN None ELSE c.pending,
         asked |-> IF come THEN 0 ELSE c.asked]

(* HASource.create.  A backup that was asked for before and is not listed  *)
(* yet loses its note to this one.                                         *)
Asked(s) == [cache EXCEPT !.pending = s, !.asked = now]

Unnoted(c) == {s \in made \union building : c.entry[s] # "own" /\ c.pending # s}

(* The add-on's backups that c has no note of, and d has.                  *)
Loses(c, d) == Unnoted(c) \ Unnoted(d)

RequestBackup(s) ==
    /\ Quiet /\ building = {} /\ s \notin Backups
    /\ \/ /\ made' = made \union {s} /\ building' = {}     \* made in time
          /\ cache' = Noted(Asked(s), {s}) /\ dirty' = TRUE
          /\ excused' = excused \union Loses(Asked(s), cache)
       \/ /\ building' = {s} /\ UNCHANGED made             \* not in time
          /\ cache' = Asked(s) /\ dirty' = TRUE
          /\ excused' = excused \union Loses(Asked(s), cache)
       \/ /\ building' = {s} /\ UNCHANGED <<made, cache, dirty>>  \* an error came back
          /\ excused' = excused \union {s}
    /\ UNCHANGED <<cacheFile, credsFile, now, running, starting, creds, refreshing,
                   others, saved, overtaken, stops>>

BackupDone ==
    /\ building # {}
    /\ made' = made \union building /\ building' = {}
    /\ UNCHANGED <<cacheFile, credsFile, now, memory, others, history>>

OtherBackup(s) ==
    /\ s \notin Backups \union building
    /\ others' = others \union {s}
    /\ UNCHANGED <<cacheFile, credsFile, now, memory, building, made, history>>

(* HASource.get, at the beginning of a sync.                               *)
ListBackups ==
    /\ Quiet /\ Backups # {}
    /\ cache' = Noted(cache, Backups) /\ dirty' = TRUE
    /\ UNCHANGED <<cacheFile, credsFile, now, running, starting, creds, refreshing,
                   supervisor, history>>

Old(day) == now > day + Expiration

(* What saveIfDirty leaves of a cache.                                     *)
Fresh(c) ==
    [entry |-> [s \in Slugs |-> IF Old(c.seen[s]) THEN "none" ELSE c.entry[s]],
     seen |-> [s \in Slugs |-> IF Old(c.seen[s]) THEN 0 ELSE c.seen[s]],
     pending |-> IF Old(c.asked) THEN None ELSE c.pending,
     asked |-> IF Old(c.asked) THEN 0 ELSE c.asked]

Saves(c) ==
    /\ cache' = Fresh(c)
    /\ C!Write(Fresh(c))

(* saveIfDirty, at the end of a sync that succeeds or for a flag of the    *)
(* page.                                                                   *)
SaveIfDirty ==
    /\ Quiet /\ dirty
    /\ Saves(cache)
    /\ excused' = excused \union Loses(Fresh(cache), cache)
    /\ UNCHANGED <<credsFile, now, running, starting, dirty, creds, refreshing,
                   supervisor, saved, overtaken, stops>>

(* When the file is there the cache is clean.                              *)
CacheWriteGoesOn ==
    /\ running /\ C!Continues
    /\ \/ ~C!MainWritten /\ UNCHANGED <<dirty, starting, saved>>
       \/ C!MainWritten /\ dirty' = FALSE /\ starting' = FALSE /\ saved' = cache
    /\ UNCHANGED <<credsFile, now, running, cache, creds, refreshing,
                   supervisor, excused, overtaken, stops>>

(* The write raises an error: the sync fails, and the cache stays dirty.   *)
CacheWriteFails ==
    /\ running /\ ~starting /\ C!WriteFails
    /\ UNCHANGED <<credsFile, now, memory, supervisor, history>>

-----------------------------------------------------------------------------
(* DriveRequests: saveCredentials, getToken.                               *)

SaveCredentials(a) ==
    /\ Quiet
    /\ K!Write(a)
    /\ overtaken' = (refreshing # None)
    /\ UNCHANGED <<cacheFile, now, memory, supervisor, saved, excused, stops>>

\* (slip) the credentials written are not loaded
KeepsCredentials == UNCHANGED creds

(* tryLoadCredentials, once the file is there                              *)
LoadsCredentials == creds' = credsFile.writing

CredsWriteGoesOn ==
    /\ running /\ K!Continues
    /\ \/ ~K!MainWritten /\ UNCHANGED creds
       \/ K!MainWritten /\ LoadsCredentials
    /\ UNCHANGED <<cacheFile, now, running, starting, cache, dirty, refreshing,
                   supervisor, history>>

CredsWriteFails ==
    /\ running /\ K!WriteFails
    /\ UNCHANGED <<cacheFile, now, memory, supervisor, history>>

BeginRefresh ==
    /\ Quiet /\ creds # None /\ refreshing = None
    /\ refreshing' = creds
    /\ UNCHANGED <<cacheFile, credsFile, now, running, starting, cache, dirty, creds,
                   supervisor, history>>

(* The answer replaces whatever credentials there are by now.              *)
Refreshed ==
    /\ Quiet /\ refreshing # None
    /\ refreshing' = None
    /\ creds' \in {refreshing, creds}       \* the second: the refresh failed
    /\ UNCHANGED <<cacheFile, credsFile, now, running, starting, cache, dirty,
                   supervisor, history>>

-----------------------------------------------------------------------------
(* The add-on stops, at any moment of a write too, and starts again.       *)

(* What is in memory is gone.  Own backups that are not in the cache last  *)
(* written may not be recognised from now on.                              *)
Ends ==
    /\ running' = FALSE /\ starting' = FALSE
    /\ cache' = EmptyCache /\ dirty' = FALSE /\ creds' = None /\ refreshing' = None
    /\ excused' = excused \union Unnoted(saved)
    /\ UNCHANGED <<now, supervisor, saved, overtaken>>

Stops ==
    /\ running /\ stops < MaxStops
    /\ Ends /\ stops' = stops + 1
    /\ \/ C!Idle /\ UNCHANGED cacheFile
       \/ C!WriteFails
    /\ \/ K!Idle /\ UNCHANGED credsFile
       \/ K!WriteFails

(* The save of DataCache._load raises an error: there is no add-on.        *)
StartFails ==
    /\ starting /\ C!WriteFails /\ K!Idle
    /\ Ends /\ UNCHANGED <<credsFile, stops>>

(* tryLoadCredentials: credentials that can't be read are done without.    *)
LoadCredentials == creds' = IF K!Read \in Accounts THEN K!Read ELSE None

BothGone == cacheFile.main = Absent /\ cacheFile.copy = Absent

(* DataCache._load: the first start of all, or both files are gone and all *)
(* that was in them.                                                       *)
StartsEmpty ==
    /\ ~running /\ C!Read = Absent
    /\ Saves(EmptyCache) /\ dirty' = TRUE
    /\ running' = TRUE /\ starting' = TRUE /\ LoadCredentials
    /\ saved' = IF BothGone THEN EmptyCache ELSE saved
    /\ excused' = IF BothGone THEN excused \union Unnoted(EmptyCache) ELSE excused
    /\ overtaken' = FALSE
    /\ UNCHANGED <<credsFile, now, refreshing, supervisor, stops>>

(* A new version, or an explicit setting for the backups to ignore, is     *)
(* saved at once, and what is old is dropped before anything was listed.   *)
StartsAndSaves ==
    /\ ~running /\ C!Read \in Caches
    /\ Saves(C!Read) /\ dirty' = TRUE
    /\ running' = TRUE /\ starting' = TRUE /\ LoadCredentials
    /\ excused' = excused \union Loses(Fresh(C!Read), C!Read)
    /\ overtaken' = FALSE
    /\ UNCHANGED <<credsFile, now, refreshing, supervisor, saved, stops>>

StartsAgain ==
    /\ ~running /\ C!Read \in Caches
    /\ cache' = C!Read
    /\ running' = TRUE /\ LoadCredentials
    /\ overtaken' = FALSE
    /\ UNCHANGED <<cacheFile, credsFile, now, starting, dirty, refreshing,
                   supervisor, saved, excused, stops>>

(* A cache that is there and can't be read keeps the add-on from starting. *)
Starts == StartsEmpty \/ StartsAndSaves \/ StartsAgain

(* The disk damages a file.                                                *)
DiskDamages ==
    /\ \/ C!Damaged /\ UNCHANGED credsFile
       \/ K!Damaged /\ UNCHANGED cacheFile
    /\ UNCHANGED <<now, memory, supervisor, history>>

(* Days pass, also while the add-on is off.  A write takes less.           *)
DayPasses ==
    /\ C!Idle /\ K!Idle
    /\ now < MaxDays /\ now' = now + 1
    /\ UNCHANGED <<cacheFile, credsFile, memory, supervisor, history>>

-----------------------------------------------------------------------------
Init ==
    /\ C!FileInit /\ K!FileInit
    /\ now = 0 /\ running = FALSE /\ starting = FALSE
    /\ cache = EmptyCache /\ dirty = FALSE /\ creds = None /\ refreshing = None
    /\ building = {} /\ made = {} /\ others = {}
    /\ saved = EmptyCache /\ excused = {} /\ overtaken = FALSE /\ stops = 0

Next ==
    \/ \E s \in Slugs : RequestBackup(s) \/ OtherBackup(s)
    \/ BackupDone \/ ListBackups
    \/ SaveIfDirty \/ CacheWriteGoesOn \/ CacheWriteFails
    \/ \E a \in Accounts : SaveCredentials(a)
    \/ CredsWriteGoesOn \/ CredsWriteFails \/ BeginRefresh \/ Refreshed
    \/ Stops \/ Starts \/ StartFails \/ DiskDamages \/ DayPasses

Spec == Init /\ [][Next]_vars

-----------------------------------------------------------------------------
(* Properties.                                                             *)

(* Types, and the invariant of both files: what each of the two copies     *)
(* holds at each stage of a write, so that one can be read.                *)
StoredInv ==
    /\ C!FileInv /\ K!FileInv
    /\ now \in 0..MaxDays
    /\ running \in BOOLEAN /\ starting \in BOOLEAN
    /\ dirty \in BOOLEAN /\ overtaken \in BOOLEAN
    /\ cache \in Caches /\ saved \in Caches
    /\ creds \in Accounts \union {None} /\ refreshing \in Accounts \union {None}
    /\ building \subseteq Slugs /\ made \subseteq Slugs /\ others \subseteq Slugs
    /\ excused \subseteq Slugs /\ stops \in 0..MaxStops

(* Both files are registers that survive one fault, as jsonfilesaver.py:10 *)
(* promises, but for the cases that Register names.                        *)
FilesAreRegisters == C!ImplementsRegister /\ K!ImplementsRegister

(* What a complete save wrote about a backup is known and the same whenever*)
(* the add-on runs, whatever writes broke off and files were damaged, until*)
(* the backup was not seen for Expiration days (data_cache.py:110-113) or  *)
(* both files are gone at a start.                                         *)
SavedIsKept ==
    running =>
        \A s \in Slugs :
            saved.entry[s] # "none" /\ now <= saved.seen[s] + Expiration
                => cache.entry[s] = saved.entry[s]

(* A backup the add-on made is taken for somebody else's (and may then be  *)
(* ignored, habackup.py:48) only if its request was answered with an error,*)
(* was followed by another one before it was listed, or by a restart       *)
(* before a sync had succeeded (data_cache.py:107); if a save came when it *)
(* was not seen for Expiration days, which a start makes that finds a new  *)
(* version (data_cache.py:80, 110-113); or if both files were gone at a    *)
(* start.                                                                  *)
OwnIsKnown ==
    running => \A s \in made : cache.entry[s] = "other" => s \in excused

(* DriveRequests works with the account that was saved last, unless that   *)
(* save failed or came while a refresh of the account before was awaited   *)
(* (driverequests.py:154).                                                 *)
CredsAsSaved ==
    Quiet /\ ~overtaken /\ K!Whole => creds = IF K!Read \in Accounts THEN K!Read ELSE None

(* Of the cache and the credentials one good copy is enough                *)
(* (jsonfilesaver.py:14-15).                                               *)
OneCopyIsEnough == C!OneCopyIsFound /\ K!OneCopyIsFound
=============================================================================
