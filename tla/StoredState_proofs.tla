-------------------------- MODULE StoredState_proofs --------------------------
(* Proofs about StoredState: the add-on uses its two files as DurableFile    *)
(* says files are used, so that what is proved of one file holds of both.    *)
EXTENDS StoredState, TLAPS

CP == INSTANCE DurableFile_proofs WITH file <- cacheFile, Values <- Caches, Nothing <- None
KP == INSTANCE DurableFile_proofs WITH file <- credsFile, Values <- Accounts, Nothing <- None

(* The constants are as the files ask.                                       *)
LEMMA ConstantsFit == CP!FileConstants /\ KP!FileConstants
BY StoredAssumption DEF CP!FileConstants, KP!FileConstants

-----------------------------------------------------------------------------
(* The cache stays a cache.                                                  *)

LEMMA EmptyIsCache == EmptyCache \in Caches
BY DEF EmptyCache, Caches

LEMMA NotedIsCache == ASSUME NEW c \in Caches, NEW listed, now \in Nat PROVE Noted(c, listed) \in Caches
<1>1. NotedEntries(c, listed) \in [Slugs -> {"none", "own", "other"}]
  BY DEF NotedEntries, Caches
<1>2. SeenToday(c, listed) \in [Slugs -> Nat]
  BY DEF SeenToday, Caches
<1> QED BY <1>1, <1>2 DEF Noted, Caches

LEMMA AskedIsCache == ASSUME cache \in Caches, NEW s \in Slugs, now \in Nat PROVE Asked(s) \in Caches
BY DEF Asked, Caches

LEMMA FreshIsCache == ASSUME NEW c \in Caches PROVE Fresh(c) \in Caches
BY DEF Fresh, Caches

IsCache == cache \in Caches /\ now \in Nat

LEMMA CacheTyped == Spec => []IsCache
<1>1. Init => IsCache
  BY EmptyIsCache DEF Init, IsCache
<1>2. IsCache /\ [Next]_vars => IsCache'
  <2> SUFFICES ASSUME cache \in Caches, now \in Nat, [Next]_vars
               PROVE  cache' \in Caches /\ now' \in Nat
    BY DEF IsCache
  <2>1. CASE \E s \in Slugs : RequestBackup(s) \/ OtherBackup(s)
    BY <2>1, NotedIsCache, AskedIsCache DEF RequestBackup, OtherBackup, memory
  <2>2. CASE BackupDone \/ ListBackups \/ BeginRefresh \/ Refreshed
    BY <2>2, NotedIsCache DEF BackupDone, ListBackups, BeginRefresh, Refreshed, memory
  <2>3. CASE Starts
    BY <2>3, EmptyIsCache, FreshIsCache DEF Starts, StartsEmpty, StartsAndSaves, StartsAgain, Saves
  <2>4. CASE Stops \/ StartFails
    BY <2>4, EmptyIsCache DEF Stops, StartFails, Ends
  <2>5. CASE SaveIfDirty \/ CacheWriteGoesOn \/ CacheWriteFails \/ DiskDamages
    BY <2>5, FreshIsCache DEF SaveIfDirty, Saves, CacheWriteGoesOn, CacheWriteFails, DiskDamages, memory
  <2>6. CASE (\E a \in Accounts : SaveCredentials(a)) \/ CredsWriteGoesOn \/ CredsWriteFails
    BY <2>6 DEF SaveCredentials, CredsWriteGoesOn, CredsWriteFails, memory
  <2>7. CASE DayPasses
    BY <2>7 DEF DayPasses, memory
  <2>8. CASE UNCHANGED vars
    BY <2>8 DEF vars, memory
  <2> QED BY <2>1, <2>2, <2>3, <2>4, <2>5, <2>6, <2>7, <2>8 DEF Next
<1> QED BY <1>1, <1>2, PTL DEF Spec

-----------------------------------------------------------------------------
(* Every step leaves each file alone or takes a step of it.                  *)

LEMMA CacheSteps == ASSUME cache \in Caches, [Next]_vars PROVE [C!FileNext]_cacheFile
<1>1. CASE SaveIfDirty \/ StartsEmpty \/ StartsAndSaves
  BY <1>1, FreshIsCache, EmptyIsCache DEF SaveIfDirty, StartsEmpty, StartsAndSaves, Saves, C!FileNext
<1>2. CASE CacheWriteGoesOn \/ CacheWriteFails \/ Stops \/ StartFails \/ DiskDamages
  BY <1>2 DEF CacheWriteGoesOn, CacheWriteFails, Stops, StartFails, DiskDamages, C!FileNext
<1>3. CASE \E s \in Slugs : RequestBackup(s) \/ OtherBackup(s)
  BY <1>3 DEF RequestBackup, OtherBackup
<1>4. CASE BackupDone \/ ListBackups \/ BeginRefresh \/ Refreshed \/ StartsAgain \/ DayPasses
  BY <1>4 DEF BackupDone, ListBackups, BeginRefresh, Refreshed, StartsAgain, DayPasses
<1>5. CASE (\E a \in Accounts : SaveCredentials(a)) \/ CredsWriteGoesOn \/ CredsWriteFails
  BY <1>5 DEF SaveCredentials, CredsWriteGoesOn, CredsWriteFails
<1>6. CASE UNCHANGED vars
  BY <1>6 DEF vars
<1> QED BY <1>1, <1>2, <1>3, <1>4, <1>5, <1>6 DEF Next, Starts

LEMMA CredsSteps == ASSUME [Next]_vars PROVE [K!FileNext]_credsFile
<1>1. CASE \E a \in Accounts : SaveCredentials(a)
  BY <1>1 DEF SaveCredentials, K!FileNext
<1>2. CASE CredsWriteGoesOn \/ CredsWriteFails \/ Stops \/ DiskDamages
  BY <1>2 DEF CredsWriteGoesOn, CredsWriteFails, Stops, DiskDamages, K!FileNext
<1>3. CASE \E s \in Slugs : RequestBackup(s) \/ OtherBackup(s)
  BY <1>3 DEF RequestBackup, OtherBackup
<1>4. CASE BackupDone \/ ListBackups \/ BeginRefresh \/ Refreshed \/ Starts \/ StartFails \/ DayPasses
  BY <1>4 DEF BackupDone, ListBackups, BeginRefresh, Refreshed, Starts, StartsEmpty,
              StartsAndSaves, StartsAgain, StartFails, DayPasses
<1>5. CASE SaveIfDirty \/ CacheWriteGoesOn \/ CacheWriteFails
  BY <1>5 DEF SaveIfDirty, CacheWriteGoesOn, CacheWriteFails
<1>6. CASE UNCHANGED vars
  BY <1>6 DEF vars
<1> QED BY <1>1, <1>2, <1>3, <1>4, <1>5, <1>6 DEF Next

LEMMA FilesAreUsedAsFiles == Spec => C!FileSpec /\ K!FileSpec
<1>1. Init => C!FileInit /\ K!FileInit
  BY DEF Init
<1>2. IsCache /\ [Next]_vars => [C!FileNext]_cacheFile
  BY CacheSteps DEF IsCache
<1>3. [Next]_vars => [K!FileNext]_credsFile
  BY CredsSteps
<1> QED BY <1>1, <1>2, <1>3, CacheTyped, PTL DEF Spec, C!FileSpec, K!FileSpec

-----------------------------------------------------------------------------
(* DurableFile_proofs speaks of its own instance of DurableFile: the two     *)
(* are the same, definition by definition.                                   *)

LEMMA SameFiles == (C!FileSpec => CP!FileSpec) /\ (K!FileSpec => KP!FileSpec)
BY DEF C!FileSpec, CP!FileSpec, C!FileInit, CP!FileInit, C!NewFile, CP!NewFile,
       C!FileNext, CP!FileNext, C!Write, CP!Write, C!Continues, CP!Continues,
       C!CopyWritten, CP!CopyWritten, C!MainOpened, CP!MainOpened, C!MainWritten, CP!MainWritten,
       C!WriteFails, CP!WriteFails, C!Damaged, CP!Damaged,
       C!Idle, CP!Idle, C!Whole, CP!Whole, C!Read, CP!Read,
       K!FileSpec, KP!FileSpec, K!FileInit, KP!FileInit, K!NewFile, KP!NewFile,
       K!FileNext, KP!FileNext, K!Write, KP!Write, K!Continues, KP!Continues,
       K!CopyWritten, KP!CopyWritten, K!MainOpened, KP!MainOpened, K!MainWritten, KP!MainWritten,
       K!WriteFails, KP!WriteFails, K!Damaged, KP!Damaged,
       K!Idle, KP!Idle, K!Whole, KP!Whole, K!Read, KP!Read

LEMMA SameRegisters ==
    (CP!ImplementsRegister => C!ImplementsRegister) /\ (KP!ImplementsRegister => K!ImplementsRegister)
BY DEF C!ImplementsRegister, CP!ImplementsRegister, C!R!RegisterSpec, CP!R!RegisterSpec,
       C!R!RegisterInit, CP!R!RegisterInit, C!R!RegisterNext, CP!R!RegisterNext,
       C!R!Start, CP!R!Start, C!R!Finish, CP!R!Finish, C!R!BreakOff, CP!R!BreakOff,
       C!R!Damage, CP!R!Damage, C!R!Garble, CP!R!Garble, C!R!FaultAgain, CP!R!FaultAgain,
       C!Idle, CP!Idle, C!Read, CP!Read,
       K!ImplementsRegister, KP!ImplementsRegister, K!R!RegisterSpec, KP!R!RegisterSpec,
       K!R!RegisterInit, KP!R!RegisterInit, K!R!RegisterNext, KP!R!RegisterNext,
       K!R!Start, KP!R!Start, K!R!Finish, KP!R!Finish, K!R!BreakOff, KP!R!BreakOff,
       K!R!Damage, KP!R!Damage, K!R!Garble, KP!R!Garble, K!R!FaultAgain, KP!R!FaultAgain,
       K!Idle, KP!Idle, K!Read, KP!Read

(* The cache file and the credentials file implement the abstract register,  *)
(* whatever the add-on writes to them, wherever it is stopped and whatever   *)
(* the disk does: one fault between two complete writes is not seen, but for *)
(* the cases that Register names (jsonfilesaver.py:22-42).                   *)
THEOREM FilesImplementRegisters == Spec => FilesAreRegisters
<1>1. CP!FileSpec => CP!ImplementsRegister
  BY CP!RegisterRefinement, ConstantsFit
<1>2. KP!FileSpec => KP!ImplementsRegister
  BY KP!RegisterRefinement, ConstantsFit
<1> QED BY <1>1, <1>2, FilesAreUsedAsFiles, SameFiles, SameRegisters, PTL DEF FilesAreRegisters

-----------------------------------------------------------------------------
(* What a step of the file of the cache does to the caches on the disk.      *)

Disk == {cacheFile.main, cacheFile.copy}

LEMMA SameInv == (C!FileInv <=> CP!FileInv) /\ (K!FileInv <=> KP!FileInv)
BY DEF C!FileInv, CP!FileInv, C!FileType, CP!FileType, C!Contents, CP!Contents, C!Found, CP!Found,
       C!Idle, CP!Idle, C!Whole, CP!Whole,
       K!FileInv, KP!FileInv, K!FileType, KP!FileType, K!Contents, KP!Contents, K!Found, KP!Found,
       K!Idle, KP!Idle, K!Whole, KP!Whole

LEMMA CacheWriteStarts ==
    ASSUME C!FileInv, NEW v \in Caches, C!Write(v)
    PROVE  /\ ~C!Idle' /\ cacheFile'.writing = v
           /\ Disk' \intersect Caches \subseteq Disk
BY StoredAssumption DEF C!Write, C!Idle, C!FileInv, C!FileType, Disk

LEMMA CacheWriteContinues ==
    ASSUME C!FileInv, C!CopyWritten \/ C!MainOpened
    PROVE  /\ ~C!Idle' /\ cacheFile'.writing = cacheFile.writing
           /\ Disk' \intersect Caches \subseteq Disk \union {cacheFile.writing}
<1>1. CASE C!CopyWritten
  BY <1>1 DEF C!CopyWritten, C!Idle, C!FileInv, C!FileType, Disk
<1>2. CASE C!MainOpened
  BY <1>2, StoredAssumption DEF C!MainOpened, C!Idle, C!FileInv, C!FileType, Disk
<1> QED BY <1>1, <1>2

LEMMA CacheWriteFinishes ==
    ASSUME C!FileInv, C!MainWritten
    PROVE  ~C!Idle /\ C!Idle' /\ Disk' = {cacheFile.writing}
BY DEF C!MainWritten, C!Idle, C!FileInv, C!FileType, Disk

LEMMA CacheWriteBreaksOff ==
    ASSUME C!FileInv, C!WriteFails
    PROVE  ~C!Idle /\ C!Idle' /\ Disk' = Disk
BY DEF C!WriteFails, C!Idle, C!FileInv, C!FileType, Disk

LEMMA DamageAddsNothing ==
    ASSUME C!FileInv, C!Damaged
    PROVE  C!Idle /\ C!Idle' /\ Disk' \intersect Caches \subseteq Disk
<1>1. PICK bad \in {Absent, Torn, Garbled} :
         \/ cacheFile' = [cacheFile EXCEPT !.main = bad, !.hurt = TRUE]
         \/ cacheFile' = [cacheFile EXCEPT !.copy = bad, !.hurt = TRUE]
  BY DEF C!Damaged
<1>2. bad \notin Caches
  BY StoredAssumption
<1>3. C!Idle /\ cacheFile \in C!FileType
  BY DEF C!Damaged, C!FileInv
<1>4. CASE cacheFile' = [cacheFile EXCEPT !.main = bad, !.hurt = TRUE]
  BY <1>2, <1>3, <1>4 DEF C!FileType, C!Idle, Disk
<1>5. CASE cacheFile' = [cacheFile EXCEPT !.copy = bad, !.hurt = TRUE]
  BY <1>2, <1>3, <1>5 DEF C!FileType, C!Idle, Disk
<1> QED BY <1>1, <1>4, <1>5

(* What is read is on the disk.                                              *)
LEMMA ReadIsOnDisk == (C!Read \in Caches => C!Read \in Disk) /\ (C!Read = Absent => BothGone)
BY StoredAssumption DEF C!Read, Disk, BothGone

-----------------------------------------------------------------------------
(* What a cache says of the backups known, of those the add-on asked for     *)
(* (own), of those it is excused of, and of the cache that was saved.        *)

Sound(c, known, own, excuses) ==
    /\ \A s \in Slugs : c.entry[s] # "none" => s \in known
    /\ c.pending # None => c.pending \in own
    /\ \A s \in own : c.entry[s] = "other" => s \in excuses

Missing(c, own) == {s \in own : c.entry[s] # "own" /\ c.pending # s}

Past(c, day) == \A s \in Slugs : c.seen[s] <= day

Keeps(c, old, day) ==
    \A s \in Slugs :
        old.entry[s] # "none" /\ day <= old.seen[s] + Expiration
            => c.entry[s] = old.entry[s] /\ old.seen[s] <= c.seen[s]

(* A backup asked for is new, so no cache has anything wrong about it, and   *)
(* every cache lacks it alike.                                               *)
LEMMA SoundGrows ==
    ASSUME NEW c \in Caches, NEW known, NEW own \in SUBSET Slugs, NEW excuses,
           Sound(c, known, own, excuses), NEW s \in Slugs, s \notin known,
           NEW known2, NEW own2, NEW excuses2,
           known \subseteq known2, own \subseteq own2, excuses \subseteq excuses2,
           own2 \subseteq own \union {s}
    PROVE  Sound(c, known2, own2, excuses2)
BY DEF Sound

LEMMA NewIsMissing ==
    ASSUME NEW c \in Caches, NEW known, NEW own \in SUBSET Slugs, NEW excuses,
           Sound(c, known, own, excuses), NEW s \in Slugs, s \notin known, s \notin own
    PROVE  c.entry[s] = "none" /\ Missing(c, own \union {s}) = Missing(c, own) \union {s}
<1>1. c.entry[s] = "none" /\ c.pending # s
  BY StoredAssumption DEF Sound
<1> QED BY <1>1 DEF Missing

LEMMA NotedIsSound ==
    ASSUME NEW c \in Caches, NEW known, NEW own \in SUBSET Slugs, NEW excuses,
           NEW listed \in SUBSET known,
           Sound(c, known, own, excuses), Missing(c, own) \subseteq excuses
    PROVE  /\ Sound(Noted(c, listed), known, own, excuses)
           /\ Missing(Noted(c, listed), own) \subseteq excuses
<1> DEFINE n == Noted(c, listed)
<1>1. \A s \in Slugs :
        n.entry[s] = IF s \in listed /\ c.entry[s] = "none"
                     THEN IF s = c.pending THEN "own" ELSE "other"
                     ELSE c.entry[s]
  BY DEF Noted, NotedEntries
<1>2. n.pending = IF c.pending \in listed /\ c.entry[c.pending] = "none"
                  THEN None ELSE c.pending
  BY DEF Noted
<1>3. \A s \in Slugs : n.entry[s] # "none" => s \in known
  BY <1>1 DEF Sound
<1>4. n.pending # None => n.pending \in own
  BY <1>2 DEF Sound
<1>5. \A s \in own : n.entry[s] = "other" => s \in excuses
  BY <1>1 DEF Sound, Missing
<1>6. Missing(n, own) \subseteq excuses
  BY <1>1, <1>2 DEF Missing
<1> QED BY <1>3, <1>4, <1>5, <1>6 DEF Sound

(* A listing is of today.                                                    *)
LEMMA NotedKeeps ==
    ASSUME NEW c \in Caches, NEW old \in Caches, NEW listed, now \in Nat,
           Past(c, now), Past(old, now), Keeps(c, old, now)
    PROVE  Past(Noted(c, listed), now) /\ Keeps(Noted(c, listed), old, now)
<1> DEFINE n == Noted(c, listed)
<1>1. \A s \in Slugs : n.seen[s] = IF s \in listed THEN now ELSE c.seen[s]
  BY DEF Noted, SeenToday
<1>2. \A s \in Slugs : c.entry[s] # "none" => n.entry[s] = c.entry[s]
  BY DEF Noted, NotedEntries
<1>3. \A s \in Slugs : c.seen[s] \in Nat /\ old.seen[s] \in Nat
  BY DEF Caches
<1>4. Past(n, now)
  BY <1>1, <1>3 DEF Past
<1>5. Keeps(n, old, now)
  BY <1>1, <1>2, <1>3 DEF Past, Keeps
<1> QED BY <1>4, <1>5

LEMMA EmptyIsSound ==
    ASSUME NEW known, NEW own \in SUBSET Slugs, NEW excuses, now \in Nat
    PROVE  Sound(EmptyCache, known, own, excuses) /\ Past(EmptyCache, now)
BY DEF Sound, Past, EmptyCache

(* What a save drops is old, so it was old in the cache saved before too,    *)
(* and it is excused.                                                        *)
LEMMA FreshIsSound ==
    ASSUME NEW c \in Caches, NEW known, NEW own \in SUBSET Slugs, NEW excuses, now \in Nat,
           Sound(c, known, own, excuses), Past(c, now)
    PROVE  Sound(Fresh(c), known, own, excuses) /\ Past(Fresh(c), now)
<1>1. \A s \in Slugs : Fresh(c).entry[s] \in {"none", c.entry[s]} /\ Fresh(c).seen[s] \in {0, c.seen[s]}
  BY DEF Fresh
<1>2. Fresh(c).pending \in {None, c.pending}
  BY DEF Fresh
<1>3. Past(Fresh(c), now)
  BY <1>1 DEF Past
<1>4. Sound(Fresh(c), known, own, excuses)
  BY <1>1, <1>2 DEF Sound
<1> QED BY <1>3, <1>4

LEMMA FreshKeeps ==
    ASSUME NEW c \in Caches, NEW old \in Caches, now \in Nat, Keeps(c, old, now)
    PROVE  Keeps(Fresh(c), old, now)
<1> SUFFICES ASSUME NEW s \in Slugs, old.entry[s] # "none", now <= old.seen[s] + Expiration
             PROVE  Fresh(c).entry[s] = old.entry[s] /\ old.seen[s] <= Fresh(c).seen[s]
  BY DEF Keeps
<1>1. c.entry[s] = old.entry[s] /\ old.seen[s] <= c.seen[s]
  BY DEF Keeps
<1>2. c.seen[s] \in Nat /\ old.seen[s] \in Nat
  BY DEF Caches
<1>3. ~Old(c.seen[s])
  BY <1>1, <1>2, StoredAssumption DEF Old
<1> QED BY <1>1, <1>3 DEF Fresh

LEMMA DayKeeps ==
    ASSUME NEW c \in Caches, NEW old \in Caches, NEW day \in Nat
    PROVE  /\ Past(c, day) => Past(c, day + 1)
           /\ Keeps(c, old, day) => Keeps(c, old, day + 1)
<1>1. \A s \in Slugs : c.seen[s] \in Nat /\ old.seen[s] \in Nat
  BY DEF Caches
<1> QED BY <1>1, StoredAssumption DEF Past, Keeps

-----------------------------------------------------------------------------
(* The invariant.  The cache in memory, the one saved and those on the disk  *)
(* are sound, of no later day, and none of them has lost what was saved and  *)
(* is not old.  The one in memory lacks only backups it is excused of; those *)
(* on the disk may be of a write that broke off: what they lack besides, the *)
(* one saved lacks too, and a stop excuses that.                             *)

Own == made \union building

MemoryTypes ==
    /\ now \in 0..MaxDays
    /\ running \in BOOLEAN /\ starting \in BOOLEAN
    /\ dirty \in BOOLEAN /\ overtaken \in BOOLEAN
    /\ cache \in Caches /\ saved \in Caches
    /\ creds \in Accounts \union {None} /\ refreshing \in Accounts \union {None}
    /\ building \subseteq Slugs /\ made \subseteq Slugs /\ others \subseteq Slugs
    /\ excused \subseteq Slugs /\ stops \in 0..MaxStops

(* A cache that may be in memory, now or after a start.                      *)
Good(c) ==
    Sound(c, Backups, Own, excused) /\ Past(c, now) /\ Keeps(c, saved, now)

MemoryNotes ==
    /\ Sound(cache, Backups, Own, excused) /\ Past(cache, now)
    /\ Sound(saved, Backups, Own, excused) /\ Past(saved, now)
    /\ running => Keeps(cache, saved, now) /\ Missing(cache, Own) \subseteq excused
    /\ ~C!Idle => running /\ cacheFile.writing = cache

DiskNotes ==
    \A c \in Caches :
        c \in Disk =>
            /\ Good(c)
            /\ Missing(c, Own) \subseteq
                 (IF running THEN excused \union Missing(saved, Own) ELSE excused)

NotesInv == MemoryTypes /\ MemoryNotes /\ DiskNotes

LEMMA NotesStart == Init => NotesInv
<1> SUFFICES ASSUME Init PROVE NotesInv
  OBVIOUS
<1>1. MemoryTypes
  <2>1. 0 \in 0..MaxStops /\ 0 \in 0..MaxDays
    BY StoredAssumption
  <2> QED BY <2>1, EmptyIsCache DEF Init, MemoryTypes
<1>2. C!Idle /\ Disk = {Absent} /\ Absent \notin Caches
  BY StoredAssumption DEF Init, C!FileInit, C!NewFile, C!Idle, Disk
<1>3. Own = {} /\ Backups = {} /\ now \in Nat
  BY DEF Init, Own, Backups
<1>4. MemoryNotes
  BY <1>2, <1>3, EmptyIsSound DEF Init, MemoryNotes
<1>5. DiskNotes
  BY <1>2 DEF DiskNotes
<1> QED BY <1>1, <1>4, <1>5 DEF NotesInv

(* Steps that leave alone the cache, its file and the supervisor.            *)
LEMMA AsideNotes ==
    ASSUME NotesInv, MemoryTypes',
           UNCHANGED <<cacheFile, now, running, cache, supervisor, saved, excused>>
    PROVE  NotesInv'
<1>1. Own' = Own /\ Backups' = Backups /\ Disk' = Disk /\ C!Idle' = C!Idle
  BY DEF Own, Backups, supervisor, Disk, C!Idle
<1> QED BY <1>1 DEF NotesInv, MemoryNotes, DiskNotes, Good

(* A day passes.                                                             *)
LEMMA DayNotes ==
    ASSUME NotesInv, MemoryTypes', DayPasses
    PROVE  NotesInv'
<1>1. /\ Own' = Own /\ Backups' = Backups /\ Disk' = Disk /\ C!Idle' = C!Idle
      /\ UNCHANGED <<cacheFile, running, cache, saved, excused>> /\ now' = now + 1
      /\ now \in Nat /\ cache \in Caches /\ saved \in Caches
  BY DEF DayPasses, memory, supervisor, history, Own, Backups, Disk, C!Idle, NotesInv, MemoryTypes
<1>2. MemoryNotes'
  BY <1>1, DayKeeps DEF NotesInv, MemoryNotes
<1>3. DiskNotes'
  BY <1>1, DayKeeps DEF NotesInv, DiskNotes, Good
<1> QED BY <1>2, <1>3 DEF NotesInv

(* A backup appears that nobody knew of.                                     *)
LEMMA AppearsNotes ==
    ASSUME NotesInv, MemoryTypes', UNCHANGED <<cacheFile, now, running, saved>>,
           NEW s \in Slugs, s \notin Backups, s \notin Own,
           Backups \subseteq Backups', excused \subseteq excused',
           Own' = Own \union {s} \/ Own' = Own,
           running => Sound(cache, Backups, Own, excused)'
                      /\ Missing(cache, Own)' \subseteq excused'
                      /\ Past(cache, now)' /\ Keeps(cache, saved, now)',
           ~running => UNCHANGED cache /\ Own' = Own,
           ~C!Idle => UNCHANGED cache
    PROVE  NotesInv'
<1>1. Disk' = Disk /\ C!Idle' = C!Idle
  BY DEF Disk, C!Idle
<1>2. Own \in SUBSET Slugs /\ Own' \in SUBSET Slugs
  BY DEF Own, NotesInv, MemoryTypes
<1>3. ASSUME NEW c \in Caches, Sound(c, Backups, Own, excused)
      PROVE  Sound(c, Backups', Own', excused')
  BY <1>2, <1>3, SoundGrows
<1>4. Sound(saved, Backups', Own', excused')
  BY <1>3 DEF NotesInv, MemoryTypes, MemoryNotes
<1>5. ~running => Sound(cache', Backups', Own', excused')
  BY <1>3 DEF NotesInv, MemoryTypes, MemoryNotes
<1>6. MemoryNotes'
  BY <1>1, <1>4, <1>5 DEF NotesInv, MemoryTypes, MemoryNotes
<1>7. DiskNotes'
  <2> SUFFICES ASSUME NEW c \in Caches, c \in Disk
               PROVE  /\ Good(c)'
                      /\ Missing(c, Own') \subseteq
                           (IF running THEN excused' \union Missing(saved, Own') ELSE excused')
    BY <1>1 DEF DiskNotes
  <2>1. /\ Good(c)
        /\ Missing(c, Own) \subseteq
             (IF running THEN excused \union Missing(saved, Own) ELSE excused)
    BY DEF NotesInv, DiskNotes
  <2>2. Good(c)'
    BY <1>3, <2>1 DEF Good
  <2>3. /\ Missing(c, Own \union {s}) = Missing(c, Own) \union {s}
        /\ Missing(saved, Own \union {s}) = Missing(saved, Own) \union {s}
    BY <1>2, <2>1, NewIsMissing DEF NotesInv, MemoryTypes, MemoryNotes, Good
  <2> QED BY <2>1, <2>2, <2>3
<1> QED BY <1>6, <1>7 DEF NotesInv

LEMMA TypesKept ==
    ASSUME MemoryTypes, C!FileInv, K!FileInv, [Next]_vars
    PROVE  MemoryTypes'
<1> USE DEF MemoryTypes, memory, supervisor, history
<1>0. now \in Nat /\ Unnoted(saved) \subseteq Slugs
      /\ \A c, d : Loses(c, d) \subseteq Slugs
  BY DEF Unnoted, Loses
<1>1. CASE \E s \in Slugs : RequestBackup(s) \/ OtherBackup(s)
  <2>1. PICK s \in Slugs : RequestBackup(s) \/ OtherBackup(s)
    BY <1>1
  <2>2. Asked(s) \in Caches /\ Noted(Asked(s), {s}) \in Caches
    BY <1>0, AskedIsCache, NotedIsCache
  <2> QED BY <1>0, <2>1, <2>2 DEF RequestBackup, OtherBackup
<1>2. CASE BackupDone \/ ListBackups \/ SaveIfDirty \/ CacheWriteFails
  BY <1>0, <1>2, NotedIsCache, FreshIsCache DEF BackupDone, ListBackups, SaveIfDirty, Saves, CacheWriteFails
<1>3. CASE CacheWriteGoesOn
  BY <1>3 DEF CacheWriteGoesOn
<1>4. CASE \E a \in Accounts : SaveCredentials(a)
  BY <1>4 DEF SaveCredentials
<1>5. CASE CredsWriteGoesOn
  <2>1. K!MainWritten => credsFile.writing \in Accounts
    BY DEF K!MainWritten, K!FileInv, K!FileType, K!Idle
  <2> QED BY <1>5, <2>1 DEF CredsWriteGoesOn, LoadsCredentials
<1>6. CASE CredsWriteFails \/ BeginRefresh \/ Refreshed \/ DiskDamages
  BY <1>6 DEF CredsWriteFails, BeginRefresh, Refreshed, DiskDamages
<1>7. CASE Stops \/ StartFails
  <2>1. stops' \in 0..MaxStops
    BY <1>7, StoredAssumption DEF Stops, StartFails
  <2> QED BY <1>0, <1>7, <2>1, EmptyIsCache DEF Stops, StartFails, Ends
<1>8. CASE Starts
  <2>1. Unnoted(EmptyCache) \subseteq Slugs
    BY DEF Unnoted
  <2>2. CASE StartsEmpty
    BY <1>0, <2>1, <2>2, EmptyIsCache, FreshIsCache DEF StartsEmpty, Saves, LoadCredentials
  <2>3. CASE StartsAndSaves \/ StartsAgain
    BY <1>0, <2>3, FreshIsCache DEF StartsAndSaves, StartsAgain, Saves, LoadCredentials
  <2> QED BY <1>8, <2>2, <2>3 DEF Starts
<1>9. CASE DayPasses
  BY <1>0, <1>9, StoredAssumption DEF DayPasses
<1>10. CASE UNCHANGED vars
  BY <1>10 DEF vars
<1> QED BY <1>1, <1>2, <1>3, <1>4, <1>5, <1>6, <1>7, <1>8, <1>9, <1>10 DEF Next

(* HASource.create: the backup that is asked for is new, and what loses its  *)
(* note to it is excused.                                                    *)
LEMMA RequestNotes ==
    ASSUME NotesInv, MemoryTypes', NEW s \in Slugs, RequestBackup(s)
    PROVE  NotesInv'
<1> DEFINE c == Asked(s)
           own == Own \union {s}
           asked == excused \union Loses(c, cache)
<1>1. /\ running /\ C!Idle /\ s \notin Backups /\ s \notin Own /\ Own' = own
      /\ Backups \subseteq Backups' /\ excused \subseteq excused'
      /\ UNCHANGED <<cacheFile, now, running, saved>> /\ c \in Caches /\ now \in Nat
      /\ Own \in SUBSET Slugs /\ cache \in Caches /\ saved \in Caches
  <2>1. now \in Nat /\ cache \in Caches /\ saved \in Caches /\ Own \in SUBSET Slugs
    BY DEF NotesInv, MemoryTypes, Own
  <2>2. /\ running /\ C!Idle /\ s \notin Backups /\ building = {}
        /\ UNCHANGED <<cacheFile, now, running, others, saved>>
    BY DEF RequestBackup, Quiet
  <2>3. /\ made' \union building' = made \union {s} /\ made \subseteq made'
        /\ excused \subseteq excused'
    BY <2>2 DEF RequestBackup
  <2> QED BY <2>1, <2>2, <2>3, AskedIsCache DEF Backups, Own
<1>2. /\ cache.entry[s] = "none" /\ c.entry = cache.entry /\ c.seen = cache.seen /\ c.pending = s
  <2>1. Sound(cache, Backups, Own, excused)
    BY DEF NotesInv, MemoryNotes
  <2>2. cache.entry[s] = "none"
    BY <1>1, <2>1, NewIsMissing
  <2> QED BY <1>1, <2>2 DEF Asked, Caches
<1>3. Sound(c, Backups', own, asked)
  BY <1>1, <1>2 DEF NotesInv, MemoryNotes, Sound
<1>4. Missing(c, own) \subseteq asked
  BY <1>1, <1>2 DEF Missing, Unnoted, Loses, Own, NotesInv, MemoryNotes
<1>5. /\ Past(c, now) /\ Past(cache, now) /\ Past(saved, now)
      /\ Keeps(c, saved, now) /\ Keeps(cache, saved, now)
  BY <1>1, <1>2 DEF NotesInv, MemoryNotes, Keeps, Past
<1>6. /\ Sound(cache', Backups', Own', excused') /\ Missing(cache', Own') \subseteq excused'
      /\ Past(cache', now) /\ Keeps(cache', saved, now)
  <2>1. CASE /\ made' = made \union {s} /\ cache' = Noted(c, {s})
             /\ excused' = asked
    <3>1. s \in Backups'
      BY <2>1 DEF Backups
    <3>2. own \in SUBSET Slugs /\ {s} \in SUBSET Backups'
      BY <1>1, <3>1
    <3>3. /\ Sound(Noted(c, {s}), Backups', own, asked)
          /\ Missing(Noted(c, {s}), own) \subseteq asked
      <4> HIDE DEF c, own, asked
      <4> QED BY <1>1, <1>3, <1>4, <3>2, NotedIsSound
    <3>4. Past(Noted(c, {s}), now) /\ Keeps(Noted(c, {s}), saved, now)
      BY <1>1, <1>5, NotedKeeps
    <3> QED BY <2>1, <3>3, <3>4, <1>1
  <2>2. CASE cache' = c /\ excused' = asked
    BY <2>2, <1>1, <1>3, <1>4, <1>5
  <2>3. CASE cache' = cache /\ excused' = excused \union {s}
    <3>1. Sound(cache, Backups', own, excused')
      BY <1>1, <2>3, SoundGrows DEF NotesInv, MemoryNotes
    <3>2. Missing(cache, own) \subseteq excused'
      BY <1>1, <2>3, NewIsMissing DEF NotesInv, MemoryNotes
    <3> QED BY <2>3, <3>1, <3>2, <1>1, <1>5
  <2> QED BY <2>1, <2>2, <2>3 DEF RequestBackup
<1> QED BY <1>1, <1>6, AppearsNotes

LEMMA OthersNotes ==
    ASSUME NotesInv, MemoryTypes', NEW s \in Slugs, OtherBackup(s)
    PROVE  NotesInv'
<1>1. /\ s \notin Backups /\ s \notin Own /\ Own' = Own /\ Backups \subseteq Backups'
      /\ UNCHANGED <<cacheFile, now, running, cache, saved, excused>>
      /\ Own \in SUBSET Slugs /\ cache \in Caches
  BY DEF OtherBackup, Backups, Own, memory, history, NotesInv, MemoryTypes
<1>2. Sound(cache, Backups', Own, excused)
  BY <1>1, SoundGrows DEF NotesInv, MemoryNotes
<1>3. running => /\ Missing(cache, Own) \subseteq excused
                 /\ Past(cache, now) /\ Keeps(cache, saved, now)
  BY DEF NotesInv, MemoryNotes
<1> QED BY <1>1, <1>2, <1>3, AppearsNotes

LEMMA BuiltNotes ==
    ASSUME NotesInv, MemoryTypes', BackupDone
    PROVE  NotesInv'
<1>1. /\ Own' = Own /\ Backups \subseteq Backups'
      /\ UNCHANGED <<cacheFile, now, running, cache, saved, excused>>
  BY DEF BackupDone, Backups, Own, memory, history
<1>2. Disk' = Disk /\ C!Idle' = C!Idle
  BY <1>1 DEF Disk, C!Idle
<1>3. ASSUME NEW c, Sound(c, Backups, Own, excused)
      PROVE  Sound(c, Backups', Own, excused)
  BY <1>1, <1>3 DEF Sound
<1>4. MemoryNotes'
  BY <1>1, <1>2, <1>3 DEF NotesInv, MemoryNotes
<1>5. DiskNotes'
  BY <1>1, <1>2, <1>3 DEF NotesInv, DiskNotes, Good
<1> QED BY <1>4, <1>5 DEF NotesInv

(* HASource.get: the backups listed for the first time get their entries.    *)
LEMMA ListedNotes ==
    ASSUME NotesInv, MemoryTypes', ListBackups
    PROVE  NotesInv'
<1>1. /\ cache' = Noted(cache, Backups) /\ running /\ C!Idle
      /\ Own' = Own /\ Backups' = Backups /\ now \in Nat
      /\ UNCHANGED <<cacheFile, now, running, saved, excused>>
      /\ Own \in SUBSET Slugs /\ cache \in Caches /\ saved \in Caches
  BY DEF ListBackups, Quiet, Backups, Own, supervisor, history, NotesInv, MemoryTypes
<1>2. Disk' = Disk /\ C!Idle' = C!Idle
  BY <1>1 DEF Disk, C!Idle
<1>3. /\ Sound(cache, Backups, Own, excused) /\ Missing(cache, Own) \subseteq excused
      /\ Past(cache, now) /\ Past(saved, now) /\ Keeps(cache, saved, now)
  BY <1>1 DEF NotesInv, MemoryNotes
<1>4. /\ Sound(Noted(cache, Backups), Backups, Own, excused)
      /\ Missing(Noted(cache, Backups), Own) \subseteq excused
  <2>1. Backups \in SUBSET Backups
    OBVIOUS
  <2> QED BY <1>1, <1>3, <2>1, NotedIsSound
<1>5. Past(Noted(cache, Backups), now) /\ Keeps(Noted(cache, Backups), saved, now)
  BY <1>1, <1>3, NotedKeeps
<1>6. MemoryNotes'
  BY <1>1, <1>2, <1>4, <1>5 DEF NotesInv, MemoryNotes
<1>7. DiskNotes'
  BY <1>1, <1>2 DEF NotesInv, DiskNotes, Good
<1> QED BY <1>6, <1>7 DEF NotesInv

(* A save: what is written is the cache in memory without what is old, and   *)
(* the cache stays so until the write has ended.                             *)
LEMMA SaveNotes ==
    ASSUME NotesInv, MemoryTypes', C!FileInv, SaveIfDirty
    PROVE  NotesInv'
<1>1. /\ running /\ C!Write(Fresh(cache)) /\ cache' = Fresh(cache)
      /\ excused' = excused \union Loses(Fresh(cache), cache)
      /\ Own' = Own /\ Backups' = Backups /\ Own \in SUBSET Slugs
      /\ UNCHANGED <<now, running, saved>>
      /\ cache \in Caches /\ saved \in Caches /\ Fresh(cache) \in Caches /\ now \in Nat
  BY FreshIsCache DEF SaveIfDirty, Saves, Quiet, supervisor, Own, Backups, NotesInv, MemoryTypes
<1>2. ~C!Idle' /\ cacheFile'.writing = cache' /\ Disk' \intersect Caches \subseteq Disk
  BY <1>1, CacheWriteStarts
<1>3. ASSUME NEW c \in Caches, Sound(c, Backups, Own, excused)
      PROVE  Sound(c, Backups, Own, excused')
  BY <1>1, <1>3 DEF Sound
<1>4. /\ Sound(cache', Backups, Own, excused') /\ Past(cache', now)
      /\ Keeps(cache', saved, now)
  BY <1>1, <1>3, FreshIsSound, FreshKeeps DEF NotesInv, MemoryNotes
<1>5. Missing(cache', Own) \subseteq excused'
  BY <1>1 DEF Missing, Loses, Unnoted, Own, NotesInv, MemoryNotes
<1>6. MemoryNotes'
  BY <1>1, <1>2, <1>3, <1>4, <1>5 DEF NotesInv, MemoryNotes
<1>7. DiskNotes'
  BY <1>1, <1>2, <1>3 DEF NotesInv, DiskNotes, Good
<1> QED BY <1>6, <1>7 DEF NotesInv

LEMMA WritingNotes ==
    ASSUME NotesInv, MemoryTypes', C!FileInv, CacheWriteGoesOn
    PROVE  NotesInv'
<1>1. /\ running /\ ~C!Idle /\ cacheFile.writing = cache /\ C!Continues
      /\ Own' = Own /\ Backups' = Backups
      /\ UNCHANGED <<now, running, cache, excused>>
      /\ cache \in Caches /\ now \in Nat
  BY DEF CacheWriteGoesOn, C!Continues, C!CopyWritten, C!MainOpened, C!MainWritten,
         C!Idle, supervisor, Own, Backups, NotesInv, MemoryTypes, MemoryNotes
<1>2. /\ Sound(cache, Backups, Own, excused) /\ Past(cache, now) /\ Keeps(cache, saved, now)
      /\ Missing(cache, Own) \subseteq excused
  BY <1>1 DEF NotesInv, MemoryNotes
<1>3. CASE C!MainWritten
  <2>1. C!Idle' /\ Disk' = {cache} /\ saved' = cache
    BY <1>1, <1>3, CacheWriteFinishes DEF CacheWriteGoesOn
  <2>2. Keeps(cache, cache, now)
    BY <1>1 DEF Keeps, Caches
  <2>3. MemoryNotes'
    BY <1>1, <1>2, <2>1, <2>2 DEF MemoryNotes
  <2>4. DiskNotes'
    BY <1>1, <1>2, <2>1, <2>2 DEF DiskNotes, Good
  <2> QED BY <2>3, <2>4 DEF NotesInv
<1>4. CASE ~C!MainWritten
  <2>1. /\ ~C!Idle' /\ cacheFile'.writing = cache /\ saved' = saved
        /\ Disk' \intersect Caches \subseteq Disk \union {cache}
    BY <1>1, <1>4, CacheWriteContinues DEF CacheWriteGoesOn, C!Continues
  <2>2. MemoryNotes'
    BY <1>1, <2>1 DEF NotesInv, MemoryNotes
  <2>3. DiskNotes'
    BY <1>1, <1>2, <2>1 DEF NotesInv, DiskNotes, Good
  <2> QED BY <2>2, <2>3 DEF NotesInv
<1> QED BY <1>3, <1>4

(* Faults add nothing to the caches on the disk.                             *)
LEMMA FaultNotes ==
    ASSUME NotesInv, MemoryTypes', C!FileInv, CacheWriteFails \/ DiskDamages
    PROVE  NotesInv'
<1>1. CASE UNCHANGED cacheFile
  BY <1>1, AsideNotes DEF DiskDamages, CacheWriteFails, memory, history
<1>2. CASE C!WriteFails \/ C!Damaged
  <2>1. C!Idle' /\ Disk' \intersect Caches \subseteq Disk
    BY <1>2, CacheWriteBreaksOff, DamageAddsNothing
  <2>2. /\ Own' = Own /\ Backups' = Backups
        /\ UNCHANGED <<now, running, cache, saved, excused>>
    BY DEF CacheWriteFails, DiskDamages, memory, supervisor, history, Own, Backups
  <2>3. MemoryNotes'
    BY <2>1, <2>2 DEF NotesInv, MemoryNotes
  <2>4. DiskNotes'
    BY <2>1, <2>2 DEF NotesInv, DiskNotes, Good
  <2> QED BY <2>3, <2>4 DEF NotesInv
<1> QED BY <1>1, <1>2 DEF CacheWriteFails, DiskDamages

(* The add-on stops: what the saved cache lacks is excused.                  *)
LEMMA StopNotes ==
    ASSUME NotesInv, MemoryTypes', C!FileInv, Stops \/ StartFails
    PROVE  NotesInv'
<1>1. /\ running /\ ~running' /\ cache' = EmptyCache
      /\ excused' = excused \union Missing(saved, Own)
      /\ UNCHANGED <<now, saved>> /\ now \in Nat
      /\ Own' = Own /\ Backups' = Backups /\ Own \in SUBSET Slugs
      /\ (C!Idle /\ UNCHANGED cacheFile) \/ C!WriteFails
  <2>1. Ends /\ ((C!Idle /\ UNCHANGED cacheFile) \/ C!WriteFails)
    BY DEF Stops, StartFails
  <2>2. running
    BY DEF Stops, StartFails, C!WriteFails, NotesInv, MemoryNotes
  <2> QED BY <2>1, <2>2
          DEF Ends, supervisor, Own, Backups, Unnoted, Missing, NotesInv, MemoryTypes
<1>2. C!Idle' /\ Disk' = Disk
  BY <1>1, CacheWriteBreaksOff DEF C!Idle, Disk
<1>3. ASSUME NEW c, Sound(c, Backups, Own, excused)
      PROVE  Sound(c, Backups, Own, excused')
  BY <1>1, <1>3 DEF Sound
<1>4. MemoryNotes'
  BY <1>1, <1>2, <1>3, EmptyIsSound DEF NotesInv, MemoryNotes
<1>5. DiskNotes'
  BY <1>1, <1>2, <1>3 DEF NotesInv, DiskNotes, Good
<1> QED BY <1>4, <1>5 DEF NotesInv

(* Both files are gone: nothing is kept, and all there was is excused.       *)
LEMMA EmptyStartNotes ==
    ASSUME NotesInv, MemoryTypes', C!FileInv, StartsEmpty
    PROVE  NotesInv'
<1>1. Fresh(EmptyCache) = EmptyCache
  BY DEF Fresh, EmptyCache
<1>2. BothGone
  BY ReadIsOnDisk DEF StartsEmpty
<1>3. /\ C!Write(EmptyCache) /\ cache' = EmptyCache /\ saved' = EmptyCache /\ running'
      /\ excused' = excused \union Missing(EmptyCache, Own)
      /\ Own' = Own /\ Backups' = Backups /\ now' = now
      /\ Own \in SUBSET Slugs /\ now \in Nat
  BY <1>1, <1>2
     DEF StartsEmpty, Saves, supervisor, Own, Backups, Unnoted, Missing, NotesInv, MemoryTypes
<1>4. ~C!Idle' /\ cacheFile'.writing = cache' /\ Disk' \intersect Caches \subseteq Disk
  BY <1>3, EmptyIsCache, CacheWriteStarts
<1>5. Disk \intersect Caches = {}
  BY <1>2, StoredAssumption DEF BothGone, Disk
<1>6. Keeps(EmptyCache, EmptyCache, now)
  BY DEF Keeps, EmptyCache
<1>7. MemoryNotes'
  BY <1>3, <1>4, <1>6, EmptyIsSound DEF MemoryNotes
<1>8. DiskNotes'
  BY <1>4, <1>5 DEF DiskNotes
<1> QED BY <1>7, <1>8 DEF NotesInv

(* A cache on the disk is loaded, and may be saved at once.                  *)
LEMMA StartNotes ==
    ASSUME NotesInv, MemoryTypes', C!FileInv, StartsAndSaves \/ StartsAgain
    PROVE  NotesInv'
<1> DEFINE c == C!Read
<1>1. /\ ~running /\ running' /\ c \in Caches /\ UNCHANGED <<now, saved>>
      /\ Own' = Own /\ Backups' = Backups /\ Own \in SUBSET Slugs
      /\ saved \in Caches /\ now \in Nat
  BY DEF StartsAndSaves, StartsAgain, supervisor, Own, Backups, NotesInv, MemoryTypes
<1>2. C!Idle
  BY <1>1 DEF NotesInv, MemoryNotes
<1>3. Good(c) /\ Missing(c, Own) \subseteq excused
  BY <1>1, ReadIsOnDisk DEF NotesInv, DiskNotes
<1>4. CASE StartsAgain
  <2>1. cache' = c /\ UNCHANGED <<cacheFile, excused>>
    BY <1>4 DEF StartsAgain
  <2>2. Disk' = Disk /\ C!Idle'
    BY <1>2, <2>1 DEF Disk, C!Idle
  <2>3. MemoryNotes'
    BY <1>1, <1>3, <2>1, <2>2 DEF NotesInv, MemoryNotes, Good
  <2>4. DiskNotes'
    BY <1>1, <2>1, <2>2 DEF NotesInv, DiskNotes, Good
  <2> QED BY <2>3, <2>4 DEF NotesInv
<1>5. CASE StartsAndSaves
  <2>1. /\ cache' = Fresh(c) /\ C!Write(Fresh(c)) /\ Fresh(c) \in Caches
        /\ excused' = excused \union Loses(Fresh(c), c)
    BY <1>1, <1>5, FreshIsCache DEF StartsAndSaves, Saves
  <2>2. ~C!Idle' /\ cacheFile'.writing = cache' /\ Disk' \intersect Caches \subseteq Disk
    BY <2>1, CacheWriteStarts
  <2>3. ASSUME NEW d \in Caches, Sound(d, Backups, Own, excused)
        PROVE  Sound(d, Backups, Own, excused')
    BY <2>1, <2>3 DEF Sound
  <2>4. /\ Sound(cache', Backups, Own, excused') /\ Past(cache', now)
        /\ Keeps(cache', saved, now)
    <3> HIDE DEF c
    <3> QED BY <1>1, <1>3, <2>1, <2>3, FreshIsSound, FreshKeeps DEF Good
  <2>5. Missing(cache', Own) \subseteq excused'
    BY <1>3, <2>1 DEF Missing, Loses, Unnoted, Own
  <2>6. MemoryNotes'
    BY <1>1, <2>2, <2>3, <2>4, <2>5 DEF NotesInv, MemoryNotes
  <2>7. DiskNotes'
    BY <1>1, <2>1, <2>2, <2>3 DEF NotesInv, DiskNotes, Good
  <2> QED BY <2>6, <2>7 DEF NotesInv
<1> QED BY <1>4, <1>5

LEMMA NotesKept ==
    ASSUME NotesInv, C!FileInv, K!FileInv, [Next]_vars
    PROVE  NotesInv'
<1>0. MemoryTypes'
  BY TypesKept DEF NotesInv
<1>1. CASE \E s \in Slugs : RequestBackup(s) \/ OtherBackup(s)
  BY <1>0, <1>1, RequestNotes, OthersNotes
<1>2. CASE BackupDone \/ ListBackups \/ DayPasses
  BY <1>0, <1>2, BuiltNotes, ListedNotes, DayNotes
<1>3. CASE SaveIfDirty \/ CacheWriteGoesOn
  BY <1>0, <1>3, SaveNotes, WritingNotes
<1>4. CASE Stops \/ StartFails \/ Starts
  BY <1>0, <1>4, StopNotes, EmptyStartNotes, StartNotes DEF Starts
<1>5. CASE CacheWriteFails \/ DiskDamages
  BY <1>0, <1>5, FaultNotes
<1>6. CASE \/ \E a \in Accounts : SaveCredentials(a)
           \/ CredsWriteGoesOn \/ CredsWriteFails \/ BeginRefresh \/ Refreshed
           \/ UNCHANGED vars
  BY <1>0, <1>6, AsideNotes
     DEF SaveCredentials, CredsWriteGoesOn, CredsWriteFails, BeginRefresh, Refreshed,
         vars, memory, history
<1> QED BY <1>1, <1>2, <1>3, <1>4, <1>5, <1>6 DEF Next

-----------------------------------------------------------------------------
(* Types, and what the two copies of each file hold at each stage of a       *)
(* write, for any backups, accounts and number of stops.                     *)
LEMMA StoredFiles == Spec => [](C!FileInv /\ K!FileInv)
<1>1. CP!FileSpec => []CP!FileInv
  BY CP!FileInvariant, ConstantsFit
<1>2. KP!FileSpec => []KP!FileInv
  BY KP!FileInvariant, ConstantsFit
<1>3. CP!FileInv /\ KP!FileInv => C!FileInv /\ K!FileInv
  BY SameInv
<1> QED BY <1>1, <1>2, <1>3, FilesAreUsedAsFiles, SameFiles, PTL

LEMMA NotesInvariant == Spec => []NotesInv
<1>1. NotesInv /\ C!FileInv /\ K!FileInv /\ [Next]_vars => NotesInv'
  BY NotesKept
<1> QED BY <1>1, NotesStart, StoredFiles, PTL DEF Spec

(* The state on the disk and in memory is what its types and the two files'  *)
(* invariants say.                                                           *)
THEOREM StoredInvariant == Spec => []StoredInv
<1>1. NotesInv /\ C!FileInv /\ K!FileInv => StoredInv
  BY DEF NotesInv, MemoryTypes, StoredInv
<1> QED BY <1>1, NotesInvariant, StoredFiles, PTL

(* What a complete save wrote about a backup is there whenever the add-on    *)
(* runs, whatever writes broke off and whatever was damaged since, until the *)
(* backup was not seen for Expiration days or both files are gone.           *)
THEOREM SavedStays == Spec => []SavedIsKept
<1>1. NotesInv => SavedIsKept
  BY DEF NotesInv, MemoryNotes, Keeps, SavedIsKept
<1> QED BY <1>1, NotesInvariant, PTL

(* No backup the add-on made is taken for somebody else's but those whose    *)
(* request failed, was overwritten, or was not saved before a restart, those *)
(* not seen for Expiration days when the cache was saved, and those whose    *)
(* notes went with both files.                                               *)
THEOREM OwnBackupsKnown == Spec => []OwnIsKnown
<1>1. NotesInv => OwnIsKnown
  BY DEF NotesInv, MemoryNotes, Sound, Own, OwnIsKnown
<1> QED BY <1>1, NotesInvariant, PTL

-----------------------------------------------------------------------------
(* The credentials in memory are those of the file while nothing has gone    *)
(* wrong with it and no refresh was overtaken: one that is awaited then      *)
(* brings back the ones it began with, and cannot begin while they are being *)
(* replaced.                                                                 *)
Stored == IF K!Read \in Accounts THEN K!Read ELSE None

CredsInv ==
    /\ running /\ ~overtaken /\ refreshing # None => K!Idle /\ refreshing = creds
    /\ running /\ ~overtaken /\ K!Idle /\ K!Whole => creds = Stored
    /\ ~running => K!Idle /\ refreshing = None

LEMMA CredsKept ==
    ASSUME CredsInv, MemoryTypes, K!FileInv, [Next]_vars
    PROVE  CredsInv'
<1> USE DEF CredsInv, MemoryTypes, memory, history
<1>1. CASE UNCHANGED <<credsFile, running, creds, refreshing, overtaken>>
  BY <1>1 DEF Stored, K!Read, K!Idle, K!Whole
<1>2. CASE \E a \in Accounts : SaveCredentials(a)
  <2>1. ~K!Idle'
    BY <1>2 DEF SaveCredentials, K!Write, K!Idle, K!FileInv, K!FileType
  <2>2. running' /\ refreshing' = refreshing
    BY <1>2 DEF SaveCredentials, Quiet
  <2>3. overtaken' <=> refreshing # None
    BY <1>2 DEF SaveCredentials
  <2> QED BY <2>1, <2>2, <2>3
<1>3. CASE CredsWriteGoesOn
  <2>1. ~K!Idle /\ running /\ running' /\ refreshing' = refreshing /\ overtaken' = overtaken
    BY <1>3 DEF CredsWriteGoesOn, K!Continues, K!CopyWritten, K!MainOpened, K!MainWritten, K!Idle
  <2>2. CASE K!MainWritten
    <3>1. /\ creds' = credsFile.writing /\ credsFile.writing \in Accounts
          /\ K!Read' = credsFile.writing
      <4>1. credsFile'.main = credsFile.writing /\ credsFile.writing \in Accounts
        BY <2>2 DEF K!MainWritten, K!Idle, K!FileInv, K!FileType
      <4> QED BY <1>3, <2>2, <4>1, StoredAssumption DEF CredsWriteGoesOn, LoadsCredentials, K!Read
    <3> QED BY <2>1, <3>1 DEF Stored
  <2>3. CASE ~K!MainWritten
    <3>1. ~K!Idle'
      BY <1>3, <2>3
         DEF CredsWriteGoesOn, K!Continues, K!CopyWritten, K!MainOpened, K!Idle, K!FileInv, K!FileType
    <3> QED BY <2>1, <3>1
  <2> QED BY <2>2, <2>3
<1>4. CASE CredsWriteFails
  <2>1. ~K!Idle /\ ~K!Whole' /\ UNCHANGED <<running, creds, refreshing, overtaken>>
    BY <1>4 DEF CredsWriteFails, K!WriteFails, K!Idle, K!Whole, K!FileInv, K!FileType
  <2> QED BY <2>1
<1>5. CASE BeginRefresh \/ Refreshed
  BY <1>5 DEF BeginRefresh, Refreshed, Quiet, Stored, K!Read, K!Idle, K!Whole
<1>6. CASE Stops \/ StartFails
  <2>1. K!Idle'
    BY <1>6 DEF Stops, StartFails, K!WriteFails, K!Idle, K!FileInv, K!FileType
  <2> QED BY <1>6, <2>1 DEF Stops, StartFails, Ends
<1>7. CASE Starts
  BY <1>7 DEF Starts, StartsEmpty, StartsAndSaves, StartsAgain, LoadCredentials,
              Stored, K!Read, K!Idle, K!Whole
<1>8. CASE DiskDamages /\ K!Damaged
  <2>1. /\ K!Idle /\ K!Idle' /\ ~K!Whole'
        /\ UNCHANGED <<running, creds, refreshing, overtaken>>
    BY <1>8 DEF DiskDamages, K!Damaged, K!Idle, K!Whole, K!FileInv, K!FileType
  <2> QED BY <2>1
<1>9. CASE \/ \E s \in Slugs : RequestBackup(s) \/ OtherBackup(s)
           \/ BackupDone \/ ListBackups
           \/ SaveIfDirty \/ CacheWriteGoesOn \/ CacheWriteFails
           \/ (DiskDamages /\ ~K!Damaged) \/ DayPasses
           \/ UNCHANGED vars
  BY <1>1, <1>9
     DEF RequestBackup, OtherBackup, BackupDone, ListBackups, SaveIfDirty, CacheWriteGoesOn,
         CacheWriteFails, DiskDamages, DayPasses, vars
<1> QED BY <1>2, <1>3, <1>4, <1>5, <1>6, <1>7, <1>8, <1>9 DEF Next

(* DriveRequests works with the credentials last saved, but for a save that  *)
(* failed or that overtook a refresh.                                        *)
THEOREM CredentialsAsSaved == Spec => []CredsAsSaved
<1>1. Init => CredsInv
  BY DEF Init, CredsInv, K!FileInit, K!NewFile, K!Idle
<1>2. CredsInv /\ NotesInv /\ K!FileInv /\ [Next]_vars => CredsInv'
  BY CredsKept DEF NotesInv
<1>3. CredsInv => CredsAsSaved
  BY DEF CredsInv, CredsAsSaved, Stored, Quiet
<1> QED BY <1>1, <1>2, <1>3, NotesInvariant, StoredFiles, PTL DEF Spec
=============================================================================
