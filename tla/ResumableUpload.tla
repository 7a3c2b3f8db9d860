--------------------------- MODULE ResumableUpload ---------------------------
(***************************************************************************)
(* DriveRequests.create and the retries under it                           *)
(* (drive/driverequests.py): a backup is sent to Google Drive in chunks,   *)
(* through an upload session that Drive keeps.  An attempt that fails      *)
(* leaves the session's address in memory, and the next attempt asks Drive *)
(* how much it has and continues there, if it is still about the same      *)
(* metadata.                                                               *)
(*                                                                         *)
(* Drive is external: it appends the bytes it is sent to the session,      *)
(* possibly fewer than it was sent, and makes a file of a session that     *)
(* has all its bytes.  A request may be carried out although its answer is *)
(* lost, also long after its sender has given up: `flying' holds those.    *)
(***************************************************************************)
EXTENDS Naturals, Sequences, FiniteSets

CONSTANTS
    Backups,        \* the backups Home Assistant holds
    NoMeta,         \* Python's None, where metadata could be
    Size,           \* the length of a backup, in units of BASE_CHUNK_SIZE
    MaxChunk,       \* MAXIMUM_UPLOAD_CHUNK_BYTES, in the same units
    RetryAttempts,  \* RETRY_SESSION_ATTEMPTS
    MaxRetries,     \* DRIVE_MAX_RETRIES
    Failures,       \* how Drive may fail a session: see SessionFails
    MaxNotes,       \* bound: how often the note of a backup is changed
    MaxFaults       \* bound: faults of the network, of Drive and of the add-on

(* What identifies a backup in file_metadata, and what a user may change.  *)
Meta == [backup : Backups, note : 0..MaxNotes]

ASSUME UploadAssumption ==
    /\ Size \in Nat \ {0}
    /\ MaxChunk \in Nat \ {0}
    /\ RetryAttempts \in Nat
    /\ MaxRetries \in Nat
    /\ Failures \subseteq {"gone", "broken", "mute"}
    /\ MaxNotes \in Nat
    /\ MaxFaults \in Nat
    /\ NoMeta \notin Meta

VARIABLES
    note,       \* the note of each backup, a part of its metadata
    phase,      \* where `create' is: "idle" when no upload runs
    job,        \* the metadata `create' was called with
    location,   \* its local variable: the session in use, 0 is None
    position,   \* stream.position()
    chunk,      \* current_chunk_size
    tries,      \* the counter of retryRequest's Backoff
    last,       \* the last_attempt_ fields
    sessions,   \* Drive's upload sessions, in the order they were started
    flying,     \* chunks sent whose answer was lost
    landed,     \* history: files finished by a chunk of an upload given up
    faults      \* the faults that have happened

client == <<phase, job, location, position, chunk, tries>>
vars == <<note, client, last, sessions, flying, landed, faults>>

-----------------------------------------------------------------------------
(* Drive.                                                                  *)

(* A session: its metadata, whose byte it has at each place, and which one *)
(* that is, and whether it still is a session.                             *)
Session == [meta : Meta, bytes : Seq(Backups \X Nat),
            state : {"open", "finished", "gone", "broken", "mute"}]

NewSession(m) == [meta |-> m, bytes |-> <<>>, state |-> "open"]

Has(s) == Len(sessions[s].bytes)

(* Drive makes a file of a finished session, with the session's metadata.  *)
FilesOf(b) == {s \in DOMAIN sessions :
                 sessions[s].state = "finished" /\ sessions[s].meta.backup = b}

(* The chunk read from the stream: its first byte is the one at `position'.*)
ChunkEnd == IF position + chunk < Size THEN position + chunk ELSE Size

SentChunk == [session |-> location,
              start |-> position,
              end |-> ChunkEnd,
              data |-> [i \in (position + 1)..ChunkEnd |-> <<job.backup, i - 1>>],
              left |-> FALSE]

(* How much an open session may have once chunk c was appended to it: some *)
(* of what is new in c, or, when nothing is, what it had.                  *)
Takes(c) == IF Has(c.session) < c.end THEN (Has(c.session) + 1)..c.end
                                      ELSE {Has(c.session)}

Appended(c, to) ==
    [sessions EXCEPT ![c.session] =
       [meta  |-> @.meta,
        bytes |-> [i \in 1..to |-> IF i <= Len(@.bytes) THEN @.bytes[i] ELSE c.data[i]],
        state |-> IF to = Size THEN "finished" ELSE @.state]]

-----------------------------------------------------------------------------
(* What the add-on remembers between attempts.                             *)

NoMemory == [location |-> 0, meta |-> NoMeta, count |-> 0, old |-> FALSE]

Forgotten == [last EXCEPT !.location = 0, !.meta = NoMeta]

\* (slip) the metadata of the last attempt is not compared
ResumableForAny(m) == last.location # 0 /\ last.count < RetryAttempts /\ ~last.old

\* (slip) only the backup is compared, not what else the metadata holds
ResumableForSameBackup(m) == ResumableForAny(m) /\ m.backup = last.meta.backup

Resumable(m) ==
    /\ m = last.meta
    /\ last.location # 0
    /\ last.count < RetryAttempts
    /\ ~last.old

-----------------------------------------------------------------------------
(* One attempt ends: the stream is closed and the local variables are gone.*)

Ends ==
    /\ phase' = "idle" /\ job' = NoMeta /\ location' = 0
    /\ position' = 0 /\ chunk' = 1 /\ tries' = 0

(* What it had in flight may still arrive.                                 *)
Left(chunks) == {[c EXCEPT !.left = TRUE] : c \in chunks}

\* (slip) attempts to resume are not counted
CountNothing == UNCHANGED last

(* An attempt that resumes is counted when it starts.                      *)
CountResume == last' = [last EXCEPT !.count = @ + 1]

(* DriveSource.save in a sync: a backup that the listing of Drive does not *)
(* show is uploaded.                                                       *)
BeginUpload(b) ==
    LET m == [backup |-> b, note |-> note[b]] IN
    /\ phase = "idle"
    /\ FilesOf(b) = {}
    /\ job' = m
    /\ \/ Resumable(m) /\ phase' = "query" /\ CountResume
       \/ ~Resumable(m) /\ phase' = "start" /\ UNCHANGED last
    /\ UNCHANGED <<note, location, position, chunk, tries, sessions, flying, landed, faults>>

(* The session is used from its byte `from' on, with the smallest chunk,   *)
(* and remembered for the next attempt.                                    *)
Uses(s, from, count) ==
    /\ phase' = "chunk" /\ location' = s /\ position' = from /\ chunk' = 1 /\ tries' = 0
    /\ last' = [location |-> s, meta |-> job, count |-> count, old |-> FALSE]
    /\ UNCHANGED job

(* PUT bytes */total: Drive says what it has (308), that the session is    *)
(* done (200, and a new one is started), or that there is none (404, 410). *)
QueryAnswered ==
    LET s == last.location IN
    /\ phase = "query"
    /\ \/ sessions[s].state \in {"open", "mute"} /\ Uses(s, Has(s), last.count)
       \/ /\ sessions[s].state = "finished"
          /\ phase' = "start" /\ tries' = 0
          /\ UNCHANGED <<job, location, position, chunk, last>>
       \/ sessions[s].state \in {"finished", "gone"} /\ Ends /\ last' = Forgotten
    /\ UNCHANGED <<note, sessions, flying, landed, faults>>

(* POST of the metadata, answered with the address of a new session.       *)
SessionStarts ==
    /\ phase = "start"
    /\ sessions' = Append(sessions, NewSession(job))
    /\ Uses(Len(sessions) + 1, 0, 0)
    /\ UNCHANGED <<note, flying, landed, faults>>

\* (slip) one is added to a position that has it added already
ChunkTakenOffByOne(to) ==
    /\ sessions' = Appended(SentChunk, to)
    /\ tries' = 0 /\ UNCHANGED <<job, location>>
    /\ \/ /\ to < Size /\ phase' = "chunk"
          /\ position' = to + 1 /\ chunk' \in 1..MaxChunk
          /\ last' = [last EXCEPT !.count = 1]
       \/ /\ to = Size /\ phase' = "get"
          /\ UNCHANGED <<position, chunk>>
          /\ last' = [Forgotten EXCEPT !.count = 1]

(* PUT of a chunk: Drive took some of it (308), has the whole backup (200),*)
(* or refuses it: the session is gone, or the chunk is not the next one.   *)
\* The session survives the attempt unless it was answered 4XX.
ChunkTaken(to) ==
    /\ sessions' = Appended(SentChunk, to)
    /\ tries' = 0 /\ UNCHANGED <<job, location>>
    /\ \/ /\ to < Size /\ phase' = "chunk"
          /\ position' = to /\ chunk' \in 1..MaxChunk
          /\ last' = [last EXCEPT !.count = 1]
       \/ /\ to = Size /\ phase' = "get"
          /\ UNCHANGED <<position, chunk>>
          /\ last' = [Forgotten EXCEPT !.count = 1]

ChunkAnswered ==
    /\ phase = "chunk"
    /\ \/ sessions[location].state = "open" /\ \E to \in Takes(SentChunk) : ChunkTaken(to)
       \/ /\ sessions[location].state = "finished"
          /\ phase' = "get" /\ tries' = 0
          /\ last' = [Forgotten EXCEPT !.count = 1]
          /\ UNCHANGED <<job, location, position, chunk, sessions>>
       \/ /\ \/ sessions[location].state \in {"finished", "gone"}
             \/ sessions[location].state = "open" /\ position < Has(location)
          /\ Ends /\ last' = Forgotten /\ UNCHANGED sessions
    /\ flying' = IF phase' = "idle" THEN Left(flying) ELSE flying
    /\ UNCHANGED <<note, landed, faults>>

(* A chunk is answered 308 without a Range, that is, Drive has nothing:    *)
(* the attempt ends, after the count of the attempts has been set back.    *)
ChunkUnacknowledged ==
    /\ phase = "chunk"
    /\ \/ sessions[location].state = "mute" /\ UNCHANGED faults
       \/ /\ sessions[location].state = "open" /\ Has(location) = 0
          /\ faults < MaxFaults /\ faults' = faults + 1
    /\ Ends /\ last' = [last EXCEPT !.count = 1]
    /\ flying' = Left(flying)
    /\ UNCHANGED <<note, sessions, landed>>

(* The object of the new file was read: the upload is done.                *)
FileRead ==
    /\ phase = "get"
    /\ Ends
    /\ UNCHANGED <<note, last, sessions, flying, landed, faults>>

-----------------------------------------------------------------------------
(* Faults.                                                                 *)

(* A request to a broken session fails for that reason, any other one      *)
(* because of a fault of its own.                                          *)
Used == IF phase = "query" THEN last.location ELSE location

Fault ==
    \/ /\ phase \in {"query", "chunk"} /\ sessions[Used].state = "broken"
       /\ UNCHANGED faults
    \/ faults < MaxFaults /\ faults' = faults + 1

Flying == IF phase = "chunk" THEN flying \union {SentChunk} ELSE flying

\* (slip) a chunk that met an error is sent again in a new session
ResendAfresh == phase' = "start" /\ UNCHANGED <<job, location, position, chunk>>

(* retryRequest sends the same request again                               *)
Resend == UNCHANGED <<phase, job, location, position, chunk>>

(* at once, and without counting it, when Drive turned it down because the *)
(* access token had expired,                                               *)
Renews ==
    /\ faults < MaxFaults /\ faults' = faults + 1
    /\ UNCHANGED <<tries, flying>>

(* and a limited number of times after a KnownTransient error,             *)
Counts ==
    /\ tries < MaxRetries
    /\ Fault
    /\ tries' = tries + 1 /\ flying' = Flying

Retries ==
    /\ phase # "idle"
    /\ Renews \/ Counts
    /\ Resend
    /\ UNCHANGED <<note, last, sessions, landed>>

(* and gives up after those, or at once for any other error or timeout, of *)
(* Drive or of the stream, and when the sync is cancelled.                 *)
GivesUp ==
    /\ phase # "idle"
    /\ Fault
    /\ Ends /\ flying' = Left(Flying)
    /\ UNCHANGED <<note, last, sessions, landed>>

(* The add-on restarts: what it remembers is in memory only.               *)
Restarts ==
    /\ faults < MaxFaults /\ faults' = faults + 1
    /\ Ends /\ flying' = Left(Flying) /\ last' = NoMemory
    /\ UNCHANGED <<note, sessions, landed>>

(* UPLOAD_SESSION_EXPIRATION_DURATION passes without an attempt.           *)
LongPause ==
    /\ phase = "idle" /\ last.location # 0 /\ ~last.old
    /\ faults < MaxFaults /\ faults' = faults + 1
    /\ last' = [last EXCEPT !.old = TRUE]
    /\ UNCHANGED <<note, client, sessions, flying, landed>>

(* Drive forgets an upload session, fails at every request to it, or takes *)
(* nothing more of it, and had nothing.                                    *)
SessionFails(s) ==
    /\ sessions[s].state = "open"
    /\ faults < MaxFaults /\ faults' = faults + 1
    /\ \E how \in Failures :
          /\ how = "mute" => Has(s) = 0
          /\ sessions' = [sessions EXCEPT ![s].state = how]
    /\ UNCHANGED <<note, client, last, flying, landed>>

(* A chunk whose answer was lost arrives, now or much later.               *)
Arrives(c) ==
    /\ flying' = flying \ {c}
    /\ \/ /\ sessions[c.session].state = "open" /\ Has(c.session) < c.end
          /\ \E to \in Takes(c) :
               /\ sessions' = Appended(c, to)
               /\ landed' = landed + (IF c.left /\ to = Size THEN 1 ELSE 0)
       \/ /\ ~(sessions[c.session].state = "open" /\ Has(c.session) < c.end)
          /\ UNCHANGED <<sessions, landed>>
    /\ UNCHANGED <<note, client, last, faults>>

(* The user changes the note of a backup, a part of its metadata.          *)
NoteChanges(b) ==
    /\ note[b] < MaxNotes
    /\ note' = [note EXCEPT ![b] = @ + 1]
    /\ UNCHANGED <<client, last, sessions, flying, landed, faults>>

-----------------------------------------------------------------------------
Init ==
    /\ note = [b \in Backups |-> 0]
    /\ phase = "idle" /\ job = NoMeta /\ location = 0 /\ position = 0
    /\ chunk = 1 /\ tries = 0
    /\ last = NoMemory
    /\ sessions = <<>> /\ flying = {} /\ landed = 0 /\ faults = 0

Uploads == (\E b \in Backups : BeginUpload(b)) \/ QueryAnswered \/ SessionStarts
           \/ ChunkAnswered \/ ChunkUnacknowledged \/ FileRead \/ Retries \/ GivesUp

Surroundings == Restarts \/ LongPause
                \/ (\E s \in DOMAIN sessions : SessionFails(s))
                \/ (\E c \in flying : Arrives(c))
                \/ (\E b \in Backups : NoteChanges(b))

Next == Uploads \/ Surroundings

Spec == Init /\ [][Next]_vars

(* Syncs go on being tried (SyncScheduler), and each request is answered   *)
(* or fails in the end; nothing says that a chunk in flight arrives.       *)
FairSpec == Spec /\ WF_vars(Uploads)

-----------------------------------------------------------------------------
(* Properties.                                                             *)

TypeOK ==
    /\ note \in [Backups -> 0..MaxNotes]
    /\ phase \in {"idle", "query", "start", "chunk", "get"}
    /\ job \in Meta \union {NoMeta} /\ (phase # "idle" => job \in Meta)
    /\ location \in Nat /\ position \in 0..Size /\ chunk \in 1..MaxChunk /\ tries \in 0..MaxRetries
    /\ last \in [location : 0..Len(sessions), meta : Meta \union {NoMeta},
                count : Nat, old : BOOLEAN]
    /\ sessions \in Seq(Session)
    /\ landed \in Nat /\ faults \in 0..MaxFaults

(* The session an upload works with is one of its own metadata, and it     *)
(* never sends a chunk that leaves a gap to what Drive has.                *)
OwnSession ==
    /\ phase = "query" => last.location # 0 /\ last.meta = job
    /\ phase \in {"chunk", "get"} => /\ location \in DOMAIN sessions
                                     /\ sessions[location].meta = job
    /\ phase = "chunk" => position < Size /\ position <= Has(location)
    /\ last.location # 0 => sessions[last.location].meta = last.meta

(* A session that is complete is not open any more, nor mute.              *)
OpenIsShort ==
    \A s \in DOMAIN sessions :
        Has(s) <= Size /\ (sessions[s].state \in {"open", "mute"} => Has(s) < Size)

(* Chunks in flight are of the session's own backup and leave no gap.      *)
OwnChunks ==
    \A c \in flying :
        /\ c = [session |-> c.session, start |-> c.start, end |-> c.end,
                data |-> c.data, left |-> c.left]
        /\ c.session \in DOMAIN sessions
        /\ c.start \in 0..Has(c.session) /\ c.end \in 0..Size
        /\ \A i \in (c.start + 1)..c.end :
               c.data[i] = <<sessions[c.session].meta.backup, i - 1>>

(* The inductive invariant of an upload: its types, that it works with a   *)
(* session of its own metadata, wherever that was found (a new session, or *)
(* the one an earlier attempt left), and that whatever chunk may arrive    *)
(* next, of this attempt or of one given up, continues what Drive has.     *)
UploadInv == TypeOK /\ OwnSession /\ OpenIsShort /\ OwnChunks

(* What Drive has of a session is the beginning of the backup named in its *)
(* metadata, each byte at its place, and a file is the whole backup, with  *)
(* attempts of several backups cut short and resumed and chunks sent twice *)
(* or arriving late (driverequests.py: create).                            *)
FilesWhole ==
    \A s \in DOMAIN sessions :
        /\ \A i \in 1..Has(s) : sessions[s].bytes[i] = <<sessions[s].meta.backup, i - 1>>
        /\ sessions[s].state = "finished" => Has(s) = Size

(* The file an upload reports is a file of the very metadata the upload    *)
(* was asked for, also when the note was changed between two attempts: the *)
(* metadata is the "fingerprint" of driverequests.py:286.                  *)
FileAsAsked ==
    phase = "get" => /\ sessions[location].state = "finished"
                     /\ sessions[location].meta = job

(* Lost answers, retries and restarts make no second file of a backup:     *)
(* that takes a chunk that arrives after its sender has given up, and each *)
(* of those makes one at most.                                             *)
OneFile == \A b \in Backups : Cardinality(FilesOf(b)) <= 1 + landed

(* Every backup gets to Drive in the end, whatever Drive forgets or breaks:*)
(* a session that always fails is given up after RetryAttempts attempts    *)
(* (driverequests.py:49-53), and one Drive does not know is forgotten.     *)
Delivered == \A b \in Backups : <>(FilesOf(b) # {})

(* A session is not resumed for ever, "so we don't retry the same broken   *)
(* session forever" (driverequests.py:49-50).                              *)
NotRetriedForever ==
    \A s \in 1..(MaxFaults + 1) : <>[]~(phase = "query" /\ last.location = s)
=============================================================================
