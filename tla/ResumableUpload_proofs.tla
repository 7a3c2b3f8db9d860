------------------------ MODULE ResumableUpload_proofs ------------------------
(* Proofs about ResumableUpload: an upload works with a session of its own   *)
(* metadata only, every file is the whole backup it is named for, the file   *)
(* an upload reports is the one it was asked for, and only a chunk that      *)
(* arrives after its sender has given up makes a second file of a backup.    *)
EXTENDS ResumableUpload, FiniteSetTheorems, TLAPS

(* The three safety properties support one another.                          *)
IInv == UploadInv /\ FilesWhole /\ FileAsAsked

(* What the record of a chunk says, for one sent now as for one in flight.   *)
OwnChunk(c) ==
    /\ c = [session |-> c.session, start |-> c.start, end |-> c.end,
            data |-> c.data, left |-> c.left]
    /\ c.session \in DOMAIN sessions
    /\ c.start \in 0..Has(c.session) /\ c.end \in 0..Size
    /\ \A i \in (c.start + 1)..c.end :
           c.data[i] = <<sessions[c.session].meta.backup, i - 1>>

-----------------------------------------------------------------------------
(* Sessions only grow: what a step may do to them.                           *)

SessionsFit ==
    /\ sessions \in Seq(Session)
    /\ OpenIsShort
    /\ FilesWhole

(* A session stays where it is, keeps its metadata and what it has, and      *)
(* stays finished when it is.                                                *)
Keeps(s) ==
    /\ sessions'[s].meta = sessions[s].meta
    /\ Has(s) <= Len(sessions'[s].bytes)
    /\ sessions[s].state = "finished" => sessions'[s].state = "finished"

Grows ==
    /\ Len(sessions) <= Len(sessions')
    /\ \A s \in DOMAIN sessions : s \in DOMAIN sessions' /\ Keeps(s)

LEMMA SameSessions == ASSUME SessionsFit, UNCHANGED sessions PROVE SessionsFit' /\ Grows
BY DEF SessionsFit, OpenIsShort, FilesWhole, Grows, Keeps, Has, Session

LEMMA AppendedFits ==
    ASSUME SessionsFit, UploadAssumption, NEW c, OwnChunk(c), sessions[c.session].state = "open",
           NEW to \in Takes(c), sessions' = Appended(c, to)
    PROVE  /\ SessionsFit' /\ Grows
           /\ to \in Nat /\ to <= Size /\ c.end <= Size
           /\ Len(sessions'[c.session].bytes) = to
           /\ sessions'[c.session].state = IF to = Size THEN "finished" ELSE "open"
<1> DEFINE k == c.session
           s == sessions[k]
           b == [i \in 1..to |-> IF i <= Len(s.bytes) THEN s.bytes[i] ELSE c.data[i]]
           t == [meta |-> s.meta, bytes |-> b, state |-> IF to = Size THEN "finished" ELSE s.state]
<1>1. /\ k \in DOMAIN sessions /\ s \in Session /\ s.state = "open"
      /\ Len(s.bytes) \in Nat /\ Len(s.bytes) < Size /\ Len(s.bytes) = Has(k)
  <2>1. k \in DOMAIN sessions /\ s.state = "open"
    BY DEF OwnChunk
  <2>2. s \in Session
    BY <2>1 DEF SessionsFit
  <2>3. Len(s.bytes) \in Nat
    BY <2>2 DEF Session
  <2>4. Len(s.bytes) = Has(k)
    BY DEF Has
  <2>5. Has(k) < Size
    BY <2>1 DEF SessionsFit, OpenIsShort
  <2> QED BY <2>1, <2>2, <2>3, <2>4, <2>5
<1>2. to \in Nat /\ to <= Size /\ Len(s.bytes) <= to /\ (to <= c.end \/ to = Len(s.bytes))
  BY <1>1 DEF Takes, OwnChunk, UploadAssumption, Has
<1>3. \A i \in 1..to : b[i] = <<s.meta.backup, i - 1>>
  <2> TAKE i \in 1..to
  <2>1. CASE i <= Len(s.bytes)
    BY <2>1, <1>1, <1>2 DEF SessionsFit, FilesWhole, Has
  <2>2. CASE ~(i <= Len(s.bytes))
    <3>1. i \in (c.start + 1)..c.end
      BY <2>2, <1>1, <1>2 DEF OwnChunk, UploadAssumption
    <3>2. c.data[i] = <<s.meta.backup, i - 1>>
      BY <3>1 DEF OwnChunk
    <3> QED BY <3>2, <2>2
  <2> QED BY <2>1, <2>2
<1>4. b \in Seq(Backups \X Nat) /\ Len(b) = to
  <2>1. s.meta.backup \in Backups
    BY <1>1 DEF Session, Meta
  <2>2. \A i \in 1..to : b[i] \in Backups \X Nat
    <3> TAKE i \in 1..to
    <3>1. i - 1 \in Nat
      BY <1>2
    <3>2. b[i] = <<s.meta.backup, i - 1>>
      BY <1>3
    <3> HIDE DEF b, s
    <3> QED BY <2>1, <3>1, <3>2
  <2>3. b \in [1..to -> Backups \X Nat]
    BY <2>2
  <2> QED BY <2>3, <1>2
<1>5. t \in Session
  BY <1>1, <1>4 DEF Session
<1>6. sessions' = [sessions EXCEPT ![k] = t]
  BY DEF Appended
<1>7. sessions' \in Seq(Session) /\ Len(sessions') = Len(sessions) /\ DOMAIN sessions' = DOMAIN sessions
  BY <1>1, <1>5, <1>6 DEF SessionsFit
<1>8. sessions'[k] = t /\ \A j \in DOMAIN sessions : j # k => sessions'[j] = sessions[j]
  BY <1>1, <1>6 DEF SessionsFit
<1>9. Grows
  <2> SUFFICES ASSUME NEW j \in DOMAIN sessions PROVE Keeps(j)
    BY <1>7 DEF Grows
  <2>1. CASE j = k
    BY <2>1, <1>1, <1>2, <1>4, <1>8 DEF Keeps, Has
  <2>2. CASE j # k
    <3>1. sessions[j] \in Session
      BY DEF SessionsFit
    <3>2. sessions'[j] = sessions[j] /\ Len(sessions[j].bytes) \in Nat
      BY <2>2, <1>8, <3>1 DEF Session
    <3> QED BY <3>2 DEF Keeps, Has
  <2> QED BY <2>1, <2>2
<1>10. OpenIsShort'
  <2> SUFFICES ASSUME NEW j \in DOMAIN sessions
               PROVE  Len(sessions'[j].bytes) <= Size
                      /\ (sessions'[j].state \in {"open", "mute"} => Len(sessions'[j].bytes) < Size)
    BY <1>7 DEF OpenIsShort, Has
  <2>1. CASE j = k
    BY <2>1, <1>1, <1>2, <1>4, <1>8 DEF UploadAssumption
  <2>2. CASE j # k
    BY <2>2, <1>8 DEF SessionsFit, OpenIsShort, Has
  <2> QED BY <2>1, <2>2
<1>11. FilesWhole'
  <2> SUFFICES ASSUME NEW j \in DOMAIN sessions
               PROVE  /\ \A i \in 1..Len(sessions'[j].bytes) :
                             sessions'[j].bytes[i] = <<sessions'[j].meta.backup, i - 1>>
                      /\ sessions'[j].state = "finished" => Len(sessions'[j].bytes) = Size
    BY <1>7 DEF FilesWhole, Has
  <2>1. CASE j = k
    BY <2>1, <1>1, <1>2, <1>3, <1>4, <1>8
  <2>2. CASE j # k
    BY <2>2, <1>8 DEF SessionsFit, FilesWhole, Has
  <2> QED BY <2>1, <2>2
<1> QED BY <1>1, <1>2, <1>4, <1>7, <1>8, <1>9, <1>10, <1>11 DEF SessionsFit, OwnChunk, UploadAssumption

-----------------------------------------------------------------------------
(* The invariant in the parts a step can disturb: what Drive has, what the   *)
(* add-on remembers, the attempt under way, and the chunks in flight.        *)

LastFits ==
    /\ last \in [location : 0..Len(sessions), meta : Meta \union {NoMeta},
                 count : Nat, old : BOOLEAN]
    /\ last.location # 0 => sessions[last.location].meta = last.meta

BoundsFit == note \in [Backups -> 0..MaxNotes] /\ landed \in Nat /\ faults \in 0..MaxFaults

JobFits ==
    /\ phase \in {"idle", "query", "start", "chunk", "get"}
    /\ job \in Meta \union {NoMeta} /\ (phase # "idle" => job \in Meta)
    /\ location \in Nat /\ position \in 0..Size /\ chunk \in 1..MaxChunk /\ tries \in 0..MaxRetries
    /\ phase = "query" => last.location # 0 /\ last.meta = job
    /\ phase \in {"chunk", "get"} => location \in DOMAIN sessions /\ sessions[location].meta = job
    /\ phase = "chunk" => position < Size /\ position <= Has(location)
    /\ phase = "get" => sessions[location].state = "finished"

LEMMA Parts ==
    /\ IInv <=> SessionsFit /\ LastFits /\ BoundsFit /\ JobFits /\ OwnChunks
    /\ IInv' <=> SessionsFit' /\ LastFits' /\ BoundsFit' /\ JobFits' /\ OwnChunks'
BY DEF IInv, UploadInv, TypeOK, OwnSession, FileAsAsked, SessionsFit, LastFits, BoundsFit, JobFits

(* What is remembered stays true when sessions grow.                         *)
LEMMA LastKept ==
    ASSUME SessionsFit, LastFits, Grows, NEW n \in Nat, NEW o \in BOOLEAN,
           \/ last' = [location |-> last.location, meta |-> last.meta, count |-> n, old |-> o]
           \/ last' = [last EXCEPT !.count = n, !.old = o]
           \/ last' = [Forgotten EXCEPT !.count = n, !.old = o]
           \/ last' = NoMemory,
           sessions' \in Seq(Session)
    PROVE  LastFits'
<1>a. Len(sessions) \in Nat
  BY DEF SessionsFit
<1>b. Len(sessions') \in Nat
  OBVIOUS
<1>c. Len(sessions) <= Len(sessions')
  BY DEF Grows
<1>1. CASE \/ last' = [location |-> last.location, meta |-> last.meta, count |-> n, old |-> o]
           \/ last' = [last EXCEPT !.count = n, !.old = o]
  <2>1. last.location # 0 => last.location \in DOMAIN sessions
    BY DEF LastFits, SessionsFit
  <2>2. last.location # 0 => sessions'[last.location].meta = last.meta
    BY <2>1 DEF LastFits, Grows, Keeps
  <2>3. last' = [location |-> last.location, meta |-> last.meta, count |-> n, old |-> o]
    BY <1>1 DEF LastFits
  <2>4. last.location \in 0..Len(sessions') /\ last.meta \in Meta \union {NoMeta}
    BY <1>a, <1>b, <1>c DEF LastFits
  <2> QED BY <2>2, <2>3, <2>4 DEF LastFits
<1>2. CASE last' = [Forgotten EXCEPT !.count = n, !.old = o]
  <2>1. last' = [location |-> 0, meta |-> NoMeta, count |-> n, old |-> o]
    BY <1>2 DEF LastFits, Forgotten
  <2> QED BY <2>1, <1>b DEF LastFits
<1>3. CASE last' = NoMemory
  BY <1>3, <1>b DEF LastFits, NoMemory
<1> QED BY <1>1, <1>2, <1>3

(* So does what a chunk in flight says.                                      *)
LEMMA ChunkKept ==
    ASSUME SessionsFit, sessions' \in Seq(Session), Grows, NEW c, OwnChunk(c)
    PROVE  OwnChunk(c)' /\ OwnChunk([c EXCEPT !.left = TRUE])'
<1>1. c.session \in DOMAIN sessions' /\ sessions'[c.session].meta = sessions[c.session].meta
  BY DEF Grows, Keeps, OwnChunk
<1>2. Has(c.session) \in Nat /\ Has(c.session)' \in Nat /\ Has(c.session) <= Has(c.session)'
  <2>1. sessions[c.session] \in Session /\ sessions'[c.session] \in Session
    BY <1>1 DEF SessionsFit, OwnChunk
  <2>2. Has(c.session) <= Has(c.session)'
    BY DEF Grows, Keeps, OwnChunk, Has
  <2> QED BY <2>1, <2>2 DEF Has, Session
<1>3. c.start \in 0..Has(c.session)'
  BY <1>2 DEF OwnChunk
<1>4. OwnChunk(c)'
  BY <1>1, <1>3 DEF OwnChunk
<1>5. ASSUME NEW d, d = [c EXCEPT !.left = TRUE] PROVE OwnChunk(d)'
  <2>1. d = [session |-> c.session, start |-> c.start, end |-> c.end, data |-> c.data, left |-> TRUE]
    BY <1>5 DEF OwnChunk
  <2>2. d.session = c.session /\ d.start = c.start /\ d.end = c.end /\ d.data = c.data /\ d.left = TRUE
    BY <2>1
  <2> HIDE <1>5
  <2> QED BY <1>4, <2>1, <2>2 DEF OwnChunk
<1> QED BY <1>4, <1>5

LEMMA ChunksKept ==
    ASSUME SessionsFit, sessions' \in Seq(Session), Grows, NEW C, \A c \in C : OwnChunk(c),
           \/ flying' \subseteq C
           \/ flying' \subseteq Left(C)
    PROVE  OwnChunks'
<1>1. \A c \in C : OwnChunk(c)' /\ OwnChunk([c EXCEPT !.left = TRUE])'
  BY ChunkKept
<1>2. \A c \in flying' : OwnChunk(c)'
  <2>1. CASE flying' \subseteq C
    BY <2>1, <1>1
  <2>2. CASE flying' \subseteq Left(C)
    <3> SUFFICES ASSUME NEW d \in flying' PROVE OwnChunk(d)'
      OBVIOUS
    <3>1. PICK c \in C : d = [c EXCEPT !.left = TRUE]
      BY <2>2 DEF Left
    <3> QED BY <3>1, <1>1
  <2> QED BY <2>1, <2>2
<1> QED BY <1>2 DEF OwnChunks, OwnChunk

(* The chunk that is sent continues what Drive has.                          *)
LEMMA SentIsOwn ==
    ASSUME UploadAssumption, SessionsFit, JobFits, phase = "chunk"
    PROVE  OwnChunk(SentChunk) /\ SentChunk.session = location
           /\ SentChunk.end \in 0..Size /\ position < SentChunk.end
<1>1. ChunkEnd \in 0..Size /\ position < ChunkEnd
  BY DEF JobFits, ChunkEnd, UploadAssumption
<1>2. location \in DOMAIN sessions /\ sessions[location].meta.backup = job.backup
      /\ position \in 0..Has(location)
  <2>1. sessions[location] \in Session
    BY DEF SessionsFit, JobFits
  <2>2. Has(location) \in Nat
    BY <2>1 DEF Session, Has
  <2> QED BY <2>2 DEF JobFits
<1> QED BY <1>1, <1>2 DEF OwnChunk, SentChunk

LEMMA FlyingIsOwn ==
    ASSUME UploadAssumption, SessionsFit, JobFits, OwnChunks
    PROVE  \A c \in Flying : OwnChunk(c)
<1>1. \A c \in flying : OwnChunk(c)
  BY DEF OwnChunks, OwnChunk
<1> QED BY <1>1, SentIsOwn DEF Flying

LEMMA SameChunks ==
    ASSUME UploadAssumption, SessionsFit, JobFits, OwnChunks, sessions' \in Seq(Session), Grows,
           \/ flying' \subseteq flying \/ flying' \subseteq Flying
           \/ flying' \subseteq Left(flying) \/ flying' \subseteq Left(Flying)
    PROVE  OwnChunks'
<1>1. \A c \in Flying : OwnChunk(c)
  BY FlyingIsOwn
<1>2. flying \subseteq Flying
  BY DEF Flying
<1>3. flying' \subseteq Flying \/ flying' \subseteq Left(Flying)
  BY <1>2 DEF Left
<1> QED BY <1>1, <1>3, ChunksKept

(* An attempt that is over, and one that goes on where it was.               *)
LEMMA EndsFits == ASSUME UploadAssumption, Ends PROVE JobFits'
BY DEF UploadAssumption, Ends, JobFits

LEMMA JobKept ==
    ASSUME SessionsFit, SessionsFit', JobFits, Grows, UNCHANGED <<phase, job, location, position, chunk>>,
           tries' \in 0..MaxRetries, last'.location = last.location, last'.meta = last.meta
    PROVE  JobFits'
<1>1. CASE phase \in {"chunk", "get"}
  <2>1. location \in DOMAIN sessions /\ location \in DOMAIN sessions' /\ Keeps(location)
    BY <1>1 DEF JobFits, Grows
  <2>2. Has(location) \in Nat /\ Has(location)' \in Nat
    <3>1. sessions[location] \in Session /\ sessions'[location] \in Session
      BY <2>1 DEF SessionsFit
    <3> QED BY <3>1 DEF Session, Has
  <2>3. Has(location) <= Has(location)'
    BY <2>1 DEF Keeps, Has
  <2>4. position <= Has(location) => position <= Has(location)'
    BY <2>2, <2>3 DEF JobFits
  <2> QED BY <1>1, <2>1, <2>4 DEF JobFits, Keeps
<1>2. CASE phase \notin {"chunk", "get"}
  BY <1>2 DEF JobFits
<1> QED BY <1>1, <1>2

-----------------------------------------------------------------------------
(* What happens to one of Drive's sessions.                                  *)

LEMMA StartedFits ==
    ASSUME UploadAssumption, SessionsFit, job \in Meta, sessions' = Append(sessions, NewSession(job))
    PROVE  /\ SessionsFit' /\ Grows
           /\ Len(sessions) + 1 \in DOMAIN sessions' /\ Len(sessions') = Len(sessions) + 1
           /\ sessions'[Len(sessions) + 1] = NewSession(job)
<1>1. NewSession(job) \in Session
  BY DEF NewSession, Session
<1>2. sessions \in Seq(Session) /\ Len(sessions) \in Nat /\ DOMAIN sessions = 1..Len(sessions)
  BY DEF SessionsFit
<1>3. /\ sessions' \in Seq(Session) /\ Len(sessions') = Len(sessions) + 1
      /\ DOMAIN sessions' = 1..(Len(sessions) + 1)
      /\ sessions'[Len(sessions) + 1] = NewSession(job)
      /\ \A j \in DOMAIN sessions : j \in DOMAIN sessions' /\ sessions'[j] = sessions[j]
  BY <1>1, <1>2
<1>4. \A j \in DOMAIN sessions' : j \in DOMAIN sessions \/ j = Len(sessions) + 1
  BY <1>2, <1>3
<1>5. NewSession(job).bytes = <<>> /\ NewSession(job).state = "open"
  BY DEF NewSession
<1>6. Grows
  <2> SUFFICES ASSUME NEW j \in DOMAIN sessions PROVE Keeps(j)
    BY <1>2, <1>3 DEF Grows
  <2>1. Len(sessions[j].bytes) \in Nat
    BY <1>2 DEF Session
  <2> QED BY <2>1, <1>3 DEF Keeps, Has
<1>7. OpenIsShort'
  BY <1>3, <1>4, <1>5 DEF SessionsFit, OpenIsShort, Has, UploadAssumption
<1>8. FilesWhole'
  BY <1>3, <1>4, <1>5 DEF SessionsFit, FilesWhole, Has
<1> QED BY <1>2, <1>3, <1>6, <1>7, <1>8 DEF SessionsFit

LEMMA FailedFits ==
    ASSUME SessionsFit, NEW s \in DOMAIN sessions, sessions[s].state = "open", NEW how \in {"gone", "broken", "mute"},
           sessions' = [sessions EXCEPT ![s].state = how]
    PROVE  SessionsFit' /\ Grows
<1>1. sessions \in Seq(Session) /\ sessions[s] \in Session
  BY DEF SessionsFit
<1>2. [sessions[s] EXCEPT !.state = how] \in Session
  BY <1>1 DEF Session
<1>3. sessions' \in Seq(Session) /\ Len(sessions') = Len(sessions) /\ DOMAIN sessions' = DOMAIN sessions
  BY <1>1, <1>2
<1>4. \A j \in DOMAIN sessions : sessions'[j] = IF j = s THEN [sessions[s] EXCEPT !.state = how] ELSE sessions[j]
  BY <1>1
<1>5. \A j \in DOMAIN sessions : /\ sessions'[j].meta = sessions[j].meta
                                 /\ sessions'[j].bytes = sessions[j].bytes
                                 /\ sessions'[j].state = IF j = s THEN how ELSE sessions[j].state
  BY <1>1, <1>4 DEF Session
<1>6. \A j \in DOMAIN sessions : Len(sessions[j].bytes) \in Nat
  BY <1>1 DEF Session
<1>7. Grows
  <2>1. Len(sessions) \in Nat
    BY <1>1
  <2> QED BY <2>1, <1>3, <1>5, <1>6 DEF Grows, Keeps, Has
<1>8. OpenIsShort'
  BY <1>3, <1>5 DEF SessionsFit, OpenIsShort, Has
<1>9. FilesWhole'
  BY <1>3, <1>5 DEF SessionsFit, FilesWhole, Has
<1> QED BY <1>3, <1>7, <1>8, <1>9 DEF SessionsFit

-----------------------------------------------------------------------------
(* One lemma for each action.                                                *)

LEMMA BeginUploadSafe ==
    ASSUME UploadAssumption, IInv, NEW b \in Backups, BeginUpload(b) PROVE IInv'
<1>1. SessionsFit /\ LastFits /\ BoundsFit /\ JobFits /\ OwnChunks
  BY Parts
<1>2. SessionsFit' /\ Grows
  BY <1>1, SameSessions DEF BeginUpload
<1>3. OwnChunks'
  BY <1>1, <1>2, SameChunks DEF BeginUpload, SessionsFit
<1>4. last' = last \/ last' = [last EXCEPT !.count = last.count + 1]
  BY DEF BeginUpload, CountResume
<1>5. LastFits' /\ last'.location = last.location /\ last'.meta = last.meta
  BY <1>1, <1>4 DEF LastFits, BeginUpload
<1>6. job' \in Meta
  BY <1>1 DEF BeginUpload, BoundsFit, Meta
<1>7. JobFits'
  BY <1>1, <1>5, <1>6 DEF BeginUpload, JobFits, Resumable
<1>8. BoundsFit'
  BY <1>1 DEF BeginUpload, BoundsFit
<1> QED BY <1>2, <1>3, <1>5, <1>7, <1>8, Parts

LEMMA QueryAnsweredSafe ==
    ASSUME UploadAssumption, IInv, QueryAnswered PROVE IInv'
<1>1. SessionsFit /\ LastFits /\ BoundsFit /\ JobFits /\ OwnChunks
  BY Parts
<1>2. SessionsFit' /\ Grows
  BY <1>1, SameSessions DEF QueryAnswered
<1>3. OwnChunks'
  BY <1>1, <1>2, SameChunks DEF QueryAnswered, SessionsFit
<1> DEFINE s == last.location
<1>4. /\ s \in DOMAIN sessions /\ sessions[s].meta = job /\ job \in Meta
      /\ Has(s) \in Nat /\ (sessions[s].state \in {"open", "mute"} => Has(s) < Size)
  <2>1. s \in DOMAIN sessions /\ sessions[s].meta = job /\ job \in Meta
    BY <1>1 DEF QueryAnswered, JobFits, LastFits, SessionsFit
  <2>2. sessions[s] \in Session
    BY <1>1, <2>1 DEF SessionsFit
  <2> QED BY <1>1, <2>1, <2>2 DEF Session, Has, SessionsFit, OpenIsShort
<1>5. LastFits' /\ JobFits'
  <2>1. CASE sessions[s].state \in {"open", "mute"} /\ Uses(s, Has(s), last.count)
    <3>1. PICK n \in Nat : n = last.count
      BY <1>1 DEF LastFits
    <3>2. last' = [location |-> last.location, meta |-> last.meta, count |-> n, old |-> FALSE]
      <4>1. last' = [location |-> s, meta |-> job, count |-> n, old |-> FALSE]
        BY <2>1, <3>1 DEF Uses
      <4>2. last.meta = job
        BY <1>1 DEF JobFits, QueryAnswered
      <4> QED BY <4>1, <4>2
    <3>3. LastFits'
      BY <1>1, <1>2, <3>2, LastKept DEF SessionsFit
    <3>4. JobFits'
      <4>1. phase' = "chunk" /\ location' = s /\ position' = Has(s) /\ chunk' = 1 /\ tries' = 0 /\ job' = job
        BY <2>1 DEF Uses
      <4>2. sessions' = sessions /\ Has(s) < Size
        BY <1>4, <2>1 DEF QueryAnswered
      <4>3. sessions'[location'].meta = job' /\ location' \in DOMAIN sessions' /\ location' \in Nat
        BY <1>1, <1>4, <4>1, <4>2 DEF SessionsFit
      <4>4. position' <= Has(location)' /\ position' \in 0..Size /\ position' < Size
        BY <1>4, <4>1, <4>2 DEF Has, UploadAssumption
      <4> QED BY <1>4, <4>1, <4>3, <4>4 DEF JobFits, UploadAssumption
    <3> QED BY <3>3, <3>4
  <2>2. CASE /\ sessions[s].state = "finished" /\ phase' = "start" /\ tries' = 0
             /\ UNCHANGED <<job, location, position, chunk, last>>
    <3>1. LastFits'
      BY <1>1, <2>2 DEF LastFits, QueryAnswered
    <3>2. JobFits'
      BY <1>1, <1>4, <2>2 DEF JobFits, QueryAnswered, UploadAssumption
    <3> QED BY <3>1, <3>2
  <2>3. CASE sessions[s].state \in {"finished", "gone"} /\ Ends /\ last' = Forgotten
    <3>1. last' = [Forgotten EXCEPT !.count = last.count, !.old = last.old]
      BY <2>3, <1>1 DEF Forgotten, LastFits
    <3>2. LastFits'
      BY <1>1, <1>2, <3>1, LastKept DEF LastFits, SessionsFit
    <3> QED BY <3>2, <2>3, EndsFits
  <2> QED BY <2>1, <2>2, <2>3 DEF QueryAnswered
<1>6. BoundsFit'
  BY <1>1 DEF QueryAnswered, BoundsFit
<1> QED BY <1>2, <1>3, <1>5, <1>6, Parts

LEMMA SessionStartsSafe ==
    ASSUME UploadAssumption, IInv, SessionStarts PROVE IInv'
<1>1. SessionsFit /\ LastFits /\ BoundsFit /\ JobFits /\ OwnChunks
  BY Parts
<1> DEFINE n == Len(sessions) + 1
<1>2. /\ SessionsFit' /\ Grows /\ n \in DOMAIN sessions' /\ Len(sessions') = n
      /\ sessions'[n] = NewSession(job) /\ job \in Meta
  BY <1>1, StartedFits DEF SessionStarts, JobFits
<1>3. OwnChunks'
  BY <1>1, <1>2, SameChunks DEF SessionStarts, SessionsFit
<1>4. n \in Nat /\ sessions'[n].meta = job /\ Len(sessions'[n].bytes) = 0
  BY <1>1, <1>2 DEF NewSession, SessionsFit
<1>5. LastFits'
  BY <1>2, <1>4 DEF SessionStarts, Uses, LastFits
<1>6. JobFits'
  BY <1>1, <1>2, <1>4 DEF SessionStarts, Uses, JobFits, Has, UploadAssumption
<1>7. BoundsFit'
  BY <1>1 DEF SessionStarts, BoundsFit
<1> QED BY <1>2, <1>3, <1>5, <1>6, <1>7, Parts

LEMMA ChunkAnsweredSafe ==
    ASSUME UploadAssumption, IInv, ChunkAnswered PROVE IInv'
<1>1. SessionsFit /\ LastFits /\ BoundsFit /\ JobFits /\ OwnChunks
  BY Parts
<1>2. phase = "chunk" /\ location \in DOMAIN sessions /\ sessions[location].meta = job /\ job \in Meta
  BY <1>1 DEF ChunkAnswered, JobFits
<1>3. last \in [location : 0..Len(sessions), meta : Meta \union {NoMeta}, count : Nat, old : BOOLEAN]
  BY <1>1 DEF LastFits
<1>4. /\ [Forgotten EXCEPT !.count = 1] = [Forgotten EXCEPT !.count = 1, !.old = last.old]
      /\ Forgotten = [Forgotten EXCEPT !.count = last.count, !.old = last.old]
      /\ [last EXCEPT !.count = 1] = [last EXCEPT !.count = 1, !.old = last.old]
  BY <1>3 DEF Forgotten
<1>5. SessionsFit' /\ Grows /\ JobFits'
      /\ last' \in {Forgotten, [last EXCEPT !.count = 1], [Forgotten EXCEPT !.count = 1]}
  <2>1. ASSUME sessions[location].state = "open", NEW to \in Takes(SentChunk), ChunkTaken(to)
        PROVE  /\ SessionsFit' /\ Grows /\ JobFits'
               /\ last' \in {[last EXCEPT !.count = 1], [Forgotten EXCEPT !.count = 1]}
    <3>1. PICK c : c = SentChunk
      OBVIOUS
    <3>2. OwnChunk(c) /\ c.session = location
      BY <1>1, <1>2, <3>1, SentIsOwn
    <3>3. /\ SessionsFit' /\ Grows /\ to \in Nat /\ to <= Size
          /\ Len(sessions'[location].bytes) = to
          /\ sessions'[location].state = IF to = Size THEN "finished" ELSE "open"
      BY <1>1, <2>1, <3>1, <3>2, AppendedFits DEF ChunkTaken
    <3>4. location \in DOMAIN sessions' /\ sessions'[location].meta = job
      BY <1>2, <3>3 DEF Grows, Keeps
    <3>5. JobFits'
      <4>1. CASE to < Size /\ phase' = "chunk" /\ position' = to /\ chunk' \in 1..MaxChunk
                 /\ last' = [last EXCEPT !.count = 1]
        BY <1>1, <1>2, <2>1, <3>3, <3>4, <4>1 DEF ChunkTaken, JobFits, Has, UploadAssumption
      <4>2. CASE to = Size /\ phase' = "get" /\ UNCHANGED <<position, chunk>>
        BY <1>1, <1>2, <2>1, <3>3, <3>4, <4>2 DEF ChunkTaken, JobFits, Has, UploadAssumption
      <4> QED BY <2>1, <4>1, <4>2 DEF ChunkTaken
    <3> QED BY <2>1, <3>3, <3>5 DEF ChunkTaken
  <2>2. ASSUME sessions[location].state = "finished", phase' = "get", tries' = 0,
               last' = [Forgotten EXCEPT !.count = 1],
               UNCHANGED <<job, location, position, chunk, sessions>>
        PROVE  SessionsFit' /\ Grows /\ JobFits'
    <3>1. SessionsFit' /\ Grows
      BY <1>1, <2>2, SameSessions
    <3>2. JobFits'
      BY <1>1, <1>2, <2>2 DEF JobFits, UploadAssumption
    <3> QED BY <3>1, <3>2
  <2>3. ASSUME Ends, UNCHANGED sessions PROVE SessionsFit' /\ Grows /\ JobFits'
    BY <1>1, <2>3, SameSessions, EndsFits
  <2> QED BY <2>1, <2>2, <2>3 DEF ChunkAnswered
<1>6. OwnChunks'
  <2>1. flying' = flying \/ flying' = Left(flying)
    BY DEF ChunkAnswered
  <2> QED BY <1>1, <1>5, <2>1, SameChunks DEF SessionsFit
<1>7. LastFits'
  BY <1>1, <1>3, <1>4, <1>5, LastKept DEF SessionsFit
<1>8. BoundsFit'
  BY <1>1 DEF ChunkAnswered, BoundsFit
<1> QED BY <1>5, <1>6, <1>7, <1>8, Parts

LEMMA ChunkUnacknowledgedSafe ==
    ASSUME UploadAssumption, IInv, ChunkUnacknowledged PROVE IInv'
<1>1. SessionsFit /\ LastFits /\ BoundsFit /\ JobFits /\ OwnChunks
  BY Parts
<1>2. SessionsFit' /\ Grows
  BY <1>1, SameSessions DEF ChunkUnacknowledged
<1>3. OwnChunks'
  BY <1>1, <1>2, SameChunks DEF ChunkUnacknowledged, SessionsFit
<1>4. last' = [last EXCEPT !.count = 1, !.old = last.old]
  BY <1>1 DEF ChunkUnacknowledged, LastFits
<1>5. LastFits'
  BY <1>1, <1>2, <1>4, LastKept DEF SessionsFit, LastFits
<1>6. BoundsFit'
  BY <1>1 DEF ChunkUnacknowledged, BoundsFit, UploadAssumption
<1>7. JobFits'
  BY EndsFits DEF ChunkUnacknowledged
<1> QED BY <1>2, <1>3, <1>5, <1>6, <1>7, Parts

LEMMA FileReadSafe ==
    ASSUME UploadAssumption, IInv, FileRead PROVE IInv'
<1>1. SessionsFit /\ LastFits /\ BoundsFit /\ JobFits /\ OwnChunks
  BY Parts
<1>2. SessionsFit' /\ Grows
  BY <1>1, SameSessions DEF FileRead
<1>3. OwnChunks' /\ LastFits' /\ BoundsFit'
  BY <1>1, <1>2, SameChunks DEF FileRead, SessionsFit, LastFits, BoundsFit
<1>4. JobFits'
  BY EndsFits DEF FileRead
<1> QED BY <1>2, <1>3, <1>4, Parts

LEMMA RetriesSafe ==
    ASSUME UploadAssumption, IInv, Retries PROVE IInv'
<1>1. SessionsFit /\ LastFits /\ BoundsFit /\ JobFits /\ OwnChunks
  BY Parts
<1>2. SessionsFit' /\ Grows
  BY <1>1, SameSessions DEF Retries
<1>3. OwnChunks'
  BY <1>1, <1>2, SameChunks DEF Retries, Renews, Counts, SessionsFit
<1>4. LastFits'
  BY <1>1 DEF Retries, LastFits
<1>5. BoundsFit'
  BY <1>1, UploadAssumption DEF Retries, Renews, Counts, Fault, BoundsFit, UploadAssumption
<1>6. tries' \in 0..MaxRetries
  BY <1>1 DEF Retries, Renews, Counts, JobFits, UploadAssumption
<1>7. JobFits'
  BY <1>1, <1>2, <1>6, JobKept DEF Retries, Resend
<1> QED BY <1>2, <1>3, <1>4, <1>5, <1>7, Parts

LEMMA GivesUpSafe ==
    ASSUME UploadAssumption, IInv, GivesUp PROVE IInv'
<1>1. SessionsFit /\ LastFits /\ BoundsFit /\ JobFits /\ OwnChunks
  BY Parts
<1>2. SessionsFit' /\ Grows
  BY <1>1, SameSessions DEF GivesUp
<1>3. OwnChunks'
  BY <1>1, <1>2, SameChunks DEF GivesUp, SessionsFit
<1>4. LastFits'
  BY <1>1 DEF GivesUp, LastFits
<1>5. BoundsFit'
  BY <1>1 DEF GivesUp, Fault, BoundsFit, UploadAssumption
<1>6. JobFits'
  BY EndsFits DEF GivesUp
<1> QED BY <1>2, <1>3, <1>4, <1>5, <1>6, Parts

LEMMA RestartsSafe ==
    ASSUME UploadAssumption, IInv, Restarts PROVE IInv'
<1>1. SessionsFit /\ LastFits /\ BoundsFit /\ JobFits /\ OwnChunks
  BY Parts
<1>2. SessionsFit' /\ Grows
  BY <1>1, SameSessions DEF Restarts
<1>3. OwnChunks'
  BY <1>1, <1>2, SameChunks DEF Restarts, SessionsFit
<1>4. LastFits'
  BY <1>1, <1>2, LastKept DEF Restarts, SessionsFit, LastFits
<1>5. BoundsFit'
  BY <1>1 DEF Restarts, BoundsFit, UploadAssumption
<1>6. JobFits'
  BY EndsFits DEF Restarts
<1> QED BY <1>2, <1>3, <1>4, <1>5, <1>6, Parts

LEMMA LongPauseSafe ==
    ASSUME UploadAssumption, IInv, LongPause PROVE IInv'
<1>1. SessionsFit /\ LastFits /\ BoundsFit /\ JobFits /\ OwnChunks
  BY Parts
<1>2. SessionsFit' /\ Grows
  BY <1>1, SameSessions DEF LongPause
<1>3. OwnChunks'
  BY <1>1, <1>2, SameChunks DEF LongPause, SessionsFit
<1>4. LastFits' /\ last'.location = last.location /\ last'.meta = last.meta
  BY <1>1 DEF LongPause, LastFits
<1>5. BoundsFit'
  BY <1>1 DEF LongPause, BoundsFit, UploadAssumption
<1>6. JobFits'
  BY <1>1, <1>2, <1>4, JobKept DEF LongPause, client, JobFits
<1> QED BY <1>2, <1>3, <1>4, <1>5, <1>6, Parts

LEMMA SessionFailsSafe ==
    ASSUME UploadAssumption, IInv, NEW s \in DOMAIN sessions, SessionFails(s) PROVE IInv'
<1>1. SessionsFit /\ LastFits /\ BoundsFit /\ JobFits /\ OwnChunks
  BY Parts
<1>2. SessionsFit' /\ Grows
  <2>1. PICK how \in {"gone", "broken", "mute"} : sessions' = [sessions EXCEPT ![s].state = how]
    BY UploadAssumption DEF SessionFails, UploadAssumption
  <2> QED BY <1>1, <2>1, FailedFits DEF SessionFails
<1>3. OwnChunks'
  BY <1>1, <1>2, SameChunks DEF SessionFails, SessionsFit
<1>4. last' = [last EXCEPT !.count = last.count, !.old = last.old]
  BY <1>1 DEF SessionFails, LastFits
<1>5. LastFits'
  BY <1>1, <1>2, <1>4, LastKept DEF SessionsFit, LastFits
<1>6. BoundsFit'
  BY <1>1 DEF SessionFails, BoundsFit, UploadAssumption
<1>7. JobFits'
  BY <1>1, <1>2, JobKept DEF SessionFails, client, JobFits
<1> QED BY <1>2, <1>3, <1>5, <1>6, <1>7, Parts

LEMMA ArrivesSafe ==
    ASSUME UploadAssumption, IInv, NEW c \in flying, Arrives(c) PROVE IInv'
<1>1. SessionsFit /\ LastFits /\ BoundsFit /\ JobFits /\ OwnChunks
  BY Parts
<1>2. OwnChunk(c)
  BY <1>1 DEF OwnChunks, OwnChunk
<1>3. SessionsFit' /\ Grows /\ landed' \in Nat
  <2>1. CASE UNCHANGED <<sessions, landed>>
    BY <1>1, <2>1, SameSessions DEF BoundsFit
  <2>2. ASSUME sessions[c.session].state = "open", NEW to \in Takes(c), sessions' = Appended(c, to)
        PROVE  SessionsFit' /\ Grows
    BY <1>1, <1>2, <2>2, AppendedFits
  <2>3. landed' = landed \/ landed' = landed + 0 \/ landed' = landed + 1
    BY DEF Arrives
  <2> QED BY <1>1, <2>1, <2>2, <2>3 DEF Arrives, BoundsFit
<1>4. OwnChunks'
  BY <1>1, <1>3, SameChunks DEF Arrives, SessionsFit
<1>5. last' = [last EXCEPT !.count = last.count, !.old = last.old]
  BY <1>1 DEF Arrives, LastFits
<1>6. LastFits'
  BY <1>1, <1>3, <1>5, LastKept DEF SessionsFit, LastFits
<1>7. BoundsFit'
  BY <1>1, <1>3 DEF Arrives, BoundsFit
<1>8. JobFits'
  BY <1>1, <1>3, JobKept DEF Arrives, client, JobFits
<1> QED BY <1>3, <1>4, <1>6, <1>7, <1>8, Parts

LEMMA NoteChangesSafe ==
    ASSUME UploadAssumption, IInv, NEW b \in Backups, NoteChanges(b) PROVE IInv'
<1>1. SessionsFit /\ LastFits /\ BoundsFit /\ JobFits /\ OwnChunks
  BY Parts
<1>2. SessionsFit' /\ Grows
  BY <1>1, SameSessions DEF NoteChanges
<1>3. OwnChunks'
  BY <1>1, <1>2, SameChunks DEF NoteChanges, SessionsFit
<1>4. LastFits'
  BY <1>1 DEF NoteChanges, LastFits
<1>5. BoundsFit'
  BY <1>1 DEF NoteChanges, BoundsFit, UploadAssumption
<1>6. JobFits'
  BY <1>1, <1>2, JobKept DEF NoteChanges, client, JobFits
<1> QED BY <1>2, <1>3, <1>4, <1>5, <1>6, Parts

-----------------------------------------------------------------------------
(* How many files there are of a backup.  While an upload runs, those of its *)
(* backup that are not of its own session were finished by chunks that their *)
(* senders had given up, because there was none when it began.  So a chunk   *)
(* that is still waited for must be of the session in use, or change         *)
(* nothing: OneFile needs all of this.                                       *)

Counted ==
    /\ phase \in {"idle", "query", "start"} => location = 0
    /\ \A c \in flying :
          /\ c.left \in BOOLEAN
          /\ ~c.left => c.session = location \/ sessions[c.session].state = "finished"
    /\ phase # "idle" => Cardinality(FilesOf(job.backup) \ {location}) <= landed
    /\ OneFile

LEMMA FilesFinite ==
    ASSUME SessionsFit, NEW b
    PROVE  IsFiniteSet(FilesOf(b)) /\ FilesOf(b) \subseteq Nat \ {0}
<1>1. DOMAIN sessions = 1..Len(sessions) /\ Len(sessions) \in Nat
  BY DEF SessionsFit
<1>2. IsFiniteSet(DOMAIN sessions)
  BY <1>1, FS_Interval
<1>3. FilesOf(b) \subseteq DOMAIN sessions
  BY DEF FilesOf
<1> QED BY <1>1, <1>2, <1>3, FS_Subset

LEMMA AtMostOneMore ==
    ASSUME NEW S, IsFiniteSet(S), NEW T, NEW x, T \subseteq S \cup {x}
    PROVE  /\ Cardinality(S) \in Nat /\ Cardinality(T) \in Nat
           /\ Cardinality(T) <= Cardinality(S) + 1
           /\ T \subseteq S => Cardinality(T) <= Cardinality(S)
<1>1. IsFiniteSet(S \cup {x}) /\ Cardinality(S \cup {x}) <= Cardinality(S) + 1
  <2>1. Cardinality(S) \in Nat
    BY FS_CardinalityType
  <2>2. /\ IsFiniteSet(S \cup {x})
        /\ Cardinality(S \cup {x}) = IF x \in S THEN Cardinality(S) ELSE Cardinality(S) + 1
    BY FS_AddElement
  <2> QED BY <2>1, <2>2
<1>2. /\ IsFiniteSet(T) /\ Cardinality(T) <= Cardinality(S \cup {x})
      /\ T \subseteq S => Cardinality(T) <= Cardinality(S)
  BY <1>1, FS_Subset
<1> QED BY <1>1, <1>2, FS_CardinalityType

(* Which steps make a file.                                                  *)
NoNewFile == \A b : FilesOf(b)' \subseteq FilesOf(b)

LEMMA SameFiles == ASSUME UNCHANGED sessions PROVE NoNewFile
BY DEF NoNewFile, FilesOf

LEMMA StartedNoFile ==
    ASSUME SessionsFit, sessions' = Append(sessions, NewSession(job)) PROVE NoNewFile
<1>1. sessions \in Seq(Session) /\ Len(sessions) \in Nat /\ DOMAIN sessions = 1..Len(sessions)
  BY DEF SessionsFit
<1>2. /\ DOMAIN sessions' = 1..(Len(sessions) + 1)
      /\ sessions'[Len(sessions) + 1] = NewSession(job)
      /\ \A j \in DOMAIN sessions : sessions'[j] = sessions[j]
  BY <1>1
<1>3. NewSession(job).state # "finished"
  BY DEF NewSession
<1>4. \A j \in DOMAIN sessions' : j \in DOMAIN sessions \/ j = Len(sessions) + 1
  BY <1>1, <1>2
<1> QED BY <1>2, <1>3, <1>4 DEF NoNewFile, FilesOf

LEMMA FailedNoFile ==
    ASSUME SessionsFit, NEW s \in DOMAIN sessions, NEW how \in {"gone", "broken", "mute"},
           sessions' = [sessions EXCEPT ![s].state = how]
    PROVE  NoNewFile
<1>1. sessions \in Seq(Session) /\ sessions[s] \in Session
  BY DEF SessionsFit
<1>2. /\ DOMAIN sessions' = DOMAIN sessions
      /\ sessions'[s] = [sessions[s] EXCEPT !.state = how]
      /\ \A j \in DOMAIN sessions : j # s => sessions'[j] = sessions[j]
  BY <1>1
<1>3. sessions'[s].state = how /\ how # "finished"
  BY <1>1, <1>2 DEF Session
<1> QED BY <1>2, <1>3 DEF NoNewFile, FilesOf

LEMMA AppendedOneFile ==
    ASSUME SessionsFit, UploadAssumption, NEW c, OwnChunk(c), sessions[c.session].state = "open",
           NEW to \in Takes(c), sessions' = Appended(c, to)
    PROVE  /\ to # Size => NoNewFile
           /\ \A b : FilesOf(b)' \subseteq FilesOf(b) \cup {c.session}
           /\ \A b : b # sessions[c.session].meta.backup => FilesOf(b)' \subseteq FilesOf(b)
<1>1. sessions \in Seq(Session) /\ c.session \in DOMAIN sessions
  BY DEF SessionsFit, OwnChunk
<1>2. /\ DOMAIN sessions' = DOMAIN sessions
      /\ \A j \in DOMAIN sessions : j # c.session => sessions'[j] = sessions[j]
  BY <1>1 DEF Appended
<1>3. /\ sessions'[c.session].meta = sessions[c.session].meta
      /\ to # Size => sessions'[c.session].state = "open"
  BY <1>1, AppendedFits DEF Grows, Keeps
<1> QED BY <1>2, <1>3 DEF NoNewFile, FilesOf

LEMMA NoMoreFiles ==
    ASSUME SessionsFit, Counted, NoNewFile, landed' = landed, landed \in Nat
    PROVE  OneFile'
<1> SUFFICES ASSUME NEW b \in Backups PROVE Cardinality(FilesOf(b)') <= 1 + landed
  BY DEF OneFile
<1>1. IsFiniteSet(FilesOf(b)) /\ FilesOf(b)' \subseteq FilesOf(b)
  BY FilesFinite DEF NoNewFile
<1>2. Cardinality(FilesOf(b)) \in Nat /\ Cardinality(FilesOf(b)') \in Nat
      /\ Cardinality(FilesOf(b)') <= Cardinality(FilesOf(b))
  BY <1>1, AtMostOneMore
<1>3. Cardinality(FilesOf(b)) <= 1 + landed
  BY DEF Counted, OneFile
<1> QED BY <1>2, <1>3

(* An upload goes on: with the session it has, or with its first one.        *)
LEMMA UploadGoesOn ==
    ASSUME SessionsFit, Counted, NoNewFile, landed' = landed, landed \in Nat, phase # "idle",
           job' = job, location' = location \/ location = 0
    PROVE  Cardinality(FilesOf(job.backup)' \ {location'}) <= landed'
<1> DEFINE S == FilesOf(job.backup) \ {location}
           T == FilesOf(job.backup)' \ {location'}
<1>1. IsFiniteSet(S) /\ T \subseteq S
  <2>1. IsFiniteSet(FilesOf(job.backup)) /\ 0 \notin FilesOf(job.backup)
    BY FilesFinite
  <2>2. FilesOf(job.backup)' \subseteq FilesOf(job.backup)
    BY DEF NoNewFile
  <2> QED BY <2>1, <2>2, FS_RemoveElement
<1>2. Cardinality(S) \in Nat /\ Cardinality(T) \in Nat /\ Cardinality(T) <= Cardinality(S)
  BY <1>1, AtMostOneMore
<1>3. Cardinality(S) <= landed
  BY DEF Counted
<1> QED BY <1>2, <1>3

(* A chunk that is not waited for any more, or of the session in use.        *)
LEMMA WaitedFor ==
    ASSUME SessionsFit, OwnChunks, Counted, Grows,
           \/ flying' = Left(flying) \/ flying' = Left(Flying)
           \/ /\ flying' \subseteq flying
              /\ \/ location' = location \/ location = 0
                 \/ location \in DOMAIN sessions /\ sessions[location].state = "finished"
    PROVE  \A c \in flying' :
              /\ c.left \in BOOLEAN
              /\ ~c.left => c.session = location' \/ sessions'[c.session].state = "finished"
<1>1. CASE flying' = Left(flying) \/ flying' = Left(Flying)
  <2>1. \A c \in flying : c = [session |-> c.session, start |-> c.start, end |-> c.end,
                               data |-> c.data, left |-> c.left]
    BY DEF OwnChunks
  <2>2. \A c \in flying : [c EXCEPT !.left = TRUE].left = TRUE
    <3> TAKE c \in flying
    <3>1. c = [session |-> c.session, start |-> c.start, end |-> c.end,
               data |-> c.data, left |-> c.left]
      BY <2>1
    <3> QED BY <3>1
  <2>3. [SentChunk EXCEPT !.left = TRUE].left = TRUE
    BY DEF SentChunk
  <2>4. \A c \in Flying : [c EXCEPT !.left = TRUE].left = TRUE
    BY <2>2, <2>3 DEF Flying
  <2>5. \A d \in flying' : \E c \in flying \cup Flying : d = [c EXCEPT !.left = TRUE]
    BY <1>1 DEF Left
  <2>6. \A d \in flying' : d.left = TRUE
    BY <2>2, <2>4, <2>5
  <2> QED BY <2>6
<1>2. CASE /\ flying' \subseteq flying
           /\ \/ location' = location \/ location = 0
              \/ location \in DOMAIN sessions /\ sessions[location].state = "finished"
  <2> SUFFICES ASSUME NEW c \in flying', ~c.left
               PROVE  c.session = location' \/ sessions'[c.session].state = "finished"
    BY <1>2 DEF Counted
  <2>1. c \in flying /\ c.session \in DOMAIN sessions /\ c.session # 0
    BY <1>2 DEF OwnChunks, SessionsFit
  <2>2. c.session = location \/ sessions[c.session].state = "finished"
    BY <2>1 DEF Counted
  <2>3. c.session = location' \/ sessions[c.session].state = "finished"
    BY <1>2, <2>1, <2>2
  <2> QED BY <2>1, <2>3 DEF Grows, Keeps
<1> QED BY <1>1, <1>2

(* A step that makes no file, and the attempt goes on, or is over.           *)
LEMMA GoesOnCounted ==
    ASSUME IInv, Counted, Grows, NoNewFile, landed' = landed, phase # "idle", phase' # "idle", job' = job,
           location' = location \/ location = 0, flying' \subseteq flying,
           phase' \in {"query", "start"} => location' = 0
    PROVE  Counted'
<1>1. SessionsFit /\ OwnChunks /\ landed \in Nat
  BY Parts DEF BoundsFit
<1>2. OneFile'
  BY <1>1, NoMoreFiles
<1>3. Cardinality(FilesOf(job.backup)' \ {location'}) <= landed'
  BY <1>1, UploadGoesOn
<1>4. \A c \in flying' :
         /\ c.left \in BOOLEAN
         /\ ~c.left => c.session = location' \/ sessions'[c.session].state = "finished"
  BY <1>1, WaitedFor
<1> QED BY <1>2, <1>3, <1>4 DEF Counted

LEMMA OverCounted ==
    ASSUME IInv, Counted, Grows, NoNewFile, landed' = landed, phase' = "idle", location' = 0,
           \/ flying' = Left(flying) \/ flying' = Left(Flying)
           \/ /\ flying' \subseteq flying
              /\ \/ location = 0
                 \/ location \in DOMAIN sessions /\ sessions[location].state = "finished"
    PROVE  Counted'
<1>1. SessionsFit /\ OwnChunks /\ landed \in Nat
  BY Parts DEF BoundsFit
<1>2. OneFile'
  BY <1>1, NoMoreFiles
<1>3. \A c \in flying' :
         /\ c.left \in BOOLEAN
         /\ ~c.left => c.session = location' \/ sessions'[c.session].state = "finished"
  BY <1>1, WaitedFor
<1> QED BY <1>2, <1>3 DEF Counted

LEMMA BeginUploadCounted ==
    ASSUME IInv, Counted, NEW b \in Backups, BeginUpload(b) PROVE Counted'
<1>1. SessionsFit /\ OwnChunks /\ landed \in Nat /\ landed' = landed /\ NoNewFile /\ Grows
  BY Parts, SameFiles, SameSessions DEF BoundsFit, BeginUpload
<1>2. OneFile' /\ location = 0 /\ location' = 0 /\ flying' = flying
  BY <1>1, NoMoreFiles DEF Counted, BeginUpload
<1>3. \A c \in flying' :
         /\ c.left \in BOOLEAN
         /\ ~c.left => c.session = location' \/ sessions'[c.session].state = "finished"
  BY <1>1, <1>2, WaitedFor
<1>4. Cardinality(FilesOf(job.backup)' \ {location'}) <= landed'
  <2>1. job'.backup = b /\ FilesOf(b) = {}
    BY DEF BeginUpload
  <2>2. FilesOf(job.backup)' = {}
    BY <1>1, <2>1 DEF NoNewFile, FilesOf, BeginUpload
  <2>3. FilesOf(job.backup)' \ {location'} = {} /\ Cardinality({}) = 0
    BY <2>2, FS_EmptySet
  <2> QED BY <1>1, <2>3
<1> QED BY <1>2, <1>3, <1>4 DEF Counted

LEMMA QueryAnsweredCounted ==
    ASSUME IInv, Counted, QueryAnswered PROVE Counted'
<1>1. Grows /\ NoNewFile /\ landed' = landed /\ flying' = flying /\ location = 0
  BY Parts, SameFiles, SameSessions DEF QueryAnswered, Counted
<1>2. CASE Uses(last.location, Has(last.location), last.count)
  BY <1>1, <1>2, GoesOnCounted DEF QueryAnswered, Uses
<1>3. CASE phase' = "start" /\ UNCHANGED <<job, location>>
  BY <1>1, <1>3, GoesOnCounted DEF QueryAnswered
<1>4. CASE Ends
  BY <1>1, <1>4, OverCounted DEF Ends
<1> QED BY <1>2, <1>3, <1>4 DEF QueryAnswered

LEMMA SessionStartsCounted ==
    ASSUME UploadAssumption, IInv, Counted, SessionStarts PROVE Counted'
<1>1. Grows /\ NoNewFile
  BY Parts, StartedFits, StartedNoFile DEF SessionStarts, JobFits
<1> QED BY <1>1, GoesOnCounted DEF SessionStarts, Uses, Counted

(* The files of the session in use are not counted until the upload is over: *)
(* there is one at most.                                                     *)
LEMMA ChunkAnsweredCounted ==
    ASSUME UploadAssumption, IInv, Counted, ChunkAnswered PROVE Counted'
<1>1. /\ SessionsFit /\ JobFits /\ OwnChunks /\ landed \in Nat /\ landed' = landed
      /\ phase = "chunk" /\ sessions[location].meta = job
  BY Parts DEF BoundsFit, JobFits, ChunkAnswered
<1>2. ASSUME sessions[location].state = "open", NEW to \in Takes(SentChunk), ChunkTaken(to)
      PROVE  Counted'
  <2>1. PICK c : c = SentChunk
    OBVIOUS
  <2>2. OwnChunk(c) /\ c.session = location
    BY <1>1, <2>1, SentIsOwn
  <2>3. /\ Grows /\ \A b : FilesOf(b)' \subseteq FilesOf(b) \cup {location}
        /\ \A b : b # job.backup => FilesOf(b)' \subseteq FilesOf(b)
    BY <1>1, <1>2, <2>1, <2>2, AppendedFits, AppendedOneFile DEF ChunkTaken
  <2>4. phase' \in {"chunk", "get"} /\ job' = job /\ location' = location /\ flying' = flying
    BY <1>2 DEF ChunkTaken, ChunkAnswered
  <2>5. \A x \in flying' :
           /\ x.left \in BOOLEAN
           /\ ~x.left => x.session = location' \/ sessions'[x.session].state = "finished"
    BY <1>1, <2>3, <2>4, WaitedFor
  <2> DEFINE S == FilesOf(job.backup) \ {location}
             T == FilesOf(job.backup)' \ {location'}
  <2>6. /\ IsFiniteSet(S) /\ T \subseteq S /\ FilesOf(job.backup)' \subseteq T \cup {location}
        /\ Cardinality(S) <= landed
    BY <1>1, <2>3, <2>4, FilesFinite, FS_RemoveElement DEF Counted
  <2>7. /\ Cardinality(T) \in Nat /\ Cardinality(T) <= Cardinality(S) /\ Cardinality(S) \in Nat
        /\ IsFiniteSet(T)
    BY <2>6, AtMostOneMore, FS_Subset
  <2>8. Cardinality(FilesOf(job.backup)') \in Nat /\ Cardinality(FilesOf(job.backup)') <= landed + 1
    <3> DEFINE U == FilesOf(job.backup)'
    <3>1. U \subseteq T \cup {location} /\ IsFiniteSet(T)
      BY <2>6, <2>7
    <3>2. Cardinality(U) \in Nat /\ Cardinality(U) <= Cardinality(T) + 1
      BY <3>1, AtMostOneMore
    <3> HIDE DEF S, T, U
    <3>3. Cardinality(U) <= landed + 1
      BY <1>1, <2>6, <2>7, <3>2
    <3> QED BY <3>2, <3>3 DEF U
  <2>9. ASSUME NEW b \in Backups PROVE Cardinality(FilesOf(b)') <= 1 + landed
    <3>1. CASE b = job.backup
      BY <1>1, <2>4, <2>8, <3>1 DEF FilesOf
    <3>2. CASE b # job.backup
      <4>1. FilesOf(b)' \subseteq FilesOf(b) /\ IsFiniteSet(FilesOf(b)) /\ Cardinality(FilesOf(b)) <= 1 + landed
        BY <1>1, <2>3, <3>2, FilesFinite DEF Counted, OneFile
      <4>2. /\ Cardinality(FilesOf(b)) \in Nat /\ Cardinality(FilesOf(b)') \in Nat
            /\ Cardinality(FilesOf(b)') <= Cardinality(FilesOf(b))
        BY <4>1, AtMostOneMore
      <4> QED BY <1>1, <4>1, <4>2
    <3> QED BY <3>1, <3>2
  <2>10. Cardinality(T) <= landed'
    BY <1>1, <2>6, <2>7
  <2> QED BY <1>1, <2>4, <2>5, <2>9, <2>10 DEF Counted, OneFile
<1>3. ASSUME phase' = "get", UNCHANGED <<job, location, sessions>> PROVE Counted'
  <2>1. Grows /\ NoNewFile /\ flying' = flying
    BY <1>1, <1>3, SameFiles, SameSessions DEF ChunkAnswered
  <2> QED BY <1>1, <1>3, <2>1, GoesOnCounted
<1>4. ASSUME Ends, UNCHANGED sessions PROVE Counted'
  <2>1. Grows /\ NoNewFile /\ flying' = Left(flying)
    BY <1>1, <1>4, SameFiles, SameSessions DEF ChunkAnswered, Ends
  <2> QED BY <1>1, <1>4, <2>1, OverCounted DEF Ends
<1> QED BY <1>2, <1>3, <1>4 DEF ChunkAnswered

LEMMA FileReadCounted ==
    ASSUME IInv, Counted, FileRead PROVE Counted'
<1>1. Grows /\ NoNewFile /\ location \in DOMAIN sessions /\ sessions[location].state = "finished"
  BY Parts, SameFiles, SameSessions DEF FileRead, JobFits
<1> QED BY <1>1, OverCounted DEF FileRead, Ends

LEMMA RetriesCounted ==
    ASSUME UploadAssumption, IInv, Counted, Retries PROVE Counted'
<1>1. /\ SessionsFit /\ JobFits /\ OwnChunks /\ landed \in Nat /\ landed' = landed /\ NoNewFile /\ Grows
      /\ phase # "idle" /\ phase' = phase /\ job' = job /\ location' = location
  BY Parts, SameFiles, SameSessions DEF BoundsFit, Retries, Resend
<1>2. OneFile' /\ Cardinality(FilesOf(job.backup)' \ {location'}) <= landed'
  BY <1>1, NoMoreFiles, UploadGoesOn
<1>3. \A c \in flying' :
         /\ c.left \in BOOLEAN
         /\ ~c.left => c.session = location' \/ sessions'[c.session].state = "finished"
  <2>1. ASSUME NEW c \in flying
        PROVE  /\ c.left \in BOOLEAN
               /\ ~c.left => c.session = location' \/ sessions'[c.session].state = "finished"
    BY <1>1 DEF Counted, Retries
  <2>2. phase = "chunk" => SentChunk.left = FALSE /\ SentChunk.session = location
    BY DEF SentChunk
  <2> QED BY <1>1, <2>1, <2>2 DEF Flying, Retries, Renews, Counts
<1> QED BY <1>1, <1>2, <1>3 DEF Counted

(* A chunk arrives: of the session in use, or counted in `landed'.           *)
LEMMA ArrivesCounted ==
    ASSUME UploadAssumption, IInv, Counted, NEW c \in flying, Arrives(c) PROVE Counted'
<1>1. /\ SessionsFit /\ JobFits /\ OwnChunks /\ landed \in Nat /\ OwnChunk(c)
      /\ phase' = phase /\ job' = job /\ location' = location /\ flying' \subseteq flying
  BY Parts DEF BoundsFit, Arrives, OwnChunks, OwnChunk, client
<1>2. CASE UNCHANGED <<sessions, landed>>
  <2>1. Grows /\ NoNewFile
    BY <1>1, <1>2, SameFiles, SameSessions
  <2>2. CASE phase # "idle"
    BY <1>1, <1>2, <2>1, <2>2, GoesOnCounted DEF Counted
  <2>3. CASE phase = "idle"
    BY <1>1, <1>2, <2>1, <2>3, OverCounted DEF Counted
  <2> QED BY <2>2, <2>3
<1>3. ASSUME sessions[c.session].state = "open", NEW to \in Takes(c), sessions' = Appended(c, to),
             landed' = landed + (IF c.left /\ to = Size THEN 1 ELSE 0)
      PROVE  Counted'
  <2> DEFINE s == c.session
  <2>1. /\ Grows /\ \A b : FilesOf(b)' \subseteq FilesOf(b) \cup {s}
        /\ \A b : b # sessions[s].meta.backup => FilesOf(b)' \subseteq FilesOf(b)
        /\ to # Size => NoNewFile
    BY <1>1, <1>3, AppendedFits, AppendedOneFile
  <2>2. \A x \in flying' :
           /\ x.left \in BOOLEAN
           /\ ~x.left => x.session = location' \/ sessions'[x.session].state = "finished"
    BY <1>1, <2>1, WaitedFor
  <2>3. c.left \in BOOLEAN /\ (~c.left => s = location)
    BY <1>3 DEF Counted
  <2>4. landed' \in Nat /\ landed <= landed' /\ (c.left /\ to = Size => landed' = landed + 1)
    BY <1>1, <1>3
  <2> DEFINE S == FilesOf(job.backup) \ {location}
             T == FilesOf(job.backup)' \ {location'}
  <2>5. phase # "idle" => Cardinality(T) <= landed'
    <3> SUFFICES ASSUME phase # "idle" PROVE Cardinality(T) <= landed'
      OBVIOUS
    <3>1. IsFiniteSet(S) /\ Cardinality(S) <= landed /\ T \subseteq S \cup {s}
      BY <1>1, <2>1, FilesFinite, FS_RemoveElement DEF Counted
    <3>2. T \subseteq S \/ (c.left /\ to = Size)
      BY <1>1, <2>1, <2>3 DEF NoNewFile
    <3>3. /\ Cardinality(S) \in Nat /\ Cardinality(T) \in Nat /\ Cardinality(T) <= Cardinality(S) + 1
          /\ T \subseteq S => Cardinality(T) <= Cardinality(S)
      BY <3>1, AtMostOneMore
    <3> HIDE DEF S, T
    <3> QED BY <1>1, <2>4, <3>1, <3>2, <3>3
  <2>6. ASSUME NEW b \in Backups PROVE Cardinality(FilesOf(b)') <= 1 + landed'
    <3>1. IsFiniteSet(FilesOf(b)) /\ Cardinality(FilesOf(b)) <= 1 + landed
      BY <1>1, FilesFinite DEF Counted, OneFile
    <3>2. /\ Cardinality(FilesOf(b)) \in Nat /\ Cardinality(FilesOf(b)') \in Nat
          /\ Cardinality(FilesOf(b)') <= Cardinality(FilesOf(b)) + 1
          /\ FilesOf(b)' \subseteq FilesOf(b) => Cardinality(FilesOf(b)') <= Cardinality(FilesOf(b))
      BY <2>1, <3>1, AtMostOneMore
    <3>3. CASE FilesOf(b)' \subseteq FilesOf(b)
      BY <1>1, <2>4, <3>1, <3>2, <3>3
    <3>4. CASE c.left /\ to = Size
      BY <1>1, <2>4, <3>1, <3>2, <3>4
    <3>5. CASE ~c.left /\ b = sessions[s].meta.backup
      <4>1. s = location /\ location # 0 /\ phase # "idle" /\ b = job.backup
        <5>1. s = location /\ s \in DOMAIN sessions
          BY <1>1, <2>3, <3>5 DEF OwnChunk
        <5>2. DOMAIN sessions = 1..Len(sessions)
          BY <1>1 DEF SessionsFit
        <5>3. location # 0
          BY <5>1, <5>2
        <5>4. phase \in {"chunk", "get"}
          BY <1>1, <5>3 DEF Counted, JobFits
        <5>5. sessions[location].meta = job /\ phase # "idle"
          BY <1>1, <5>4 DEF JobFits
        <5> QED BY <3>5, <5>1, <5>3, <5>5
      <4>2. FilesOf(b)' = FilesOf(job.backup)'
        BY <1>1, <4>1 DEF FilesOf
      <4>3. IsFiniteSet(T) /\ FilesOf(b)' \subseteq T \cup {location} /\ Cardinality(T) <= landed'
        <5>1. IsFiniteSet(S) /\ T \subseteq S
          BY <1>1, <2>1, <4>1, FilesFinite, FS_RemoveElement
        <5> QED BY <1>1, <2>5, <4>1, <4>2, <5>1, FS_Subset
      <4>4. Cardinality(T) \in Nat /\ Cardinality(FilesOf(b)') <= Cardinality(T) + 1
        BY <4>3, AtMostOneMore
      <4> HIDE DEF T
      <4> QED BY <2>4, <3>2, <4>3, <4>4
    <3> QED BY <2>1, <2>3, <3>3, <3>4, <3>5 DEF NoNewFile
  <2> QED BY <1>1, <2>2, <2>5, <2>6 DEF Counted, OneFile
<1> QED BY <1>2, <1>3 DEF Arrives

(* The other steps make no file and stay with the session they have.         *)
LEMMA OthersCounted ==
    ASSUME UploadAssumption, IInv, Counted,
           \/ ChunkUnacknowledged \/ GivesUp \/ Restarts \/ LongPause
           \/ \E s \in DOMAIN sessions : SessionFails(s)
           \/ \E b \in Backups : NoteChanges(b)
           \/ UNCHANGED vars
    PROVE  Counted'
<1>1. CASE ChunkUnacknowledged \/ GivesUp \/ Restarts
  <2>1. Grows /\ NoNewFile
    BY <1>1, Parts, SameFiles, SameSessions DEF ChunkUnacknowledged, GivesUp, Restarts
  <2> QED BY <1>1, <2>1, OverCounted DEF ChunkUnacknowledged, GivesUp, Restarts, Ends
<1>2. CASE \/ LongPause \/ (\E s \in DOMAIN sessions : SessionFails(s))
           \/ (\E b \in Backups : NoteChanges(b)) \/ UNCHANGED vars
  <2>1. Grows /\ NoNewFile
    <3>1. CASE LongPause \/ (\E b \in Backups : NoteChanges(b)) \/ UNCHANGED vars
      BY <3>1, Parts, SameFiles, SameSessions DEF LongPause, NoteChanges, vars
    <3>2. ASSUME NEW s \in DOMAIN sessions, SessionFails(s) PROVE Grows /\ NoNewFile
      <4>1. PICK how \in {"gone", "broken", "mute"} : sessions' = [sessions EXCEPT ![s].state = how]
        BY <3>2 DEF SessionFails, UploadAssumption
      <4> QED BY <3>2, <4>1, Parts, FailedFits, FailedNoFile DEF SessionFails
    <3> QED BY <1>2, <3>1, <3>2
  <2>2. /\ phase' = phase /\ job' = job /\ location' = location /\ flying' = flying
        /\ landed' = landed
    BY <1>2 DEF LongPause, SessionFails, NoteChanges, vars, client
  <2>3. CASE phase # "idle"
    BY <2>1, <2>2, <2>3, GoesOnCounted DEF Counted
  <2>4. CASE phase = "idle"
    BY <2>1, <2>2, <2>4, OverCounted DEF Counted
  <2> QED BY <2>3, <2>4
<1> QED BY <1>1, <1>2

-----------------------------------------------------------------------------
LEMMA Starts == ASSUME UploadAssumption, Init PROVE IInv
<1>1. sessions = <<>> /\ Len(sessions) = 0
  BY DEF Init
<1>2. SessionsFit
  BY <1>1 DEF SessionsFit, OpenIsShort, FilesWhole
<1>3. LastFits
  BY <1>1 DEF Init, LastFits, NoMemory
<1>4. BoundsFit /\ JobFits /\ OwnChunks
  BY DEF Init, BoundsFit, JobFits, OwnChunks, UploadAssumption
<1> QED BY <1>2, <1>3, <1>4, Parts

LEMMA Preserved == ASSUME UploadAssumption, IInv, [Next]_vars PROVE IInv'
<1>1. ASSUME Uploads PROVE IInv'
  BY <1>1, BeginUploadSafe, QueryAnsweredSafe, SessionStartsSafe, ChunkAnsweredSafe,
     ChunkUnacknowledgedSafe, FileReadSafe,
     RetriesSafe, GivesUpSafe DEF Uploads
<1>2. ASSUME Surroundings PROVE IInv'
  BY <1>2, RestartsSafe, LongPauseSafe, SessionFailsSafe, ArrivesSafe, NoteChangesSafe DEF Surroundings
<1>3. CASE UNCHANGED vars
  <2>1. SessionsFit /\ LastFits /\ BoundsFit /\ JobFits /\ OwnChunks
    BY Parts
  <2>2. SessionsFit' /\ Grows
    BY <1>3, <2>1, SameSessions DEF vars
  <2>3. OwnChunks'
    BY <1>3, <2>1, <2>2, SameChunks DEF vars, SessionsFit
  <2>4. LastFits' /\ BoundsFit'
    BY <1>3, <2>1 DEF vars, LastFits, BoundsFit
  <2>5. JobFits'
    BY <1>3, <2>1, <2>2, JobKept DEF vars, client, JobFits
  <2> QED BY <2>2, <2>3, <2>4, <2>5, Parts
<1> QED BY <1>1, <1>2, <1>3 DEF Next

LEMMA Inductive == Spec => []IInv
<1>1. Init => IInv
  BY UploadAssumption, Starts
<1>2. IInv /\ [Next]_vars => IInv'
  BY UploadAssumption, Preserved
<1> QED BY <1>1, <1>2, PTL DEF Spec

(* An upload works with a session of its own metadata only, and whatever    *)
(* chunk may arrive next continues what Drive has (driverequests.py).       *)
THEOREM UploadInvariant == Spec => []UploadInv
<1>1. IInv => UploadInv
  BY DEF IInv
<1> QED BY <1>1, Inductive, PTL

(* Every file in Drive is the whole backup it is named for, with any number *)
(* of attempts, retries, restarts and late chunks.                          *)
THEOREM FilesAreWhole == Spec => []FilesWhole
<1>1. IInv => FilesWhole
  BY DEF IInv
<1> QED BY <1>1, Inductive, PTL

(* The file an upload reports is of the metadata the upload was asked for.  *)
THEOREM FileIsAsAsked == Spec => []FileAsAsked
<1>1. IInv => FileAsAsked
  BY DEF IInv
<1> QED BY <1>1, Inductive, PTL

(* Lost answers, retries, resumed attempts and restarts make no second file *)
(* of a backup: only a chunk that arrives after its sender has given up     *)
(* does, and each of those one at most (driverequests.py: create, and the   *)
(* guard of model.py's sync).                                               *)
THEOREM OneFileOnly == Spec => []OneFile
<1>1. Init => Counted
  <2>1. ASSUME Init PROVE Counted
    <3>1. sessions = <<>> /\ DOMAIN sessions = {} /\ flying = {} /\ landed = 0
          /\ phase = "idle" /\ location = 0
      BY <2>1 DEF Init
    <3>2. \A b : FilesOf(b) = {}
      BY <3>1 DEF FilesOf
    <3>3. OneFile
      BY <3>1, <3>2, FS_EmptySet DEF OneFile
    <3> QED BY <3>1, <3>3 DEF Counted
  <2> QED BY <2>1
<1>2. IInv /\ Counted /\ [Next]_vars => Counted'
  <2> SUFFICES ASSUME IInv, Counted, [Next]_vars PROVE Counted'
    OBVIOUS
  <2>1. CASE Uploads
    BY <2>1, UploadAssumption, BeginUploadCounted, QueryAnsweredCounted, SessionStartsCounted,
       ChunkAnsweredCounted, FileReadCounted, RetriesCounted, OthersCounted DEF Uploads
  <2>2. CASE Surroundings
    BY <2>2, UploadAssumption, ArrivesCounted, OthersCounted DEF Surroundings
  <2>3. CASE UNCHANGED vars
    BY <2>3, UploadAssumption, OthersCounted
  <2> QED BY <2>1, <2>2, <2>3 DEF Next
<1>3. Counted => OneFile
  BY DEF Counted
<1> QED BY <1>1, <1>2, <1>3, Inductive, PTL DEF Spec
=============================================================================
