-------------------------- MODULE DurableFile_proofs --------------------------
(* Proofs about DurableFile: the invariant of the two files, and that they  *)
(* are the register of the abstract specification.                          *)
EXTENDS DurableFile, TLAPS

(* The steps of a write, one by one, and the faults keep the invariant.     *)
LEMMA WriteKeeps == ASSUME FileConstants, FileInv, NEW v \in Values, Write(v) PROVE FileInv'
<1>1. Read \in Found
  BY DEF FileInv, FileType, Contents, Found, Read
<1>2. Whole => Read \in Values \union {Absent} /\ Read = file.main
  BY DEF FileConstants, FileInv, Write, Idle, Whole, Read
<1> QED BY <1>1, <1>2 DEF FileConstants, FileInv, FileType, Contents, Found, Write, Idle, Whole

LEMMA ContinuesKeeps == ASSUME FileConstants, FileInv, Continues PROVE FileInv'
<1>1. CASE CopyWritten
  BY <1>1 DEF FileConstants, FileInv, FileType, Contents, Found, CopyWritten, Idle, Whole
<1>2. CASE MainOpened
  BY <1>2 DEF FileConstants, FileInv, FileType, Contents, Found, MainOpened, Idle, Whole
<1>3. CASE MainWritten
  BY <1>3 DEF FileConstants, FileInv, FileType, Contents, Found, MainWritten, Idle, Whole
<1> QED BY <1>1, <1>2, <1>3 DEF Continues

LEMMA FaultsKeep == ASSUME FileConstants, FileInv, WriteFails \/ Damaged PROVE FileInv'
<1>1. CASE WriteFails
  BY <1>1 DEF FileConstants, FileInv, FileType, Contents, Found, WriteFails, Idle, Whole
<1>2. CASE Damaged
  <2>1. PICK bad \in {Absent, Torn, Garbled} :
           \/ file' = [file EXCEPT !.main = bad, !.hurt = TRUE]
           \/ file' = [file EXCEPT !.copy = bad, !.hurt = TRUE]
    BY <1>2 DEF Damaged
  <2>2. file \in FileType /\ Idle /\ file.writing = Nothing
    BY <1>2 DEF Damaged, FileInv
  <2>3. file' \in FileType
    BY <2>1, <2>2 DEF FileType, Contents
  <2>4. ~Whole' /\ file'.stage = "idle" /\ file'.writing = Nothing
    BY <2>1, <2>2 DEF FileType, Whole, Idle
  <2> QED BY <2>3, <2>4 DEF FileInv, Idle
<1> QED BY <1>1, <1>2

(* FileInv is an invariant of the file: what the two copies hold at each    *)
(* stage of JsonFileSaver.write.                                            *)
THEOREM FileInvariant == ASSUME FileConstants PROVE FileSpec => []FileInv
<1>1. FileInit => FileInv
  BY DEF FileConstants, FileInit, NewFile, FileInv, FileType, Contents, Found, Idle, Whole
<1>2. FileInv /\ [FileNext]_file => FileInv'
  <2> SUFFICES ASSUME FileInv, [FileNext]_file PROVE FileInv'
    OBVIOUS
  <2>1. CASE \E v \in Values : Write(v) BY <2>1, WriteKeeps
  <2>2. CASE Continues BY <2>2, ContinuesKeeps
  <2>3. CASE WriteFails \/ Damaged BY <2>3, FaultsKeep
  <2>4. CASE UNCHANGED file BY <2>4 DEF FileInv, Idle, Whole
  <2> QED BY <2>1, <2>2, <2>3, <2>4 DEF FileNext
<1> QED BY <1>1, <1>2, PTL DEF FileSpec

-----------------------------------------------------------------------------
(* The refinement.                                                          *)

Value == IF Idle THEN Read ELSE file.held

(* What a reader finds after each step of a write.                          *)
LEMMA WriteStarts ==
    ASSUME FileConstants, FileInv, NEW v \in Values, Write(v)
    PROVE  /\ file.writing = Nothing /\ file'.writing = v
           /\ file'.hurt = file.hurt /\ Value' = Value
<1>1. file.writing = Nothing /\ Value = Read
  BY DEF FileInv, Write, Idle, Value
<1>2. file'.writing = v /\ file'.hurt = file.hurt /\ ~Idle' /\ file'.held = Read
  BY DEF FileInv, FileType, Write, Idle
<1> QED BY <1>1, <1>2 DEF Value

LEMMA WriteContinues ==
    ASSUME FileConstants, FileInv, CopyWritten \/ MainOpened
    PROVE  file'.writing = file.writing /\ file'.hurt = file.hurt /\ Value' = Value
<1>1. /\ ~Idle /\ ~Idle' /\ file'.held = file.held
      /\ file'.writing = file.writing /\ file'.hurt = file.hurt
  BY DEF FileInv, FileType, CopyWritten, MainOpened, Idle
<1> QED BY <1>1 DEF Value

LEMMA WriteFinishes ==
    ASSUME FileConstants, FileInv, MainWritten
    PROVE  /\ file.writing \in Values /\ Value' = file.writing
           /\ file'.writing = Nothing /\ ~file'.hurt
BY DEF FileConstants, FileInv, FileType, Contents, Found, MainWritten, Idle, Read, Value

(* A write that breaks off, when nothing went wrong before.                 *)
LEMMA WriteBreaksOff ==
    ASSUME FileConstants, FileInv, WriteFails
    PROVE  /\ file.writing \in Values /\ file'.writing = Nothing /\ file'.hurt
           /\ Whole => \/ Value' \in {Value, file.writing}
                       \/ Value = Absent /\ Value' = Torn
<1>1. file.writing \in Values /\ file'.writing = Nothing /\ file'.stage = "idle"
      /\ file'.main = file.main /\ file'.copy = file.copy /\ Value = file.held /\ file'.hurt
  BY DEF FileConstants, FileInv, FileType, WriteFails, Idle, Whole, Value
<1>2. CASE ~Whole
  BY <1>1, <1>2
<1>3. CASE Whole /\ file.main \in Values
  BY <1>1, <1>3 DEF FileConstants, FileInv, FileType, Contents, Found, WriteFails, Idle, Whole, Read, Value
<1>4. CASE Whole /\ file.stage \in {"between", "main"}
  BY <1>1, <1>4 DEF FileConstants, FileInv, FileType, Contents, Found, WriteFails, Idle, Whole, Read, Value
<1>5. CASE Whole /\ file.main \notin Values /\ file.stage = "copy"
  BY <1>1, <1>5 DEF FileConstants, FileInv, FileType, Contents, Found, WriteFails, Idle, Whole, Read, Value
<1> QED BY <1>2, <1>3, <1>4, <1>5 DEF FileInv, FileType, WriteFails, Idle

(* Damage, when nothing went wrong before: the other one is read, unless it *)
(* is the file itself that can't be read for a reason nobody catches.       *)
LEMMA DamageIsHealed ==
    ASSUME FileConstants, FileInv, Damaged
    PROVE  /\ file.writing = Nothing /\ file'.writing = Nothing /\ file'.hurt
           /\ Whole => \/ Value' = Value
                       \/ Value \in Values /\ Value' = Torn
<1>1. PICK bad \in {Absent, Torn, Garbled} :
         \/ file.main # Absent /\ file' = [file EXCEPT !.main = bad, !.hurt = TRUE]
         \/ file.copy # Absent /\ file' = [file EXCEPT !.copy = bad, !.hurt = TRUE]
  BY DEF Damaged
<1>2. /\ Idle /\ file.writing = Nothing
      /\ file'.stage = file.stage /\ file'.writing = file.writing /\ file'.hurt
  BY <1>1 DEF FileInv, FileType, Damaged, Idle, Whole
<1>3. ASSUME Whole
      PROVE  Value' = Value \/ (Value \in Values /\ Value' = Torn)
  <2>1. file \in FileType /\ file.main = file.copy /\ file.main \in Values
    BY <1>1, <1>2, <1>3 DEF FileInv, FileType
  <2>2. Value = file.main
    BY <1>2, <2>1 DEF FileConstants, Value, Read
  <2>3. CASE file' = [file EXCEPT !.main = bad, !.hurt = TRUE]
    <3>1. Idle' /\ file'.main = bad /\ file'.copy = file.main
      BY <1>2, <2>1, <2>3 DEF FileType, Idle
    <3>2. bad \notin Values
      BY <1>1 DEF FileConstants
    <3>3. CASE bad \in {Absent, Torn}
      BY <2>1, <2>2, <3>1, <3>2, <3>3 DEF Value, Read
    <3>4. CASE bad = Garbled
      BY <2>1, <2>2, <3>1, <3>2, <3>4 DEF Value, Read, FileConstants
    <3> QED BY <3>3, <3>4
  <2>4. CASE file' = [file EXCEPT !.copy = bad, !.hurt = TRUE]
    <3>1. Idle' /\ file'.main = file.main
      BY <1>2, <2>1, <2>4 DEF FileType, Idle
    <3> QED BY <2>1, <2>2, <3>1 DEF FileConstants, Value, Read
  <2> QED BY <1>1, <2>3, <2>4
<1> QED BY <1>2, <1>3

(* The file and its copy implement the abstract register: a write is seen   *)
(* as a whole or not at all, and one fault is not seen, but for a first     *)
(* write that breaks off and a file that is garbled (jsonfilesaver.py:22-42)*)
THEOREM RegisterRefinement == ASSUME FileConstants PROVE FileSpec => ImplementsRegister
<1>1. FileInit => R!RegisterInit
  BY DEF FileConstants, FileInit, NewFile, R!RegisterInit, Idle, Read
<1>2. FileInv /\ [FileNext]_file => [R!RegisterNext]_<<Value, file.writing, file.hurt>>
  <2> SUFFICES ASSUME FileInv, [FileNext]_file
               PROVE  [R!RegisterNext]_<<Value, file.writing, file.hurt>>
    OBVIOUS
  <2>0. FileInv' /\ Value' \in Found
    <3>1. FileInv'
      BY WriteKeeps, ContinuesKeeps, FaultsKeep DEF FileNext, FileInv, Idle, Whole
    <3>2. FileInv' => Value' \in Found
      BY DEF FileInv, FileType, Contents, Found, Value, Idle, Read
    <3> QED BY <3>1, <3>2
  <2>1. CASE \E v \in Values : Write(v)
    BY <2>1, WriteStarts DEF R!RegisterNext, R!Start, Value
  <2>2. CASE CopyWritten \/ MainOpened
    BY <2>2, WriteContinues
  <2>3. CASE MainWritten
    BY <2>3, WriteFinishes DEF R!RegisterNext, R!Finish, Value
  <2>4. CASE WriteFails
    <3>1. CASE Whole
      BY <2>4, <3>1, WriteBreaksOff DEF R!RegisterNext, R!BreakOff, Value, Whole
    <3>2. CASE ~Whole
      BY <2>0, <2>4, <3>2, WriteBreaksOff
         DEF R!RegisterNext, R!FaultAgain, Value, Whole, Found
    <3> QED BY <3>1, <3>2
  <2>5. CASE Damaged
    <3>1. CASE Whole
      BY <2>5, <3>1, DamageIsHealed DEF R!RegisterNext, R!Damage, R!Garble, Value, Whole
    <3>2. CASE ~Whole
      BY <2>0, <2>5, <3>2, DamageIsHealed
         DEF R!RegisterNext, R!FaultAgain, Value, Whole, Found
    <3> QED BY <3>1, <3>2
  <2>6. CASE UNCHANGED file
    BY <2>6 DEF Value, Idle, Read
  <2> QED BY <2>1, <2>2, <2>3, <2>4, <2>5, <2>6 DEF FileNext, Continues
<1> QED BY <1>1, <1>2, FileInvariant, PTL DEF FileSpec, ImplementsRegister, R!RegisterSpec, Value
=============================================================================
