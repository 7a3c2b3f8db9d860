----------------------------- MODULE DurableFile -----------------------------
(***************************************************************************)
(* JsonFileSaver (file/jsonfilesaver.py): every value is written twice,    *)
(* first to the copy "<path>.backup" and then to the file itself, and read *)
(* from the copy when the file is missing or malformed (Torn).  A file that*)
(* can't be read for another reason, for its bytes are no text or the disk *)
(* doesn't give them (Garbled), raises an error that nobody catches, though*)
(* the copy may be good.                                                   *)
(*                                                                         *)
(* Opening a file for writing empties it; the process may die, or the disk *)
(* be full, at any moment until the new contents are there.  Between writes*)
(* the disk may damage either, any number of times.                        *)
(*                                                                         *)
(* A file that was closed is on the disk: the code does not ask for that   *)
(* (no fsync), and a power cut that loses both closed files is not here.   *)
(***************************************************************************)
CONSTANTS Values, Absent, Torn, Garbled, Nothing

(* What is asked of the constants by whoever uses a file.                  *)
FileConstants ==
    /\ {Absent, Torn, Garbled, Nothing} \intersect Values = {}
    /\ Absent # Torn /\ Absent # Garbled /\ Torn # Garbled

VARIABLE file   \* one record, see FileType

(* main, copy: the contents of the two files; stage: how far a write is;   *)
(* writing: its value; hurt: whether something has gone wrong since both   *)
(* were written; held: history, what a reader found when the write began   *)
(* that is under way.                                                      *)
Contents == Values \union {Absent, Torn, Garbled}
Found == Values \union {Absent, Torn}

FileType == [main : Contents, copy : Contents,
             stage : {"idle", "copy", "between", "main"},
             writing : Values \union {Nothing}, hurt : BOOLEAN, held : Found]

NewFile == [main |-> Absent, copy |-> Absent, stage |-> "idle",
            writing |-> Nothing, hurt |-> FALSE, held |-> Absent]

\* (slip) the copy is not looked at when the file can't be read
ReadMainOnly == file.main

(* exists and read: the file, or else its copy, which is looked at for the *)
(* two errors the code expects of the file.  Torn when there is one of the *)
(* two, and an error is raised.                                            *)
Read ==
    CASE file.main \in Values -> file.main
      [] file.main \in {Absent, Torn} /\ file.copy \in Values -> file.copy
      [] file.main = Absent /\ file.copy = Absent -> Absent
      [] OTHER -> Torn

Idle == file.stage = "idle"

\* (slip) both files are emptied before either is written
WriteBoth(v) ==
    /\ Idle
    /\ file' = [file EXCEPT !.copy = Torn, !.main = Torn, !.stage = "copy",
                            !.writing = v, !.held = Read]

(* write: open(path + ".backup", "w") empties the copy                     *)
Write(v) ==
    /\ Idle
    /\ file' = [file EXCEPT !.copy = Torn, !.stage = "copy",
                            !.writing = v, !.held = Read]

(* the copy is there                                                       *)
CopyWritten ==
    /\ file.stage = "copy"
    /\ file' = [file EXCEPT !.copy = file.writing, !.stage = "between"]

(* open(path, "w") empties the file                                        *)
MainOpened ==
    /\ file.stage = "between"
    /\ file' = [file EXCEPT !.main = Torn, !.stage = "main"]

(* the file is there: the write is done.                                   *)
MainWritten ==
    /\ file.stage = "main"
    /\ file' = [file EXCEPT !.main = file.writing, !.stage = "idle",
                            !.writing = Nothing, !.hurt = FALSE, !.held = Absent]

(* Nothing has gone wrong since the last write that went well.             *)
Whole == ~file.hurt

(* A write breaks off where it is.                                         *)
WriteFails ==
    /\ ~Idle
    /\ file' = [file EXCEPT !.stage = "idle", !.writing = Nothing, !.hurt = TRUE,
                            !.held = Absent]

(* The disk does harm to one of the two.                                   *)
Damaged ==
    /\ Idle
    /\ \E bad \in {Absent, Torn, Garbled} :
          \/ file.main # Absent /\ file' = [file EXCEPT !.main = bad, !.hurt = TRUE]
          \/ file.copy # Absent /\ file' = [file EXCEPT !.copy = bad, !.hurt = TRUE]

Continues == CopyWritten \/ MainOpened \/ MainWritten

FileInit == file = NewFile

FileNext == (\E v \in Values : Write(v)) \/ Continues \/ WriteFails \/ Damaged

FileSpec == FileInit /\ [][FileNext]_file

-----------------------------------------------------------------------------
(* The inductive invariant: what the two files hold at each stage.  While  *)
(* nothing has gone wrong they are alike between two writes, and during one*)
(* the file is the old one until its copy is the new one.                  *)
FileInv ==
    /\ file \in FileType
    /\ Idle <=> file.writing = Nothing
    /\ Idle /\ Whole => file.main = file.copy /\ file.main \in Values \union {Absent}
    /\ ~Idle /\ Whole => file.held \in Values \union {Absent}
    /\ ~Idle /\ Whole /\ file.stage \in {"copy", "between"} => file.main = file.held
    /\ file.stage \in {"between", "main"} => file.copy = file.writing
    /\ file.stage = "copy" => file.copy = Torn
    /\ file.stage = "main" => file.main = Torn

(* The register of the abstract specification.                             *)
R == INSTANCE Register
       WITH value <- IF Idle THEN Read ELSE file.held,
            pending <- file.writing, hurt <- file.hurt

(* The two files together are that register.                               *)
ImplementsRegister == R!RegisterSpec

(* "Then when reading it will check both locations to try and find a copy  *)
(* of the file that isn't corrupted or deleted." (jsonfilesaver.py:14-15)  *)
OneCopyIsFound ==
    Idle /\ (file.main \in Values \/ file.copy \in Values) => Read \in Values
=============================================================================
