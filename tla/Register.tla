------------------------------- MODULE Register -------------------------------
(***************************************************************************)
(* A file that file/jsonfilesaver.py keeps, for whoever reads and writes   *)
(* it: a register that is written as a whole.  Its class comment promises  *)
(* that one fault between two complete writes is not seen: a write that    *)
(* breaks off leaves the old value or the new one, and damage to one of    *)
(* the two places the value is kept in leaves it as it is.  The code keeps *)
(* that promise but in two cases: the first write of all, and Garble.      *)
(* After a second fault there is no promise.                               *)
(***************************************************************************)
CONSTANTS
    Values,     \* what can be stored
    Absent,     \* there is no file
    Torn,       \* there is one, and it can't be read
    Nothing     \* nothing is being written

VARIABLES
    value,      \* what a reader finds
    pending,    \* the value being written
    hurt        \* something has gone wrong since the last complete write

RegisterInit == value = Absent /\ pending = Nothing /\ hurt = FALSE

Start ==
    /\ pending = Nothing /\ pending' \in Values
    /\ UNCHANGED <<value, hurt>>

Finish ==
    /\ pending \in Values /\ value' = pending
    /\ pending' = Nothing /\ hurt' = FALSE

(* Only a write that breaks off before there is an old value may leave a   *)
(* file that can't be read.                                                *)
BreakOff ==
    /\ pending \in Values /\ ~hurt
    /\ \/ value' \in {value, pending}
       \/ value = Absent /\ value' = Torn
    /\ pending' = Nothing /\ hurt' = TRUE

(* One of the two places is lost or malformed: nobody sees that.           *)
Damage ==
    /\ pending = Nothing /\ ~hurt
    /\ hurt' = TRUE /\ UNCHANGED <<value, pending>>

(* The first of them is so that reading it fails in another way than those *)
(* the code is prepared for: the other one is not looked at.               *)
Garble ==
    /\ pending = Nothing /\ ~hurt /\ value \in Values
    /\ value' = Torn
    /\ hurt' = TRUE /\ UNCHANGED pending

(* A fault, of a write or of the disk, that is not the first.              *)
FaultAgain ==
    /\ hurt /\ pending' = Nothing
    /\ value' \in Values \union {Absent, Torn}
    /\ UNCHANGED hurt

RegisterNext == Start \/ Finish \/ BreakOff \/ Damage \/ Garble \/ FaultAgain

RegisterSpec == RegisterInit /\ [][RegisterNext]_<<value, pending, hurt>>
=============================================================================
