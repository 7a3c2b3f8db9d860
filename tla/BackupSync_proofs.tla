-------------------------- MODULE BackupSync_proofs --------------------------
(***************************************************************************)
(* Proofs about BackupSync, for every set of backups, every limit and      *)
(* every setting.                                                          *)
(***************************************************************************)
EXTENDS BackupSync, FiniteSetTheorems, WellFoundedInduction, TLAPS

-----------------------------------------------------------------------------
(* The first and the last element of a finite set.  A smallest subset that *)
(* comes before (after) the rest of the set has that one element only.     *)

\* A purge that has a copy to remove has an oldest one (OldestScheme.getOldest).
LEMMA OldestExists ==
    ASSUME NEW S, S \subseteq Nat, IsFiniteSet(S), S # {}
    PROVE  Oldest(S) \in S /\ \A t \in S : Oldest(S) <= t
<1> DEFINE T == {U \in SUBSET S : U # {} /\ \A x \in U : \A y \in S \ U : x < y}
<1>1. PICK U \in T : \A V \in T : ~ (<<V, U>> \in StrictSubsetOrdering(S))
  <2>1. S \in T
    OBVIOUS
  <2>2. T \subseteq FiniteSubsetsOf(S) /\ T # {}
    BY <2>1, FS_Subset DEF FiniteSubsetsOf
  <2> HIDE DEF T
  <2> QED BY <2>2, FS_StrictSubsetOrderingWellFounded, WFMin
<1>2. PICK x \in U : TRUE
  OBVIOUS
<1>3. ASSUME NEW a \in U, NEW b \in U, a < b PROVE FALSE
  <2> DEFINE V == {u \in U : u <= a}
  <2>1. V \in T
    <3>1. \A v \in V : \A z \in S \ V : v < z
      BY <1>3
    <3>2. a \in V \/ b \in V
      BY <1>3
    <3>3. V \in SUBSET S /\ V # {}
      BY <3>2
    <3> QED BY <3>1, <3>3
  <2>2. V # U /\ V \subseteq U
    BY <1>3
  <2> QED BY <1>1, <2>1, <2>2 DEF StrictSubsetOrdering
<1>4. \A y \in S : x <= y
  BY <1>3
<1> QED BY <1>4 DEF Oldest

\* An upload loop that has something left to upload has a newest one.
LEMMA NewestExists ==
    ASSUME NEW S, S \subseteq Nat, IsFiniteSet(S), S # {}
    PROVE  Newest(S) \in S /\ \A t \in S : t <= Newest(S)
<1> DEFINE T == {U \in SUBSET S : U # {} /\ \A x \in U : \A y \in S \ U : y < x}
<1>1. PICK U \in T : \A V \in T : ~ (<<V, U>> \in StrictSubsetOrdering(S))
  <2>1. S \in T
    OBVIOUS
  <2>2. T \subseteq FiniteSubsetsOf(S) /\ T # {}
    BY <2>1, FS_Subset DEF FiniteSubsetsOf
  <2> HIDE DEF T
  <2> QED BY <2>2, FS_StrictSubsetOrderingWellFounded, WFMin
<1>2. PICK x \in U : TRUE
  OBVIOUS
<1>3. ASSUME NEW a \in U, NEW b \in U, a < b PROVE FALSE
  <2> DEFINE V == {u \in U : b <= u}
  <2>1. V \in T
    <3>1. \A v \in V : \A z \in S \ V : z < v
      BY <1>3
    <3>2. a \in V \/ b \in V
      BY <1>3
    <3>3. V \in SUBSET S /\ V # {}
      BY <3>2
    <3> QED BY <3>1, <3>3
  <2>2. V # U /\ V \subseteq U
    BY <1>3
  <2> QED BY <1>1, <2>1, <2>2 DEF StrictSubsetOrdering
<1>4. \A y \in S : y <= x
  BY <1>3
<1> QED BY <1>4 DEF Newest

\* Any set of backups that exist is finite.
LEMMA SlugsFinite ==
    ASSUME NEW S, S \subseteq Slugs
    PROVE  S \subseteq Nat /\ IsFiniteSet(S)
BY BackupSyncAssumption, FS_Subset

\* What a purge picks is one of the copies the delete scheme may choose from:
\* seen in the store, not retained, not to be ignored.
LEMMA OldestConsidered ==
    ASSUME TypeOK, NEW st \in Stores, NEW prePurge \in BOOLEAN,
           PurgeCount(st, prePurge) > 0
    PROVE  /\ Considered(st) \subseteq {s \in seen[st] \ seenKept[st] : ~Ignore(s)}
           /\ Considered(st) \subseteq Slugs
           /\ Oldest(Considered(st)) \in Considered(st)
           /\ \A t \in Considered(st) : Oldest(Considered(st)) <= t
<1>1. /\ Considered(st) \subseteq {s \in seen[st] \ seenKept[st] : ~Ignore(s)}
      /\ Considered(st) \subseteq Slugs
  BY DEF Considered, TypeOK
<1>2. Keeps(st, prePurge) \in Int /\ Keeps(st, prePurge) >= 0
  BY BackupSyncAssumption DEF PurgeCount, Purges, Keeps, MaxCount, Stores
<1>3. IsFiniteSet(Considered(st)) /\ Considered(st) \subseteq Nat
  BY <1>1, SlugsFinite
<1>4. Considered(st) # {}
  <2>1. Cardinality(Considered(st)) \in Nat
    BY <1>3, FS_CardinalityType
  <2>2. Cardinality(Considered(st)) > 0
    BY <1>2, <2>1 DEF PurgeCount
  <2> QED BY <1>3, <2>2, FS_EmptySet
<1> QED BY <1>1, <1>3, <1>4, OldestExists

\* The newest of what is left to upload is left to upload.
LEMMA NewestQueued ==
    ASSUME TypeOK, queue # {}
    PROVE  Newest(queue) \in queue /\ Newest(queue) \in Slugs
BY SlugsFinite, NewestExists DEF TypeOK

-----------------------------------------------------------------------------
(* The inductive invariant.                                                *)

\* It holds when the add-on starts.
LEMMA InitSyncInv == Init => SyncInv
<1> SUFFICES ASSUME Init PROVE SyncInv
  OBVIOUS
<1>1. permitted \in BOOLEAN
  BY Zenon DEF Init
<1>2. flagging \in RetainRequests
  BY Zenon DEF Init, NotFlagging, RetainRequests, SlugOrNone
<1>3. TypeOK
  BY BackupSyncAssumption, <1>1, <1>2
     DEF Init, TypeOK, Stores, None, SlugOrNone, Stages, SyncStages, NoListing
<1>4. OnlyUsed /\ MarksHaveCopies /\ OneRequest /\ NewIsNew /\ UploadsMissing
  BY <1>3 DEF Init, TypeOK, OnlyUsed, MarksHaveCopies, OneRequest, NewIsNew,
     UploadsMissing, Stores, None, NoListing, Enabled
<1>5. ListingMatches /\ FlaggingHolds /\ ViewMatches
  BY DEF Init, ListingMatches, FlaggingHolds, ViewMatches, Listed, Stores,
     NotFlagging, SyncStages
<1> QED BY <1>3, <1>4, <1>5 DEF SyncInv

\* The flags of a "Never Delete" request keep their type.
LEMMA FlaggingFields ==
    ASSUME TypeOK
    PROVE  /\ [flagging EXCEPT !.live = FALSE] \in RetainRequests
           /\ [flagging EXCEPT !.applied = TRUE] \in RetainRequests
BY Zenon DEF TypeOK, RetainRequests

\* Every step keeps it.
LEMMA NextSyncInv ==
    ASSUME SyncInv, [Next]_vars
    PROVE  SyncInv'
<1> USE BackupSyncAssumption
<1> USE DEF SyncInv, TypeOK, OnlyUsed, MarksHaveCopies, OneRequest, NewIsNew,
   UploadsMissing, ListingMatches, FlaggingHolds, ViewMatches, Listed, Enabled,
   UIDeleteStages, RetainRequests, Stores, None, SlugOrNone, Stages,
   SyncStages, UIStages, NoListing, NotFlagging, PurgeStages, storeVars,
   viewVars, jobVars
\* Listing the stores.
<1>1. ASSUME BeginSync
      PROVE  SyncInv'
  BY <1>1 DEF BeginSync, Goto
<1>2. ASSUME List("ha")
      PROVE  SyncInv'
  BY <1>2 DEF List
<1>3. ASSUME List("drive")
      PROVE  SyncInv'
  BY <1>3 DEF List
<1>4. ASSUME Merge("ha")
      PROVE  SyncInv'
  BY <1>4 DEF Merge, Learn
<1>5. ASSUME Merge("drive")
      PROVE  SyncInv'
  <2>1. flagging' \in RetainRequests
    BY <1>5, FlaggingFields DEF Merge, Learn
  <2>2. TypeOK'
    BY <1>5, <2>1 DEF Merge, Learn
  <2>3. OnlyUsed' /\ MarksHaveCopies' /\ OneRequest' /\ NewIsNew'
       /\ UploadsMissing' /\ ListingMatches' /\ FlaggingHolds' /\ ViewMatches'
    BY <1>5 DEF Merge, Learn
  <2> QED BY <2>1, <2>2, <2>3
\* Purging and dropping expired backups.
<1>6. ASSUME NEW p \in PurgeStages, PurgeDone(p)
      PROVE  SyncInv'
  BY <1>6 DEF PurgeDone, Enabled, PurgeStore, PrePurge, Goto, AfterPurge
<1>7. ASSUME NEW p \in PurgeStages, PurgeRequest(p)
      PROVE  SyncInv'
  <2>1. PurgeStore(p) \in Stores /\ PrePurge(p) \in BOOLEAN
    BY DEF PurgeStore, PrePurge, Stores
  <2>2. target' \in Slugs
    BY <1>7, <2>1, OldestConsidered DEF PurgeRequest, SyncInv
  <2>3. TypeOK'
    BY <1>7, <2>2 DEF PurgeRequest, Enabled, PurgeStore, PrePurge
  <2>4. OnlyUsed' /\ MarksHaveCopies' /\ OneRequest' /\ NewIsNew'
       /\ UploadsMissing' /\ ListingMatches' /\ FlaggingHolds' /\ ViewMatches'
    BY <1>7, <2>2 DEF PurgeRequest, Enabled, PurgeStore, PrePurge
  <2> QED BY <2>1, <2>2, <2>3, <2>4
<1>8. ASSUME NEW p \in PurgeStages, PurgeRefused(p)
      PROVE  SyncInv'
  BY <1>8 DEF PurgeRefused, Enabled, PurgeStore, PrePurge, EndJob
<1>9. ASSUME FindExpired
      PROVE  SyncInv'
  BY <1>9 DEF FindExpired
<1>10. ASSUME ExpireRequest
       PROVE  SyncInv'
  BY <1>10 DEF ExpireRequest
<1>11. ASSUME ExpireDone
       PROVE  SyncInv'
  BY <1>11 DEF ExpireDone, Goto
<1>12. ASSUME Deleted
       PROVE  SyncInv'
  <2>1. flagging' \in RetainRequests
    BY <1>12, FlaggingFields DEF Deleted, Deleting, DeleteStore, PurgeStore,
       RemoveCopy, Forget
  <2>2. TypeOK'
    BY <1>12, <2>1 DEF Deleted, Deleting, DeleteStore, PurgeStore, RemoveCopy,
       Forget
  <2>3. OnlyUsed' /\ MarksHaveCopies' /\ OneRequest' /\ NewIsNew'
       /\ UploadsMissing' /\ ListingMatches' /\ FlaggingHolds' /\ ViewMatches'
    BY <1>12 DEF Deleted, Deleting, DeleteStore, PurgeStore, RemoveCopy,
       Forget
  <2> QED BY <2>1, <2>2, <2>3
<1>13. ASSUME DeleteRefused
       PROVE  SyncInv'
  BY <1>13 DEF DeleteRefused, Deleting, DeleteStore, PurgeStore, EndJob
\* Creating a backup.
<1>14. ASSUME NotDue
       PROVE  SyncInv'
  BY <1>14 DEF NotDue, Goto
<1>15. ASSUME Due
       PROVE  SyncInv'
  BY <1>15 DEF Due, Fresh, Goto
<1>16. ASSUME CreateRequest
       PROVE  SyncInv'
  BY <1>16 DEF CreateRequest, Fresh
<1>17. ASSUME CreateRefused
       PROVE  SyncInv'
  BY <1>17 DEF CreateRefused, Fresh, EndJob
<1>18. ASSUME Created
       PROVE  SyncInv'
  <2>1. queue' \in SUBSET Slugs /\ picked' \in SUBSET Slugs
       /\ deleteFrom' \in SUBSET Stores
    <3>1. CASE stage = "create"
      BY <1>18, <3>1 DEF Created, AddCopy, See, AfterCreate, EndJob
    <3>2. CASE stage # "create"
      BY <1>18, <3>2 DEF Created, AddCopy, See, AfterCreate, EndJob
    <3> QED BY <3>1, <3>2
  <2>2. TypeOK'
    BY <1>18, <2>1 DEF Created, AddCopy, See, AfterCreate, EndJob
  <2>3. OnlyUsed' /\ MarksHaveCopies' /\ OneRequest' /\ NewIsNew'
       /\ UploadsMissing' /\ ListingMatches' /\ FlaggingHolds' /\ ViewMatches'
    BY <1>18 DEF Created, AddCopy, See, AfterCreate, EndJob
  <2> QED BY <2>1, <2>2, <2>3
<1>19. ASSUME CreatePending
       PROVE  SyncInv'
  <2>1. queue' \in SUBSET Slugs /\ picked' \in SUBSET Slugs
       /\ deleteFrom' \in SUBSET Stores
    <3>1. CASE stage = "create"
      BY <1>19, <3>1 DEF CreatePending, AfterCreate, EndJob
    <3>2. CASE stage # "create"
      BY <1>19, <3>2 DEF CreatePending, AfterCreate, EndJob
    <3> QED BY <3>1, <3>2
  <2>2. TypeOK'
    BY <1>19, <2>1 DEF CreatePending, AfterCreate, EndJob
  <2>3. OnlyUsed' /\ MarksHaveCopies' /\ OneRequest' /\ NewIsNew'
       /\ UploadsMissing' /\ ListingMatches' /\ FlaggingHolds' /\ ViewMatches'
    BY <1>19 DEF CreatePending, AfterCreate, EndJob
  <2> QED BY <2>1, <2>2, <2>3
<1>20. ASSUME BackupFinishes
       PROVE  SyncInv'
  BY <1>20 DEF BackupFinishes, AddCopy, Dirty
<1>21. ASSUME BackupFails
       PROVE  SyncInv'
  BY <1>21 DEF BackupFails, Spend
\* Uploading.
<1>22. ASSUME Gather
       PROVE  SyncInv'
  BY <1>22 DEF Gather, Ignore
<1>23. ASSUME NextUpload
       PROVE  SyncInv'
  <2>1. Newest(queue) \in queue /\ Newest(queue) \in Slugs
    BY <1>23, NewestQueued DEF NextUpload, Enabled
  <2>2. TypeOK'
    BY <1>23, <2>1 DEF NextUpload, Enabled
  <2>3. OnlyUsed' /\ MarksHaveCopies' /\ OneRequest' /\ NewIsNew'
       /\ UploadsMissing' /\ ListingMatches' /\ FlaggingHolds' /\ ViewMatches'
    BY <1>23, <2>1 DEF NextUpload, Enabled
  <2> QED BY <2>1, <2>2, <2>3
<1>24. ASSUME UploadsDone
       PROVE  SyncInv'
  BY <1>24 DEF UploadsDone, Enabled
<1>25. ASSUME SaveRequest
       PROVE  SyncInv'
  <2>1. Newest(queue) \in queue /\ Newest(queue) \in Slugs
    BY <1>25, NewestQueued DEF SaveRequest
  <2>2. TypeOK'
    BY <1>25, <2>1 DEF SaveRequest
  <2>3. OnlyUsed' /\ MarksHaveCopies' /\ OneRequest' /\ NewIsNew'
       /\ UploadsMissing' /\ ListingMatches' /\ FlaggingHolds' /\ ViewMatches'
    BY <1>25, <2>1 DEF SaveRequest
  <2> QED BY <2>1, <2>2, <2>3
<1>26. ASSUME Saved
       PROVE  SyncInv'
  BY <1>26 DEF Saved, AddCopy, See
<1>27. ASSUME SaveRefused
       PROVE  SyncInv'
  BY <1>27 DEF SaveRefused, EndJob
<1>28. ASSUME Succeed
       PROVE  SyncInv'
  <2>1. permitted' \in BOOLEAN
    BY <1>28, Zenon DEF Succeed, EndJob
  <2>2. TypeOK'
    BY <1>28, <2>1 DEF Succeed, EndJob
  <2>3. OnlyUsed' /\ MarksHaveCopies' /\ OneRequest' /\ NewIsNew'
       /\ UploadsMissing' /\ ListingMatches' /\ FlaggingHolds' /\ ViewMatches'
    BY <1>28 DEF Succeed, EndJob
  <2> QED BY <2>1, <2>2, <2>3
\* Requests of the web UI that take the lock.
<1>29. ASSUME NEW s \in Slugs, NEW from \in SUBSET Stores, BeginDelete(s, from)
       PROVE  SyncInv'
  BY <1>29 DEF BeginDelete, UIRequest, Spend
<1>30. ASSUME DeleteRequest
       PROVE  SyncInv'
  BY <1>30 DEF DeleteRequest, Enabled
<1>31. ASSUME DeleteDone
       PROVE  SyncInv'
  BY <1>31 DEF DeleteDone, Enabled, EndJob
<1>32. ASSUME BeginStart
       PROVE  SyncInv'
  BY <1>32 DEF BeginStart, Spend, Fresh
<1>33. ASSUME NEW s \in Slugs, BeginLoad(s)
       PROVE  SyncInv'
  BY <1>33 DEF BeginLoad, UIRequest, Spend
<1>34. ASSUME Loaded
       PROVE  SyncInv'
  BY <1>34 DEF Loaded, AddCopy, See, EndJob
<1>35. ASSUME LoadRefused
       PROVE  SyncInv'
  BY <1>35 DEF LoadRefused, EndJob
<1>36. ASSUME NEW s \in Slugs, NEW value \in BOOLEAN, SetIgnored(s, value)
       PROVE  SyncInv'
  BY <1>36 DEF SetIgnored, UIRequest, Spend
\* Requests of the web UI that take no lock.
<1>37. ASSUME NEW s \in Slugs, NEW value \in BOOLEAN, RetainHA(s, value)
       PROVE  SyncInv'
  BY <1>37 DEF RetainHA, Awaiting, Spend, Dirty
<1>38. ASSUME NEW s \in Slugs, NEW value \in BOOLEAN, RetainDrive(s, value)
       PROVE  SyncInv'
  BY <1>38 DEF RetainDrive, Awaiting, Spend
<1>39. ASSUME DriveRetains
       PROVE  SyncInv'
  <2>1. flagging' \in RetainRequests
    BY <1>39, FlaggingFields DEF DriveRetains, Dirty
  <2>2. TypeOK'
    BY <1>39, <2>1 DEF DriveRetains, Dirty
  <2>3. OnlyUsed' /\ MarksHaveCopies' /\ OneRequest' /\ NewIsNew'
       /\ UploadsMissing' /\ ListingMatches' /\ FlaggingHolds' /\ ViewMatches'
    BY <1>39 DEF DriveRetains, Dirty
  <2> QED BY <2>1, <2>2, <2>3
<1>40. ASSUME RetainDone
       PROVE  SyncInv'
  BY <1>40 DEF RetainDone, Awaiting
<1>41. ASSUME RetainFails
       PROVE  SyncInv'
  BY <1>41 DEF RetainFails, Awaiting, Spend
<1>42. ASSUME ConfirmDeletes
       PROVE  SyncInv'
  BY <1>42 DEF ConfirmDeletes, Awaiting, Spend
<1>43. ASSUME Cancel
       PROVE  SyncInv'
  BY <1>43 DEF Cancel, InFlight, Awaiting, Spend, Abandoned, Deleting,
     RemoveCopy, DeleteStore, PurgeStore, AddCopy, EndJob
\* Others, faults and restarts.
<1>44. ASSUME NEW s \in Slugs, NEW ignore \in BOOLEAN, OutsideBackup(s, ignore)
       PROVE  SyncInv'
  BY <1>44 DEF OutsideBackup, Spend, AddCopy, Dirty
<1>45. ASSUME NEW st \in Stores, NEW s \in Slugs, OutsideDelete(st, s)
       PROVE  SyncInv'
  BY <1>45 DEF OutsideDelete, Spend, RemoveCopy, Dirty
<1>46. ASSUME RequestFails
       PROVE  SyncInv'
  BY <1>46 DEF RequestFails, InFlight, Awaiting, Spend, Abandoned, Deleting,
     RemoveCopy, DeleteStore, PurgeStore, AddCopy, EndJob
<1>47. ASSUME FolderQuestion
       PROVE  SyncInv'
  <2>1. flagging' \in RetainRequests
    BY <1>47, FlaggingFields DEF FolderQuestion, Learn, EndJob, Spend
  <2>2. TypeOK'
    BY <1>47, <2>1 DEF FolderQuestion, Learn, EndJob, Spend
  <2>3. OnlyUsed' /\ MarksHaveCopies' /\ OneRequest' /\ NewIsNew'
       /\ UploadsMissing' /\ ListingMatches' /\ FlaggingHolds' /\ ViewMatches'
    BY <1>47 DEF FolderQuestion, Learn, EndJob, Spend
  <2> QED BY <2>1, <2>2, <2>3
<1>48. ASSUME Restart
       PROVE  SyncInv'
  <2>1. permitted' \in BOOLEAN
    BY <1>48, Zenon DEF Restart, Spend, Abandoned, Deleting, RemoveCopy,
       DeleteStore, PurgeStore, AddCopy, EndJob
  <2>2. TypeOK'
    BY <1>48, <2>1 DEF Restart, Spend, Abandoned, Deleting, RemoveCopy,
       DeleteStore, PurgeStore, AddCopy, EndJob
  <2>3. OnlyUsed' /\ MarksHaveCopies' /\ OneRequest' /\ NewIsNew'
       /\ UploadsMissing' /\ ListingMatches' /\ FlaggingHolds' /\ ViewMatches'
    BY <1>48 DEF Restart, Spend, Abandoned, Deleting, RemoveCopy, DeleteStore,
       PurgeStore, AddCopy, EndJob
  <2> QED BY <2>1, <2>2, <2>3
<1>49. CASE UNCHANGED vars
  BY <1>49 DEF vars
<1>50. CASE Sync
  BY <1>50, <1>1, <1>2, <1>3, <1>4, <1>5, <1>6, <1>7, <1>8, <1>9, <1>10,
     <1>11, <1>14, <1>15, <1>16, <1>17, <1>22, <1>23, <1>24, <1>25, <1>26,
     <1>27, <1>28 DEF Sync
<1>51. CASE Answers
  BY <1>51, <1>12, <1>13, <1>18, <1>19, <1>34, <1>35 DEF Answers
<1>52. CASE WebUI
  BY <1>52, <1>29, <1>30, <1>31, <1>32, <1>33, <1>36, <1>37, <1>38, <1>39,
     <1>40, <1>42, <1>43 DEF WebUI
<1>53. CASE Outside
  <2>1. CASE BackupFinishes
    BY <2>1, <1>20
  <2>2. CASE \E s \in Slugs, ignore \in BOOLEAN : OutsideBackup(s, ignore)
    BY <2>2, <1>44
  <2>3. CASE \E st \in Stores, s \in Slugs : OutsideDelete(st, s)
    BY <2>3, <1>45
  <2> QED BY <1>53, <2>1, <2>2, <2>3 DEF Outside
<1>54. CASE Faults
  BY <1>54, <1>46, <1>41, <1>21, <1>47, <1>48 DEF Faults
<1> QED BY <1>49, <1>50, <1>51, <1>52, <1>53, <1>54 DEF Next

\* It is an invariant of the specification.
THEOREM SyncInvariant == Spec => []SyncInv
<1>1. Init => SyncInv
  BY InitSyncInv
<1>2. SyncInv /\ [Next]_vars => SyncInv'
  BY NextSyncInv
<1> QED BY <1>1, <1>2, PTL DEF Spec

-----------------------------------------------------------------------------
(* What follows from it.                                                   *)

\* The state of the add-on and of the stores keeps its type.
THEOREM TypeCorrect == Spec => []TypeOK
<1>1. SyncInv => TypeOK
  BY DEF SyncInv
<1> QED BY <1>1, SyncInvariant, PTL

\* After a sync listed a store, its view agrees with the store on every copy
\* that nobody else touched (Model._syncBackups, addSource, removeSource).
THEOREM ViewCorrect == Spec => []ViewMatches
<1>1. SyncInv => ViewMatches
  BY DEF SyncInv
<1> QED BY <1>1, SyncInvariant, PTL

\* Only Model._purge decides to delete a copy in a purge stage.
LEMMA ChoiceIsPurge ==
    ASSUME SyncInv, [Next]_vars, NEW p \in PurgeStages, Chooses(p)
    PROVE  PurgeRequest(p)
<1> USE DEF Chooses, PurgeStages
<1>1. CASE Sync
  BY <1>1 DEF Sync, BeginSync, Goto, storeVars, viewVars, Stores, List, Merge,
     Learn, PurgeDone, None, AfterPurge, PurgeRequest, PurgeRefused, EndJob,
     FindExpired, ExpireRequest, ExpireDone, NotDue, Due, CreateRequest,
     CreateRefused, Gather, NextUpload, UploadsDone, SaveRequest, Saved,
     SaveRefused, Succeed
<1>2. CASE Answers
  BY <1>2 DEF Answers, Deleted, Deleting, None, UIDeleteStages, DeleteRefused,
     EndJob, storeVars, viewVars, Created, AfterCreate, CreatePending, Loaded,
     LoadRefused
<1>3. CASE WebUI
  BY <1>3 DEF WebUI, Stores, BeginDelete, UIRequest, storeVars, DeleteRequest,
     UIDeleteStages, None, viewVars, DeleteDone, EndJob, BeginStart,
     BeginLoad, SetIgnored, RetainHA, jobVars, RetainDrive, DriveRetains,
     RetainDone, ConfirmDeletes, Cancel, Deleting
<1>4. CASE Outside
  BY <1>4 DEF Outside, BackupFinishes, None, viewVars, jobVars, OutsideBackup,
     Stores, OutsideDelete
<1>5. CASE Faults
  BY <1>5 DEF Faults, RequestFails, None, Deleting, UIDeleteStages, EndJob,
     viewVars, RetainFails, storeVars, jobVars, BackupFails, FolderQuestion,
     Learn, Restart, Stores
<1>6. CASE UNCHANGED vars
  BY <1>6 DEF vars, jobVars
<1> QED BY <1>1, <1>2, <1>3, <1>4, <1>5, <1>6 DEF Next

\* The add-on knows nothing of a Drive it does not list.
LEMMA SeenIsEnabled ==
    ASSUME SyncInv, NEW s \in seen["drive"]
    PROVE  DriveEnabled
BY DEF SyncInv, MarksHaveCopies

\* What a purge stage knows of its stores is what ViewMatches says.
LEMMA PurgeIsListed ==
    ASSUME SyncInv, NEW p \in PurgeStages, PurgeRequest(p),
           NEW st \in Stores, NEW s \in Slugs, s \notin dirty[st]
    PROVE  /\ (st = "ha" \/ DriveEnabled) => (s \in seen[st] <=> s \in copies[st])
           /\ s \in seen[st] => s \in copies[st] /\ (s \in seenKept[st] <=> s \in kept[st])
<1>1. s \in seen[st] => st = "ha" \/ DriveEnabled
  BY SeenIsEnabled DEF Stores
<1>2. Listed(st)
  BY DEF Listed, PurgeRequest, PurgeStages, SyncStages, Stores
<1> QED BY <1>1, <1>2 DEF SyncInv, ViewMatches, Enabled

\* What a purge picks, in terms of its view.
LEMMA PurgePicks ==
    ASSUME SyncInv, NEW p \in PurgeStages, PurgeRequest(p)
    PROVE  /\ PurgeStore(p) \in Stores /\ PrePurge(p) \in BOOLEAN
           /\ target' = Oldest(Considered(PurgeStore(p)))
           /\ target' \in Considered(PurgeStore(p))
           /\ target' \in Slugs
<1>1. PurgeStore(p) \in Stores /\ PrePurge(p) \in BOOLEAN
  BY DEF PurgeStore, PrePurge, Stores
<1>2. PurgeCount(PurgeStore(p), PrePurge(p)) > 0
      /\ target' = Oldest(Considered(PurgeStore(p)))
  BY DEF PurgeRequest
<1>3. TypeOK
  BY DEF SyncInv
<1> QED BY <1>1, <1>2, <1>3, OldestConsidered

\* A copy that is marked "Never Delete" in its store is never picked, unless
\* it was marked after the sync listed the store.
THEOREM SparesKept == Spec => PurgeSparesKept
<1>1. SyncInv /\ [Next]_vars =>
          \A p \in PurgeStages : Chooses(p) =>
             \/ target' \notin kept[PurgeStore(p)]
             \/ target' \in dirty[PurgeStore(p)]
  <2> SUFFICES ASSUME SyncInv, [Next]_vars, NEW p \in PurgeStages, Chooses(p),
                      target' \notin dirty[PurgeStore(p)]
               PROVE  target' \notin kept[PurgeStore(p)]
    OBVIOUS
  <2>1. PurgeRequest(p)
    BY ChoiceIsPurge
  <2>2. target' \in seen[PurgeStore(p)] /\ target' \notin seenKept[PurgeStore(p)]
    BY <2>1, PurgePicks DEF Considered
  <2> QED BY <2>1, <2>2, PurgePicks, PurgeIsListed
<1> QED BY <1>1, SyncInvariant, PTL DEF Spec, PurgeSparesKept

\* delete_after_upload removes from Home Assistant only what Drive holds.
THEOREM OnlyAfterUpload == Spec => DeletedOnlyAfterUpload
<1>1. SyncInv /\ [Next]_vars =>
          \A p \in PurgeStages :
             Chooses(p) /\ PurgeStore(p) = "ha" /\ DeleteAfterUpload =>
                target' \in copies["drive"] \cup dirty["drive"]
  <2> SUFFICES ASSUME SyncInv, [Next]_vars, NEW p \in PurgeStages, Chooses(p),
                      PurgeStore(p) = "ha", DeleteAfterUpload,
                      target' \notin dirty["drive"]
               PROVE  target' \in copies["drive"]
    OBVIOUS
  <2>1. PurgeRequest(p)
    BY ChoiceIsPurge
  <2>2. target' \in seen["drive"]
    BY <2>1, PurgePicks DEF Considered
  <2> QED BY <2>1, <2>2, PurgePicks, PurgeIsListed DEF Stores
<1> QED BY <1>1, SyncInvariant, PTL DEF Spec, DeletedOnlyAfterUpload

\* A copy the delete scheme considers is one the properties count, or others
\* touched it.
LEMMA ConsideredIsPurgeable ==
    ASSUME SyncInv, NEW p \in PurgeStages, PurgeRequest(p),
           NEW st \in Stores, NEW s \in Considered(st)
    PROVE  s \in Purgeable(st) \cup Touched
<1>1. /\ s \in Slugs /\ s \in seen[st] /\ s \notin seenKept[st]
      /\ s \notin ignored \/ s \in seen["drive"]
  BY DEF Considered, Ignore, SyncInv, TypeOK
<1>2. CASE s \in Touched
  BY <1>2
<1>3. CASE s \notin Touched
  <2>1. s \notin dirty["ha"] /\ s \notin dirty["drive"]
    BY <1>3 DEF Touched
  <2>2. s \in copies[st] /\ s \notin kept[st]
    BY <1>1, <2>1, PurgeIsListed DEF Stores
  <2>3. s \in Unignored
    BY <1>1, <2>1, PurgeIsListed, SeenIsEnabled DEF Stores, Unignored
  <2> QED BY <2>2, <2>3 DEF Purgeable
<1> QED BY <1>2, <1>3

\* The number of copies a purge leaves of those it considers.
LEMMA ConsideredCount ==
    ASSUME SyncInv, NEW p \in PurgeStages, PurgeRequest(p)
    PROVE  LET C == Considered(PurgeStore(p))
               k == Keeps(PurgeStore(p), PrePurge(p))
           IN  /\ IsFiniteSet(C \ {target'})
               /\ k \in Nat
               /\ Cardinality(C \ {target'}) \in Nat
               /\ Cardinality(C \ {target'}) >= k
               /\ PurgeCount(PurgeStore(p), PrePurge(p)) = 1 =>
                     Cardinality(C \ {target'}) = k
<1> DEFINE C == Considered(PurgeStore(p))
           k == Keeps(PurgeStore(p), PrePurge(p))
<1>1. C \subseteq Slugs /\ target' \in C
  BY PurgePicks, OldestConsidered DEF SyncInv, PurgeRequest
<1>2. IsFiniteSet(C)
  BY <1>1, SlugsFinite
<1>3. /\ IsFiniteSet(C \ {target'}) /\ Cardinality(C) \in Nat
      /\ Cardinality(C \ {target'}) = Cardinality(C) - 1
  BY <1>1, <1>2, FS_RemoveElement, FS_CardinalityType
<1>4. k \in Nat /\ Cardinality(C) - k > 0
      /\ PurgeCount(PurgeStore(p), PrePurge(p)) = Cardinality(C) - k
  BY <1>3, PurgePicks, BackupSyncAssumption
     DEF PurgeRequest, PurgeCount, Purges, Keeps, MaxCount, Stores
<1>5. Cardinality(C \ {target'}) \in Nat
  BY <1>3, FS_CardinalityType
<1> QED BY <1>3, <1>4, <1>5

\* When a purge picks a copy, its store holds at least as many newer copies
\* as it is to keep, less those others touched.
THEOREM LeavesEnough == Spec => PurgeLeavesEnough
<1>1. SyncInv /\ [Next]_vars =>
          \A p \in PurgeStages : Chooses(p) =>
             Cardinality({s \in Purgeable(PurgeStore(p)) : s > target'} \cup Touched)
                 >= Keeps(PurgeStore(p), PrePurge(p))
  <2> SUFFICES ASSUME SyncInv, [Next]_vars, NEW p \in PurgeStages, Chooses(p)
               PROVE  Cardinality({s \in Purgeable(PurgeStore(p)) : s > target'}
                                     \cup Touched)
                         >= Keeps(PurgeStore(p), PrePurge(p))
    OBVIOUS
  <2> DEFINE C == Considered(PurgeStore(p))
             newer == {s \in Purgeable(PurgeStore(p)) : s > target'}
  <2>1. PurgeRequest(p)
    BY ChoiceIsPurge
  <2>2. C \ {target'} \subseteq newer \cup Touched
    <3> SUFFICES ASSUME NEW s \in C, s # target', s \notin Touched
                 PROVE  s \in newer
      OBVIOUS
    <3>1. s \in Purgeable(PurgeStore(p))
      BY <2>1, PurgePicks, ConsideredIsPurgeable
    <3>2. target' <= s /\ s \in Nat /\ target' \in Nat
      BY <2>1, PurgePicks, OldestConsidered, BackupSyncAssumption
         DEF SyncInv, PurgeRequest
    <3> QED BY <3>1, <3>2
  <2>3. IsFiniteSet(newer \cup Touched)
    <3>1. newer \cup Touched \subseteq Slugs
      BY DEF Purgeable, Unignored, Touched, SyncInv, TypeOK, Stores
    <3> QED BY <3>1, SlugsFinite
  <2>4. /\ Cardinality(C \ {target'}) <= Cardinality(newer \cup Touched)
        /\ Cardinality(newer \cup Touched) \in Nat
    BY <2>2, <2>3, FS_Subset, FS_CardinalityType
  <2> QED BY <2>1, <2>4, ConsideredCount
<1> QED BY <1>1, SyncInvariant, PTL DEF Spec, PurgeLeavesEnough

\* Without the user's confirmation a purge removes only the one copy too many.
THEOREM UnconfirmedIsLast == Spec => UnconfirmedPurgeIsLast
<1> DEFINE
      left(p) == (Purgeable(PurgeStore(p)) \ Touched) \ {target'}
      leaves(p) == IF PurgeStore(p) = "ha" /\ DeleteAfterUpload
                   THEN left(p) \cap copies["drive"] ELSE left(p)
<1>1. SyncInv /\ [Next]_vars =>
          \A p \in PurgeStages : Chooses(p) /\ ConfirmMultiple /\ ~permitted =>
             Cardinality(leaves(p)) <= Keeps(PurgeStore(p), PrePurge(p))
  <2> SUFFICES ASSUME SyncInv, [Next]_vars, NEW p \in PurgeStages, Chooses(p),
                      ConfirmMultiple, ~permitted
               PROVE  Cardinality(leaves(p)) <= Keeps(PurgeStore(p), PrePurge(p))
    OBVIOUS
  <2> DEFINE C == Considered(PurgeStore(p))
  <2>1. PurgeRequest(p)
    BY ChoiceIsPurge
  <2>2. PurgeCount(PurgeStore(p), PrePurge(p)) = 1
    BY <2>1 DEF PurgeRequest
  <2>3. leaves(p) \subseteq C \ {target'}
    <3> SUFFICES ASSUME NEW s \in leaves(p) PROVE s \in C
      OBVIOUS
    <3>1. /\ s \in Slugs /\ s \in copies[PurgeStore(p)] /\ s \notin kept[PurgeStore(p)]
          /\ s \notin ignored \/ (DriveEnabled /\ s \in copies["drive"])
          /\ s \notin dirty["ha"] /\ s \notin dirty["drive"]
          /\ PurgeStore(p) = "ha" /\ DeleteAfterUpload => s \in copies["drive"]
      BY DEF Purgeable, Unignored, Touched, SyncInv, TypeOK
    <3>2. (PurgeStore(p) = "drive" \/ (PurgeStore(p) = "ha" /\ DeleteAfterUpload)) => DriveEnabled
      BY <2>1, PurgePicks, SeenIsEnabled DEF Considered, Stores
    <3>3. /\ s \in seen[PurgeStore(p)] /\ s \notin seenKept[PurgeStore(p)]
          /\ DriveEnabled /\ s \in copies["drive"] => s \in seen["drive"]
      BY <2>1, <3>1, <3>2, PurgePicks, PurgeIsListed DEF Stores
    <3> QED BY <3>1, <3>2, <3>3 DEF Considered, Ignore
  <2>4. Cardinality(leaves(p)) <= Cardinality(C \ {target'})
    BY <2>1, <2>3, ConsideredCount, FS_Subset
  <2>5. Cardinality(C \ {target'}) = Keeps(PurgeStore(p), PrePurge(p))
    BY <2>1, <2>2, ConsideredCount
  <2> QED BY <2>4, <2>5
<1> QED BY <1>1, SyncInvariant, PTL DEF Spec, UnconfirmedPurgeIsLast

\* Only the upload loop of Model.sync decides what to upload.
LEMMA ChoiceIsSave ==
    ASSUME SyncInv, [Next]_vars, Chooses("save")
    PROVE  SaveRequest
<1> USE DEF Chooses, PurgeStages
<1>1. CASE Sync
  BY <1>1 DEF Sync, BeginSync, Goto, storeVars, viewVars, Stores, List, Merge,
     Learn, PurgeDone, None, AfterPurge, PurgeRequest, PurgeRefused, EndJob,
     FindExpired, ExpireRequest, ExpireDone, NotDue, Due, CreateRequest,
     CreateRefused, Gather, NextUpload, UploadsDone, SaveRequest, Saved,
     SaveRefused, Succeed
<1>2. CASE Answers
  BY <1>2 DEF Answers, Deleted, Deleting, None, UIDeleteStages, DeleteRefused,
     EndJob, storeVars, viewVars, Created, AfterCreate, CreatePending, Loaded,
     LoadRefused
<1>3. CASE WebUI
  BY <1>3 DEF WebUI, Stores, BeginDelete, UIRequest, storeVars, DeleteRequest,
     UIDeleteStages, None, viewVars, DeleteDone, EndJob, BeginStart,
     BeginLoad, SetIgnored, RetainHA, jobVars, RetainDrive, DriveRetains,
     RetainDone, ConfirmDeletes, Cancel, Deleting
<1>4. CASE Outside
  BY <1>4 DEF Outside, BackupFinishes, None, viewVars, jobVars, OutsideBackup,
     Stores, OutsideDelete
<1>5. CASE Faults
  BY <1>5 DEF Faults, RequestFails, None, Deleting, UIDeleteStages, EndJob,
     viewVars, RetainFails, storeVars, jobVars, BackupFails, FolderQuestion,
     Learn, Restart, Stores
<1>6. CASE UNCHANGED vars
  BY <1>6 DEF vars, jobVars
<1> QED BY <1>1, <1>2, <1>3, <1>4, <1>5, <1>6 DEF Next

\* A backup to be ignored is neither purged nor uploaded while it is not in
\* Drive.
THEOREM IgnoredSpared == Spec => IgnoredLeftAlone
<1>1. SyncInv /\ [Next]_vars =>
          \A p \in PurgeStages \cup {"save"} : Chooses(p) =>
             target' \in Unignored \cup dirty["drive"]
  <2> SUFFICES ASSUME SyncInv, [Next]_vars, NEW p \in PurgeStages \cup {"save"},
                      Chooses(p), target' \notin dirty["drive"]
               PROVE  target' \in Unignored
    OBVIOUS
  <2>1. CASE p \in PurgeStages
    <3>1. PurgeRequest(p)
      BY <2>1, ChoiceIsPurge
    <3>2. target' \notin ignored \/ target' \in seen["drive"]
      BY <2>1, <3>1, PurgePicks DEF Considered, Ignore
    <3> QED BY <2>1, <3>1, <3>2, PurgePicks, PurgeIsListed, SeenIsEnabled DEF Unignored, Stores
  <2>2. CASE p = "save"
    <3>1. SaveRequest
      BY <2>2, ChoiceIsSave
    <3>2. queue # {} /\ TypeOK
      BY <3>1 DEF SyncInv, UploadsMissing, SaveRequest
    <3>3. target' \in queue /\ target' \in Slugs
      BY <3>1, <3>2, NewestQueued DEF SaveRequest
    <3> QED BY <3>1, <3>3 DEF SyncInv, UploadsMissing, SaveRequest, Unignored
  <2> QED BY <2>1, <2>2
<1> QED BY <1>1, SyncInvariant, PTL DEF Spec, IgnoredLeftAlone

-----------------------------------------------------------------------------
(* What a sync uploads it does not purge again: the uploads come newest    *)
(* first, Drive is within its limit whenever one is chosen, and if its copy*)
(* makes one too many there is an older one to go.                         *)

LoopStages == {"uploads", "prepurgeDrive", "save", "trimDrive"}

\* What the delete scheme of Drive chooses from, and how many there are.
InDrive == seen["drive"] \ seenKept["drive"]
HowMany == Cardinality(InDrive)
OlderInDrive == \E t \in InDrive : \A b \in picked : t < b

\* What is left to upload is older than what was chosen.
NewestFirst ==
    /\ \A b \in picked, q \in queue : q <= b
    /\ stage \in {"uploads", "trimDrive"} \/ (stage = "save" /\ target # None) =>
          \A b \in picked, q \in queue : q < b

\* Drive is within its limit, or the copy too many has an older one.
RoomInDrive ==
    /\ stage \in {"uploads", "prepurgeDrive", "save"} => HowMany <= MaxDrive
    /\ stage \in {"prepurgeDrive", "save"} => HowMany < MaxDrive \/ OlderInDrive
    /\ stage = "trimDrive" =>
          /\ HowMany <= MaxDrive + 1
          /\ HowMany <= MaxDrive \/ OlderInDrive

PickedInv ==
    picked # {} =>
        /\ stage \in LoopStages \cup {"finalHA", "post"}
        /\ NewestFirst
        /\ stage \in {"prepurgeDrive", "trimDrive"} /\ target # None => target \in InDrive
        /\ Purges("drive") => RoomInDrive

\* A copy in Drive is never to be ignored, and the scheme there is the oldest
\* first.
LEMMA ConsideredInDrive ==
    ASSUME TypeOK
    PROVE  /\ Considered("drive") = InDrive
           /\ InDrive \subseteq Slugs /\ IsFiniteSet(InDrive) /\ HowMany \in Nat
<1>1. Considered("drive") = InDrive
  BY DEF Considered, Ignore, InDrive
<1>2. InDrive \subseteq Slugs
  BY DEF TypeOK, InDrive, Stores
<1>3. IsFiniteSet(InDrive) /\ HowMany \in Nat
  BY <1>2, SlugsFinite, FS_CardinalityType DEF HowMany
<1> QED BY <1>1, <1>2, <1>3

\* How many copies a purge of Drive wants to remove.
LEMMA PurgeCountInDrive ==
    ASSUME TypeOK
    PROVE  /\ MaxDrive \in Nat /\ HowMany \in Nat
           /\ PurgeCount("drive", TRUE) > 0 => Purges("drive") /\ HowMany >= MaxDrive
           /\ PurgeCount("drive", FALSE) > 0 => Purges("drive") /\ HowMany > MaxDrive
           /\ PurgeCount("drive", FALSE) = 0 /\ Purges("drive") => HowMany <= MaxDrive
BY ConsideredInDrive, BackupSyncAssumption
   DEF PurgeCount, Keeps, MaxCount, HowMany

\* A step that touches nothing of this keeps it.
LEMMA PickedFrame ==
    ASSUME PickedInv,
           UNCHANGED <<picked, stage, target, queue, seen, seenKept>>
    PROVE  PickedInv'
BY DEF PickedInv, NewestFirst, RoomInDrive, HowMany, InDrive, OlderInDrive, Purges,
   Enabled, MaxCount

\* The loop chooses the next upload: it would not be the next copy to go.
LEMMA PickedNextUpload ==
    ASSUME SyncInv, PickedInv, NextUpload
    PROVE  PickedInv'
<1> SUFFICES ASSUME picked' # {} PROVE PickedInv'
  BY DEF PickedInv
<1> DEFINE next == Newest(queue)
<1>1. TypeOK /\ queue \cap seen["drive"] = {}
  BY DEF SyncInv, UploadsMissing, NextUpload
<1>2. /\ next \in queue /\ next \in Slugs
      /\ \A q \in queue : q <= next
      /\ queue \subseteq Nat /\ picked \subseteq Nat
  BY <1>1, SlugsFinite, NewestExists, NewestQueued, BackupSyncAssumption
     DEF NextUpload, TypeOK
<1>3. /\ InDrive' = InDrive /\ HowMany' = HowMany
      /\ queue' = queue /\ stage = "uploads" /\ stage' \in {"prepurgeDrive", "save"}
      /\ target' = target
      /\ picked' = picked \/ picked' = picked \cup {next}
      /\ Purges("drive")' <=> Purges("drive")
  BY DEF NextUpload, viewVars, InDrive, HowMany, Purges, Enabled, MaxCount
<1>4. target = None
  BY <1>3 DEF SyncInv, OneRequest, PurgeStages, UIStages, UIDeleteStages
<1>5. \A b \in picked, q \in queue : q < b
  BY <1>3 DEF PickedInv, NewestFirst
<1>6. NewestFirst'
  <2>1. \A b \in picked', q \in queue : q <= b
    <3> SUFFICES ASSUME NEW b \in picked', NEW q \in queue PROVE q <= b
      OBVIOUS
    <3>1. CASE b \in picked
      BY <1>2, <1>5, <3>1
    <3>2. CASE b = next
      BY <1>2, <3>2
    <3> QED BY <1>3, <3>1, <3>2
  <2> QED BY <1>3, <1>4, <2>1 DEF NewestFirst
<1>7. ASSUME Purges("drive") PROVE RoomInDrive'
  <2>1. HowMany <= MaxDrive
    <3>1. CASE picked # {}
      BY <1>3, <1>7, <3>1 DEF PickedInv, RoomInDrive
    <3>2. CASE picked = {}
      <4>1. PurgeCount("drive", FALSE) = 0
        BY <3>2 DEF NextUpload
      <4> QED BY <1>1, <1>7, <4>1, PurgeCountInDrive
    <3> QED BY <3>1, <3>2
  <2>2. HowMany < MaxDrive \/ OlderInDrive'
    <3>1. CASE HowMany + 1 <= MaxDrive
      <4>1. HowMany \in Nat /\ MaxDrive \in Nat
        BY <1>1, PurgeCountInDrive
      <4> QED BY <3>1, <4>1
    <3>2. CASE ~(HowMany + 1 <= MaxDrive)
      <4>0. HowMany + 1 > MaxDrive
        BY <1>1, <3>2, PurgeCountInDrive
      <4>1. PICK t \in InDrive : ~(next < t)
        BY <1>1, <1>7, <4>0, ConsideredInDrive DEF NextUpload, PurgedNext, HowMany
      <4>2. t # next /\ t \in Nat /\ next \in Nat
        BY <1>1, <1>2, <4>1, SlugsFinite, ConsideredInDrive, BackupSyncAssumption
           DEF InDrive
      <4>3. t < next
        BY <4>1, <4>2
      <4>4. \A b \in picked' : t < b
        <5> SUFFICES ASSUME NEW b \in picked' PROVE t < b
          OBVIOUS
        <5>1. CASE b \in picked
          <6>1. next < b /\ b \in Nat
            BY <1>2, <1>5, <5>1
          <6> QED BY <4>2, <4>3, <6>1
        <5>2. CASE b = next
          BY <4>3, <5>2
        <5> QED BY <1>3, <5>1, <5>2
      <4> QED BY <1>3, <4>1, <4>4 DEF OlderInDrive
    <3> QED BY <3>1, <3>2
  <2> QED BY <1>3, <2>1, <2>2 DEF RoomInDrive
<1>8. target' = None
  BY <1>3, <1>4
<1> QED BY <1>3, <1>6, <1>7, <1>8 DEF PickedInv, LoopStages

\* The newest of the rest is sent to Drive.
LEMMA PickedSaveRequest ==
    ASSUME SyncInv, PickedInv, SaveRequest
    PROVE  PickedInv'
<1> SUFFICES ASSUME picked # {} PROVE PickedInv'
  BY DEF PickedInv, SaveRequest
<1>1. TypeOK /\ queue # {}
  BY DEF SyncInv, UploadsMissing, SaveRequest
<1>2. /\ \A q \in queue : q <= Newest(queue)
      /\ Newest(queue) \in queue /\ queue \subseteq Nat /\ picked \subseteq Nat
  BY <1>1, SlugsFinite, NewestExists, BackupSyncAssumption DEF TypeOK
<1>3. /\ stage = "save" /\ stage' = "save" /\ picked' = picked
      /\ queue' = queue \ {Newest(queue)}
      /\ InDrive' = InDrive /\ HowMany' = HowMany
      /\ OlderInDrive' <=> OlderInDrive
      /\ Purges("drive")' <=> Purges("drive")
  BY DEF SaveRequest, viewVars, InDrive, HowMany, OlderInDrive, Purges, Enabled,
     MaxCount
<1>4. \A b \in picked, q \in queue' : q < b
  <2> SUFFICES ASSUME NEW b \in picked, NEW q \in queue' PROVE q < b
    OBVIOUS
  <2>1. Newest(queue) <= b
    BY <1>2, <1>3 DEF PickedInv, NewestFirst
  <2>2. q <= Newest(queue) /\ q # Newest(queue)
    BY <1>2, <1>3
  <2>3. q \in Nat /\ b \in Nat /\ Newest(queue) \in Nat
    BY <1>2, <1>3
  <2> QED BY <2>1, <2>2, <2>3
<1>5. NewestFirst'
  <2>1. \A b \in picked, q \in queue' : q <= b
    BY <1>2, <1>3, <1>4
  <2> QED BY <1>3, <1>4, <2>1 DEF NewestFirst
<1>6. Purges("drive") => RoomInDrive'
  BY <1>3 DEF PickedInv, RoomInDrive
<1> QED BY <1>3, <1>5, <1>6 DEF PickedInv, LoopStages

\* Drive has it: there is one copy more.
LEMMA PickedSaved ==
    ASSUME SyncInv, PickedInv, Saved
    PROVE  PickedInv'
<1> SUFFICES ASSUME picked # {} PROVE PickedInv'
  BY DEF PickedInv, Saved
<1>1. TypeOK /\ MarksHaveCopies /\ target \notin seen["drive"]
  BY DEF SyncInv, UploadsMissing, Saved
<1>2. /\ stage = "save" /\ target # None /\ stage' = "trimDrive" /\ target' = None
      /\ picked' = picked /\ queue' = queue
      /\ InDrive' = InDrive \cup {target}
      /\ Purges("drive")' <=> Purges("drive")
  BY <1>1 DEF Saved, See, InDrive, MarksHaveCopies, Purges, Enabled, MaxCount,
     TypeOK, Stores
<1>3. HowMany' = HowMany + 1 /\ HowMany \in Nat /\ MaxDrive \in Nat
  <2>1. target \notin InDrive /\ IsFiniteSet(InDrive)
    BY <1>1, ConsideredInDrive DEF InDrive
  <2>2. Cardinality(InDrive \cup {target}) = Cardinality(InDrive) + 1
    BY <2>1, FS_AddElement
  <2> QED BY <1>1, <1>2, <2>2, PurgeCountInDrive DEF HowMany
<1>4. OlderInDrive => OlderInDrive'
  BY <1>2 DEF OlderInDrive
<1>5. NewestFirst'
  BY <1>2 DEF PickedInv, NewestFirst
<1>6. Purges("drive") => RoomInDrive'
  BY <1>2, <1>3, <1>4 DEF PickedInv, RoomInDrive
<1> QED BY <1>2, <1>5, <1>6 DEF PickedInv, LoopStages

\* The copy that was to go is gone.
LEMMA PickedDeleted ==
    ASSUME SyncInv, PickedInv, Deleted
    PROVE  PickedInv'
<1> SUFFICES ASSUME picked # {} PROVE PickedInv'
  BY DEF PickedInv, Deleted
<1>1. /\ TypeOK /\ target # None /\ target' = None /\ stage' = stage
      /\ picked' = picked /\ queue' = queue
      /\ Purges("drive")' <=> Purges("drive")
  BY DEF SyncInv, Deleted, Deleting, Purges, Enabled, MaxCount
<1>2. stage \in {"prepurgeDrive", "trimDrive", "finalHA"}
  BY DEF Deleted, Deleting, PickedInv, LoopStages, PurgeStages, UIDeleteStages
<1>3. NewestFirst'
  BY <1>1, <1>2 DEF PickedInv, NewestFirst
<1>4. CASE stage = "finalHA"
  BY <1>1, <1>3, <1>4 DEF PickedInv, RoomInDrive, LoopStages
<1>5. CASE stage # "finalHA"
  <2>1. target \in InDrive
    BY <1>1, <1>2, <1>5 DEF PickedInv
  <2>2. InDrive' = InDrive \ {target}
    BY <1>1, <1>2, <1>5
       DEF Deleted, DeleteStore, PurgeStore, Forget, InDrive, TypeOK, Stores
  <2>3. HowMany' = HowMany - 1 /\ HowMany \in Nat /\ MaxDrive \in Nat
    BY <1>1, <2>1, <2>2, ConsideredInDrive, PurgeCountInDrive, FS_RemoveElement
       DEF HowMany
  <2>4. Purges("drive") => RoomInDrive'
    BY <1>1, <1>2, <1>5, <2>3 DEF PickedInv, RoomInDrive
  <2> QED BY <1>1, <1>2, <1>3, <2>4 DEF PickedInv, LoopStages
<1> QED BY <1>4, <1>5

\* A purge of the loop asks for a copy, which is none of the chosen ones.
LEMMA PickedPurgeRequest ==
    ASSUME SyncInv, PickedInv, NEW p \in PurgeStages, PurgeRequest(p)
    PROVE  PickedInv' /\ (PurgeStore(p) = "drive" => target' \notin picked)
<1>1. CASE picked = {}
  BY <1>1 DEF PickedInv, PurgeRequest
<1>2. CASE picked # {}
  <2>1. /\ stage = p /\ stage' = p /\ picked' = picked /\ queue' = queue
        /\ InDrive' = InDrive /\ HowMany' = HowMany
        /\ OlderInDrive' <=> OlderInDrive
        /\ Purges("drive")' <=> Purges("drive")
        /\ TypeOK
    BY DEF PurgeRequest, viewVars, InDrive, HowMany, OlderInDrive, Purges, Enabled,
       MaxCount, SyncInv
  <2>2. p \in {"prepurgeDrive", "trimDrive", "finalHA"}
    BY <1>2, <2>1 DEF PickedInv, LoopStages, PurgeStages
  <2>3. NewestFirst'
    BY <1>2, <2>1, <2>2 DEF PickedInv, NewestFirst
  <2>4. Purges("drive") => RoomInDrive'
    BY <1>2, <2>1 DEF PickedInv, RoomInDrive
  <2>5. CASE p = "finalHA"
    BY <1>2, <2>1, <2>3, <2>4, <2>5 DEF PickedInv, PurgeStore, LoopStages
  <2>6. CASE p # "finalHA"
    <3>1. PurgeStore(p) = "drive" /\ "drive" \in Stores
          /\ PrePurge(p) = (p = "prepurgeDrive")
      BY <2>2, <2>6 DEF PurgeStore, PrePurge, Stores
    <3>2. PurgeCount("drive", p = "prepurgeDrive") > 0
          /\ target' = Oldest(Considered("drive"))
      BY <3>1 DEF PurgeRequest
    <3>3. /\ target' \in InDrive /\ target' \in Nat
          /\ \A t \in InDrive : target' <= t
      BY <2>1, <3>1, <3>2, OldestConsidered, ConsideredInDrive, BackupSyncAssumption
    <3>4. ASSUME p = "prepurgeDrive" PROVE OlderInDrive
      <4>1. (p = "prepurgeDrive") = TRUE
        BY <3>4
      <4>2. Purges("drive") /\ HowMany >= MaxDrive
        BY <2>1, <3>2, <4>1, PurgeCountInDrive
      <4>3. HowMany \in Nat /\ MaxDrive \in Nat
        BY <2>1, PurgeCountInDrive
      <4> QED BY <1>2, <2>1, <3>4, <4>2, <4>3 DEF PickedInv, RoomInDrive
    <3>5. ASSUME p = "trimDrive" PROVE OlderInDrive
      <4>1. (p = "prepurgeDrive") = FALSE
        BY <3>5
      <4>2. Purges("drive") /\ HowMany > MaxDrive
        BY <2>1, <3>2, <4>1, PurgeCountInDrive
      <4>3. HowMany \in Nat /\ MaxDrive \in Nat
        BY <2>1, PurgeCountInDrive
      <4> QED BY <1>2, <2>1, <3>5, <4>2, <4>3 DEF PickedInv, RoomInDrive
    <3>6. PICK t \in InDrive : \A b \in picked : t < b
      BY <2>2, <2>6, <3>4, <3>5 DEF OlderInDrive
    <3>7. target' \notin picked
      BY <2>1, <3>3, <3>6, ConsideredInDrive, BackupSyncAssumption
    <3> QED BY <1>2, <2>1, <2>2, <2>3, <2>4, <3>3, <3>7 DEF PickedInv, LoopStages
  <2> QED BY <2>5, <2>6
<1> QED BY <1>1, <1>2

\* A purge has nothing left to do.
LEMMA PickedPurgeDone ==
    ASSUME SyncInv, PickedInv, NEW p \in PurgeStages, PurgeDone(p)
    PROVE  PickedInv'
<1> SUFFICES ASSUME picked # {} PROVE PickedInv'
  BY DEF PickedInv, PurgeDone, Goto
<1>1. /\ stage = p /\ stage' = AfterPurge[p] /\ picked' = picked /\ queue' = queue
      /\ target = None /\ target' = None
      /\ InDrive' = InDrive /\ HowMany' = HowMany
      /\ OlderInDrive' <=> OlderInDrive
      /\ Purges("drive")' <=> Purges("drive")
      /\ TypeOK
  BY DEF PurgeDone, Goto, viewVars, InDrive, HowMany, OlderInDrive, Purges, Enabled,
     MaxCount, SyncInv
<1>2. CASE p = "prepurgeDrive"
  <2>1. stage' = "save"
    BY <1>1, <1>2 DEF AfterPurge, PurgeStages
  <2>2. NewestFirst' /\ (Purges("drive") => RoomInDrive')
    BY <1>1, <1>2, <2>1 DEF PickedInv, NewestFirst, RoomInDrive
  <2> QED BY <1>1, <2>1, <2>2 DEF PickedInv, LoopStages
<1>3. CASE p = "trimDrive"
  <2>1. stage' = "uploads"
    BY <1>1, <1>3 DEF AfterPurge, PurgeStages
  <2>2. NewestFirst'
    BY <1>1, <1>3, <2>1 DEF PickedInv, NewestFirst
  <2>3. PurgeCount("drive", FALSE) = 0
    <3>1. PurgeStore(p) = "drive" /\ PrePurge(p) = FALSE
      BY <1>3 DEF PurgeStore, PrePurge
    <3> QED BY <3>1 DEF PurgeDone
  <2>4. Purges("drive") => RoomInDrive'
    BY <1>1, <2>1, <2>3, PurgeCountInDrive DEF RoomInDrive
  <2> QED BY <1>1, <2>1, <2>2, <2>4 DEF PickedInv, LoopStages
<1>4. CASE p = "finalHA"
  <2>1. stage' = "post"
    BY <1>1, <1>4 DEF AfterPurge, PurgeStages
  <2>2. NewestFirst' /\ (Purges("drive") => RoomInDrive')
    BY <1>1, <1>4, <2>1 DEF PickedInv, NewestFirst, RoomInDrive
  <2> QED BY <1>1, <2>1, <2>2 DEF PickedInv, LoopStages
<1>5. p \in {"prepurgeDrive", "trimDrive", "finalHA"}
  BY <1>1 DEF PickedInv, LoopStages, PurgeStages
<1> QED BY <1>2, <1>3, <1>4, <1>5

\* The loop is over.
LEMMA PickedUploadsDone ==
    ASSUME PickedInv, UploadsDone
    PROVE  PickedInv'
BY DEF PickedInv, UploadsDone, NewestFirst, RoomInDrive, LoopStages

\* Outside its uploads a sync has chosen none, and what ends a job or changes
\* a mark forgets what was chosen.
LEMMA NothingPicked ==
    ASSUME picked' = {}
    PROVE  PickedInv'
BY DEF PickedInv

LEMMA NextPickedInv ==
    ASSUME SyncInv, PickedInv, [Next]_vars
    PROVE  PickedInv'
<1> USE PickedFrame, NothingPicked
<1>1. CASE Sync
  <2>1. CASE \E p \in PurgeStages : PurgeDone(p) \/ PurgeRequest(p) \/ PurgeRefused(p)
    BY <2>1, PickedPurgeDone, PickedPurgeRequest DEF PurgeRefused, EndJob
  <2>2. CASE NextUpload \/ UploadsDone \/ SaveRequest \/ Saved
    BY <2>2, PickedNextUpload, PickedUploadsDone, PickedSaveRequest, PickedSaved
  <2>3. CASE BeginSync \/ FindExpired \/ ExpireRequest \/ ExpireDone \/ NotDue \/ Due
             \/ CreateRequest \/ Gather \/ \E st \in Stores : List(st) \/ Merge(st)
    <3>1. stage \notin LoopStages \cup {"finalHA", "post"} /\ picked' = picked
      BY <2>3 DEF BeginSync, FindExpired, ExpireRequest, ExpireDone, NotDue, Due,
         CreateRequest, Gather, List, Merge, Learn, Goto, LoopStages, Stores
    <3> QED BY <3>1 DEF PickedInv
  <2>4. CASE CreateRefused \/ SaveRefused \/ Succeed
    BY <2>4 DEF CreateRefused, SaveRefused, Succeed, EndJob
  <2> QED BY <1>1, <2>1, <2>2, <2>3, <2>4 DEF Sync
<1>2. CASE Answers
  <2>1. CASE Deleted
    BY <2>1, PickedDeleted
  <2>2. CASE DeleteRefused \/ Loaded \/ LoadRefused
    BY <2>2 DEF DeleteRefused, Loaded, LoadRefused, EndJob
  <2>3. CASE Created \/ CreatePending
    <3>1. stage \notin LoopStages \cup {"finalHA", "post"}
          /\ (picked' = picked \/ picked' = {})
      BY <2>3 DEF Created, CreatePending, AfterCreate, EndJob, LoopStages
    <3> QED BY <3>1 DEF PickedInv
  <2> QED BY <1>2, <2>1, <2>2, <2>3 DEF Answers
<1>3. CASE WebUI
  <2>1. CASE \/ \E s \in Slugs, from \in SUBSET Stores : BeginDelete(s, from)
             \/ DeleteRequest \/ BeginStart
             \/ \E s \in Slugs : BeginLoad(s)
             \/ \E s \in Slugs, value \in BOOLEAN : SetIgnored(s, value)
    <3>1. stage \notin LoopStages \cup {"finalHA", "post"} /\ picked' = picked
      BY <2>1 DEF BeginDelete, BeginStart, BeginLoad, SetIgnored, UIRequest,
         DeleteRequest, UIDeleteStages, LoopStages
    <3> QED BY <3>1 DEF PickedInv
  <2>2. CASE DeleteDone \/ RetainDone \/ Cancel
             \/ \E s \in Slugs, value \in BOOLEAN : RetainHA(s, value)
    BY <2>2 DEF DeleteDone, RetainDone, Cancel, RetainHA, EndJob
  <2>3. CASE \/ \E s \in Slugs, value \in BOOLEAN : RetainDrive(s, value)
             \/ DriveRetains \/ ConfirmDeletes
    BY <2>3 DEF RetainDrive, DriveRetains, ConfirmDeletes, viewVars, jobVars
  <2> QED BY <1>3, <2>1, <2>2, <2>3 DEF WebUI
<1>4. CASE Outside
  BY <1>4 DEF Outside, BackupFinishes, OutsideBackup, OutsideDelete, viewVars, jobVars
<1>5. CASE Faults
  BY <1>5 DEF Faults, RequestFails, RetainFails, BackupFails, FolderQuestion, Restart,
     viewVars, jobVars, EndJob
<1>6. CASE UNCHANGED vars
  BY <1>6 DEF vars, viewVars, jobVars
<1> QED BY <1>1, <1>2, <1>3, <1>4, <1>5, <1>6 DEF Next

\* No purge of a sync picks what the sync chose to upload while Drive was
\* within its limit and no mark was changed since.
THEOREM UploadsSurvive == Spec => UploadSurvives
<1>1. Init => SyncInv /\ PickedInv
  BY InitSyncInv DEF Init, PickedInv
<1>2. SyncInv /\ PickedInv /\ [Next]_vars => (SyncInv /\ PickedInv)'
  BY NextSyncInv, NextPickedInv
<1>3. SyncInv /\ PickedInv /\ [Next]_vars =>
          \A p \in PurgeStages :
             Chooses(p) /\ PurgeStore(p) = "drive" => target' \notin picked
  BY ChoiceIsPurge, PickedPurgeRequest
<1> QED BY <1>1, <1>2, <1>3, PTL DEF Spec, UploadSurvives
=============================================================================
