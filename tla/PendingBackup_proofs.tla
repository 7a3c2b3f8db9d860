------------------------ MODULE PendingBackup_proofs ------------------------
(***************************************************************************)
(* The add-on stopper remembers what it stopped, and the types are right,  *)
(* for any add-ons, any number of requested backups and any bounds.  A     *)
(* step of PendingBackup changes the stopper's variables by one of the     *)
(* operations of AddonStopper or not at all; each has a lemma below.       *)
(*                                                                         *)
(* The second half is about who stands in line for the stopper's lock, and *)
(* shows that add-ons stay off during a backup HaSource knows of.          *)
(***************************************************************************)
EXTENDS PendingBackup, SequenceTheorems, TLAPS

\* Letting the holder out leaves a line, an idle lock and a file of its type.
LEMMA LeaveType ==
    ASSUME NEW save \in BOOLEAN, line \in Seq(Callers), line # <<>>,
           saved \in [start : SUBSET Addons, watchdog : SUBSET Addons],
           mustStart' \in SUBSET Addons, mustWatch' \in SUBSET Addons,
           Leave(save)
    PROVE  /\ line' \in Seq(Callers) /\ step' = "enter"
           /\ addon' = None /\ todo' = {} /\ changed' = FALSE
           /\ saved' \in [start : SUBSET Addons, watchdog : SUBSET Addons]
<1>1. Tail(line) \in Seq(Callers)
  BY HeadTailProperties
<1> QED
  BY <1>1, SMT DEF Leave, Memory

\* Going on with a loop does as well, and the lock stays with its holder
\* unless it is idle.
LEMMA GoOnType ==
    ASSUME NEW loop \in {"stopInfo", "startInfo", "watchInfo"},
           NEW rest \in SUBSET Addons, NEW change \in BOOLEAN,
           line \in Seq(Callers), line # <<>>,
           saved \in [start : SUBSET Addons, watchdog : SUBSET Addons],
           mustStart' \in SUBSET Addons, mustWatch' \in SUBSET Addons,
           GoOn(loop, rest, change)
    PROVE  /\ line' \in Seq(Callers)
           /\ step' \in {"enter", "stopInfo", "startInfo", "watchInfo"}
           /\ step' # "enter" => line' # <<>>
           /\ addon' = None /\ todo' \in SUBSET Addons /\ changed' \in BOOLEAN
           /\ saved' \in [start : SUBSET Addons, watchdog : SUBSET Addons]
<1>1. CASE Leave(change)
  BY <1>1, LeaveType
<1>2. CASE ~Leave(change)
  BY <1>2 DEF GoOn
<1> QED
  BY <1>1, <1>2

\* Whoever stands behind the holder can go away.
LEMMA WithoutType ==
    ASSUME NEW who, line \in Seq(Callers), Waits(who), ~Holds(who)
    PROVE  Without(who) \in Seq(Callers) /\ Without(who) # <<>>
<1> DEFINE n == CHOOSE n \in DOMAIN line : line[n] = who
<1>1. n \in DOMAIN line /\ line[n] = who
  BY DEF Waits
<1>2. n \in 2 .. Len(line)
  BY <1>1 DEF Holds
<1> DEFINE before == SubSeq(line, 1, n - 1)
           behind == SubSeq(line, n + 1, Len(line))
<1> HIDE DEF n
<1>3. before \in Seq(Callers) /\ Len(before) = n - 1 /\ behind \in Seq(Callers)
  <2>1. 1 \in 1 .. Len(line) + 1 /\ n - 1 \in 0 .. Len(line)
    BY <1>2
  <2>2. n + 1 \in 1 .. Len(line) + 1 /\ Len(line) \in 0 .. Len(line)
    BY <1>2
  <2> QED
    BY <1>2, <2>1, <2>2, SubSeqProperties
<1>4. \A a, b \in Seq(Callers) : a \o b \in Seq(Callers) /\ Len(a \o b) = Len(a) + Len(b)
  OBVIOUS
<1>5. Without(who) = before \o behind
  BY DEF Without, n
<1> HIDE DEF before, behind
<1>6. before \o behind \in Seq(Callers) /\ Len(before \o behind) # 0
  <2>1. before \o behind \in Seq(Callers)
    BY <1>3, <1>4
  <2>2. Len(before \o behind) = Len(before) + Len(behind) /\ Len(behind) \in Nat
    BY <1>3, <1>4
  <2> QED
    BY <1>2, <1>3, <2>1, <2>2
<1>7. Len(<<>>) = 0
  OBVIOUS
<1> QED
  BY <1>5, <1>6, <1>7

-----------------------------------------------------------------------------
(* The invariant in two parts: what is to be put right, and the lock.      *)

MemoryInv ==
    /\ running \in SUBSET Addons /\ guarded \in SUBSET Addons
    /\ mustStart \in SUBSET Addons /\ mustWatch \in SUBSET Addons
    /\ backingUp \in BOOLEAN /\ allowRun \in BOOLEAN /\ late \in BOOLEAN
    /\ stopped \in SUBSET Addons /\ unguarded \in SUBSET Addons
    /\ lost \in [start : SUBSET Addons, watchdog : SUBSET Addons]
    /\ Remembered
    /\ stopped \cap running = {} /\ unguarded \cap guarded = {}

LockInv ==
    /\ saved \in [start : SUBSET Addons, watchdog : SUBSET Addons]
    /\ line \in Seq(Callers)
    /\ step \in Steps
    /\ addon \in Addons \cup {None}
    /\ todo \in SUBSET Addons
    /\ changed \in BOOLEAN
    /\ step # "enter" => line # <<>>
    /\ step \in {"unwatch", "stop", "start", "watch"} => addon \in Addons

\* The two parts are the whole.
LEMMA TwoParts == StopperInv <=> MemoryInv /\ LockInv
BY DEF StopperInv, AddonTypeOK, MemoryInv, LockInv

\* A loop that goes on keeps the lock's part.
LEMMA GoOnKeeps ==
    ASSUME NEW loop \in {"stopInfo", "startInfo", "watchInfo"},
           NEW rest \in SUBSET Addons, NEW change \in BOOLEAN,
           LockInv, step # "enter" \/ line # <<>>,
           mustStart' \in SUBSET Addons, mustWatch' \in SUBSET Addons,
           GoOn(loop, rest, change)
    PROVE  LockInv'
<1>1. line # <<>>
  BY DEF LockInv
<1> QED
  BY <1>1, GoOnType DEF LockInv, Steps, StopSteps, CheckSteps

-----------------------------------------------------------------------------
(* One lemma for each thing the holder of the lock may do.                 *)

\* stopAddon is answered: the add-on is off, and noted.
LEMMA StoppedKeeps ==
    ASSUME MemoryInv, LockInv, Stopped
    PROVE  MemoryInv' /\ LockInv'
<1>1. MemoryInv'
  BY DEF Stopped, StopEffect, Remembers, MemoryInv, LockInv, Remembered
<1>2. GoOn("stopInfo", todo, TRUE)
  BY DEF Stopped
<1>3. LockInv'
  BY <1>1, <1>2, GoOnKeeps DEF Stopped, MemoryInv, LockInv
<1> QED
  BY <1>1, <1>3

\* startAddon is answered: the add-on runs, and is struck off.
LEMMA StartedKeeps ==
    ASSUME MemoryInv, LockInv, Started
    PROVE  MemoryInv' /\ LockInv'
<1>1. MemoryInv'
  BY DEF Started, StartEffect, MemoryInv, LockInv, Remembered
<1>2. GoOn("startInfo", todo, TRUE)
  BY DEF Started
<1>3. LockInv'
  BY <1>1, <1>2, GoOnKeeps DEF Started, MemoryInv, LockInv
<1> QED
  BY <1>1, <1>3

\* The watchdog is on again, and struck off.
LEMMA WatchedKeeps ==
    ASSUME MemoryInv, LockInv, Watched
    PROVE  MemoryInv' /\ LockInv'
<1>1. MemoryInv'
  BY DEF Watched, WatchEffect, MemoryInv, LockInv, Remembered
<1>2. GoOn("watchInfo", todo, TRUE)
  BY DEF Watched
<1>3. LockInv'
  BY <1>1, <1>2, GoOnKeeps DEF Watched, MemoryInv, LockInv
<1> QED
  BY <1>1, <1>3

\* stopAddons cannot look an add-on up: it is passed over.
LEMMA StopInfoFailsKeeps ==
    ASSUME NEW a \in Addons, MemoryInv, LockInv, StopInfoFails(a)
    PROVE  MemoryInv' /\ LockInv'
<1>1. MemoryInv'
  BY DEF StopInfoFails, supervisorVars, historyVars, MemoryInv, LockInv, Remembered
<1>2. GoOn("stopInfo", todo \ {a}, TRUE)
  BY DEF StopInfoFails
<1>3. LockInv'
  BY <1>1, <1>2, GoOnKeeps DEF StopInfoFails, MemoryInv, LockInv
<1> QED
  BY <1>1, <1>3

\* check cannot look an add-on up: it is given up.
LEMMA StartInfoFailsKeeps ==
    ASSUME NEW a \in Addons, MemoryInv, LockInv, StartInfoFails(a)
    PROVE  MemoryInv' /\ LockInv'
<1>1. MemoryInv'
  BY DEF StartInfoFails, Forgets, supervisorVars, MemoryInv, LockInv, Remembered
<1>2. GoOn("startInfo", todo \ {a}, TRUE)
  BY DEF StartInfoFails
<1>3. LockInv'
  BY <1>1, <1>2, GoOnKeeps DEF StartInfoFails, MemoryInv, LockInv
<1> QED
  BY <1>1, <1>3

\* check cannot look a watchdog up: it is given up.
LEMMA WatchInfoFailsKeeps ==
    ASSUME NEW a \in Addons, MemoryInv, LockInv, WatchInfoFails(a)
    PROVE  MemoryInv' /\ LockInv'
<1>1. MemoryInv'
  BY DEF WatchInfoFails, Forgets, supervisorVars, MemoryInv, LockInv, Remembered
<1>2. GoOn("watchInfo", todo \ {a}, TRUE)
  BY DEF WatchInfoFails
<1>3. LockInv'
  BY <1>1, <1>2, GoOnKeeps DEF WatchInfoFails, MemoryInv, LockInv
<1> QED
  BY <1>1, <1>3

\* stopAddon fails, or is done unheard.
LEMMA StopFailsKeeps ==
    ASSUME MemoryInv, LockInv, StopFails
    PROVE  MemoryInv' /\ LockInv'
<1>1. MemoryInv'
  BY DEF StopFails, Effect, NoEffect, StopEffect, StartEffect, UnwatchEffect, WatchEffect, Unheard, MemoryInv, LockInv, Remembered
<1>2. GoOn("stopInfo", todo, TRUE)
  BY DEF StopFails
<1>3. LockInv'
  BY <1>1, <1>2, GoOnKeeps DEF StopFails, MemoryInv, LockInv
<1> QED
  BY <1>1, <1>3

\* startAddon fails: the add-on is given up.
LEMMA StartFailsKeeps ==
    ASSUME MemoryInv, LockInv, StartFails
    PROVE  MemoryInv' /\ LockInv'
<1>1. MemoryInv'
  BY DEF StartFails, Effect, NoEffect, StopEffect, StartEffect, UnwatchEffect, WatchEffect, Forgets, MemoryInv, LockInv, Remembered
<1>2. GoOn("startInfo", todo, TRUE)
  BY DEF StartFails
<1>3. LockInv'
  BY <1>1, <1>2, GoOnKeeps DEF StartFails, MemoryInv, LockInv
<1> QED
  BY <1>1, <1>3

\* The watchdog cannot be switched on: it is given up.
LEMMA WatchFailsKeeps ==
    ASSUME MemoryInv, LockInv, WatchFails
    PROVE  MemoryInv' /\ LockInv'
<1>1. MemoryInv'
  BY DEF WatchFails, Effect, NoEffect, StopEffect, StartEffect, UnwatchEffect, WatchEffect, Forgets, MemoryInv, LockInv, Remembered
<1>2. GoOn("watchInfo", todo, TRUE)
  BY DEF WatchFails
<1>3. LockInv'
  BY <1>1, <1>2, GoOnKeeps DEF WatchFails, MemoryInv, LockInv
<1> QED
  BY <1>1, <1>3

\* stopAddons gets the lock.
LEMMA EnterStopKeeps ==
    ASSUME MemoryInv, LockInv, EnterStop
    PROVE  MemoryInv' /\ LockInv'
<1>1. MemoryInv'
  BY DEF EnterStop, supervisorVars, historyVars, MemoryInv, LockInv, Remembered
<1>2. LockInv'
  BY DEF EnterStop, Holds, LockInv, Steps, StopSteps, CheckSteps
<1> QED
  BY <1>1, <1>2

\* The watchdog is off, and noted.
LEMMA UnwatchedKeeps ==
    ASSUME MemoryInv, LockInv, Unwatched
    PROVE  MemoryInv' /\ LockInv'
<1>1. MemoryInv'
  BY DEF Unwatched, UnwatchEffect, Remembers, MemoryInv, LockInv, Remembered
<1>2. LockInv'
  BY DEF Unwatched, LockInv, Steps, StopSteps, CheckSteps
<1> QED
  BY <1>1, <1>2

\* The watchdog cannot be switched off, or it is done unheard.
LEMMA UnwatchFailsKeeps ==
    ASSUME MemoryInv, LockInv, UnwatchFails
    PROVE  MemoryInv' /\ LockInv'
<1>1. MemoryInv'
  BY DEF UnwatchFails, Effect, NoEffect, UnwatchEffect, StopEffect, StartEffect, WatchEffect, Unheard, stopperVars, MemoryInv, LockInv, Remembered
<1>2. LockInv'
  BY DEF UnwatchFails, stopperVars, LockInv, Steps, StopSteps, CheckSteps
<1> QED
  BY <1>1, <1>2

\* stop_start_check_time passes.
LEMMA LaterKeeps ==
    ASSUME MemoryInv, LockInv, Later
    PROVE  MemoryInv' /\ LockInv'
<1>1. MemoryInv'
  BY DEF Later, supervisorVars, historyVars, MemoryInv, LockInv, Remembered
<1>2. LockInv'
  BY DEF Later, lockVars, LockInv, Steps, StopSteps, CheckSteps
<1> QED
  BY <1>1, <1>2

\* The loops that ask the supervisor first.
LEMMA StopInfoKeeps ==
    ASSUME NEW a \in Addons, MemoryInv, LockInv, StopInfo(a)
    PROVE  MemoryInv' /\ LockInv'
<1>1. MemoryInv'
  BY DEF StopInfo, supervisorVars, historyVars, MemoryInv, Remembered
<1>2. CASE a \in running
  BY <1>1, <1>2 DEF StopInfo, Ask, LockInv, Steps, StopSteps, CheckSteps
<1>3. CASE a \notin running
  BY <1>1, <1>3, GoOnKeeps DEF StopInfo, MemoryInv, LockInv
<1> QED
  BY <1>1, <1>2, <1>3

\* check looks an add-on up: one that has been running for long is struck off.
LEMMA StartInfoKeeps ==
    ASSUME NEW a \in Addons, MemoryInv, LockInv, StartInfo(a)
    PROVE  MemoryInv' /\ LockInv'
<1>1. MemoryInv'
  BY DEF StartInfo, supervisorVars, historyVars, MemoryInv, Remembered
<1>2. CASE a \notin running
  BY <1>1, <1>2 DEF StartInfo, Ask, LockInv, Steps, StopSteps, CheckSteps
<1>3. CASE a \in running
  <2>1. GoOn("startInfo", todo \ {a}, changed \/ late) /\ (changed \/ late) \in BOOLEAN
    BY <1>3 DEF StartInfo
  <2> QED
    BY <1>1, <2>1, GoOnKeeps DEF StartInfo, MemoryInv, LockInv
<1> QED
  BY <1>1, <1>2, <1>3

\* check looks a watchdog up: one that is on is struck off.
LEMMA WatchInfoKeeps ==
    ASSUME NEW a \in Addons, MemoryInv, LockInv, WatchInfo(a)
    PROVE  MemoryInv' /\ LockInv'
<1>1. MemoryInv'
  BY DEF WatchInfo, supervisorVars, historyVars, MemoryInv, Remembered
<1>2. CASE a \notin guarded
  BY <1>1, <1>2 DEF WatchInfo, Ask, LockInv, Steps, StopSteps, CheckSteps
<1>3. CASE a \in guarded
  BY <1>1, <1>3, GoOnKeeps DEF WatchInfo, MemoryInv, LockInv
<1> QED
  BY <1>1, <1>2, <1>3

\* check gets the lock, and starts its loops or leaves.
LEMMA EnterCheckKeeps ==
    ASSUME MemoryInv, LockInv, EnterCheck
    PROVE  MemoryInv' /\ LockInv'
<1>1. MemoryInv'
  BY DEF EnterCheck, supervisorVars, historyVars, MemoryInv, Remembered
<1>2. CASE allowRun /\ ~backingUp
  BY <1>1, <1>2, GoOnKeeps DEF EnterCheck, MemoryInv, LockInv
<1>3. CASE ~(allowRun /\ ~backingUp)
  <2>1. Leave(FALSE) /\ line # <<>>
    BY <1>3 DEF EnterCheck
  <2> QED
    BY <1>1, <2>1, LeaveType DEF MemoryInv, LockInv, Steps, StopSteps, CheckSteps
<1> QED
  BY <1>1, <1>2, <1>3

\* Whatever the holder does when it is answered.
LEMMA AnswerKeeps ==
    ASSUME MemoryInv, LockInv, Answer
    PROVE  MemoryInv' /\ LockInv'
BY EnterStopKeeps, EnterCheckKeeps, StopInfoKeeps, StartInfoKeeps, WatchInfoKeeps,
   UnwatchedKeeps, StoppedKeeps, StartedKeeps, WatchedKeeps DEF Answer

\* Whatever the holder does when it is not.
LEMMA RequestFailsKeeps ==
    ASSUME MemoryInv, LockInv, RequestFails
    PROVE  MemoryInv' /\ LockInv'
BY StopInfoFailsKeeps, StartInfoFailsKeeps, WatchInfoFailsKeeps, UnwatchFailsKeeps,
   StopFailsKeeps, StartFailsKeeps, WatchFailsKeeps DEF RequestFails

-----------------------------------------------------------------------------
(* What others do to the stopper.                                          *)

\* Someone stands in line.
LEMMA ArriveKeeps ==
    ASSUME NEW who \in Callers, LockInv, Arrive(who),
           UNCHANGED <<saved, step, addon, todo, changed>>
    PROVE  LockInv'
<1>1. line' \in Seq(Callers) /\ line' # <<>>
  BY AppendProperties DEF Arrive, LockInv
<1> QED
  BY <1>1 DEF LockInv

\* The timer gets in line.
LEMMA TimerRingsKeeps ==
    ASSUME MemoryInv, LockInv, TimerRings
    PROVE  MemoryInv' /\ LockInv'
<1>1. MemoryInv'
  BY DEF TimerRings, supervisorVars, stopperVars, historyVars, MemoryInv, Remembered
<1>2. LockInv'
  BY ArriveKeeps DEF TimerRings, stopperVars, Callers
<1> QED
  BY <1>1, <1>2

\* startAddons lowers its flag and gets in line.
LEMMA FinishTaskKeeps ==
    ASSUME NEW i \in Tasks, MemoryInv, LockInv, FinishTask(i)
    PROVE  MemoryInv' /\ LockInv'
<1>1. MemoryInv'
  BY DEF FinishTask, ExpectStart, supervisorVars, historyVars, MemoryInv, Remembered
<1>2. LockInv'
  BY ArriveKeeps DEF FinishTask, ExpectStart, Callers
<1> QED
  BY <1>1, <1>2

\* A coroutine in line is cancelled, with a request under way or not.
LEMMA DropKeeps ==
    ASSUME NEW who \in Callers, Waits(who), MemoryInv, LockInv, Drop(who),
           UNCHANGED <<mustStart, mustWatch, backingUp, allowRun, late>>
    PROVE  MemoryInv' /\ LockInv'
<1>1. CASE Holds(who)
  <2>1. MemoryInv'
    BY <1>1 DEF Drop, Effect, NoEffect, StopEffect, StartEffect, UnwatchEffect,
       WatchEffect, Unheard, MemoryInv, LockInv, Remembered
  <2>2. Leave(FALSE) /\ line # <<>>
    BY <1>1 DEF Drop, Holds
  <2> QED
    BY <2>1, <2>2, LeaveType DEF MemoryInv, LockInv, Steps, StopSteps, CheckSteps
<1>2. CASE ~Holds(who)
  <2>1. MemoryInv'
    BY <1>2 DEF Drop, supervisorVars, historyVars, MemoryInv, Remembered
  <2>2. line' \in Seq(Callers) /\ line' # <<>>
    BY <1>2, WithoutType DEF Drop, LockInv
  <2> QED
    BY <1>2, <2>1, <2>2 DEF Drop, LockInv
<1> QED
  BY <1>1, <1>2

\* allowRun adds all selected add-ons to what is to be started.
LEMMA PostSyncStopperKeeps ==
    ASSUME NEW b \in BOOLEAN, MemoryInv, LockInv, PostSyncStopper(b)
    PROVE  MemoryInv' /\ LockInv'
<1>1. MemoryInv'
  BY DEF PostSyncStopper, Selected, Remembers, supervisorVars, MemoryInv, Remembered
<1>2. LockInv'
  BY DEF PostSyncStopper, lockVars, LockInv
<1> QED
  BY <1>1, <1>2

\* AddonStopper.start takes what the file says.
LEMMA RestartStopperKeeps ==
    ASSUME MemoryInv, LockInv, RestartStopper
    PROVE  MemoryInv' /\ LockInv'
<1>1. MemoryInv'
  BY DEF RestartStopper, Load, Effect, NoEffect, StopEffect, StartEffect,
     UnwatchEffect, WatchEffect, MemoryInv, LockInv, Remembered
<1>2. LockInv'
  <2>1. <<>> \in Seq(Callers)
    BY EmptySeq
  <2> QED
    BY <2>1 DEF RestartStopper, LockInv, Steps, StopSteps, CheckSteps
<1> QED
  BY <1>1, <1>2

\* The user starts or stops an add-on.
LEMMA UserKeeps ==
    ASSUME NEW a \in Addons, MemoryInv, LockInv, UserStarts(a) \/ UserStops(a)
    PROVE  MemoryInv' /\ LockInv'
<1>1. MemoryInv'
  BY DEF UserStarts, UserStops, stopperVars, MemoryInv, Remembered
<1>2. LockInv'
  BY DEF UserStarts, UserStops, stopperVars, lockVars, LockInv
<1> QED
  BY <1>1, <1>2

\* Nothing happens to the stopper.
LEMMA UnchangedKeeps ==
    ASSUME MemoryInv, LockInv, UNCHANGED addonVars
    PROVE  MemoryInv' /\ LockInv'
<1>1. MemoryInv'
  BY DEF addonVars, supervisorVars, stopperVars, historyVars, MemoryInv, Remembered
<1>2. LockInv'
  BY DEF addonVars, stopperVars, lockVars, LockInv
<1> QED
  BY <1>1, <1>2

-----------------------------------------------------------------------------
(* The steps of PendingBackup.                                             *)

\* HaSource.get, where it ends a placeholder and where it does not.
LEMMA ListKeeps ==
    ASSUME NEW who \in {Sync, Watcher}, MemoryInv, LockInv, BackupTypeOK, UseList(who)
    PROVE  /\ MemoryInv' /\ LockInv'
           /\ pending' \in Tasks \cup {None} /\ stale' \in BOOLEAN
           /\ at' \in [Tasks -> Places]
<1>1. CASE ~Drops(who)
  <2>1. UNCHANGED <<pending, stale, at, addonVars>>
    BY <1>1 DEF UseList
  <2> QED
    BY <2>1, UnchangedKeeps DEF BackupTypeOK
<1>2. CASE Drops(who)
  <2>1. pending \in Tasks /\ Kill(pending)
    BY <1>2 DEF UseList, Drops, BackupTypeOK
  <2>2. pending' = None /\ stale' = FALSE
    BY <2>1 DEF Kill
  <2>3. CASE at[pending] \in {"request", "logs"}
    <3>1. FinishTask(pending) /\ at' = [at EXCEPT ![pending] = "startAddons"]
      BY <2>1, <2>3 DEF Kill
    <3> QED
      BY <2>1, <2>2, <3>1, FinishTaskKeeps DEF BackupTypeOK, Places
  <2>4. CASE at[pending] = "startAddons" /\ Waits(pending)
    <3>1. /\ Drop(pending) /\ pending \in Callers
          /\ UNCHANGED <<at, mustStart, mustWatch, backingUp, allowRun, late>>
      BY <2>1, <2>4 DEF Kill, Callers
    <3> QED
      BY <2>2, <2>4, <3>1, DropKeeps DEF BackupTypeOK
  <2>5. CASE ~(at[pending] \in {"request", "logs"}) /\
             ~(at[pending] = "startAddons" /\ Waits(pending))
    <3>1. UNCHANGED <<at, addonVars>>
      BY <2>1, <2>5 DEF Kill
    <3> QED
      BY <2>2, <3>1, UnchangedKeeps DEF BackupTypeOK
  <2> QED
    BY <2>3, <2>4, <2>5
<1> QED
  BY <1>1, <1>2

\* The jobs of the coordinator.
LEMMA JobKeeps ==
    ASSUME MemoryInv, LockInv, BackupTypeOK, Job
    PROVE  MemoryInv' /\ LockInv'
<1>1. CASE Listed
  BY <1>1, ListKeeps DEF Listed
<1>2. CASE StopAddons
  <2>1. MemoryInv'
    BY <1>2 DEF StopAddons, supervisorVars, stopperVars, historyVars, MemoryInv, Remembered
  <2>2. LockInv'
    BY <1>2, ArriveKeeps DEF StopAddons, stopperVars, Callers
  <2> QED
    BY <2>1, <2>2
<1>3. CASE PostSync
  BY <1>3, PostSyncStopperKeeps DEF PostSync
<1>4. CASE Cancel
  <2>1. CASE job = "stopAddons"
    BY <1>4, <2>1, DropKeeps DEF Cancel, Callers
  <2>2. CASE job # "stopAddons"
    BY <1>4, <2>2, UnchangedKeeps DEF Cancel
  <2> QED
    BY <2>1, <2>2
<1>5. CASE UNCHANGED addonVars
  BY <1>5, UnchangedKeeps
<1> QED
  BY <1>1, <1>2, <1>3, <1>4, <1>5 DEF Job, GoesOn, BeginSync, BeginBackup, List,
     ReadList, NothingDue, Refuse, Request, StopWaiting, JobFails

\* The supervisor, its users and the tasks that wait for it.
LEMMA SupervisorKeeps ==
    ASSUME MemoryInv, LockInv, BackupTypeOK, Supervisor \/ Task
    PROVE  MemoryInv' /\ LockInv'
<1>1. CASE SupervisorEnds
  <2>1. CASE making \in Tasks /\ at[making] = "request"
    BY <1>1, <2>1, FinishTaskKeeps DEF SupervisorEnds
  <2>2. CASE ~(making \in Tasks /\ at[making] = "request")
    BY <1>1, <2>2, UnchangedKeeps DEF SupervisorEnds
  <2> QED
    BY <2>1, <2>2
<1>2. CASE User
  BY <1>2, UserKeeps DEF User
<1>3. ASSUME NEW i \in Tasks, GotLogs(i) PROVE MemoryInv' /\ LockInv'
  BY <1>3, FinishTaskKeeps DEF GotLogs
<1>4. CASE UNCHANGED addonVars
  BY <1>4, UnchangedKeeps
<1> QED
  BY <1>1, <1>2, <1>3, <1>4 DEF Supervisor, Task, SupervisorBegins, SupervisorBusy,
     SupervisorFails, OtherBackup, RequestTimesOut

\* Every step.
LEMMA StepKeeps ==
    ASSUME MemoryInv, LockInv, BackupTypeOK, [Next]_vars
    PROVE  MemoryInv' /\ LockInv'
<1>1. CASE Stopper
  BY <1>1, AnswerKeeps, TimerRingsKeeps, LaterKeeps DEF Stopper, StopperOnly
<1>2. CASE Job
  BY <1>2, JobKeeps
<1>3. CASE Supervisor \/ Task
  BY <1>3, SupervisorKeeps
<1>4. CASE GetsStale \/ WatcherLists
  BY <1>4, UnchangedKeeps DEF GetsStale, WatcherLists, ReadList
<1>5. CASE WatcherListed
  BY <1>5, ListKeeps DEF WatcherListed
<1>6. CASE StopperFails
  BY <1>6, RequestFailsKeeps DEF StopperFails
<1>7. CASE Restart
  BY <1>7, RestartStopperKeeps DEF Restart
<1>8. CASE UNCHANGED vars
  BY <1>8, UnchangedKeeps DEF vars
<1> QED
  BY <1>1, <1>2, <1>3, <1>4, <1>5, <1>6, <1>7, <1>8 DEF Next

-----------------------------------------------------------------------------
(* The types of the rest.                                                  *)

\* Every step keeps the types of HaSource and of the coordinator's job.
LEMMA BackupTypes ==
    ASSUME MemoryInv, LockInv, BackupTypeOK, [Next]_vars
    PROVE  BackupTypeOK'
<1> USE DEF backupVars, haVars, taskVars, listVars, jobVars
<1> DEFINE Budget == [faults : Nat, restarts : Nat, cancels : Nat, outside : Nat]
           Same == UNCHANGED <<backupVars, haVars, jobVars, budget>>
<1>1. ASSUME NEW what \in {"faults", "restarts", "cancels", "outside"}, Spend(what)
      PROVE  budget' \in Budget
  BY <1>1 DEF Spend, BackupTypeOK
<1>2. CASE Stopper \/ UNCHANGED vars
  BY <1>2 DEF Stopper, StopperOnly, vars, BackupTypeOK
<1>3. CASE StopperFails \/ User \/ OtherBackup
  BY <1>1, <1>3 DEF StopperFails, User, OtherBackup, BackupTypeOK
<1>4. CASE Listed \/ WatcherListed
  <2>1. PICK who \in {Sync, Watcher} : UseList(who)
    BY <1>4 DEF Listed, WatcherListed
  <2>2. /\ pending' \in Tasks \cup {None} /\ stale' \in BOOLEAN
        /\ at' \in [Tasks -> Places]
    BY <2>1, ListKeeps
  <2>3. UNCHANGED <<making, exists, outcome, budget>>
    BY <2>1 DEF UseList
  <2>4. /\ lastSlugs' \in SUBSET (Tasks \cup {Other})
        /\ slugs' \in [{Sync, Watcher} -> SUBSET (Tasks \cup {Other})]
    BY <2>1 DEF UseList, BackupTypeOK
  <2>5. job' \in Jobs /\ syncing' \in BOOLEAN /\ watching' \in BOOLEAN
    BY <1>4 DEF Listed, WatcherListed, BackupTypeOK, Jobs
  <2> QED
    BY <2>2, <2>3, <2>4, <2>5 DEF BackupTypeOK
<1>5. CASE List \/ WatcherLists
  BY <1>5 DEF List, WatcherLists, ReadList, BackupTypeOK, Jobs
<1>6. CASE BeginSync \/ BeginBackup \/ NothingDue \/ Refuse \/ StopAddons \/ PostSync
  BY <1>6 DEF BeginSync, BeginBackup, NothingDue, Refuse, StopAddons, PostSync,
     BackupTypeOK, Jobs
<1>7. CASE StopWaiting \/ JobFails
  BY <1>7 DEF StopWaiting, JobFails, BackupTypeOK, Jobs
<1>8. CASE Cancel
  BY <1>1, <1>8 DEF Cancel, BackupTypeOK, Jobs
<1>9. ASSUME NEW i \in Tasks, Request(i) PROVE BackupTypeOK'
  BY <1>9 DEF Request, BackupTypeOK, Jobs, Outcomes, Places
<1>10. ASSUME NEW i \in Tasks, SupervisorBegins(i) \/ SupervisorBusy(i) \/ GotLogs(i)
       PROVE  BackupTypeOK'
  BY <1>10 DEF SupervisorBegins, SupervisorBusy, GotLogs, Ends, BackupTypeOK,
     Outcomes, Places
<1>11. CASE SupervisorEnds
  BY <1>11 DEF SupervisorEnds, Ends, BackupTypeOK, Outcomes, Places
<1>12. CASE SupervisorFails
  BY <1>1, <1>12 DEF SupervisorFails, Ends, BackupTypeOK, Outcomes, Places
<1>13. ASSUME NEW i \in Tasks, RequestTimesOut(i) PROVE BackupTypeOK'
  BY <1>1, <1>13 DEF RequestTimesOut, Ends, BackupTypeOK, Outcomes, Places
<1>14. CASE GetsStale
  BY <1>14 DEF GetsStale, BackupTypeOK
<1>15. CASE Restart
  BY <1>1, <1>15 DEF Restart, BackupTypeOK, Jobs, Places
<1> QED
  BY <1>2, <1>3, <1>4, <1>5, <1>6, <1>7, <1>8, <1>9, <1>10, <1>11, <1>12, <1>13,
     <1>14, <1>15 DEF Next, Job, GoesOn, Supervisor, Task

-----------------------------------------------------------------------------
(* The line.                                                               *)

NobodyTwice == \A m, n \in DOMAIN line : line[m] = line[n] => m = n

\* One more stands in line, behind the others.
LEMMA ArriveLine ==
    ASSUME NEW who \in Callers, line \in Seq(Callers), NobodyTwice, ~Waits(who),
           Arrive(who)
    PROVE  /\ NobodyTwice'
           /\ \A x \in Callers : Waits(x)' <=> Waits(x) \/ x = who
           /\ line # <<>> => line' # <<>> /\ \A x \in Callers : Holds(x)' <=> Holds(x)
<1>1. /\ line' \in Seq(Callers) /\ Len(line') = Len(line) + 1
      /\ \A n \in 1 .. Len(line) : line'[n] = line[n]
      /\ line'[Len(line) + 1] = who
  BY AppendProperties DEF Arrive
<1>2. DOMAIN line = 1 .. Len(line) /\ DOMAIN line' = 1 .. Len(line) + 1 /\ Len(line) \in Nat
  BY <1>1
<1>3. NobodyTwice'
  BY <1>1, <1>2 DEF NobodyTwice, Waits
<1>4. \A x \in Callers : Waits(x)' <=> Waits(x) \/ x = who
  BY <1>1, <1>2 DEF Waits
<1>5. line # <<>> => line' # <<>> /\ \A x \in Callers : Holds(x)' <=> Holds(x)
  BY <1>1, <1>2 DEF Holds
<1> QED
  BY <1>3, <1>4, <1>5

\* The first one leaves.
LEMMA LeaveLine ==
    ASSUME line \in Seq(Callers), NobodyTwice, line # <<>>, line' = Tail(line)
    PROVE  /\ NobodyTwice'
           /\ \A x \in Callers : Waits(x)' <=> Waits(x) /\ ~Holds(x)
<1>1. /\ line' \in Seq(Callers) /\ Len(line') = Len(line) - 1
      /\ \A n \in 1 .. Len(line) - 1 : line'[n] = line[n + 1]
  BY HeadTailProperties
<1>2. /\ DOMAIN line = 1 .. Len(line) /\ DOMAIN line' = 1 .. Len(line) - 1
      /\ Len(line) \in Nat \ {0} /\ Head(line) = line[1]
  BY <1>1
<1>3. NobodyTwice'
  BY <1>1, <1>2 DEF NobodyTwice
<1>4. ASSUME NEW x \in Callers PROVE Waits(x)' <=> Waits(x) /\ ~Holds(x)
  <2>1. Waits(x)' => Waits(x) /\ ~Holds(x)
    BY <1>1, <1>2 DEF Waits, Holds, NobodyTwice
  <2>2. ASSUME Waits(x), ~Holds(x) PROVE Waits(x)'
    <3>1. PICK n \in 1 .. Len(line) : line[n] = x
      BY <1>2, <2>2 DEF Waits
    <3>2. n - 1 \in 1 .. Len(line) - 1 /\ line'[n - 1] = x
      BY <1>1, <1>2, <2>2, <3>1 DEF Holds
    <3> QED
      BY <1>2, <3>2 DEF Waits
  <2> QED
    BY <2>1, <2>2
<1> QED
  BY <1>3, <1>4

\* What is left of a sequence without its n-th element.
LEMMA Removal ==
    ASSUME NEW S, NEW s \in Seq(S), NEW n \in 1 .. Len(s)
    PROVE  LET t == SubSeq(s, 1, n - 1) \o SubSeq(s, n + 1, Len(s))
           IN  /\ t \in Seq(S) /\ Len(t) = Len(s) - 1
               /\ \A k \in 1 .. Len(s) - 1 : t[k] = IF k < n THEN s[k] ELSE s[k + 1]
<1> DEFINE before == SubSeq(s, 1, n - 1)
           behind == SubSeq(s, n + 1, Len(s))
           t == before \o behind
<1>1. Len(s) \in Nat /\ n \in Nat \ {0} /\ n <= Len(s) /\ \A k \in 1 .. Len(s) : s[k] \in S
  OBVIOUS
<1>2. /\ before \in Seq(S) /\ Len(before) = n - 1
      /\ \A k \in 1 .. n - 1 : before[k] = s[k]
  <2>1. \A k \in 1 .. n - 1 : s[k] \in S
    BY <1>1
  <2> QED
    BY <1>1, <2>1, SubSeqProperties
<1>3. /\ behind \in Seq(S) /\ Len(behind) = Len(s) - n
      /\ \A k \in 1 .. Len(s) - n : behind[k] = s[k + n]
  <2>1. \A k \in n + 1 .. Len(s) : s[k] \in S
    BY <1>1
  <2>2. behind \in Seq(S)
    BY <1>1, <2>1, SubSeqProperties
  <2>3. Len(behind) = Len(s) - n
    BY <1>1, <2>1, SubSeqProperties
  <2>4. \A k \in 1 .. Len(s) - (n + 1) + 1 : behind[k] = s[n + 1 + k - 1]
    BY <1>1, <2>1, SubSeqProperties
  <2> HIDE DEF behind
  <2>5. ASSUME NEW k \in 1 .. Len(s) - n PROVE behind[k] = s[k + n]
    <3>1. k \in 1 .. Len(s) - (n + 1) + 1 /\ n + 1 + k - 1 = k + n
      BY <1>1
    <3> QED
      BY <2>4, <3>1
  <2> QED
    BY <2>2, <2>3, <2>5
<1> HIDE DEF before, behind
<1>4. /\ t \in Seq(S) /\ Len(t) = Len(before) + Len(behind)
      /\ \A k \in 1 .. Len(before) + Len(behind) :
            t[k] = IF k <= Len(before) THEN before[k] ELSE behind[k - Len(before)]
  BY <1>2, <1>3, ConcatProperties
<1> HIDE DEF t
<1>5. Len(before) + Len(behind) = Len(s) - 1
  BY <1>1, <1>2, <1>3
<1>6. ASSUME NEW k \in 1 .. Len(s) - 1 PROVE t[k] = IF k < n THEN s[k] ELSE s[k + 1]
  <2>0. k \in 1 .. Len(before) + Len(behind)
    BY <1>5
  <2>1. CASE k < n
    <3>1. k \in 1 .. n - 1 /\ k <= Len(before)
      BY <1>1, <1>2, <2>1
    <3>2. t[k] = before[k]
      BY <1>4, <2>0, <3>1
    <3> QED
      BY <1>2, <2>1, <3>1, <3>2
  <2>2. CASE ~(k < n)
    <3>1. k - (n - 1) \in 1 .. Len(s) - n /\ (k - (n - 1)) + n = k + 1
      BY <1>1, <2>2
    <3>2. t[k] = behind[k - (n - 1)]
      <4>1. ~(k <= Len(before))
        BY <1>1, <1>2, <2>2
      <4> QED
        BY <1>2, <1>4, <2>0, <4>1
    <3> QED
      BY <1>3, <2>2, <3>1, <3>2
  <2> QED
    BY <2>1, <2>2
<1> QED
  BY <1>4, <1>5, <1>6 DEF t, before, behind

\* One who stands behind the first goes away.
LEMMA WithoutLine ==
    ASSUME NEW who \in Callers, line \in Seq(Callers), NobodyTwice,
           Waits(who), ~Holds(who), line' = Without(who)
    PROVE  /\ NobodyTwice'
           /\ \A x \in Callers : Waits(x)' <=> Waits(x) /\ x # who
           /\ line # <<>> /\ line' # <<>> /\ \A x \in Callers : Holds(x)' <=> Holds(x)
<1> DEFINE n == CHOOSE n \in DOMAIN line : line[n] = who
<1>1. n \in DOMAIN line /\ line[n] = who
  BY DEF Waits
<1>2. n \in 2 .. Len(line) /\ DOMAIN line = 1 .. Len(line) /\ Len(line) \in Nat
  BY <1>1 DEF Holds
<1>3. line' = SubSeq(line, 1, n - 1) \o SubSeq(line, n + 1, Len(line))
  BY DEF Without
<1> HIDE DEF n
<1>6. /\ line' \in Seq(Callers) /\ Len(line') = Len(line) - 1
      /\ \A k \in 1 .. Len(line) - 1 : line'[k] = IF k < n THEN line[k] ELSE line[k + 1]
  <2>1. n \in 1 .. Len(line)
    BY <1>2
  <2> DEFINE t == SubSeq(line, 1, n - 1) \o SubSeq(line, n + 1, Len(line))
  <2>2. /\ t \in Seq(Callers) /\ Len(t) = Len(line) - 1
        /\ \A k \in 1 .. Len(line) - 1 : t[k] = IF k < n THEN line[k] ELSE line[k + 1]
    BY <2>1, Removal
  <2>3. line' = t
    BY <1>3
  <2> HIDE DEF t
  <2> QED
    BY <2>2, <2>3
<1>7. DOMAIN line' = 1 .. Len(line) - 1
  BY <1>6
<1>8. NobodyTwice'
  <2> SUFFICES ASSUME NEW k \in 1 .. Len(line) - 1, NEW m \in 1 .. Len(line) - 1,
                      line'[k] = line'[m]
               PROVE  k = m
    BY <1>7 DEF NobodyTwice
  <2> DEFINE old(q) == IF q < n THEN q ELSE q + 1
  <2>1. /\ old(k) \in 1 .. Len(line) /\ line'[k] = line[old(k)]
        /\ old(m) \in 1 .. Len(line) /\ line'[m] = line[old(m)]
    BY <1>2, <1>6
  <2>2. old(k) = old(m)
    BY <1>2, <2>1 DEF NobodyTwice
  <2> QED
    BY <1>2, <2>2
<1>9. ASSUME NEW x \in Callers PROVE Waits(x)' <=> Waits(x) /\ x # who
  <2>1. ASSUME Waits(x)' PROVE Waits(x) /\ x # who
    <3>1. PICK k \in 1 .. Len(line) - 1 : line'[k] = x
      BY <1>7, <2>1 DEF Waits
    <3>2. PICK j \in 1 .. Len(line) : j # n /\ line[j] = x
      BY <1>2, <1>6, <3>1
    <3> QED
      BY <1>1, <1>2, <3>2 DEF Waits, NobodyTwice
  <2>2. ASSUME Waits(x), x # who PROVE Waits(x)'
    <3>1. PICK j \in 1 .. Len(line) : line[j] = x
      BY <1>2, <2>2 DEF Waits
    <3>2. j # n
      BY <1>1, <2>2, <3>1
    <3>3. CASE j < n
      BY <1>2, <1>6, <1>7, <3>1, <3>3 DEF Waits
    <3>4. CASE j > n
      <4>1. j - 1 \in 1 .. Len(line) - 1 /\ line'[j - 1] = x
        BY <1>2, <1>6, <3>1, <3>4
      <4> QED
        BY <1>7, <4>1 DEF Waits
    <3> QED
      BY <1>2, <3>1, <3>2, <3>3, <3>4
  <2> QED
    BY <2>1, <2>2
<1>10. line # <<>> /\ line' # <<>> /\ \A x \in Callers : Holds(x)' <=> Holds(x)
  BY <1>2, <1>6 DEF Holds
<1> QED
  BY <1>8, <1>9, <1>10

-----------------------------------------------------------------------------
(* What a step of the lock's holder does to the lock.                      *)

Alone ==
    /\ NobodyTwice
    /\ step = "enter" => addon = None /\ todo = {} /\ ~changed
    /\ step \in StopSteps => Holds(Creator)
    /\ step \in CheckSteps => line # <<>> /\ ~Holds(Creator)

Moves ==
    /\ line # <<>>
    /\ backingUp => backingUp'
    /\ \/ /\ line' = line /\ step' \in StopSteps /\ Holds(Creator)
          /\ step \in StopSteps \/ backingUp'
       \/ /\ line' = line /\ step' \in CheckSteps /\ ~Holds(Creator)
          /\ step \in CheckSteps \/ ~backingUp
       \/ /\ line' = Tail(line) /\ step' = "enter"
          /\ addon' = None /\ todo' = {} /\ changed' = FALSE
          /\ Holds(Creator) => step \in StopSteps

\* A loop of stopAddons goes on.
LEMMA StopGoesOn ==
    ASSUME NEW rest, Alone, step \in StopSteps, line # <<>>, UNCHANGED backingUp,
           GoOn("stopInfo", rest, TRUE)
    PROVE  Moves
BY DEF GoOn, Leave, Moves, Alone, StopSteps

\* A loop of check goes on, or begins.
LEMMA CheckGoesOn ==
    ASSUME NEW loop \in {"startInfo", "watchInfo"}, NEW rest, NEW change, Alone,
           step \in CheckSteps \/ ~backingUp, line # <<>>, ~Holds(Creator),
           UNCHANGED backingUp, GoOn(loop, rest, change)
    PROVE  Moves
<1>1. CASE Leave(change)
  BY <1>1 DEF Leave, Moves
<1>2. CASE ~Leave(change)
  BY <1>2 DEF GoOn, Moves, CheckSteps
<1> QED
  BY <1>1, <1>2

\* Each step of the holder is one of these moves.
LEMMA HolderMoves ==
    ASSUME MemoryInv, LockInv, Alone, Answer \/ RequestFails
    PROVE  Moves
<1> USE DEF LockInv
<1>1. CASE EnterStop
  BY <1>1 DEF EnterStop, Holds, Moves, StopSteps
<1>2. CASE EnterCheck
  <2>1. line # <<>> /\ ~Holds(Creator) /\ UNCHANGED backingUp
    BY <1>2 DEF EnterCheck, Holds
  <2>2. CASE allowRun /\ ~backingUp
    <3>1. GoOn("startInfo", mustStart, FALSE)
      BY <1>2, <2>2 DEF EnterCheck
    <3> QED
      BY <2>1, <2>2, <3>1, CheckGoesOn
  <2>3. CASE ~(allowRun /\ ~backingUp)
    <3>1. Leave(FALSE)
      BY <1>2, <2>3 DEF EnterCheck
    <3> QED
      BY <2>1, <3>1 DEF Leave, Moves
  <2> QED
    BY <2>2, <2>3
<1>3. ASSUME NEW a \in Addons, StopInfo(a) \/ StopInfoFails(a) PROVE Moves
  <2>1. step \in StopSteps /\ line # <<>> /\ UNCHANGED backingUp
    BY <1>3 DEF StopInfo, StopInfoFails, StopSteps
  <2>2. CASE GoOn("stopInfo", todo \ {a}, TRUE)
    BY <2>1, <2>2, StopGoesOn
  <2>3. CASE Ask("unwatch", a) \/ Ask("stop", a)
    BY <2>1, <2>3 DEF Ask, Moves, Alone, StopSteps
  <2> QED
    BY <1>3, <2>2, <2>3 DEF StopInfo, StopInfoFails
<1>4. CASE Stopped \/ StopFails
  <2>1. step \in StopSteps /\ line # <<>> /\ UNCHANGED backingUp
    BY <1>4 DEF Stopped, StopFails, StopSteps
  <2> QED
    BY <1>4, <2>1, StopGoesOn DEF Stopped, StopFails
<1>5. CASE Unwatched \/ UnwatchFails
  BY <1>5 DEF Unwatched, UnwatchFails, stopperVars, Moves, Alone, StopSteps
<1>6. ASSUME NEW a \in Addons, StartInfo(a) \/ StartInfoFails(a) PROVE Moves
  <2>1. /\ step \in CheckSteps /\ line # <<>> /\ ~Holds(Creator) /\ UNCHANGED backingUp
        /\ (changed \/ late) \in BOOLEAN
    BY <1>6 DEF StartInfo, StartInfoFails, CheckSteps, Alone
  <2>2. CASE \E change \in BOOLEAN : GoOn("startInfo", todo \ {a}, change)
    BY <2>1, <2>2, CheckGoesOn
  <2>3. CASE Ask("start", a)
    BY <2>1, <2>3 DEF Ask, Moves, CheckSteps
  <2> QED
    BY <1>6, <2>1, <2>2, <2>3 DEF StartInfo, StartInfoFails
<1>7. ASSUME NEW a \in Addons, WatchInfo(a) \/ WatchInfoFails(a) PROVE Moves
  <2>1. step \in CheckSteps /\ line # <<>> /\ ~Holds(Creator) /\ UNCHANGED backingUp
    BY <1>7 DEF WatchInfo, WatchInfoFails, CheckSteps, Alone
  <2>2. CASE GoOn("watchInfo", todo \ {a}, TRUE)
    BY <2>1, <2>2, CheckGoesOn
  <2>3. CASE Ask("watch", a)
    BY <2>1, <2>3 DEF Ask, Moves, CheckSteps
  <2> QED
    BY <1>7, <2>2, <2>3 DEF WatchInfo, WatchInfoFails
<1>8. CASE Started \/ StartFails
  <2>1. step \in CheckSteps /\ line # <<>> /\ ~Holds(Creator) /\ UNCHANGED backingUp
    BY <1>8 DEF Started, StartFails, CheckSteps, Alone
  <2> QED
    BY <1>8, <2>1, CheckGoesOn DEF Started, StartFails
<1>9. CASE Watched \/ WatchFails
  <2>1. step \in CheckSteps /\ line # <<>> /\ ~Holds(Creator) /\ UNCHANGED backingUp
    BY <1>9 DEF Watched, WatchFails, CheckSteps, Alone
  <2> QED
    BY <1>9, <2>1, CheckGoesOn DEF Watched, WatchFails
<1> QED
  BY <1>1, <1>2, <1>3, <1>4, <1>5, <1>6, <1>7, <1>8, <1>9 DEF Answer, RequestFails

-----------------------------------------------------------------------------
(* Who stands in line, and what the stopper knows.                         *)

Placed ==
    /\ Waits(Creator) => job = "stopAddons"
    /\ \A i \in Tasks : Waits(i) => at[i] = "startAddons"

\* OneAtATime is about the lock itself and about what its users are doing.
LEMMA AlonePlaced == OneAtATime <=> Alone /\ Placed
BY DEF OneAtATime, Alone, Placed, NobodyTwice

\* A task or the timer gets in line, or the creator.
LEMMA ArriveAlone ==
    ASSUME NEW who \in Callers, LockInv, Alone, ~Waits(who), Arrive(who),
           UNCHANGED <<step, addon, todo, changed>>
    PROVE  /\ Alone'
           /\ \A x \in Callers : Waits(x)' <=> Waits(x) \/ x = who
<1>1. /\ NobodyTwice'
      /\ \A x \in Callers : Waits(x)' <=> Waits(x) \/ x = who
      /\ line # <<>> => line' # <<>> /\ \A x \in Callers : Holds(x)' <=> Holds(x)
  BY ArriveLine DEF LockInv, Alone
<1>2. Creator \in Callers
  BY DEF Callers
<1>3. (step \in StopSteps => Holds(Creator))'
  <2>1. step \in StopSteps => line # <<>> /\ Holds(Creator)
    BY DEF Alone, Holds
  <2> QED
    BY <1>1, <1>2, <2>1
<1>4. (step \in CheckSteps => line # <<>> /\ ~Holds(Creator))'
  BY <1>1, <1>2 DEF Alone
<1>5. (step = "enter" => addon = None /\ todo = {} /\ ~changed)'
  BY DEF Alone
<1> QED
  BY <1>1, <1>3, <1>4, <1>5 DEF Alone

\* Someone who is in line is cancelled.
LEMMA DropAlone ==
    ASSUME NEW who \in Callers, LockInv, Alone, Waits(who), Drop(who)
    PROVE  /\ Alone'
           /\ \A x \in Callers : Waits(x)' <=> Waits(x) /\ x # who
           /\ step' \in {step, "enter"}
<1>1. CASE Holds(who)
  <2>1. /\ line # <<>> /\ line' = Tail(line) /\ step' = "enter"
        /\ addon' = None /\ todo' = {} /\ changed' = FALSE
    BY <1>1 DEF Drop, Leave, Holds
  <2>2. /\ NobodyTwice'
        /\ \A x \in Callers : Waits(x)' <=> Waits(x) /\ ~Holds(x)
    BY <2>1, LeaveLine DEF LockInv, Alone
  <2>3. \A x : Holds(x) <=> x = who
    BY <1>1 DEF Holds
  <2> QED
    BY <2>1, <2>2, <2>3 DEF Alone, StopSteps, CheckSteps
<1>2. CASE ~Holds(who)
  <2>1. line' = Without(who) /\ UNCHANGED <<step, addon, todo, changed>>
    BY <1>2 DEF Drop
  <2>2. /\ NobodyTwice'
        /\ \A x \in Callers : Waits(x)' <=> Waits(x) /\ x # who
        /\ line # <<>> /\ line' # <<>> /\ \A x \in Callers : Holds(x)' <=> Holds(x)
    BY <1>2, <2>1, WithoutLine DEF LockInv, Alone
  <2>3. Creator \in Callers
    BY DEF Callers
  <2> QED
    BY <2>1, <2>2, <2>3 DEF Alone
<1> QED
  BY <1>1, <1>2

\* The task and the placeholder that StopperKnows is about.
Awaited == pending # None /\ outcome[pending] = "pending"
AboutToAsk == job = "stopAddons" /\ (~Waits(Creator) \/ step \in StopSteps)
Quiet == backingUp /\ step \notin CheckSteps
AtWork ==
    \A i \in Tasks :
        /\ at[i] = "request" => pending = i
        /\ at[i] = "logs" => pending = i /\ outcome[i] = "unknown"

\* StopperKnows in these terms.
LEMMA KnowsParts ==
    StopperKnows <=> /\ budget.faults <= MaxFaults
                     /\ job = "stopAddons" => ~InProgress
                     /\ \A i \in Tasks : at[i] = "request" => outcome[i] = "pending"
                     /\ Faultless => AtWork /\ (Awaited \/ AboutToAsk => Quiet)
BY DEF StopperKnows, AtWork, Awaited, AboutToAsk, Quiet

\* A bound on failures is used up, or not.
Fewer == budget'.faults \in {budget.faults, budget.faults - 1}

\* Once a request has failed it stays so.
LEMMA FewerKeeps ==
    ASSUME BackupTypeOK, budget.faults <= MaxFaults, Fewer
    PROVE  (budget.faults <= MaxFaults)' /\ (Faultless' => Faultless)
BY PendingBackupAssumption DEF Fewer, Faultless, BackupTypeOK

\* The holder of the lock goes on.
LEMMA MovesKeep ==
    ASSUME LockInv, BackupTypeOK, OneAtATime, StopperKnows, Moves,
           UNCHANGED <<pending, outcome, at, job>>, Fewer
    PROVE  OneAtATime' /\ StopperKnows'
<1>1. Alone /\ Placed
  BY AlonePlaced
<1>2. /\ NobodyTwice'
      /\ \A x \in Callers : Waits(x)' => Waits(x)
      /\ Waits(Creator) => Waits(Creator)' \/ step \in StopSteps
  <2>1. CASE line' = line
    BY <1>1, <2>1 DEF Alone, NobodyTwice, Waits
  <2>2. CASE line' = Tail(line) /\ (Holds(Creator) => step \in StopSteps)
    <3>1. Creator \in Callers
      BY DEF Callers
    <3> QED
      BY <1>1, <2>2, <3>1, LeaveLine DEF LockInv, Alone, Moves
  <2> QED
    BY <2>1, <2>2 DEF Moves
<1>3. Alone'
  <2>1. (step \in StopSteps => Holds(Creator))'
    BY DEF Moves, Holds, StopSteps, CheckSteps
  <2>2. (step \in CheckSteps => line # <<>> /\ ~Holds(Creator))'
    BY DEF Moves, Holds, StopSteps, CheckSteps
  <2>3. (step = "enter" => addon = None /\ todo = {} /\ ~changed)'
    BY DEF Moves, StopSteps, CheckSteps
  <2> QED
    BY <1>2, <2>1, <2>2, <2>3 DEF Alone
<1>4. Placed'
  BY <1>1, <1>2 DEF Placed, Callers
<1>5. (budget.faults <= MaxFaults)' /\ (Faultless' => Faultless)
  BY FewerKeeps, KnowsParts
<1>6. (job = "stopAddons" => ~InProgress)' /\ (AtWork <=> AtWork') /\ (Awaited <=> Awaited')
  BY KnowsParts DEF InProgress, AtWork, Awaited
<1>7. Quiet => Quiet'
  BY DEF Quiet, Moves, StopSteps, CheckSteps
<1>8. ASSUME AboutToAsk', AboutToAsk => Quiet PROVE Quiet'
  <2>1. CASE AboutToAsk
    BY <1>7, <1>8, <2>1
  <2>2. CASE ~AboutToAsk
    <3>1. Waits(Creator) /\ step \notin StopSteps
      BY <1>8, <2>2 DEF AboutToAsk
    <3>2. step' \in StopSteps
      BY <1>2, <1>8, <3>1 DEF AboutToAsk
    <3> QED
      BY <3>1, <3>2 DEF Quiet, Moves, StopSteps, CheckSteps
  <2> QED
    BY <2>1, <2>2
<1>9. StopperKnows'
  BY <1>5, <1>6, <1>7, <1>8, KnowsParts DEF StopperKnows, AtWork, Awaited, AboutToAsk, Quiet
<1> QED
  BY <1>3, <1>4, <1>9, AlonePlaced DEF OneAtATime, Alone, Placed, NobodyTwice

\* The names of the other coroutines are not those of tasks.
LEMMA AbsentNone == None \notin Tasks /\ Creator \notin Tasks /\ Timer \notin Tasks
BY AddonStopperAssumption

\* Nobody moves in the line.
LEMMA SameLine ==
    ASSUME OneAtATime, UNCHANGED <<lockVars, job, at>>
    PROVE  OneAtATime'
BY DEF OneAtATime, lockVars, Waits, Holds

\* A task gets in line for the add-ons: it waits there for the first time.
LEMMA FinishAlone ==
    ASSUME NEW i \in Tasks, LockInv, OneAtATime, at[i] # "startAddons", FinishTask(i)
    PROVE  /\ Alone' /\ UNCHANGED step
           /\ \A x \in Callers : Waits(x)' <=> Waits(x) \/ x = i
<1>1. i \in Callers /\ ~Waits(i)
  BY DEF Callers, OneAtATime
<1>2. Arrive(i) /\ UNCHANGED <<step, addon, todo, changed>>
  BY DEF FinishTask, ExpectStart
<1> QED
  BY <1>1, <1>2, ArriveAlone, AlonePlaced

\* Whoever uses a listing: the placeholder may go, and then its task gets in
\* line or out of it.  Nobody is about to ask for a backup meanwhile.
LEMMA UseListKeeps ==
    ASSUME NEW who \in {Sync, Watcher}, LockInv, BackupTypeOK, OneAtATime, StopperKnows,
           UseList(who), job = "stopAddons" => pending = None,
           job' = "stopAddons" <=> job = "stopAddons"
    PROVE  OneAtATime' /\ StopperKnows'
<1>0. UNCHANGED <<outcome, budget>>
  BY DEF UseList
<1>1. CASE ~Drops(who)
  <2>1. UNCHANGED <<pending, at, addonVars>>
    BY <1>1 DEF UseList
  <2> QED
    BY <1>0, <2>1 DEF OneAtATime, StopperKnows, InProgress, Faultless, addonVars,
       lockVars, stopperVars, Waits, Holds
<1>2. CASE Drops(who)
  <2> DEFINE i == pending
  <2>1. i \in Tasks /\ Kill(i) /\ job # "stopAddons" /\ job' # "stopAddons"
    BY <1>2, AbsentNone DEF UseList, Drops, BackupTypeOK
  <2>2. pending' = None
    BY <2>1 DEF Kill
  <2>3. StopperKnows'
    <3>1. Faultless => \A j \in Tasks : at'[j] \notin {"request", "logs"}
      BY <2>1, AbsentNone DEF StopperKnows, Kill, BackupTypeOK
    <3>2. \A j \in Tasks : at'[j] = "request" => at[j] = "request"
      BY <2>1 DEF Kill, BackupTypeOK
    <3> QED
      BY <1>0, <2>1, <2>2, <3>1, <3>2 DEF StopperKnows, Faultless
  <2>4. CASE at[i] \in {"request", "logs"}
    <3>1. FinishTask(i) /\ at' = [at EXCEPT ![i] = "startAddons"]
      BY <2>1, <2>4 DEF Kill
    <3>2. /\ Alone'
          /\ \A x \in Callers : Waits(x)' <=> Waits(x) \/ x = i
      BY <2>1, <2>4, <3>1, FinishAlone
    <3>3. Placed'
      BY <2>1, <3>1, <3>2, AlonePlaced, AbsentNone DEF Placed, Callers, BackupTypeOK
    <3> QED
      BY <2>3, <3>2, <3>3, AlonePlaced DEF OneAtATime, Alone, Placed, NobodyTwice
  <2>5. CASE at[i] = "startAddons" /\ Waits(i)
    <3>1. Drop(i) /\ UNCHANGED at /\ i \in Callers
      BY <2>1, <2>5 DEF Kill, Callers
    <3>2. /\ Alone'
          /\ \A x \in Callers : Waits(x)' <=> Waits(x) /\ x # i
      BY <2>5, <3>1, DropAlone, AlonePlaced
    <3>3. Placed'
      BY <2>1, <3>1, <3>2, AlonePlaced DEF Placed, Callers
    <3> QED
      BY <2>3, <3>2, <3>3, AlonePlaced DEF OneAtATime, Alone, Placed, NobodyTwice
  <2>6. CASE ~(at[i] \in {"request", "logs"}) /\ ~(at[i] = "startAddons" /\ Waits(i))
    <3>1. UNCHANGED <<at, addonVars>>
      BY <2>1, <2>6 DEF Kill
    <3> QED
      BY <2>1, <2>3, <3>1 DEF OneAtATime, addonVars, lockVars, Waits, Holds
  <2> QED
    BY <2>4, <2>5, <2>6
<1> QED
  BY <1>1, <1>2

\* The jobs of the coordinator.
LEMMA JobKeepsOrder ==
    ASSUME LockInv, BackupTypeOK, OneAtATime, StopperKnows, Job
    PROVE  OneAtATime' /\ StopperKnows'
<1> USE DEF addonVars, haVars, taskVars, listVars, jobVars
<1>1. CASE Listed
  BY <1>1, UseListKeeps DEF Listed
<1>2. CASE \/ BeginSync \/ BeginBackup \/ List \/ NothingDue \/ Refuse \/ StopWaiting
           \/ JobFails
  <2>1. /\ UNCHANGED <<addonVars, pending, outcome, at, budget>>
        /\ job # "stopAddons" /\ job' # "stopAddons"
    BY <1>2 DEF BeginSync, BeginBackup, List, ReadList, NothingDue, Refuse, StopWaiting,
       JobFails
  <2> QED
    BY <2>1 DEF OneAtATime, StopperKnows, Faultless, lockVars, stopperVars, Waits, Holds
<1>3. CASE StopAddons
  <2>1. /\ ~Waits(Creator) /\ Creator \in Callers /\ Arrive(Creator)
        /\ UNCHANGED <<step, addon, todo, changed, backingUp, pending, outcome, at, budget>>
        /\ job' = "stopAddons" /\ ~InProgress
    BY <1>3 DEF StopAddons, OneAtATime, Callers, stopperVars
  <2>2. Alone' /\ \A x \in Callers : Waits(x)' <=> Waits(x) \/ x = Creator
    BY <2>1, ArriveAlone, AlonePlaced
  <2>3. Placed'
    BY <2>1, <2>2, AlonePlaced, AbsentNone DEF Placed, Callers
  <2>4. step \notin StopSteps
    <3>1. step \in StopSteps => Waits(Creator)
      BY <2>1 DEF OneAtATime, Holds, Waits, LockInv, StopSteps
    <3> QED
      BY <2>1, <3>1
  <2>5. StopperKnows'
    BY <2>1, <2>2, <2>4 DEF StopperKnows, Faultless, InProgress
  <2> QED
    BY <2>2, <2>3, <2>5, AlonePlaced DEF OneAtATime, Alone, Placed, NobodyTwice
<1>4. ASSUME NEW i \in Tasks, Request(i) PROVE OneAtATime' /\ StopperKnows'
  <2>1. /\ job = "stopAddons" /\ ~Waits(Creator) /\ ~InProgress /\ at[i] = "none"
        /\ job' = "wait" /\ pending' = i /\ outcome' = [outcome EXCEPT ![i] = "pending"]
        /\ at' = [at EXCEPT ![i] = "request"] /\ UNCHANGED <<addonVars, budget>>
    BY <1>4 DEF Request, Unused, StopperKnows
  <2>2. OneAtATime'
    BY <2>1, AbsentNone DEF OneAtATime, lockVars, Waits, Holds, BackupTypeOK
  <2>3. Faultless => \A j \in Tasks : at[j] \notin {"request", "logs"}
    BY <2>1, AbsentNone DEF StopperKnows, InProgress
  <2>4. StopperKnows'
    BY <2>1, <2>3 DEF StopperKnows, Faultless, lockVars, stopperVars, BackupTypeOK
  <2> QED
    BY <2>2, <2>4
<1>5. CASE PostSync
  <2>1. /\ job = "rest" /\ job' = "idle" /\ backingUp' = (pending # None)
        /\ UNCHANGED <<lockVars, pending, outcome, at, budget>>
    BY <1>5 DEF PostSync, PostSyncStopper
  <2>2. OneAtATime'
    BY <2>1 DEF OneAtATime, lockVars, Waits, Holds
  <2>3. StopperKnows'
    BY <2>1 DEF StopperKnows, Faultless, lockVars
  <2> QED
    BY <2>2, <2>3
<1>6. CASE Cancel
  <2>1. /\ job' = "idle" /\ UNCHANGED <<pending, outcome, at, backingUp>>
        /\ budget'.faults = budget.faults
    BY <1>6 DEF Cancel, Spend, stopperVars, BackupTypeOK
  <2>2. CASE job = "stopAddons"
    <3>1. Drop(Creator) /\ Waits(Creator) /\ Creator \in Callers
      BY <1>6, <2>2 DEF Cancel, Callers
    <3>2. /\ Alone' /\ step' \in {step, "enter"}
          /\ \A x \in Callers : Waits(x)' <=> Waits(x) /\ x # Creator
      BY <3>1, DropAlone, AlonePlaced
    <3>3. Placed'
      BY <2>1, <3>1, <3>2, AlonePlaced DEF Placed, Callers
    <3>4. StopperKnows'
      BY <2>1, <3>2 DEF StopperKnows, Faultless, CheckSteps
    <3> QED
      BY <3>2, <3>3, <3>4, AlonePlaced DEF OneAtATime, Alone, Placed, NobodyTwice
  <2>3. CASE job # "stopAddons"
    <3>1. UNCHANGED addonVars
      BY <1>6, <2>3 DEF Cancel
    <3> QED
      BY <2>1, <2>3, <3>1 DEF OneAtATime, StopperKnows, Faultless, lockVars, stopperVars,
         Waits, Holds
  <2> QED
    BY <2>2, <2>3
<1> QED
  BY <1>1, <1>2, <1>3, <1>4, <1>5, <1>6 DEF Job, GoesOn

\* The supervisor and the tasks.
LEMMA SupervisorKeepsOrder ==
    ASSUME LockInv, BackupTypeOK, OneAtATime, StopperKnows, Supervisor \/ Task
    PROVE  OneAtATime' /\ StopperKnows'
<1> USE DEF addonVars, haVars, taskVars, listVars, jobVars, lockVars
<1>1. CASE \/ OtherBackup \/ User \/ \E i \in Tasks : SupervisorBegins(i)
           \/ SupervisorEnds /\ ~(making \in Tasks /\ at[making] = "request")
  <2>1. /\ UNCHANGED <<line, step, addon, todo, changed, backingUp, pending, outcome, at, job>>
        /\ budget'.faults = budget.faults
    BY <1>1 DEF OtherBackup, User, UserStarts, UserStops, SupervisorBegins,
       SupervisorEnds, stopperVars, Spend, BackupTypeOK
  <2> QED
    BY <2>1 DEF OneAtATime, StopperKnows, Faultless, InProgress, Waits, Holds
<1>2. CASE SupervisorFails \/ \E i \in Tasks : RequestTimesOut(i)
  <2>1. /\ UNCHANGED <<lockVars, pending, job>> /\ budget'.faults = budget.faults - 1
        /\ \/ UNCHANGED <<outcome, at>>
           \/ \E i \in Tasks : /\ at[i] = "request"
                               /\ outcome' = [outcome EXCEPT ![i] = "failed"]
                               /\ at' = [at EXCEPT ![i] = "logs"]
    BY <1>2 DEF SupervisorFails, RequestTimesOut, Ends, Spend, BackupTypeOK
  <2>2. budget'.faults <= MaxFaults /\ ~Faultless'
    BY <2>1, PendingBackupAssumption DEF StopperKnows, Faultless, BackupTypeOK
  <2>3. (job = "stopAddons" => ~InProgress)'
    BY <2>1 DEF StopperKnows, InProgress, BackupTypeOK
  <2>4. StopperKnows'
    <3>1. (\A i \in Tasks : at[i] = "request" => outcome[i] = "pending")'
      BY <2>1 DEF StopperKnows, BackupTypeOK
    <3> QED
      BY <2>2, <2>3, <3>1 DEF StopperKnows
  <2>5. OneAtATime'
    BY <2>1 DEF OneAtATime, Waits, Holds, BackupTypeOK
  <2> QED
    BY <2>4, <2>5
<1>3. ASSUME NEW i \in Tasks, SupervisorBusy(i) PROVE OneAtATime' /\ StopperKnows'
  <2>1. /\ UNCHANGED <<addonVars, pending, job, budget>> /\ at[i] = "request"
        /\ outcome' = [outcome EXCEPT ![i] = "unknown"] /\ at' = [at EXCEPT ![i] = "logs"]
    BY <1>3 DEF SupervisorBusy, Ends
  <2>2. OneAtATime'
    BY <2>1 DEF OneAtATime, Waits, Holds, BackupTypeOK
  <2>3. (job = "stopAddons" => ~InProgress)'
    BY <2>1 DEF StopperKnows, InProgress, BackupTypeOK, Outcomes
  <2>4. StopperKnows'
    BY <2>1, <2>3 DEF StopperKnows, Faultless, InProgress, stopperVars, Waits, BackupTypeOK
  <2> QED
    BY <2>2, <2>4
<1>4. ASSUME NEW i \in Tasks, FinishTask(i), at[i] \in {"request", "logs"},
             at' = [at EXCEPT ![i] = "startAddons"],
             UNCHANGED <<pending, job, budget>>,
             outcome' \in {outcome, [outcome EXCEPT ![i] = "complete"]},
             at[i] = "request" => outcome'[i] = "complete"
      PROVE  OneAtATime' /\ StopperKnows'
  <2>1. /\ Alone' /\ UNCHANGED step
        /\ \A x \in Callers : Waits(x)' <=> Waits(x) \/ x = i
    BY <1>4, FinishAlone
  <2>2. Placed'
    BY <1>4, <2>1, AlonePlaced, AbsentNone DEF Placed, Callers, BackupTypeOK
  <2>3. (job = "stopAddons" => ~InProgress)'
    BY <1>4 DEF StopperKnows, InProgress, BackupTypeOK
  <2>4. ASSUME Faultless PROVE /\ pending = i /\ job # "stopAddons"
                               /\ outcome'[i] # "pending"
    BY <1>4, <2>4, AbsentNone DEF StopperKnows, InProgress, BackupTypeOK
  <2>5. StopperKnows'
    BY <1>4, <2>3, <2>4 DEF StopperKnows, Faultless, BackupTypeOK
  <2> QED
    BY <2>1, <2>2, <2>5, AlonePlaced DEF OneAtATime, Alone, Placed, NobodyTwice
<1>5. CASE SupervisorEnds /\ making \in Tasks /\ at[making] = "request"
  BY <1>4, <1>5 DEF SupervisorEnds, Ends, BackupTypeOK
<1>6. ASSUME NEW i \in Tasks, GotLogs(i) PROVE OneAtATime' /\ StopperKnows'
  BY <1>4, <1>6 DEF GotLogs
<1> QED
  BY <1>1, <1>2, <1>3, <1>5, <1>6 DEF Supervisor, Task

\* Every step keeps the order of the lock and what the stopper knows.
LEMMA StepKeepsOrder ==
    ASSUME MemoryInv, LockInv, BackupTypeOK, OneAtATime, StopperKnows, [Next]_vars
    PROVE  OneAtATime' /\ StopperKnows'
<1> USE DEF addonVars, haVars, taskVars, listVars, jobVars
<1>1. CASE StopperOnly(Answer) \/ StopperFails
  <2>1. Answer \/ RequestFails
    BY <1>1 DEF StopperOnly, StopperFails
  <2>2. Moves
    BY <2>1, HolderMoves, AlonePlaced
  <2>3. UNCHANGED <<pending, outcome, at, job>> /\ Fewer
    BY <1>1 DEF StopperOnly, StopperFails, Spend, Fewer, BackupTypeOK
  <2> QED
    BY <2>2, <2>3, MovesKeep
<1>2. CASE StopperOnly(TimerRings)
  <2>1. /\ Timer \in Callers /\ ~Waits(Timer) /\ Arrive(Timer)
        /\ UNCHANGED <<step, addon, todo, changed, backingUp, pending, outcome, at, job, budget>>
    BY <1>2 DEF StopperOnly, TimerRings, stopperVars, Callers
  <2>2. Alone' /\ \A x \in Callers : Waits(x)' <=> Waits(x) \/ x = Timer
    BY <2>1, ArriveAlone, AlonePlaced
  <2>3. Placed' /\ (Waits(Creator) <=> Waits(Creator)')
    BY <2>1, <2>2, AlonePlaced, AbsentNone DEF Placed, Callers, Creator, Timer
  <2>4. StopperKnows'
    BY <2>1, <2>3 DEF StopperKnows, Faultless, InProgress
  <2> QED
    BY <2>2, <2>3, <2>4, AlonePlaced DEF OneAtATime, Alone, Placed, NobodyTwice
<1>3. CASE StopperOnly(Later) \/ GetsStale \/ WatcherLists \/ UNCHANGED vars
  <2>1. UNCHANGED <<lockVars, backingUp, pending, outcome, at, job, budget>>
    BY <1>3 DEF StopperOnly, Later, GetsStale, WatcherLists, ReadList, vars, stopperVars
  <2> QED
    BY <2>1 DEF OneAtATime, StopperKnows, Faultless, InProgress, lockVars, Waits, Holds
<1>4. CASE Job
  BY <1>4, JobKeepsOrder
<1>5. CASE Supervisor \/ Task
  BY <1>5, SupervisorKeepsOrder
<1>6. CASE WatcherListed
  BY <1>6, UseListKeeps DEF WatcherListed, Creating
<1>7. CASE Restart
  <2>1. /\ line' = <<>> /\ step' = "enter" /\ addon' = None /\ todo' = {} /\ changed' = FALSE
        /\ pending' = None /\ job' = "idle" /\ budget'.faults = budget.faults
        /\ \A i \in Tasks : at'[i] \in {"none", "startAddons"}
    BY <1>7 DEF Restart, RestartStopper, Spend, BackupTypeOK
  <2>2. \A x : ~Waits(x)'
    BY <2>1 DEF Waits
  <2>3. OneAtATime'
    BY <2>1, <2>2 DEF OneAtATime, StopSteps, CheckSteps
  <2>4. StopperKnows'
    BY <2>1 DEF StopperKnows, Faultless
  <2> QED
    BY <2>3, <2>4
<1> QED
  BY <1>1, <1>2, <1>3, <1>4, <1>5, <1>6, <1>7 DEF Next, Stopper, StopperOnly

-----------------------------------------------------------------------------
(* The theorems.                                                           *)

Inv == StopperInv /\ BackupTypeOK /\ OneAtATime /\ StopperKnows

\* The invariant holds when the add-on is started for the first time.
LEMMA Initially == Init => Inv
<1> SUFFICES ASSUME Init PROVE Inv
  OBVIOUS
<1>1. StopperInv
  <2>1. <<>> \in Seq(Callers)
    BY EmptySeq
  <2> QED
    BY <2>1 DEF Init, AddonInit, Memory, StopperInv, AddonTypeOK, Remembered, Steps, StopSteps, CheckSteps
<1>2. BackupTypeOK
  BY PendingBackupAssumption DEF Init, BackupTypeOK, Outcomes, Places, Jobs
<1>3. OneAtATime /\ StopperKnows
  BY PendingBackupAssumption DEF Init, AddonInit, OneAtATime, StopperKnows, Waits,
     StopSteps, CheckSteps, InProgress, Faultless
<1> QED
  BY <1>1, <1>2, <1>3 DEF Inv

\* Every step keeps it.
LEMMA Inductive == Inv /\ [Next]_vars => Inv'
<1> SUFFICES ASSUME Inv, [Next]_vars PROVE Inv'
  OBVIOUS
<1>1. MemoryInv /\ LockInv /\ BackupTypeOK /\ OneAtATime /\ StopperKnows
  BY TwoParts DEF Inv
<1>2. MemoryInv' /\ LockInv'
  BY <1>1, StepKeeps
<1>3. BackupTypeOK'
  BY <1>1, BackupTypes
<1>4. StopperInv'
  BY <1>2 DEF StopperInv, AddonTypeOK, MemoryInv, LockInv
<1>5. OneAtATime' /\ StopperKnows'
  BY <1>1, StepKeepsOrder
<1> QED
  BY <1>3, <1>4, <1>5 DEF Inv

\* What the add-on stopper stopped or switched off and has to put right is in
\* its memory (AddonStopper.must_start, must_enable_watchdog), it is as it was
\* left, and only the holder of the lock has a request under way.
THEOREM StopperInvariant == Spec => []StopperInv
<1>1. Init => Inv
  BY Initially
<1>2. Inv /\ [Next]_vars => Inv'
  BY Inductive
<1>3. Inv => StopperInv
  BY DEF Inv
<1> QED
  BY <1>1, <1>2, <1>3, PTL DEF Spec

\* Type correctness of the stopper, HaSource and the job of the coordinator.
THEOREM TypeCorrect == Spec => []TypeOK
<1>1. Init => Inv
  BY Initially
<1>2. Inv /\ [Next]_vars => Inv'
  BY Inductive
<1>3. Inv => TypeOK
  BY DEF Inv, StopperInv, TypeOK
<1> QED
  BY <1>1, <1>2, <1>3, PTL DEF Spec

\* While it may start add-ons the stopper forgets none that it stopped, but for
\* those it gave up on or never heard of (AddonStopper.check).
THEOREM NothingForgotten == Spec => []Remembered
<1>1. StopperInv => Remembered
  BY DEF StopperInv
<1> QED
  BY <1>1, StopperInvariant, PTL

\* Nobody stands in line twice, and the holder of the lock alone has a request
\* under way (AddonStopper.lock, HaSource.create).
THEOREM InOrder == Spec => []OneAtATime
<1>1. Init => Inv
  BY Initially
<1>2. Inv /\ [Next]_vars => Inv'
  BY Inductive
<1>3. Inv => OneAtATime
  BY DEF Inv
<1> QED
  BY <1>1, <1>2, <1>3, PTL DEF Spec

\* While the backup of a placeholder is about to be made or being made, the
\* stopper knows that one is (AddonStopper._backing_up), unless a request failed.
THEOREM StopperIsTold == Spec => []StopperKnows
<1>1. Init => Inv
  BY Initially
<1>2. Inv /\ [Next]_vars => Inv'
  BY Inductive
<1>3. Inv => StopperKnows
  BY DEF Inv
<1> QED
  BY <1>1, <1>2, <1>3, PTL DEF Spec

\* While no request has failed, no add-on is started during the backup that the
\* placeholder stands for (AddonStopper._backing_up, HaSource._requestAsync).
THEOREM Undisturbed == Spec => KnownBackupUndisturbed
<1> DEFINE Disturbed == making = pending /\ making # None /\ outcome[making] = "pending"
<1>1. Init => Inv
  BY Initially
<1>2. Inv /\ [Next]_vars => Inv'
  BY Inductive
<1>3. Inv => (StartsAddon /\ Faultless => ~Disturbed)
  BY DEF Inv, StopperKnows, StartsAddon, CheckSteps
<1>4. Inv /\ [Next]_vars => [StartsAddon /\ Faultless => ~Disturbed]_vars
  BY <1>3
<1> QED
  BY <1>1, <1>2, <1>4, PTL DEF Spec, KnownBackupUndisturbed
=============================================================================
