---------------------------- MODULE AddonStopper ----------------------------
(***************************************************************************)
(* The add-ons the user selected are stopped before a backup and started   *)
(* after it; the supervisor's watchdog of a stopped add-on is switched off *)
(* meanwhile.  Three kinds of coroutine work on this: the one that creates *)
(* a backup (stopAddons), the one that waited for it (startAddons) and a   *)
(* timer (check).  An asyncio.Lock lets them in one by one, in the order   *)
(* they came.  Each step below ends where the coroutine awaits the         *)
(* supervisor's answer; what the supervisor does is part of the step that  *)
(* handles its answer.                                                     *)
(*                                                                         *)
(* What of it is to be started again is kept in memory and in a file.      *)
(***************************************************************************)
EXTENDS Integers, Sequences, FiniteSets

CONSTANTS
    Addons,     \* the add-ons of the setting stop_addons
    Own,        \* this add-on, which may be one of them
    Tasks       \* the requests for a backup that may ever be made

Creator == "creator"
Timer == "timer"
None == "none"

ASSUME AddonStopperAssumption ==
    /\ Tasks \cap {Creator, Timer, None, "other"} = {}
    /\ None \notin Addons
    /\ Addons \ {Own} # {}

VARIABLES
    \* The supervisor.
    running,    \* the add-ons whose state is one of STATES_STARTED
    guarded,    \* those whose watchdog is on
    \* AddonStopper and its file.
    mustStart, mustWatch,
    saved,
    backingUp,  \* _backing_up
    allowRun,   \* allow_run
    late,       \* now > stop_start_check_time
    line,       \* who holds the lock, and who waits for it
    step,       \* where the holder is
    addon,      \* the add-on it has asked the supervisor to change
    todo,       \* the add-ons its loop has not come to yet
    changed,    \* changes
    \* History, read by no guard of the system.
    stopped,    \* stopped by a request of the stopper, and not started since
    unguarded,  \* watchdog switched off by the stopper, and not on since
    lost        \* [start, watchdog]: what the stopper gave up or never heard of

supervisorVars == <<running, guarded>>
stopperVars == <<mustStart, mustWatch, saved, backingUp, allowRun, late>>
lockVars == <<line, step, addon, todo, changed>>
historyVars == <<stopped, unguarded, lost>>
addonVars == <<supervisorVars, stopperVars, lockVars, historyVars>>

StopSteps == {"stopInfo", "unwatch", "stop"}
CheckSteps == {"startInfo", "start", "watchInfo", "watch"}
Steps == {"enter"} \cup StopSteps \cup CheckSteps

Callers == Tasks \cup {Creator, Timer}

Holds(who) == line # <<>> /\ Head(line) = who
Waits(who) == \E n \in DOMAIN line : line[n] = who
Memory == [start |-> mustStart, watchdog |-> mustWatch]

-----------------------------------------------------------------------------
(* What a request does at the supervisor.                                  *)

StopEffect ==
    /\ running' = running \ {addon}
    /\ stopped' = IF addon \in running THEN stopped \cup {addon} ELSE stopped
    /\ UNCHANGED <<guarded, unguarded>>
StartEffect ==
    /\ running' = running \cup {addon}
    /\ stopped' = stopped \ {addon}
    /\ UNCHANGED <<guarded, unguarded>>
UnwatchEffect ==
    /\ guarded' = guarded \ {addon}
    /\ unguarded' = unguarded \cup {addon}
    /\ UNCHANGED <<running, stopped>>
WatchEffect ==
    /\ guarded' = guarded \cup {addon}
    /\ unguarded' = unguarded \ {addon}
    /\ UNCHANGED <<running, stopped>>
NoEffect == UNCHANGED <<running, guarded, stopped, unguarded>>

\* The holder's request is made, or not, but nobody hears the answer.
Effect ==
    \/ NoEffect
    \/ step = "stop" /\ StopEffect
    \/ step = "start" /\ StartEffect
    \/ step = "unwatch" /\ UnwatchEffect
    \/ step = "watch" /\ WatchEffect

\* What nobody hears of is lost.
Unheard ==
    lost' = [start |-> lost.start \cup (stopped' \ stopped),
             watchdog |-> lost.watchdog \cup (unguarded' \ unguarded)]

Forgets(kind, a) == lost' = [lost EXCEPT ![kind] = @ \cup {a}]
Remembers(kind, S) == lost' = [lost EXCEPT ![kind] = @ \ S]

-----------------------------------------------------------------------------
(* The lock.                                                               *)

Arrive(who) == line' = Append(line, who)

\* The line without who, who stands in it.
Without(who) ==
    LET n == CHOOSE n \in DOMAIN line : line[n] = who
    IN  SubSeq(line, 1, n - 1) \o SubSeq(line, n + 1, Len(line))

\* The holder lets the next one in; with save it writes the file first.
Leave(save) ==
    /\ line' = Tail(line) /\ step' = "enter" /\ addon' = None /\ todo' = {}
    /\ changed' = FALSE
    /\ saved' = IF save THEN Memory' ELSE saved

\* It goes on with the loop it is in, or with the next one.
GoOn(loop, rest, change) ==
    LET watches == mustWatch' \ mustStart'
        at(next, more) == /\ step' = next /\ todo' = more /\ addon' = None
                          /\ changed' = change
                          /\ UNCHANGED <<line, saved>>
    IN  IF rest # {} THEN at(loop, rest)
        ELSE IF loop = "startInfo" /\ watches # {} THEN at("watchInfo", watches)
        ELSE Leave(change)

Ask(request, a) ==
    /\ step' = request /\ addon' = a /\ todo' = todo \ {a}
    /\ UNCHANGED <<line, saved>>

-----------------------------------------------------------------------------
(* stopAddons                                                              *)

\* Everything selected is to be stopped, this add-on itself excepted.
EnterStop ==
    /\ Holds(Creator) /\ step = "enter"
    /\ backingUp' = TRUE
    /\ step' = "stopInfo" /\ todo' = Addons \ {Own}
    /\ UNCHANGED <<supervisorVars, historyVars, mustStart, mustWatch, saved, allowRun,
                   late, line, addon, changed>>

\* The supervisor says what the add-on is doing; one that is not running is
\* left alone.
StopInfo(a) ==
    /\ step = "stopInfo" /\ a \in todo
    /\ UNCHANGED <<supervisorVars, historyVars, mustStart, mustWatch, backingUp,
                   allowRun, late>>
    /\ IF a \in running
       THEN Ask(IF a \in guarded THEN "unwatch" ELSE "stop", a) /\ UNCHANGED changed
       ELSE GoOn("stopInfo", todo \ {a}, TRUE)

Unwatched ==
    /\ step = "unwatch"
    /\ UnwatchEffect
    /\ mustWatch' = mustWatch \cup {addon} /\ Remembers("watchdog", {addon})
    /\ step' = "stop"
    /\ UNCHANGED <<mustStart, saved, backingUp, allowRun, late, line, addon,
                   todo, changed>>

\* (slip) What was stopped is noted in the file only.
StoppedUnnoted ==
    /\ step = "stop"
    /\ StopEffect /\ Remembers("start", {addon})
    /\ UNCHANGED <<mustStart, mustWatch, backingUp, allowRun, late>>
    /\ GoOn("stopInfo", todo, TRUE)

Stopped ==
    /\ step = "stop"
    /\ StopEffect
    /\ mustStart' = mustStart \cup {addon} /\ Remembers("start", {addon})
    /\ UNCHANGED <<mustWatch, backingUp, allowRun, late>>
    /\ GoOn("stopInfo", todo, TRUE)

-----------------------------------------------------------------------------
(* startAddons and the timer                                               *)

\* startAddons needs no lock for this.
ExpectStart(who) ==
    /\ backingUp' = FALSE /\ late' = FALSE
    /\ Arrive(who)

TimerRings ==
    /\ ~Waits(Timer)
    /\ Arrive(Timer)
    /\ UNCHANGED <<supervisorVars, stopperVars, historyVars, step, addon, todo, changed>>

\* (slip) The timer does not look whether a backup is being made.
EnterCheckAlways ==
    /\ line # <<>> /\ Head(line) # Creator /\ step = "enter"
    /\ UNCHANGED <<supervisorVars, historyVars, mustStart, mustWatch, backingUp,
                   allowRun, late>>
    /\ IF allowRun THEN GoOn("startInfo", mustStart, FALSE) ELSE Leave(FALSE)

EnterCheck ==
    /\ line # <<>> /\ Head(line) # Creator /\ step = "enter"
    /\ UNCHANGED <<supervisorVars, historyVars, mustStart, mustWatch, backingUp,
                   allowRun, late>>
    /\ IF allowRun /\ ~backingUp THEN GoOn("startInfo", mustStart, FALSE) ELSE Leave(FALSE)

\* A stopped add-on is started; one that has been running for a while need
\* not be.
StartInfo(a) ==
    /\ step = "startInfo" /\ a \in todo
    /\ UNCHANGED <<supervisorVars, historyVars, mustWatch, backingUp, allowRun, late>>
    /\ IF a \notin running
       THEN Ask("start", a) /\ UNCHANGED <<mustStart, changed>>
       ELSE /\ mustStart' = IF late THEN mustStart \ {a} ELSE mustStart
            /\ GoOn("startInfo", todo \ {a}, changed \/ late)

Started ==
    /\ step = "start"
    /\ StartEffect
    /\ mustStart' = mustStart \ {addon}
    /\ UNCHANGED <<lost, mustWatch, backingUp, allowRun, late>>
    /\ GoOn("startInfo", todo, TRUE)

WatchInfo(a) ==
    /\ step = "watchInfo" /\ a \in todo
    /\ UNCHANGED <<supervisorVars, historyVars, mustStart, backingUp, allowRun, late>>
    /\ IF a \notin guarded
       THEN Ask("watch", a) /\ UNCHANGED <<mustWatch, changed>>
       ELSE /\ mustWatch' = mustWatch \ {a}
            /\ GoOn("watchInfo", todo \ {a}, TRUE)

Watched ==
    /\ step = "watch"
    /\ WatchEffect
    /\ mustWatch' = mustWatch \ {addon}
    /\ UNCHANGED <<lost, mustStart, backingUp, allowRun, late>>
    /\ GoOn("watchInfo", todo, TRUE)

Later ==
    /\ ~late /\ late' = TRUE
    /\ UNCHANGED <<supervisorVars, historyVars, lockVars, mustStart, mustWatch, saved,
                   backingUp, allowRun>>

-----------------------------------------------------------------------------
(* A request fails, or its answer is lost; the loop goes on.               *)

StopInfoFails(a) ==
    /\ step = "stopInfo" /\ a \in todo
    /\ UNCHANGED <<supervisorVars, historyVars, mustStart, mustWatch, backingUp,
                   allowRun, late>>
    /\ GoOn("stopInfo", todo \ {a}, TRUE)

UnwatchFails ==
    /\ step = "unwatch"
    /\ Effect /\ Unheard
    /\ step' = "stop"
    /\ UNCHANGED <<stopperVars, line, addon, todo, changed>>

StopFails ==
    /\ step = "stop"
    /\ Effect /\ Unheard
    /\ UNCHANGED <<mustStart, mustWatch, backingUp, allowRun, late>>
    /\ GoOn("stopInfo", todo, TRUE)

\* It is not tried a second time.
StartInfoFails(a) ==
    /\ step = "startInfo" /\ a \in todo
    /\ mustStart' = mustStart \ {a}
    /\ Forgets("start", a)
    /\ UNCHANGED <<supervisorVars, stopped, unguarded, mustWatch, backingUp, allowRun, late>>
    /\ GoOn("startInfo", todo \ {a}, TRUE)

StartFails ==
    /\ step = "start"
    /\ Effect
    /\ mustStart' = mustStart \ {addon}
    /\ Forgets("start", addon)
    /\ UNCHANGED <<mustWatch, backingUp, allowRun, late>>
    /\ GoOn("startInfo", todo, TRUE)

WatchInfoFails(a) ==
    /\ step = "watchInfo" /\ a \in todo
    /\ mustWatch' = mustWatch \ {a}
    /\ Forgets("watchdog", a)
    /\ UNCHANGED <<supervisorVars, stopped, unguarded, mustStart, backingUp, allowRun, late>>
    /\ GoOn("watchInfo", todo \ {a}, TRUE)

WatchFails ==
    /\ step = "watch"
    /\ Effect
    /\ mustWatch' = mustWatch \ {addon}
    /\ Forgets("watchdog", addon)
    /\ UNCHANGED <<mustStart, backingUp, allowRun, late>>
    /\ GoOn("watchInfo", todo, TRUE)

RequestFails ==
    \/ \E a \in Addons : StopInfoFails(a) \/ StartInfoFails(a) \/ WatchInfoFails(a)
    \/ UnwatchFails \/ StopFails \/ StartFails \/ WatchFails

\* The coroutine is cancelled where it is, or waits: nothing is saved.
Drop(who) ==
    IF Holds(who)
    THEN /\ Effect /\ Unheard
         /\ Leave(FALSE)
    ELSE /\ line' = Without(who)
         /\ UNCHANGED <<supervisorVars, historyVars, saved, step, addon, todo, changed>>

-----------------------------------------------------------------------------
(* The rest of the add-on's calls, and its end.                            *)

\* (slip) The empty name the setting may begin with is not skipped.
SelectedUnskipped == Addons \cup {None}

\* allowRun: what the setting selects, this add-on included.
Selected == Addons

\* (slip) The flag is set here but never withdrawn.
PostSyncSetsOnly(pending) ==
    /\ allowRun' = TRUE
    /\ IF allowRun THEN UNCHANGED <<mustStart, lost>>
       ELSE mustStart' = mustStart \cup Selected /\ Remembers("start", Selected)
    /\ backingUp' = (pending \/ backingUp)
    /\ UNCHANGED <<supervisorVars, stopped, unguarded, lockVars, mustWatch, saved, late>>

\* HaSource.postSync: allowRun and isBackingUp.
PostSyncStopper(pending) ==
    /\ allowRun' = TRUE
    /\ IF allowRun THEN UNCHANGED <<mustStart, lost>>
       ELSE mustStart' = mustStart \cup Selected /\ Remembers("start", Selected)
    /\ backingUp' = pending
    /\ UNCHANGED <<supervisorVars, stopped, unguarded, lockVars, mustWatch, saved, late>>

\* (slip) The list of watchdogs in the file is not read.
LoadStart == mustStart' = saved.start /\ mustWatch' = {}

\* AddonStopper.start
Load == mustStart' = saved.start /\ mustWatch' = saved.watchdog

\* The process ends and starts again: the file is what is left.
RestartStopper ==
    /\ Effect
    /\ lost' = [start |-> lost.start,
                watchdog |-> lost.watchdog \cup (unguarded' \ saved.watchdog)]
    /\ Load
    /\ backingUp' = FALSE /\ allowRun' = FALSE /\ late' = TRUE
    /\ line' = <<>> /\ step' = "enter" /\ addon' = None /\ todo' = {} /\ changed' = FALSE
    /\ UNCHANGED saved

\* The user starts or stops an add-on; this one is running, or Restart is what
\* happens.
UserStarts(a) ==
    /\ a \notin running
    /\ running' = running \cup {a} /\ stopped' = stopped \ {a}
    /\ UNCHANGED <<guarded, unguarded, lost, stopperVars, lockVars>>
UserStops(a) ==
    /\ a \in running \ {Own}
    /\ running' = running \ {a}
    /\ UNCHANGED <<guarded, stopped, unguarded, lost, stopperVars, lockVars>>

AddonInit ==
    /\ running \in SUBSET Addons /\ (Own \in Addons => Own \in running) /\ guarded \in SUBSET Addons
    /\ mustStart = {} /\ mustWatch = {} /\ saved = Memory
    /\ backingUp = FALSE /\ allowRun = FALSE /\ late = TRUE
    /\ line = <<>> /\ step = "enter" /\ addon = None /\ todo = {} /\ changed = FALSE
    /\ stopped = {} /\ unguarded = {} /\ lost = [start |-> {}, watchdog |-> {}]

\* What the holder of the lock does next when its requests are answered.
Answer ==
    \/ EnterStop \/ EnterCheck
    \/ \E a \in Addons : StopInfo(a) \/ StartInfo(a) \/ WatchInfo(a)
    \/ Unwatched \/ Stopped \/ Started \/ Watched

-----------------------------------------------------------------------------
AddonTypeOK ==
    /\ running \in SUBSET Addons /\ guarded \in SUBSET Addons
    /\ mustStart \in SUBSET Addons /\ mustWatch \in SUBSET Addons
    /\ saved \in [start : SUBSET Addons, watchdog : SUBSET Addons]
    /\ backingUp \in BOOLEAN /\ allowRun \in BOOLEAN /\ late \in BOOLEAN
    /\ line \in Seq(Callers)
    /\ step \in Steps
    /\ addon \in Addons \cup {None}
    /\ todo \in SUBSET Addons
    /\ changed \in BOOLEAN
    /\ stopped \in SUBSET Addons /\ unguarded \in SUBSET Addons
    /\ lost \in [start : SUBSET Addons, watchdog : SUBSET Addons]

\* While it is allowed to start add-ons, the stopper remembers every add-on it
\* has stopped and not seen started, but for those it gave up on or whose
\* answer it never got; and so for the watchdogs it has switched off.
Remembered ==
    /\ allowRun => stopped \ lost.start \subseteq mustStart
    /\ unguarded \ lost.watchdog \subseteq mustWatch

\* Remembered made inductive: what is to be put right is as it was left, and
\* whoever has a request under way holds the lock and knows for which add-on.
StopperInv ==
    /\ AddonTypeOK
    /\ Remembered
    /\ stopped \cap running = {} /\ unguarded \cap guarded = {}
    /\ step # "enter" => line # <<>>
    /\ step \in {"unwatch", "stop", "start", "watch"} => addon \in Addons
=============================================================================
