----------------------------- MODULE StatusPage -----------------------------
(***************************************************************************)
(* The status page of the add-on in a browser (static/js/scripts.js) and   *)
(* the server at the other end.  Of the server it takes what SyncStatus    *)
(* says of synchronisation, the backups it lists, and restarts; of the     *)
(* connection, that answers come late, in any order, or not at all.        *)
(*                                                                         *)
(* The page keeps its own state between two answers: the cards it has made *)
(* for the backups, the toasts it has put up, the last status, and the     *)
(* number of the error that the user has dismissed (error_minimum).        *)
(* Each answer only changes what differs, so a page is right only if the   *)
(* changes of all answers, whatever their order, add up.                   *)
(***************************************************************************)
EXTENDS SyncStatus, Sequences, SequencesExt

CONSTANTS
    Slugs,          \* backups that exist, other than one that is being made
    FirstSlugs,     \* those that are listed when the page is opened
    DateOf,         \* their dates
    PendingDates,   \* when a backup may have been requested
    MaxConns,       \* bound on requests that are on their way at a time
    MaxSteps,       \* bound on steps of the add-on: what syncs do to the
                    \* status and to the list of backups, and restarts
    MaxChanges,     \* bound on those that change the list
    MaxClicks,      \* bound on what the user does
    MaxLosses       \* bound on requests that fail for no reason

Pending == "pending"
ASSUME PageAssumption ==
    /\ Pending \notin Slugs
    /\ FirstSlugs \subseteq Slugs /\ IsFiniteSet(FirstSlugs)
    /\ DateOf \in [Slugs -> Nat] /\ PendingDates \subseteq Nat

VARIABLES
    working,        \* the upload of the sync in progress has sent a chunk
    backups,        \* Coordinator.backups
    life,           \* how often the add-on was restarted
    requests,       \* what the page has asked for, in the order it did
    cards,          \* the cards of #backups and #backups_ignored, by ignored
    placeholders,   \* #backups_loading and #no_backups_block, if visible
    syncToast,      \* sync_toast # null
    lostToast,      \* error_toast # null
    errorShown,     \* an error card is visible
    errorMinimum,   \* error_minimum
    lastData,       \* last_data
    hushed,         \* for the properties: the last error to be ignored
    resolved,       \* and the one the user has resolved on this page
    budget

syncVars == <<statusVars, working>>
serverVars == <<syncVars, backups, life>>
listVars == <<cards, placeholders>>
toastVars == <<syncToast, lostToast>>
errorVars == <<errorShown, errorMinimum>>
pageVars == <<listVars, toastVars, errorVars, lastData>>
vars == <<serverVars, requests, pageVars, hushed, resolved, budget>>

-----------------------------------------------------------------------------
(* The answer to getstatus, as far as the page reads it here.              *)
Listed == [slug : Slugs \cup {Pending}, timestamp : Nat, ignored : BOOLEAN]

Synced(s, ignored) ==
    [slug |-> s, timestamp |-> DateOf[s], ignored |-> ignored]

Status ==
    [life |-> life, syncing |-> syncing, firstSync |-> firstSync,
     lastError |-> lastError, failures |-> failures,
     ignored |-> ignoreErrors \/ (syncing /\ working), backups |-> backups]

StatusAnswers ==
    [life : Nat, syncing : BOOLEAN, firstSync : BOOLEAN, lastError : BOOLEAN,
     failures : Nat, ignored : BOOLEAN, backups : SUBSET Listed]

NoError == [life |-> 0, failures |-> 0]
ErrorOf(data) == [life |-> data.life, failures |-> data.failures]

(* A request of the page that matters: a status that is on its way to it,  *)
(* or something the user asked for.  A skip is a sync, for the page, once  *)
(* the server has handled it; a resolve is then nothing any more.          *)
Kinds == {"status", "sync", "skip", "resolve"}

Blank ==
    [life |-> 0, syncing |-> FALSE, firstSync |-> TRUE, lastError |-> FALSE,
     failures |-> 0, ignored |-> FALSE, backups |-> {}]
Asked(kind) == [kind |-> kind, data |-> Blank]

Send(request) ==
    /\ Len(requests) < MaxConns
    /\ requests' = Append(requests, request)

Drop(i) == requests' = RemoveAt(requests, i)

-----------------------------------------------------------------------------
(* The elements of a finite set, those with the smallest key first.        *)
InOrder(S, key) ==
    CHOOSE order \in [1..Cardinality(S) -> S] :
        /\ \A e \in S : \E i \in DOMAIN order : order[i] = e
        /\ \A i, j \in DOMAIN order : i < j => key[order[i]] <= key[order[j]]

(* What is left of a sequence of which only these places are kept.         *)
Kept(s, places) ==
    LET order == InOrder(places, [i \in places |-> i])
    IN  [n \in DOMAIN order |-> s[order[n]]]

-----------------------------------------------------------------------------
(* processBackupsUpdate and populateBackupDiv: cards that exist keep their *)
(* place and their timestamp, new ones are inserted before the first older *)
(* one, the oldest first, and those not listed any more are removed.       *)
SlugsOf(div) == {div[i].slug : i \in DOMAIN div}

\* (slip) As if a new backup were always the newest.
InsertCardOnTop(div, card) ==
    IF card.slug \in SlugsOf(div) THEN div
    ELSE <<card>> \o div

InsertCard(div, card) ==
    LET later == {i \in DOMAIN div : div[i].timestamp < card.timestamp}
        at == IF later = {} THEN Len(div) + 1
              ELSE CHOOSE i \in later : \A j \in later : i <= j
    IN  IF card.slug \in SlugsOf(div) THEN div
        ELSE InsertAt(div, at, card)

InsertCards(div, new) ==
    LET after[n \in 0..Len(new)] ==
          IF n = 0 THEN div ELSE InsertCard(after[n - 1], new[n])
    IN  after[Len(new)]

CardOf(b) == [slug |-> b.slug, timestamp |-> b.timestamp]

(* Coordinator.backups sorts what it lists by date. *)
PopulateBackupDiv(div, listed) ==
    LET byDate == InOrder(listed, [b \in listed |-> b.timestamp])
        all == InsertCards(div, [n \in DOMAIN byDate |-> CardOf(byDate[n])])
    IN  Kept(all, {i \in DOMAIN all : \E b \in listed : b.slug = all[i].slug})

Populate(divs, data) ==
    [ignored \in BOOLEAN |->
        PopulateBackupDiv(divs[ignored],
                          {b \in data.backups : b.ignored = ignored})]

PlaceholdersFor(data) ==
    IF data.backups # {} THEN {}
    ELSE IF data.firstSync THEN {"loading"} ELSE {"no backups"}

ShowsError(data, minimum) ==
    data.lastError /\ data.failures # minimum /\ ~data.ignored

(* processStatusUpdate *)
\* (slip) As if the toast about the connection stayed.
ProcessStatusUpdateLost(divs, minimum, data) ==
    /\ cards' = Populate(divs, data)
    /\ syncToast' = data.syncing
    /\ placeholders' = PlaceholdersFor(data)
    /\ errorShown' = ShowsError(data, minimum)
    /\ errorMinimum' = minimum
    /\ lastData' = data
    /\ UNCHANGED lostToast

ProcessStatusUpdate(divs, minimum, data) ==
    /\ cards' = Populate(divs, data)
    /\ syncToast' = data.syncing
    /\ placeholders' = PlaceholdersFor(data)
    /\ errorShown' = ShowsError(data, minimum)
    /\ errorMinimum' = minimum
    /\ lastData' = data
    /\ lostToast' = FALSE

NoCards == [ignored \in BOOLEAN |-> <<>>]

-----------------------------------------------------------------------------
Spend(kind) ==
    /\ budget[kind] > 0
    /\ budget' = [budget EXCEPT ![kind] = @ - 1]

(* The page is opened when the first sync has failed, after it has listed  *)
(* the backups, or without any.                                            *)
Init ==
    /\ syncing = FALSE /\ firstSync = FALSE /\ ignoreErrors = FALSE
    /\ lastError = TRUE /\ failures = 1
    /\ working = FALSE /\ backups = {Synced(s, FALSE) : s \in FirstSlugs} /\ life = 0
    /\ requests = <<>>
    /\ cards = Populate(NoCards, Status) /\ placeholders = PlaceholdersFor(Status)
    /\ syncToast = FALSE /\ lostToast = FALSE
    /\ errorShown = TRUE /\ errorMinimum = 0
    /\ lastData = Status
    /\ hushed = NoError /\ resolved = NoError
    /\ budget = [steps |-> MaxSteps, changes |-> MaxChanges,
                 clicks |-> MaxClicks, losses |-> MaxLosses]

(* The server: syncs begin and end, an upload sends its first chunk or its *)
(* last one, and the backups change.  A backup that is being made has the  *)
(* same slug each time.                                                    *)
SyncStep ==
    /\ Spend("steps")
    /\ \/ NextStatus /\ working' = (working /\ syncing')
       \/ syncing /\ working' = ~working /\ UNCHANGED statusVars
    /\ UNCHANGED <<backups, life, requests, pageVars, hushed, resolved>>

ListStep ==
    /\ budget.steps > 0 /\ budget.changes > 0
    /\ budget' = [budget EXCEPT !.steps = @ - 1, !.changes = @ - 1]
    /\ \/ \E b \in backups : backups' = backups \ {b}
       \/ \E s \in Slugs, ignored \in BOOLEAN :
             backups' = {b \in backups : b.slug \notin {s, Pending}}
                        \cup {Synced(s, ignored)}
       \/ \E date \in PendingDates :
             backups' = {b \in backups : b.slug # Pending}
                        \cup {[slug |-> Pending, timestamp |-> date,
                               ignored |-> FALSE]}
    /\ backups' # backups
    /\ UNCHANGED <<syncVars, life, requests, pageVars, hushed, resolved>>

(* All of the status is in memory, and requests that wait are lost; the    *)
(* page only says so.                                                      *)
Restart ==
    /\ Spend("steps")
    /\ RestartStatus /\ working' = FALSE
    /\ backups' = {} /\ life' = life + 1
    /\ requests' = Kept(requests, {i \in DOMAIN requests : requests[i].kind = "status"})
    /\ UNCHANGED <<pageVars, hushed, resolved>>

(* resolvefolder and skipspacecheck hush the error before they wait. *)
\* (slip) As if they did not.
HandlesLoudly(i) ==
    /\ requests[i].kind \in {"skip", "resolve"}
    /\ IF requests[i].kind = "skip"
       THEN requests' = [requests EXCEPT ![i] = Asked("sync")] ELSE Drop(i)
    /\ hushed' = [life |-> life, failures |-> failures]
    /\ UNCHANGED <<serverVars, pageVars, resolved, budget>>

Handles(i) ==
    /\ requests[i].kind \in {"skip", "resolve"}
    /\ IF requests[i].kind = "skip"
       THEN requests' = [requests EXCEPT ![i] = Asked("sync")] ELSE Drop(i)
    /\ IgnoreForNow /\ hushed' = [life |-> life, failures |-> failures]
    /\ UNCHANGED <<working, backups, life, pageVars, resolved, budget>>

-----------------------------------------------------------------------------
(* refreshstats, every five seconds and after each request that succeeds.  *)
(* What happens before the server makes the answer shows nowhere, so it    *)
(* begins there.                                                           *)
Refresh ==
    /\ Send([kind |-> "status", data |-> Status])
    /\ UNCHANGED <<serverVars, pageVars, hushed, resolved, budget>>

StatusArrives(i) ==
    /\ requests[i].kind = "status"
    /\ ProcessStatusUpdate(cards, errorMinimum, requests[i].data)
    /\ Drop(i)
    /\ UNCHANGED <<serverVars, hushed, resolved, budget>>

\* (slip) As if sync_toast were not forgotten with the toast.
RefreshFailsToasted(i) ==
    /\ requests[i].kind = "status"
    /\ Spend("losses")
    /\ placeholders' = placeholders \cup {"loading"}
    /\ lostToast' = TRUE
    /\ Drop(i)
    /\ UNCHANGED <<serverVars, cards, syncToast, errorVars, lastData, hushed,
                   resolved>>

RefreshFails(i) ==
    /\ requests[i].kind = "status"
    /\ Spend("losses")
    /\ placeholders' = placeholders \cup {"loading"}
    /\ lostToast' = TRUE
    /\ syncToast' = (syncToast /\ lostToast)
    /\ Drop(i)
    /\ UNCHANGED <<serverVars, cards, errorVars, lastData, hushed, resolved>>

(* The buttons of an error card: they dismiss it when they are answered    *)
(* (postJsonCloseErrorDialog), that of existing_backup_folder at once.     *)
Click ==
    /\ errorShown
    /\ Spend("clicks")
    /\ Send(Asked("sync")) \/ Send(Asked("skip"))
    /\ UNCHANGED <<serverVars, pageVars, hushed, resolved>>

ResolveFolder ==
    /\ errorShown
    /\ Spend("clicks")
    /\ Send(Asked("resolve"))
    /\ errorMinimum' = lastData.failures
    /\ errorShown' = FALSE
    /\ resolved' = ErrorOf(lastData)
    /\ UNCHANGED <<serverVars, listVars, toastVars, lastData, hushed>>

(* The card that is hidden need not be the one that is shown by now. *)
Dismisses(i) ==
    /\ requests[i].kind = "sync"
    /\ Drop(i)
    /\ errorMinimum' = lastData.failures
    /\ errorShown' \in {FALSE, errorShown}
    /\ resolved' = IF errorMinimum' = errorMinimum THEN resolved ELSE NoError
    /\ UNCHANGED <<serverVars, listVars, toastVars, lastData, hushed, budget>>

(* postJson: a request that fails makes a toast, and the page goes on. *)
PostFails(i) ==
    /\ requests[i].kind \in {"sync", "skip", "resolve"}
    /\ Spend("losses")
    /\ Drop(i)
    /\ UNCHANGED <<serverVars, pageVars, hushed, resolved>>

(* The page is loaded anew, with a status of its own (bootstrap).          *)
Reload ==
    /\ Spend("clicks")
    /\ requests' = <<>>
    /\ ProcessStatusUpdate(NoCards, 0, Status)
    /\ resolved' = IF resolved = hushed THEN resolved ELSE NoError
    /\ UNCHANGED <<serverVars, hushed>>

Next ==
    \/ SyncStep \/ ListStep \/ Restart
    \/ Refresh \/ Click \/ ResolveFolder \/ Reload
    \/ \E i \in DOMAIN requests :
          \/ StatusArrives(i) \/ RefreshFails(i)
          \/ Handles(i) \/ Dismisses(i) \/ PostFails(i)

Spec == Init /\ [][Next]_vars

(* The timer of the browser fires, and each request ends in an answer or   *)
(* an error.  Nothing is assumed of the syncs or of the user.              *)
Asks == Send([kind |-> "status", data |-> Status])
OldestEnds == requests # <<>> /\ Drop(1)

Fairness == WF_requests(Asks) /\ WF_requests(OldestEnds)

FairSpec == Spec /\ Fairness

-----------------------------------------------------------------------------
(* Properties *)

TypeOK ==
    /\ StatusTypeOK
    /\ working \in BOOLEAN /\ backups \subseteq Listed /\ life \in Nat
    /\ requests \in Seq([kind : Kinds, data : StatusAnswers])
    /\ cards \in [BOOLEAN -> Seq([slug : Slugs \cup {Pending}, timestamp : Nat])]
    /\ placeholders \subseteq {"loading", "no backups"}
    /\ syncToast \in BOOLEAN /\ lostToast \in BOOLEAN
    /\ errorShown \in BOOLEAN /\ errorMinimum \in Nat
    /\ lastData \in StatusAnswers

(* Beside its cards the page says what the last answer said, or, when the  *)
(* connection was lost since, that it was.  Two toasts are never up, so    *)
(* that none stays when the page forgets it - all are dismissed when the   *)
(* connection is lost - and there is no error card without an error.       *)
ShowsLastAnswer ==
    /\ placeholders = PlaceholdersFor(lastData)
                      \cup (IF lostToast THEN {"loading"} ELSE {})
    /\ syncToast = (lastData.syncing /\ ~lostToast)
    /\ errorShown => lastData.lastError /\ ~lastData.ignored

PageInv == TypeOK /\ ShowsLastAnswer

(* The cards are those of the backups of the last status, each once and in *)
(* its list, the newest first - whatever the answers before it showed and  *)
(* in whatever order they came.  The card of a backup that is being made   *)
(* is excepted: when the next one is made between two answers it keeps the *)
(* place, and the timestamp, of the one before.                            *)
CardsInOrder ==
    \A ignored \in BOOLEAN :
        LET div == cards[ignored]
        IN  /\ SlugsOf(div) =
                 {b.slug : b \in {x \in lastData.backups : x.ignored = ignored}}
            /\ \A i, j \in DOMAIN div :
                  i < j => /\ div[i].slug # div[j].slug
                           /\ Pending \in {div[i].slug, div[j].slug}
                              \/ DateOf[div[i].slug] >= DateOf[div[j].slug]

(* An error that the user has resolved with resolvefolder is not shown     *)
(* again: not by an answer that was on its way (the watermark hides it),   *)
(* and not by the page when it is loaded anew (the server has hushed it by *)
(* then, and does not forget that when a sync is cancelled).               *)
ResolvedStaysHidden ==
    errorShown /\ resolved # NoError => ErrorOf(lastData) # resolved

(* When the add-on's status stops changing the page shows it for good,     *)
(* after lost connections, restarts and answers in the wrong order: its    *)
(* backups, the toast while it syncs, and its error unless dismissed.      *)
PageShowsStatus ==
    /\ lastData = Status
    /\ placeholders = PlaceholdersFor(Status)
    /\ syncToast = syncing /\ ~lostToast
    /\ errorShown = ShowsError(Status, errorMinimum)

CatchesUp == <>[][FALSE]_serverVars => <>[]PageShowsStatus
=============================================================================
