---------------------------- MODULE CacheNotices ----------------------------
(***************************************************************************)
(* How the page learns that the status cache changed: the QueuedEmitter,   *)
(* whose detached events are coalesced behind one flag                     *)
(* (application/desktop.rs), and the coordinator that refreshes the        *)
(* analytical columns it concerns (store/analyticalTimelineRefresh.ts).    *)
(***************************************************************************)
EXTENDS Integers, FiniteSets, Sequences

CONSTANTS CnColumns,             \* analytical columns, in the order they are refreshed: 1..n
          CnCapacity,            \* EMIT_QUEUE_CAPACITY
          CnMaxCommits,          \* bound: commits to the status cache
          CnMaxEvents,           \* bound: events of other kinds
          CnMaxFailures,         \* bound: refreshes that fail
          CnMaxResets            \* bound: changes of the account

ASSUME CnAssumption == /\ CnColumns \in Nat \ {0} /\ CnCapacity \in Nat \ {0}
                       /\ {CnMaxCommits, CnMaxEvents, CnMaxFailures, CnMaxResets} \subseteq Nat

VARIABLES
    cnCommits,     \* commits so far
    cnUntold,      \* a writer has committed and not yet called emit_detached
    cnPending,     \* detached_pending
    cnSenders,     \* spawned sends of a notice that wait for the queue
    cnQueue,       \* the queue of events, "notice" or "other"
    cnHeld,        \* the event taken from the queue and not yet delivered
    cnDirty,       \* column -> version of its invalidation, 0 when clean
    cnUrgent,      \* columns the user has activated
    cnFailed,      \* column -> the version whose refresh failed
    cnTimer,
    cnRun,         \* [on, left, col, version, read]: the columns of the wave still to be done,
                   \* the one being refreshed, its version and the commits its query has seen
    cnVisible,     \* the columns that may refresh by themselves
    cnShown,       \* column -> the commits its posts reflect
    cnUsed,        \* [events, failures, resets]
    cnMixed        \* ghost: the coordinator was reset during a wave

cnVars == <<cnCommits, cnUntold, cnPending, cnSenders, cnQueue, cnHeld, cnDirty, cnUrgent,
            cnFailed, cnTimer, cnRun, cnVisible, cnShown, cnUsed, cnMixed>>

Emitter == <<cnCommits, cnUntold, cnPending, cnSenders, cnQueue, cnHeld>>
Coordinator == <<cnDirty, cnUrgent, cnFailed, cnTimer, cnRun, cnVisible, cnShown, cnMixed>>
CnCols == 1..CnColumns
NoWave == [on |-> FALSE, left |-> {}, col |-> 0, version |-> 0, read |-> 0]

CnCommit ==
    /\ cnCommits < CnMaxCommits
    /\ cnCommits' = cnCommits + 1 /\ cnUntold' = TRUE
    /\ UNCHANGED <<cnPending, cnSenders, cnQueue, cnHeld, Coordinator, cnUsed>>

\* emit_detached: one notice at most is on its way.
EmitDetached ==
    /\ cnUntold /\ cnUntold' = FALSE
    /\ cnPending' = TRUE
    /\ cnSenders' = IF cnPending THEN cnSenders ELSE cnSenders + 1
    /\ UNCHANGED <<cnCommits, cnQueue, cnHeld, Coordinator, cnUsed>>

SendNotice ==
    /\ cnSenders > 0 /\ Len(cnQueue) < CnCapacity
    /\ cnSenders' = cnSenders - 1 /\ cnQueue' = Append(cnQueue, "notice")
    /\ UNCHANGED <<cnCommits, cnUntold, cnPending, cnHeld, Coordinator, cnUsed>>

\* emit waits for room, try_emit drops the event without it.
EmitEvent ==
    /\ cnUsed.events < CnMaxEvents
    /\ cnUsed' = [cnUsed EXCEPT !.events = @ + 1]
    /\ cnQueue' = IF Len(cnQueue) < CnCapacity THEN Append(cnQueue, "other") ELSE cnQueue
    /\ UNCHANGED <<cnCommits, cnUntold, cnPending, cnSenders, cnHeld, Coordinator>>

\* Mutant of ClearsBefore: the flag is cleared when the event was delivered.
ClearsBeforeNot == FALSE

\* The flag is cleared before the delivery: a commit from here on sends another notice.
ClearsBefore == TRUE

TakeEvent ==
    /\ cnHeld = "none" /\ cnQueue # <<>>
    /\ cnHeld' = Head(cnQueue) /\ cnQueue' = Tail(cnQueue)
    /\ cnPending' = (cnPending /\ ~(ClearsBefore /\ Head(cnQueue) = "notice"))
    /\ UNCHANGED <<cnCommits, cnUntold, cnSenders, Coordinator, cnUsed>>

\* schedule: nothing is armed during a wave, its end looks again.
Arm == cnTimer' = (cnTimer \/ ~cnRun.on)

\* invalidate
NextVersion(c) == cnDirty[c] + 1

\* The notice reaches the page, which invalidates every analytical column.
Deliver ==
    /\ cnHeld \in {"notice", "other"} /\ cnHeld' = IF cnHeld = "notice" THEN "told" ELSE "none"
    /\ IF cnHeld = "notice"
       THEN /\ cnDirty' = [c \in CnCols |-> NextVersion(c)]
            /\ cnFailed' = [c \in CnCols |-> 0]
            /\ IF cnVisible # {} THEN Arm ELSE UNCHANGED cnTimer
       ELSE UNCHANGED <<cnDirty, cnFailed, cnTimer>>
    /\ UNCHANGED <<cnCommits, cnUntold, cnPending, cnSenders, cnQueue, cnUrgent, cnRun, cnVisible,
                   cnShown, cnMixed, cnUsed>>

\* The emitter goes on to the next event.
EmitterYields ==
    /\ cnHeld = "told" /\ cnHeld' = "none"
    /\ cnPending' = (cnPending /\ ClearsBefore)
    /\ UNCHANGED <<cnCommits, cnUntold, cnSenders, cnQueue, Coordinator, cnUsed>>

\* The column comes to the front, or is scrolled to its top: activate.
Activate(c) ==
    /\ c \notin cnVisible /\ cnVisible' = cnVisible \union {c}
    /\ IF cnDirty[c] # 0
       THEN /\ cnFailed' = [cnFailed EXCEPT ![c] = 0] /\ cnUrgent' = cnUrgent \union {c}
            /\ Arm
       ELSE UNCHANGED <<cnFailed, cnUrgent, cnTimer>>
    /\ UNCHANGED <<Emitter, cnDirty, cnRun, cnShown, cnMixed, cnUsed>>

Hide(c) ==
    /\ c \in cnVisible /\ cnVisible' = cnVisible \ {c}
    /\ UNCHANGED <<Emitter, cnDirty, cnUrgent, cnFailed, cnTimer, cnRun, cnShown, cnMixed, cnUsed>>

\* The columns a wave is due for.
Due == {c \in CnCols : cnDirty[c] # 0 /\ (c \in cnUrgent \/ (c \in cnVisible
                                                             /\ cnFailed[c] # cnDirty[c]))}

\* The timer fires: run.
StartWave ==
    /\ cnTimer /\ cnTimer' = FALSE
    /\ cnRun' = [NoWave EXCEPT !.on = Due # {}, !.left = Due]
    /\ UNCHANGED <<Emitter, cnDirty, cnUrgent, cnFailed, cnVisible, cnShown, cnMixed, cnUsed>>

\* The next column of the wave, in any order: one that was hidden meanwhile is left dirty.
NextColumn(c) ==
    /\ cnRun.on /\ cnRun.col = 0 /\ c \in cnRun.left
    /\ cnUrgent' = IF cnDirty[c] # 0 THEN cnUrgent \ {c} ELSE cnUrgent
    /\ cnRun' = IF cnDirty[c] # 0 /\ c \in cnUrgent \union cnVisible
                THEN [cnRun EXCEPT !.left = @ \ {c}, !.col = c, !.version = cnDirty[c],
                                   !.read = -1]
                ELSE [cnRun EXCEPT !.left = @ \ {c}]
    /\ UNCHANGED <<Emitter, cnDirty, cnFailed, cnTimer, cnVisible, cnShown, cnMixed, cnUsed>>

CnReads ==
    /\ cnRun.col # 0 /\ cnRun.read = -1
    /\ cnRun' = [cnRun EXCEPT !.read = cnCommits]
    /\ UNCHANGED <<Emitter, cnDirty, cnUrgent, cnFailed, cnTimer, cnVisible, cnShown, cnMixed,
                   cnUsed>>

\* Only the version that was refreshed is clean.
Cleaned == IF cnDirty[cnRun.col] = cnRun.version
           THEN [cnDirty EXCEPT ![cnRun.col] = 0] ELSE cnDirty

AfterColumn == cnRun' = [cnRun EXCEPT !.col = 0, !.version = 0, !.read = 0]

RefreshEnds ==
    /\ cnRun.col # 0 /\ cnRun.read >= 0
    /\ cnShown' = [cnShown EXCEPT ![cnRun.col] = cnRun.read]
    /\ cnDirty' = Cleaned
    /\ cnFailed' = IF cnDirty[cnRun.col] = cnRun.version
                   THEN [cnFailed EXCEPT ![cnRun.col] = 0] ELSE cnFailed
    /\ AfterColumn
    /\ UNCHANGED <<Emitter, cnUrgent, cnTimer, cnVisible, cnMixed, cnUsed>>

\* A version that failed is not tried again by itself.
RefreshFails ==
    /\ cnRun.col # 0 /\ cnUsed.failures < CnMaxFailures
    /\ cnUsed' = [cnUsed EXCEPT !.failures = @ + 1]
    /\ cnFailed' = IF cnDirty[cnRun.col] = cnRun.version
                   THEN [cnFailed EXCEPT ![cnRun.col] = cnRun.version] ELSE cnFailed
    /\ AfterColumn
    /\ UNCHANGED <<Emitter, cnDirty, cnUrgent, cnTimer, cnVisible, cnShown, cnMixed>>

\* Mutant of LooksAgain: the end of a wave arms nothing.
LooksAgainNot == FALSE

\* The end of a wave arms the timer for what became due during it.
LooksAgain == cnUrgent # {} \/ \E c \in cnVisible : cnDirty[c] # 0 /\ cnFailed[c] # cnDirty[c]

WaveEnds ==
    /\ cnRun.on /\ cnRun.col = 0 /\ cnRun.left = {}
    /\ cnRun' = NoWave /\ cnTimer' = LooksAgain
    /\ UNCHANGED <<Emitter, cnDirty, cnUrgent, cnFailed, cnVisible, cnShown, cnMixed, cnUsed>>

\* The account changes: reset, and the columns are loaded anew; a wave goes on.
ResetWaves ==
    /\ cnUsed.resets < CnMaxResets
    /\ cnUsed' = [cnUsed EXCEPT !.resets = @ + 1]
    /\ cnDirty' = [c \in CnCols |-> 0] /\ cnFailed' = [c \in CnCols |-> 0] /\ cnUrgent' = {}
    /\ cnTimer' = FALSE
    /\ cnShown' = [c \in CnCols |-> cnCommits]
    /\ cnMixed' = (cnMixed \/ cnRun.on)
    /\ UNCHANGED <<Emitter, cnRun, cnVisible>>

CacheNoticesInit ==
    /\ cnCommits = 0 /\ cnUntold = FALSE /\ cnPending = FALSE /\ cnSenders = 0 /\ cnQueue = <<>>
    /\ cnHeld = "none" /\ cnDirty = [c \in CnCols |-> 0] /\ cnUrgent = {}
    /\ cnFailed = [c \in CnCols |-> 0] /\ cnTimer = FALSE /\ cnRun = NoWave /\ cnVisible = {1}
    /\ cnShown = [c \in CnCols |-> 0] /\ cnUsed = [events |-> 0, failures |-> 0, resets |-> 0]
    /\ cnMixed = FALSE

CacheNoticesNext ==
    \/ CnCommit \/ EmitDetached \/ SendNotice \/ EmitEvent \/ TakeEvent \/ Deliver
    \/ EmitterYields
    \/ \E c \in CnCols : Activate(c) \/ Hide(c) \/ NextColumn(c)
    \/ StartWave \/ CnReads \/ RefreshEnds \/ RefreshFails \/ WaveEnds \/ ResetWaves

CacheNoticesSpec == CacheNoticesInit /\ [][CacheNoticesNext]_cnVars

NoticeOnItsWay == cnUntold \/ cnSenders > 0 \/ cnHeld = "notice"
                  \/ \E i \in DOMAIN cnQueue : cnQueue[i] = "notice"

\* When nothing is on its way a visible column shows every commit, unless its refresh failed:
\* no commit falls between the notice that covers it and the next.
VisibleColumnsCatchUp ==
    ~NoticeOnItsWay /\ ~cnRun.on /\ ~cnTimer /\ ~cnMixed
    => \A c \in cnVisible : cnShown[c] = cnCommits \/ cnFailed[c] # 0

\* A hidden column is not marked clean over a commit it does not show.
HiddenColumnsStayDirty ==
    ~NoticeOnItsWay /\ ~cnMixed
    => \A c \in CnCols : cnShown[c] = cnCommits \/ cnDirty[c] # 0

=============================================================================
