-------------------------- MODULE BlueskyPolling ----------------------------
(***************************************************************************)
(* Bluesky has no stream for a user: bluesky/streaming.rs polls a feed and *)
(* the notifications, sends on what is new or changed, and looks up what   *)
(* left the page before it calls it deleted.  What it has seen is saved in *)
(* a checkpoint, so that a restart does not show everything again.         *)
(*                                                                         *)
(* What was sent takes the way of any stream's events (StreamPipeline) to  *)
(* the status cache: a processor hands it on in small batches to a worker, *)
(* whose queue drops a batch when it is full, and a stop of the process    *)
(* loses what is under way.  The poller learns of neither.                 *)
(***************************************************************************)
EXTENDS Integers, FiniteSets, Sequences, SequencesExt

CONSTANTS FeedIds,      \* what a feed may show
          AtUris,       \* those that are posts; the others are reposts of posts
          Changing,     \* bound: those that change once and are deleted
          FeedPage,     \* POLL_LIMIT
          MaxTracked,   \* MAX_TRACKED_REVISIONS
          Budget,       \* RECONCILIATION_BUDGET
          ChanBound,    \* bound: events between the poller and its processor
          StoreCap,     \* PERSISTENCE_QUEUE_CAPACITY and the batch at work
          MaxPollStops  \* bound: stops of the process

ASSUME PollAssumption ==
    /\ AtUris \subseteq FeedIds
    /\ FeedPage <= MaxTracked /\ Budget > 0 /\ StoreCap > 0

VARIABLES
    bpServer,  \* id -> revision, 0 before it is posted and -1 when it is deleted
    bpFeed,    \* the feed, newest first
    bpRev,     \* PollingRevisionState.revisions: id -> [fp, old]; old counts polls since
    bpQueue,   \* reconciliation_queue
    bpBatch,   \* the ids a reconciliation has still to look up
    bpStep,    \* where the poller is
    bpHard,    \* recovering_from_error
    bpChan,    \* events sent and not taken by the processor
    bpStore,   \* batches queued for the persistence worker
    bpCache,   \* the status cache: id -> revision, 0 is none
    bpSaved,   \* the checkpoint: <<>> or <<revisions, queue>>
    bpPruned,  \* ghost: ids that fell out of the window
    bpDropped, \* ghost: ids whose last event this poller sent was dropped
    bpStops

serverVars == <<bpServer, bpFeed>>
storeVars == <<bpStore, bpCache, bpDropped>>
bpVars == <<serverVars, bpRev, bpQueue, bpBatch, bpStep, bpHard, bpChan, storeVars, bpSaved,
            bpPruned, bpStops>>

Event(kind, id, rev) == [kind |-> kind, id |-> id, rev |-> rev]

-----------------------------------------------------------------------------
(* Bluesky.                                                                *)

\* Posts are numbered in the order in which they appear.
FeedPosts(id) ==
    /\ bpServer[id] = 0 /\ \A x \in FeedIds : x < id => bpServer[x] # 0
    /\ bpServer' = [bpServer EXCEPT ![id] = 1]
    /\ bpFeed' = <<id>> \o bpFeed
    /\ UNCHANGED <<bpRev, bpQueue, bpBatch, bpStep, bpHard, bpChan, storeVars, bpSaved,
                   bpPruned, bpStops>>

\* A counter changes, or the post.
FeedChanges(id) ==
    /\ bpServer[id] = 1 /\ id \in Changing
    /\ bpServer' = [bpServer EXCEPT ![id] = 2]
    /\ UNCHANGED <<bpFeed, bpRev, bpQueue, bpBatch, bpStep, bpHard, bpChan, storeVars, bpSaved,
                   bpPruned, bpStops>>

FeedDeletes(id) ==
    /\ bpServer[id] > 0 /\ id \in Changing
    /\ bpServer' = [bpServer EXCEPT ![id] = -1]
    /\ bpFeed' = SelectSeq(bpFeed, LAMBDA x : x # id)
    /\ UNCHANGED <<bpRev, bpQueue, bpBatch, bpStep, bpHard, bpChan, storeVars, bpSaved,
                   bpPruned, bpStops>>

\* fetch_stream: the newest of the feed.
FetchStream == SubSeq(bpFeed, 1, IF Len(bpFeed) < FeedPage THEN Len(bpFeed) ELSE FeedPage)

-----------------------------------------------------------------------------
(* PollingRevisionState.                                                   *)

Tracked(ids, rev) == [id \in ids |-> rev[id]]

InQueue(id) == \E i \in DOMAIN bpQueue : bpQueue[i] = id

QueueReconciliation(q, id) == IF \E i \in DOMAIN q : q[i] = id THEN q ELSE Append(q, id)

\* What the poll before showed and this page does not.
Missing(page) ==
    {id \in DOMAIN bpRev \cap AtUris : bpRev[id].old = 0 /\ id \notin ToSet(page)}

\* The posts of the page that are new or not as they were seen last.
Changed(page) ==
    SelectSeq(page, LAMBDA id : id \notin DOMAIN bpRev \/ bpRev[id].fp # bpServer[id])

\* The window drops what was not seen for longest.
PruneRevisionWindow(rev) ==
    {kept \in SUBSET DOMAIN rev :
        /\ Cardinality(kept) = (IF Cardinality(DOMAIN rev) > MaxTracked THEN MaxTracked
                                ELSE Cardinality(DOMAIN rev))
        /\ \A k \in kept, d \in DOMAIN rev \ kept : rev[k].old <= rev[d].old}

\* observe_page: what left the page is queued, what is on it is known again.
ObservePage(page) ==
    LET waits == SelectSeq(bpQueue, LAMBDA id : id \notin ToSet(page))
        queue == FoldLeft(QueueReconciliation, waits,
                          SetToSortSeq(Missing(page), LAMBDA x, y : x < y))
        rev == [id \in DOMAIN bpRev \union ToSet(page) |->
                  IF id \in ToSet(page) THEN [fp |-> bpServer[id], old |-> 0]
                  ELSE [bpRev[id] EXCEPT !.old = IF @ < 2 THEN @ + 1 ELSE @]]
    IN  \E kept \in PruneRevisionWindow(rev) :
            /\ bpRev' = Tracked(kept, rev)
            /\ bpQueue' = SelectSeq(queue, LAMBDA id : id \in kept)
            /\ bpPruned' = bpPruned \union (DOMAIN rev \ kept)

Sends(events) == bpChan' = bpChan \o events

\* A poll: the changes are sent, oldest first.  When the poll before failed a Resync goes
\* ahead of them, which makes the windows reload and writes nothing to the cache.
Poll ==
    LET page == FetchStream
        changed == Reverse(Changed(page))
    IN
    /\ bpStep = "poll"
    /\ ObservePage(page)
    /\ Sends([i \in DOMAIN changed |-> Event("update", changed[i], bpServer[changed[i]])])
    /\ Len(bpChan') <= ChanBound
    /\ bpHard' = FALSE
    /\ bpStep' = "save"
    /\ UNCHANGED <<serverVars, bpBatch, storeVars, bpSaved, bpStops>>

PollFails ==
    /\ bpStep = "poll" /\ ~bpHard
    /\ bpHard' = TRUE
    /\ UNCHANGED <<serverVars, bpRev, bpQueue, bpBatch, bpStep, bpChan, storeVars, bpSaved,
                   bpPruned, bpStops>>

\* Now and then: take_reconciliation_batch.
TakeBatch ==
    LET n == IF Len(bpQueue) < Budget THEN Len(bpQueue) ELSE Budget IN
    /\ bpStep = "poll" /\ n > 0
    /\ bpBatch' = SubSeq(bpQueue, 1, n)
    /\ bpQueue' = SubSeq(bpQueue, n + 1, Len(bpQueue))
    /\ bpStep' = "reconcile"
    /\ UNCHANGED <<serverVars, bpRev, bpHard, bpChan, storeVars, bpSaved, bpPruned, bpStops>>

\* Mutant of ReconcileMissing: a post that cannot be looked up counts as deleted.
ReconcileMissingHasty ==
    LET id == Head(bpBatch) IN
    /\ bpStep = "reconcile" /\ bpBatch # <<>> /\ Len(bpChan) < ChanBound
    /\ bpRev' = Tracked(DOMAIN bpRev \ {id}, bpRev)
    /\ Sends(<<Event("delete", id, 0)>>)
    /\ bpBatch' = Tail(bpBatch)
    /\ UNCHANGED <<serverVars, bpQueue, bpStep, bpHard, storeVars, bpSaved, bpPruned, bpStops>>

\* Mutant of ReconcileMissing: a post that cannot be looked up now is not tried again.
ReconcileMissingOnce ==
    LET id == Head(bpBatch) IN
    /\ bpStep = "reconcile" /\ bpBatch # <<>>
    /\ bpBatch' = Tail(bpBatch)
    /\ UNCHANGED <<serverVars, bpRev, bpQueue, bpStep, bpHard, bpChan, storeVars, bpSaved,
                   bpPruned, bpStops>>

\* reconcile_missing: the post is there, is not found, or cannot be looked up now.
ReconcileMissing ==
    LET id == Head(bpBatch)
        fp == bpServer[id]
    IN
    /\ bpStep = "reconcile" /\ bpBatch # <<>> /\ Len(bpChan) < ChanBound
    /\ bpBatch' = Tail(bpBatch)
    /\ \/ /\ fp > 0
          /\ Sends(IF id \notin DOMAIN bpRev \/ bpRev[id].fp # fp
                   THEN <<Event("status_update", id, fp)>> ELSE <<>>)
          /\ bpRev' = [x \in DOMAIN bpRev \union {id} |->
                         IF x = id THEN [fp |-> fp, old |-> 0] ELSE bpRev[x]]
          /\ UNCHANGED bpQueue
       \/ /\ fp = -1
          /\ bpRev' = Tracked(DOMAIN bpRev \ {id}, bpRev)
          /\ Sends(<<Event("delete", id, 0)>>)
          /\ UNCHANGED bpQueue
       \/ /\ bpQueue' = QueueReconciliation(bpQueue, id)
          /\ UNCHANGED <<bpRev, bpChan>>
    /\ UNCHANGED <<serverVars, bpStep, bpHard, storeVars, bpSaved, bpPruned, bpStops>>

\* checkpoint: what the last poll showed, and what waits to be looked up.
CheckpointNow ==
    << {<<id, bpRev[id].fp>> : id \in {x \in DOMAIN bpRev : bpRev[x].old = 0 \/ InQueue(x)}},
       bpQueue >>

\* save_checkpoint, whose errors are logged.
SavePollCheckpoint ==
    /\ bpStep = "save" \/ (bpStep = "reconcile" /\ bpBatch = <<>>)
    /\ bpSaved' \in {bpSaved, CheckpointNow}
    /\ bpStep' = "poll"
    /\ UNCHANGED <<serverVars, bpRev, bpQueue, bpBatch, bpHard, bpChan, storeVars, bpPruned,
                   bpStops>>

\* enqueue_persistence_batch: what the processor took is queued for the worker, or dropped
\* when its queue is full.  (That the windows are then asked to reload is StreamPipeline's.)
EnqueueEvents ==
    \E n \in 1..Len(bpChan) :
        LET batch == SubSeq(bpChan, 1, n)
            ids == {batch[i].id : i \in 1..n}
        IN  /\ bpChan' = SubSeq(bpChan, n + 1, Len(bpChan))
            /\ \/ /\ Len(bpStore) < StoreCap
                  /\ bpStore' = Append(bpStore, batch)
                  /\ bpDropped' = bpDropped \ ids
               \/ /\ Len(bpStore) >= StoreCap
                  /\ bpDropped' = bpDropped \union ids
                  /\ UNCHANGED bpStore
            /\ UNCHANGED <<serverVars, bpRev, bpQueue, bpBatch, bpStep, bpHard, bpCache,
                           bpSaved, bpPruned, bpStops>>

\* The worker writes its batch to the status cache; a failed write is tried again.
WriteEvents ==
    LET batch == Head(bpStore)
        Wrote(cache, e) == [cache EXCEPT ![e.id] = e.rev]
    IN
    /\ bpStore # <<>>
    /\ bpStore' = Tail(bpStore)
    /\ bpCache' = FoldLeft(Wrote, bpCache, batch)
    /\ UNCHANGED <<serverVars, bpRev, bpQueue, bpBatch, bpStep, bpHard, bpChan, bpDropped,
                   bpSaved, bpPruned, bpStops>>

\* The process stops, or the stream is taken down: what was not saved or written is gone.
PollerStops ==
    /\ bpStep # "down" /\ bpStops < MaxPollStops
    /\ bpStops' = bpStops + 1
    /\ bpStep' = "down"
    /\ bpChan' = <<>> /\ bpStore' = <<>>
    /\ bpRev' = <<>> /\ bpQueue' = <<>> /\ bpBatch' = <<>>
    /\ bpHard' = FALSE
    /\ UNCHANGED <<serverVars, bpCache, bpDropped, bpSaved, bpPruned>>

\* Mutant of LoadCheckpoint: the checkpoint is believed whatever the cache holds.
LoadCheckpointBlind ==
    /\ bpStep = "down" /\ bpSaved # <<>>
    /\ bpRev' = [id \in {p[1] : p \in bpSaved[1]} |->
                   [fp |-> (CHOOSE p \in bpSaved[1] : p[1] = id)[2], old |-> 0]]
    /\ bpQueue' = bpSaved[2]
    /\ bpStep' = "poll" /\ bpDropped' = {}
    /\ UNCHANGED <<serverVars, bpBatch, bpHard, bpChan, bpStore, bpCache, bpSaved, bpPruned,
                   bpStops>>

\* load_checkpoint: what the cache does not hold is forgotten; nothing is known when the
\* checkpoint cannot be read.
LoadCheckpoint ==
    LET known == IF bpSaved = <<>> THEN {} ELSE {p \in bpSaved[1] : bpCache[p[1]] > 0} IN
    /\ bpStep = "down"
    /\ \/ /\ bpRev' = [id \in {p[1] : p \in known} |->
                         [fp |-> (CHOOSE p \in known : p[1] = id)[2], old |-> 0]]
          /\ bpQueue' = IF bpSaved = <<>> THEN <<>>
                        ELSE SelectSeq(bpSaved[2], LAMBDA id : \E p \in known : p[1] = id)
       \/ bpRev' = <<>> /\ bpQueue' = <<>>
    /\ bpStep' = "poll" /\ bpDropped' = {}
    /\ UNCHANGED <<serverVars, bpBatch, bpHard, bpChan, bpStore, bpCache, bpSaved, bpPruned,
                   bpStops>>

PollingInit ==
    /\ bpServer = [id \in FeedIds |-> 0]
    /\ bpFeed = <<>>
    /\ bpRev = <<>> /\ bpQueue = <<>> /\ bpBatch = <<>>
    /\ bpStep = "poll" /\ bpHard = FALSE
    /\ bpChan = <<>> /\ bpStore = <<>>
    /\ bpCache = [id \in FeedIds |-> 0]
    /\ bpSaved = <<>>
    /\ bpPruned = {} /\ bpDropped = {} /\ bpStops = 0

PollingNext ==
    \/ \E id \in FeedIds : FeedPosts(id) \/ FeedChanges(id) \/ FeedDeletes(id)
    \/ Poll \/ PollFails \/ TakeBatch \/ ReconcileMissing \/ SavePollCheckpoint
    \/ EnqueueEvents \/ WriteEvents \/ PollerStops \/ LoadCheckpoint

-----------------------------------------------------------------------------

UnderWay == bpChan # <<>> \/ bpStore # <<>>

\* What a poll counts as seen is in the cache once nothing is under way, also after a stop
\* that lost events the checkpoint had recorded; and in the revision that was seen, unless
\* the process stopped.  Only a batch that was dropped at the full queue leaves a gap: the
\* poller believes it sent, and does not send again until the post changes.  The next
\* poller's first look closes it for what is not in the cache at all.
SeenPostsAreCached ==
    ~UnderWay => \A id \in DOMAIN bpRev \ bpDropped :
        /\ bpCache[id] > 0
        /\ bpStops = 0 => bpCache[id] = bpRev[id].fp

\* A post leaves the cache only when Bluesky has deleted it: leaving the page, a failed
\* lookup or the limit of the window never removes it.
OnlyDeletedPostsAreRemoved ==
    \A id \in FeedIds : bpCache[id] > 0 /\ bpCache'[id] = 0 => bpServer[id] = -1

\* A post the poller showed is on the page, waits to be looked up, or is being looked up,
\* until it is known to be deleted or falls out of the window: its deletion is not missed,
\* and reaches the cache unless its batch is dropped at the full queue.
NothingSeenIsForgotten ==
    /\ \A id \in DOMAIN bpRev \cap AtUris :
          bpRev[id].old = 0 \/ InQueue(id) \/ \E i \in DOMAIN bpBatch : bpBatch[i] = id
    /\ bpStops = 0 /\ ~UnderWay
          => \A id \in AtUris :
                 bpCache[id] > 0 => id \in DOMAIN bpRev \union bpPruned \union bpDropped

-----------------------------------------------------------------------------
(***************************************************************************)
(* Alerts for Bluesky's notifications: run_notification_polling of         *)
(* bluesky/streaming.rs.  The start-up synchronisation shows what there    *)
(* already was, so the first page a poller without a checkpoint sees only  *)
(* says where the new ones begin.                                          *)
(***************************************************************************)
CONSTANTS NoticeIds,      \* the notifications, numbered as they arrive
          NoticePage,     \* POLL_LIMIT
          NoticeWindow,   \* MAX_TRACKED_REVISIONS
          Unsteady,       \* bound: notifications that do not always look the same
          MaxTurns,       \* bound: turns of one of them
          MaxNoticeStops  \* bound: stops of the process

ASSUME NoticeAssumption == NoticePage <= NoticeWindow

VARIABLES
    npThere,   \* the notifications that have arrived are 1 .. npThere
    npTurns,   \* notification -> how often its revision has turned
    npRev,     \* NotificationRevisionState.revisions: id -> [fp, old]
    npPolls,   \* whether poll_number is above 0
    npSend,    \* the changes of the page that have still to be sent, oldest first: <<id, fp>>
    npStep,
    npSaved,   \* the checkpoint: <<>> or <<{<<id, fp>>}>>
    npAlerts,  \* ghost: id -> alerts shown
    npTold,    \* ghost: the <<id, fp>> that were shown, or were on a first page
    npBase,    \* ghost: the notifications of the first page
    npStops

npGhosts == <<npAlerts, npTold, npBase>>
npVars == <<npThere, npTurns, npRev, npPolls, npSend, npStep, npSaved, npGhosts, npStops>>

\* notification_revision: among others the post the notification is about, which is missing
\* while it cannot be looked up, and when that was edited.
Revision(n) == npTurns[n] % 2

Arrives ==
    /\ npThere + 1 \in NoticeIds
    /\ npThere' = npThere + 1
    /\ UNCHANGED <<npTurns, npRev, npPolls, npSend, npStep, npSaved, npGhosts, npStops>>

\* The post is edited or deleted, its look-up fails, or succeeds again.
RevisionTurns(n) ==
    /\ n \in Unsteady /\ n <= npThere /\ npTurns[n] < MaxTurns
    /\ npTurns' = [npTurns EXCEPT ![n] = @ + 1]
    /\ UNCHANGED <<npThere, npRev, npPolls, npSend, npStep, npSaved, npGhosts, npStops>>

\* The newest notifications.
NoticesShown == {n \in NoticeIds : n <= npThere /\ n > npThere - NoticePage}

NotAsSeen(page) == {n \in page : n \notin DOMAIN npRev \/ npRev[n].fp # Revision(n)}

\* Mutant of NewNotices: the first page is news too.
NewNoticesAll(page) == NotAsSeen(page)

\* observe_page: what is new or has another revision, unless this is the first page.
NewNotices(page) == IF npPolls THEN NotAsSeen(page) ELSE {}

\* The window drops what was not seen for longest.
NoticesKept(rev) ==
    {kept \in SUBSET DOMAIN rev :
        /\ Cardinality(kept) = (IF Cardinality(DOMAIN rev) > NoticeWindow THEN NoticeWindow
                                ELSE Cardinality(DOMAIN rev))
        /\ \A k \in kept, d \in DOMAIN rev \ kept : rev[k].old <= rev[d].old}

PollNotices ==
    LET page == NoticesShown
        rev == [n \in DOMAIN npRev \union page |->
                  IF n \in page THEN [fp |-> Revision(n), old |-> 0]
                  ELSE [npRev[n] EXCEPT !.old = IF @ < 2 THEN @ + 1 ELSE @]]
        news == SetToSortSeq(NewNotices(page), LAMBDA x, y : x < y)
    IN
    /\ npStep = "poll"
    /\ \E kept \in NoticesKept(rev) : npRev' = [n \in kept |-> rev[n]]
    /\ npSend' = [i \in DOMAIN news |-> <<news[i], Revision(news[i])>>]
    /\ npPolls' = TRUE
    /\ npBase' = IF npPolls THEN npBase ELSE npBase \union page
    /\ npTold' = IF npPolls THEN npTold ELSE npTold \union {<<n, Revision(n)>> : n \in page}
    /\ npStep' = "send"
    /\ UNCHANGED <<npThere, npTurns, npSaved, npAlerts, npStops>>

\* emit_notification_changes: one is sent, and shown.
EmitNotice ==
    /\ npStep = "send" /\ npSend # <<>>
    /\ npAlerts' = [npAlerts EXCEPT ![Head(npSend)[1]] = @ + 1]
    /\ npTold' = npTold \union {Head(npSend)}
    /\ npSend' = Tail(npSend)
    /\ UNCHANGED <<npThere, npTurns, npRev, npPolls, npStep, npSaved, npBase, npStops>>

NoticesNow == {<<n, npRev[n].fp>> : n \in {m \in DOMAIN npRev : npRev[m].old = 0}}

\* Mutant of SaveNotices: the checkpoint is saved before the changes are sent.
SaveNoticesEarly ==
    /\ npStep = "send"
    /\ npSaved' \in {npSaved, <<NoticesNow>>}
    /\ npStep' = IF npSend = <<>> THEN "poll" ELSE "send"
    /\ UNCHANGED <<npThere, npTurns, npRev, npPolls, npSend, npGhosts, npStops>>

\* save_checkpoint, whose errors are logged: what the last poll showed.
SaveNotices ==
    /\ npStep = "send" /\ npSend = <<>>
    /\ npSaved' \in {npSaved, <<NoticesNow>>}
    /\ npStep' = "poll"
    /\ UNCHANGED <<npThere, npTurns, npRev, npPolls, npSend, npGhosts, npStops>>

NoticesStop ==
    /\ npStep # "down" /\ npStops < MaxNoticeStops
    /\ npStops' = npStops + 1
    /\ npStep' = "down"
    /\ npRev' = <<>> /\ npSend' = <<>> /\ npPolls' = FALSE
    /\ UNCHANGED <<npThere, npTurns, npSaved, npGhosts>>

\* load_checkpoint; when there is none, or it cannot be read, the next page is the first.
LoadNotices ==
    /\ npStep = "down"
    /\ \/ /\ npSaved # <<>>
          /\ npRev' = [n \in {p[1] : p \in npSaved[1]} |->
                         [fp |-> (CHOOSE p \in npSaved[1] : p[1] = n)[2], old |-> 0]]
          /\ npPolls' = TRUE
       \/ npRev' = <<>> /\ npPolls' = FALSE
    /\ npStep' = "poll"
    /\ UNCHANGED <<npThere, npTurns, npSend, npSaved, npGhosts, npStops>>

NoticesInit ==
    /\ npThere \in {0, 1} /\ npTurns = [n \in NoticeIds |-> 0]
    /\ npRev = <<>> /\ npPolls = FALSE /\ npSend = <<>> /\ npStep = "poll" /\ npSaved = <<>>
    /\ npAlerts = [n \in NoticeIds |-> 0]
    /\ npTold = {} /\ npBase = {} /\ npStops = 0

NoticesNext ==
    \/ Arrives \/ (\E n \in NoticeIds : RevisionTurns(n))
    \/ PollNotices \/ EmitNotice \/ SaveNotices \/ NoticesStop \/ LoadNotices

-----------------------------------------------------------------------------

\* A notification is alerted again only when its revision has turned, once for each time,
\* or the process was stopped, once for each stop; the page that was there first is not
\* alerted without one of them.  A look-up that fails for a while is such a turn, and its
\* end another: those alerts do repeat what nobody changed.
AlertsDoNotRepeat ==
    \A n \in NoticeIds :
        npAlerts[n] <= (IF n \in npBase THEN 0 ELSE 1) + npTurns[n] + npStops

\* A notification a poll has taken note of was alerted as it was seen, or was on a first
\* page, also when the process stopped half-way: a restart with a checkpoint misses none,
\* and no edit of one that was shown before.
NoticedMeansAlerted ==
    npStep = "poll" => \A n \in DOMAIN npRev : <<n, npRev[n].fp>> \in npTold
=============================================================================
