--------------------------- MODULE SearchEngine -----------------------------
(***************************************************************************)
(* The asynchronous full-text index: services/search_indexer.rs, the       *)
(* triggers of migrations 032-037, clear_status_cache, and the query of    *)
(* db/queries/search.rs that reads the index while it lags behind.         *)
(*                                                                         *)
(* Interactive transactions only queue a key; a low-priority worker of     *)
(* every process that has the portable database open reads a batch,        *)
(* segments it without the writer, and commits only what is still current. *)
(* A document is <<kind, number>>; a text is the one term it matches.      *)
(***************************************************************************)
EXTENDS Integers, FiniteSets, FiniteSetsExt

CONSTANTS IxDocs,          \* statuses and accounts, <<kind, number>>
          IxTexts,         \* texts; 0 is no row
          IxWorkers,       \* processes that have the database open
          QueueChunk,      \* QUEUE_CHUNK_SIZE
          BackfillChunk,   \* BACKFILL_CHUNK_SIZE
          PendingLimit,    \* PENDING_STATUS_SCAN_LIMIT and PENDING_ACCOUNT_SCAN_LIMIT
          MaxIxWrites,     \* bound: interactive writes
          MaxIxStops       \* bound: errors and restarts of workers

VARIABLES
    srcText,    \* statuses and accounts: the text of the row, 0 if there is none
    ixContent,  \* *_search_icu_content with its postings: the text, 0 if there is none
    ixQueue,    \* *_search_index_queue: action and generation, generation 0 if not queued
    ixFill,     \* *_search_icu_backfill_state of each kind
    ixBusy,     \* an interactive transaction holds the writer
    ixWrites,   \* interactive writes so far: the source of generations
    ixWorker,   \* the worker of each process
    ixStops,    \* errors and restarts so far
    ixSnap      \* backfill states a running search has read

ixVars == <<srcText, ixContent, ixQueue, ixFill, ixBusy, ixWrites, ixWorker,
            ixStops, ixSnap>>

Kinds == {"status", "account"}
OfKind(k) == {d \in IxDocs : d[1] = k}
NotQueued == [action |-> "delete", gen |-> 0]
Queued(k) == {d \in OfKind(k) : ixQueue[d].gen # 0}

\* Ids of rows are positive, generations are counted from 1, and a batch has room for a row.
ASSUME SearchAssumption ==
    /\ IsFiniteSet(IxDocs) /\ IxDocs # {} /\ IxDocs \subseteq Kinds \X (Nat \ {0})
    /\ IxTexts \subseteq Nat \ {0} /\ 1 \in IxTexts
    /\ {QueueChunk, BackfillChunk, PendingLimit} \subseteq Nat \ {0}
    /\ {MaxIxWrites, MaxIxStops} \subseteq Nat

FillStart == 1 + Max({d[2] : d \in IxDocs})

FreshWorker == [pc |-> "top", job |-> "queue", kind |-> "status", batch |-> {}, fill |-> 0]

\* The first n of a set of documents, by a measure.
Outranking(S, rank, d) == {e \in S : rank[e] < rank[d]}
FirstBy(S, n, rank) == {d \in S : Cardinality(Outranking(S, rank, d)) < n}

\* How long a document has been queued, and how new it is: ORDER BY generation, and by id
\* or generation descending.
Oldest == [d \in IxDocs |-> ixQueue[d].gen]
NewestId == [d \in IxDocs |-> -d[2]]
NewestQueued == [d \in IxDocs |-> -ixQueue[d].gen]

-----------------------------------------------------------------------------
(***************************************************************************)
(* Interactive writes and their triggers.                                  *)
(***************************************************************************)

\* An interactive transaction acquires the only writer connection.
WriterBegins ==
    /\ ~ixBusy
    /\ ixWrites < MaxIxWrites
    /\ ixBusy' = TRUE
    /\ UNCHANGED <<srcText, ixContent, ixQueue, ixFill, ixWrites, ixWorker, ixStops,
                   ixSnap>>

\* A row is inserted, changed or deleted: its key is queued with a new
\* generation.  Accounts are not deleted one by one.
WriterCommits(d, t) ==
    /\ ixBusy
    /\ t # srcText[d]
    /\ t = 0 => d[1] = "status"
    /\ ixBusy' = FALSE
    /\ ixWrites' = ixWrites + 1
    /\ srcText' = [srcText EXCEPT ![d] = t]
    /\ ixQueue' = [ixQueue EXCEPT ![d] = [action |-> IF t = 0 THEN "delete" ELSE "upsert",
                                          gen |-> ixWrites + 1]]
    /\ UNCHANGED <<ixContent, ixFill, ixWorker, ixStops, ixSnap>>

\* clear_status_cache: one transaction with the triggers off.
ClearStatusCache ==
    /\ ixBusy
    /\ ixBusy' = FALSE
    /\ ixWrites' = ixWrites + 1
    /\ srcText' = [d \in IxDocs |-> 0]
    /\ ixContent' = [d \in IxDocs |-> 0]
    /\ ixQueue' = [d \in IxDocs |-> NotQueued]
    /\ ixFill' = [k \in Kinds |-> [cursor |-> FillStart, completed |-> TRUE]]
    /\ UNCHANGED <<ixWorker, ixStops, ixSnap>>

-----------------------------------------------------------------------------
(***************************************************************************)
(* A worker's turn: read a batch, segment it, commit what is current.       *)
(***************************************************************************)

\* The work of highest priority: live statuses, live accounts, then the
\* history of accounts, then that of statuses.
WorkToDo ==
    IF Queued("status") # {} THEN <<"queue", "status">>
    ELSE IF Queued("account") # {} THEN <<"queue", "account">>
    ELSE IF ~ixFill["account"].completed THEN <<"backfill", "account">>
    ELSE IF ~ixFill["status"].completed THEN <<"backfill", "status">>
    ELSE <<"idle", "status">>

\* load_*_queue_batch: the oldest keys with the text of their rows.
QueueBatch(k) == FirstBy(Queued(k), QueueChunk, Oldest)

\* The rows below the cursor.
Unfilled(k) == {d \in OfKind(k) : srcText[d] # 0 /\ d[2] < ixFill[k].cursor}

\* Mutant of BackfillBatch: LIMIT is one too large.
BackfillBatchLonger(k) ==
    FirstBy(Unfilled(k), BackfillChunk + 1, NewestId)

\* load_*_backfill_batch: the next rows below the cursor.
BackfillBatch(k) ==
    FirstBy(Unfilled(k), BackfillChunk, NewestId)

\* The batch is read and, if the writer looks free, segmented.
ReadBatch(w) ==
    LET work == WorkToDo
        docs == IF work[1] = "queue" THEN QueueBatch(work[2]) ELSE BackfillBatch(work[2])
    IN
    /\ ixWorker[w].pc = "top"
    /\ work[1] # "idle"
    /\ ~ixBusy
    /\ ixWorker' = [ixWorker EXCEPT ![w] =
            [pc |-> "commit", job |-> work[1], kind |-> work[2], fill |-> ixFill[work[2]].cursor,
             batch |-> {[doc |-> d, action |-> ixQueue[d].action, gen |-> ixQueue[d].gen,
                         text |-> srcText[d]] : d \in docs}]]
    /\ UNCHANGED <<srcText, ixContent, ixQueue, ixFill, ixBusy, ixWrites, ixStops, ixSnap>>

\* The worker's next turn.
Done(w) == [ixWorker EXCEPT ![w] = FreshWorker]

\* The documents of the rows take their segmented texts; those to be deleted lose theirs.
Write(rows, deleted) ==
    ixContent' = [d \in IxDocs |->
        IF \E r \in rows : r.doc = d
        THEN LET r == CHOOSE q \in rows : q.doc = d IN IF r \in deleted THEN 0 ELSE r.text
        ELSE ixContent[d]]

\* apply_prepared_*_row: rows whose action and generation are still queued.
CurrentRows(me) == {r \in me.batch : ixQueue[r.doc] = [action |-> r.action, gen |-> r.gen]}

\* A batch of the history is stale when live work has come, when accounts
\* have to be done first, or when the cursor is not the one it was read at.
StaleBackfill(me) ==
    \/ Queued("status") # {}
    \/ Queued("account") # {}
    \/ me.kind = "status" /\ ~ixFill["account"].completed
    \/ ixFill[me.kind] # [cursor |-> me.fill, completed |-> FALSE]

\* Mutant of CommitQueue: the row is written and stays queued.
CommitQueueKeepsRow(w) ==
    LET me == ixWorker[w]
        current == CurrentRows(me)
    IN
    /\ me.pc = "commit" /\ me.job = "queue"
    /\ ~ixBusy
    /\ Write(current, {r \in current : r.action = "delete"})
    /\ ixWorker' = Done(w)
    /\ UNCHANGED <<srcText, ixQueue, ixFill, ixBusy, ixWrites, ixStops, ixSnap>>

\* commit_prepared_*_queue: rows whose generation is still queued are
\* written and dequeued; accounts wait while statuses are queued.
CommitQueue(w) ==
    LET me == ixWorker[w]
        current == CurrentRows(me)
        keys == {r.doc : r \in current}
        yields == me.kind = "account" /\ Queued("status") # {}
    IN
    /\ me.pc = "commit" /\ me.job = "queue"
    /\ ~ixBusy
    /\ IF yields THEN UNCHANGED <<ixContent, ixQueue>>
       ELSE /\ Write(current, {r \in current : r.action = "delete"})
            /\ ixQueue' = [d \in IxDocs |-> IF d \in keys THEN NotQueued ELSE ixQueue[d]]
    /\ ixWorker' = Done(w)
    /\ UNCHANGED <<srcText, ixFill, ixBusy, ixWrites, ixStops, ixSnap>>

\* Mutant of CommitBackfill: a full batch counts as the last one.
CommitBackfillEndsEarly(w) ==
    LET me == ixWorker[w]
        current == {r \in me.batch : r.text = srcText[r.doc]}
        last == IF me.batch = {} THEN me.fill ELSE Min({r.doc[2] : r \in me.batch})
    IN
    /\ me.pc = "commit" /\ me.job = "backfill"
    /\ ~ixBusy
    /\ Write(current, {})
    /\ ixFill' = [ixFill EXCEPT ![me.kind] =
                     [cursor |-> last, completed |-> Cardinality(me.batch) <= BackfillChunk]]
    /\ ixWorker' = Done(w)
    /\ UNCHANGED <<srcText, ixQueue, ixBusy, ixWrites, ixStops, ixSnap>>

\* commit_prepared_*_backfill: rows whose text has not changed are written
\* and the cursor moves, unless live work has come or the cursor has moved.
CommitBackfill(w) ==
    LET me == ixWorker[w]
        current == {r \in me.batch : r.text = srcText[r.doc]}
        last == IF me.batch = {} THEN me.fill ELSE Min({r.doc[2] : r \in me.batch})
    IN
    /\ me.pc = "commit" /\ me.job = "backfill"
    /\ ~ixBusy
    /\ IF StaleBackfill(me) THEN UNCHANGED <<ixContent, ixFill>>
       ELSE /\ Write(current, {})
            /\ ixFill' = [ixFill EXCEPT ![me.kind] =
                   [cursor |-> last, completed |-> Cardinality(me.batch) < BackfillChunk]]
    /\ ixWorker' = Done(w)
    /\ UNCHANGED <<srcText, ixQueue, ixBusy, ixWrites, ixStops, ixSnap>>

\* The writer is taken, here or by another process: the batch is dropped.
CommitBusy(w) ==
    /\ ixWorker[w].pc = "commit"
    /\ ixBusy
    /\ ixWorker' = Done(w)
    /\ UNCHANGED <<srcText, ixContent, ixQueue, ixFill, ixBusy, ixWrites, ixStops, ixSnap>>

\* An error, or the end and the next start of the process.
WorkerStops(w) ==
    /\ ixWorker[w].pc = "commit"
    /\ ixStops < MaxIxStops
    /\ ixStops' = ixStops + 1
    /\ ixWorker' = Done(w)
    /\ UNCHANGED <<srcText, ixContent, ixQueue, ixFill, ixBusy, ixWrites, ixSnap>>

-----------------------------------------------------------------------------
(***************************************************************************)
(* Search.                                                                 *)
(***************************************************************************)

\* query_statuses_on_connection reads the backfill states, later the rows.
SearchBegins ==
    /\ ixSnap # ixFill
    /\ ixSnap' = ixFill
    /\ UNCHANGED <<srcText, ixContent, ixQueue, ixFill, ixBusy, ixWrites,
                   ixWorker, ixStops>>

\* pending_status_rows and pending_account_rows: the newest queued rows.
Pending(k) ==
    FirstBy({d \in Queued(k) : ixQueue[d].action = "upsert" /\ srcText[d] # 0}, PendingLimit,
            NewestQueued)

\* Mutant of Matching: a pending row is still found by its old text.
MatchingStale(k, term) ==
    {d \in OfKind(k) : ixContent[d] = term} \union {d \in Pending(k) : srcText[d] = term}
        \union {d \in OfKind(k) : ~ixSnap[k].completed /\ ixContent[d] = 0 /\ srcText[d] = term}

\* Rows of a kind that match a term: through the index, the queue and, while
\* the history is being indexed, the rows without an index entry.  (The
\* windows of 256 recent rows and of 10000 candidates are taken as wide enough.)
Matching(k, term) ==
    LET indexed == {d \in OfKind(k) \ Pending(k) : ixContent[d] = term}
        pending == {d \in Pending(k) : srcText[d] = term}
        gap == {d \in OfKind(k) \ Pending(k) :
                   /\ ~ixSnap[k].completed
                   /\ k = "account" => d[2] < ixSnap[k].cursor
                   /\ ixContent[d] = 0
                   /\ srcText[d] = term}
    IN  indexed \union pending \union gap

\* The statuses of the answer: those that match, and those of authors that do.
SearchHits(term) ==
    {s \in OfKind("status") :
        srcText[s] # 0 /\ (s \in Matching("status", term) \/ Matching("account", term) # {})}

-----------------------------------------------------------------------------

\* A new cache, or one from before the index with its history still to do.
SearchInit ==
    /\ \E t \in {0, 1} :
          /\ srcText = [d \in IxDocs |-> t]
          /\ ixFill = [k \in Kinds |-> [cursor |-> FillStart, completed |-> t = 0]]
    /\ ixContent = [d \in IxDocs |-> 0]
    /\ ixQueue = [d \in IxDocs |-> NotQueued]
    /\ ixBusy = FALSE
    /\ ixWrites = 0
    /\ ixWorker = [w \in IxWorkers |-> FreshWorker]
    /\ ixStops = 0
    /\ ixSnap = ixFill

WorkerTurn(w) == ReadBatch(w) \/ CommitQueue(w) \/ CommitBackfill(w) \/ CommitBusy(w)

Interactive ==
    \/ \E d \in IxDocs, t \in IxTexts \union {0} : WriterCommits(d, t)
    \/ ClearStatusCache

SearchNext ==
    \/ WriterBegins
    \/ Interactive
    \/ \E w \in IxWorkers : WorkerTurn(w) \/ WorkerStops(w)
    \/ SearchBegins

SearchSpec == SearchInit /\ [][SearchNext]_ixVars

-----------------------------------------------------------------------------

\* Rows, queue and backfill states have their types, and batches their limit.
SearchTypeOK ==
    /\ srcText \in [IxDocs -> IxTexts \union {0}]
    /\ ixContent \in [IxDocs -> IxTexts \union {0}]
    /\ ixQueue \in [IxDocs -> [action : {"upsert", "delete"}, gen : 0..MaxIxWrites]]
    /\ ixFill \in [Kinds -> [cursor : 1..FillStart, completed : BOOLEAN]]
    /\ ixBusy \in BOOLEAN
    /\ ixWrites \in 0..MaxIxWrites
    /\ ixStops \in 0..MaxIxStops
    /\ ixSnap \in [Kinds -> [cursor : 1..FillStart, completed : BOOLEAN]]
    /\ \A w \in IxWorkers :
          /\ ixWorker[w].pc \in {"top", "commit"}
          /\ Cardinality(ixWorker[w].batch) <= Max({QueueChunk, BackfillChunk})

\* "The portable SQLite queues are authoritative": a row whose index entry is
\* not its text is queued, or still ahead of the backfill, whichever batches
\* of two processes, changes, clears and restarts crossed each other.
IndexNeverForgets ==
    \A d \in IxDocs :
        ixContent[d] # srcText[d] =>
            \/ ixQueue[d].gen # 0
            \/ ~ixFill[d[1]].completed /\ d[2] < ixFill[d[1]].cursor

\* While no more rows are pending than a search looks at, a search finds the
\* statuses whose current text matches and no others, however far the index
\* is behind and whatever was indexed since the search read the cursors.
SearchIsExact ==
    (\A k \in Kinds : Cardinality(Queued(k)) <= PendingLimit) =>
        \A t \in IxTexts :
            SearchHits(t) = {s \in OfKind("status") :
                /\ srcText[s] # 0
                /\ srcText[s] = t \/ \E a \in OfKind("account") : srcText[a] = t}

\* When writes pause the index becomes the cache: neither kind, neither process
\* and no busy writer starves the others.
IndexCatchesUp == ixContent # srcText ~> ixContent = srcText

-----------------------------------------------------------------------------
(***************************************************************************)
(* The turns of the index worker's run (services/search_indexer.rs): a     *)
(* bounded merge of one of the two FTS indexes, then at most one index     *)
(* write.  Every write adds a segment and FTS5 stops at 2000 of them, so   *)
(* merging has to keep ahead of any amount of traffic.                     *)
(***************************************************************************)
CONSTANTS HighWater,        \* SEGMENT_PRESSURE_HIGH_WATER
          IntervalTurns,    \* turns that fit into MERGE_INTERVAL
          MaxMergeErrors    \* bound: errors and restarts

\* An interval has fewer turns than the high water has segments.
ASSUME IntervalTurnsAssumption ==
    /\ IntervalTurns \in Nat \ {0} /\ HighWater \in Nat /\ HighWater > IntervalTurns + 1
    /\ MaxMergeErrors \in Nat

VARIABLES
    segs,         \* segments of each index
    debt,         \* merge_debt and account_merge_debt
    run,          \* the loop's variables: pc, active_merge_target, next_merge_target, last_merge
    writerTaken,  \* the writer connection is in use elsewhere
    sinceCheck,   \* turns that went on to the index since the segments were counted
    mergeErrors   \* errors and restarts so far

mergeVars == <<segs, debt, run, writerTaken, sinceCheck, mergeErrors>>

Targets == {"status", "account"}
OtherTarget(t) == IF t = "status" THEN "account" ELSE "status"

\* run starts with last_merge an interval ago.
RunStart == [pc |-> "merge", active |-> "none", next |-> "status", due |-> TRUE]

\* select_pressure_target.
MergePressure(preferred) ==
    LET pressed == {t \in Targets : segs[t] >= HighWater} IN
    IF pressed = {} THEN "none"
    ELSE IF segs["status"] = segs["account"] THEN preferred
    ELSE CHOOSE t \in pressed : segs[OtherTarget(t)] < segs[t]

\* select_dirty_merge_target.
MergeDirty(preferred) ==
    IF debt["status"] /\ debt["account"] THEN preferred
    ELSE IF debt["status"] THEN "status"
    ELSE IF debt["account"] THEN "account" ELSE "none"

\* The target of this turn, none when the interval has not passed.
TurnTarget ==
    IF run.active # "none" THEN run.active
    ELSE IF MergePressure(run.next) # "none" THEN MergePressure(run.next)
    ELSE MergeDirty(run.next)

Protected == run.active # "none" \/ MergePressure(run.next) # "none"

\* Segments are counted unless a merge is under way.
Counted == IF run.active = "none" THEN 0 ELSE sinceCheck

-----------------------------------------------------------------------------

\* Other writers come and go.
WriterTakenOrFreed ==
    /\ writerTaken' = ~writerTaken
    /\ UNCHANGED <<segs, debt, run, sinceCheck, mergeErrors>>

\* commit_bounded_merge: pages are copied while there is something to merge,
\* and the dirty bit says whether there was.
BoundedMerge(t, worked) ==
    /\ t # "none" /\ ~writerTaken
    /\ worked = (segs[t] > 1)
    /\ segs' = [segs EXCEPT ![t] = IF worked THEN @ - 1 ELSE @]
    /\ debt' = [debt EXCEPT ![t] = worked]

\* The merge copied pages: the same target goes on next turn.
MergeWorked ==
    LET t == TurnTarget IN
    /\ run.pc = "merge"
    /\ BoundedMerge(t, TRUE)
    /\ run' = [run EXCEPT !.active = t, !.due = TRUE]
    /\ sinceCheck' = Counted
    /\ UNCHANGED <<writerTaken, mergeErrors>>

\* Mutant of MergeNoop: the targets do not take turns.
MergeNoopSameTarget ==
    LET t == TurnTarget IN
    /\ run.pc = "merge"
    /\ BoundedMerge(t, FALSE)
    /\ run' = [pc |-> "index", active |-> "none", next |-> "status", due |-> FALSE]
    /\ sinceCheck' = 0
    /\ UNCHANGED <<writerTaken, mergeErrors>>

\* Nothing was left to merge: the debt is cleared, the other target is next,
\* and without a gap when it is under pressure.
MergeNoop ==
    LET t == TurnTarget
        more == MergePressure(OtherTarget(t))
    IN
    /\ run.pc = "merge"
    /\ BoundedMerge(t, FALSE)
    /\ run' = [pc |-> IF more = "none" THEN "index" ELSE "merge", active |-> more,
               next |-> OtherTarget(t), due |-> more # "none"]
    /\ sinceCheck' = 0
    /\ UNCHANGED <<writerTaken, mergeErrors>>

\* Mutant of MergeBusy: a busy writer lets the turn go on to its write.
MergeBusyWrites ==
    /\ run.pc = "merge"
    /\ TurnTarget # "none" /\ writerTaken
    /\ run' = [run EXCEPT !.pc = "index"]
    /\ sinceCheck' = Counted
    /\ UNCHANGED <<segs, debt, writerTaken, mergeErrors>>

\* The writer is busy: a protected merge is tried again before any write.
MergeBusy ==
    /\ run.pc = "merge"
    /\ TurnTarget # "none" /\ writerTaken
    /\ run' = IF Protected THEN [run EXCEPT !.active = TurnTarget]
              ELSE [run EXCEPT !.pc = "index"]
    /\ sinceCheck' = Counted
    /\ UNCHANGED <<segs, debt, writerTaken, mergeErrors>>

\* The merge command fails and its debt is cleared.  A protected merge ends
\* the run, which starts again after a pause; another one lets the turn go on.
MergeFailed ==
    LET t == TurnTarget IN
    /\ run.pc = "merge"
    /\ t # "none" /\ ~writerTaken
    /\ mergeErrors < MaxMergeErrors
    /\ mergeErrors' = mergeErrors + 1
    /\ debt' = [debt EXCEPT ![t] = FALSE]
    /\ run' = IF Protected THEN RunStart
              ELSE [pc |-> "index", active |-> "none", next |-> OtherTarget(t), due |-> FALSE]
    /\ sinceCheck' = Counted
    /\ UNCHANGED <<segs, writerTaken>>

\* Nothing to merge, or the interval has not passed.
MergeSkipped ==
    /\ run.pc = "merge"
    /\ run.active = "none"
    /\ \/ TurnTarget = "none" /\ sinceCheck' = 0
       \/ ~run.due /\ sinceCheck < IntervalTurns /\ UNCHANGED sinceCheck
    /\ run' = [run EXCEPT !.pc = "index"]
    /\ UNCHANGED <<segs, debt, writerTaken, mergeErrors>>

\* Mutant of IndexWrite: a write restarts the interval.
IndexWriteRestartsInterval(t) ==
    /\ run.pc = "index"
    /\ ~writerTaken
    /\ segs' = [segs EXCEPT ![t] = @ + 1]
    /\ debt' = [debt EXCEPT ![t] = TRUE]
    /\ run' = [run EXCEPT !.pc = "merge", !.due = FALSE]
    /\ sinceCheck' = 0
    /\ UNCHANGED <<writerTaken, mergeErrors>>

\* run_index_step committed a batch: one more segment, and record_merge_debt.
IndexWrite(t) ==
    /\ run.pc = "index"
    /\ ~writerTaken
    /\ segs' = [segs EXCEPT ![t] = @ + 1]
    /\ debt' = [debt EXCEPT ![t] = TRUE]
    /\ run' = [run EXCEPT !.pc = "merge"]
    /\ sinceCheck' = sinceCheck + 1
    /\ UNCHANGED <<writerTaken, mergeErrors>>

\* There was nothing to index, or the writer was busy.
IndexNothing ==
    /\ run.pc = "index"
    /\ run' = [run EXCEPT !.pc = "merge"]
    /\ sinceCheck' = sinceCheck + 1
    /\ UNCHANGED <<segs, debt, writerTaken, mergeErrors>>

\* An index step fails, or the process ends and starts again.
RunRestarts ==
    /\ mergeErrors < MaxMergeErrors
    /\ mergeErrors' = mergeErrors + 1
    /\ run' = RunStart
    /\ UNCHANGED <<segs, debt, writerTaken, sinceCheck>>

-----------------------------------------------------------------------------

MergeInit ==
    /\ segs \in [Targets -> 0..HighWater]
    /\ debt = [t \in Targets |-> segs[t] > 0]
    /\ run = RunStart
    /\ writerTaken = FALSE
    /\ sinceCheck = 0
    /\ mergeErrors = 0

RunStep ==
    \/ MergeWorked
    \/ MergeNoop
    \/ MergeBusy
    \/ MergeSkipped
    \/ \E t \in Targets : IndexWrite(t)
    \/ IndexNothing

MergeNext ==
    \/ WriterTakenOrFreed
    \/ RunStep
    \/ MergeFailed
    \/ RunRestarts

MergeSpec == MergeInit /\ [][MergeNext]_mergeVars

-----------------------------------------------------------------------------

\* Segments, debts and the loop's variables have their types.
MergeTypeOK ==
    /\ segs \in [Targets -> Nat]
    /\ debt \in [Targets -> BOOLEAN]
    /\ run \in [pc : {"merge", "index"}, active : Targets \union {"none"}, next : Targets,
                due : BOOLEAN]
    /\ run.active # "none" => run.pc = "merge"
    /\ writerTaken \in BOOLEAN
    /\ sinceCheck \in Nat
    /\ mergeErrors \in 0..MaxMergeErrors

\* "Leave enough headroom": an index passes the high water by no more than
\* the turns of one interval, whatever the traffic, the busy writer, the
\* failed merges and the restarts.
SegmentsStayBelowCeiling == \A t \in Targets : segs[t] <= HighWater + IntervalTurns

\* "sustained live traffic cannot starve maintenance": a dirty index is
\* merged until nothing is left, although index writes never stop, provided the
\* interactive writers leave the connection free in the end (a merge that is not
\* under pressure gives way to them).
DebtIsPaid == <>[]~writerTaken => \A t \in Targets : debt[t] ~> ~debt[t]

\* What a search answers (search_indexer.rs, search.rs): every write reaches the index however
\* the workers are stopped, what is found is what the rows hold, and the index keeps below its
\* number of segments.
IndexIsRight ==
    /\ SearchTypeOK /\ IndexNeverForgets /\ SearchIsExact
    /\ MergeTypeOK /\ SegmentsStayBelowCeiling
=============================================================================
