--------------------------- MODULE TimelinePages ----------------------------
(***************************************************************************)
(* One page of a query column: query_statuses of services/kq_timeline.rs   *)
(* and of services/yq_timeline.rs.  Posts are numbered by their place in   *)
(* (created_at, server_domain, id); the scan walks down a cache that other *)
(* tasks write meanwhile, a page of rows at a time, and decides on each    *)
(* row in memory.                                                          *)
(***************************************************************************)
EXTENDS Integers, FiniteSets, Sequences, FiniteSetsExt, SequencesExt

CONSTANTS ScanRows,      \* the posts, numbered from the oldest
          ScanPage,      \* FILTER_PAGE_SIZE
          ScanFloor,     \* MIN_SCANNED_ROWS
          ScanCeiling,   \* ABSOLUTE_MAX_SCANNED_ROWS
          ScanLimits,    \* the limits asked for
          MaxCacheWrites \* bound: writes of other tasks during the scan

ASSUME ScanAssumption ==
    /\ ScanRows \subseteq Nat /\ 0 \notin ScanRows
    /\ ScanPage > 0 /\ ScanFloor <= ScanCeiling

VARIABLES
    tsCached,   \* the rows of statuses
    tsMatch,    \* the posts the query matches
    tsAsk,      \* the request: engine, limit, offset, stop_at, start_after (0: none)
    tsStep,
    tsBudget,   \* max_scanned_rows
    tsStop,     \* the stop cursor, 0 when it was not found
    tsCursor,   \* the cursor, 0 before the first page of a scan from the top
    tsSkip,     \* the matches that have still to be skipped
    tsRows,     \* the rows of the page that have still to be decided
    tsEnd,      \* reached_end or stopped_at_since
    tsScanned,  \* scanned_count
    tsResult,   \* results
    tsCancel,   \* the token is cancelled
    tsWrites,
    tsLive,     \* ghost: the posts that were cached since the query began
    tsFrom      \* ghost: the cursor the scan began at

tsVars == <<tsCached, tsMatch, tsAsk, tsStep, tsBudget, tsStop, tsCursor, tsSkip, tsRows, tsEnd,
            tsScanned, tsResult, tsCancel, tsWrites, tsLive, tsFrom>>

scanning == tsStep \in {"begin", "cursors", "fetch", "rows"}

\* Other tasks write the cache, and the frontend may cancel, at any await.
CacheWrites ==
    /\ scanning /\ tsStep # "rows" /\ tsWrites < MaxCacheWrites
    /\ \E r \in ScanRows :
          tsCached' = IF r \in tsCached THEN tsCached \ {r} ELSE tsCached \union {r}
    /\ tsLive' = tsLive \intersect tsCached'
    /\ tsWrites' = tsWrites + 1
    /\ UNCHANGED <<tsMatch, tsAsk, tsStep, tsBudget, tsStop, tsCursor, tsSkip, tsRows, tsEnd,
                   tsScanned, tsResult, tsCancel, tsFrom>>

CancelScan ==
    /\ scanning /\ ~tsCancel
    /\ tsCancel' = TRUE
    /\ UNCHANGED <<tsCached, tsMatch, tsAsk, tsStep, tsBudget, tsStop, tsCursor, tsSkip, tsRows,
                   tsEnd, tsScanned, tsResult, tsWrites, tsLive, tsFrom>>

scanLocals == <<tsCached, tsMatch, tsAsk, tsBudget, tsStop, tsCursor, tsSkip, tsRows, tsEnd,
                tsScanned, tsResult, tsCancel, tsWrites, tsLive, tsFrom>>

\* The deadline passes, an await loses against it, or the database fails.
ScanFails ==
    /\ scanning
    /\ tsStep' = "failed"
    /\ UNCHANGED scanLocals

\* QueryBudget::for_status_count.  The counter may be behind the table.
BudgetFor(count) == Min({Max({count + ScanPage, ScanFloor}), ScanCeiling})

BeginScan ==
    /\ tsStep = "begin" /\ ~tsCancel
    /\ tsBudget' = BudgetFor(Cardinality(tsCached))
    /\ tsStep' = IF tsAsk.limit = 0 THEN "answered" ELSE "cursors"
    /\ UNCHANGED <<tsCached, tsMatch, tsAsk, tsStop, tsCursor, tsSkip, tsRows, tsEnd, tsScanned,
                   tsResult, tsCancel, tsWrites, tsLive, tsFrom>>

\* resolve_cursor: a place needs the row.
ResolveCursor(key) == IF key \in tsCached THEN key ELSE 0

\* Without a cursor the offset says where the page begins.
ResolveCursors ==
    /\ tsStep = "cursors"
    /\ tsStop' = ResolveCursor(tsAsk.stop)
    /\ tsCursor' = ResolveCursor(tsAsk.after)
    /\ tsFrom' = tsCursor'
    /\ tsSkip' = IF tsCursor' = 0 THEN tsAsk.offset ELSE 0
    /\ tsStep' = "fetch"
    /\ UNCHANGED <<tsCached, tsMatch, tsAsk, tsBudget, tsRows, tsEnd, tsScanned, tsResult, tsCancel,
                   tsWrites, tsLive>>

\* The newest rows between the two cursors, at most n, newest first.
PageBelow(n) ==
    LET rows == {r \in tsCached : r > tsStop /\ (tsCursor = 0 \/ r < tsCursor)}
    IN SetToSortSeq({r \in rows : Cardinality({q \in rows : q > r}) < n},
                    LAMBDA x, y : x > y)

\* A stop that is no cursor cuts the page where its row stands.
CutAtStop(rows) ==
    LET key == IF tsStop = 0 THEN tsAsk.stop ELSE 0
        at == SelectInSeq(rows, LAMBDA r : r = key)
    IN IF at = 0 THEN rows ELSE SubSeq(rows, 1, at - 1)

\* Mutant of FetchRows: the cursor is where the results end, not where the page ends.
FetchRowsFromResult ==
    LET n == Min({tsBudget - tsScanned, ScanPage})
        page == PageBelow(n)
        rows == CutAtStop(page)
    IN
    /\ tsStep = "fetch" /\ ~tsCancel /\ tsScanned < tsBudget
    /\ tsCursor' = IF tsResult = <<>> THEN tsCursor ELSE Last(tsResult)
    /\ tsRows' = rows
    /\ tsEnd' = (Len(page) < n \/ rows # page)
    /\ tsStep' = IF rows = <<>> THEN "final" ELSE "rows"
    /\ UNCHANGED <<tsCached, tsMatch, tsAsk, tsBudget, tsStop, tsSkip, tsScanned, tsResult,
                   tsCancel, tsWrites, tsLive, tsFrom>>

FetchRows ==
    LET n == Min({tsBudget - tsScanned, ScanPage})
        page == PageBelow(n)
        rows == CutAtStop(page)
    IN
    /\ tsStep = "fetch" /\ ~tsCancel /\ tsScanned < tsBudget
    /\ tsCursor' = IF page = <<>> THEN tsCursor ELSE Last(page)
    /\ tsRows' = rows
    /\ tsEnd' = (Len(page) < n \/ rows # page)
    /\ tsStep' = IF rows = <<>> THEN "final" ELSE "rows"
    /\ UNCHANGED <<tsCached, tsMatch, tsAsk, tsBudget, tsStop, tsSkip, tsScanned, tsResult,
                   tsCancel, tsWrites, tsLive, tsFrom>>

\* The budget and the token, before a page and, in KQ, for every row
\* and once more at the end.
GuardsBreak ==
    /\ \/ tsStep = "fetch" /\ (tsCancel \/ tsScanned >= tsBudget)
       \/ /\ tsStep = "rows" /\ tsRows # <<>> /\ tsAsk.engine = "kq"
          /\ tsCancel \/ tsScanned + 1 >= tsBudget
       \/ tsStep = "final" /\ tsAsk.engine = "kq" /\ (tsCancel \/ tsScanned >= tsBudget)
    /\ tsStep' = "failed"
    /\ UNCHANGED scanLocals

\* A row is decided in memory: a match is skipped, or taken until the page is full.
DecideRow ==
    /\ tsStep = "rows" /\ tsRows # <<>>
    /\ LET r == Head(tsRows)
           full == r \in tsMatch /\ tsSkip = 0 /\ Len(tsResult) + 1 >= tsAsk.limit
       IN /\ tsScanned' = tsScanned + 1
          /\ tsSkip' = IF r \in tsMatch /\ tsSkip > 0 THEN tsSkip - 1 ELSE tsSkip
          /\ tsResult' = IF r \in tsMatch /\ tsSkip = 0 THEN Append(tsResult, r) ELSE tsResult
          /\ tsRows' = IF full THEN <<>> ELSE Tail(tsRows)
    /\ UNCHANGED <<tsCached, tsMatch, tsAsk, tsStep, tsBudget, tsStop, tsCursor, tsEnd, tsCancel,
                   tsWrites, tsLive, tsFrom>>

\* KQ hydrates the page in bulk first, and looks at its guards between match and result.
KqRow ==
    /\ tsAsk.engine = "kq" /\ ~tsCancel /\ tsScanned + 1 < tsBudget
    /\ DecideRow

YqRow == tsAsk.engine = "yq" /\ DecideRow

PageDecided ==
    /\ tsStep = "rows" /\ tsRows = <<>>
    /\ tsStep' = IF tsEnd \/ Len(tsResult) >= tsAsk.limit THEN "final" ELSE "fetch"
    /\ UNCHANGED scanLocals

\* Mutant of AnswerPage: the budget ends the scan and what there is, is answered.
AnswerShortPage ==
    /\ \/ tsStep = "final"
       \/ tsStep = "fetch" /\ tsScanned >= tsBudget
    /\ tsStep' = "answered"
    /\ UNCHANGED scanLocals

\* KQ looks at its guards once more before it answers.
AnswerPage ==
    /\ tsStep = "final"
    /\ tsAsk.engine = "kq" => ~tsCancel /\ tsScanned < tsBudget
    /\ tsStep' = "answered"
    /\ UNCHANGED scanLocals

ScanAsks ==
    [engine : {"kq", "yq"}, limit : ScanLimits, offset : {0, 1}, stop : {0, 1}, after : {0, 3}]

ScanInit ==
    /\ tsCached \in {ScanRows, ScanRows \ {1}, ScanRows \ {3}}
    /\ tsMatch \in {ScanRows, {r \in ScanRows : r % 3 = 1}}
    /\ tsAsk \in ScanAsks
    /\ tsStep = "begin"
    /\ tsBudget = 0 /\ tsStop = 0 /\ tsCursor = 0 /\ tsSkip = 0
    /\ tsRows = <<>> /\ tsEnd = FALSE /\ tsScanned = 0 /\ tsResult = <<>>
    /\ tsCancel = FALSE /\ tsWrites = 0
    /\ tsLive = tsCached
    /\ tsFrom = 0

ScanNext ==
    \/ CacheWrites \/ CancelScan \/ ScanFails \/ BeginScan \/ ResolveCursors
    \/ FetchRows \/ GuardsBreak \/ KqRow \/ YqRow \/ PageDecided \/ AnswerPage

-----------------------------------------------------------------------------

\* An answered page has no hole: a matching post that was cached all through the scan, lies
\* below the cursor and above the stop, is in the page or below its last post, and when the
\* page is short there is no such post outside it.  A scan cut short by the budget, by the
\* deadline or by the token is an error, never a short page.
PagesHaveNoHoles ==
    tsStep = "answered" /\ tsAsk.limit > 0 /\ (tsAsk.offset = 0 \/ tsFrom # 0) =>
        \A r \in tsLive \intersect tsMatch :
            \/ tsFrom # 0 /\ r >= tsFrom
            \/ r <= tsAsk.stop
            \/ r \in Range(tsResult)
            \/ Len(tsResult) = tsAsk.limit /\ r < Last(tsResult)

\* The posts of a page are in order, none twice, although rows appear and vanish between
\* the pages of the scan, and none of them is at or above the cursor.
PagesAreInOrder ==
    /\ \A i, j \in DOMAIN tsResult : i < j => tsResult[i] > tsResult[j]
    /\ tsFrom # 0 => \A i \in DOMAIN tsResult : tsResult[i] < tsFrom

-----------------------------------------------------------------------------
(***************************************************************************)
(* A column fed by pages of a server: sync_timeline_with_control and its   *)
(* gap check (services/timeline_service.rs), refresh, load-more and        *)
(* load-gap (application/timeline.rs, application/desktop.rs), and what     *)
(* frontend/src/store/actions/timelineQueryActions.ts does with the answer.*)
(* The posts of one account's timeline are numbered from the oldest; the   *)
(* stream caches some of the new ones and misses others.                   *)
(***************************************************************************)
CONSTANTS GapPosts,     \* the posts of the timeline
          GapAway,      \* the posts there are when the application starts, one of them cached
          GapLimit,     \* limit: the posts of a page
          GapBatch,     \* DB_BATCH_MAX_STATUSES
          MaxApiPages,  \* MAX_API_PAGES_PER_LOAD_MORE
          MaxGapSyncs   \* bound: refreshes and loads

ASSUME GapAssumption == GapLimit > 0 /\ GapBatch > 0 /\ MaxApiPages > 0

VARIABLES
    tgThere,    \* the posts there are: 1 .. tgThere
    tgEntries,  \* timeline_entries of the account
    tgShown,    \* the posts of the column
    tgFilter,   \* the posts its display filter lets through
    tgGap,      \* the gap marker of the account, 0 without one
    tgJob,      \* the commands in flight, a refresh and a load: <<>> or a record
    tgSyncs,
    tgBelow,    \* ghost: where the history below the marker began when it was set
    tgLost,     \* ghost: a command failed after it had cached a whole page
    tgLast      \* ghost: the load answered last, <<>> before

tgVars == <<tgThere, tgEntries, tgShown, tgFilter, tgGap, tgJob, tgSyncs, tgBelow, tgLost,
            tgLast>>

GapSlots == {"refresh", "load"}

\* The server gets a post; the stream caches and shows it, or misses it.
TimelinePosts ==
    /\ tgThere + 1 \in GapPosts
    /\ tgThere' = tgThere + 1
    /\ \/ UNCHANGED <<tgEntries, tgShown>>
       \/ /\ tgEntries' = tgEntries \union {tgThere'}
          /\ tgShown' = tgShown \union ({tgThere'} \intersect tgFilter)
    /\ UNCHANGED <<tgFilter, tgGap, tgJob, tgSyncs, tgBelow, tgLost, tgLast>>

\* The newest posts below max (0: of all), at most a page, newest first.
ApiPage(max) ==
    LET posts == {p \in GapPosts : p <= tgThere /\ (max = 0 \/ p < max)}
    IN SetToSortSeq({p \in posts : Cardinality({q \in posts : q > p}) < GapLimit},
                    LAMBDA x, y : x > y)

\* The newest entry below a post: where the older history begins.
Below(p) == Max({e \in tgEntries : e < p} \union {0})

BeginGapJob(slot, kind, max) ==
    /\ tgJob[slot] = <<>> /\ tgSyncs < MaxGapSyncs
    /\ tgSyncs' = tgSyncs + 1
    /\ tgJob' = [tgJob EXCEPT ![slot] =
                   [kind |-> kind, step |-> "fetch", from |-> max, max |-> max, page |-> <<>>,
                    gap |-> 0, found |-> <<>>, pages |-> 0, below |-> tgBelow]]
    /\ UNCHANGED <<tgThere, tgEntries, tgShown, tgFilter, tgGap, tgBelow, tgLost, tgLast>>

\* refresh_timeline; it may run beside a load that has begun.
RefreshColumn == BeginGapJob("refresh", "refresh", 0)

\* loadMoreTimeline: only without a marker, from the oldest post of the column.
LoadMore ==
    /\ tgJob["refresh"] = <<>>
    /\ tgGap = 0 /\ tgShown # {}
    /\ BeginGapJob("load", "more", Min(tgShown))

\* load_timeline_gap: from the marker.
LoadGap ==
    /\ tgJob["refresh"] = <<>>
    /\ tgGap # 0
    /\ BeginGapJob("load", "gap", tgGap)

InStep(slot, step) == tgJob[slot] # <<>> /\ tgJob[slot].step = step

\* sync_timeline_with_control: the page is fetched.
FetchApiPage(slot) ==
    /\ InStep(slot, "fetch")
    /\ tgJob' = [tgJob EXCEPT ![slot].step = "check", ![slot].page = ApiPage(tgJob[slot].max)]
    /\ UNCHANGED <<tgThere, tgEntries, tgShown, tgFilter, tgGap, tgSyncs, tgBelow, tgLost, tgLast>>

\* Mutant of GapBeforePersisting: any cached post of the page counts as meeting the cache.
GapBeforePersistingAny(page) ==
    LET oldest == Last(page)
    IN IF page = <<>> THEN 0
       ELSE IF Range(page) \intersect tgEntries # {} \/ ~\E e \in tgEntries : e < oldest
            THEN 0 ELSE oldest

\* timeline_gap_before_persisting: the page ends where it met the cache, or nothing older
\* is cached; otherwise its oldest post is the marker.
GapBeforePersisting(page) ==
    LET oldest == Last(page)
    IN IF page = <<>> THEN 0
       ELSE IF oldest \in tgEntries \/ ~\E e \in tgEntries : e < oldest THEN 0 ELSE oldest

CheckGap(slot) ==
    LET page == tgJob[slot].page
        gap == GapBeforePersisting(page)
    IN
    /\ InStep(slot, "check")
    /\ tgJob' = [tgJob EXCEPT ![slot].step = "persist", ![slot].gap = gap,
                              ![slot].below = IF gap = 0 \/ (tgJob[slot].kind = "gap" /\ @ # 0)
                                              THEN @ ELSE Below(gap)]
    /\ UNCHANGED <<tgThere, tgEntries, tgShown, tgFilter, tgGap, tgSyncs, tgBelow, tgLost, tgLast>>

\* save_status_items: one transaction for each batch of the page.
PersistBatch(slot) ==
    LET left == SelectSeq(tgJob[slot].page, LAMBDA p : p \notin tgEntries)
        batch == {left[i] : i \in 1 .. Min({GapBatch, Len(left)})}
    IN
    /\ InStep(slot, "persist") /\ left # <<>>
    /\ tgEntries' = tgEntries \union batch
    /\ UNCHANGED <<tgThere, tgShown, tgFilter, tgGap, tgJob, tgSyncs, tgBelow, tgLost, tgLast>>

\* Mutant of NextApiPage: the cursor, which the server leaves out itself, is stepped over.
NextApiPageSkips(page) == Last(page) - 1

\* load_more_api_timeline: the next page begins below the oldest post of this one.
NextApiPage(page) == Last(page)

\* The loop of load_more_api_timeline: an empty page ends it, and so does a full answer.
PagePersisted(slot) ==
    LET page == tgJob[slot].page
        found == tgJob[slot].found \o SelectSeq(page, LAMBDA p : p \in tgFilter)
        pages == tgJob[slot].pages + 1
        on == slot = "load" /\ page # <<>> /\ Len(found) < GapLimit /\ pages < MaxApiPages
    IN
    /\ InStep(slot, "persist") /\ Range(page) \subseteq tgEntries
    /\ tgJob' = [tgJob EXCEPT ![slot].step = IF on THEN "fetch" ELSE "answer",
                              ![slot].max = IF page = <<>> THEN @ ELSE NextApiPage(page),
                              ![slot].found = found, ![slot].pages = pages]
    /\ UNCHANGED <<tgThere, tgEntries, tgShown, tgFilter, tgGap, tgSyncs, tgBelow, tgLost, tgLast>>

\* A fetch or a transaction fails, or the query is cancelled: the column keeps its marker.
GapJobFails(slot) ==
    /\ tgJob[slot] # <<>> /\ tgJob[slot].step # "answer"
    /\ tgJob' = [tgJob EXCEPT ![slot] = <<>>]
    /\ tgLost' = (\/ tgLost \/ tgJob[slot].pages > 0
                  \/ tgJob[slot].step = "persist" /\ Range(tgJob[slot].page) \subseteq tgEntries)
    /\ UNCHANGED <<tgThere, tgEntries, tgShown, tgFilter, tgGap, tgSyncs, tgBelow, tgLast>>

\* loadTimeline: the page replaces the column above its oldest post, or joins the posts
\* that were loaded when the view is not near the top; the marker is the page's.
AnswerRefresh ==
    LET job == tgJob["refresh"]
        page == Range(job.found)
    IN
    /\ InStep("refresh", "answer")
    /\ tgShown' \in {page \union {p \in tgShown : \A q \in page : p >= q},
                     page \union tgShown}
    /\ tgGap' = job.gap
    /\ tgBelow' = IF job.gap = 0 THEN 0 ELSE job.below
    /\ tgJob' = [tgJob EXCEPT !["refresh"] = <<>>]
    /\ UNCHANGED <<tgThere, tgEntries, tgFilter, tgSyncs, tgLost, tgLast>>

\* loadMoreTimeline and loadTimelineGap: the answer is cut to the limit and joins the column.
AnswerLoad ==
    LET job == tgJob["load"]
        marks == job.kind = "gap" \/ job.gap # 0
    IN
    /\ InStep("load", "answer")
    /\ tgShown' = tgShown \union {job.found[i] : i \in 1 .. Min({GapLimit, Len(job.found)})}
    /\ tgGap' = IF marks THEN job.gap ELSE tgGap
    /\ tgBelow' = IF ~marks THEN tgBelow ELSE IF job.gap = 0 THEN 0 ELSE job.below
    /\ tgLast' = [kind |-> job.kind, from |-> job.from, below |-> job.below, gap |-> job.gap,
                  to |-> job.max]
    /\ tgJob' = [tgJob EXCEPT !["load"] = <<>>]
    /\ UNCHANGED <<tgThere, tgEntries, tgFilter, tgSyncs, tgLost>>

GapsInit ==
    /\ tgThere = GapAway
    /\ tgEntries = {1}
    /\ tgShown = {1}
    /\ tgFilter \in {GapPosts, {p \in GapPosts : p % 2 = 1}}
    /\ tgGap = 0 /\ tgJob = [slot \in GapSlots |-> <<>>] /\ tgSyncs = 0
    /\ tgBelow = 0 /\ tgLost = FALSE /\ tgLast = <<>>

GapsNext ==
    \/ TimelinePosts \/ RefreshColumn \/ LoadMore \/ LoadGap
    \/ \E slot \in GapSlots :
          \/ FetchApiPage(slot) \/ CheckGap(slot) \/ PersistBatch(slot) \/ PagePersisted(slot)
          \/ GapJobFails(slot)
    \/ AnswerRefresh \/ AnswerLoad

-----------------------------------------------------------------------------

\* Whoever follows a marker misses nothing: a load that began at a marker has cached every
\* post down to the next marker, or, when there is none, down to the history that was there
\* when the marker was set.  A load that failed inside a page and was repeated, one made of
\* several pages because the filter hid most posts, and a refresh beside it are no exception;
\* a command that fails after it has cached a whole page is: its repetition meets its own page
\* and takes it for the history.
MarkersLeadToHistory ==
    tgLast # <<>> /\ tgLast.kind = "gap" /\ ~tgLost =>
        LET down == IF tgLast.gap # 0 THEN tgLast.gap ELSE Max({tgLast.below, 1})
        IN down .. tgLast.from \subseteq tgEntries

\* A column without a filter also shows them.
MarkedPostsAreShown ==
    tgFilter = GapPosts /\ tgLast' # tgLast /\ tgLast'.kind = "gap" =>
       \A p \in GapPosts : p < tgLast'.from /\ p >= tgLast'.to => p \in tgShown'
=============================================================================
