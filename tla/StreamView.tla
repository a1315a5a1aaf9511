----------------------------- MODULE StreamView -----------------------------
(***************************************************************************)
(* A list column of the page that follows two streams of its account: the  *)
(* stream of the list and the one of the home timeline, which tells of the *)
(* same posts.  Events are gathered and flushed by frames                  *)
(* (store/actions/timelineStreamActions.ts), a gap or a resync marker      *)
(* loads a page (store/actions/timelineQueryActions.ts), and both end in   *)
(* the entities of the column (domain/timelineEntities.ts).                *)
(***************************************************************************)
EXTENDS Integers, FiniteSets, Sequences, SequencesExt

CONSTANTS SvPosts,             \* bound: posts, numbered as they are published
          SvChanges,           \* bound: edits and deletions
          SvLimit,             \* maxStatuses of the column, and the size of a page
          SvMaxBreaks          \* bound: restarts and reconnections of the streams

ASSUME SvAssumption == {SvPosts, SvLimit} \subseteq Nat \ {0} /\ {SvChanges, SvMaxBreaks} \subseteq Nat

VARIABLES
    svPost,        \* provider: post -> 0 before it is published, then its version, or Gone
    svWire,        \* stream -> its events on their way to the page
    svSkipped,     \* the next event does not follow the position of the last one
    svPending,     \* pendingEvents, in the order of its keys
    svView,        \* [ver, keys, later]: the version of each entity, columnKeys and
                   \* deferredColumnKeys of the column
    svNear,        \* timelineNearTop
    svResync,      \* [state, page]: the resync in flight and, once read, post -> version
    svUsed,        \* [changes, breaks]
    svMissed,      \* ghost: posts whose publication reaches the page by no event to come
    svUnheard,     \* ghost: posts with a change that does not reach the page on every stream
    svTouched,     \* ghost: posts changed between the reading of a page and its display
    svCut          \* ghost: posts beyond the limit of the column or of a page

svVars == <<svPost, svWire, svSkipped, svPending, svView, svNear, svResync, svUsed,
            svMissed, svUnheard, svTouched, svCut>>

SvIds == 1..SvPosts
SvStreams == {"list", "user"}
Gone == -1
Published == {p \in SvIds : svPost[p] # 0}
Standing == {p \in SvIds : svPost[p] > 0}
NoPage == [p \in {} |-> 0]
NoResync == [state |-> "none", page |-> NoPage]
SvEvent(s, kind, p, ver) == [stream |-> s, kind |-> kind, post |-> p, ver |-> ver]

\* What the provider does to a post, told on every stream.
Tell(kind, p, ver) ==
    /\ svPost' = [svPost EXCEPT ![p] = ver]
    /\ svWire' = [s \in SvStreams |-> Append(svWire[s], SvEvent(s, kind, p, ver))]
    /\ svTouched' = IF svResync.state = "read" THEN svTouched \union {p} ELSE svTouched
    /\ UNCHANGED <<svSkipped, svPending, svView, svNear, svResync, svMissed, svUnheard, svCut>>

SvPublish == /\ Cardinality(Published) < SvPosts
             /\ Tell("newStatus", Cardinality(Published) + 1, 1) /\ UNCHANGED svUsed

SvChange(p) ==
    /\ p \in Standing /\ svUsed.changes < SvChanges
    /\ svUsed' = [svUsed EXCEPT !.changes = @ + 1]
    /\ Tell("statusUpdate", p, svPost[p] + 1) \/ Tell("deleteStatus", p, Gone)

EventsOf(S) == UNION {ToSet(svWire[s]) : s \in S}
PostsIn(S, kinds) == {e.post : e \in {x \in EventsOf(S) : x.kind \in kinds}}

\* What is on its way is lost, and known to be lost only by what follows.
Drop(S) ==
    /\ svUsed.breaks < SvMaxBreaks /\ svUsed' = [svUsed EXCEPT !.breaks = @ + 1]
    /\ svMissed' = svMissed \union (IF "list" \in S THEN PostsIn(S, {"newStatus"}) ELSE {})
    /\ svUnheard' = svUnheard \union PostsIn(S, {"statusUpdate", "deleteStatus"})
    /\ UNCHANGED <<svPost, svPending, svView, svNear, svResync, svTouched, svCut>>

\* restart_streaming: a new bridge, whose generation is not that of the last position.
SvRestart == /\ Drop(SvStreams) /\ svSkipped' = TRUE
             /\ svWire' = [s \in SvStreams |-> <<>>]

\* A socket comes back: its marker stands for what it did not see.
SvReconnect(s) == /\ Drop({s}) /\ UNCHANGED svSkipped
                  /\ svWire' = [svWire EXCEPT ![s] = <<SvEvent(s, "resync", 0, 0)>>]

\* Mutant of Coalesced: only a deletion replaces what is pending.
CoalescedKeepsOld(current, next) == IF next.kind = "deleteStatus" THEN next ELSE current

\* coalesceEvent: a deletion is final, and the edit of a publication that was not shown yet
\* is a publication.
Coalesced(current, next) ==
    IF next.kind = "deleteStatus" THEN next
    ELSE IF current.kind = "deleteStatus" THEN current
    ELSE IF current.kind = "newStatus" /\ next.kind = "statusUpdate"
    THEN [next EXCEPT !.kind = "newStatus"] ELSE next

\* pendingEvents.set: a key keeps its place in the map.
Gather(e) ==
    LET at == {i \in DOMAIN svPending : svPending[i].stream = e.stream
                                        /\ svPending[i].post = e.post}
    IN  svPending' = IF at = {} THEN Append(svPending, e)
                     ELSE [i \in DOMAIN svPending |->
                              IF i \in at THEN Coalesced(svPending[i], e) ELSE svPending[i]]

\* scheduleResync: one that is in flight stands for the new one.
ScheduleResync ==
    IF svResync.state = "none"
    THEN /\ svResync' = [NoResync EXCEPT !.state = "asked"] /\ svMissed' = {}
    ELSE UNCHANGED <<svResync, svMissed>>

\* queue, recordPosition
ReceiveEvent(s) ==
    /\ svWire[s] # <<>>
    /\ LET e == Head(svWire[s]) IN
       /\ IF svSkipped \/ e.kind = "resync" THEN ScheduleResync
          ELSE UNCHANGED <<svResync, svMissed>>
       /\ IF e.kind = "resync" THEN UNCHANGED svPending ELSE Gather(e)
    /\ svWire' = [svWire EXCEPT ![s] = Tail(@)] /\ svSkipped' = FALSE
    /\ UNCHANGED <<svPost, svView, svNear, svUsed, svUnheard, svTouched, svCut>>

\* The newest posts of a set, as many as the column shows.
Newest(S) == {p \in S : Cardinality({q \in S : q > p}) < SvLimit}

\* An update changes what is held and adds nothing; a post that the viewport must not move
\* for waits among the deferred ones, unless it is there already.
Place(v, e, near) ==
    LET adds == e.kind = "newStatus" /\ e.post \notin v.keys
    IN  [v EXCEPT !.ver[e.post] = e.ver,
                  !.keys = IF adds /\ near THEN Newest(@ \union {e.post}) ELSE @,
                  !.later = IF ~adds THEN @ ELSE IF near THEN @ \ {e.post}
                            ELSE Newest(@ \union {e.post}),
                  !.members = IF e.kind = "newStatus" THEN @ \union {e.post} ELSE @]

\* removeCanonicalId; the membership of the batch forgets only what was an entity before it.
RemoveCanonical(v, p) ==
    [v EXCEPT !.ver[p] = 0, !.keys = @ \ {p}, !.later = @ \ {p},
              !.members = IF svView.ver[p] # 0 THEN @ \ {p} ELSE @]

\* The column receives its own stream, and what it contains from any.
ApplyToColumn(v, e) ==
    IF e.kind = "deleteStatus" THEN RemoveCanonical(v, e.post)
    ELSE IF e.stream = "list" \/ e.post \in v.members THEN Place(v, e, svNear)
    ELSE v

\* pruneUnreferencedEntities
Pruned(v) == [ver |-> [p \in SvIds |-> IF p \in v.keys \union v.later THEN v.ver[p] ELSE 0],
              keys |-> v.keys, later |-> v.later]

Batch ==
    LET start == [ver |-> svView.ver, keys |-> svView.keys, later |-> svView.later,
                  members |-> svView.keys \union svView.later]
    IN  Pruned(FoldLeft(ApplyToColumn, start, svPending))

Brought == {e.post : e \in {x \in ToSet(svPending) : x.kind = "newStatus" /\ x.stream = "list"}}

\* flush
SvFlush ==
    /\ svPending # <<>> /\ svPending' = <<>>
    /\ svView' = Batch
    /\ svCut' = svCut \union ((svView.keys \union svView.later \union Brought)
                              \ (svView'.keys \union svView'.later))
    /\ UNCHANGED <<svPost, svWire, svSkipped, svNear, svResync, svUsed, svMissed, svUnheard,
                   svTouched>>

ReadPage ==
    /\ svResync.state = "asked"
    /\ svResync' = [state |-> "read", page |-> [p \in Newest(Standing) |-> svPost[p]]]
    /\ svCut' = svCut \union (Standing \ Newest(Standing))
    /\ UNCHANGED <<svPost, svWire, svSkipped, svPending, svView, svNear, svUsed, svMissed,
                   svUnheard, svTouched>>

\* Mutant of KeptBeside: a page replaces the column.
KeptBesideNothing(page) == {}

\* What the column shows and the page does not have stays if it is not older than the page:
\* it came while the page was on its way (mergeLoadPage).
KeptBeside(page) == {p \in svView.keys \ page : page = {} \/ \E r \in page : r <= p}

\* Away from the top nothing that was loaded is given up (preserveLoadedHistory).
Merged(page) == IF ~svNear /\ svView.keys # {} THEN page \union svView.keys
                ELSE Newest(page \union KeptBeside(page))

ShowPage ==
    /\ svResync.state = "read" /\ svResync' = NoResync
    /\ LET page == DOMAIN svResync.page
           ver == [p \in SvIds |-> IF p \in page THEN svResync.page[p] ELSE svView.ver[p]]
       IN  /\ svView' = Pruned([ver |-> ver, keys |-> Merged(page), later |-> svView.later])
           /\ svCut' = svCut \union ((page \union KeptBeside(page)) \ Merged(page))
    /\ UNCHANGED <<svPost, svWire, svSkipped, svPending, svNear, svUsed, svMissed, svUnheard,
                   svTouched>>

\* A page that fails is not asked for again.
PageFails ==
    /\ svResync.state # "none" /\ svResync' = NoResync
    /\ svMissed' = svMissed \union (Published \ svView.keys)
    /\ UNCHANGED <<svPost, svWire, svSkipped, svPending, svView, svNear, svUsed, svUnheard,
                   svTouched, svCut>>

\* setTimelineNearTop: back at the top the deferred posts appear.
SvScroll ==
    /\ svNear' = ~svNear
    /\ IF svNear THEN UNCHANGED <<svView, svCut>>
       ELSE LET held == svView.keys \union svView.later
            IN  /\ svView' = Pruned([svView EXCEPT !.keys = Newest(held), !.later = {}])
                /\ svCut' = svCut \union (held \ Newest(held))
    /\ UNCHANGED <<svPost, svWire, svSkipped, svPending, svResync, svUsed, svMissed, svUnheard,
                   svTouched>>

StreamViewInit ==
    /\ svPost = [p \in SvIds |-> 0] /\ svWire = [s \in SvStreams |-> <<>>] /\ svSkipped = FALSE
    /\ svPending = <<>> /\ svView = [ver |-> [p \in SvIds |-> 0], keys |-> {}, later |-> {}]
    /\ svNear = TRUE /\ svResync = NoResync /\ svUsed = [changes |-> 0, breaks |-> 0]
    /\ svMissed = {} /\ svUnheard = {} /\ svTouched = {} /\ svCut = {}

StreamViewNext ==
    \/ SvPublish \/ SvRestart \/ SvFlush \/ ReadPage \/ ShowPage \/ PageFails \/ SvScroll
    \/ \E p \in SvIds : SvChange(p)
    \/ \E s \in SvStreams : SvReconnect(s) \/ ReceiveEvent(s)

SvRests == svPending = <<>> /\ svResync.state = "none" /\ \A s \in SvStreams : svWire[s] = <<>>
SvHeld == svView.keys \union svView.later

\* A post of the list is in the column when everything has come: those told while a page was
\* read stay, and the page brings those lost before the gap was noticed.
StreamedPostsStay == SvRests => Standing \subseteq SvHeld \union svMissed \union svCut

\* What is shown stands, in its last version, whatever the streams told in whichever order
\* and however the events were gathered, unless the telling was lost or passed by the page.
ShownPostsAreCurrent ==
    SvRests => \A p \in SvHeld \ (svUnheard \union svTouched) :
                   p \in Standing /\ svView.ver[p] = svPost[p]

=============================================================================
