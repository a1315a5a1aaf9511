--------------------------- MODULE TimelineViews ----------------------------
(***************************************************************************)
(* A conversation as the page shows it: status_thread                      *)
(* (application/timeline.rs) fetches what the server knows, the recursive  *)
(* query of db/queries/read_models.rs collects the cached posts of the     *)
(* conversation, and order_thread_statuses (application/desktop.rs) lays   *)
(* them out.  Posts are numbered by their time.                            *)
(***************************************************************************)
EXTENDS Integers, FiniteSets, Sequences, SequencesExt

CONSTANTS TvPosts,               \* posts of the server: 1..n, the older first
          TvLimit                \* the limit of the request

ASSUME TvAssumption == TvPosts \in Nat \ {0} /\ TvLimit \in Nat \ {0}

TvIds == 1..TvPosts
NoParent == 0

VARIABLES
    tvParent,      \* post -> the post it replies to; clocks of servers differ, so any may be older
    tvCached,      \* the posts in the cache
    tvAsked,       \* the post whose conversation is asked for
    tvAnswer       \* [state, posts]: the conversation, or an error

tvVars == <<tvParent, tvCached, tvAsked, tvAnswer>>

TvMembers(s) == {s[i] : i \in DOMAIN s}

\* The chain of parents of a post inside known, up to a missing one or to a cycle.
RECURSIVE AncestorChain(_, _)
AncestorChain(path, known) ==
    LET up == tvParent[Last(path)] IN
    IF up \in known /\ up \notin TvMembers(path) /\ Len(path) <= TvLimit
    THEN AncestorChain(Append(path, up), known)
    ELSE path

\* The ancestors of the query: the post first, the root of the conversation last.
Ancestors(post, known) == IF post \in known THEN AncestorChain(<<post>>, known) ELSE <<>>

\* Everything below a post, by paths that visit no post twice.
RECURSIVE BelowPath(_, _)
BelowPath(path, known) ==
    {Last(path)} \union
    UNION {BelowPath(Append(path, c), known) :
              c \in {k \in known : tvParent[k] = Last(path) /\ k \notin TvMembers(path)
                                   /\ Len(path) <= TvLimit}}

Descendants(post, known) == BelowPath(<<post>>, known)

\* Mutant of ThreadPosts: the conversation is that below the post.
ThreadPostsBelow(post, known) ==
    LET up == Ancestors(post, known)
    IN IF up = <<>> THEN {} ELSE TvMembers(up) \union Descendants(post, known)

\* THREAD_STATUS_PAGE_SQL, when the limit does not cut it.
ThreadPosts(post, known) ==
    LET up == Ancestors(post, known)
    IN IF up = <<>> THEN {} ELSE TvMembers(up) \union Descendants(Last(up), known)

\* query_thread_status_page climbs once more, and stops where a cycle closes.
RECURSIVE Climb(_, _, _)
Climb(post, seen, page) ==
    IF post \in seen \/ tvParent[post] \notin page THEN post
    ELSE Climb(tvParent[post], seen \union {post}, page)

\* Mutant of ThreadRoot: the conversation begins at the post that was asked for.
ThreadRootAsked(post, page) == post

\* The root the page is laid out from.
ThreadRoot(post, page) == Climb(post, {}, page)

\* The replies to a post, the older first.
RepliesTo(post, page) == SetToSortSeq({k \in page : tvParent[k] = post}, <)

\* append_thread_status: a post and then all below it; a post is shown once.
RECURSIVE Appended(_, _, _)
Appended(todo, done, page) ==
    IF todo = <<>> THEN done
    ELSE IF Head(todo) \in TvMembers(done) THEN Appended(Tail(todo), done, page)
    ELSE Appended(RepliesTo(Head(todo), page) \o Tail(todo), Append(done, Head(todo)), page)

\* order_thread_statuses: the conversation from its root, and then what it does not reach.
Ordered(root, page) ==
    Appended(<<root>> \o SetToSortSeq(page, <), <<>>, page)

\* What the server tells of a post: its ancestors and what is below it, without itself.
Context(post) == (TvMembers(Ancestors(post, TvIds)) \union Descendants(post, TvIds)) \ {post}

\* status_thread: the context and the post may each fail; what came is saved before the cache
\* is read.
ShowThread(context, status) ==
    LET known == tvCached \union (IF context THEN Context(tvAsked) ELSE {})
                          \union (IF status THEN {tvAsked} ELSE {})
        page == ThreadPosts(tvAsked, known) IN
    /\ tvAnswer.state = "none"
    /\ tvCached' = known
    /\ tvAnswer' = IF page = {} THEN [state |-> "error", posts |-> <<>>]
                   ELSE [state |-> "ok", posts |-> Ordered(ThreadRoot(tvAsked, page), page)]
    /\ UNCHANGED <<tvParent, tvAsked>>

ThreadViewInit ==
    /\ tvParent \in [TvIds -> TvIds \union {NoParent}]
    /\ \A p \in TvIds : tvParent[p] # p
    /\ tvCached \in SUBSET TvIds /\ tvAsked \in TvIds
    /\ tvAnswer = [state |-> "none", posts |-> <<>>]

ThreadViewNext == \E context, status \in BOOLEAN : ShowThread(context, status)

Shown == TvMembers(tvAnswer.posts)
TvAt(p) == CHOOSE i \in DOMAIN tvAnswer.posts : tvAnswer.posts[i] = p

\* The reply links between known posts, in either direction, that lead from one to the other.
RECURSIVE Linked(_)
Linked(set) ==
    LET more == set \union {p \in tvCached : tvParent[p] \in set}
                    \union {p \in tvCached : \E q \in set : tvParent[q] = p}
    IN IF more = set THEN set ELSE Linked(more)

\* The conversation is every known post that replies lead to from the one asked for, each once;
\* only a post nobody knows is an error.
ThreadIsWhole ==
    tvAnswer.state # "none" =>
    IF tvAsked \in tvCached
    THEN Shown = Linked({tvAsked}) /\ Len(tvAnswer.posts) = Cardinality(Shown)
    ELSE tvAnswer.state = "error"

\* A reply comes after the post it replies to, whatever the clocks say, and between the two
\* only what was said below that post; two posts that reply to each other excepted.
RepliesFollow ==
    tvAnswer.state = "ok" =>
    \A p \in Shown : tvParent[p] \in Shown /\ tvParent[p] \notin Descendants(p, tvCached) =>
        /\ TvAt(tvParent[p]) < TvAt(p)
        /\ \A i \in (TvAt(tvParent[p]) + 1)..TvAt(p) :
              tvAnswer.posts[i] \in Descendants(tvParent[p], tvCached)

-----------------------------------------------------------------------------
(***************************************************************************)
(* The timelines that unite every account: refresh_aggregate_timeline and  *)
(* refresh_aggregate_notifications ask one account after the other         *)
(* (application/desktop.rs), and query_aggregate_status_refs pages through *)
(* the entries of all of them, each post once                              *)
(* (db/queries/read_models.rs).                                            *)
(***************************************************************************)
CONSTANTS UtAccts,               \* accounts, in the order they are asked: a sequence
          UtPosts,               \* posts, by their canonical address: 1..n
          UtTimes,               \* positions in a timeline: 1..n
          UtPage,                \* posts of a page
          UtFactor,              \* candidates read for each post of the pages so far: 8
          UtFloor                \* candidates read at least: 128

UtSet == {UtAccts[i] : i \in DOMAIN UtAccts}
ASSUME UtAssumption == /\ {UtPosts, UtTimes, UtPage, UtFloor} \subseteq Nat /\ UtPage > 0
                       /\ UtFactor \in Nat /\ UtFactor >= Cardinality(UtSet)

VARIABLES
    utServer,      \* the entries the servers would tell: [acct, post, at]
    utCache,       \* the entries of timeline_entries
    utKind,        \* "timeline" or "notifications"
    utNext,        \* index of the account asked next
    utTold,        \* accounts whose server answered
    utAnswer       \* [state, posts]: what the command answers

utVars == <<utServer, utCache, utKind, utNext, utTold, utAnswer>>

Preferred == UtAccts[1]

UtMax(S) == CHOOSE x \in S : \A y \in S : y <= x
UtRank(acct) == CHOOSE i \in DOMAIN UtAccts : UtAccts[i] = acct

\* The order of the candidates: the newest first, ties by post and account.
Newer(r, s) == \/ r.at > s.at
               \/ r.at = s.at /\ r.post > s.post
               \/ r.at = s.at /\ r.post = s.post /\ UtRank(r.acct) > UtRank(s.acct)

UtNewest(rows, n) == LET q == SetToSortSeq(rows, Newer)
                     IN {q[i] : i \in 1..(IF Len(q) < n THEN Len(q) ELSE n)}

\* Mutant of Candidates: enough for one page, wherever the page is.
CandidatesOfPage(offset) == IF UtPage * UtFactor < UtFloor THEN UtFloor ELSE UtPage * UtFactor

\* candidate_limit
Candidates(offset) == IF (UtPage + offset) * UtFactor < UtFloor
                      THEN UtFloor ELSE (UtPage + offset) * UtFactor

\* Mutant of PreferredRows: only the copies among the recent ones count.
PreferredRowsOfRecent(rows, posts) == {}

\* preferred_candidates: the copies of the acting account, however old.
PreferredRows(rows, posts) == {r \in rows : r.post \in posts /\ r.acct = Preferred}

\* The rows ranked for a page.
Ranked(rows, offset) ==
    LET recent == UtNewest(rows, Candidates(offset))
    IN recent \union PreferredRows(rows, {r.post : r \in recent})

\* The copy of a post that is shown.
Better(r, s) == \/ r.acct = Preferred /\ s.acct # Preferred
                \/ (r.acct = Preferred <=> s.acct = Preferred) /\ (Newer(r, s) \/ r = s)
Copy(rows, post) == CHOOSE r \in rows : r.post = post
                                        /\ \A s \in rows : s.post = post => Better(r, s)

\* Where the newest copy of every post stands.
Latest(rows) == [p \in {r.post : r \in rows} |-> UtMax({r.at : r \in {s \in rows : s.post = p}})]
LatestFirst(latest) ==
    SetToSortSeq(DOMAIN latest, LAMBDA p, q : \/ latest[p] > latest[q]
                                              \/ latest[p] = latest[q] /\ p > q)

UtCut(order, offset) ==
    SubSeq(order, offset + 1, IF offset + UtPage < Len(order) THEN offset + UtPage ELSE Len(order))
Copies(ranked, page) == [i \in DOMAIN page |-> Copy(ranked, page[i])]
UtPageOf(ranked, offset) == Copies(ranked, UtCut(LatestFirst(Latest(ranked)), offset))

\* query_aggregate_status_refs: each post once, where its newest copy stands.
UtQuery(rows, offset) == UtPageOf(Ranked(rows, offset), offset)

OfAccount(rows, acct) == {r \in rows : r.acct = acct}

\* The account answers: its entries are saved.
UtSourceAnswers ==
    /\ utNext <= Len(UtAccts) /\ utAnswer.state = "none"
    /\ utTold' = utTold \union {UtAccts[utNext]}
    /\ utCache' = utCache \union OfAccount(utServer, UtAccts[utNext])
    /\ utNext' = utNext + 1
    /\ UNCHANGED <<utServer, utKind, utAnswer>>

\* Mutant of UtGoesOn: the first account that fails ends the refresh.
UtGoesOnNot == utAnswer' = [state |-> "error", posts |-> <<>>] /\ UNCHANGED utNext

\* An account that fails is skipped.
UtGoesOn == utNext' = utNext + 1 /\ UNCHANGED utAnswer

UtSourceFails ==
    /\ utNext <= Len(UtAccts) /\ utAnswer.state = "none"
    /\ UtGoesOn
    /\ UNCHANGED <<utServer, utKind, utTold, utCache>>

UtCancelled ==
    /\ utNext <= Len(UtAccts) /\ utAnswer.state = "none"
    /\ utAnswer' = [state |-> "cancelled", posts |-> <<>>]
    /\ UNCHANGED <<utServer, utKind, utNext, utTold, utCache>>

\* The notifications that were told, each of an account, the newest first.
Notifications == LET q == SetToSortSeq({r \in utServer : r.acct \in utTold}, Newer)
                 IN SubSeq(q, 1, IF Len(q) < UtPage THEN Len(q) ELSE UtPage)

CachedNotifications == LET q == SetToSortSeq(utCache, Newer)
                       IN SubSeq(q, 1, IF Len(q) < UtPage THEN Len(q) ELSE UtPage)

\* What the refresh answers when every account was asked: a timeline is read from the cache,
\* notifications are those just told, and the cached ones only if nobody told any.
UtAnswerOf ==
    IF utKind = "timeline" THEN UtQuery(utCache, 0)
    ELSE IF utTold # {} THEN Notifications ELSE CachedNotifications

UtEnds ==
    /\ utNext > Len(UtAccts) /\ utAnswer.state = "none"
    /\ utAnswer' = [state |-> IF utTold = {} /\ UtAnswerOf = <<>> THEN "error" ELSE "ok",
                    posts |-> UtAnswerOf]
    /\ UNCHANGED <<utServer, utKind, utNext, utTold, utCache>>

\* Entries of a post that an account has once.
UnifiedTimelineInit ==
    /\ \E f \in [UtSet \X (1..UtPosts) -> 0..UtTimes] :
         utServer = {[acct |-> k[1], post |-> k[2], at |-> f[k]] :
                       k \in {x \in DOMAIN f : f[x] # 0}}
    /\ utCache \in {{}, OfAccount(utServer, Preferred)} \union {utServer}
    /\ utKind \in {"timeline", "notifications"}
    /\ utNext = 1 /\ utTold = {} /\ utAnswer = [state |-> "none", posts |-> <<>>]

UnifiedTimelineNext == UtSourceAnswers \/ UtSourceFails \/ UtCancelled \/ UtEnds

\* The whole of the timeline, without limits: what the pages are pages of.
WholeTimeline == LatestFirst(Latest(utCache))

PostsOn(page) == [i \in DOMAIN page |-> page[i].post]
OwnCopies(page) == \A i \in DOMAIN page : \A r \in utCache :
    r.acct = Preferred /\ r.post = page[i].post => page[i].acct = Preferred
UtOffsets == {UtPage * k : k \in 0..UtPosts}

\* The pages of a united timeline have no hole and no post twice, though each post has a copy
\* for every account and only some candidates are read.
UnitedPagesTile ==
    utAnswer.state = "ok" =>
    \A o \in UtOffsets : PostsOn(UtQuery(utCache, o)) = UtCut(WholeTimeline, o)

\* A post the acting account has is shown as that account sees it, however old its copy is.
OwnCopyIsShown ==
    utAnswer.state = "ok" =>
    \A o \in UtOffsets : OwnCopies(UtQuery(utCache, o))

\* A server that does not answer hides neither the posts of the others nor the cached ones: a
\* refresh fails only when nobody answered and nothing is known.
OneFailureHidesNothing ==
    /\ utAnswer.state = "error" => utTold = {} /\ utCache = {}
    /\ utAnswer.state = "ok" /\ utKind = "notifications" /\ utTold = UtSet
       => {utAnswer.posts[i] : i \in DOMAIN utAnswer.posts} = UtNewest(utServer, UtPage)

-----------------------------------------------------------------------------
(***************************************************************************)
(* What somebody wrote right after reacting to a post: air_context and     *)
(* find_air_context_post (application/timeline.rs) page back through the   *)
(* posts of the account, the newest first, while it goes on posting.       *)
(* A post is known by its id, and ids grow with time; the reaction was     *)
(* made just after the post AxMoment.                                      *)
(***************************************************************************)
CONSTANTS AxPosts,               \* ids of the account's posts: 1..n, a bound
          AxPage,                \* PAGE_LIMIT
          AxPages,               \* MAX_PAGES
          AxNone                 \* no post

ASSUME AxAssumption == {AxPosts, AxPage, AxPages} \subseteq Nat \ {0}

VARIABLES
    axPosts,       \* posts of the account on its server
    axMoment,      \* the last of them before the reaction
    axTop,         \* the newest of them when the search was asked for
    axTarget,      \* the post reacted to, which may be of the same account
    axCached,      \* posts in the cache
    axState,       \* "start", "searching", "found", "error"
    axCursor,      \* max_id
    axLeft,        \* pages that may still be asked for
    axFound,       \* the candidate
    axViews        \* what is shown

axVars == <<axPosts, axMoment, axTop, axTarget, axCached, axState, axCursor, axLeft, axFound,
            axViews>>
axRest == <<axMoment, axTop, axTarget>>

AxMin(S) == CHOOSE x \in S : \A y \in S : x <= y

\* The newest posts before a cursor: a page of the server.
PageBefore(cursor) ==
    LET older == {p \in axPosts : p < cursor}
    IN {p \in older : Cardinality({q \in older : q >= p}) <= AxPage}

\* The post reacted to is fetched and saved; the cache stands in for it.
FetchTarget(ok) ==
    LET known == axCached \union (IF ok THEN {axTarget} ELSE {}) IN
    /\ axState = "start"
    /\ axCached' = known
    /\ axState' = IF axTarget \in known THEN "searching" ELSE "error"
    /\ axViews' = {axTarget} \intersect known
    /\ UNCHANGED <<axPosts, axRest, axCursor, axLeft, axFound>>

\* The posts of a page that count: not the post reacted to.
CountedPosts(page) == page \ {axTarget}

\* Mutant of Closer: the candidate of an earlier page is kept.
CloserNot(page) == IF axFound # AxNone THEN axFound
                   ELSE IF page = {} THEN AxNone ELSE AxMin(page)

\* The earliest of the posts after the reaction seen so far.
Closer(page) ==
    LET seen == page \union ({axFound} \ {AxNone}) IN IF seen = {} THEN AxNone ELSE AxMin(seen)

\* One page of find_air_context_post; it ends where the account was before the reaction.
SearchPage ==
    LET page == PageBefore(axCursor)
        after == {p \in CountedPosts(page) : p > axMoment}
        ends == page = {} \/ after # CountedPosts(page) \/ axLeft = 1 IN
    /\ axState = "searching"
    /\ axFound' = Closer(after)
    /\ axLeft' = axLeft - 1
    /\ axCursor' = IF page = {} THEN axCursor ELSE AxMin(page)
    /\ axState' = IF ends THEN "found" ELSE "searching"
    /\ UNCHANGED <<axPosts, axRest, axCached, axViews>>

SearchFails ==
    /\ axState = "searching" /\ axState' = "error"
    /\ UNCHANGED <<axPosts, axRest, axCached, axCursor, axLeft, axFound, axViews>>

\* The post is saved and shown after the one reacted to.
ShowFound ==
    /\ axState = "found" /\ axState' = "done"
    /\ axCached' = axCached \union ({axFound} \ {AxNone})
    /\ axViews' = axViews \union ({axFound} \ {AxNone})
    /\ UNCHANGED <<axPosts, axRest, axCursor, axLeft, axFound>>

\* The account posts on, and deletes posts, between two pages.
AccountPosts(p) == /\ p > axTop /\ (\A q \in axPosts : q < p) /\ axState = "searching"
                   /\ axPosts' = axPosts \union {p}
                   /\ UNCHANGED <<axRest, axCached, axState, axCursor, axLeft, axFound, axViews>>

AccountDeletes(p) == /\ p \in axPosts /\ p < axCursor /\ axState = "searching"
                     /\ axPosts' = axPosts \ {p}
                     /\ UNCHANGED <<axRest, axCached, axState, axCursor, axLeft, axFound, axViews>>

AirContextInit ==
    /\ axPosts \in SUBSET (1..AxPosts)
    /\ axTop = CHOOSE t \in 0..AxPosts : t \in axPosts \union {0} /\ \A q \in axPosts : q <= t
    /\ axMoment \in axPosts \union {0}
    /\ axTarget \in axPosts \union {AxPosts + 1}
    /\ axCached \in {{}, {axTarget}}
    /\ axState = "start" /\ axCursor = AxPosts + 2 /\ axLeft = AxPages
    /\ axFound = AxNone /\ axViews = {}

AirContextNext ==
    \/ \E ok \in BOOLEAN : FetchTarget(ok)
    \/ SearchPage \/ SearchFails \/ ShowFound
    \/ \E p \in 1..AxPosts : AccountPosts(p) \/ AccountDeletes(p)

\* What is shown as the context of a reaction is the first post after it, though the account
\* posts and deletes during the search; a search that ran out of pages is excepted. When
\* nothing followed the reaction yet, a post written during the search may be the one.
FirstPostAfterIsShown ==
    axState \in {"found", "done"} /\ axLeft > 0 =>
    LET after == {p \in axPosts : p > axMoment /\ p # axTarget /\ p <= axTop}
    IN IF after = {} THEN axFound = AxNone \/ axFound > axTop ELSE axFound = AxMin(after)
=============================================================================
