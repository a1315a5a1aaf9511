-------------------------- MODULE NotificationSync --------------------------
(***************************************************************************)
(* The notifications of one account at start-up: run_notification_phase    *)
(* and save_notification_batch of services/startup_sync.rs, which go on    *)
(* from the newest notification of an earlier start, beside                *)
(* save_notification_to_db (application/desktop/stream_notification.rs),   *)
(* which stores what the stream brings.  The process may stop at any time. *)
(* Notifications are numbered as they arrive.                              *)
(***************************************************************************)
EXTENDS Integers, Sequences, FiniteSets, FiniteSetsExt

CONSTANTS NsNotices,             \* bound: notifications that arrive
          NsPostOf,              \* notification -> the post it is about
          NsPage,                \* STARTUP_PAGE_LIMIT
          NsStarts               \* bound: starts of the process

ASSUME NsAssumption == {NsNotices, NsPage, NsStarts} \subseteq Nat \ {0}

VARIABLES
    nsThere,       \* how many have arrived
    nsOldestFirst, \* what follows a since_id is listed from the old end by this provider
    nsStored,      \* rows of notifications
    nsPosts,       \* posts in the cache
    nsHigh,        \* high_water_id of the phase, 0 when there is none
    nsPage,        \* the page as it was listed
    nsTodo,        \* what is left to do with it
    nsStream,      \* what the stream brought and is being stored: <<>> or <<notification>>
    nsStarts,      \* starts so far
    nsBeyond       \* ghost: notifications a page was too short for

nsVars == <<nsThere, nsOldestFirst, nsStored, nsPosts, nsHigh, nsPage, nsTodo, nsStream, nsStarts,
            nsBeyond>>

PostsOf(S) == {NsPostOf[n] : n \in S}
Listed == {nsPage[k] : k \in DOMAIN nsPage}

NoticeArrives ==
    /\ nsThere < NsNotices /\ nsThere' = nsThere + 1
    /\ UNCHANGED <<nsOldestFirst, nsStored, nsPosts, nsHigh, nsPage, nsTodo, nsStream, nsStarts,
                   nsBeyond>>

\* The notifications after since, as many as fit, from the new or from the old end.
ListedAfter(since) ==
    LET count == IF nsThere - since < NsPage THEN nsThere - since ELSE NsPage IN
    IF nsOldestFirst /\ since > 0 THEN [k \in 1..count |-> since + k]
    ELSE [k \in 1..count |-> nsThere + 1 - k]

\* Mutants of Steps: the mark is moved before the page is stored; and the notifications
\* are stored before the posts they are about.
StepsMarkFirst == <<"mark", "posts", "notices">>
StepsNoticesFirst == <<"notices", "posts", "mark">>

Steps == <<"posts", "notices", "mark">>

\* A new process; run_phase plans an incremental phase and asks for one page.
StartNoticeSync ==
    LET page == ListedAfter(nsHigh) IN
    /\ nsStarts < NsStarts /\ nsStarts' = nsStarts + 1
    /\ nsPage' = page /\ nsTodo' = Steps /\ nsStream' = <<>>
    /\ nsBeyond' = nsBeyond \union
         IF page = <<>> THEN {}
          ELSE {n \in nsHigh + 1..page[1] : \A k \in DOMAIN page : page[k] > n}
    /\ UNCHANGED <<nsThere, nsOldestFirst, nsStored, nsPosts, nsHigh>>

DoingStep(step) == nsTodo # <<>> /\ Head(nsTodo) = step /\ nsTodo' = Tail(nsTodo)

\* The first transaction: the posts with the flags of the account.
StorePosts ==
    /\ DoingStep("posts")
    /\ nsPosts' = nsPosts \union PostsOf(Listed)
    /\ UNCHANGED <<nsThere, nsOldestFirst, nsStored, nsHigh, nsPage, nsStream, nsStarts, nsBeyond>>

\* The second one: server, actors and notifications.
StoreNotices ==
    /\ DoingStep("notices")
    /\ nsStored' = nsStored \union Listed
    /\ UNCHANGED <<nsThere, nsOldestFirst, nsPosts, nsHigh, nsPage, nsStream, nsStarts, nsBeyond>>

\* commit_page_checkpoint keeps the old mark when nothing was listed.
MoveMark ==
    /\ DoingStep("mark")
    /\ nsHigh' = IF nsPage = <<>> THEN nsHigh ELSE nsPage[1]
    /\ UNCHANGED <<nsThere, nsOldestFirst, nsStored, nsPosts, nsPage, nsStream, nsStarts, nsBeyond>>

\* A request or a write fails: the phase is over until the next start.
NoticeSyncFails ==
    /\ nsTodo # <<>> /\ nsTodo' = <<>>
    /\ UNCHANGED <<nsThere, nsOldestFirst, nsStored, nsPosts, nsHigh, nsPage, nsStream, nsStarts,
                   nsBeyond>>

\* save_notification_to_db: the post, and then the notification, unless a write fails.
StreamStoresPost ==
    /\ nsStarts > 0 /\ nsStream = <<>> /\ nsThere > 0
    /\ nsStream' = <<nsThere>> /\ nsPosts' = nsPosts \union PostsOf({nsThere})
    /\ UNCHANGED <<nsThere, nsOldestFirst, nsStored, nsHigh, nsPage, nsTodo, nsStarts, nsBeyond>>

StreamStoresNotice ==
    /\ nsStream # <<>> /\ nsStream' = <<>>
    /\ \E ok \in BOOLEAN : nsStored' = IF ok THEN nsStored \union {nsStream[1]} ELSE nsStored
    /\ UNCHANGED <<nsThere, nsOldestFirst, nsPosts, nsHigh, nsPage, nsTodo, nsStarts, nsBeyond>>

NotificationSyncInit ==
    /\ nsThere = 0 /\ nsOldestFirst \in BOOLEAN /\ nsStored = {} /\ nsPosts = {} /\ nsHigh = 0
    /\ nsPage = <<>> /\ nsTodo = <<>> /\ nsStream = <<>> /\ nsStarts = 0 /\ nsBeyond = {}

NotificationSyncNext ==
    \/ NoticeArrives \/ StartNoticeSync \/ StorePosts \/ StoreNotices \/ MoveMark
    \/ NoticeSyncFails \/ StreamStoresPost \/ StreamStoresNotice

NotificationSyncSpec == NotificationSyncInit /\ [][NotificationSyncNext]_nsVars

\* What is older than the mark the next start begins from has been stored, whatever failed
\* and whenever the process stopped, or did not fit into a page: nothing is passed over.
NothingIsPassedOver == \A n \in 1..nsHigh : n \in nsStored \union nsBeyond

\* A notification is never stored without the post it is about.
NoticesHaveTheirPost == PostsOf(nsStored) \subseteq nsPosts
=============================================================================
