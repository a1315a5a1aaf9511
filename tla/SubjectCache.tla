---------------------------- MODULE SubjectCache ----------------------------
(***************************************************************************)
(* The posts that Bluesky notifications are about: BoundedTtlCache in      *)
(* bluesky/client.rs, its two instances (posts found and posts missed) and *)
(* their use by get_notifications, get_status and delete_status in         *)
(* bluesky/endpoints.rs.  An entry also remembers when it was put.         *)
(***************************************************************************)
EXTENDS Integers, FiniteSets

CONSTANTS Uris,          \* posts
          Listings,      \* calls of get_notifications that may overlap
          CacheCapacity, \* NOTIFICATION_SUBJECT_CACHE_CAPACITY
          FoundTtl,      \* NOTIFICATION_SUBJECT_CACHE_TTL
          MissTtl,       \* NOTIFICATION_SUBJECT_NEGATIVE_TTL
          FetchDelay,    \* bound: how long a request may take
          MaxCacheNow    \* bound: the clock

ASSUME SubjectAssumption ==
    /\ CacheCapacity \in Nat \ {0}
    /\ FoundTtl \in Nat /\ MissTtl \in Nat /\ FetchDelay \in Nat /\ MaxCacheNow \in Nat

VARIABLES
    subFound,    \* uri -> entry of the posts found, if any
    subMissed,   \* uri -> entry of the posts missed, if any
    subDeleted,  \* uri -> when the post was deleted, -1 if it was not
    subCall,     \* call -> what it is doing
    subNow

subVars == <<subFound, subMissed, subDeleted, subCall, subNow>>

NoListing == [step |-> "none", want |-> {}, have |-> {}, got |-> {}, hides |-> {},
              asked |-> 0]

-----------------------------------------------------------------------------
(***************************************************************************)
(* BoundedTtlCache: a function of the uris that have an entry.             *)
(***************************************************************************)

Kept(cache, ttl) == {u \in DOMAIN cache : subNow - cache[u].fetched <= ttl}

\* get_many: expired entries go; the ones read are marked as used.
GetMany(cache, keys, ttl) ==
    [u \in Kept(cache, ttl) |->
        IF u \in keys THEN [cache[u] EXCEPT !.used = subNow] ELSE cache[u]]

\* Mutant of MissLifetime: as long as a post found.
MissLifetimeLong == FoundTtl

\* The cache of misses has the short lifetime.
MissLifetime == MissTtl

\* Mutant of Evicted: room is made for a uri that has an entry only.
EvictedWrong(cache, u) == {DOMAIN cache}

\* The uris that may stay when u comes: at capacity one least recently used goes.
Evicted(cache, u) ==
    IF u \in DOMAIN cache \/ Cardinality(DOMAIN cache) < CacheCapacity THEN {DOMAIN cache}
    ELSE {DOMAIN cache \ {v} : v \in {w \in DOMAIN cache :
              \A x \in DOMAIN cache : cache[w].used <= cache[x].used}}

\* insert
InsertedInto(cache, u) ==
    LET new == [fetched |-> subNow, used |-> subNow, put |-> subNow] IN
    {[v \in stay \union {u} |-> IF v = u THEN new ELSE cache[v]] : stay \in Evicted(cache, u)}

WithoutUri(cache, u) == [v \in DOMAIN cache \ {u} |-> cache[v]]

-----------------------------------------------------------------------------

\* Mutant of FoundLookup: reading an entry renews it.
FoundLookupRenews(want) ==
    [u \in Kept(subFound, FoundTtl) |->
        IF u \in want THEN [subFound[u] EXCEPT !.fetched = subNow, !.used = subNow]
        ELSE subFound[u]]

\* cached_notification_subjects
FoundLookup(want) == GetMany(subFound, want, FoundTtl)

\* get_notifications: the subjects of the page are looked up in both caches ...
ListNotifications(c, want) ==
    LET found == FoundLookup(want)
        missed == GetMany(subMissed, want, MissLifetime)
    IN
    /\ subCall[c].step = "none"
    /\ subFound' = found /\ subMissed' = missed
    /\ subCall' = [subCall EXCEPT ![c] =
          [step |-> "fetch", want |-> (want \ DOMAIN found) \ DOMAIN missed,
           have |-> want \intersect DOMAIN found, got |-> {},
           hides |-> {missed[u].put : u \in (want \ DOMAIN found) \intersect DOMAIN missed},
           asked |-> subNow]]
    /\ UNCHANGED <<subDeleted, subNow>>

\* ... get_posts answers with those that exist, or not at all ...
GetPosts(c) ==
    LET call == subCall[c] IN
    /\ call.step = "fetch"
    /\ \E got \in {{u \in call.want : subDeleted[u] = -1}, {}} :
          subCall' = [subCall EXCEPT ![c].step = "store", ![c].got = got]
    /\ UNCHANGED <<subFound, subMissed, subDeleted, subNow>>

\* ... and each one is cached, as found or as missed, between the awaits of the loop.
StoreSubject(c, u) ==
    LET call == subCall[c] IN
    /\ call.step = "store" /\ u \in call.want
    /\ IF u \in call.got
       THEN /\ subMissed' = WithoutUri(subMissed, u)
            /\ subFound' \in InsertedInto(subFound, u)
            /\ subCall' = [subCall EXCEPT ![c].want = @ \ {u}, ![c].have = @ \union {u}]
       ELSE /\ subMissed' \in InsertedInto(subMissed, u)
            /\ subCall' = [subCall EXCEPT ![c].want = @ \ {u}]
            /\ UNCHANGED subFound
    /\ UNCHANGED <<subDeleted, subNow>>

\* convert_notification: the page is shown with the subjects it has.
ShowNotifications(c) ==
    /\ subCall[c].step = "store" /\ subCall[c].want = {}
    /\ subCall' = [subCall EXCEPT ![c] = NoListing]
    /\ UNCHANGED <<subFound, subMissed, subDeleted, subNow>>

\* delete_status: the record is deleted; its answer removes the entries.
DeleteSubject(u) ==
    /\ subDeleted[u] = -1
    /\ subDeleted' = [subDeleted EXCEPT ![u] = subNow]
    /\ subFound' = WithoutUri(subFound, u)
    /\ subMissed' = WithoutUri(subMissed, u)
    /\ UNCHANGED <<subCall, subNow>>

\* A request under way has a timeout.
SubjectTick ==
    /\ subNow < MaxCacheNow
    /\ \A c \in Listings : subCall[c].step # "none" => subNow - subCall[c].asked < FetchDelay
    /\ subNow' = subNow + 1
    /\ UNCHANGED <<subFound, subMissed, subDeleted, subCall>>

SubjectInit ==
    /\ subFound = [u \in {} |-> 0] /\ subMissed = [u \in {} |-> 0]
    /\ subDeleted = [u \in Uris |-> -1]
    /\ subCall = [c \in Listings |-> NoListing]
    /\ subNow = 0

SubjectNext ==
    \/ \E c \in Listings : \/ \E want \in SUBSET Uris : ListNotifications(c, want)
                           \/ GetPosts(c)
                           \/ \E u \in Uris : StoreSubject(c, u)
                           \/ ShowNotifications(c)
    \/ \E u \in Uris : DeleteSubject(u)
    \/ SubjectTick

SubjectSpec == SubjectInit /\ [][SubjectNext]_subVars

-----------------------------------------------------------------------------

\* Both caches stay within their capacity and hold nothing from the future.
SubjectTypeOK ==
    \A cache \in {subFound, subMissed} :
        /\ Cardinality(DOMAIN cache) <= CacheCapacity
        /\ \A u \in DOMAIN cache : cache[u].fetched <= cache[u].used /\ cache[u].used <= subNow

\* A deleted post may be cached again by a listing that was under way, but no listing that
\* begins later than that plus the lifetime of an entry still shows it.
DeletedSubjectIsForgotten ==
    \A c \in Listings : \A u \in subCall[c].have :
        subDeleted[u] # -1 => subCall[c].asked - subDeleted[u] <= FoundTtl + FetchDelay

\* A failed request hides a post that exists only for the short lifetime: a listing that
\* begins later asks the provider again, however often it was listed meanwhile.
MissIsShort ==
    \A c \in Listings : \A put \in subCall[c].hides : subCall[c].asked - put <= MissTtl
=============================================================================
