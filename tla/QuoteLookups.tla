--------------------------- MODULE QuoteLookups -----------------------------
(***************************************************************************)
(* The background resolution of quotes (services/timeline_service.rs): a   *)
(* registry of jobs under one mutex, shared by its owners, and the tasks   *)
(* that do the work behind two semaphores.                                 *)
(*                                                                         *)
(* The mutex is released between the entry of a job and the storing of its *)
(* task's abort handle, and a task's guard locks it again when the task is *)
(* dropped: cancelling, scheduling again and finishing may come between.   *)
(* All jobs here are of one server; a key is an account and a quote.       *)
(***************************************************************************)
EXTENDS Integers, FiniteSets, Sequences

CONSTANTS QuoteKeys,        \* canonical keys, one account each: SourceOf
          SourceOf,         \* key -> source account
          Consumers,        \* panes
          QuoteCapacity,    \* BACKGROUND_QUOTE_CAPACITY
          MaxQuoteTasks     \* bound: tasks spawned

ASSUME QuoteAssumption == /\ QuoteKeys # {}
                          /\ SourceOf \in [QuoteKeys -> {SourceOf[k] : k \in QuoteKeys}]
                          /\ {SourceOf[k] : k \in QuoteKeys} \intersect Consumers = {}
                          /\ QuoteCapacity \in Nat /\ MaxQuoteTasks \in Nat

VARIABLES
    jobs,       \* key -> generation, owners and whether the abort handle is stored
    accountJobs,  \* account_jobs: account -> keys
    sourceJobs,   \* source_jobs: account -> keys
    consumerJobs, \* consumer_jobs: consumer -> keys
    negative,   \* keys with a negative_until in the future
    lastGen,    \* next_generation
    tasks       \* generation -> the task

quoteVars == <<jobs, accountJobs, sourceJobs, consumerJobs, negative, lastGen, tasks>>

Accounts == {SourceOf[k] : k \in QuoteKeys}
Owners == Accounts \union Consumers
Gens == 1..MaxQuoteTasks
NoJob == [gen |-> 0, owners |-> {}, handle |-> FALSE]
NoTask == [key |-> CHOOSE k \in QuoteKeys : TRUE, pc |-> "none", linked |-> FALSE, aborted |-> FALSE]
Present == {k \in QuoteKeys : jobs[k].gen # 0}

\* The registry without some jobs: remove_background_quote_job.
Without(keys) ==
    /\ jobs' = [k \in QuoteKeys |-> IF k \in keys THEN NoJob ELSE jobs[k]]
    /\ sourceJobs' = [a \in Accounts |-> sourceJobs[a] \ keys]
    /\ accountJobs' = [a \in Accounts |-> accountJobs[a] \ keys]
    /\ consumerJobs' = [c \in Consumers |-> consumerJobs[c] \ keys]

\* The stored handles of some jobs are aborted.
Aborting(keys) ==
    tasks' = [g \in Gens |->
        IF tasks[g].key \in keys /\ jobs[tasks[g].key].gen = g /\ jobs[tasks[g].key].handle
        THEN [tasks[g] EXCEPT !.aborted = TRUE] ELSE tasks[g]]

-----------------------------------------------------------------------------

\* An owner is entered for a job that is there.
Register(k, o) ==
    /\ jobs' = [jobs EXCEPT ![k].owners = @ \union {o}]
    /\ accountJobs' = IF o \in Accounts THEN [accountJobs EXCEPT ![o] = @ \union {k}] ELSE accountJobs
    /\ consumerJobs' = IF o \in Consumers THEN [consumerJobs EXCEPT ![o] = @ \union {k}] ELSE consumerJobs

\* A page with the quote arrives: an account's own, or for a pane.  A job
\* under way gets one more owner; otherwise a task is spawned.
Schedule(k, o) ==
    /\ o \in Accounts => o = SourceOf[k]
    /\ k \notin negative
    /\ \/ /\ k \in Present
          /\ o \notin jobs[k].owners
          /\ Register(k, o)
          /\ UNCHANGED <<sourceJobs, negative, lastGen, tasks>>
       \/ /\ k \notin Present
          /\ Cardinality(Present) < QuoteCapacity
          /\ lastGen < MaxQuoteTasks
          /\ lastGen' = lastGen + 1
          /\ jobs' = [jobs EXCEPT ![k] = [gen |-> lastGen + 1, owners |-> {o}, handle |-> FALSE]]
          /\ sourceJobs' = [sourceJobs EXCEPT ![SourceOf[k]] = @ \union {k}]
          /\ accountJobs' = IF o \in Accounts THEN [accountJobs EXCEPT ![o] = @ \union {k}]
                          ELSE accountJobs
          /\ consumerJobs' = IF o \in Consumers THEN [consumerJobs EXCEPT ![o] = @ \union {k}]
                           ELSE consumerJobs
          /\ tasks' = [tasks EXCEPT ![lastGen + 1] = [NoTask EXCEPT !.key = k, !.pc = "wait"]]
          /\ UNCHANGED <<negative>>

\* Mutant of Link: the handle is stored for whatever job has the key.
LinkAnyGeneration(g) ==
    LET k == tasks[g].key
        active == k \in Present
    IN
    /\ tasks[g].pc # "none" /\ ~tasks[g].linked
    /\ jobs' = [jobs EXCEPT ![k].handle = active]
    /\ tasks' = [tasks EXCEPT ![g].linked = TRUE, ![g].aborted = ~active]
    /\ UNCHANGED <<accountJobs, sourceJobs, consumerJobs, negative, lastGen>>

\* The scheduling thread stores the abort handle, unless its job is gone or
\* another one: then it aborts the task itself.
Link(g) ==
    LET k == tasks[g].key
        active == jobs[k].gen = g /\ jobs[k].owners # {}
    IN
    /\ tasks[g].pc # "none" /\ ~tasks[g].linked
    /\ jobs' = IF active THEN [jobs EXCEPT ![k].handle = TRUE] ELSE jobs
    /\ tasks' = [tasks EXCEPT ![g].linked = TRUE, ![g].aborted = ~active]
    /\ UNCHANGED <<accountJobs, sourceJobs, consumerJobs, negative, lastGen>>

\* Mutant of CancelConsumer: the job ends although others own it.
CancelConsumerAll(c) ==
    /\ consumerJobs[c] # {}
    /\ Without(consumerJobs[c])
    /\ Aborting(consumerJobs[c])
    /\ UNCHANGED <<negative, lastGen>>

\* Mutant of CancelConsumer: the account keeps the removed keys.
CancelConsumerKeepsSource(c) ==
    LET over == {k \in consumerJobs[c] : jobs[k].owners = {c}} IN
    /\ consumerJobs[c] # {}
    /\ jobs' = [k \in QuoteKeys |->
                   IF k \in over THEN NoJob ELSE [jobs[k] EXCEPT !.owners = @ \ {c}]]
    /\ consumerJobs' = [consumerJobs EXCEPT ![c] = {}]
    /\ Aborting(over)
    /\ UNCHANGED <<sourceJobs, accountJobs, negative, lastGen>>

\* A pane is closed: jobs nobody else owns are removed and aborted.
CancelConsumer(c) ==
    LET keys == consumerJobs[c]
        over == {k \in keys : jobs[k].owners = {c}}
    IN
    /\ keys # {}
    /\ jobs' = [k \in QuoteKeys |->
                   IF k \in over THEN NoJob
                   ELSE IF k \in keys THEN [jobs[k] EXCEPT !.owners = @ \ {c}] ELSE jobs[k]]
    /\ sourceJobs' = [a \in Accounts |-> sourceJobs[a] \ over]
    /\ consumerJobs' = [consumerJobs EXCEPT ![c] = {}]
    /\ Aborting(over)
    /\ UNCHANGED <<accountJobs, negative, lastGen>>

\* A logout: every job of the account is removed and aborted, whoever owns it.
CancelSource(a) ==
    /\ sourceJobs[a] # {}
    /\ Without(sourceJobs[a])
    /\ Aborting(sourceJobs[a])
    /\ UNCHANGED <<negative, lastGen>>

\* The application ends its operations.
CancelAll ==
    /\ Present # {}
    /\ Without(Present)
    /\ Aborting(Present)
    /\ UNCHANGED <<negative, lastGen>>

-----------------------------------------------------------------------------
(***************************************************************************)
(* The tasks.                                                              *)
(***************************************************************************)

Holding == {g \in Gens : tasks[g].pc \in {"lookup", "save", "negative", "drop"}}

\* The permits: one task of a server at a time.
Acquire(g) ==
    /\ tasks[g].pc = "wait" /\ ~tasks[g].aborted
    /\ Holding = {}
    /\ tasks' = [tasks EXCEPT ![g].pc = "lookup"]
    /\ UNCHANGED <<jobs, accountJobs, sourceJobs, consumerJobs, negative, lastGen>>

\* The attempts end: the quote is found, or they are used up and the update
\* "unavailable" is sent.  (A poll that has begun ends although the task is aborted.)
Lookup(g) ==
    /\ tasks[g].pc = "lookup"
    /\ \E next \in {"save", "negative"} : tasks' = [tasks EXCEPT ![g].pc = next]
    /\ UNCHANGED <<jobs, accountJobs, sourceJobs, consumerJobs, negative, lastGen>>

\* The status is stored and the update sent, or the write fails.
Save(g) ==
    /\ tasks[g].pc = "save"
    /\ tasks' = [tasks EXCEPT ![g].pc = "drop"]
    /\ UNCHANGED <<jobs, accountJobs, sourceJobs, consumerJobs, negative, lastGen>>

\* The key is not looked up again for a while.
RememberNegative(g) ==
    /\ tasks[g].pc = "negative"
    /\ negative' = negative \union {tasks[g].key}
    /\ tasks' = [tasks EXCEPT ![g].pc = "drop"]
    /\ UNCHANGED <<jobs, accountJobs, sourceJobs, consumerJobs, lastGen>>

\* An aborted task stops at an await.
TaskAborted(g) ==
    /\ tasks[g].pc \in {"wait", "lookup", "save"} /\ tasks[g].aborted
    /\ tasks' = [tasks EXCEPT ![g].pc = "drop"]
    /\ UNCHANGED <<jobs, accountJobs, sourceJobs, consumerJobs, negative, lastGen>>

\* The task is dropped: its guard removes the job if it still is this one.
DropGuard(g) ==
    LET k == tasks[g].key IN
    /\ tasks[g].pc = "drop"
    /\ tasks' = [tasks EXCEPT ![g].pc = "done"]
    /\ Without(IF jobs[k].gen = g THEN {k} ELSE {})
    /\ UNCHANGED <<negative, lastGen>>

\* BACKGROUND_QUOTE_NEGATIVE_TTL passes.
NegativeExpires(k) ==
    /\ k \in negative
    /\ negative' = negative \ {k}
    /\ UNCHANGED <<jobs, accountJobs, sourceJobs, consumerJobs, lastGen, tasks>>

-----------------------------------------------------------------------------

QuoteInit ==
    /\ jobs = [k \in QuoteKeys |-> NoJob]
    /\ accountJobs = [a \in Accounts |-> {}]
    /\ sourceJobs = [a \in Accounts |-> {}]
    /\ consumerJobs = [c \in Consumers |-> {}]
    /\ negative = {}
    /\ lastGen = 0
    /\ tasks = [g \in Gens |-> NoTask]

TaskStep(g) ==
    Link(g) \/ Acquire(g) \/ Lookup(g) \/ Save(g) \/ RememberNegative(g) \/ TaskAborted(g)
    \/ DropGuard(g)

QuoteNext ==
    \/ \E k \in QuoteKeys, o \in Owners : Schedule(k, o)
    \/ \E c \in Consumers : CancelConsumer(c)
    \/ \E a \in Accounts : CancelSource(a)
    \/ CancelAll
    \/ \E g \in Gens : TaskStep(g)
    \/ \E k \in QuoteKeys : NegativeExpires(k)

QuoteSpec == QuoteInit /\ [][QuoteNext]_quoteVars

-----------------------------------------------------------------------------

\* Jobs and tasks have their types, and the three maps are the inverse of the
\* jobs' owners and accounts, with nothing left behind.
QuoteTypeOK ==
    /\ \A k \in QuoteKeys : jobs[k].gen \in 0..lastGen /\ jobs[k].owners \subseteq Owners
    /\ \A k \in Present : jobs[k].owners # {}
    /\ \A a \in Accounts : sourceJobs[a] = {k \in Present : SourceOf[k] = a}
    /\ \A a \in Accounts : accountJobs[a] = {k \in Present : a \in jobs[k].owners}
    /\ \A c \in Consumers : consumerJobs[c] = {k \in Present : c \in jobs[k].owners}

\* The registry and the tasks agree: an entry has its task, and a task that is
\* not aborted once its scheduler is done has its entry, so that cancelling
\* the last owner or logging out always reaches the task.
NoOrphanQuoteTask ==
    \A g \in Gens :
        LET t == tasks[g] IN
        /\ t.linked /\ ~t.aborted /\ t.pc \notin {"none", "done"} =>
              jobs[t.key].gen = g /\ jobs[t.key].handle
        /\ jobs[t.key].gen = g /\ t.pc # "none" => t.pc # "done" /\ ~t.aborted

\* "quote_consumer_cancel_is_reference_counted" (a test of the module): closing a
\* pane aborts no task another pane or the account still owns.
SharedJobSurvivesPane ==
    \A g \in Gens :
     LET k == tasks[g].key IN
     tasks'[g].aborted /\ ~tasks[g].aborted /\ jobs[k].gen = g =>
         \/ \E c \in Consumers : jobs[k].owners = {c}
         \/ sourceJobs'[SourceOf[k]] = {}

-----------------------------------------------------------------------------
(***************************************************************************)
(* The quotes a stream delivers without their quoted post: QuoteQueue,     *)
(* start_quote_worker and resolve_quote_job (services/streaming_service.rs)*)
(* look each of them up beside the stream, once at a time, a few times,    *)
(* and not again for a while when it was not found.                        *)
(* The processor of every stream of the account enqueues.                  *)
(***************************************************************************)
CONSTANTS StqStreams,             \* stream types subscribed to
          StqKeyOf,               \* [posts -> keys]: pending_quote_key
          StqCapacity,            \* QUOTE_JOB_QUEUE_CAPACITY
          StqWorkers,             \* QUOTE_JOB_CONCURRENCY
          StqAttempts,            \* QUOTE_MAX_ATTEMPTS
          StqMissTtl,             \* QUOTE_NEGATIVE_CACHE_TTL
          StqMaxTime              \* bound on the clock

StqPosts == DOMAIN StqKeyOf
StqKeys == {StqKeyOf[p] : p \in StqPosts}
StqNothing == 0

ASSUME StqAssumption == /\ {StqCapacity, StqWorkers, StqAttempts, StqMissTtl} \subseteq Nat \ {0}
                       /\ StqNothing \notin StqPosts
                       /\ StqKeyOf \in [StqPosts -> StqKeys]
                       /\ IsFiniteSet(StqStreams) /\ StqMaxTime \in Nat

VARIABLES
    stqEntering,    \* [StqStreams -> post whose key is registered and that is not queued yet]
    stqQueue,       \* posts, the channel
    stqJobs,        \* [post -> [tries, step]] of the jobs that run
    stqFlight,      \* in_flight
    stqMiss,        \* [StqKeys -> time] negative_until
    stqBridge,      \* a receiver of the events is left
    stqTime

stqVars == <<stqEntering, stqQueue, stqJobs, stqFlight, stqMiss, stqBridge, stqTime>>

WithoutJob(p) == [q \in DOMAIN stqJobs \ {p} |-> stqJobs[q]]
JobAt(p, step) == p \in DOMAIN stqJobs /\ stqJobs[p].step = step


\* The key is neither being looked up nor known to lead nowhere.
WorthLooking(key) == key \notin stqFlight /\ stqMiss[key] <= stqTime

\* A post arrives without its quote: enqueue up to the end of its lock.
RegisterQuote(s, p) ==
    /\ stqBridge /\ stqEntering[s] = StqNothing /\ WorthLooking(StqKeyOf[p])
    /\ stqFlight' = stqFlight \union {StqKeyOf[p]}
    /\ stqEntering' = [stqEntering EXCEPT ![s] = p]
    /\ UNCHANGED <<stqQueue, stqJobs, stqMiss, stqBridge, stqTime>>

\* Mutant of QuoteRefused: the key of a job the queue had no room for stays registered.
QuoteRefusedForGood(p) == stqQueue' = stqQueue /\ stqFlight' = stqFlight

\* QueueFull.
QuoteRefused(p) == stqQueue' = stqQueue /\ stqFlight' = stqFlight \ {StqKeyOf[p]}

\* try_send, after the lock was released.
TrySend(s) ==
    LET p == stqEntering[s] IN
    /\ p # StqNothing
    /\ stqEntering' = [stqEntering EXCEPT ![s] = StqNothing]
    /\ IF Len(stqQueue) < StqCapacity
       THEN stqQueue' = Append(stqQueue, p) /\ stqFlight' = stqFlight
       ELSE QuoteRefused(p)
    /\ UNCHANGED <<stqJobs, stqMiss, stqBridge, stqTime>>

\* for_each_concurrent: the next job starts when there is a place.
StartJob ==
    /\ stqQueue # <<>> /\ Cardinality(DOMAIN stqJobs) < StqWorkers
    /\ stqQueue' = Tail(stqQueue)
    /\ stqJobs' = [p \in DOMAIN stqJobs \union {Head(stqQueue)} |->
                    IF p = Head(stqQueue) THEN [tries |-> 0, step |-> "looking"] ELSE stqJobs[p]]
    /\ UNCHANGED <<stqEntering, stqFlight, stqMiss, stqBridge, stqTime>>

\* The end of resolve_quote_job.
Finish(p, resolved) ==
    /\ stqJobs' = WithoutJob(p)
    /\ stqFlight' = stqFlight \ {StqKeyOf[p]}
    /\ stqMiss' = IF resolved THEN stqMiss
                 ELSE [stqMiss EXCEPT ![StqKeyOf[p]] = stqTime + StqMissTtl]

\* A lookup finds the post.
QuoteFound(p) ==
    /\ JobAt(p, "looking") /\ stqJobs' = [stqJobs EXCEPT ![p].step = "saving"]
    /\ UNCHANGED <<stqEntering, stqQueue, stqFlight, stqMiss, stqBridge, stqTime>>

\* A lookup ends without it, by an error, an answer without it or the timeout.
QuoteNotFound(p) ==
    /\ JobAt(p, "looking")
    /\ IF stqJobs[p].tries + 1 < StqAttempts
       THEN stqJobs' = [stqJobs EXCEPT ![p].tries = @ + 1] /\ UNCHANGED <<stqFlight, stqMiss>>
       ELSE Finish(p, FALSE)
    /\ UNCHANGED <<stqEntering, stqQueue, stqBridge, stqTime>>

\* save_status_batch_with_retry of the post as the stream delivered it, with its quote.  What
\* that upsert does to the status rows is StreamPipeline's QuoteSaves.
SaveQuoting(p) ==
    /\ JobAt(p, "saving")
    /\ \/ /\ stqJobs' = [stqJobs EXCEPT ![p].step = "telling"]
          /\ UNCHANGED <<stqFlight, stqMiss>>
       \/ Finish(p, TRUE)
    /\ UNCHANGED <<stqEntering, stqQueue, stqBridge, stqTime>>

\* CacheCommitted and StatusUpdate; with no receiver left the job ends where it is.
TellQuoting(p) ==
    /\ JobAt(p, "telling")
    /\ IF stqBridge THEN Finish(p, TRUE)
       ELSE stqJobs' = WithoutJob(p) /\ UNCHANGED <<stqFlight, stqMiss>>
    /\ UNCHANGED <<stqEntering, stqQueue, stqBridge, stqTime>>

\* The streams are being restarted and their bridge is gone.
BridgeCloses ==
    /\ stqBridge /\ stqBridge' = FALSE
    /\ UNCHANGED <<stqEntering, stqQueue, stqJobs, stqFlight, stqMiss, stqTime>>

QuoteTime ==
    /\ stqTime < StqMaxTime /\ stqTime' = stqTime + 1
    /\ UNCHANGED <<stqEntering, stqQueue, stqJobs, stqFlight, stqMiss, stqBridge>>

StreamQuotesInit ==
    /\ stqEntering = [s \in StqStreams |-> StqNothing] /\ stqQueue = <<>> /\ stqJobs = <<>>
    /\ stqFlight = {} /\ stqMiss = [k \in StqKeys |-> 0]
    /\ stqBridge = TRUE /\ stqTime = 0

StreamQuotesNext ==
    \/ \E s \in StqStreams : TrySend(s) \/ \E p \in StqPosts : RegisterQuote(s, p)
    \/ StartJob
    \/ \E p \in StqPosts : \/ QuoteFound(p) \/ QuoteNotFound(p)
                          \/ SaveQuoting(p) \/ TellQuoting(p)
    \/ BridgeCloses \/ QuoteTime

StreamQuotesSpec == StreamQuotesInit /\ [][StreamQuotesNext]_stqVars

\* Who holds a key: a processor on its way to the queue, the queue, or a job.
Holders(key) ==
    Cardinality({s \in StqStreams : stqEntering[s] # StqNothing /\ StqKeyOf[stqEntering[s]] = key})
    + Cardinality({i \in DOMAIN stqQueue : StqKeyOf[stqQueue[i]] = key})
    + Cardinality({p \in DOMAIN stqJobs : StqKeyOf[p] = key})

\* A quote is looked up once at a time however many streams deliver it, and a key that is
\* registered is being worked on: no post is shut out by a job that is over or was refused.
\* It holds while the bridge of the streams is there.
LookupsAreHeld ==
    stqBridge => \A k \in StqKeys : Holders(k) = IF k \in stqFlight THEN 1 ELSE 0

\* A quote that was not found is not asked for before its time, by whichever stream.
MissesRest == \A k \in stqFlight : stqMiss[k] <= stqTime
=============================================================================
