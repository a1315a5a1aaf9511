------------------------- MODULE ProviderRequests ---------------------------
(***************************************************************************)
(* The calls of api/client.rs: one request, what its answer is taken for   *)
(* (mastodon/client.rs, misskey/client.rs, api/http.rs, api/ports.rs) and  *)
(* the retries of reads, which share a budget for each server              *)
(* (api/retry.rs).  A unit of time is 250 ms.                              *)
(***************************************************************************)
EXTENDS Integers, FiniteSets, Sequences, FiniteSetsExt, Functions

CONSTANTS RqCalls,
          RqBackend,     \* the servers, each with its backend
          RqAnswers,     \* what a server may answer: see RqMeaning
          RqLimit,       \* MAX_API_RESPONSE_BYTES, in chunks
          RqAttempts,    \* MAX_ATTEMPTS
          RqMaxDelay,    \* MAX_DELAY
          RqTracked,     \* MAX_TRACKED_SERVERS
          RqMaxTime      \* bound: the clock

ASSUME RqAssumption == RqAttempts > 0 /\ RqMaxDelay > 0 /\ RqTracked > 0

VARIABLES
    rqNow,
    rqBudgets,   \* SERVER_BUDGETS: server -> the next free slot
    rqCall,      \* call -> <<>> before it begins, or a record
    rqExecuted,  \* ghost: call -> how often its server carried it out
    rqSlots,     \* ghost: the slots of the retries, <<server, time, call>>
    rqEvicted    \* ghost: servers whose slot was given up for another server's

rqVars == <<rqNow, rqBudgets, rqCall, rqExecuted, rqSlots, rqEvicted>>

RqServers == DOMAIN RqBackend

\* Which operations of ApiClient go through retry_read.
OperationKinds == {"read", "write"}

\* Mutant of RqRepeats: every operation goes through retry_read.
RqRepeatsAll(kind) == TRUE

RqRepeats(kind) == kind = "read"

\* body_bytes_limited: a declared length is refused at once, chunks are counted as they come.
BodyWithin(declared, chunks) ==
    /\ declared <= RqLimit
    /\ \A i \in 1 .. Len(chunks) : FoldFunction(+, 0, SubSeq(chunks, 1, i)) <= RqLimit

\* handle_response and adapt_error: the code an answer becomes, and its Retry-After, which
\* only the Mastodon client reads.
RqMeaning(backend, answer) ==
    CASE answer.status = "timeout" -> [code |-> "timeout", after |-> 0]
      [] answer.status = "broken" -> [code |-> "transport", after |-> 0]
      [] answer.status = "200" ->
            [code |-> IF ~BodyWithin(answer.declared, answer.chunks) THEN "internal"
                      ELSE IF answer.json THEN "ok" ELSE "invalid", after |-> 0]
      [] answer.status = "401" \/ (answer.status = "403" /\ backend = "misskey") ->
            [code |-> "unauthorized", after |-> 0]
      [] answer.status = "429" ->
            [code |-> "rate_limited", after |-> IF backend = "mastodon" THEN answer.after ELSE 0]
      [] OTHER -> [code |-> "internal", after |-> 0]

RqRetried == {"rate_limited", "timeout", "transport"}

\* Mutant of RetryDelay: the jitter is taken off the delay.
RetryDelayEarly(attempt, after, jitter) ==
    Max({Min({2 ^ (attempt - 1), RqMaxDelay}), Min({after, RqMaxDelay})}) - jitter

\* retry_delay: the backoff or the server's own wish, and a jitter on top.
RetryDelay(attempt, after, jitter) ==
    LET exponential == Min({2 ^ (attempt - 1), RqMaxDelay})
    IN Min({Max({exponential, Min({after, RqMaxDelay})}) + jitter, RqMaxDelay})

-----------------------------------------------------------------------------

\* ApiClient: a call sends its request.
BeginCall(c) ==
    /\ rqCall[c] = <<>>
    /\ \E server \in RqServers, kind \in OperationKinds :
          rqCall' = [rqCall EXCEPT ![c] =
                       [server |-> server, kind |-> kind, step |-> "sent",
                        attempt |-> 1, at |-> 0, floor |-> 0]]
    /\ UNCHANGED <<rqNow, rqBudgets, rqExecuted, rqSlots, rqEvicted>>

\* What is left of a call that has answered its caller, or was dropped by it.
RqFinished(call) == [call EXCEPT !.step = "done", !.attempt = 1, !.at = 0, !.floor = 0]

\* Mutant of FreeSlot: the slot another call has reserved is not looked at.
FreeSlotOwn(budgets, server, wanted) == wanted

FreeSlot(budgets, server, wanted) ==
    Max({wanted, IF server \in DOMAIN budgets THEN budgets[server] ELSE rqNow})

\* reserve_server_retry: past slots are forgotten, and at the limit the one nearest to its end.
RqReserve(c, delay, after) ==
    LET server == rqCall[c].server
        live == {s \in DOMAIN rqBudgets : rqBudgets[s] > rqNow}
        full == Cardinality(live) >= RqTracked /\ server \notin live
        oldest == CHOOSE s \in live : \A t \in live : rqBudgets[s] <= rqBudgets[t]
        kept == Restrict(rqBudgets, IF full THEN live \ {oldest} ELSE live)
        slot == FreeSlot(kept, server, rqNow + delay)
    IN
    /\ rqBudgets' = [s \in DOMAIN kept \union {server} |-> IF s = server THEN slot + 1 ELSE kept[s]]
    /\ rqEvicted' = IF full THEN rqEvicted \union {oldest} ELSE rqEvicted
    /\ rqSlots' = rqSlots \union {<<server, slot, c>>}
    /\ rqCall' = [rqCall EXCEPT ![c].step = "sleep", ![c].at = slot,
                                ![c].floor = rqNow + Min({after, RqMaxDelay})]

\* The answer comes, or none does; idempotent decides what follows.
ReceiveAnswer(c) ==
    /\ rqCall[c] # <<>> /\ rqCall[c].step = "sent"
    /\ \E answer \in RqAnswers, executed \in BOOLEAN, jitter \in {0, 1} :
          LET call == rqCall[c]
              meaning == RqMeaning(RqBackend[call.server], answer)
              again == /\ RqRepeats(call.kind) /\ meaning.code \in RqRetried
                       /\ call.attempt < RqAttempts
              delay == RetryDelay(call.attempt, meaning.after, jitter)
          IN
          /\ executed \in (IF answer.status = "200" THEN {TRUE}
                           ELSE IF answer.status \in {"timeout", "broken"} THEN BOOLEAN
                           ELSE {FALSE})
          /\ rqExecuted' = IF executed THEN [rqExecuted EXCEPT ![c] = @ + 1] ELSE rqExecuted
          /\ IF again
             THEN /\ rqNow + delay < RqMaxTime
                  /\ RqReserve(c, delay, meaning.after)
             ELSE /\ jitter = 0
                  /\ rqCall' = [rqCall EXCEPT ![c] = RqFinished(call)]
                  /\ UNCHANGED <<rqBudgets, rqSlots, rqEvicted>>
    /\ UNCHANGED rqNow

\* The sleep is over: the request is sent again.
RetryCall(c) ==
    /\ rqCall[c] # <<>> /\ rqCall[c].step = "sleep" /\ rqCall[c].at <= rqNow
    /\ rqCall' = [rqCall EXCEPT ![c].step = "sent", ![c].attempt = @ + 1]
    /\ UNCHANGED <<rqNow, rqBudgets, rqExecuted, rqSlots, rqEvicted>>

\* The caller is cancelled: the request or the sleep is dropped, the slot stays taken.
DropCall(c) ==
    /\ rqCall[c] # <<>> /\ rqCall[c].step # "done"
    /\ rqCall' = [rqCall EXCEPT ![c] = RqFinished(rqCall[c])]
    /\ UNCHANGED <<rqNow, rqBudgets, rqExecuted, rqSlots, rqEvicted>>

RqClockTicks ==
    /\ rqNow < RqMaxTime /\ rqNow' = rqNow + 1
    /\ UNCHANGED <<rqBudgets, rqCall, rqExecuted, rqSlots, rqEvicted>>

RequestsInit ==
    /\ rqNow = 0 /\ rqBudgets = [s \in {} |-> 0]
    /\ rqCall = [c \in RqCalls |-> <<>>] /\ rqExecuted = [c \in RqCalls |-> 0]
    /\ rqSlots = {} /\ rqEvicted = {}

RequestsNext ==
    \/ RqClockTicks
    \/ \E c \in RqCalls : BeginCall(c) \/ ReceiveAnswer(c) \/ RetryCall(c) \/ DropCall(c)

-----------------------------------------------------------------------------

\* A write is carried out at most once by a call, however it fails: an answer that was lost
\* is not a reason to send it again.
WritesAreSentOnce ==
    \A c \in RqCalls : rqCall[c] # <<>> /\ rqCall[c].kind # "read" => rqExecuted[c] <= 1

\* Two calls that fail together do not return to their server together: the retries of one
\* server stand a slot apart, whatever was dropped or forgotten meanwhile, as long as no more
\* servers than are tracked fail at once.
RetriesAreSpaced ==
    \A x, y \in rqSlots : x # y /\ x[1] = y[1] /\ x[1] \notin rqEvicted => x[2] # y[2]

\* A Mastodon server that said when to come back is left alone until then, up to the longest
\* delay: neither jitter nor a shared slot brings a retry forward.
RetryAfterIsKept ==
    \A c \in RqCalls :
        rqCall[c] # <<>> /\ rqCall[c].step = "sleep" => rqCall[c].at >= rqCall[c].floor

-----------------------------------------------------------------------------
(***************************************************************************)
(* services/reconnect_budget.rs: the streaming tasks of the process        *)
(* reserve a slot for every connection attempt, and those to one server    *)
(* stand a gap apart.                                                       *)
(***************************************************************************)
CONSTANTS RbTasks, RbServers, RbGap, RbMaxTime

ASSUME RbAssumption == RbGap > 0

VARIABLES
    rbNow,
    rbSlots,    \* next_slots
    rbWait,     \* the slot each task sleeps for: <<server, slot>>, <<>> while it does not
    rbTaken     \* ghost: the attempts made, <<server, slot, task>>

rbVars == <<rbNow, rbSlots, rbWait, rbTaken>>

\* Mutant of NextSlot: the gap is counted from now.
NextSlotFromNow(slot) == rbNow + RbGap

NextSlot(slot) == slot + RbGap

\* reserve_at: slots that have passed are forgotten.
ReserveSlot(t) ==
    \E server \in RbServers :
        LET live == {s \in DOMAIN rbSlots : rbSlots[s] > rbNow}
            slot == IF server \in live THEN rbSlots[server] ELSE rbNow
        IN
        /\ rbWait[t] = <<>>
        /\ slot + RbGap <= RbMaxTime
        /\ rbSlots' = [s \in live \union {server} |->
                          IF s = server THEN NextSlot(slot) ELSE rbSlots[s]]
        /\ rbWait' = [rbWait EXCEPT ![t] = <<server, slot>>]
        /\ UNCHANGED <<rbNow, rbTaken>>

\* wait_for_server_slot: the sleep is over, and the attempt begins.
SlotComes(t) ==
    /\ rbWait[t] # <<>> /\ rbWait[t][2] <= rbNow
    /\ rbTaken' = rbTaken \union {<<rbWait[t][1], rbWait[t][2], t>>}
    /\ rbWait' = [rbWait EXCEPT ![t] = <<>>]
    /\ UNCHANGED <<rbNow, rbSlots>>

\* The task is stopped in its sleep: its slot stays taken.
TaskStops(t) ==
    /\ rbWait[t] # <<>>
    /\ rbWait' = [rbWait EXCEPT ![t] = <<>>]
    /\ UNCHANGED <<rbNow, rbSlots, rbTaken>>

TimePasses == rbNow < RbMaxTime /\ rbNow' = rbNow + 1 /\ UNCHANGED <<rbSlots, rbWait, rbTaken>>

BudgetInit ==
    /\ rbNow = 0 /\ rbSlots = [s \in {} |-> 0]
    /\ rbWait = [t \in RbTasks |-> <<>>] /\ rbTaken = {}

BudgetNext ==
    \/ TimePasses
    \/ \E t \in RbTasks : ReserveSlot(t) \/ SlotComes(t) \/ TaskStops(t)

-----------------------------------------------------------------------------

\* However many tasks reconnect at once, however their sleeps and their ends fall and
\* whatever was forgotten meanwhile, the slots of one server stand a gap apart: those that
\* were used and those still waited for.
SlotsAreStaggered ==
    LET waiting == {t \in RbTasks : rbWait[t] # <<>>}
        all == rbTaken \union {<<rbWait[t][1], rbWait[t][2], t>> : t \in waiting}
    IN \A x, y \in all :
          x # y /\ x[1] = y[1] => x[2] - y[2] >= RbGap \/ y[2] - x[2] >= RbGap

-----------------------------------------------------------------------------
(***************************************************************************)
(* What a user switches on and off at a provider: favourites, boosts and   *)
(* bookmarks of a post, follows, mutes and blocks of a person, through     *)
(* bluesky/endpoints.rs and misskey/endpoints.rs.                          *)
(*                                                                         *)
(* Bluesky keeps a favourite, boost, follow or block as records of which   *)
(* there may be several; Misskey keeps boosts that way.  Every call is     *)
(* several requests; each may fail, or be executed with its answer lost.   *)
(***************************************************************************)
CONSTANTS ToggleMax,   \* bound: records of one kind
          ToggleCalls  \* bound: calls

VARIABLES
    togBackend,  \* "bluesky" or "misskey"
    togRecs,     \* verb -> records at the provider
    togShown,    \* verb -> what the last successful call answered
    togSure,     \* verb -> the last call succeeded
    togCall,     \* the call under way and the requests it has still to make
    togTwice,    \* verbs of which there were two records
    togCount     \* calls so far

togVars == <<togBackend, togRecs, togShown, togSure, togCall, togTwice, togCount>>

PostVerbs == {"favourite", "reblog", "bookmark"}
PersonVerbs == {"follow", "mute", "block"}
Verbs == PostVerbs \union PersonVerbs
NoCall == [steps |-> <<>>, verb |-> "", on |-> FALSE, found |-> FALSE]

-----------------------------------------------------------------------------
(* The endpoints, as the requests they make in order.                      *)

BskyFavourite == <<"must_look_up", "add", "read">>
BskyUnfavourite == <<"find", "remove_found", "read">>
BskyReblog == <<"must_look_up", "add", "read">>
BskyUnreblog == <<"find", "remove_found", "read">>
BskyBookmark == <<"must_look_up", "set", "read_as_asked">>
BskyUnbookmark == <<"clear", "read_as_asked">>
BskyFollow == <<"must_look_up", "add", "say">>
BskyUnfollow == <<"find", "remove_found", "say">>
BskyMute == <<"set", "say">>
BskyUnmute == <<"clear", "say">>
BskyBlock == <<"must_look_up", "add", "say">>
BskyUnblock == <<"find", "remove_found", "say">>

BskySteps(verb, on) ==
    CASE verb = "favourite" -> IF on THEN BskyFavourite ELSE BskyUnfavourite
      [] verb = "reblog" -> IF on THEN BskyReblog ELSE BskyUnreblog
      [] verb = "bookmark" -> IF on THEN BskyBookmark ELSE BskyUnbookmark
      [] verb = "follow" -> IF on THEN BskyFollow ELSE BskyUnfollow
      [] verb = "mute" -> IF on THEN BskyMute ELSE BskyUnmute
      [] verb = "block" -> IF on THEN BskyBlock ELSE BskyUnblock

MisskeyFavourite == <<"set_or_refused", "read">>
MisskeyUnfavourite == <<"try_clear", "read">>
MisskeyReblog == <<"add", "say_about_the_renote">>
MisskeyUnreblog == <<"list_renotes", "must_look_up", "remove_listed", "read_silent">>
\* notes/favorites, and i/favorites when that fails.
MisskeyBookmark == <<"set_or_refused", "read_silent">>
MisskeyUnbookmark == <<"clear", "read_silent">>
\* following, mute and blocking, each followed by fetch_relationship.
MisskeyPerson(on) == <<IF on THEN "set" ELSE "clear", "read">>

MisskeySteps(verb, on) ==
    CASE verb = "favourite" -> IF on THEN MisskeyFavourite ELSE MisskeyUnfavourite
      [] verb = "reblog" -> IF on THEN MisskeyReblog ELSE MisskeyUnreblog
      [] verb = "bookmark" -> IF on THEN MisskeyBookmark ELSE MisskeyUnbookmark
      [] OTHER -> MisskeyPerson(on)

-----------------------------------------------------------------------------
(* The requests.                                                           *)

AtStep(step) == togCall.steps # <<>> /\ Head(togCall.steps) = step

GoesOn(found) ==
    /\ togCall' = [togCall EXCEPT !.steps = Tail(@), !.found = found]
    /\ UNCHANGED <<togShown, togSure>>

\* The application sees an error.
CallFails ==
    /\ togCall' = NoCall
    /\ UNCHANGED <<togShown, togSure>>

\* The application gets the answer shown.
Answers(shown) ==
    /\ togShown' = [togShown EXCEPT ![togCall.verb] = shown]
    /\ togSure' = [togSure EXCEPT ![togCall.verb] = TRUE]
    /\ togCall' = NoCall

Said(on) == IF on THEN "on" ELSE "off"

Begin(verb, on) ==
    /\ togCall = NoCall /\ togCount < ToggleCalls
    /\ togCount' = togCount + 1
    /\ togSure' = [togSure EXCEPT ![verb] = FALSE]
    /\ togCall' = [steps |-> IF togBackend = "bluesky" THEN BskySteps(verb, on)
                                                       ELSE MisskeySteps(verb, on),
                   verb |-> verb, on |-> on, found |-> FALSE]
    /\ UNCHANGED <<togBackend, togRecs, togShown, togTwice>>

\* fetch_strong_ref, resolve_did, or who the user is.
LookUpSubject ==
    /\ AtStep("must_look_up")
    /\ GoesOn(togCall.found) \/ CallFails
    /\ UNCHANGED <<togBackend, togRecs, togTwice, togCount>>

\* Mutant of FindRecord: a subject that cannot be looked up counts as one without a record.
FindRecordLenient ==
    /\ AtStep("find")
    /\ GoesOn(togRecs[togCall.verb] > 0) \/ GoesOn(FALSE)
    /\ UNCHANGED <<togBackend, togRecs, togTwice, togCount>>

\* viewer_like_uri, viewer_repost_uri, or get_profile: the viewer's record, if there is one.
FindRecord ==
    /\ AtStep("find")
    /\ GoesOn(togRecs[togCall.verb] > 0) \/ CallFails
    /\ UNCHANGED <<togBackend, togRecs, togTwice, togCount>>

\* notes/renotes: when it fails the list is empty.
ListRenotes ==
    /\ AtStep("list_renotes")
    /\ GoesOn(togRecs[togCall.verb] > 0) \/ GoesOn(FALSE)
    /\ UNCHANGED <<togBackend, togRecs, togTwice, togCount>>

\* The request leaves left records.  It may fail before it is executed, or after with its
\* answer lost.
Writes(left) ==
    LET verb == togCall.verb IN
    /\ \/ /\ togRecs' = [togRecs EXCEPT ![verb] = left]
          /\ GoesOn(togCall.found) \/ CallFails
       \/ UNCHANGED togRecs /\ CallFails
    /\ togTwice' = IF togRecs'[verb] > 1 THEN togTwice \union {verb} ELSE togTwice
    /\ UNCHANGED <<togBackend, togCount>>

\* create_record and notes/create add a record, whatever there is.
AddRecord ==
    /\ AtStep("add")
    /\ Writes(IF togRecs[togCall.verb] < ToggleMax THEN togRecs[togCall.verb] + 1
                                                   ELSE togRecs[togCall.verb])

\* create_bookmark, mute_actor, following/create ... find it set and leave it so.
SetMark ==
    /\ AtStep("set")
    /\ Writes(1)

ClearMark ==
    /\ AtStep("clear")
    /\ Writes(0)

\* reactions/create refused with 400 counts as done; a bookmark refused is tried elsewhere.
SetOrRefused ==
    /\ AtStep("set_or_refused")
    /\ \/ Writes(1)
       \/ GoesOn(togCall.found) /\ UNCHANGED <<togBackend, togRecs, togTwice, togCount>>

\* reactions/delete: its error is ignored.
TryClear ==
    /\ AtStep("try_clear")
    /\ \E left \in {0, togRecs[togCall.verb]} : togRecs' = [togRecs EXCEPT ![togCall.verb] = left]
    /\ GoesOn(togCall.found)
    /\ UNCHANGED <<togBackend, togTwice, togCount>>

\* delete_record of the record found, and nothing when none was.
RemoveFound ==
    /\ AtStep("remove_found")
    /\ IF togCall.found /\ togRecs[togCall.verb] > 0
       THEN Writes(togRecs[togCall.verb] - 1)
       ELSE GoesOn(togCall.found) /\ UNCHANGED <<togBackend, togRecs, togTwice, togCount>>

\* Every renote listed is deleted, going on when one cannot be.
RemoveListed ==
    /\ AtStep("remove_listed")
    /\ \E left \in IF togCall.found THEN 0..togRecs[togCall.verb] ELSE {togRecs[togCall.verb]} :
          togRecs' = [togRecs EXCEPT ![togCall.verb] = left]
    /\ GoesOn(togCall.found)
    /\ UNCHANGED <<togBackend, togTwice, togCount>>

\* Mutant of ReadBack: switching off answers without asking.
ReadBackAssumed ==
    /\ AtStep("read")
    /\ Answers(Said(togCall.on)) \/ CallFails
    /\ UNCHANGED <<togBackend, togRecs, togTwice, togCount>>

\* get_status, or fetch_relationship: what the provider has now is the answer.
ReadBack ==
    /\ AtStep("read")
    /\ Answers(Said(togRecs[togCall.verb] > 0)) \/ CallFails
    /\ UNCHANGED <<togBackend, togRecs, togTwice, togCount>>

\* get_status, and the bookmark is set in it as was asked.
ReadAsAsked ==
    /\ AtStep("read_as_asked")
    /\ Answers(Said(togCall.on)) \/ CallFails
    /\ UNCHANGED <<togBackend, togRecs, togTwice, togCount>>

\* A Misskey note says neither whether it is bookmarked nor whether the user renoted it
\* (note_to_status); a renote's answer is the new note, not the one it is of.
ReadSilent ==
    /\ AtStep("read_silent") \/ AtStep("say_about_the_renote")
    /\ Answers("unknown") \/ CallFails
    /\ UNCHANGED <<togBackend, togRecs, togTwice, togCount>>

\* The relationship is made up from what was asked.
SayAsked ==
    /\ AtStep("say")
    /\ Answers(Said(togCall.on))
    /\ UNCHANGED <<togBackend, togRecs, togTwice, togCount>>

\* The caller drops the call at an await.
CallDropped ==
    /\ togCall # NoCall
    /\ CallFails
    /\ UNCHANGED <<togBackend, togRecs, togTwice, togCount>>

ToggleInit ==
    /\ togBackend \in {"bluesky", "misskey"}
    /\ togRecs = [v \in Verbs |-> 0]
    /\ togShown = [v \in Verbs |-> "off"]
    /\ togSure = [v \in Verbs |-> TRUE]
    /\ togCall = NoCall
    /\ togTwice = {}
    /\ togCount = 0

ToggleNext ==
    \/ \E verb \in Verbs, on \in BOOLEAN : Begin(verb, on)
    \/ LookUpSubject \/ FindRecord \/ ListRenotes
    \/ AddRecord \/ SetMark \/ ClearMark \/ SetOrRefused \/ TryClear
    \/ RemoveFound \/ RemoveListed
    \/ ReadBack \/ ReadAsAsked \/ ReadSilent \/ SayAsked \/ CallDropped

-----------------------------------------------------------------------------

\* What the last successful call on a post answered is what the provider has, however many
\* calls before it failed half-way, were executed unseen or were repeated.
AnswerIsTrue ==
    \A verb \in PostVerbs :
        togSure[verb] /\ togShown[verb] # "unknown"
            => (togShown[verb] = "on" <=> togRecs[verb] > 0)

\* Of calls on a person that is so at Misskey.  Bluesky's follow and block add a record
\* whatever there is, and taking one back is not read back: there the answer is true as
\* long as there never was more than one record.
PersonAnswerIsTrue ==
    \A verb \in PersonVerbs :
        togSure[verb] /\ (togBackend = "bluesky" => verb \notin togTwice)
            => (togShown[verb] = "on" <=> togRecs[verb] > 0)
=============================================================================
