---------------------------- MODULE PostActions -----------------------------
(***************************************************************************)
(* Marking a post as a favourite (a boost or a bookmark likewise) with one *)
(* of several accounts: actionStatus and switchAccount of the page         *)
(* (statusMutationActions.ts, sessionActions.ts, appStore.ts), and the     *)
(* commands status_viewer_states (application/timeline.rs) and             *)
(* status_action (application/status.rs), which the page may cancel        *)
(* (run_cancellable_read, application/desktop.rs).  One post and one flag; *)
(* every account has its own, and the page shows that of the acting one.   *)
(***************************************************************************)
EXTENDS Integers, FiniteSets, Sequences

CONSTANTS SaAccts,               \* accounts
          SaOps,                 \* operation ids: 1..n, a bound on the clicks
          SaSwitches             \* bound on the changes of the acting account

ASSUME SaAssumption ==
    SaAccts # {} /\ SaOps \in Nat \ {0} /\ SaSwitches \in Nat

NoOp == 0
OpIds == 1..SaOps
NoSwitch == [step |-> "none", to |-> "none", start |-> NoOp, read |-> FALSE,
             undone |-> FALSE]

VARIABLES
    saServer,      \* account -> whether it marked the post, on its server
    saCache,       \* the same in status_viewer_state
    saEntry,       \* whether timeline_entries has the post among the account's favourites
    saActing,      \* the acting account, as the page knows it
    saShown,       \* the flag the page shows
    saMut,         \* the post's mutation: [op, phase, before]
    saOps,         \* op -> [acct, want, scope, page, read, cmd]: the action and its command
    saScope,       \* generation of the acting account; each transition begins a new one
    saSwitch,      \* the change of account under way: [step, to, start, read, undone]
    saCancelled,   \* ops whose command the page asked to cancel
    saLoose,       \* accounts of an action that was cut off, or failed after its server acted
    saBlind        \* the page has not managed to read the flag since the account changed

saVars == <<saServer, saCache, saEntry, saActing, saShown, saMut, saOps, saScope, saSwitch,
            saCancelled, saLoose, saBlind>>
saBackend == <<saServer, saCache, saEntry>>
saPage == <<saActing, saShown, saMut, saScope, saSwitch, saCancelled, saBlind>>

NoMut == [op |-> NoOp, phase |-> "none", before |-> FALSE]
OfOp(op) == saOps[op].acct
SaSet(op, field, v) == [saOps EXCEPT ![op][field] = v]

\* The account is being changed: no action begins.
InTransition == saSwitch.step = "asked"

\* A post has one action at a time.
SaMayBegin == ~InTransition /\ saMut.phase # "pending"

\* actionStatus begins: it asks what the account thinks of the post.
ClickAction(op) ==
    /\ SaMayBegin /\ saOps[op].page = "unused"
    /\ \A o \in OpIds : o < op => saOps[o].page # "unused"
    /\ saMut' = [op |-> op, phase |-> "pending", before |-> saShown]
    /\ saOps' = [saOps EXCEPT ![op] = [@ EXCEPT !.acct = saActing, !.want = ~saShown,
                                         !.scope = saScope, !.page = "asking"]]
    /\ UNCHANGED <<saBackend, saActing, saShown, saScope, saSwitch, saCancelled, saLoose, saBlind>>

\* status_viewer_states reads the cache.
ReadViewerState(op) ==
    /\ saOps[op].page = "asking"
    /\ saOps' = [saOps EXCEPT ![op] = [@ EXCEPT !.page = "read", !.read = saCache[OfOp(op)]]]
    /\ UNCHANGED <<saBackend, saPage, saLoose>>

\* mutationIsCurrent
IsCurrent(op) == saOps[op].scope = saScope /\ saMut.op = op

\* The action ends; an outdated one leaves nothing behind.
Ends(op, phase) == saMut' = IF saMut.op # op THEN saMut
                            ELSE IF IsCurrent(op) /\ phase # "none"
                                 THEN [saMut EXCEPT !.phase = phase]
                            ELSE NoMut

ViewerReadFails(op) ==
    /\ saOps[op].page = "asking"
    /\ saOps' = SaSet(op, "page", "gone") /\ Ends(op, "failed")
    /\ saShown' = IF IsCurrent(op) THEN saMut.before ELSE saShown
    /\ UNCHANGED <<saBackend, saActing, saScope, saSwitch, saCancelled, saLoose, saBlind>>

\* The page takes over the answer; a flag that is as wanted needs no command.
ApplyViewerState(op) ==
    LET settled == saOps[op].read = saOps[op].want IN
    /\ saOps[op].page = "read"
    /\ saOps' = SaSet(op, "page", IF settled \/ ~IsCurrent(op) THEN "gone" ELSE "confirming")
    /\ IF IsCurrent(op)
       THEN /\ saShown' = saOps[op].read /\ saBlind' = FALSE
            /\ saMut' = [saMut EXCEPT !.before = saOps[op].read,
                                      !.phase = IF settled THEN "confirmed" ELSE @]
       ELSE Ends(op, "none") /\ UNCHANGED <<saShown, saBlind>>
    /\ UNCHANGED <<saBackend, saActing, saScope, saSwitch, saCancelled, saLoose>>

\* The user answers; the flag is shown as wanted while the command runs.
Decide(op, yes) ==
    LET go == yes /\ IsCurrent(op)
        reconciling == saSwitch.step \in {"asking", "read", "failed"} IN
    /\ saOps[op].page = "confirming"
    /\ saOps' = [saOps EXCEPT ![op] = [@ EXCEPT !.page = IF go THEN "sent" ELSE "gone",
                                                !.cmd = IF go THEN "asked" ELSE saOps[op].cmd]]
    /\ saShown' = IF go THEN saOps[op].want ELSE saShown
    /\ IF go THEN UNCHANGED saMut ELSE Ends(op, "none")
    /\ saSwitch' = [saSwitch EXCEPT !.undone = @ \/ (~go /\ IsCurrent(op) /\ reconciling)]
    /\ UNCHANGED <<saBackend, saActing, saScope, saCancelled, saLoose, saBlind>>

\* run_cancellable_read registers the operation; a cancellation that came before is lost.
RegisterCommand(op) ==
    /\ saOps[op].cmd = "asked"
    /\ saOps' = SaSet(op, "cmd", "resolving")
    /\ saCancelled' = saCancelled \ {op}
    /\ UNCHANGED <<saBackend, saActing, saShown, saMut, saScope, saSwitch, saBlind, saLoose>>

\* The post is looked up for the account and the before hook runs; either may fail.
ResolveTarget(op, how) ==
    /\ saOps[op].cmd = "resolving" /\ how \in {"calling", "error"}
    /\ saOps' = SaSet(op, "cmd", how)
    /\ UNCHANGED <<saBackend, saPage, saLoose>>

\* The server acts, and its answer may be lost; or it refuses.
CallProvider(op, acts, told) ==
    /\ saOps[op].cmd = "calling"
    /\ saServer' = IF acts THEN [saServer EXCEPT ![OfOp(op)] = saOps[op].want] ELSE saServer
    /\ saOps' = SaSet(op, "cmd", IF acts /\ told THEN "acted" ELSE "error")
    /\ saLoose' = IF acts /\ ~told THEN saLoose \union {OfOp(op)} ELSE saLoose
    /\ UNCHANGED <<saCache, saEntry, saPage>>

\* The answer, which the after hook has seen, is saved for the account.
SaveViewerState(op, fails) ==
    /\ saOps[op].cmd = "acted"
    /\ saCache' = IF fails THEN saCache ELSE [saCache EXCEPT ![OfOp(op)] = saOps[op].want]
    /\ saOps' = SaSet(op, "cmd", IF fails THEN "error" ELSE "saved")
    /\ saLoose' = IF fails THEN saLoose \union {OfOp(op)} ELSE saLoose
    /\ UNCHANGED <<saServer, saEntry, saPage>>

\* The list of the account's favourites follows.
SaveEntry(op, fails) ==
    /\ saOps[op].cmd = "saved"
    /\ saEntry' = IF fails THEN saEntry ELSE [saEntry EXCEPT ![OfOp(op)] = saOps[op].want]
    /\ saOps' = SaSet(op, "cmd", IF fails THEN "error" ELSE "ok")
    /\ saLoose' = IF fails THEN saLoose \union {OfOp(op)} ELSE saLoose
    /\ UNCHANGED <<saServer, saCache, saPage>>

\* The cancellation drops the command where it waits; its server may have acted.
CancelCommand(op, acts) ==
    /\ op \in saCancelled /\ saOps[op].cmd \in {"resolving", "calling", "acted", "saved"}
    /\ acts => saOps[op].cmd = "calling"
    /\ saServer' = IF acts THEN [saServer EXCEPT ![OfOp(op)] = saOps[op].want] ELSE saServer
    /\ saOps' = SaSet(op, "cmd", "cancelled")
    /\ UNCHANGED <<saCache, saEntry, saPage, saLoose>>

\* The page takes the command's answer; a failed one takes the flag back.
TakeAnswer(op) ==
    /\ saOps[op].page = "sent" /\ saOps[op].cmd \in {"ok", "error", "cancelled"}
    /\ saOps' = SaSet(op, "page", "gone")
    /\ IF IsCurrent(op)
       THEN saShown' = IF saOps[op].cmd = "ok" THEN saOps[op].want ELSE saMut.before
       ELSE UNCHANGED saShown
    /\ Ends(op, IF saOps[op].cmd = "ok" THEN "confirmed" ELSE "failed")
    /\ UNCHANGED <<saBackend, saActing, saScope, saSwitch, saCancelled, saLoose, saBlind>>

\* The page loses the answer of a command that goes on: the result is uncertain.
LoseAnswer(op) ==
    /\ saOps[op].page = "sent"
    /\ saOps' = SaSet(op, "page", "gone") /\ Ends(op, "uncertain")
    /\ saLoose' = saLoose \union {OfOp(op)}
    /\ UNCHANGED <<saBackend, saActing, saShown, saScope, saSwitch, saCancelled, saBlind>>

\* switchAccount: what is pending is cancelled and taken back.
BeginSwitch(to) ==
    LET pending == saMut.phase = "pending" IN
    /\ saSwitch.step = "none" /\ to # saActing /\ saScope < SaSwitches
    /\ saScope' = saScope + 1
    /\ saSwitch' = [NoSwitch EXCEPT !.step = "asked", !.to = to]
    /\ saShown' = IF pending THEN saMut.before ELSE saShown
    /\ saMut' = IF pending THEN NoMut ELSE saMut
    /\ saCancelled' = IF pending THEN saCancelled \union {saMut.op} ELSE saCancelled
    /\ saLoose' = IF pending /\ saOps[saMut.op].page = "sent"
                  THEN saLoose \union {saActing} ELSE saLoose
    /\ UNCHANGED <<saBackend, saActing, saOps, saBlind>>

\* The backend changed the account, or did not.
SwitchAnswers(ok) ==
    /\ saSwitch.step = "asked"
    /\ saActing' = IF ok THEN saSwitch.to ELSE saActing
    /\ saSwitch' = IF ok THEN [saSwitch EXCEPT !.step = "asking", !.start = saMut.op] ELSE NoSwitch
    /\ saBlind' = (saBlind \/ ok)
    /\ UNCHANGED <<saBackend, saShown, saMut, saOps, saScope, saCancelled, saLoose>>

\* reconcileViewerStates reads the flags of the new account; what it cannot read is shown unset.
ReconcileReads(fails) ==
    /\ saSwitch.step = "asking"
    /\ saSwitch' = [saSwitch EXCEPT !.step = IF fails THEN "failed" ELSE "read",
                                    !.read = ~fails /\ saCache[saSwitch.to]]
    /\ UNCHANGED <<saBackend, saActing, saShown, saMut, saOps, saScope, saCancelled, saLoose,
                   saBlind>>

\* Mutant of Untouched: the flags read are shown whatever happened since.
UntouchedOrNot == saActing = saSwitch.to

\* A post that was acted on since keeps what that action shows.
Untouched == saActing = saSwitch.to /\ saMut.op = saSwitch.start

ReconcileShows ==
    /\ saSwitch.step \in {"read", "failed"}
    /\ saShown' = IF Untouched THEN saSwitch.read ELSE saShown
    /\ saBlind' = IF Untouched THEN saSwitch.step = "failed" \/ saSwitch.undone ELSE saBlind
    /\ saSwitch' = NoSwitch
    /\ UNCHANGED <<saBackend, saActing, saMut, saOps, saScope, saCancelled, saLoose>>

StatusActionsInit ==
    /\ saServer = [a \in SaAccts |-> FALSE]
    /\ saCache = saServer /\ saEntry = saServer
    /\ saActing = CHOOSE a \in SaAccts : TRUE
    /\ saShown = saCache[saActing] /\ saMut = NoMut
    /\ saOps = [o \in OpIds |-> [acct |-> saActing, want |-> FALSE, scope |-> 0,
                                 page |-> "unused", read |-> FALSE, cmd |-> "none"]]
    /\ saScope = 0 /\ saSwitch = NoSwitch
    /\ saCancelled = {} /\ saLoose = {} /\ saBlind = FALSE

OnPage(op) ==
    \/ ClickAction(op) \/ ViewerReadFails(op) \/ ApplyViewerState(op)
    \/ TakeAnswer(op) \/ LoseAnswer(op)
    \/ \E yes \in BOOLEAN : Decide(op, yes)

InBackend(op) ==
    \/ ReadViewerState(op) \/ RegisterCommand(op)
    \/ \E how \in {"calling", "error"} : ResolveTarget(op, how)
    \/ \E acts, told \in BOOLEAN : CallProvider(op, acts, told)
    \/ \E fails \in BOOLEAN : SaveViewerState(op, fails) \/ SaveEntry(op, fails)
    \/ \E acts \in BOOLEAN : CancelCommand(op, acts)

StatusActionsNext ==
    \/ \E op \in OpIds : OnPage(op) \/ InBackend(op)
    \/ \E to \in SaAccts : BeginSwitch(to)
    \/ \E ok \in BOOLEAN : SwitchAnswers(ok)
    \/ \E fails \in BOOLEAN : ReconcileReads(fails)
    \/ ReconcileShows

StatusActionsSpec == StatusActionsInit /\ [][StatusActionsNext]_saVars

CommandRuns(op) == saOps[op].cmd \in {"asked", "resolving", "calling", "acted", "saved"}

\* Once the page is at rest it shows the flag the acting account has, on its server, in the
\* cache and in its list, whatever accounts and actions came before.  Excepted are an account of
\* which an action was cut off, a flag the page has not managed to read since the account
\* changed, and an action declined while the flags of a new account are being read.
RestingFlagIsTrue ==
    saSwitch.step = "none" /\ saMut.phase # "pending" /\ ~saBlind /\ saActing \notin saLoose
    /\ (\A op \in OpIds : saOps[op].page \in {"unused", "gone"} /\ ~CommandRuns(op))
    => /\ saShown = saCache[saActing]
       /\ saCache[saActing] = saServer[saActing] /\ saEntry[saActing] = saCache[saActing]

-----------------------------------------------------------------------------
(***************************************************************************)
(* Deleting a post of one's own: delete_own_status (application/status.rs) *)
(* with the plugins' hooks around it, which may name another post, and     *)
(* delete_status_and_references (db/queries/statuses.rs), while the pages  *)
(* other readers fetched earlier are still being saved.                    *)
(*                                                                         *)
(* The post may be shown as another server knows it: "asked" is the copy   *)
(* the page shows, "own" the post on the server of the account.  "other"   *)
(* is a further post of the account.                                       *)
(***************************************************************************)
CONSTANTS PdRequests,            \* bound on the requests
          PdReads                \* bound on the rows other readers fetch

ASSUME PdAssumption == PdRequests \in Nat \ {0} /\ PdReads \in Nat

NoCopy == "none"
Mine == {"own", "other"}         \* posts on the server of the account
PdRows == (Mine \union {"asked"}) \X {"post", "boost"}

VARIABLES
    pdServer,      \* posts the server of the account has
    pdCache,       \* rows of statuses: the posts, and boosts of them
    pdPages,       \* rows of pages that are fetched and not yet saved
    pdLocal,       \* the page shows the post of the account's server itself
    pdKnown,       \* resolved_status_cache has the post
    pdState,       \* where the request is
    pdRemote,      \* remote_id
    pdHook,        \* hook_status: the post of the snapshot or of a hook, or none
    pdHooks,       \* the hooks that are registered: a subset of {"before", "after"}
    pdTargets,     \* targets left to clean up
    pdFailed,      \* required_cleanup_error
    pdReads,       \* rows fetched so far
    pdAsked,       \* requests so far
    pdSaved,       \* rows saved since the server deleted the post of this request
    pdLost         \* rows the requests removed though no server deleted anything

pdRequest == <<pdState, pdRemote, pdHook, pdHooks, pdTargets, pdFailed>>
pdVars == <<pdServer, pdCache, pdPages, pdReads, pdLocal, pdKnown, pdRequest, pdAsked, pdSaved, pdLost>>
pdData == <<pdServer, pdCache, pdPages, pdReads, pdLocal, pdSaved, pdLost>>

\* The copy on the account's own server of the post that is shown.
ShownCopy == IF pdLocal THEN "own" ELSE "asked"

\* Where a request ends early: nothing was changed.
RefuseDelete == /\ pdState' = "error"
           /\ UNCHANGED <<pdData, pdKnown, pdRemote, pdHook, pdHooks, pdTargets, pdFailed, pdAsked>>

\* The user asks, perhaps again; the set of hooks is that of the moment.
AskDelete(hooks) ==
    /\ pdState \in {"idle", "ok", "error"} /\ pdAsked < PdRequests
    /\ pdAsked' = pdAsked + 1 /\ pdState' = "resolving"
    /\ pdHooks' = hooks /\ pdHook' = NoCopy /\ pdRemote' = NoCopy
    /\ pdTargets' = <<>> /\ pdFailed' = FALSE /\ pdSaved' = {}
    /\ UNCHANGED <<pdServer, pdCache, pdPages, pdReads, pdLocal, pdKnown, pdLost>>

\* resolve_status_id_for_acting_account: directly, remembered, or looked up.
ResolveOwn ==
    /\ pdState = "resolving" /\ (pdLocal \/ pdKnown \/ "own" \in pdServer)
    /\ pdRemote' = "own" /\ pdKnown' = (pdKnown \/ ~pdLocal)
    /\ pdState' = IF pdHooks = {} THEN "deleting" ELSE "snapshot"
    /\ UNCHANGED <<pdData, pdHook, pdHooks, pdTargets, pdFailed, pdAsked>>

ResolveFails == pdState = "resolving" /\ RefuseDelete

\* What is remembered expires.
ForgetResolved == /\ pdKnown /\ pdKnown' = FALSE
                  /\ UNCHANGED <<pdData, pdRequest, pdAsked>>

\* classify_delete_hook_snapshot: only a hook that runs before needs the post.
TakeSnapshot(ok) ==
    /\ pdState = "snapshot" /\ (ok => pdRemote \in pdServer)
    /\ IF ~ok /\ "before" \in pdHooks THEN RefuseDelete
       ELSE /\ pdHook' = IF ok THEN pdRemote ELSE NoCopy
            /\ pdState' = IF "before" \in pdHooks THEN "before" ELSE "deleting"
            /\ UNCHANGED <<pdData, pdKnown, pdRemote, pdHooks, pdTargets, pdFailed,
                           pdAsked>>

\* run_status_hook_checked: the hook may fail, or name another post.
RunBeforeHook(post) ==
    /\ pdState = "before"
    /\ IF post = NoCopy THEN RefuseDelete
       ELSE /\ pdRemote' = post /\ pdHook' = post /\ pdState' = "deleting"
            /\ UNCHANGED <<pdData, pdKnown, pdHooks, pdTargets, pdFailed, pdAsked>>

\* Mutant of DeleteCleanupTargets: the copy that is shown is left out.
DeleteCleanupTargetsOf(hook) ==
    <<pdRemote>> \o (IF hook \in {NoCopy, pdRemote} THEN <<>> ELSE <<hook>>)

\* delete_cleanup_targets: the copy that is shown, what was deleted, what the hook named.
DeleteCleanupTargets(hook) ==
    LET required == <<ShownCopy>> \o (IF pdRemote = ShownCopy THEN <<>> ELSE <<pdRemote>>)
    IN required \o (IF hook \in {NoCopy, ShownCopy, pdRemote} THEN <<>> ELSE <<hook>>)

Required == {ShownCopy, pdRemote}

\* Mutant of Deletes: a failure of the provider is passed over.
DeletesAnyhow(ok) == TRUE

\* delete_status of the provider.
Deletes(ok) == ok

CallDelete(ok) ==
    /\ pdState = "deleting" /\ (ok => pdRemote \in pdServer)
    /\ IF ~Deletes(ok) THEN RefuseDelete
       ELSE /\ pdServer' = IF ok THEN pdServer \ {pdRemote} ELSE pdServer
            /\ pdState' = "after" /\ pdSaved' = {}
            /\ UNCHANGED <<pdCache, pdPages, pdReads, pdLocal, pdKnown, pdRemote, pdHook, pdHooks,
                           pdTargets, pdFailed, pdAsked, pdLost>>

\* The provider deleted the post and its answer was lost.
LoseDeleteAnswer ==
    /\ pdState = "deleting" /\ pdRemote \in pdServer /\ pdServer' = pdServer \ {pdRemote}
    /\ pdState' = "error"
    /\ UNCHANGED <<pdCache, pdPages, pdReads, pdLocal, pdKnown, pdRemote, pdHook, pdHooks,
                   pdTargets,
                   pdFailed, pdAsked, pdSaved, pdLost>>

\* run_after_status_hook: a hook that fails leaves the post as it was.
RunAfterHook(post) ==
    LET hook == IF "after" \in pdHooks /\ pdHook # NoCopy /\ post # NoCopy THEN post ELSE pdHook
    IN /\ pdState = "after" /\ pdState' = "cleaning"
       /\ pdHook' = hook /\ pdTargets' = DeleteCleanupTargets(hook)
       /\ UNCHANGED <<pdData, pdKnown, pdRemote, pdHooks, pdFailed, pdAsked>>

\* delete_status_and_references: a post and the boosts of it.
CleanedRows(post) == {post} \X {"post", "boost"}

\* One target; a failure is told only when the target is one of the first two.
CleanTarget(ok) ==
    LET target == Head(pdTargets)
        gone == IF ok THEN CleanedRows(target) ELSE {} IN
    /\ pdState = "cleaning" /\ pdTargets # <<>>
    /\ pdCache' = pdCache \ gone /\ pdSaved' = pdSaved \ gone
    /\ pdLost' = pdLost \union {row \in pdCache \intersect gone : Mine \subseteq pdServer}
    /\ pdFailed' = (pdFailed \/ (~ok /\ target \in Required))
    /\ pdTargets' = Tail(pdTargets)
    /\ UNCHANGED <<pdServer, pdPages, pdReads, pdLocal, pdKnown, pdState, pdRemote, pdHook, pdHooks,
                   pdAsked>>

AnswerDelete ==
    /\ pdState = "cleaning" /\ pdTargets = <<>>
    /\ pdState' = IF pdFailed THEN "error" ELSE "ok"
    /\ UNCHANGED <<pdData, pdKnown, pdRemote, pdHook, pdHooks, pdTargets, pdFailed,
                   pdAsked>>

\* Other readers fetch what a server still has, one row at a time, and save it later. The
\* server of the shown copy may hear of the deletion late.
FetchRow(row) ==
    /\ pdPages = {} /\ row[1] \in pdServer \union {ShownCopy}
    /\ (row[1] = "own" => "own" \in pdServer)
    /\ pdReads < PdReads /\ pdReads' = pdReads + 1 /\ pdPages' = {row}
    /\ UNCHANGED <<pdServer, pdCache, pdLocal, pdKnown, pdRequest, pdAsked, pdSaved, pdLost>>

SaveRow ==
    /\ pdPages # {} /\ pdPages' = {} /\ pdCache' = pdCache \union pdPages
    /\ pdSaved' = pdSaved \union pdPages
    /\ UNCHANGED <<pdServer, pdReads, pdLocal, pdKnown, pdRequest, pdAsked, pdLost>>

PostDeletionInit ==
    /\ pdServer = Mine /\ pdLocal \in BOOLEAN
    /\ pdCache = {row \in PdRows : pdLocal => row[1] # "asked"}
    /\ pdPages = {} /\ pdReads = 0 /\ pdKnown = FALSE /\ pdState = "idle" /\ pdRemote = NoCopy
    /\ pdHook = NoCopy /\ pdHooks = {} /\ pdTargets = <<>>
    /\ pdFailed = FALSE /\ pdAsked = 0 /\ pdSaved = {} /\ pdLost = {}

PostDeletionNext ==
    \/ \E hooks \in SUBSET {"before", "after"} : AskDelete(hooks)
    \/ ResolveOwn \/ ResolveFails \/ ForgetResolved
    \/ \E ok \in BOOLEAN : TakeSnapshot(ok) \/ CallDelete(ok) \/ CleanTarget(ok)
    \/ LoseDeleteAnswer \/ AnswerDelete \/ SaveRow
    \/ \E post \in Mine \union {NoCopy} : RunBeforeHook(post) \/ RunAfterHook(post)
    \/ \E row \in PdRows : FetchRow(row)

PostDeletionSpec == PostDeletionInit /\ [][PostDeletionNext]_pdVars

\* After a deletion that answered well neither the copy that was shown nor the post that was
\* deleted is in the cache, and no boost of them, however the hooks renamed the post; what a
\* page fetched earlier saves after the clean-up is excepted.
DeletedIsNotCached ==
    pdState = "ok" => \A row \in pdCache \ pdSaved : row[1] \notin {ShownCopy, pdRemote}

\* A post leaves the cache only when the server of the account has deleted one: whatever
\* fails before the provider acted changes nothing here.
RefusedDeletesNothing == pdLost = {}

\* What is done to a post of the page (status.rs, statusMutationActions.ts): a flag at rest is
\* that of the acting account, and a deletion removes what the server deleted and no more.
ActionsAreTrue == RestingFlagIsTrue /\ DeletedIsNotCached /\ RefusedDeletesNothing
=============================================================================
