---------------------------- MODULE PluginActor ----------------------------
(***************************************************************************)
(* The plugin runtime: plugins/manager.rs and the tokens of                *)
(* plugins/mod.rs.  One thread owns every JavaScript context and serves a  *)
(* bounded queue; callers wait for a reply with a deadline.                *)
(*                                                                         *)
(* There is one hook.  Time is counted in units of the actor's margin.     *)
(* Nothing interrupts JavaScript that is running: a deadline is looked at  *)
(* between its turns and after it (check_runtime_control).                 *)
(***************************************************************************)
EXTENDS Integers, Sequences, FiniteSets

CONSTANTS PluginCount,      \* plugins are numbered in the order of their file names
          CallbackBudget,   \* PLUGIN_CALLBACK_DEADLINE_MS
          QueueCapacity,    \* COMMAND_QUEUE_CAPACITY
          MaxNow,           \* bound: the clock
          MaxAsks,          \* bound: commands, and runtimes poisoned in the background
          MaxLoads          \* bound: generations

ASSUME PluginAssumption == {PluginCount, CallbackBudget, QueueCapacity} \subseteq Nat

VARIABLES
    plugFiles,    \* files in the plugin directory
    plugRecs,     \* plugins: the record of every discovered plugin
    plugRev,      \* revision
    plugNextGen,  \* next_generation
    plugQueue,    \* commands waiting
    plugActor,    \* the command being handled
    plugCalls,    \* caller -> what it waits for
    plugStop,     \* stop
    plugNow,
    plugAsks      \* commands, and runtimes poisoned in the background, so far

plugVars == <<plugFiles, plugRecs, plugRev, plugNextGen, plugQueue, plugActor, plugCalls,
              plugStop, plugNow, plugAsks>>

PluginIds == 1..PluginCount
Callers == {"post", "user"}

\* A context is known by the generation it was loaded under; 0 when there is none.
NoRuntime == [gen |-> 0, hook |-> FALSE]
NewRecord == [known |-> TRUE, gen |-> 0, state |-> "unloaded", runtime |-> NoRuntime]
NoRecord == [NewRecord EXCEPT !.known = FALSE]

Hooked(p) == plugRecs[p].runtime.hook
HasRuntime(p) == plugRecs[p].runtime.gen # 0
\* The code that implements the hook now.
HookSet == {<<p, plugRecs[p].runtime.gen>> : p \in {q \in PluginIds : Hooked(q)}}

\* A command: who waits until when, when it must start and finish, its plugin, and what it
\* was based on: the revision of a token and the hooks then, or the generation of a button.
Command(who, kind, p, rev, had, gen, reply, work) ==
    [who |-> who, kind |-> kind, plugin |-> p, rev |-> rev, had |-> had, gen |-> gen,
     at |-> plugNow, until |-> plugNow + reply,
     finishes |-> plugNow + reply - 1, starts |-> plugNow + reply - 1 - work]

QuickReply == CallbackBudget + 1
CallbackReply == 2 * CallbackBudget + 1

IdleActor == [on |-> FALSE, phase |-> "idle", cmd |-> [kind |-> "none"], todo |-> 0,
              busy |-> 0, began |-> 0, until |-> 0, ran |-> {}]
Quiet == [pc |-> "idle", at |-> 0, until |-> 0, rev |-> 0, had |-> {}, missed |-> {}]

-----------------------------------------------------------------------------
(***************************************************************************)
(* Callers.                                                                *)
(***************************************************************************)

\* Mutant of Enqueue: a command may start as long as its caller waits.
EnqueueLate(cmd) ==
    /\ ~plugStop \/ plugActor.on
    /\ Len(plugQueue) < QueueCapacity
    /\ plugQueue' = Append(plugQueue, [cmd EXCEPT !.starts = cmd.until])

\* enqueue: refused when the queue is full or the thread is gone.
Enqueue(cmd) ==
    /\ ~plugStop \/ plugActor.on
    /\ Len(plugQueue) < QueueCapacity
    /\ plugQueue' = Append(plugQueue, cmd)

Waits(c, cmd) ==
    /\ Enqueue(cmd)
    /\ plugAsks < MaxAsks
    /\ plugAsks' = plugAsks + 1
    /\ plugCalls' = [plugCalls EXCEPT ![c] = [@ EXCEPT !.pc = "waits", !.at = plugNow,
                                                      !.until = cmd.until]]
    /\ UNCHANGED <<plugFiles, plugRecs, plugRev, plugNextGen, plugActor, plugStop, plugNow>>

\* hook_token, before the rest of a mutation is prepared.
AskToken ==
    /\ plugCalls["post"].pc = "idle"
    /\ Waits("post", Command("post", "token", 0, 0, {}, 0, QuickReply, 0))

\* run_hook_checked with the token.
RunHookChecked ==
    LET call == plugCalls["post"] IN
    /\ call.pc = "holds"
    /\ Waits("post", Command("post", "checked", 0, call.rev, call.had, 0,
                             CallbackReply, CallbackBudget))

\* run_hook_best_effort after the provider has accepted.
RunHookBestEffort ==
    /\ plugCalls["post"].pc = "ran"
    /\ Waits("post", Command("post", "after", 0, 0, {}, 0, CallbackReply, CallbackBudget))

\* reload_all, reload_plugin and unload_plugin.
AskReloadAll ==
    /\ plugCalls["user"].pc = "idle"
    /\ Waits("user", Command("user", "reload_all", 0, 0, {}, 0, CallbackReply, CallbackBudget))

AskReload(p) ==
    /\ plugCalls["user"].pc = "idle"
    /\ Waits("user", Command("user", "reload", p, 0, {}, 0, CallbackReply, CallbackBudget))

AskUnload(p) ==
    /\ plugCalls["user"].pc = "idle"
    /\ Waits("user", Command("user", "unload", p, 0, {}, 0, QuickReply, 0))

\* snapshot lists the buttons of the code that is loaded ...
AskSnapshot ==
    /\ plugCalls["user"].pc = "idle"
    /\ Waits("user", Command("user", "snapshot", 0, 0, {}, 0, QuickReply, 0))

\* ... and invoke_compose_button presses one of them, whenever the user does.
PressButton ==
    \E button \in plugCalls["user"].had :
        /\ plugCalls["user"].pc = "idle"
        /\ Waits("user", Command("user", "button", button[1], 0, {}, button[2],
                                 CallbackReply, CallbackBudget))

\* receive_result times out.
GiveUp(c) ==
    /\ plugCalls[c].pc = "waits"
    /\ plugNow >= plugCalls[c].until
    /\ plugCalls' = [plugCalls EXCEPT ![c] = [@ EXCEPT !.pc = "idle", !.at = 0, !.until = 0]]
    /\ UNCHANGED <<plugFiles, plugRecs, plugRev, plugNextGen, plugQueue, plugActor, plugStop,
                   plugNow, plugAsks>>

\* A reply reaches its caller if that one still waits; state gives what the reply brings.
Answer(cmd, state) ==
    IF plugCalls[cmd.who].pc = "waits" /\ plugCalls[cmd.who].at = cmd.at
    THEN [plugCalls EXCEPT ![cmd.who] = [state EXCEPT !.at = 0, !.until = 0]]
    ELSE plugCalls

Fails(cmd) == Answer(cmd, [plugCalls[cmd.who] EXCEPT !.pc = "idle"])

-----------------------------------------------------------------------------
(***************************************************************************)
(* Records.                                                                *)
(***************************************************************************)

\* Mutant of Poisoned: the context stays.
PoisonedStays(record) == [record EXCEPT !.gen = @ + 1, !.state = "error"]

\* poison_runtime: the code is dropped, its buttons are stale.
Poisoned(record) ==
    [record EXCEPT !.runtime = NoRuntime, !.gen = @ + 1, !.state = "error"]

\* stop_runtime under a new generation.
Unloaded(record, gen) ==
    [record EXCEPT !.runtime = NoRuntime, !.gen = gen, !.state = "unloaded"]

\* reload_plugin_inner after PluginRuntime::load.
LoadedAs(record, gen, hook) ==
    [record EXCEPT !.runtime = [gen |-> gen, hook |-> hook], !.gen = gen, !.state = "loaded"]

-----------------------------------------------------------------------------
(***************************************************************************)
(* The thread.                                                             *)
(***************************************************************************)

\* The command leaves the queue: rejected if it cannot start in time or the thread stops.
Receive ==
    /\ plugActor.on /\ plugActor.phase = "idle" /\ plugQueue # <<>>
    /\ LET cmd == Head(plugQueue) IN
       IF plugStop \/ plugNow >= cmd.starts
       THEN /\ plugCalls' = Fails(cmd)
            /\ UNCHANGED plugActor
       ELSE /\ plugActor' = [plugActor EXCEPT !.phase = "handle", !.cmd = cmd, !.todo = 1,
                                              !.ran = {}]
            /\ UNCHANGED plugCalls
    /\ plugQueue' = Tail(plugQueue)
    /\ UNCHANGED <<plugFiles, plugRecs, plugRev, plugNextGen, plugStop, plugNow, plugAsks>>

Handles(kind) == plugActor.phase = "handle" /\ plugActor.cmd.kind = kind /\ plugActor.busy = 0

Free == [plugActor EXCEPT !.phase = "idle", !.cmd = [kind |-> "none"], !.busy = 0, !.began = 0,
                          !.until = 0, !.ran = {}]

\* handle: HookToken and Snapshot.
HandleToken ==
    /\ Handles("token")
    /\ plugCalls' = Answer(plugActor.cmd,
                        [plugCalls["post"] EXCEPT !.pc = IF HookSet = {} THEN "ran" ELSE "holds",
                                                  !.rev = plugRev, !.had = HookSet])
    /\ plugActor' = Free
    /\ UNCHANGED <<plugFiles, plugRecs, plugRev, plugNextGen, plugQueue, plugStop,
                   plugNow, plugAsks>>

HandleSnapshot ==
    /\ Handles("snapshot")
    /\ plugCalls' = Answer(plugActor.cmd,
                        [plugCalls["user"] EXCEPT !.pc = "idle",
                            !.had = {<<p, plugRecs[p].runtime.gen>> :
                                        p \in {q \in PluginIds : HasRuntime(q)}}])
    /\ plugActor' = Free
    /\ UNCHANGED <<plugFiles, plugRecs, plugRev, plugNextGen, plugQueue, plugStop,
                   plugNow, plugAsks>>

\* unload_plugin_inner; an unknown plugin is an error.
HandleUnload ==
    LET p == plugActor.cmd.plugin IN
    /\ Handles("unload")
    /\ plugNextGen' = plugNextGen + 1
    /\ IF plugRecs[p].known
       THEN /\ plugRecs' = [plugRecs EXCEPT ![p] = Unloaded(@, plugNextGen)]
            /\ plugRev' = plugRev + 1
       ELSE UNCHANGED <<plugRecs, plugRev>>
    /\ plugCalls' = Fails(plugActor.cmd)
    /\ plugActor' = Free
    /\ UNCHANGED <<plugFiles, plugQueue, plugStop,
                   plugNow, plugAsks>>

\* Code of plugin p starts: a callback, which counts only if it is over before its deadline,
Starts(p, until) == plugActor' = [plugActor EXCEPT !.busy = p, !.began = plugNow, !.until = until]

\* or a module, whose evaluation has no deadline.
Loads(p) == Starts(p, 0)

\* Command::RunHookChecked: a token of another revision, or without a hook left, is stale.
\* The first pass decides, later ones go on.
TokenStale ==
    /\ Handles("checked") /\ plugActor.todo = 1
    /\ plugActor.cmd.rev # plugRev \/ HookSet = {}
    /\ plugCalls' = Fails(plugActor.cmd)
    /\ plugActor' = Free
    /\ UNCHANGED <<plugFiles, plugRecs, plugRev, plugNextGen, plugQueue, plugStop,
                   plugNow, plugAsks>>

\* Mutant of HookMayRun: the token is not looked at.
HookMayRunAlways ==
    \/ Handles("checked")
    \/ Handles("after")

HookMayRun ==
    \/ Handles("checked") /\ (plugActor.todo > 1 \/ (plugActor.cmd.rev = plugRev /\ HookSet # {}))
    \/ Handles("after")

\* ensure_hook_callback_budget.
HookBudgetLeft == plugActor.cmd.finishes - plugNow >= CallbackBudget

\* run_hook_inner and run_hook_best_effort_inner: the next plugin with the hook is called ...
HookStep ==
    /\ HookMayRun
    /\ plugActor.todo <= PluginCount
    /\ IF Hooked(plugActor.todo)
       THEN /\ HookBudgetLeft
            /\ Starts(plugActor.todo, plugNow + CallbackBudget)
       ELSE plugActor' = [plugActor EXCEPT !.todo = @ + 1]
    /\ UNCHANGED <<plugFiles, plugRecs, plugRev, plugNextGen, plugQueue, plugCalls, plugStop,
                   plugNow, plugAsks>>

\* ... and without the time for it a strict chain fails, a best-effort one ends early.
HookOutOfBudget ==
    /\ HookMayRun
    /\ plugActor.todo <= PluginCount
    /\ Hooked(plugActor.todo) /\ ~HookBudgetLeft
    /\ plugCalls' = Fails(plugActor.cmd)
    /\ plugActor' = Free
    /\ UNCHANGED <<plugFiles, plugRecs, plugRev, plugNextGen, plugQueue, plugStop,
                   plugNow, plugAsks>>

\* The chain is through: the caller goes on with the result.
HookDone ==
    LET cmd == plugActor.cmd IN
    /\ HookMayRun
    /\ plugActor.todo > PluginCount
    /\ plugCalls' = Answer(cmd, [plugCalls["post"] EXCEPT
                        !.pc = IF cmd.kind = "checked" THEN "ran" ELSE "idle",
                        !.missed = {h \in cmd.had \ plugActor.ran : plugRecs[h[1]].known}])
    /\ plugActor' = Free
    /\ UNCHANGED <<plugFiles, plugRecs, plugRev, plugNextGen, plugQueue, plugStop,
                   plugNow, plugAsks>>

\* Mutant of HandleButton: the generation is not compared.
HandleButtonAnyGeneration ==
    LET cmd == plugActor.cmd
        record == plugRecs[cmd.plugin]
    IN
    /\ Handles("button")
    /\ IF record.known /\ HasRuntime(cmd.plugin)
       THEN /\ Starts(cmd.plugin, IF plugNow + CallbackBudget < cmd.finishes
                                  THEN plugNow + CallbackBudget ELSE cmd.finishes)
            /\ UNCHANGED plugCalls
       ELSE plugCalls' = Fails(cmd) /\ plugActor' = Free
    /\ UNCHANGED <<plugFiles, plugRecs, plugRev, plugNextGen, plugQueue, plugStop,
                   plugNow, plugAsks>>

\* invoke_compose_button_inner: a stale generation is refused.
HandleButton ==
    LET cmd == plugActor.cmd
        record == plugRecs[cmd.plugin]
    IN
    /\ Handles("button")
    /\ IF record.known /\ record.gen = cmd.gen /\ HasRuntime(cmd.plugin)
       THEN /\ Starts(cmd.plugin, IF plugNow + CallbackBudget < cmd.finishes
                                  THEN plugNow + CallbackBudget ELSE cmd.finishes)
            /\ UNCHANGED plugCalls
       ELSE plugCalls' = Fails(cmd) /\ plugActor' = Free
    /\ UNCHANGED <<plugFiles, plugRecs, plugRev, plugNextGen, plugQueue, plugStop,
                   plugNow, plugAsks>>

\* A callback returns in time: a hook chain goes to the next plugin, a button answers.
CallbackReturns ==
    LET p == plugActor.busy
        cmd == plugActor.cmd
    IN
    /\ p # 0 /\ cmd.kind \in {"checked", "after", "button"}
    /\ plugNow < plugActor.until /\ ~plugStop
    /\ IF cmd.kind = "button"
       THEN plugCalls' = Fails(cmd) /\ plugActor' = Free
       ELSE /\ plugActor' = [plugActor EXCEPT !.busy = 0, !.todo = @ + 1,
                                !.ran = @ \union {<<p, plugRecs[p].runtime.gen>>}]
            /\ UNCHANGED plugCalls
    /\ UNCHANGED <<plugFiles, plugRecs, plugRev, plugNextGen, plugQueue, plugStop,
                   plugNow, plugAsks>>

\* A callback fails: a limit (always from its deadline on and at a stop) poisons the runtime,
\* which is a change of the plugin set; a strict chain and a button fail, a best-effort one goes on.
CallbackFails ==
    LET p == plugActor.busy
        cmd == plugActor.cmd
    IN
    /\ p # 0 /\ cmd.kind \in {"checked", "after", "button"}
    /\ \E limit \in {l \in BOOLEAN : (plugNow >= plugActor.until \/ plugStop) => l} :
          IF limit
          THEN /\ plugRecs' = [plugRecs EXCEPT ![p] = Poisoned(@)]
               /\ plugRev' = plugRev + 1
          ELSE UNCHANGED <<plugRecs, plugRev>>
    /\ IF cmd.kind = "after"
       THEN /\ plugActor' = [plugActor EXCEPT !.busy = 0, !.todo = @ + 1]
            /\ UNCHANGED plugCalls
       ELSE plugCalls' = Fails(cmd) /\ plugActor' = Free
    /\ UNCHANGED <<plugFiles, plugNextGen, plugQueue, plugStop,
                   plugNow, plugAsks>>

\* reload_all_inner scans the directory, which takes time, ...
Discover ==
    /\ Handles("reload_all") /\ plugActor.todo = 1 /\ plugActor.ran = {}
    /\ plugRecs' = [p \in PluginIds |->
                       IF p \notin plugFiles THEN NoRecord
                       ELSE IF plugRecs[p].known THEN plugRecs[p] ELSE NewRecord]
    /\ plugActor' = [plugActor EXCEPT !.ran = {<<0, 0>>}]
    /\ UNCHANGED <<plugFiles, plugRev, plugNextGen, plugQueue, plugCalls, plugStop,
                   plugNow, plugAsks>>

\* ... then reloads every plugin while there is time for one more.
ReloadAllStep ==
    /\ Handles("reload_all") /\ plugActor.ran # {}
    /\ plugActor.todo <= PluginCount
    /\ IF ~plugRecs[plugActor.todo].known
       THEN /\ plugActor' = [plugActor EXCEPT !.todo = @ + 1]
            /\ UNCHANGED <<plugRecs, plugNextGen, plugCalls>>
       ELSE IF plugStop \/ plugActor.cmd.finishes - plugNow < CallbackBudget
       THEN /\ plugCalls' = Fails(plugActor.cmd)
            /\ plugActor' = Free
            /\ UNCHANGED <<plugRecs, plugNextGen>>
       ELSE /\ plugRecs' = [plugRecs EXCEPT ![plugActor.todo] = Unloaded(@, plugNextGen)]
            /\ plugNextGen' = plugNextGen + 1
            /\ Loads(plugActor.todo)
            /\ UNCHANGED plugCalls
    /\ UNCHANGED <<plugFiles, plugRev, plugQueue, plugStop,
                   plugNow, plugAsks>>

ReloadAllDone ==
    /\ Handles("reload_all") /\ plugActor.ran # {}
    /\ plugActor.todo > PluginCount
    /\ plugRev' = plugRev + 1
    /\ plugCalls' = Fails(plugActor.cmd)
    /\ plugActor' = Free
    /\ UNCHANGED <<plugFiles, plugRecs, plugNextGen, plugQueue, plugStop,
                   plugNow, plugAsks>>

\* reload_plugin_inner until its module is evaluated.
HandleReload ==
    LET p == plugActor.cmd.plugin IN
    /\ Handles("reload")
    /\ plugNextGen' = plugNextGen + 1
    /\ IF plugRecs[p].known
       THEN /\ plugRecs' = [plugRecs EXCEPT ![p] = Unloaded(@, plugNextGen)]
            /\ Loads(p)
            /\ UNCHANGED plugCalls
       ELSE /\ plugCalls' = Fails(plugActor.cmd)
            /\ plugActor' = Free
            /\ UNCHANGED plugRecs
    /\ UNCHANGED <<plugFiles, plugRev, plugQueue, plugStop,
                   plugNow, plugAsks>>

\* PluginRuntime::load ends: the module is there, or its file is gone, it is not valid or its
\* promise runs out of time.  That time begins when the evaluation is over, however long it
\* took, and is not the caller's; so when a load ends, well or badly, is open.
LoadEnds ==
    LET p == plugActor.busy IN
    /\ p # 0 /\ plugActor.cmd.kind \in {"reload", "reload_all"}
    /\ \/ /\ p \in plugFiles /\ ~plugStop
          /\ \E hook \in BOOLEAN :
                plugRecs' = [plugRecs EXCEPT ![p] = LoadedAs(@, plugRecs[p].gen, hook)]
       \/ plugRecs' = [plugRecs EXCEPT ![p].state = "error"]
    /\ plugRev' = plugRev + 1
    /\ IF plugActor.cmd.kind = "reload"
       THEN plugCalls' = Fails(plugActor.cmd) /\ plugActor' = Free
       ELSE /\ plugActor' = [plugActor EXCEPT !.busy = 0, !.todo = @ + 1]
            /\ UNCHANGED plugCalls
    /\ UNCHANGED <<plugFiles, plugNextGen, plugQueue, plugStop,
                   plugNow, plugAsks>>

\* pump_one_event_loop: background jobs of idle plugins may exceed their limits too.
PumpPoisons ==
    /\ plugActor.on /\ plugActor.phase = "idle" /\ plugQueue = <<>> /\ ~plugStop
    /\ \E p \in PluginIds :
          /\ HasRuntime(p)
          /\ plugRecs' = [plugRecs EXCEPT ![p] = Poisoned(@)]
    /\ plugAsks < MaxAsks
    /\ plugAsks' = plugAsks + 1
    /\ plugRev' = plugRev + 1
    /\ UNCHANGED <<plugFiles, plugNextGen, plugQueue, plugActor, plugCalls, plugStop, plugNow>>

\* shutdown sets the flag; the thread drains the queue and unloads everything.
Shutdown ==
    /\ ~plugStop
    /\ plugStop' = TRUE
    /\ UNCHANGED <<plugFiles, plugRecs, plugRev, plugNextGen, plugQueue, plugActor, plugCalls,
                   plugNow, plugAsks>>

ActorEnds ==
    /\ plugStop /\ plugActor.on /\ plugActor.phase = "idle" /\ plugQueue = <<>>
    /\ plugActor' = [plugActor EXCEPT !.on = FALSE]
    /\ plugRecs' = [p \in PluginIds |-> [plugRecs[p] EXCEPT !.runtime = NoRuntime,
                                                            !.state = "unloaded"]]
    /\ UNCHANGED <<plugFiles, plugRev, plugNextGen, plugQueue, plugCalls, plugStop,
                   plugNow, plugAsks>>

\* The user removes a file.
FilesChange ==
    /\ plugFiles = PluginIds /\ plugAsks < MaxAsks
    /\ \E p \in PluginIds : plugFiles' = plugFiles \ {p}
    /\ UNCHANGED <<plugRecs, plugRev, plugNextGen, plugQueue, plugActor, plugCalls, plugStop,
                   plugNow, plugAsks>>

\* Time passes in JavaScript, as long as it likes, in the scan of the directory and while the
\* thread waits.  Only the time somebody waits matters.
PluginTick ==
    /\ plugNow < MaxNow
    /\ \E c \in Callers : plugCalls[c].pc = "waits"
    /\ plugActor.phase = "idle" \/ plugActor.busy # 0 \/ plugActor.cmd.kind = "reload_all"
    /\ plugNow' = plugNow + 1
    /\ UNCHANGED <<plugFiles, plugRecs, plugRev, plugNextGen, plugQueue, plugActor, plugCalls,
                   plugStop, plugAsks>>

-----------------------------------------------------------------------------

\* PluginActor::run after the first reload_all_inner.
PluginInit ==
    /\ plugFiles = PluginIds
    /\ plugRecs = [p \in PluginIds |-> LoadedAs(NewRecord, p, TRUE)]
    /\ plugRev = 1
    /\ plugNextGen = PluginCount + 1
    /\ plugQueue = <<>>
    /\ plugActor = [IdleActor EXCEPT !.on = TRUE]
    /\ plugCalls = [c \in Callers |-> Quiet]
    /\ plugStop = FALSE
    /\ plugNow = 0
    /\ plugAsks = 0

PluginNext ==
    \/ AskToken \/ RunHookChecked \/ RunHookBestEffort
    \/ AskReloadAll \/ AskSnapshot \/ PressButton
    \/ \E p \in PluginIds : AskReload(p) \/ AskUnload(p)
    \/ \E c \in Callers : GiveUp(c)
    \/ Receive
    \/ HandleToken \/ HandleSnapshot \/ HandleButton
    \/ TokenStale \/ HookStep \/ HookOutOfBudget \/ HookDone
    \/ CallbackReturns \/ CallbackFails
    \/ plugNextGen <= MaxLoads /\ (HandleUnload \/ HandleReload \/ ReloadAllStep)
    \/ Discover \/ ReloadAllDone \/ LoadEnds
    \/ PumpPoisons \/ Shutdown \/ ActorEnds \/ FilesChange \/ PluginTick

PluginSpec == PluginInit /\ [][PluginNext]_plugVars

-----------------------------------------------------------------------------

\* The plugin set and the thread have their types, and the queue its capacity.
PluginTypeOK ==
    /\ plugFiles \subseteq PluginIds
    /\ \A p \in PluginIds :
          /\ plugRecs[p].state \in {"loaded", "unloaded", "error"}
          /\ HasRuntime(p) <=> plugRecs[p].state = "loaded"
          /\ HasRuntime(p) => plugRecs[p].known /\ plugRecs[p].gen = plugRecs[p].runtime.gen
    /\ Len(plugQueue) <= QueueCapacity
    /\ plugActor.todo \in 0..PluginCount + 1
    /\ plugActor.busy \in 0..PluginCount

\* "reload/unload cannot silently bypass a hook" (hook_token): a checked chain that
\* succeeds has run the very code that had the hook when the token was taken, unless the
\* plugin's file was removed.
CheckedHookNeverBypassed == plugCalls["post"].missed = {}

\* Nothing is started for a caller who has given up, and what still runs for one has outrun its
\* budget: JavaScript that does not return cannot be stopped (docs/security/plugin-runtime.md),
\* but a callback or a load that keeps to its time, behind whatever waited in the queue or ran
\* before it in the chain, is over before its caller is told that it timed out.
LateWorkIsOverrun ==
    plugActor.busy # 0 /\ plugNow >= plugActor.cmd.until => plugNow > plugActor.began + CallbackBudget

\* "old generations" (docs/plugin-api.md): a button runs the code it was listed with,
\* whatever was reloaded, unloaded or poisoned since.
ButtonRunsItsOwnCode ==
    plugActor.busy # 0 /\ plugActor.cmd.kind = "button" =>
        plugRecs[plugActor.busy].runtime.gen = plugActor.cmd.gen

\* What plugins/manager.rs keeps through reloads, removals, expiries and time-outs: a check
\* hook is never passed by, only code that outran its budget runs for a caller that gave up, and
\* a button runs the code it was drawn by.
HooksAndButtonsAreTrue ==
    PluginTypeOK /\ CheckedHookNeverBypassed /\ LateWorkIsOverrun /\ ButtonRunsItsOwnCode
=============================================================================
