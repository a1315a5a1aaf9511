-------------------------- MODULE MCServicesLive --------------------------
(***************************************************************************)
(* What the background services eventually do.  They share no state: part  *)
(* is the one that moves.                                                  *)
(***************************************************************************)
EXTENDS CollectionSync, SearchEngine, PluginJobs, WebviewHealth, MisskeySocket

VARIABLE part

MCIxDocs == {<<"status", 1>>, <<"account", 1>>}

Init ==
    /\ part \in {"sync", "search", "merge", "plugin_jobs",
                "health",
                "socket"}
    /\ SyncInit
    /\ SearchInit /\ (part # "search" => \A d \in IxDocs : srcText[d] = 0)
    /\ MergeInit /\ (part # "merge" => \A t \in Targets : segs[t] = 0)
    /\ JobsInit
    /\ HealthInit
    /\ SocketInit

\* The other parts stand still.
Only(p) ==
    /\ part = p /\ UNCHANGED part
    /\ IF p = "sync" THEN TRUE ELSE UNCHANGED syncVars
    /\ IF p = "search" THEN TRUE ELSE UNCHANGED ixVars
    /\ IF p = "merge" THEN TRUE ELSE UNCHANGED mergeVars
    /\ IF p = "plugin_jobs" THEN TRUE ELSE UNCHANGED jobVars
    /\ IF p = "health" THEN TRUE ELSE UNCHANGED hwVars
    /\ IF p = "socket" THEN TRUE ELSE UNCHANGED mkVars

Next ==
    \/ Only("sync") /\ SyncNext
    \/ Only("search") /\ SearchNext
    \/ Only("merge") /\ MergeNext
    \/ Only("plugin_jobs") /\ JobsNext
    \/ Only("health") /\ HealthNext
    \/ Only("socket") /\ SocketNext

vars == <<part, syncVars, ixVars, mergeVars, jobVars,
          hwVars,
          mkVars>>

\* Requests have timeouts, transactions end, and tokio polls every task and
\* fires its timers.
Fairness ==
    /\ WF_syncVars(part = "sync" /\ SyncRun)
    /\ WF_ixVars(part = "search" /\ Interactive)
    /\ \A w \in IxWorkers : WF_ixVars(part = "search" /\ WorkerTurn(w))
    /\ WF_mergeVars(part = "merge" /\ RunStep)
    /\ WF_jobVars(part = "plugin_jobs" /\ JobThread)
    /\ SF_jobVars(part = "plugin_jobs" /\ JobTick)
    /\ WF_hwVars(part = "health" /\ HealthTick)
    /\ WF_mkVars(part = "socket" /\ SocketTask)
    /\ WF_mkVars(part = "socket" /\ Consume)

Spec == Init /\ [][Next]_vars /\ Fairness

\* The search index: what was written is indexed once the writes and the restarts are over,
\* and a merge that is due is made (search_indexer.rs).
SearchCatchesUp == IndexCatchesUp /\ DebtIsPaid

\* Plugins: a callback ends, by its budget or its deadline if need be, and a timer that is due
\* fires however many immediate callbacks there are (plugins/manager.rs, plugins/executor.rs).
PluginsProceed == CallbacksEnd /\ DueTimersFire

\* The window: a page that hangs is reloaded, and a reload comes to an end (webview_health.rs).
PagesComeBack == HangingPageIsReloaded /\ ReloadEnds

\* Connections: a run of the start-up synchronisation ends whatever cursors the provider gives
\* (startup_sync.rs), and a socket whose other end is silent is dropped (misskey/streaming.rs).
ConnectionsProceed == SyncEnds /\ DeadLinkIsDropped
=============================================================================
