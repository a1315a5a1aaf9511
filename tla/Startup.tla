------------------------------ MODULE Startup ------------------------------
(***************************************************************************)
(* The start of the application: the StartupGate and its one background    *)
(* worker (application/startup_gate.rs, application/runtime.rs), the       *)
(* commands that wait at the gate, and the page that boots, shows the      *)
(* failure and retries (sessionActions.ts, slices/session.ts).  The page   *)
(* may be reloaded at any step, which starts another document; what the    *)
(* old one called still runs.                                              *)
(***************************************************************************)
EXTENDS Integers, FiniteSets

CONSTANTS BtLoads,               \* calls of loadSnapshot: 1..n, taken in order
          BtMaxReloads,          \* bound: reloads of the page
          BtMaxFailures,         \* bound: stages that fail
          BtAccts                \* accounts with a stored row

ASSUME BtAssumption == {BtLoads, BtMaxReloads, BtMaxFailures} \subseteq Nat

VARIABLES
    btGate,        \* [state, running, version]: the control, and the version of the watch
    btWorkers,     \* id of a worker -> its stage, 0 over, 9 failed and its event not yet sent
    btPage,        \* [doc, status, stage, snapshot]: the document and its BootState
    btLoad,        \* load -> [at, doc, seen]: the step of the call, its document, and the
                   \* version its receiver has seen
    btSessions,    \* accounts with a session
    btStreams,     \* the sources restart_streaming read last
    btCorrupt,     \* a stored setting does not parse
    btFailures, btPanicked,
    btExcused      \* ghost: a snapshot was refused for a corrupt setting, or a document that
                   \* is gone retried the start

btVars == <<btGate, btWorkers, btPage, btLoad, btSessions, btStreams, btCorrupt, btFailures,
            btPanicked, btExcused>>

BtOutside == <<btSessions, btStreams, btCorrupt, btFailures, btPanicked, btExcused>>
BtIds == 1..BtLoads
BtNew == [at |-> "none", doc |-> 0, seen |-> 0]
BtAtWork == {w \in DOMAIN btWorkers : btWorkers[w] \in 1..4}

\* Another worker, at its first stage.
BtSpawn == btWorkers' = [w \in 1..(Cardinality(DOMAIN btWorkers) + 1) |->
                           IF w \in DOMAIN btWorkers THEN btWorkers[w] ELSE 1]

\* Mutant of BtMayBegin: only the state is looked at.
BtMayBeginTwice == btGate.state = "initializing"

\* begin_initialization
BtMayBegin == btGate.state = "initializing" /\ ~btGate.running

\* begin_retry
BtMayRetry == ~btGate.running /\ btGate.state = "failed"

\* Mutant of BtRecovering: any error of the page is taken for one of the start.
BtRecoveringAlways == btPage.status = "error"

\* The page asks for another start only when it has asked for one before.
BtRecovering == btPage.status = "error" /\ btPage.stage # "listeners"

\* loadSnapshot: a page that is loading already does not load again.
BtCalls(l) ==
    /\ btLoad[l].at = "none" /\ \A k \in 1..(l - 1) : btLoad[k].at # "none"
    /\ btPage.status \notin {"loading", "recovering"}
    /\ btPage' = [btPage EXCEPT !.status = IF BtRecovering THEN "recovering" ELSE "loading",
                                !.stage = "snapshot"]
    /\ btLoad' = [btLoad EXCEPT ![l] = [at |-> IF BtRecovering THEN "retry" ELSE "start",
                                        doc |-> btPage.doc, seen |-> 0]]
    /\ UNCHANGED <<btGate, btWorkers, BtOutside>>

\* start_runtime_initialization: a second handshake joins the worker there is.
BtStarts(l) ==
    /\ btLoad[l].at = "start"
    /\ IF BtMayBegin
       THEN btGate' = [btGate EXCEPT !.running = TRUE] /\ BtSpawn
       ELSE UNCHANGED <<btGate, btWorkers>>
    /\ btLoad' = [btLoad EXCEPT ![l].at = "subscribe"]
    /\ UNCHANGED <<btPage, BtOutside>>

\* The answer of a call reaches its document; that of an older one reaches nobody.
BtFailTo(l) == btPage' = IF btLoad[l].doc = btPage.doc
                         THEN [btPage EXCEPT !.status = "error"] ELSE btPage

\* retry_runtime_initialization: refused unless the start failed or is running.
BtRetries(l) ==
    /\ btLoad[l].at = "retry"
    /\ IF BtMayRetry
       THEN /\ btGate' = [state |-> "initializing", running |-> TRUE,
                          version |-> btGate.version + 1]
            /\ BtSpawn /\ btLoad' = [btLoad EXCEPT ![l].at = "subscribe"] /\ UNCHANGED btPage
       ELSE /\ IF btGate.running
               THEN btLoad' = [btLoad EXCEPT ![l].at = "subscribe"] /\ UNCHANGED btPage
               ELSE btLoad' = [btLoad EXCEPT ![l].at = "over"] /\ BtFailTo(l)
            /\ UNCHANGED <<btGate, btWorkers>>
    /\ btExcused' = (btExcused \/ (BtMayRetry /\ btLoad[l].doc # btPage.doc))
    /\ UNCHANGED <<btSessions, btStreams, btCorrupt, btFailures, btPanicked>>

\* Mutant of BtFirstStep: the receiver waits for a change before it looks.
BtFirstStepWaits == "wait"

\* The receiver looks at the state before it waits for a change.
BtFirstStep == "look"

\* wait_until_ready
BtSubscribes(l) ==
    /\ btLoad[l].at = "subscribe"
    /\ btLoad' = [btLoad EXCEPT ![l].at = BtFirstStep, ![l].seen = btGate.version]
    /\ UNCHANGED <<btGate, btWorkers, btPage, BtOutside>>

BtLooks(l) ==
    /\ btLoad[l].at = "look"
    /\ btLoad' = [btLoad EXCEPT ![l].at = CASE btGate.state = "initializing" -> "wait"
                                            [] btGate.state = "ready" -> "read"
                                            [] OTHER -> "over"]
    /\ IF btGate.state = "failed" THEN BtFailTo(l) ELSE UNCHANGED btPage
    /\ UNCHANGED <<btGate, btWorkers, BtOutside>>

BtWakes(l) ==
    /\ btLoad[l].at = "wait" /\ btLoad[l].seen # btGate.version
    /\ btLoad' = [btLoad EXCEPT ![l].at = "look", ![l].seen = btGate.version]
    /\ UNCHANGED <<btGate, btWorkers, btPage, BtOutside>>

\* app_snapshot_for_state: a corrupt setting is reset, and the answer is an error all the same.
BtReadsSnapshot(l) ==
    /\ btLoad[l].at = "read"
    /\ btCorrupt' = FALSE /\ btExcused' = (btExcused \/ btCorrupt)
    /\ IF btCorrupt
       THEN btLoad' = [btLoad EXCEPT ![l].at = "over"] /\ BtFailTo(l)
       ELSE /\ btLoad' = [btLoad EXCEPT ![l].at = "over"]
            /\ btPage' = IF btLoad[l].doc = btPage.doc
                         THEN [btPage EXCEPT !.status = "ready", !.stage = "complete",
                                             !.snapshot = TRUE]
                         ELSE btPage
    /\ UNCHANGED <<btGate, btWorkers, btSessions, btStreams, btFailures, btPanicked>>

\* finish
BtFinish(state) ==
    btGate' = [state |-> state, running |-> FALSE, version |-> btGate.version + 1]

\* Mutant of BtEffect: the streams are started from the sessions there were before.
BtEffectOld(stage, restored) ==
    IF stage = 3
    THEN btSessions' = restored /\ btStreams' = btSessions
    ELSE UNCHANGED <<btSessions, btStreams>>

\* What a stage leaves behind: the restored sessions, and the streams of all of them.
BtEffect(stage, restored) ==
    CASE stage = 3 -> btSessions' = restored /\ UNCHANGED btStreams
      [] stage = 4 -> btStreams' = btSessions /\ UNCHANGED btSessions
      [] OTHER -> UNCHANGED <<btSessions, btStreams>>

\* initialize_runtime_state: an account that cannot be restored is left out.
BtStageEnds(w, restored) ==
    /\ btWorkers[w] \in 1..4 /\ restored \subseteq BtAccts
    /\ btWorkers[w] # 3 => restored = {}
    /\ BtEffect(btWorkers[w], restored)
    /\ IF btWorkers[w] = 4
       THEN btWorkers' = [btWorkers EXCEPT ![w] = 0] /\ BtFinish("ready")
       ELSE btWorkers' = [btWorkers EXCEPT ![w] = @ + 1] /\ UNCHANGED btGate
    /\ UNCHANGED <<btPage, btLoad, btCorrupt, btFailures, btPanicked, btExcused>>

\* A stage fails: the gate tells the waiters, the page hears of it by an event as well.  The
\* last stage has no step that can fail.
BtStageFails(w) ==
    /\ btWorkers[w] \in 1..3 /\ btFailures < BtMaxFailures
    /\ btFailures' = btFailures + 1
    /\ btWorkers' = [btWorkers EXCEPT ![w] = 9]
    /\ BtFinish("failed")
    /\ UNCHANGED <<btPage, btLoad, btSessions, btStreams, btCorrupt, btPanicked, btExcused>>

\* The event of the failure, sent after the gate was marked: however late, the page of then
\* shows it.
BtFailureShown(w) ==
    /\ btWorkers[w] = 9
    /\ btWorkers' = [btWorkers EXCEPT ![w] = 0]
    /\ btPage' = [btPage EXCEPT !.status = "error"]
    /\ UNCHANGED <<btGate, btLoad, BtOutside>>

\* A panic ends the blocking task; nobody looks at its handle.
BtPanics(w) ==
    /\ btWorkers[w] \in 1..4 /\ btFailures < BtMaxFailures
    /\ btFailures' = btFailures + 1 /\ btPanicked' = TRUE
    /\ btWorkers' = [btWorkers EXCEPT ![w] = 0]
    /\ UNCHANGED <<btGate, btPage, btLoad, btSessions, btStreams, btCorrupt, btExcused>>

BtReloads ==
    /\ btPage.doc < BtMaxReloads
    /\ btPage' = [doc |-> btPage.doc + 1, status |-> "idle", stage |-> "listeners",
                  snapshot |-> FALSE]
    /\ UNCHANGED <<btGate, btWorkers, btLoad, BtOutside>>

StartupInit ==
    /\ btGate = [state |-> "initializing", running |-> FALSE, version |-> 0]
    /\ btWorkers = [w \in {} |-> 0]
    /\ btPage = [doc |-> 0, status |-> "idle", stage |-> "listeners", snapshot |-> FALSE]
    /\ btLoad = [l \in BtIds |-> BtNew]
    /\ btSessions = {} /\ btStreams = {} /\ btCorrupt \in BOOLEAN
    /\ btFailures = 0 /\ btPanicked = FALSE /\ btExcused = FALSE

StartupNext ==
    \/ \E l \in BtIds : \/ BtCalls(l) \/ BtStarts(l) \/ BtRetries(l) \/ BtSubscribes(l)
                        \/ BtLooks(l) \/ BtWakes(l) \/ BtReadsSnapshot(l)
    \/ \E w \in DOMAIN btWorkers :
         \/ \E restored \in SUBSET BtAccts : BtStageEnds(w, restored)
         \/ BtStageFails(w) \/ BtFailureShown(w) \/ BtPanics(w)
    \/ BtReloads

StartupSpec == StartupInit /\ [][StartupNext]_btVars

\* Two documents, a double click and a late failure never run two workers at once, which would
\* migrate the database and restart the streams side by side.
OneWorker == Cardinality(BtAtWork) <= 1

\* Who waits at the gate has a worker that will answer, unless it panicked: no change of the
\* state falls between a look and the wait for the next one.
WaitersAreAnswered ==
    \A l \in BtIds : btLoad[l].at = "wait" /\ btLoad[l].seen = btGate.version
                     => BtAtWork # {} \/ btPanicked

\* Once somebody saw the application start, no retry starts it over under its running streams,
\* and every restored account has its streams.
ReadyIsWhole == btPage.snapshot => btGate.state = "ready" /\ btStreams = btSessions

\* A page that shows the failure and waits for its button has a start to retry or to
\* join, unless the start succeeded and reading the snapshot met a corrupt setting.
RetriesAreAccepted ==
    btPage.status = "error" /\ btPage.stage = "snapshot" /\ ~btPage.snapshot
    /\ (\A l \in BtIds : btLoad[l].doc = btPage.doc => btLoad[l].at \in {"none", "over"})
    => btGate.state # "ready" \/ btExcused

\* The start (startup_gate.rs, runtime.rs, sessionActions.ts): one worker initialises, everyone
\* who waits at the gate is answered, a page that booted finds the streams of all sessions
\* running, and the button of a failed start is never refused.
StartsAreSafe == OneWorker /\ WaitersAreAnswered /\ ReadyIsWhole /\ RetriesAreAccepted
=============================================================================
