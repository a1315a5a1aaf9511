--------------------------- MODULE WebviewHealth ---------------------------
(***************************************************************************)
(* The watchdog of the main page, application/desktop/webview_health.rs:   *)
(* it evaluates a probe in the page, reloads a visible page that stopped   *)
(* answering or drawing, and rebuilds the view once when the reload does   *)
(* not bring the page back.                                                *)
(*                                                                         *)
(* Instants are kept relative to now: a tick makes them one smaller.       *)
(* FrontendRecovery says when the checkpoint lets it; hwGate is that       *)
(* module's stored checkpoint without the draft.                           *)
(***************************************************************************)
EXTENDS Integers

CONSTANTS Grace,      \* GRACE_PERIOD, also MISSED_CHECK_INTERVAL and SLOW_PROBE_TIMEOUT
          Recovery,   \* RECOVERY_TIMEOUT
          Cooldown,   \* RECOVERY_COOLDOWN
          Recreation, \* RECREATION_TIMEOUT
          SlowProbes, \* CONSECUTIVE_SLOW_PROBES
          MostMissed, \* missed checks that are reported
          MaxEvals,   \* bound: evaluations outstanding at once
          Sleeps      \* whether the machine may sleep between two ticks

ASSUME WatchAssumption ==
    /\ {Grace, Recovery, Cooldown, Recreation, SlowProbes, MostMissed, MaxEvals} \subseteq Nat \ {0}
    /\ Recovery <= SlowProbes * Grace
    /\ Sleeps \in BOOLEAN

VARIABLES
    hwHealth,   \* HealthState
    hwGate,     \* [blocked, owned, recreate] of FrontendRecovery
    hwPage,     \* the page: what of it hangs, its frame counter, its handshake
    hwEvals,    \* evaluations whose callback has still to come
    hwVisible,  \* the window is on screen
    hwWatched   \* ghost: how long the window has been on screen at every tick

hwVars == <<hwHealth, hwGate, hwPage, hwEvals, hwVisible, hwWatched>>

Never == 1000

NoProbe == [id |-> 0, at |-> 0]
NoProgress == [since |-> Never, missed |-> 0]
NoFrame == [frame |-> -1, since |-> Never, missed |-> 0]
\* An answered probe draws at most one frame, so two values tell whether it was drawn.
FrameMod == 2

Elapsed(t) == IF t < 0 THEN -t ELSE 0

\* An instant one tick later; how long ago it was matters as far as it is compared.
Later(t, most) == IF t = Never \/ t <= -most THEN t ELSE t - 1

Clocks == IF Recovery > MostMissed * Grace THEN Recovery ELSE MostMissed * Grace

AgedProbe(p) == IF p = NoProbe THEN p ELSE [p EXCEPT !.at = Later(@, Grace)]
AgedClock(c) == [c EXCEPT !.since = Later(@, Clocks)]

Aged(h) ==
    [h EXCEPT !.pend = AgedProbe(@), !.js = AgedClock(@), !.frame = AgedClock(@),
              !.next = Later(@, 0), !.cool = Later(@, 0), !.recreateAt = Later(@, 0)]

-----------------------------------------------------------------------------
(* HealthState.                                                            *)

FreshView == [view |-> TRUE, hang |-> "no", frame |-> 0, raf |-> FALSE, shown |-> TRUE,
              own |-> FALSE]

NewHealth == [pend |-> NoProbe, slow |-> 0, js |-> NoProgress, frame |-> NoFrame,
              next |-> Grace, seen |-> FALSE, cool |-> 0, recreateAt |-> Never,
              stopped |-> FALSE]

\* Mutant of Navigation: the probe of the replaced document stays.
NavigationKeeps(h) ==
    [h EXCEPT !.slow = 0, !.js = NoProgress, !.frame = NoFrame, !.next = Grace]

Navigation(h) ==
    [h EXCEPT !.pend = NoProbe, !.slow = 0, !.js = NoProgress, !.frame = NoFrame,
              !.next = Grace]

PausedProbe(p) == IF p = NoProbe THEN p ELSE [p EXCEPT !.at = Grace]
PausedClock(c, none) == IF c = none THEN c ELSE [c EXCEPT !.since = Grace, !.missed = 0]

\* Mutant of Pause: the clocks run on while the page is hidden.
PauseRuns(h) == [h EXCEPT !.next = Grace]

\* Mutant of Pause: a hidden window forgets that the view was to be rebuilt.
PauseForgets(h) ==
    [h EXCEPT !.next = Grace, !.slow = 0, !.recreateAt = Never,
              !.pend = PausedProbe(@), !.js = PausedClock(@, NoProgress),
              !.frame = PausedClock(@, NoFrame)]

\* The clocks of a hidden page start again a while after it is shown.
Pause(h) ==
    [h EXCEPT !.next = Grace, !.slow = 0,
              !.recreateAt = IF @ = Never THEN @ ELSE Grace + Recreation,
              !.pend = PausedProbe(@), !.js = PausedClock(@, NoProgress),
              !.frame = PausedClock(@, NoFrame)]

BeginRecovery(h) == [Navigation(h) EXCEPT !.cool = Cooldown, !.recreateAt = Recreation]

BeginRecreation(h) == [Navigation(h) EXCEPT !.recreateAt = Never]

\* The checks a clock has missed by now, when they are more than it reported.
MissedChecks(clock) ==
    LET n == Elapsed(clock.since) \div Grace IN IF n > MostMissed THEN MostMissed ELSE n

MissedCheck(clock) == MissedChecks(clock) > clock.missed

Slow(h) == h.pend # NoProbe /\ Elapsed(h.pend.at) >= Grace

Stalled(h) ==
    \/ Elapsed(h.js.since) >= Recovery
    \/ Elapsed(h.frame.since) >= Recovery
    \/ h.slow + (IF Slow(h) THEN 1 ELSE 0) >= SlowProbes

\* Mutant of ProbeDone: an empty callback counts as an answer.
ProbeDoneEmpty(h, id, resp) ==
    IF h.pend.id # id THEN h
    ELSE [h EXCEPT !.pend = NoProbe, !.next = 0, !.slow = 0, !.js = [since |-> 0, missed |-> 0]]

\* complete: the callback of a probe.  resp is <<>> or <<visible, frame>>.
ProbeDone(h, id, resp) ==
    LET shown == resp[1] /\ h.seen
        moved == shown /\ h.frame # NoFrame /\ h.frame.frame # resp[2]
    IN IF h.pend.id # id THEN h
       ELSE IF resp = <<>> THEN [h EXCEPT !.pend = NoProbe, !.next = 0]
       ELSE [h EXCEPT
                !.pend = NoProbe, !.next = 0,
                !.slow = IF ~(shown /\ Slow(h)) THEN 0 ELSE IF @ < SlowProbes THEN @ + 1 ELSE @,
                !.js = [since |-> 0, missed |-> 0],
                !.frame = IF ~shown THEN NoFrame
                          ELSE IF h.frame # NoFrame /\ ~moved THEN @
                          ELSE [frame |-> resp[2], since |-> 0, missed |-> 0],
                !.recreateAt = IF moved /\ hwGate.owned THEN Never ELSE @]

-----------------------------------------------------------------------------
(* poll, on the main thread.                                               *)

\* What tick decides, in its order.
Verdict(h, visible, gap) ==
    IF h.stopped THEN "stopped"
    ELSE IF ~visible \/ ~h.seen \/ gap THEN "pause"
    ELSE IF h.recreateAt # Never /\ h.recreateAt <= 0 THEN "recreate"
    ELSE IF Stalled(h) /\ ~hwGate.blocked /\ h.cool = 0 THEN "recover"
    ELSE IF MissedCheck(h.js) THEN "missed_js"
    ELSE IF MissedCheck(h.frame) THEN "missed_frame"
    ELSE IF h.pend = NoProbe /\ h.next <= 0 THEN "probe" ELSE "none"

FreshIds == {i \in 1..MaxEvals : \A e \in hwEvals : e.id # i} \ {hwHealth.pend.id}

\* A tick, after a poll interval or a sleep of the machine.
Ticks(verdict, gap) ==
    /\ hwPage.view
    /\ gap => Sleeps
    /\ Verdict(Aged(hwHealth), hwVisible, gap) = verdict
    /\ hwWatched' = IF ~hwVisible \/ gap THEN 0
                    ELSE IF hwWatched < Recovery THEN hwWatched + 1 ELSE hwWatched
    /\ UNCHANGED hwVisible

TickPause ==
    /\ \E gap \in BOOLEAN : Ticks("pause", gap)
    /\ hwHealth' = Pause([Aged(hwHealth) EXCEPT !.seen = hwVisible])
    /\ UNCHANGED <<hwGate, hwPage, hwEvals>>

\* The probe is dispatched, or cannot be.
TickProbe ==
    /\ Ticks("probe", FALSE)
    /\ LET h == Aged(hwHealth) IN
       \/ \E id \in FreshIds :
             /\ hwHealth' = [h EXCEPT !.pend = [id |-> id, at |-> 0],
                                      !.js = IF @ = NoProgress THEN [since |-> 0, missed |-> 0] ELSE @]
             /\ hwEvals' = hwEvals \union {[id |-> id, live |-> TRUE]}
       \/ /\ hwHealth' = [h EXCEPT !.next = 0,
                                   !.js = IF @ = NoProgress THEN [since |-> 0, missed |-> 0] ELSE @]
          /\ UNCHANGED hwEvals
    /\ UNCHANGED <<hwGate, hwPage>>

TickMissed ==
    LET h == Aged(hwHealth) IN
    /\ \/ /\ Ticks("missed_js", FALSE)
          /\ hwHealth' = [h EXCEPT !.js.missed = MissedChecks(h.js)]
       \/ /\ Ticks("missed_frame", FALSE)
          /\ hwHealth' = [h EXCEPT !.frame.missed = MissedChecks(h.frame)]
    /\ UNCHANGED <<hwGate, hwPage, hwEvals>>

TickQuiet ==
    /\ Ticks("none", FALSE)
    /\ hwHealth' = Aged(hwHealth)
    /\ UNCHANGED <<hwGate, hwPage, hwEvals>>

\* try_begin_recovery, and the view is asked to reload.
TickRecover ==
    /\ Ticks("recover", FALSE)
    /\ hwHealth' = BeginRecovery(Aged(hwHealth))
    /\ hwGate' = [blocked |-> TRUE, owned |-> FALSE, recreate |-> TRUE]
    /\ UNCHANGED <<hwPage, hwEvals>>

\* The old view could not be closed, or it is gone and the new one could not be made, or the
\* new one loads the page.
RecreateMainWebview ==
    \/ UNCHANGED <<hwPage, hwEvals>>
    \/ /\ hwPage' \in {[FreshView EXCEPT !.view = made] : made \in BOOLEAN}
       /\ hwEvals' = {[e EXCEPT !.live = FALSE] : e \in hwEvals}

\* try_begin_recreation: refused, or the view is built anew.
TickRecreate ==
    LET h == Aged(hwHealth) IN
    /\ Ticks("recreate", FALSE)
    /\ IF ~hwGate.blocked \/ hwGate.owned \/ ~hwGate.recreate
       THEN /\ hwHealth' = [h EXCEPT !.recreateAt = Never]
            /\ UNCHANGED <<hwGate, hwPage, hwEvals>>
       ELSE /\ hwHealth' = BeginRecreation(h)
            /\ hwGate' = [hwGate EXCEPT !.recreate = FALSE]
            /\ RecreateMainWebview

\* The view is gone: the watchdog ends.
PollStops ==
    /\ ~hwPage.view /\ ~hwHealth.stopped
    /\ hwHealth' = [hwHealth EXCEPT !.stopped = TRUE]
    /\ UNCHANGED <<hwGate, hwPage, hwEvals, hwVisible, hwWatched>>

-----------------------------------------------------------------------------
(* Callbacks, and the page.                                                *)

\* The page runs the probe: it asks for a frame when it is shown and answers.
PageAnswers(e) ==
    /\ e \in hwEvals /\ e.live /\ hwPage.hang # "js" /\ hwPage.view
    /\ hwHealth' = ProbeDone(hwHealth, e.id, <<hwPage.shown, hwPage.frame>>)
    /\ hwEvals' = hwEvals \ {e}
    /\ hwPage' = [hwPage EXCEPT !.raf = hwPage.raf \/ hwPage.shown]
    /\ UNCHANGED <<hwGate, hwVisible, hwWatched>>

\* The answer of a replaced document, or an empty callback.
OtherAnswer(e) ==
    /\ e \in hwEvals
    /\ \E resp \in IF e.live THEN {<<>>} ELSE {<<>>, <<TRUE, 0>>, <<TRUE, 1>>} :
          hwHealth' = ProbeDone(hwHealth, e.id, resp)
    /\ hwEvals' = hwEvals \ {e}
    /\ UNCHANGED <<hwGate, hwPage, hwVisible, hwWatched>>

PageDraws ==
    /\ hwPage.raf /\ hwPage.hang = "no" /\ hwPage.shown
    /\ hwPage' = [hwPage EXCEPT !.raf = FALSE, !.frame = (@ + 1) % FrameMod]
    /\ UNCHANGED <<hwHealth, hwGate, hwEvals, hwVisible, hwWatched>>

PageHangs ==
    /\ hwPage.view
    /\ hwPage' \in {[hwPage EXCEPT !.hang = k] : k \in {"no", "js", "raf"}}
    /\ UNCHANGED <<hwHealth, hwGate, hwEvals, hwVisible, hwWatched>>

\* on_page_load: a document replaces the other, after a reload or the death of its process.
PageLoads ==
    /\ hwPage.view
    /\ hwHealth' = Navigation(hwHealth)
    /\ hwPage' = FreshView
    /\ hwEvals' = {[e EXCEPT !.live = FALSE] : e \in hwEvals}
    /\ UNCHANGED <<hwGate, hwVisible, hwWatched>>

\* restore of the document, and its checkpoints.
PageRestores ==
    /\ hwPage.view /\ hwPage.hang # "js"
    /\ \/ /\ ~hwPage.own
          /\ hwGate' = [blocked |-> TRUE, owned |-> TRUE, recreate |-> FALSE]
          /\ hwPage' = [hwPage EXCEPT !.own = TRUE]
       \/ /\ hwPage.own /\ hwGate.owned
          /\ hwGate' \in {[hwGate EXCEPT !.blocked = b] : b \in BOOLEAN}
          /\ UNCHANGED hwPage
    /\ UNCHANGED <<hwHealth, hwEvals, hwVisible, hwWatched>>

WindowShown ==
    /\ hwVisible' = ~hwVisible
    /\ hwPage' \in {[hwPage EXCEPT !.shown = s] : s \in {hwVisible', FALSE}}
    /\ UNCHANGED <<hwHealth, hwGate, hwEvals, hwWatched>>

HealthInit ==
    /\ hwHealth = NewHealth
    /\ hwGate = [blocked |-> TRUE, owned |-> FALSE, recreate |-> FALSE]
    /\ hwPage = FreshView
    /\ hwEvals = {}
    /\ hwVisible = TRUE
    /\ hwWatched = 0

HealthTick ==
    \/ TickPause \/ TickProbe \/ TickMissed \/ TickQuiet \/ TickRecover \/ TickRecreate

HealthNext ==
    \/ HealthTick \/ PollStops
    \/ \E e \in hwEvals : PageAnswers(e) \/ OtherAnswer(e)
    \/ PageDraws \/ PageHangs \/ PageLoads \/ PageRestores \/ WindowShown

HealthSpec == HealthInit /\ [][HealthNext]_hwVars

-----------------------------------------------------------------------------

\* An answer of a document that was replaced says nothing to the watchdog of the new one.
StaleAnswersAreIgnored ==
    (\E e \in hwEvals \ hwEvals' : ~e.live) => UNCHANGED hwHealth

\* Only a page that was on screen throughout the recovery time is reloaded: what a hidden,
\* minimised or sleeping window did not do never counts against its page.
OnlyWatchedPagesAreReloaded ==
    hwHealth'.cool = Cooldown /\ hwHealth.cool = 0 => hwWatched' >= Recovery

\* A page that hangs on screen does not stay so while its checkpoint lets it be reloaded.
HangingPageIsReloaded ==
    []<>~(hwPage.hang # "no" /\ hwPage.shown /\ hwVisible /\ ~hwGate.blocked)

\* A reload that was reserved ends: the document takes its state back, or the view is
\* rebuilt, as long as the window is on screen.
ReloadEnds == []<>~(hwGate.recreate /\ hwVisible /\ hwPage.view)
=============================================================================
