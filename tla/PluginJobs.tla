----------------------------- MODULE PluginJobs -----------------------------
(***************************************************************************)
(* The event loop of one plugin: plugins/executor.rs (TurnJobExecutor) and *)
(* the loops of plugins/manager.rs that drive it, for a callback whose     *)
(* promise is awaited and for background work between commands.            *)
(*                                                                         *)
(* A turn runs on the plugin thread; the stop flag is set and time passes  *)
(* beside it.  Jobs of the queues take no time, a fetch blocks.            *)
(***************************************************************************)
EXTENDS Integers, Sequences, SequencesExt

CONSTANTS JobIds,           \* numbers of the jobs that can exist at once
          JobsPerTurn,      \* MAX_JOBS_PER_TURN
          JobsPerCallback,  \* MAX_JOBS_PER_CALLBACK
          FetchTime,        \* TOTAL_TIMEOUT of a fetch
          JobDeadline,      \* PROMISE_DEADLINE
          MaxJobNow         \* bound: the clock

ASSUME PluginJobsAssumption == JobIds # {} /\ FetchTime <= JobDeadline

VARIABLES
    jobQ,         \* the promise, async and generic queues
    jobClock,     \* clock_jobs, in the order of their instants
    jobCancelled, \* timers that were cleared
    jobRun,       \* the turn and what it is for
    jobDone,      \* jobs completed since the callback began
    jobBack,      \* jobs completed since background_job_start, -1 for None
    jobPromise,   \* the awaited promise
    jobDead,      \* the runtime is poisoned
    jobStop,      \* stop
    jobNow,
    jobLast       \* the job the last step ran

jobVars == <<jobQ, jobClock, jobCancelled, jobRun, jobDone, jobBack, jobPromise, jobDead,
             jobStop, jobNow, jobLast>>

Lanes == {"promise", "async", "generic"}
NoJobs == [l \in Lanes |-> <<>>]
NoTurn == [mode |-> "idle", step |-> "none", lane |-> "async", progressed |-> FALSE,
           budget |-> 0, fetched |-> FALSE, due |-> <<>>, deadline |-> 0, until |-> 0]

ClockIds(entries) == {entries[i].id : i \in DOMAIN entries}
Held(id) ==
    \/ \E l \in Lanes : id \in {jobQ[l][i] : i \in DOMAIN jobQ[l]}
    \/ id \in ClockIds(jobClock) \union ClockIds(jobRun.due)

Immediate == \E l \in Lanes : jobQ[l] # <<>>

\* Mutant of Entered: behind all others.
EnteredLast(entries, new) == entries \o new

\* clock_jobs: a new entry goes behind those of the same instant.
Entered(entries, new) ==
    FoldLeft(LAMBDA es, n : InsertAt(es, Len(SelectSeq(es, LAMBDA e : e.at <= n.at)) + 1, n),
             entries, new)

Alive(entries) == SelectSeq(entries, LAMBDA e : e.id \notin jobCancelled)

-----------------------------------------------------------------------------
(***************************************************************************)
(* What JavaScript does while it runs: queue one more job, set or clear a  *)
(* timer, settle the awaited promise.                                      *)
(***************************************************************************)

\* enqueue_job, for a job of the given kind; a zero interval is made a positive one.
Enqueued(q, clock, id, kind) ==
    CASE kind \in Lanes -> <<[q EXCEPT ![kind] = Append(@, id)], clock>>
      [] kind = "timeout" ->
           <<q, Entered(clock, <<[at |-> jobNow, id |-> id, every |-> FALSE]>>)>>
      [] OTHER -> <<q, Entered(clock, <<[at |-> jobNow + 1, id |-> id, every |-> TRUE]>>)>>

\* The job id itself has left its queue q and clock.
RunsScript(q, clock, id) ==
    \/ /\ jobQ' = q /\ jobClock' = clock
       /\ UNCHANGED <<jobCancelled, jobPromise>>
    \/ /\ jobPromise = "pending" /\ jobPromise' = "settled"
       /\ jobQ' = q /\ jobClock' = clock
       /\ UNCHANGED jobCancelled
    \/ /\ \E timer \in ClockIds(clock) \union ClockIds(jobRun.due) :
             jobCancelled' = jobCancelled \union {timer}
       /\ jobQ' = q /\ jobClock' = clock
       /\ UNCHANGED jobPromise
    \/ \E new \in JobIds, kind \in Lanes \union {"timeout", "interval"} :
          /\ new = id \/ ~Held(new)
          /\ new \notin jobCancelled
          /\ \A other \in JobIds : other < new => Held(other)
          /\ LET e == Enqueued(q, clock, new, kind) IN jobQ' = e[1] /\ jobClock' = e[2]
          /\ UNCHANGED <<jobCancelled, jobPromise>>

Bump(n) == IF n < 0 \/ n >= JobsPerCallback THEN n ELSE n + 1

\* record_completed_job.
Completed(id) ==
    /\ jobDone' = IF jobRun.mode = "await" THEN Bump(jobDone) ELSE 0
    /\ jobBack' = Bump(jobBack)
    /\ jobLast' = id

-----------------------------------------------------------------------------
(***************************************************************************)
(* How a turn ends.                                                        *)
(***************************************************************************)

\* poison_runtime: the context and its queues are dropped.
Poison ==
    /\ jobDead' = TRUE
    /\ jobQ' = NoJobs /\ jobClock' = <<>> /\ jobRun' = NoTurn
    /\ jobCancelled' = {} /\ jobPromise' = "none" /\ jobDone' = 0 /\ jobBack' = -1
    /\ jobLast' = 0
    /\ UNCHANGED <<jobStop, jobNow>>

\* A job fails with an ordinary error: that ends the callback that waits, and the entries
\* still due go back; in the background it poisons the runtime.
JobFails(id, q, clock) ==
    IF jobRun.mode = "pump" THEN Poison
    ELSE /\ jobQ' = q
         /\ jobClock' = Alive(clock)
         /\ jobCancelled' = {}
         /\ jobRun' = NoTurn
         /\ jobPromise' = "none"
         /\ jobDone' = 0 /\ jobBack' = Bump(jobBack) /\ jobLast' = id
         /\ UNCHANGED <<jobDead, jobStop, jobNow>>

\* check_execution_control before a job that does not block.
ControlError == jobStop \/ jobNow >= jobRun.deadline

\* Mutant of FetchFits: a fetch may start as long as there is time at all.
FetchFitsAlways == TRUE

\* check_execution_control(true): a blocking job must be able to end in time.
FetchFits == jobRun.deadline - jobNow >= FetchTime

InTurn(steps) == ~jobDead /\ jobRun.step \in steps

-----------------------------------------------------------------------------
(***************************************************************************)
(* TurnJobExecutor::run_jobs.                                              *)
(***************************************************************************)

\* prune_cancelled_clock_jobs, a fresh budget and the first check of control.
TurnBegins(mode, deadline) ==
    IF jobStop \/ jobNow >= deadline THEN Poison
    ELSE /\ jobRun' = [NoTurn EXCEPT !.mode = mode, !.step = "drain1", !.budget = JobsPerTurn,
                                     !.deadline = deadline]
         /\ jobClock' = Alive(jobClock)
         /\ jobCancelled' = {}
         /\ jobLast' = 0
         /\ UNCHANGED <<jobQ, jobDone, jobBack, jobPromise, jobDead, jobStop, jobNow>>

NextLane(lane) ==
    CASE lane = "async" -> "promise" [] lane = "promise" -> "generic" [] OTHER -> "async"

\* drain_immediate_jobs: the lane whose turn it is has a job to run.
LaneRuns ==
    /\ jobRun.budget > 0
    /\ jobQ[jobRun.lane] # <<>>
    /\ jobRun.lane = "async" => ~jobRun.fetched

\* A lane has none; a round in which no lane had one ends the drain.  After the first drain
\* take_due_clock_jobs takes the timers that are due.
DrainSkips ==
    LET over == jobRun.budget = 0 \/ (jobRun.lane = "generic" /\ ~jobRun.progressed)
        toClock == over /\ jobRun.step = "drain1"
    IN
    /\ InTurn({"drain1", "drain2"}) /\ ~LaneRuns
    /\ jobRun' = [jobRun EXCEPT
           !.step = CASE ~over -> @ [] toClock -> "clock" [] OTHER -> "end",
           !.lane = IF over THEN "async" ELSE NextLane(@),
           !.progressed = @ /\ jobRun.lane # "generic",
           !.due = IF toClock THEN SelectSeq(jobClock, LAMBDA e : e.at <= jobNow) ELSE @]
    /\ jobClock' = IF toClock THEN SelectSeq(jobClock, LAMBDA e : e.at > jobNow) ELSE jobClock
    /\ jobLast' = 0
    /\ UNCHANGED <<jobQ, jobCancelled, jobDone, jobBack, jobPromise, jobDead, jobStop, jobNow>>

\* A promise or generic job runs; the one fetch of the turn begins to block.
DrainRuns ==
    LET lane == jobRun.lane
        id == Head(jobQ[lane])
        q == [jobQ EXCEPT ![lane] = Tail(@)]
        after == [jobRun EXCEPT !.budget = @ - 1, !.lane = NextLane(@),
                                !.progressed = lane # "generic"]
    IN
    /\ InTurn({"drain1", "drain2"}) /\ LaneRuns
    /\ CASE ControlError \/ (lane = "async" /\ ~FetchFits) -> Poison
         [] ~ControlError /\ lane = "async" /\ FetchFits ->
              /\ jobRun' = [after EXCEPT !.step = IF @ = "drain1" THEN "fetch1" ELSE "fetch2",
                                         !.fetched = TRUE, !.until = jobNow + FetchTime]
              /\ jobQ' = q
              /\ jobLast' = id
              /\ UNCHANGED <<jobClock, jobCancelled, jobDone, jobBack, jobPromise, jobDead,
                             jobStop, jobNow>>
         [] OTHER ->
              \/ /\ RunsScript(q, jobClock, id)
                 /\ jobRun' = after
                 /\ Completed(id)
                 /\ UNCHANGED <<jobDead, jobStop, jobNow>>
              \/ JobFails(id, q, jobClock)

\* block_on returns; what waited for the answer runs as promise jobs.
FetchEnds ==
    /\ InTurn({"fetch1", "fetch2"})
    /\ \/ /\ RunsScript(jobQ, jobClock, 0)
          /\ jobRun' = [jobRun EXCEPT !.step = IF @ = "fetch1" THEN "drain1" ELSE "drain2"]
          /\ Completed(0)
          /\ UNCHANGED <<jobDead, jobStop, jobNow>>
       \/ JobFails(0, jobQ, jobClock)

\* Mutant of Restored: what is due and did not run is dropped.
RestoredNot(due) == jobClock

\* restore_due_clock_jobs.
Restored(due) == Entered(jobClock, due)

\* Mutant of NextDue: the last one first.
NextDueLast(due) == <<due[Len(due)], SubSeq(due, 1, Len(due) - 1)>>

\* due.pop_front()
NextDue(due) == <<Head(due), Tail(due)>>

\* An interval is set again.
Again(entry) ==
    IF entry.every THEN Entered(jobClock, <<[entry EXCEPT !.at = jobNow + 1]>>) ELSE jobClock

\* run_due_clock_jobs: the timers taken, in order, while the budget lasts.
ClockStep ==
    LET due == jobRun.due IN
    /\ InTurn({"clock"})
    /\ IF due = <<>> \/ jobRun.budget = 0
       THEN /\ jobRun' = [jobRun EXCEPT !.step = "drain2", !.due = <<>>]
            /\ jobClock' = Restored(due)
            /\ jobLast' = 0
            /\ UNCHANGED <<jobQ, jobCancelled, jobDone, jobBack, jobPromise, jobDead, jobStop,
                           jobNow>>
       ELSE LET entry == NextDue(due)[1]
                rest == NextDue(due)[2]
            IN
            CASE entry.id \in jobCancelled ->
                   /\ jobRun' = [jobRun EXCEPT !.due = rest]
                   /\ jobLast' = 0
                   /\ UNCHANGED <<jobQ, jobClock, jobCancelled, jobDone, jobBack, jobPromise,
                                  jobDead, jobStop, jobNow>>
              [] entry.id \notin jobCancelled /\ ControlError -> Poison
              [] OTHER ->
                   \/ /\ RunsScript(jobQ, Again(entry), IF entry.every THEN 0 ELSE entry.id)
                      /\ jobRun' = [jobRun EXCEPT !.due = rest, !.budget = @ - 1]
                      /\ Completed(entry.id)
                      /\ UNCHANGED <<jobDead, jobStop, jobNow>>
                   \/ JobFails(entry.id, jobQ, Restored(rest))

-----------------------------------------------------------------------------
(***************************************************************************)
(* manager.rs: who asks for turns.                                         *)
(***************************************************************************)

\* invoke_json_function calls the function: it may queue work, and returns a promise that
\* is pending or settled, or throws (the checkpoint runs then too).
Callback ==
    /\ ~jobDead /\ jobRun.mode = "idle"
    /\ jobNow + JobDeadline <= MaxJobNow
    /\ IF jobStop THEN Poison
       ELSE /\ \E new \in {0} \union JobIds, kind \in Lanes \union {"timeout", "interval"} :
                  /\ new # 0 => ~Held(new) /\ \A other \in JobIds : other < new => Held(other)
                  /\ LET e == IF new = 0 THEN <<jobQ, jobClock>>
                              ELSE Enqueued(jobQ, jobClock, new, kind)
                     IN jobQ' = e[1] /\ jobClock' = e[2]
            /\ jobPromise' \in {"pending", "settled"}
            /\ jobRun' = [NoTurn EXCEPT !.mode = "await", !.deadline = jobNow + JobDeadline]
            /\ jobDone' = 0
            /\ jobLast' = 0
            /\ UNCHANGED <<jobCancelled, jobBack, jobDead, jobStop, jobNow>>

\* Mutant of CallbackWorks: every turn has the whole deadline before it.
CallbackWorksFresh ==
    /\ ~jobDead /\ jobRun.mode = "await" /\ jobRun.step = "none"
    /\ jobPromise = "pending" \/ Immediate
    /\ IF jobDone >= JobsPerCallback THEN Poison
       ELSE TurnBegins("await", jobNow + JobDeadline)

\* await_promise and the microtask checkpoint: while the promise is pending or immediate jobs
\* wait, check_runtime_control and one more turn.
CallbackWorks ==
    /\ ~jobDead /\ jobRun.mode = "await" /\ jobRun.step = "none"
    /\ jobPromise = "pending" \/ Immediate
    /\ IF jobDone >= JobsPerCallback THEN Poison ELSE TurnBegins("await", jobRun.deadline)

\* The callback returns its value, or is too late to.
CallbackDone ==
    /\ ~jobDead /\ jobRun.mode = "await" /\ jobRun.step = "none"
    /\ jobPromise = "settled" /\ ~Immediate
    /\ IF ControlError THEN Poison
       ELSE /\ jobRun' = NoTurn /\ jobPromise' = "none" /\ jobDone' = 0
            /\ jobLast' = 0
            /\ UNCHANGED <<jobQ, jobClock, jobCancelled, jobBack, jobDead, jobStop, jobNow>>

\* pump_event_loop, one turn between commands.
Pump ==
    /\ ~jobDead /\ jobRun.mode = "idle" /\ ~jobStop
    /\ TurnBegins("pump", jobNow + JobDeadline)

\* Mutant of BackgroundLimit: every turn starts to count again.
BackgroundLimitNever(count) == FALSE

\* The background limit counts since the queues were last empty.
BackgroundLimit(count) == count >= JobsPerCallback

\* run_jobs returns; a pump looks at what is left.
TurnEnds ==
    LET count == IF jobBack = -1 THEN JobsPerTurn - jobRun.budget ELSE jobBack IN
    /\ InTurn({"end"})
    /\ IF jobRun.mode = "pump" /\ Immediate /\ BackgroundLimit(count) THEN Poison
       ELSE /\ jobRun' = IF jobRun.mode = "pump" THEN NoTurn
                         ELSE [NoTurn EXCEPT !.mode = "await", !.deadline = jobRun.deadline]
            /\ jobBack' = CASE jobRun.mode = "await" -> jobBack
                            [] jobRun.mode = "pump" /\ Immediate -> count
                            [] OTHER -> -1
            /\ jobClock' = Alive(jobClock)
            /\ jobCancelled' = {}
            /\ jobLast' = 0
            /\ UNCHANGED <<jobQ, jobDone, jobPromise, jobDead, jobStop, jobNow>>

\* PluginManager::shutdown sets the flag.
JobsStop ==
    /\ ~jobStop
    /\ jobStop' = TRUE
    /\ jobLast' = 0
    /\ UNCHANGED <<jobQ, jobClock, jobCancelled, jobRun, jobDone, jobBack, jobPromise, jobDead,
                   jobNow>>

\* Time passes while a fetch blocks (it is over in time) and between turns; the thread asks
\* for the next turn of a callback every millisecond.
JobTick ==
    /\ jobNow < MaxJobNow
    /\ \/ jobRun.step = "none" /\ (jobRun.mode = "await" => jobNow < jobRun.deadline)
       \/ jobRun.step \in {"fetch1", "fetch2"} /\ jobNow < jobRun.until
    /\ jobNow' = jobNow + 1
    /\ jobLast' = 0
    /\ UNCHANGED <<jobQ, jobClock, jobCancelled, jobRun, jobDone, jobBack, jobPromise, jobDead,
                   jobStop>>

JobsInit ==
    /\ jobQ = NoJobs /\ jobClock = <<>> /\ jobCancelled = {} /\ jobRun = NoTurn
    /\ jobDone = 0 /\ jobBack = -1 /\ jobPromise = "none" /\ jobDead = FALSE
    /\ jobStop = FALSE /\ jobNow = 0 /\ jobLast = 0

\* The thread's own steps.
JobThread ==
    DrainSkips \/ DrainRuns \/ FetchEnds \/ ClockStep \/ CallbackWorks \/ CallbackDone \/ Pump
    \/ TurnEnds

JobsNext == Callback \/ JobThread \/ JobsStop \/ JobTick

-----------------------------------------------------------------------------

\* The executor has its types; a turn keeps its budget and a job is in one place.
JobsTypeOK ==
    /\ jobRun.budget \in 0..JobsPerTurn
    /\ jobBack \in -1..JobsPerCallback /\ jobDone \in 0..JobsPerCallback
    /\ jobPromise \in {"none", "pending", "settled"}
    /\ \A i \in 1..Len(jobClock) - 1 : jobClock[i].at <= jobClock[i + 1].at
    /\ ClockIds(jobClock) \intersect ClockIds(jobRun.due) = {}

\* restore_due_clock_jobs: a job that was queued runs, unless its timer is cleared or the
\* runtime is poisoned; a turn cut short by its budget or by an error loses none.
JobsRunOrStay ==
    \A id \in JobIds :
       Held(id) /\ ~Held(id)' => jobLast' = id \/ id \in jobCancelled \/ jobDead'

\* Timers fire in the order of their instants, however turns were cut.
TimersInOrder ==
    \A entry \in Range(jobClock) \union Range(jobRun.due) :
       jobRun.step = "clock" /\ jobLast' = entry.id =>
           \A e \in Range(jobClock) \union Range(jobRun.due) :
               e.id \notin jobCancelled => entry.at <= e.at

\* "plugin job turn cannot finish before its absolute deadline": no fetch is running when
\* the deadline of its callback has passed.
FetchEndsInTime == jobRun.step \in {"fetch1", "fetch2"} => jobNow <= jobRun.deadline

\* Every callback ends, with a value, an error or a poisoned runtime, even when its promise
\* never settles or its jobs queue jobs for ever.
CallbacksEnd == (jobRun.mode = "await") ~> (jobRun.mode # "await")

\* A timer that is due fires in the end, or was cleared, or its runtime is poisoned: jobs
\* that queue jobs for ever cannot starve it, because the background limit stops them.
\* (The clock must move on: a timer set anew for the same instant may go before it.)
DueTimersFire ==
    \A id \in JobIds :
        (\E e \in Range(jobClock) : e.id = id /\ e.at <= jobNow /\ e.at < MaxJobNow)
            ~> (jobLast = id \/ id \in jobCancelled \/ jobDead \/ jobStop)
=============================================================================
