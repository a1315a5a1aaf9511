--------------------------- MODULE SessionProofs ---------------------------
(***************************************************************************)
(* From the start of the application to the accounts signed in and their   *)
(* collections synchronised, proved: StartsAreSafe for any number of calls *)
(* of loadSnapshot, reloads of the page and failing stages, AccountsAgree  *)
(* for any number of accounts, commands at a time, saves, restarts, logins *)
(* and ports, ReconcileConverges for any collection, and that no           *)
(* notification is passed over.                                            *)
(***************************************************************************)
EXTENDS Startup, Logins, CollectionSync, NotificationSync, FiniteSetTheorems,
        SequenceTheorems, WellFoundedInduction, TLAPS

-----------------------------------------------------------------------------
(***************************************************************************)
(* The start.                                                              *)
(***************************************************************************)

States == {"initializing", "ready", "failed"}
LoadSteps == {"none", "start", "retry", "subscribe", "look", "wait", "read", "over"}

\* A call that has asked for a start, and one that may still bring the page its snapshot.
Asked == {"subscribe", "look", "wait", "read"}
Pending == Asked \cup {"start"}

StartTyped ==
    /\ btGate \in [state : States, running : BOOLEAN, version : Nat]
    /\ \E n \in Nat : btWorkers \in [1..n -> {0, 1, 2, 3, 4, 9}]
    /\ btPage \in [doc : Nat, status : {"idle", "loading", "recovering", "ready", "error"},
                   stage : {"listeners", "snapshot", "complete"}, snapshot : BOOLEAN]
    /\ btLoad \in [BtIds -> [at : LoadSteps, doc : Nat, seen : Nat]]
    /\ btCorrupt \in BOOLEAN /\ btPanicked \in BOOLEAN /\ btExcused \in BOOLEAN

\* The flag of the gate and the workers: a worker runs only under the flag, and the flag
\* outlives its worker only after a panic.
WorkerInv ==
    /\ \A v, w \in BtAtWork : v = w
    /\ BtAtWork # {} => btGate.running
    /\ btGate.running => btGate.state = "initializing" /\ (BtAtWork # {} \/ btPanicked)

\* The calls at the gate: no version is seen before it is made, who asked for a start finds
\* one under way or over, and whoever saw the newest version and waits saw no end of it.
WaitInv ==
    /\ \A l \in BtIds : btLoad[l].seen <= btGate.version
    /\ \A l \in BtIds : btLoad[l].at \in Asked => btGate.running \/ btGate.state # "initializing"
    /\ \A l \in BtIds : btLoad[l].at = "wait" /\ btLoad[l].seen = btGate.version
                        => btGate.state = "initializing"

\* Ready is for good: what is read then was restored and is streamed.
ReadyInv ==
    /\ \A l \in BtIds : btLoad[l].at = "read" => btGate.state = "ready"
    /\ btGate.state = "ready" => btStreams = btSessions
    /\ btPage.snapshot => btGate.state = "ready"
    /\ btPage.stage = "complete" => btPage.snapshot

\* A page that asked and has no snapshot still has a call that may bring it one, unless the
\* start failed.
PageInv ==
    btPage.stage = "snapshot" /\ ~btPage.snapshot /\ ~btExcused /\ btGate.state # "failed"
    => \E l \in BtIds : btLoad[l].doc = btPage.doc /\ btLoad[l].at \in Pending

StartInv == StartTyped /\ WorkerInv /\ WaitInv /\ ReadyInv /\ PageInv

(***************************************************************************)
(* The workers.                                                            *)
(***************************************************************************)

\* The page's calls change neither the gate nor the workers, or begin a start: BtSpawn adds one
\* worker at its first stage beside those there were.
LEMMA SpawnAddsOne ==
    ASSUME NEW n \in Nat, btWorkers \in [1..n -> {0, 1, 2, 3, 4, 9}], BtSpawn
    PROVE  /\ btWorkers' \in [1..(n + 1) -> {0, 1, 2, 3, 4, 9}]
           /\ BtAtWork' = BtAtWork \cup {n + 1}
<1>1. DOMAIN btWorkers = 1..n
  OBVIOUS
<1>2. Cardinality(DOMAIN btWorkers) = n
  BY <1>1, FS_Interval
<1>3. btWorkers' = [w \in 1..(n + 1) |-> IF w \in 1..n THEN btWorkers[w] ELSE 1]
  BY <1>1, <1>2 DEF BtSpawn
<1>4. btWorkers' \in [1..(n + 1) -> {0, 1, 2, 3, 4, 9}]
  BY <1>3
<1>5. DOMAIN btWorkers' = 1..(n + 1)
  BY <1>3
<1>6. BtAtWork' = {w \in 1..(n + 1) : btWorkers'[w] \in 1..4}
  BY <1>5 DEF BtAtWork
<1>7. BtAtWork = {w \in 1..n : btWorkers[w] \in 1..4}
  BY <1>1 DEF BtAtWork
<1>8. ASSUME NEW w \in 1..n PROVE w # n + 1 /\ w \in 1..(n + 1) /\ btWorkers'[w] = btWorkers[w]
  BY <1>3
<1>9. n + 1 \in 1..(n + 1) /\ btWorkers'[n + 1] = 1
  BY <1>3
<1>10. ASSUME NEW w \in 1..(n + 1), w # n + 1 PROVE w \in 1..n
  BY <1>10
<1> QED
  BY <1>4, <1>6, <1>7, <1>8, <1>9, <1>10

\* A worker that moves on leaves the others where they are.
LEMMA OneMoves ==
    ASSUME NEW n \in Nat, btWorkers \in [1..n -> {0, 1, 2, 3, 4, 9}],
           NEW w \in DOMAIN btWorkers, NEW s \in {0, 1, 2, 3, 4, 9},
           btWorkers' = [btWorkers EXCEPT ![w] = s]
    PROVE  /\ btWorkers' \in [1..n -> {0, 1, 2, 3, 4, 9}]
           /\ s \in 1..4 => BtAtWork' = BtAtWork \cup {w}
           /\ s \in {0, 9} => BtAtWork' = BtAtWork \ {w}
<1>1. DOMAIN btWorkers = 1..n /\ DOMAIN btWorkers' = 1..n
  OBVIOUS
<1>2. btWorkers'[w] = s /\ \A v \in 1..n : v # w => btWorkers'[v] = btWorkers[v]
  BY <1>1
<1> QED
  BY <1>1, <1>2 DEF BtAtWork

(***************************************************************************)
(* Every step keeps StartInv.                                              *)
(***************************************************************************)

LEMMA InitHolds == StartupInit => StartInv
<1> SUFFICES ASSUME StartupInit PROVE StartInv
  OBVIOUS
<1> USE DEF StartupInit
<1>1. btWorkers \in [1..0 -> {0, 1, 2, 3, 4, 9}] /\ BtAtWork = {}
  BY DEF BtAtWork
<1>2. StartTyped
  BY <1>1, 0 \in Nat DEF StartTyped, States, LoadSteps, BtNew
<1>3. WorkerInv
  BY <1>1 DEF WorkerInv
<1>4. WaitInv /\ ReadyInv /\ PageInv
  BY DEF WaitInv, ReadyInv, PageInv, Asked, Pending, BtNew
<1> QED
  BY <1>2, <1>3, <1>4 DEF StartInv

\* A call moves on, and nothing else but its receiver.
LEMMA CallMoves ==
    ASSUME StartTyped, NEW l \in BtIds, NEW r \in [at : LoadSteps, doc : Nat, seen : Nat],
           btLoad' = [btLoad EXCEPT ![l] = r]
    PROVE  /\ btLoad' \in [BtIds -> [at : LoadSteps, doc : Nat, seen : Nat]]
           /\ btLoad'[l] = r
           /\ \A k \in BtIds : k # l => btLoad'[k] = btLoad[k]
  BY DEF StartTyped

LEMMA StepMoves ==
    ASSUME StartTyped, NEW l \in BtIds, NEW s \in LoadSteps, btLoad' = [btLoad EXCEPT ![l].at = s]
    PROVE  /\ btLoad' \in [BtIds -> [at : LoadSteps, doc : Nat, seen : Nat]]
           /\ btLoad'[l].at = s /\ btLoad'[l].doc = btLoad[l].doc /\ btLoad'[l].seen = btLoad[l].seen
           /\ \A k \in BtIds : k # l => btLoad'[k] = btLoad[k]
<1>1. btLoad[l] \in [at : LoadSteps, doc : Nat, seen : Nat]
  BY DEF StartTyped
<1> DEFINE r == [btLoad[l] EXCEPT !.at = s]
<1>2. r \in [at : LoadSteps, doc : Nat, seen : Nat]
  BY <1>1
<1>3. r.at = s /\ r.doc = btLoad[l].doc /\ r.seen = btLoad[l].seen
  BY <1>1
<1>4. btLoad' = [btLoad EXCEPT ![l] = r]
  BY DEF StartTyped
<1> HIDE DEF r
<1> QED
  BY <1>2, <1>3, <1>4, CallMoves

LEMMA SeenMoves ==
    ASSUME StartTyped, NEW l \in BtIds, NEW s \in LoadSteps,
           btLoad' = [btLoad EXCEPT ![l].at = s, ![l].seen = btGate.version]
    PROVE  /\ btLoad' \in [BtIds -> [at : LoadSteps, doc : Nat, seen : Nat]]
           /\ btLoad'[l].at = s /\ btLoad'[l].doc = btLoad[l].doc
           /\ btLoad'[l].seen = btGate.version
           /\ \A k \in BtIds : k # l => btLoad'[k] = btLoad[k]
<1>1. btLoad[l] \in [at : LoadSteps, doc : Nat, seen : Nat] /\ btGate.version \in Nat
  BY DEF StartTyped
<1> DEFINE r == [at |-> s, doc |-> btLoad[l].doc, seen |-> btGate.version]
<1>2. r \in [at : LoadSteps, doc : Nat, seen : Nat]
  BY <1>1
<1>3. r.at = s /\ r.doc = btLoad[l].doc /\ r.seen = btGate.version
  OBVIOUS
<1> DEFINE f == [btLoad EXCEPT ![l].at = s]
<1>4. f = [btLoad EXCEPT ![l] = [btLoad[l] EXCEPT !.at = s]]
  BY DEF StartTyped
<1>5. f \in [BtIds -> [at : LoadSteps, doc : Nat, seen : Nat]]
  BY <1>1, <1>4 DEF StartTyped
<1>6. btLoad' = [f EXCEPT ![l].seen = btGate.version]
  OBVIOUS
<1>7. f[l] = [at |-> s, doc |-> btLoad[l].doc, seen |-> btLoad[l].seen]
  BY <1>1, <1>4 DEF StartTyped
<1>8. \A k \in BtIds : k # l => f[k] = btLoad[k]
  BY <1>4 DEF StartTyped
<1> HIDE DEF f
<1>9. btLoad' \in [BtIds -> [at : LoadSteps, doc : Nat, seen : Nat]]
      /\ \A k \in BtIds : k # l => btLoad'[k] = f[k]
  <2>1. PICK g \in [at : LoadSteps, doc : Nat, seen : Nat] : g = [f[l] EXCEPT !.seen = btGate.version]
    BY <1>1, <1>5
  <2>2. btLoad' = [f EXCEPT ![l] = g]
    BY <1>5, <1>6, <2>1
  <2> QED BY <1>5, <2>2
<1>10. btLoad'[l] = r
  <2>1. btLoad'[l] = [f[l] EXCEPT !.seen = btGate.version]
    BY <1>5, <1>6
  <2> QED BY <1>7, <2>1
<1> QED
  BY <1>3, <1>8, <1>9, <1>10

\* The parts of StartInv read the workers only through BtAtWork.
LEMMA GateStill ==
    ASSUME WorkerInv, UNCHANGED <<btGate, btPanicked>>, BtAtWork' = BtAtWork
    PROVE  WorkerInv'
  BY DEF WorkerInv

\* An error moves no more of the page than its status.
PageKept ==
    /\ btPage' \in [doc : Nat, status : {"idle", "loading", "recovering", "ready", "error"},
                    stage : {"listeners", "snapshot", "complete"}, snapshot : BOOLEAN]
    /\ btPage'.doc = btPage.doc /\ btPage'.stage = btPage.stage
    /\ btPage'.snapshot = btPage.snapshot

LEMMA FailKeeps == ASSUME StartTyped, NEW l \in BtIds, BtFailTo(l) PROVE PageKept
  BY DEF StartTyped, BtFailTo, PageKept

LEMMA CallsKeep ==
    ASSUME StartInv, NEW l \in BtIds, BtCalls(l)
    PROVE  StartInv'
<1> USE DEF StartInv, BtCalls, BtOutside
<1> DEFINE r == [at |-> IF BtRecovering THEN "retry" ELSE "start", doc |-> btPage.doc, seen |-> 0]
<1>1. r \in [at : LoadSteps, doc : Nat, seen : Nat] /\ r.at \in {"retry", "start"}
      /\ r.doc = btPage.doc /\ r.seen = 0 /\ (~BtRecovering => r.at = "start")
  BY DEF StartTyped, LoadSteps
<1>2. btLoad' = [btLoad EXCEPT ![l] = r]
  OBVIOUS
<1> HIDE DEF r
<1>3. btLoad' \in [BtIds -> [at : LoadSteps, doc : Nat, seen : Nat]] /\ btLoad'[l] = r
      /\ \A k \in BtIds : k # l => btLoad'[k] = btLoad[k]
  <2>1. PICK q \in [at : LoadSteps, doc : Nat, seen : Nat] : q = r
    BY <1>1
  <2>2. StartTyped /\ btLoad' = [btLoad EXCEPT ![l] = q]
    BY <1>2, <2>1
  <2>3. /\ btLoad' \in [BtIds -> [at : LoadSteps, doc : Nat, seen : Nat]] /\ btLoad'[l] = q
        /\ \A k \in BtIds : k # l => btLoad'[k] = btLoad[k]
    BY <2>2, CallMoves
  <2> QED BY <2>1, <2>3
<1>4. btPage'.doc = btPage.doc /\ btPage'.snapshot = btPage.snapshot
      /\ btPage'.stage = "snapshot"
      /\ btPage'.status \in {"loading", "recovering"}
      /\ btPage' \in [doc : Nat, status : {"idle", "loading", "recovering", "ready", "error"},
                      stage : {"listeners", "snapshot", "complete"}, snapshot : BOOLEAN]
  BY DEF StartTyped
<1>5. BtAtWork' = BtAtWork
  BY DEF BtAtWork
<1>6. StartTyped'
  BY <1>3, <1>4 DEF StartTyped
<1>7. WorkerInv'
  BY <1>5, GateStill
<1>8. WaitInv'
  BY <1>1, <1>3 DEF WaitInv, Asked, StartTyped
<1>9. ReadyInv'
  BY <1>1, <1>3, <1>4 DEF ReadyInv
<1>10. PageInv'
  <2> SUFFICES ASSUME ~btPage.snapshot, ~btExcused, btGate.state # "failed"
               PROVE  \E k \in BtIds : btLoad'[k].doc = btPage.doc /\ btLoad'[k].at \in Pending
    BY <1>4 DEF PageInv
  <2>1. CASE ~BtRecovering
    BY <2>1, <1>1, <1>3 DEF Pending
  <2>2. CASE BtRecovering
    <3>1. btPage.stage = "snapshot"
      BY <2>2 DEF BtRecovering, StartTyped, ReadyInv
    <3>2. PICK k \in BtIds : btLoad[k].doc = btPage.doc /\ btLoad[k].at \in Pending
      BY <3>1 DEF PageInv
    <3>3. k # l
      BY <3>2 DEF Pending, Asked
    <3> QED
      BY <3>2, <3>3, <1>3
  <2> QED
    BY <2>1, <2>2
<1> QED
  BY <1>6, <1>7, <1>8, <1>9, <1>10

\* A handshake: it begins a start where none has begun, and joins the one there is otherwise.
LEMMA StartsKeep ==
    ASSUME StartInv, NEW l \in BtIds, BtStarts(l)
    PROVE  StartInv'
<1> USE DEF StartInv, BtOutside
<1>1. btLoad[l].at = "start" /\ btLoad' = [btLoad EXCEPT ![l].at = "subscribe"]
      /\ UNCHANGED <<btPage, btSessions, btStreams, btCorrupt, btPanicked, btExcused>>
  BY DEF BtStarts
<1>2. btLoad' \in [BtIds -> [at : LoadSteps, doc : Nat, seen : Nat]]
      /\ btLoad'[l].at = "subscribe" /\ btLoad'[l].doc = btLoad[l].doc
      /\ btLoad'[l].seen = btLoad[l].seen
      /\ \A k \in BtIds : k # l => btLoad'[k] = btLoad[k]
  BY <1>1, StepMoves DEF LoadSteps
<1>3. /\ btGate' \in [state : States, running : BOOLEAN, version : Nat]
      /\ btGate'.state = btGate.state /\ btGate'.version = btGate.version
      /\ btGate.running => btGate'.running
      /\ btGate.state = "initializing" => btGate'.running
  BY DEF BtStarts, BtMayBegin, StartTyped, States
<1>4. StartTyped' /\ WorkerInv'
  <2>1. CASE BtMayBegin
    <3> PICK n \in Nat : btWorkers \in [1..n -> {0, 1, 2, 3, 4, 9}]
      BY DEF StartTyped
    <3>1. btGate'.running /\ BtSpawn
      BY <2>1 DEF BtStarts, StartTyped
    <3>2. btWorkers' \in [1..(n + 1) -> {0, 1, 2, 3, 4, 9}] /\ BtAtWork' = BtAtWork \cup {n + 1}
      BY <3>1, SpawnAddsOne
    <3>3. BtAtWork = {}
      BY <2>1 DEF BtMayBegin, WorkerInv
    <3>4. n + 1 \in Nat
      OBVIOUS
    <3>5. StartTyped'
      BY <1>1, <1>2, <1>3, <3>2, <3>4 DEF StartTyped
    <3>6. WorkerInv'
      BY <2>1, <1>3, <3>1, <3>2, <3>3 DEF WorkerInv, BtMayBegin
    <3> QED
      BY <3>5, <3>6
  <2>2. CASE ~BtMayBegin
    <3>1. UNCHANGED <<btGate, btWorkers>>
      BY <2>2 DEF BtStarts
    <3>2. BtAtWork' = BtAtWork
      BY <3>1 DEF BtAtWork
    <3>3. StartTyped'
      BY <1>1, <1>2, <3>1 DEF StartTyped
    <3> QED
      BY <1>1, <3>1, <3>2, <3>3, GateStill
  <2> QED
    BY <2>1, <2>2
<1>5. WaitInv'
  <2>1. ASSUME NEW k \in BtIds PROVE btLoad'[k].seen <= btGate'.version
    BY <1>1, <1>2, <1>3 DEF WaitInv
  <2>2. ASSUME NEW k \in BtIds, btLoad'[k].at \in Asked
        PROVE  btGate'.running \/ btGate'.state # "initializing"
    BY <1>3, <2>2 DEF WaitInv
  <2>3. ASSUME NEW k \in BtIds, btLoad'[k].at = "wait", btLoad'[k].seen = btGate'.version
        PROVE  btGate'.state = "initializing"
    BY <1>2, <1>3, <2>3 DEF WaitInv
  <2> QED
    BY <2>1, <2>2, <2>3 DEF WaitInv
<1>6. ReadyInv'
  BY <1>1, <1>2, <1>3 DEF ReadyInv
<1>7. PageInv'
  <2> SUFFICES ASSUME btPage.stage = "snapshot", ~btPage.snapshot, ~btExcused,
                      btGate.state # "failed"
               PROVE  \E k \in BtIds : btLoad'[k].doc = btPage.doc /\ btLoad'[k].at \in Pending
    BY <1>1, <1>3 DEF PageInv
  <2>1. PICK k \in BtIds : btLoad[k].doc = btPage.doc /\ btLoad[k].at \in Pending
    BY DEF PageInv
  <2>2. btLoad'[k].doc = btPage.doc /\ btLoad'[k].at \in Pending
    BY <1>2, <2>1 DEF Pending, Asked
  <2> QED
    BY <2>2
<1> QED
  BY <1>4, <1>5, <1>6, <1>7

\* A retry: a new start after a failed one, the call joins the one under way, or is refused.
LEMMA RetriesKeep ==
    ASSUME StartInv, NEW l \in BtIds, BtRetries(l)
    PROVE  StartInv'
<1> USE DEF StartInv
<1>0. btLoad[l].at = "retry" /\ UNCHANGED <<btSessions, btStreams, btCorrupt, btPanicked>>
  BY DEF BtRetries
<1>1. CASE BtMayRetry
  <2>1. /\ btGate' = [state |-> "initializing", running |-> TRUE, version |-> btGate.version + 1]
        /\ BtSpawn /\ btLoad' = [btLoad EXCEPT ![l].at = "subscribe"] /\ UNCHANGED btPage
        /\ ~btGate.running /\ btGate.state = "failed"
    BY <1>1 DEF BtRetries, BtMayRetry
  <2>2. btExcused' \in BOOLEAN /\ (~btExcused' => btLoad[l].doc = btPage.doc)
    BY <1>1 DEF BtRetries, StartTyped
  <2>3. /\ btGate' \in [state : States, running : BOOLEAN, version : Nat]
        /\ btGate'.state = "initializing" /\ btGate'.running
        /\ btGate'.version = btGate.version + 1
    BY <2>1 DEF StartTyped, States
  <2>4. btLoad' \in [BtIds -> [at : LoadSteps, doc : Nat, seen : Nat]]
        /\ btLoad'[l].at = "subscribe" /\ btLoad'[l].doc = btLoad[l].doc
        /\ btLoad'[l].seen = btLoad[l].seen
        /\ \A k \in BtIds : k # l => btLoad'[k] = btLoad[k]
    BY <2>1, StepMoves DEF LoadSteps
  <2> PICK n \in Nat : btWorkers \in [1..n -> {0, 1, 2, 3, 4, 9}]
    BY DEF StartTyped
  <2>5. btWorkers' \in [1..(n + 1) -> {0, 1, 2, 3, 4, 9}] /\ BtAtWork' = BtAtWork \cup {n + 1}
    BY <2>1, SpawnAddsOne
  <2>6. BtAtWork = {}
    BY <2>1 DEF WorkerInv
  <2>7. n + 1 \in Nat
    OBVIOUS
  <2>8. StartTyped'
    BY <1>0, <2>1, <2>2, <2>3, <2>4, <2>5, <2>7 DEF StartTyped
  <2>9. WorkerInv'
    BY <2>3, <2>5, <2>6 DEF WorkerInv
  <2>10. \A k \in BtIds : btLoad'[k].seen = btLoad[k].seen /\ btLoad[k].seen \in Nat
                          /\ btLoad[k].seen <= btGate.version /\ btGate.version \in Nat
    BY <2>4 DEF WaitInv, StartTyped
  <2>11. WaitInv'
    BY <2>3, <2>10 DEF WaitInv
  <2>12. ReadyInv'
    BY <2>1, <2>3, <2>4 DEF ReadyInv
  <2>13. PageInv'
    BY <2>1, <2>2, <2>4 DEF PageInv, Pending, Asked
  <2> QED
    BY <2>8, <2>9, <2>11, <2>12, <2>13
<1>2. CASE ~BtMayRetry /\ btGate.running
  <2>1. btLoad' = [btLoad EXCEPT ![l].at = "subscribe"]
        /\ UNCHANGED <<btPage, btGate, btWorkers>> /\ (btExcused' <=> btExcused)
        /\ btExcused' \in BOOLEAN
    BY <1>2 DEF BtRetries, StartTyped
  <2>2. btLoad' \in [BtIds -> [at : LoadSteps, doc : Nat, seen : Nat]]
        /\ btLoad'[l].at = "subscribe" /\ btLoad'[l].doc = btLoad[l].doc
        /\ btLoad'[l].seen = btLoad[l].seen
        /\ \A k \in BtIds : k # l => btLoad'[k] = btLoad[k]
    BY <2>1, StepMoves DEF LoadSteps
  <2>3. BtAtWork' = BtAtWork
    BY <2>1 DEF BtAtWork
  <2>4. StartTyped' /\ WorkerInv'
    BY <1>0, <2>1, <2>2, <2>3, GateStill DEF StartTyped
  <2>5. WaitInv' /\ ReadyInv'
    BY <1>0, <1>2, <2>1, <2>2 DEF WaitInv, ReadyInv
  <2>6. PageInv'
    BY <1>0, <2>1, <2>2 DEF PageInv, Pending, Asked
  <2> QED
    BY <2>4, <2>5, <2>6
<1>3. CASE ~BtMayRetry /\ ~btGate.running
  <2>1. btLoad' = [btLoad EXCEPT ![l].at = "over"] /\ BtFailTo(l)
        /\ UNCHANGED <<btGate, btWorkers>> /\ (btExcused' <=> btExcused)
        /\ btExcused' \in BOOLEAN
    BY <1>3 DEF BtRetries, StartTyped
  <2>2. btLoad' \in [BtIds -> [at : LoadSteps, doc : Nat, seen : Nat]]
        /\ btLoad'[l].at = "over" /\ btLoad'[l].doc = btLoad[l].doc
        /\ btLoad'[l].seen = btLoad[l].seen
        /\ \A k \in BtIds : k # l => btLoad'[k] = btLoad[k]
    BY <2>1, StepMoves DEF LoadSteps
  <2>3. BtAtWork' = BtAtWork
    BY <2>1 DEF BtAtWork
  <2>4. PageKept
    BY <2>1, FailKeeps
  <2>5. StartTyped' /\ WorkerInv'
    BY <1>0, <2>1, <2>2, <2>3, <2>4, GateStill DEF StartTyped, PageKept
  <2>6. WaitInv' /\ ReadyInv'
    BY <1>0, <2>1, <2>2, <2>4 DEF WaitInv, ReadyInv, PageKept, Asked
  <2>7. PageInv'
    BY <1>0, <2>1, <2>2, <2>4 DEF PageInv, Pending, Asked, PageKept
  <2> QED
    BY <2>5, <2>6, <2>7
<1> QED
  BY <1>1, <1>2, <1>3

\* wait_until_ready: the receiver looks first, and wakes for a version it has not seen.
LEMMA WaitsKeep ==
    ASSUME StartInv, NEW l \in BtIds, BtSubscribes(l) \/ BtLooks(l) \/ BtWakes(l)
    PROVE  StartInv'
<1> USE DEF StartInv, BtOutside
<1>1. /\ UNCHANGED <<btGate, btWorkers, btSessions, btStreams, btCorrupt, btPanicked, btExcused>>
      /\ btLoad[l].at \in Asked
  BY DEF BtSubscribes, BtLooks, BtWakes, Asked
<1>2. /\ btLoad' \in [BtIds -> [at : LoadSteps, doc : Nat, seen : Nat]]
      /\ btLoad'[l].doc = btLoad[l].doc
      /\ \A k \in BtIds : k # l => btLoad'[k] = btLoad[k]
      /\ btLoad'[l].at \in {"look", "wait", "read", "over"}
      /\ (btLoad'[l].at = "wait" => btGate.state = "initializing")
      /\ (btLoad'[l].at = "read" => btGate.state = "ready")
      /\ (btLoad'[l].at = "over" => btGate.state = "failed")
      /\ btLoad'[l].seen <= btGate.version
  <2>0. btGate.version \in Nat /\ btGate.state \in States /\ btLoad[l].seen <= btGate.version
    BY DEF StartTyped, WaitInv
  <2>1. CASE BtSubscribes(l)
    <3>1. btLoad' = [btLoad EXCEPT ![l].at = "look", ![l].seen = btGate.version]
      BY <2>1 DEF BtSubscribes, BtFirstStep
    <3>2. "look" \in LoadSteps
      BY DEF LoadSteps
    <3>3. /\ btLoad' \in [BtIds -> [at : LoadSteps, doc : Nat, seen : Nat]]
          /\ btLoad'[l].at = "look" /\ btLoad'[l].doc = btLoad[l].doc
          /\ btLoad'[l].seen = btGate.version
          /\ \A k \in BtIds : k # l => btLoad'[k] = btLoad[k]
      BY <3>1, <3>2, SeenMoves
    <3>4. btGate.version <= btGate.version
      BY <2>0
    <3> QED
      BY <3>3, <3>4
  <2>2. CASE BtLooks(l)
    <3> DEFINE s == CASE btGate.state = "initializing" -> "wait"
                      [] btGate.state = "ready" -> "read" [] OTHER -> "over"
    <3>1. btLoad' = [btLoad EXCEPT ![l].at = s]
      BY <2>2 DEF BtLooks
    <3>2. /\ s \in {"wait", "read", "over"}
          /\ s = "wait" => btGate.state = "initializing"
          /\ s = "read" => btGate.state = "ready"
          /\ s = "over" => btGate.state = "failed"
      BY <2>0 DEF States
    <3> HIDE DEF s
    <3>3. s \in LoadSteps
      BY <3>2 DEF LoadSteps
    <3> QED
      BY <2>0, <3>1, <3>2, <3>3, StepMoves
  <2>3. CASE BtWakes(l)
    <3>1. btLoad' = [btLoad EXCEPT ![l].at = "look", ![l].seen = btGate.version]
      BY <2>3 DEF BtWakes
    <3>2. "look" \in LoadSteps
      BY DEF LoadSteps
    <3>3. /\ btLoad' \in [BtIds -> [at : LoadSteps, doc : Nat, seen : Nat]]
          /\ btLoad'[l].at = "look" /\ btLoad'[l].doc = btLoad[l].doc
          /\ btLoad'[l].seen = btGate.version
          /\ \A k \in BtIds : k # l => btLoad'[k] = btLoad[k]
      BY <3>1, <3>2, SeenMoves
    <3>4. btGate.version <= btGate.version
      BY <2>0
    <3> QED
      BY <3>3, <3>4
  <2> QED
    BY <2>1, <2>2, <2>3
<1>3. PageKept
  BY FailKeeps DEF BtSubscribes, BtLooks, BtWakes, PageKept, StartTyped
<1>4. BtAtWork' = BtAtWork
  BY <1>1 DEF BtAtWork
<1>5. StartTyped' /\ WorkerInv'
  BY <1>1, <1>2, <1>3, <1>4, GateStill DEF StartTyped, PageKept
<1>6. WaitInv'
  <2>1. ASSUME NEW k \in BtIds PROVE btLoad'[k].seen <= btGate.version
    BY <1>2 DEF WaitInv
  <2>2. ASSUME NEW k \in BtIds, btLoad'[k].at \in Asked
        PROVE  btGate.running \/ btGate.state # "initializing"
    BY <1>1, <1>2, <2>2 DEF WaitInv
  <2>3. ASSUME NEW k \in BtIds, btLoad'[k].at = "wait", btLoad'[k].seen = btGate.version
        PROVE  btGate.state = "initializing"
    <3>1. CASE k = l
      BY <1>2, <2>3, <3>1
    <3>2. CASE k # l
      BY <1>2, <2>3, <3>2 DEF WaitInv
    <3> QED
      BY <3>1, <3>2
  <2> QED
    BY <1>1, <2>1, <2>2, <2>3 DEF WaitInv
<1>7. ReadyInv'
  <2>1. ASSUME NEW k \in BtIds, btLoad'[k].at = "read" PROVE btGate.state = "ready"
    <3>1. CASE k = l
      BY <1>2, <2>1, <3>1
    <3>2. CASE k # l
      BY <1>2, <2>1, <3>2 DEF ReadyInv
    <3> QED
      BY <3>1, <3>2
  <2> QED
    BY <1>1, <1>3, <2>1 DEF ReadyInv, PageKept
<1>8. PageInv'
  <2> SUFFICES ASSUME btPage.stage = "snapshot", ~btPage.snapshot, ~btExcused,
                      btGate.state # "failed"
               PROVE  \E k \in BtIds : btLoad'[k].doc = btPage.doc /\ btLoad'[k].at \in Pending
    BY <1>1, <1>3 DEF PageInv, PageKept
  <2>1. PICK k \in BtIds : btLoad[k].doc = btPage.doc /\ btLoad[k].at \in Pending
    BY DEF PageInv
  <2>2. btLoad'[l].at \in Pending
    BY <1>2 DEF Pending, Asked
  <2>3. btLoad'[k].doc = btPage.doc /\ btLoad'[k].at \in Pending
    BY <1>2, <2>1, <2>2
  <2> QED
    BY <2>3
<1> QED
  BY <1>5, <1>6, <1>7, <1>8

\* The snapshot is read behind the gate: it boots the page that asked, if that still stands.
LEMMA ReadsKeep ==
    ASSUME StartInv, NEW l \in BtIds, BtReadsSnapshot(l)
    PROVE  StartInv'
<1> USE DEF StartInv
<1>1. /\ UNCHANGED <<btGate, btWorkers, btSessions, btStreams, btPanicked>>
      /\ btLoad[l].at = "read" /\ btLoad' = [btLoad EXCEPT ![l].at = "over"]
  BY DEF BtReadsSnapshot
<1>2. btLoad' \in [BtIds -> [at : LoadSteps, doc : Nat, seen : Nat]]
      /\ btLoad'[l].at = "over" /\ btLoad'[l].doc = btLoad[l].doc
      /\ btLoad'[l].seen = btLoad[l].seen
      /\ \A k \in BtIds : k # l => btLoad'[k] = btLoad[k]
  BY <1>1, StepMoves DEF LoadSteps
<1>3. btCorrupt' \in BOOLEAN /\ btExcused' \in BOOLEAN /\ (btExcused => btExcused')
      /\ (btCorrupt => btExcused')
  BY DEF BtReadsSnapshot, StartTyped
<1>4. /\ btPage' \in [doc : Nat, status : {"idle", "loading", "recovering", "ready", "error"},
                      stage : {"listeners", "snapshot", "complete"}, snapshot : BOOLEAN]
      /\ btPage'.doc = btPage.doc
      /\ ~btCorrupt /\ btLoad[l].doc = btPage.doc => btPage'.snapshot
      /\ \/ btPage'.stage = btPage.stage /\ btPage'.snapshot = btPage.snapshot
         \/ btPage'.snapshot
  <2>1. /\ ~btCorrupt /\ btLoad[l].doc = btPage.doc => btPage'.snapshot
        /\ \/ btPage'.stage = btPage.stage /\ btPage'.snapshot = btPage.snapshot
           \/ btPage'.snapshot
    BY DEF BtReadsSnapshot, BtFailTo, StartTyped
  <2>2. /\ btPage' \in [doc : Nat, status : {"idle", "loading", "recovering", "ready", "error"},
                        stage : {"listeners", "snapshot", "complete"}, snapshot : BOOLEAN]
        /\ btPage'.doc = btPage.doc
    BY DEF BtReadsSnapshot, BtFailTo, StartTyped
  <2> QED BY <2>1, <2>2
<1>5. BtAtWork' = BtAtWork
  BY <1>1 DEF BtAtWork
<1>6. StartTyped' /\ WorkerInv'
  BY <1>1, <1>2, <1>3, <1>4, <1>5, GateStill DEF StartTyped
<1>7. WaitInv'
  BY <1>1, <1>2 DEF WaitInv, Asked
<1>8. ReadyInv'
  BY <1>1, <1>2, <1>4 DEF ReadyInv
<1>9. PageInv'
  <2> SUFFICES ASSUME btPage'.stage = "snapshot", ~btPage'.snapshot, ~btExcused',
                      btGate.state # "failed"
               PROVE  \E k \in BtIds : btLoad'[k].doc = btPage.doc /\ btLoad'[k].at \in Pending
    BY <1>1, <1>4 DEF PageInv
  <2>1. PICK k \in BtIds : btLoad[k].doc = btPage.doc /\ btLoad[k].at \in Pending
    BY <1>3, <1>4 DEF PageInv
  <2>2. k # l
    BY <1>3, <1>4, <2>1
  <2> QED
    BY <1>2, <2>1, <2>2
<1> QED
  BY <1>6, <1>7, <1>8, <1>9

\* The end of a start: the version moves on, so nobody who waits has seen it.
LEMMA FinishKeeps ==
    ASSUME StartInv, NEW s \in {"ready", "failed"}, BtFinish(s), UNCHANGED btLoad
    PROVE  /\ btGate' \in [state : States, running : BOOLEAN, version : Nat]
           /\ btGate'.state = s /\ ~btGate'.running
           /\ WaitInv'
<1> USE DEF StartInv
<1>1. btGate'.version = btGate.version + 1 /\ btGate.version \in Nat /\ btGate'.state = s
      /\ btGate'.running = FALSE
  BY DEF BtFinish, StartTyped
<1>2. btGate' \in [state : States, running : BOOLEAN, version : Nat]
  BY <1>1 DEF BtFinish, States
<1>3. \A k \in BtIds : btLoad[k].seen <= btGate.version /\ btLoad[k].seen \in Nat
  BY DEF WaitInv, StartTyped
<1>4. WaitInv'
  BY <1>1, <1>3 DEF WaitInv
<1> QED
  BY <1>1, <1>2, <1>4

\* A stage ends; the last one makes the gate ready with the streams of all sessions.
LEMMA EndsKeep ==
    ASSUME StartInv, NEW w \in DOMAIN btWorkers, NEW restored \in SUBSET BtAccts,
           BtStageEnds(w, restored)
    PROVE  StartInv'
<1> USE DEF StartInv
<1>1. w \in BtAtWork /\ btWorkers[w] \in 1..4
      /\ UNCHANGED <<btPage, btLoad, btCorrupt, btPanicked, btExcused>>
  BY DEF BtStageEnds, BtAtWork
<1>2. btGate.running /\ btGate.state = "initializing" /\ \A v \in BtAtWork : v = w
  BY <1>1 DEF WorkerInv
<1> PICK n \in Nat : btWorkers \in [1..n -> {0, 1, 2, 3, 4, 9}]
  BY DEF StartTyped
<1>3. CASE btWorkers[w] = 4
  <2>1. btWorkers' = [btWorkers EXCEPT ![w] = 0] /\ BtFinish("ready")
        /\ btStreams' = btSessions /\ btSessions' = btSessions
    BY <1>3 DEF BtStageEnds, BtEffect
  <2>2. btWorkers' \in [1..n -> {0, 1, 2, 3, 4, 9}] /\ BtAtWork' = BtAtWork \ {w}
    BY <2>1, OneMoves
  <2>3. /\ btGate' \in [state : States, running : BOOLEAN, version : Nat]
        /\ btGate'.state = "ready" /\ ~btGate'.running /\ WaitInv'
    BY <1>1, <2>1, FinishKeeps
  <2>4. StartTyped'
    BY <1>1, <2>2, <2>3 DEF StartTyped
  <2>5. WorkerInv'
    BY <1>2, <2>2, <2>3 DEF WorkerInv
  <2>6. ReadyInv'
    BY <1>1, <2>1, <2>3 DEF ReadyInv
  <2>7. PageInv'
    BY <1>1, <1>2, <2>3 DEF PageInv
  <2> QED
    BY <2>3, <2>4, <2>5, <2>6, <2>7
<1>4. CASE btWorkers[w] # 4
  <2> DEFINE s == btWorkers[w] + 1
  <2>1. btWorkers' = [btWorkers EXCEPT ![w] = s] /\ UNCHANGED btGate
    BY <1>4 DEF BtStageEnds
  <2>2. s \in {0, 1, 2, 3, 4, 9} /\ s \in 1..4
    BY <1>1, <1>4
  <2> HIDE DEF s
  <2>3. btWorkers' \in [1..n -> {0, 1, 2, 3, 4, 9}] /\ BtAtWork' = BtAtWork \cup {w}
    BY <2>1, <2>2, OneMoves
  <2>4. btWorkers' \in [1..n -> {0, 1, 2, 3, 4, 9}] /\ BtAtWork' = BtAtWork
    BY <1>1, <2>3
  <2>5. StartTyped'
    BY <1>1, <2>1, <2>4 DEF StartTyped
  <2>6. WorkerInv' /\ WaitInv' /\ PageInv'
    BY <1>1, <2>1, <2>4, GateStill DEF WaitInv, PageInv
  <2>7. ReadyInv'
    BY <1>1, <1>2, <2>1 DEF ReadyInv
  <2> QED
    BY <2>5, <2>6, <2>7
<1> QED
  BY <1>3, <1>4

\* A stage fails: the gate tells it at once, the page hears of it later.
LEMMA FailuresKeep ==
    ASSUME StartInv, NEW w \in DOMAIN btWorkers, BtStageFails(w)
    PROVE  StartInv'
<1> USE DEF StartInv
<1>1. w \in BtAtWork /\ btWorkers' = [btWorkers EXCEPT ![w] = 9] /\ BtFinish("failed")
      /\ UNCHANGED <<btPage, btLoad, btSessions, btStreams, btCorrupt, btPanicked, btExcused>>
  BY DEF BtStageFails, BtAtWork
<1>2. btGate.state = "initializing" /\ \A v \in BtAtWork : v = w
  BY <1>1 DEF WorkerInv
<1> PICK n \in Nat : btWorkers \in [1..n -> {0, 1, 2, 3, 4, 9}]
  BY DEF StartTyped
<1>3. btWorkers' \in [1..n -> {0, 1, 2, 3, 4, 9}] /\ BtAtWork' = BtAtWork \ {w}
  BY <1>1, OneMoves
<1>4. /\ btGate' \in [state : States, running : BOOLEAN, version : Nat]
      /\ btGate'.state = "failed" /\ ~btGate'.running /\ WaitInv'
  BY <1>1, FinishKeeps
<1>5. StartTyped'
  BY <1>1, <1>3, <1>4 DEF StartTyped
<1>6. WorkerInv'
  BY <1>2, <1>3, <1>4 DEF WorkerInv
<1>7. ReadyInv' /\ PageInv'
  BY <1>1, <1>2, <1>4 DEF ReadyInv, PageInv
<1> QED
  BY <1>4, <1>5, <1>6, <1>7

LEMMA ShownKeeps ==
    ASSUME StartInv, NEW w \in DOMAIN btWorkers, BtFailureShown(w)
    PROVE  StartInv'
<1> USE DEF StartInv, BtOutside
<1>1. btWorkers[w] = 9 /\ btWorkers' = [btWorkers EXCEPT ![w] = 0]
      /\ UNCHANGED <<btGate, btLoad, btSessions, btStreams, btCorrupt, btPanicked, btExcused>>
  BY DEF BtFailureShown
<1>2. w \notin BtAtWork
  BY <1>1 DEF BtAtWork
<1> PICK n \in Nat : btWorkers \in [1..n -> {0, 1, 2, 3, 4, 9}]
  BY DEF StartTyped
<1>3. btWorkers' \in [1..n -> {0, 1, 2, 3, 4, 9}] /\ BtAtWork' = BtAtWork \ {w}
  BY <1>1, OneMoves
<1>4. btWorkers' \in [1..n -> {0, 1, 2, 3, 4, 9}] /\ BtAtWork' = BtAtWork
  BY <1>2, <1>3
<1>5. PageKept
  BY DEF BtFailureShown, PageKept, StartTyped
<1>6. StartTyped' /\ WorkerInv'
  BY <1>1, <1>4, <1>5, GateStill DEF StartTyped, PageKept
<1>7. WaitInv' /\ ReadyInv' /\ PageInv'
  BY <1>1, <1>5 DEF WaitInv, ReadyInv, PageInv, PageKept
<1> QED
  BY <1>6, <1>7

LEMMA PanicsKeep ==
    ASSUME StartInv, NEW w \in DOMAIN btWorkers, BtPanics(w)
    PROVE  StartInv'
<1> USE DEF StartInv
<1>1. w \in BtAtWork /\ btWorkers' = [btWorkers EXCEPT ![w] = 0] /\ btPanicked' = TRUE
      /\ UNCHANGED <<btGate, btPage, btLoad, btSessions, btStreams, btCorrupt, btExcused>>
  BY DEF BtPanics, BtAtWork
<1> PICK n \in Nat : btWorkers \in [1..n -> {0, 1, 2, 3, 4, 9}]
  BY DEF StartTyped
<1>2. btWorkers' \in [1..n -> {0, 1, 2, 3, 4, 9}] /\ BtAtWork' = BtAtWork \ {w}
  BY <1>1, OneMoves
<1>3. StartTyped'
  BY <1>1, <1>2 DEF StartTyped
<1>4. WorkerInv'
  BY <1>1, <1>2 DEF WorkerInv
<1>5. WaitInv' /\ ReadyInv' /\ PageInv'
  BY <1>1 DEF WaitInv, ReadyInv, PageInv
<1> QED
  BY <1>3, <1>4, <1>5

LEMMA ReloadsKeep == ASSUME StartInv, BtReloads PROVE StartInv'
<1> USE DEF StartInv, BtOutside
<1>1. UNCHANGED <<btGate, btWorkers, btLoad, btSessions, btStreams, btCorrupt, btPanicked, btExcused>>
  BY DEF BtReloads
<1>2. /\ btPage' \in [doc : Nat, status : {"idle", "loading", "recovering", "ready", "error"},
                      stage : {"listeners", "snapshot", "complete"}, snapshot : BOOLEAN]
      /\ btPage'.stage = "listeners" /\ btPage'.snapshot = FALSE
  BY DEF BtReloads, StartTyped
<1>3. BtAtWork' = BtAtWork
  BY <1>1 DEF BtAtWork
<1>4. StartTyped' /\ WorkerInv'
  BY <1>1, <1>2, <1>3, GateStill DEF StartTyped
<1>5. WaitInv' /\ ReadyInv' /\ PageInv'
  BY <1>1, <1>2 DEF WaitInv, ReadyInv, PageInv
<1> QED
  BY <1>4, <1>5

LEMMA NextKeeps == ASSUME StartInv, [StartupNext]_btVars PROVE StartInv'
<1>1. CASE StartupNext
  BY <1>1, CallsKeep, StartsKeep, RetriesKeep, WaitsKeep, ReadsKeep, EndsKeep, FailuresKeep,
     ShownKeeps, PanicsKeep, ReloadsKeep DEF StartupNext
<1>2. CASE UNCHANGED btVars
  <2>1. UNCHANGED <<btGate, btWorkers, btPage, btLoad, btSessions, btStreams, btCorrupt,
                    btPanicked, btExcused>>
    BY <1>2 DEF btVars
  <2> QED
    <3>1. StartTyped'
      BY <2>1 DEF StartInv, StartTyped
    <3>2. WorkerInv' /\ WaitInv'
      BY <2>1 DEF StartInv, WorkerInv, WaitInv, BtAtWork
    <3>3. ReadyInv' /\ PageInv'
      BY <2>1 DEF StartInv, ReadyInv, PageInv, BtAtWork
    <3> QED BY <3>1, <3>2, <3>3 DEF StartInv
<1> QED
  BY <1>1, <1>2

(***************************************************************************)
(* The theorem.                                                            *)
(***************************************************************************)

\* A set without two different members has at most one.
LEMMA AtMostOneMember ==
    ASSUME NEW S, \A v, w \in S : v = w
    PROVE  Cardinality(S) <= 1
<1>1. CASE S = {}
  BY <1>1, FS_EmptySet
<1>2. CASE S # {}
  <2> PICK v \in S : TRUE
    BY <1>2
  <2>1. S = {v}
    OBVIOUS
  <2> QED
    BY <2>1, FS_Singleton
<1> QED
  BY <1>1, <1>2

\* A page that waits for its button has no call under way, so PageInv leaves it only a start
\* that failed.
LEMMA StartInvMeansSafe == StartInv => StartsAreSafe
<1> SUFFICES ASSUME StartInv PROVE StartsAreSafe
  OBVIOUS
<1> USE DEF StartInv
<1>1. OneWorker
  BY AtMostOneMember DEF OneWorker, WorkerInv
<1>2. WaitersAreAnswered
  <2> SUFFICES ASSUME NEW l \in BtIds, btLoad[l].at = "wait", btLoad[l].seen = btGate.version
               PROVE  BtAtWork # {} \/ btPanicked
    BY DEF WaitersAreAnswered
  <2>1. btGate.state = "initializing" /\ btLoad[l].at \in Asked
    BY DEF WaitInv, Asked
  <2> QED
    BY <2>1 DEF WaitInv, WorkerInv
<1>3. ReadyIsWhole
  BY DEF ReadyInv, ReadyIsWhole
<1>4. RetriesAreAccepted
  BY DEF RetriesAreAccepted, PageInv, Pending, Asked
<1> QED
  BY <1>1, <1>2, <1>3, <1>4 DEF StartsAreSafe

\* For any number of calls, reloads and failures: one worker initialises at a time, whoever
\* waits at the gate is answered unless a worker panicked, a page that booted stays over a
\* ready application with the streams of all its sessions, and the button of a failed start is
\* never refused (startup_gate.rs, runtime.rs, sessionActions.ts).
THEOREM StartIsSafe == StartupSpec => []StartsAreSafe
<1>1. StartupInit => StartInv
  BY InitHolds
<1>2. StartInv /\ [StartupNext]_btVars => StartInv'
  BY NextKeeps
<1>3. StartInv => StartsAreSafe
  BY StartInvMeansSafe
<1> QED
  BY <1>1, <1>2, <1>3, PTL DEF StartupSpec

-----------------------------------------------------------------------------
(***************************************************************************)
(* The accounts.                                                           *)
(***************************************************************************)

Known == AcAccounts \union {NoAcct}

Commands == [kind : {"login", "logout", "columns"}, acct : Known,
             step : {"details", "forget", "sessions", "columns", "lock", "start"},
             fallback : Known, snap : SUBSET AcAccounts, layout : Nat]

AccountsTyped ==
    /\ acRows \in SUBSET AcAccounts /\ acSessions \in SUBSET AcAccounts
    /\ acHalf \in SUBSET AcAccounts /\ acOverlap \in SUBSET AcAccounts
    /\ IF acRows = {} THEN acActive = NoAcct ELSE acActive \in acRows
    /\ acActor \in acSessions \union {NoAcct}
    /\ acLayout \in Nat /\ acRaced \in BOOLEAN /\ acTwoChose \in BOOLEAN
    /\ acOp \in [AcOps -> Commands \union {<<>>}]

\* The command o is at one of the steps.
At(o, steps) == o \in Busy /\ acOp[o].step \in steps

\* The steps between a row and its session.
Middle == {"details", "forget"}

LEMMA BetweenAt ==
    ASSUME NEW a
    PROVE  /\ Between(a) <=> \E o \in AcOps : At(o, Middle) /\ acOp[o].acct = a
           /\ Between(a)' <=> \E o \in AcOps : At(o, Middle)' /\ acOp'[o].acct = a
  BY DEF Between, At, Busy, Middle

\* Two commands of one account between their rows and their sessions have marked it, and only
\* a login or a logout changes the set of accounts.
ShareInv ==
    /\ \A p, q \in AcOps : /\ p # q /\ At(p, Middle) /\ At(q, Middle)
                           /\ acOp[p].acct = acOp[q].acct
                           => acOp[p].acct \in acOverlap
    /\ \A o \in Busy : acOp[o].kind # "columns" => acOp[o].acct \in AcAccounts
    /\ \A o \in AcOps : At(o, {"details"}) => acOp[o].kind = "login"
    /\ \A o \in AcOps : At(o, {"forget"}) => acOp[o].kind = "logout"
    /\ \A o \in Busy : acOp[o].kind = "login" => acOp[o].step # "forget"

\* Of each account but those marked.
AcctInv ==
    \A a \in AcAccounts \ acOverlap :
        /\ \A o \in AcOps : At(o, {"details"}) /\ acOp[o].acct = a => a \in acRows
        /\ \A o \in AcOps : At(o, {"forget"}) /\ acOp[o].acct = a => a \notin acRows
        /\ ~Between(a) => /\ a \in acSessions => a \in acRows
                          /\ a \in acRows \ acHalf => a \in acSessions

\* The acting account is that of the active row, or a session nobody has a row for.
ActsRight == acActor = acActive \/ (acActive = NoAcct /\ acActor \in acOverlap)

\* Of the acting account, when the last choice was made by a command alone: it is the only one
\* between its row and its session, and the row is its choice.
ActorInv ==
    ~acTwoChose =>
        /\ \A p, q \in AcOps : At(p, Middle) /\ At(q, Middle) => p = q
        /\ \A o \in AcOps : At(o, Middle) => acOp[o].acct \notin acOverlap
        /\ \A o \in AcOps : At(o, {"details"}) => acActive = acOp[o].acct
        /\ \A o \in AcOps : At(o, {"forget"}) => acActive = acOp[o].fallback
        /\ (\A o \in AcOps : ~At(o, Middle)) /\ acActive \notin acHalf \union acOverlap
           => ActsRight

\* Of the streams: only one restart has read the sessions, and unless another is still to read
\* them, it has read those there are and the layout there is.
StreamInv ==
    ~acRaced =>
        /\ \A p, q \in AcOps : At(p, {"columns", "lock", "start"}) /\ At(q, {"columns", "lock", "start"})
                               => p = q
        /\ (\A o \in AcOps : ~At(o, {"forget", "sessions"})) =>
             /\ \A o \in AcOps : At(o, {"columns", "lock", "start"}) => acOp[o].snap = acSessions
             /\ \A o \in AcOps : At(o, {"lock", "start"}) => acOp[o].layout = acLayout
             /\ (\A o \in AcOps : ~At(o, {"columns", "lock", "start"}))
                => acStreams = [a \in acSessions |-> acLayout]

AccountInv == AccountsTyped /\ ShareInv /\ AcctInv /\ ActorInv /\ StreamInv

(***************************************************************************)
(* How a command moves.                                                    *)
(***************************************************************************)

LEMMA CommandIsSomething == ASSUME NEW r \in Commands PROVE r # <<>>
<1>1. DOMAIN r = {"kind", "acct", "step", "fallback", "snap", "layout"}
  BY DEF Commands
<1>2. "kind" \notin DOMAIN <<>>
  OBVIOUS
<1> QED
  BY <1>1, <1>2

LEMMA BusyIsACommand ==
    ASSUME AccountsTyped, NEW o \in Busy
    PROVE  o \in AcOps /\ acOp[o] \in Commands /\ acOp[o] # <<>>
  BY DEF AccountsTyped, Busy

\* A command takes the place of nothing, goes on with another record, or ends.
Replaced(o, r) ==
    /\ acOp' \in [AcOps -> Commands \union {<<>>}]
    /\ acOp'[o] = r
    /\ \A p \in AcOps : p # o => acOp'[p] = acOp[p]

LEMMA Replacing ==
    ASSUME AccountsTyped, NEW o \in AcOps, NEW r \in Commands \union {<<>>},
           acOp' = [acOp EXCEPT ![o] = r]
    PROVE  Replaced(o, r)
  BY DEF AccountsTyped, Replaced

LEMMA Ending == ASSUME AccountsTyped, NEW o \in AcOps, CommandEnds(o) PROVE Replaced(o, <<>>)
  BY Replacing DEF CommandEnds

Stepped(o, s) ==
    \E r \in Commands :
        /\ Replaced(o, r)
        /\ r.step = s /\ r.kind = acOp[o].kind /\ r.acct = acOp[o].acct
        /\ r.fallback = acOp[o].fallback /\ r.snap = acOp[o].snap /\ r.layout = acOp[o].layout

LEMMA Stepping ==
    ASSUME AccountsTyped, NEW o \in Busy, NEW s \in {"details", "forget", "sessions", "columns", "lock", "start"},
           AcGoTo(o, s)
    PROVE  Stepped(o, s)
<1>1. o \in AcOps /\ acOp[o] \in Commands
  BY BusyIsACommand
<1> DEFINE r == [acOp[o] EXCEPT !.step = s]
<1>2. r \in Commands
  BY <1>1 DEF Commands
<1>3. /\ r.step = s /\ r.kind = acOp[o].kind /\ r.acct = acOp[o].acct
      /\ r.fallback = acOp[o].fallback /\ r.snap = acOp[o].snap /\ r.layout = acOp[o].layout
  BY <1>1 DEF Commands
<1>4. acOp' = [acOp EXCEPT ![o] = r]
  BY DEF AcGoTo, AccountsTyped
<1> HIDE DEF r
<1>5. Replaced(o, r)
  BY <1>1, <1>2, <1>4, Replacing
<1> QED
  BY <1>2, <1>3, <1>5 DEF Stepped

LEMMA LeastBelow ==
    ASSUME NEW n \in Nat, NEW E \in SUBSET (0..n), E # {}
    PROVE  \E m \in E : \A k \in E : m <= k
<1> DEFINE below(m) == {k \in E : k < m}
           T == {below(m) : m \in E}
<1>1. T \subseteq FiniteSubsetsOf(E) /\ T # {}
  <2>1. IsFiniteSet(0..n)
    BY FS_Interval
  <2>2. IsFiniteSet(E)
    BY <2>1, FS_Subset
  <2>3. FiniteSubsetsOf(E) = SUBSET E
    BY <2>2, FS_FiniteSubsetsOfFinite
  <2>4. \A m \in E : below(m) \in SUBSET E
    OBVIOUS
  <2> HIDE DEF below
  <2>5. T \subseteq SUBSET E
    BY <2>4
  <2>6. PICK m \in E : TRUE
    OBVIOUS
  <2>7. below(m) \in T
    BY <2>6
  <2> QED
    BY <2>3, <2>5, <2>7
<1>2. IsWellFoundedOn(StrictSubsetOrdering(E), FiniteSubsetsOf(E))
  <2>1. IsFiniteSet(0..n)
    BY FS_Interval
  <2>2. IsFiniteSet(E)
    BY <2>1, FS_Subset
  <2> QED
    BY <2>2, FS_StrictSubsetOrderingWellFounded
<1> HIDE DEF T
<1>3. PICK b \in T : \A c \in T : ~(<<c, b>> \in StrictSubsetOrdering(E))
  BY <1>1, <1>2, WFMin
<1> USE DEF T
<1>4. PICK m \in E : b = below(m)
  OBVIOUS
<1>5. ASSUME NEW k \in E, k < m PROVE FALSE
  <2>1. below(k) \in T
    OBVIOUS
  <2>2. below(k) \subseteq below(m) /\ below(k) # below(m)
    <3>1. k \in below(m) /\ k \notin below(k)
      BY <1>5
    <3>2. ASSUME NEW j \in below(k) PROVE j \in below(m)
      <4>1. j \in Nat /\ k \in Nat /\ m \in Nat /\ j \in E /\ j < k
        BY <3>2
      <4> QED
        BY <1>5, <4>1
    <3> QED
      BY <3>1, <3>2
  <2>3. below(k) \in SUBSET E /\ below(m) \in SUBSET E
    OBVIOUS
  <2> HIDE DEF below
  <2>4. <<below(k), b>> \in StrictSubsetOrdering(E)
    BY <2>2, <2>3, <1>4 DEF StrictSubsetOrdering
  <2> QED
    BY <1>3, <2>1, <2>4
<1> QED
  BY <1>5

LEMMA FirstAccount ==
    ASSUME NEW S \in SUBSET AcAccounts, S # {}
    PROVE  (CHOOSE a \in S : \A b \in S : a <= b) \in S
<1>1. S \subseteq Nat
  BY AcAssumption
<1>2. PICK n \in S : TRUE
  OBVIOUS
<1> DEFINE E == {k \in S : k <= n}
<1>3. n \in Nat /\ E \in SUBSET (0..n) /\ n \in E
  <2>1. n \in Nat /\ \A k \in S : k \in Nat
    BY <1>1, <1>2
  <2>2. ASSUME NEW k \in E PROVE k \in 0..n
    BY <2>1
  <2>3. n \in E
    BY <1>2, <2>1
  <2> QED
    BY <2>1, <2>2, <2>3
<1> HIDE DEF E
<1>4. PICK m \in E : \A k \in E : m <= k
  BY <1>3, LeastBelow
<1> USE DEF E
<1>5. m \in S /\ \A k \in S : m <= k
  BY <1>1, <1>2, <1>4
<1> QED
  BY <1>5

(***************************************************************************)
(* Beginnings.                                                             *)
(***************************************************************************)

\* A command that begins.
Began(o, kind, acct, step, fallback) ==
    /\ o \in AcOps /\ o \notin Busy
    /\ \E r \in Commands : /\ Replaced(o, r) /\ r.kind = kind /\ r.acct = acct /\ r.step = step
                           /\ r.fallback = fallback
    /\ Busy' = Busy \union {o}

LEMMA Beginning ==
    ASSUME AccountsTyped, NEW o \in AcOps, NEW kind \in {"login", "logout", "columns"},
           NEW acct \in Known, NEW step \in {"details", "forget", "sessions"},
           NEW fallback \in Known, BeginCommand(o, kind, acct, step, fallback)
    PROVE  Began(o, kind, acct, step, fallback)
<1> DEFINE r == [kind |-> kind, acct |-> acct, step |-> step, fallback |-> fallback,
                 snap |-> {}, layout |-> 0]
<1>1. r \in Commands /\ r.kind = kind /\ r.acct = acct /\ r.step = step
      /\ r.fallback = fallback
  BY DEF Commands
<1>2. acOp[o] = <<>> /\ acOp' = [acOp EXCEPT ![o] = r]
  BY DEF BeginCommand
<1> HIDE DEF r
<1>3. Replaced(o, r) /\ r # <<>>
  BY <1>1, <1>2, Replacing, CommandIsSomething
<1>4. o \notin Busy /\ Busy' = Busy \union {o}
  BY <1>2, <1>3 DEF Busy, Replaced
<1> QED
  BY <1>1, <1>3, <1>4 DEF Began

\* The steps of the others stay, and the new command is at its first.
LEMMA BeganAt ==
    ASSUME NEW o, NEW kind, NEW acct, NEW step, NEW fallback, Began(o, kind, acct, step, fallback)
    PROVE  /\ acOp'[o].kind = kind /\ acOp'[o].acct = acct /\ acOp'[o].fallback = fallback
           /\ acOp'[o].step = step /\ o \in Busy'
           /\ acOp' \in [AcOps -> Commands \union {<<>>}]
           /\ \A p \in AcOps \ {o} : acOp'[p] = acOp[p] /\ (p \in Busy' <=> p \in Busy)
           /\ \A steps : \A p \in AcOps : p # o => (At(p, steps)' <=> At(p, steps))
           /\ \A steps : ~At(o, steps) /\ (At(o, steps)' <=> step \in steps)
  BY DEF Began, Replaced, At

\* What a login or a logout marks, and what a save leaves.
Marks(acct, step) == IF step \in Middle THEN Overlaps(acct) ELSE acOverlap' = acOverlap

LEMMA BeganShares ==
    ASSUME AccountsTyped, ShareInv, NEW o, NEW kind, NEW acct, NEW step, NEW fallback,
           Began(o, kind, acct, step, fallback), Marks(acct, step),
           step = "details" => kind = "login", step = "forget" => kind = "logout",
           kind # "columns" => acct \in AcAccounts
    PROVE  ShareInv'
<1>1. /\ acOp'[o].kind = kind /\ acOp'[o].acct = acct /\ acOp'[o].step = step
      /\ \A p \in AcOps \ {o} : acOp'[p] = acOp[p] /\ (p \in Busy' <=> p \in Busy)
      /\ \A steps : \A p \in AcOps : p # o => (At(p, steps)' <=> At(p, steps))
      /\ \A steps : ~At(o, steps) /\ (At(o, steps)' <=> step \in steps)
  BY BeganAt
<1>2. o \in AcOps /\ o \notin Busy /\ Busy' = Busy \union {o}
  BY DEF Began
<1>3. Busy \subseteq AcOps
  BY DEF Busy
<1>4. ASSUME NEW p \in AcOps, NEW q \in AcOps, p # q, At(p, Middle)', At(q, Middle)',
             acOp'[p].acct = acOp'[q].acct
      PROVE  acOp'[p].acct \in acOverlap'
  <2>1. CASE p = o \/ q = o
    <3>1. step \in Middle /\ acOp'[p].acct = acct
      BY <1>1, <1>4, <2>1
    <3>2. PICK s \in {p, q} : s # o
      BY <1>4
    <3>3. At(s, Middle) /\ acOp[s].acct = acct
      BY <1>1, <1>4, <3>1, <3>2
    <3>4. Between(acct)
      BY <3>3, BetweenAt
    <3> QED
      BY <3>1, <3>4 DEF Marks, Overlaps
  <2>2. CASE p # o /\ q # o
    <3>1. /\ At(p, Middle) /\ At(q, Middle) /\ acOp[p].acct = acOp[q].acct
          /\ acOp'[p].acct = acOp[p].acct
      BY <1>1, <1>4, <2>2
    <3>2. acOp[p].acct \in acOverlap
      BY <1>4, <3>1 DEF ShareInv
    <3>3. acOp[p].acct = acct => Between(acct)
      BY <3>1, BetweenAt
    <3> QED
      BY <3>1, <3>2, <3>3 DEF Marks, Overlaps
  <2> QED
    BY <2>1, <2>2
<1>5. ASSUME NEW p \in Busy' PROVE /\ acOp'[p].kind # "columns" => acOp'[p].acct \in AcAccounts
                                   /\ acOp'[p].kind = "login" => acOp'[p].step # "forget"
  <2>1. CASE p = o
    BY <1>1, <2>1
  <2>2. CASE p # o
    BY <1>1, <1>2, <1>3, <2>2 DEF ShareInv
  <2> QED
    BY <2>1, <2>2
<1>6. ASSUME NEW p \in AcOps PROVE /\ At(p, {"details"})' => acOp'[p].kind = "login"
                                   /\ At(p, {"forget"})' => acOp'[p].kind = "logout"
  <2>1. CASE p = o
    BY <1>1, <2>1
  <2>2. CASE p # o
    BY <1>1, <2>2 DEF ShareInv
  <2> QED
    BY <2>1, <2>2
<1> QED
  BY <1>4, <1>5, <1>6 DEF ShareInv

\* What a command leaves of the accounts it does not touch.
LEMMA BeganAccts ==
    ASSUME AccountsTyped, AcctInv, NEW o, NEW kind, NEW acct, NEW step, NEW fallback,
           Began(o, kind, acct, step, fallback), Marks(acct, step), UNCHANGED acSessions,
           NEW a \in AcAccounts \ acOverlap', a # acct,
           a \in acRows' <=> a \in acRows, a \in acHalf' <=> a \in acHalf
    PROVE  /\ \A p \in AcOps : At(p, {"details"})' /\ acOp'[p].acct = a => a \in acRows'
           /\ \A p \in AcOps : At(p, {"forget"})' /\ acOp'[p].acct = a => a \notin acRows'
           /\ ~Between(a)' => /\ a \in acSessions' => a \in acRows'
                              /\ a \in acRows' \ acHalf' => a \in acSessions'
<1>1. /\ acOp'[o].acct = acct
      /\ \A p \in AcOps \ {o} : acOp'[p] = acOp[p]
      /\ \A steps : \A p \in AcOps : p # o => (At(p, steps)' <=> At(p, steps))
      /\ \A steps : ~At(o, steps)
  BY BeganAt
<1>2. a \in AcAccounts \ acOverlap
  BY DEF Marks, Overlaps
<1>3. ASSUME NEW p \in AcOps, acOp'[p].acct = a PROVE p # o /\ acOp[p].acct = a
  BY <1>1, <1>3
<1>4. ASSUME NEW p \in AcOps, At(p, Middle), acOp[p].acct = a
      PROVE  At(p, Middle)' /\ acOp'[p].acct = a
  BY <1>1, <1>4
<1>5. Between(a) => Between(a)'
  BY <1>4, BetweenAt
<1>6. /\ \A p \in AcOps : At(p, {"details"}) /\ acOp[p].acct = a => a \in acRows
      /\ \A p \in AcOps : At(p, {"forget"}) /\ acOp[p].acct = a => a \notin acRows
      /\ ~Between(a) => /\ a \in acSessions => a \in acRows
                        /\ a \in acRows \ acHalf => a \in acSessions
  BY <1>2 DEF AcctInv
<1>7. ASSUME NEW p \in AcOps, At(p, {"details"})', acOp'[p].acct = a PROVE a \in acRows'
  BY <1>1, <1>3, <1>6, <1>7
<1>8. ASSUME NEW p \in AcOps, At(p, {"forget"})', acOp'[p].acct = a PROVE a \notin acRows'
  BY <1>1, <1>3, <1>6, <1>8
<1> QED
  BY <1>5, <1>6, <1>7, <1>8

\* A command that chose alone is the only one between its row and its session.
LEMMA BeganAlone ==
    ASSUME AccountsTyped, NEW o, NEW kind, NEW acct, NEW step \in Middle, NEW fallback,
           Began(o, kind, acct, step, fallback), Overlaps(acct), Chooses, ~acTwoChose'
    PROVE  /\ \A p \in AcOps : At(p, Middle)' => p = o
           /\ acct \notin acOverlap'
           /\ \A s \in Middle : \A p \in AcOps : At(p, {s})' => p = o /\ s = step
<1>1. /\ \A steps : \A p \in AcOps : p # o => (At(p, steps)' <=> At(p, steps))
      /\ \A steps : ~At(o, steps) /\ (At(o, steps)' <=> step \in steps)
  BY BeganAt
<1>2. \A p \in AcOps : ~At(p, Middle)
  BY DEF Chooses, At, Middle
<1>3. ~Between(acct)
  BY <1>2, BetweenAt
<1>4. \A s \in Middle : \A p \in AcOps : ~At(p, {s})
  BY <1>2 DEF At
<1> QED
  BY <1>1, <1>2, <1>3, <1>4 DEF Overlaps

\* The streams know nothing of a command that begins before its restart.
LEMMA BeganStreams ==
    ASSUME AccountsTyped, StreamInv, NEW o, NEW kind, NEW acct, NEW step, NEW fallback,
           Began(o, kind, acct, step, fallback), step \in {"details", "forget", "sessions"},
           UNCHANGED <<acSessions, acStreams, acRaced>>,
           step = "details" => UNCHANGED acLayout
    PROVE  StreamInv'
<1>1. /\ \A p \in AcOps \ {o} : acOp'[p] = acOp[p]
      /\ \A steps : \A p \in AcOps : p # o => (At(p, steps)' <=> At(p, steps))
      /\ \A steps : ~At(o, steps) /\ (At(o, steps)' <=> step \in steps)
  BY BeganAt
<1>2. o \in AcOps
  BY DEF Began
<1> DEFINE past == {"columns", "lock", "start"}
           ahead == {"forget", "sessions"}
<1>3. \A p \in AcOps : (At(p, past)' <=> At(p, past)) /\ (At(p, past) => p # o)
  BY <1>1
<1>4. \A p \in AcOps : (At(p, {"lock", "start"})' <=> At(p, {"lock", "start"}))
                       /\ (At(p, {"lock", "start"}) => p # o)
  BY <1>1
<1>5. \A p \in AcOps : At(p, ahead) => At(p, ahead)'
  BY <1>1
<1>6. step # "details" => At(o, ahead)'
  BY <1>1
<1> SUFFICES ASSUME ~acRaced'
             PROVE  /\ \A p, q \in AcOps : At(p, past)' /\ At(q, past)' => p = q
                    /\ (\A p \in AcOps : ~At(p, ahead)') =>
                         /\ \A p \in AcOps : At(p, past)' => acOp'[p].snap = acSessions'
                         /\ \A p \in AcOps : At(p, {"lock", "start"})' => acOp'[p].layout = acLayout'
                         /\ (\A p \in AcOps : ~At(p, past)')
                            => acStreams' = [a \in acSessions' |-> acLayout']
  BY DEF StreamInv
<1>7. \A p, q \in AcOps : At(p, past) /\ At(q, past) => p = q
  BY DEF StreamInv
<1>8. ASSUME \A p \in AcOps : ~At(p, ahead)'
      PROVE  /\ \A p \in AcOps : At(p, past) => acOp[p].snap = acSessions
             /\ \A p \in AcOps : At(p, {"lock", "start"}) => acOp[p].layout = acLayout
             /\ (\A p \in AcOps : ~At(p, past)) => acStreams = [a \in acSessions |-> acLayout]
             /\ acLayout' = acLayout
  BY <1>2, <1>5, <1>6, <1>8 DEF StreamInv
<1> HIDE DEF past, ahead
<1> QED
  BY <1>1, <1>3, <1>4, <1>7, <1>8

LEMMA StoreKeeps == ASSUME AccountInv, NEW o \in AcOps, StoreLogin(o) PROVE AccountInv'
<1> USE DEF AccountInv
<1> PICK a \in AcAccounts : /\ BeginCommand(o, "login", a, "details", NoAcct)
                            /\ acRows' = acRows \union {a} /\ acActive' = a
                            /\ Overlaps(a)
  BY DEF StoreLogin
<1>1. /\ UNCHANGED <<acSessions, acActor, acLayout, acStreams, acHalf, acRaced>>
      /\ Chooses /\ Marks(a, "details") /\ "details" \in Middle
  BY DEF StoreLogin, acMemory, Marks, Middle
<1>2. Began(o, "login", a, "details", NoAcct)
  BY Beginning DEF Known
<1>3. /\ acOp'[o].acct = a /\ \A p \in AcOps \ {o} : acOp'[p] = acOp[p]
      /\ \A steps : \A p \in AcOps : p # o => (At(p, steps)' <=> At(p, steps))
      /\ \A steps : At(o, steps)' <=> "details" \in steps
      /\ acOp' \in [AcOps -> Commands \union {<<>>}]
  BY <1>2, BeganAt
<1>4. acOverlap' \in SUBSET AcAccounts /\ acTwoChose' \in BOOLEAN
  BY <1>1 DEF Overlaps, Chooses, AccountsTyped
<1>6. AccountsTyped'
  BY <1>1, <1>3, <1>4 DEF AccountsTyped
<1>7. ShareInv'
  BY <1>1, <1>2, BeganShares
<1>8. AcctInv'
  <2> SUFFICES ASSUME NEW b \in AcAccounts \ acOverlap'
               PROVE  /\ \A p \in AcOps : At(p, {"details"})' /\ acOp'[p].acct = b => b \in acRows'
                      /\ \A p \in AcOps : At(p, {"forget"})' /\ acOp'[p].acct = b => b \notin acRows'
                      /\ ~Between(b)' => /\ b \in acSessions' => b \in acRows'
                                         /\ b \in acRows' \ acHalf' => b \in acSessions'
    BY DEF AcctInv
  <2>1. CASE b = a
    <3>1. ~Between(a)
      BY <2>1 DEF Overlaps
    <3>2. Between(b)' /\ b \in acRows'
      BY <1>1, <1>3, <2>1, BetweenAt
    <3>3. ASSUME NEW p \in AcOps, At(p, {"forget"})', acOp'[p].acct = b PROVE FALSE
      <4>1. p # o /\ At(p, {"forget"}) /\ acOp[p].acct = a
        BY <1>3, <2>1, <3>3
      <4>2. At(p, Middle)
        BY <4>1 DEF At, Middle
      <4> QED
        BY <3>1, <4>1, <4>2, BetweenAt
    <3> QED
      BY <3>2, <3>3
  <2>2. CASE b # a
    BY <1>1, <1>2, <2>2, BeganAccts
  <2> QED
    BY <2>1, <2>2
<1>9. ActorInv'
  <2> SUFFICES ASSUME ~acTwoChose' PROVE ActorInv'
    BY DEF ActorInv
  <2>1. /\ \A p \in AcOps : At(p, Middle)' => p = o
        /\ a \notin acOverlap'
        /\ \A s \in Middle : \A p \in AcOps : At(p, {s})' => p = o /\ s = "details"
    BY <1>1, <1>2, BeganAlone
  <2>2. At(o, Middle)'
    BY <1>1, <1>3
  <2>3. \A p \in AcOps : At(p, {"forget"})' => FALSE
    BY <2>1 DEF Middle
  <2>4. \A p \in AcOps : At(p, {"details"})' => p = o
    BY <2>1 DEF Middle
  <2> QED
    BY <1>3, <2>1, <2>2, <2>3, <2>4 DEF ActorInv
<1>10. StreamInv'
  BY <1>1, <1>2, BeganStreams
<1> QED
  BY <1>6, <1>7, <1>8, <1>9, <1>10

LEMMA FallbackIsARow ==
    ASSUME AccountsTyped, NEW a \in acRows
    PROVE  LET f == Fallback(acRows, acActive, a) IN
           IF acRows \ {a} = {} THEN f = NoAcct ELSE f \in acRows \ {a}
<1>1. acRows \subseteq AcAccounts /\ acActive \in acRows
  BY DEF AccountsTyped
<1>2. CASE acRows = {a}
  BY <1>2 DEF Fallback
<1>3. CASE acRows # {a} /\ acActive # a
  BY <1>1, <1>3 DEF Fallback
<1>4. CASE acRows # {a} /\ acActive = a
  <2>1. Fallback(acRows, acActive, a) = CHOOSE b \in acRows \ {a} : \A c \in acRows \ {a} : b <= c
    BY <1>4 DEF Fallback
  <2>2. acRows \ {a} \in SUBSET AcAccounts /\ acRows \ {a} # {}
    BY <1>1, <1>4
  <2> QED
    BY <2>1, <2>2, FirstAccount
<1> QED
  BY <1>2, <1>3, <1>4

LEMMA RemoveKeeps == ASSUME AccountInv, NEW o \in AcOps, RemoveRow(o) PROVE AccountInv'
<1> USE DEF AccountInv
<1> PICK a \in acRows : LET fallback == Fallback(acRows, acActive, a) IN
                        /\ BeginCommand(o, "logout", a, "forget", fallback)
                        /\ acRows' = acRows \ {a} /\ acActive' = fallback
                        /\ acHalf' = acHalf \ {a}
                        /\ Overlaps(a)
  BY DEF RemoveRow
<1> DEFINE fallback == Fallback(acRows, acActive, a)
<1>0. /\ BeginCommand(o, "logout", a, "forget", fallback)
      /\ acRows' = acRows \ {a} /\ acActive' = fallback /\ acHalf' = acHalf \ {a}
      /\ IF acRows \ {a} = {} THEN fallback = NoAcct ELSE fallback \in acRows \ {a}
      /\ a \in AcAccounts /\ acRows \subseteq AcAccounts
  BY FallbackIsARow DEF AccountsTyped
<1> HIDE DEF fallback
<1>1. /\ UNCHANGED <<acSessions, acActor, acStreams, acRaced>>
      /\ Chooses /\ Marks(a, "forget") /\ "forget" \in Middle
      /\ acLayout' \in Nat
  BY DEF RemoveRow, acMemory, Marks, Middle, AccountsTyped
<1>11. fallback \in Known
  BY <1>0 DEF Known
<1>2. Began(o, "logout", a, "forget", fallback)
  BY <1>0, <1>11, Beginning DEF Known
<1>3. /\ acOp'[o].acct = a /\ acOp'[o].fallback = fallback
      /\ \A p \in AcOps \ {o} : acOp'[p] = acOp[p]
      /\ \A steps : \A p \in AcOps : p # o => (At(p, steps)' <=> At(p, steps))
      /\ \A steps : At(o, steps)' <=> "forget" \in steps
      /\ acOp' \in [AcOps -> Commands \union {<<>>}]
  BY <1>2, BeganAt
<1>4. acOverlap' \in SUBSET AcAccounts /\ acTwoChose' \in BOOLEAN
  BY <1>0, <1>1 DEF Overlaps, Chooses, AccountsTyped
<1>6. AccountsTyped'
  BY <1>0, <1>1, <1>3, <1>4 DEF AccountsTyped
<1>7. ShareInv'
  BY <1>0, <1>1, <1>2, BeganShares
<1>8. AcctInv'
  <2> SUFFICES ASSUME NEW b \in AcAccounts \ acOverlap'
               PROVE  /\ \A p \in AcOps : At(p, {"details"})' /\ acOp'[p].acct = b => b \in acRows'
                      /\ \A p \in AcOps : At(p, {"forget"})' /\ acOp'[p].acct = b => b \notin acRows'
                      /\ ~Between(b)' => /\ b \in acSessions' => b \in acRows'
                                         /\ b \in acRows' \ acHalf' => b \in acSessions'
    BY DEF AcctInv
  <2>1. CASE b = a
    <3>1. ~Between(a)
      BY <2>1 DEF Overlaps
    <3>2. Between(b)' /\ b \notin acRows'
      BY <1>0, <1>1, <1>3, <2>1, BetweenAt
    <3>3. ASSUME NEW p \in AcOps, At(p, {"details"})', acOp'[p].acct = b PROVE FALSE
      <4>1. p # o /\ At(p, {"details"}) /\ acOp[p].acct = a
        BY <1>3, <2>1, <3>3
      <4>2. At(p, Middle)
        BY <4>1 DEF At, Middle
      <4> QED
        BY <3>1, <4>1, <4>2, BetweenAt
    <3> QED
      BY <3>2, <3>3
  <2>2. CASE b # a
    <3>1. (b \in acRows' <=> b \in acRows) /\ (b \in acHalf' <=> b \in acHalf)
      BY <1>0, <2>2
    <3> QED
      BY <1>1, <1>2, <2>2, <3>1, BeganAccts
  <2> QED
    BY <2>1, <2>2
<1>9. ActorInv'
  <2> SUFFICES ASSUME ~acTwoChose' PROVE ActorInv'
    BY DEF ActorInv
  <2>1. /\ \A p \in AcOps : At(p, Middle)' => p = o
        /\ a \notin acOverlap'
        /\ \A s \in Middle : \A p \in AcOps : At(p, {s})' => p = o /\ s = "forget"
    BY <1>1, <1>2, BeganAlone
  <2>2. At(o, Middle)'
    BY <1>1, <1>3
  <2>3. \A p \in AcOps : At(p, {"details"})' => FALSE
    BY <2>1 DEF Middle
  <2>4. \A p \in AcOps : At(p, {"forget"})' => p = o
    BY <2>1 DEF Middle
  <2> QED
    BY <1>0, <1>3, <2>1, <2>2, <2>3, <2>4 DEF ActorInv
<1>10. StreamInv'
  BY <1>1, <1>2, BeganStreams
<1> QED
  BY <1>6, <1>7, <1>8, <1>9, <1>10

LEMMA SaveKeeps == ASSUME AccountInv, NEW o \in AcOps, SaveColumns(o) PROVE AccountInv'
<1> USE DEF AccountInv
<1>1. /\ BeginCommand(o, "columns", NoAcct, "sessions", NoAcct) /\ acLayout' = acLayout + 1
      /\ UNCHANGED <<acRows, acActive, acSessions, acActor, acStreams, acHalf, acOverlap, acTwoChose,
                     acRaced>>
      /\ Marks(NoAcct, "sessions")
  BY DEF SaveColumns, acStored, acMemory, acGhosts, Marks, Middle
<1>2. Began(o, "columns", NoAcct, "sessions", NoAcct)
  BY <1>1, Beginning DEF Known
<1>3. /\ \A p \in AcOps \ {o} : acOp'[p] = acOp[p]
      /\ \A steps : \A p \in AcOps : p # o => (At(p, steps)' <=> At(p, steps))
      /\ \A steps : ~At(o, steps) /\ (At(o, steps)' <=> "sessions" \in steps)
      /\ acOp' \in [AcOps -> Commands \union {<<>>}]
  BY <1>2, BeganAt
<1>6. AccountsTyped'
  BY <1>1, <1>3 DEF AccountsTyped
<1>7. ShareInv'
  BY <1>1, <1>2, BeganShares
<1>8. AcctInv'
  <2> SUFFICES ASSUME NEW b \in AcAccounts \ acOverlap'
               PROVE  /\ \A p \in AcOps : At(p, {"details"})' /\ acOp'[p].acct = b => b \in acRows'
                      /\ \A p \in AcOps : At(p, {"forget"})' /\ acOp'[p].acct = b => b \notin acRows'
                      /\ ~Between(b)' => /\ b \in acSessions' => b \in acRows'
                                         /\ b \in acRows' \ acHalf' => b \in acSessions'
    BY DEF AcctInv
  <2>1. b # NoAcct
    BY AcAssumption
  <2> QED
    BY <1>1, <1>2, <2>1, BeganAccts
<1>9. ActorInv'
  <2>1. \A p \in AcOps, steps \in {{"details"}, {"forget"}, Middle} :
          /\ At(p, steps)' <=> At(p, steps)
          /\ At(p, steps) => acOp'[p] = acOp[p]
    BY <1>3 DEF Middle
  <2> QED
    BY <1>1, <2>1 DEF ActorInv, ActsRight
<1>10. StreamInv'
  BY <1>1, <1>2, BeganStreams
<1> QED
  BY <1>6, <1>7, <1>8, <1>9, <1>10

(***************************************************************************)
(* Going on and ending.                                                    *)
(***************************************************************************)

\* A command goes on to a record of the same kind and account.
LEMMA GoneOn ==
    ASSUME AccountsTyped, NEW o \in Busy, NEW r \in Commands, Replaced(o, r),
           r.kind = acOp[o].kind, r.acct = acOp[o].acct
    PROVE  /\ o \in AcOps /\ Busy' = Busy
           /\ \A p \in AcOps \ {o} : acOp'[p] = acOp[p]
           /\ \A p \in Busy : acOp'[p].kind = acOp[p].kind /\ acOp'[p].acct = acOp[p].acct
           /\ \A steps : \A p \in AcOps : p # o => (At(p, steps)' <=> At(p, steps))
           /\ \A steps : At(o, steps)' <=> r.step \in steps
<1>1. r # <<>>
  BY CommandIsSomething
<1>2. o \in AcOps /\ acOp[o] # <<>>
  BY DEF Busy
<1>3. /\ acOp'[o] = r
      /\ \A p \in AcOps : p # o => acOp'[p] = acOp[p]
  BY DEF Replaced
<1>4. Busy' = Busy
  BY <1>1, <1>2, <1>3 DEF Busy
<1>5. \A p \in Busy : p \in AcOps
  BY DEF Busy
<1> QED
  BY <1>2, <1>3, <1>4, <1>5 DEF At

LEMMA GoneOnShares ==
    ASSUME AccountsTyped, ShareInv, NEW o \in Busy, NEW r \in Commands, Replaced(o, r),
           r.kind = acOp[o].kind, r.acct = acOp[o].acct, acOverlap \subseteq acOverlap',
           r.step \notin Middle
    PROVE  ShareInv'
<1>1. /\ o \in AcOps /\ Busy' = Busy
      /\ \A p \in AcOps \ {o} : acOp'[p] = acOp[p]
      /\ \A p \in Busy : acOp'[p].kind = acOp[p].kind /\ acOp'[p].acct = acOp[p].acct
      /\ \A steps : \A p \in AcOps : p # o => (At(p, steps)' <=> At(p, steps))
      /\ \A steps : At(o, steps)' <=> r.step \in steps
      /\ acOp'[o] = r
  BY GoneOn DEF Replaced
<1>2. ASSUME NEW p \in AcOps, NEW q \in AcOps, p # q, At(p, Middle)', At(q, Middle)',
             acOp'[p].acct = acOp'[q].acct
      PROVE  acOp'[p].acct \in acOverlap'
  <2>1. p # o /\ q # o
    BY <1>1, <1>2
  <2>2. /\ At(p, Middle) /\ At(q, Middle)
        /\ acOp'[p].acct = acOp[p].acct /\ acOp'[q].acct = acOp[q].acct
    BY <1>1, <1>2, <2>1
  <2> QED
    BY <1>2, <2>2 DEF ShareInv
<1>3. \A p \in Busy' : /\ acOp'[p].kind # "columns" => acOp'[p].acct \in AcAccounts
                       /\ acOp'[p].kind = "login" => acOp'[p].step # "forget"
  <2> SUFFICES ASSUME NEW p \in Busy
               PROVE  /\ acOp'[p].kind # "columns" => acOp'[p].acct \in AcAccounts
                      /\ acOp'[p].kind = "login" => acOp'[p].step # "forget"
    BY <1>1
  <2>1. p \in AcOps
    BY DEF Busy
  <2>2. CASE p = o
    BY <1>1, <2>2 DEF ShareInv, Middle
  <2>3. CASE p # o
    BY <1>1, <2>1, <2>3 DEF ShareInv
  <2> QED
    BY <2>2, <2>3
<1>4. ASSUME NEW p \in AcOps PROVE /\ At(p, {"details"})' => acOp'[p].kind = "login"
                                   /\ At(p, {"forget"})' => acOp'[p].kind = "logout"
  <2>1. CASE p = o
    BY <1>1, <2>1 DEF Middle
  <2>2. CASE p # o
    BY <1>1, <2>2 DEF ShareInv
  <2> QED
    BY <2>1, <2>2
<1> QED
  BY <1>2, <1>3, <1>4 DEF ShareInv

LEMMA EndedShares ==
    ASSUME AccountsTyped, ShareInv, NEW o \in Busy, Replaced(o, <<>>), acOverlap \subseteq acOverlap'
    PROVE  /\ ShareInv' /\ o \in AcOps /\ Busy' = Busy \ {o}
           /\ \A p \in AcOps \ {o} : acOp'[p] = acOp[p]
           /\ \A steps : \A p \in AcOps : p # o => (At(p, steps)' <=> At(p, steps))
           /\ \A steps : ~At(o, steps)'
<1>1. /\ o \in AcOps /\ acOp'[o] = <<>>
      /\ \A p \in AcOps \ {o} : acOp'[p] = acOp[p]
  BY DEF Replaced, Busy
<1>2. Busy' = Busy \ {o}
  BY <1>1 DEF Busy
<1>3. /\ \A steps : \A p \in AcOps : p # o => (At(p, steps)' <=> At(p, steps))
      /\ \A steps : ~At(o, steps)'
  BY <1>1, <1>2 DEF At
<1>4. \A p \in Busy' : p \in Busy /\ p \in AcOps /\ acOp'[p] = acOp[p]
  BY <1>1, <1>2 DEF Busy
<1>5. ASSUME NEW p \in AcOps, NEW q \in AcOps, p # q, At(p, Middle)', At(q, Middle)',
             acOp'[p].acct = acOp'[q].acct
      PROVE  acOp'[p].acct \in acOverlap'
  <2>1. p # o /\ q # o
    BY <1>3, <1>5
  <2>2. At(p, Middle) /\ At(q, Middle) /\ acOp[p].acct = acOp[q].acct /\ acOp'[p] = acOp[p]
    BY <1>1, <1>3, <1>5, <2>1
  <2> QED
    BY <1>5, <2>1, <2>2 DEF ShareInv
<1>6. \A p \in Busy' : /\ acOp'[p].kind # "columns" => acOp'[p].acct \in AcAccounts
                       /\ acOp'[p].kind = "login" => acOp'[p].step # "forget"
  BY <1>4 DEF ShareInv
<1>7. \A p \in AcOps : /\ At(p, {"details"})' => acOp'[p].kind = "login"
                       /\ At(p, {"forget"})' => acOp'[p].kind = "logout"
  BY <1>1, <1>3 DEF ShareInv
<1> QED
  BY <1>1, <1>2, <1>3, <1>5, <1>6, <1>7 DEF ShareInv

\* A command beyond its session, that goes on or ends, moves no account.
LEMMA BeyondKeeps ==
    ASSUME AccountsTyped, AcctInv, ActorInv, NEW o \in AcOps,
           \A p \in AcOps \ {o} : acOp'[p] = acOp[p],
           \A steps : \A p \in AcOps : p # o => (At(p, steps)' <=> At(p, steps)),
           ~At(o, Middle), ~At(o, Middle)',
           UNCHANGED <<acRows, acActive, acSessions, acActor, acHalf, acOverlap, acTwoChose>>
    PROVE  AcctInv' /\ ActorInv'
<1>1. \A p \in AcOps, steps \in {{"details"}, {"forget"}, Middle} :
        /\ At(p, steps)' <=> At(p, steps)
        /\ At(p, steps) => acOp'[p] = acOp[p]
  <2> SUFFICES ASSUME NEW p \in AcOps, NEW steps \in {{"details"}, {"forget"}, Middle}
               PROVE  /\ At(p, steps)' <=> At(p, steps)
                      /\ At(p, steps) => acOp'[p] = acOp[p]
    OBVIOUS
  <2>1. CASE p # o
    BY <2>1
  <2>2. CASE p = o
    BY <2>2 DEF At, Middle
  <2> QED
    BY <2>1, <2>2
<1>2. ASSUME NEW a PROVE Between(a)' <=> Between(a)
  <2>1. \A p \in AcOps : /\ At(p, Middle)' <=> At(p, Middle)
                         /\ At(p, Middle) => acOp'[p] = acOp[p]
    BY <1>1
  <2> QED
    BY <2>1, BetweenAt
<1>3. AcctInv'
  BY <1>1, <1>2 DEF AcctInv
<1>4. ActorInv'
  BY <1>1 DEF ActorInv, ActsRight
<1> QED
  BY <1>3, <1>4

\* No other command of an account that is not marked is between its row and its session.
LEMMA Alone ==
    ASSUME ShareInv, NEW o \in AcOps, At(o, Middle), acOp[o].acct \notin acOverlap
    PROVE  \A p \in AcOps : p # o /\ At(p, Middle) => acOp[p].acct # acOp[o].acct
  BY DEF ShareInv

LEMMA InTheMiddle ==
    ASSUME NEW p
    PROVE  /\ At(p, {"details"}) \/ At(p, {"forget"}) => At(p, Middle)
           /\ At(p, {"details"})' \/ At(p, {"forget"})' => At(p, Middle)'
  BY DEF At, Middle

\* The first session of a login, or one of an account that had one.
LEMMA AddKeeps == ASSUME AccountInv, NEW o \in AcOps, AddSession(o) PROVE AccountInv'
<1> USE DEF AccountInv
<1> DEFINE a == acOp[o].acct
<1>1. /\ o \in Busy /\ acOp[o].kind = "login" /\ acOp[o].step = "details" /\ At(o, {"details"})
      /\ acSessions' = acSessions \union {a} /\ acActor' = a /\ acHalf' = acHalf \ {a}
      /\ AcGoTo(o, "sessions") /\ At(o, Middle)
      /\ UNCHANGED <<acRows, acActive, acLayout, acStreams, acOverlap, acTwoChose, acRaced>>
  BY DEF AddSession, AcStep, ActorOfLogin, acStored, Busy, At, Middle
<1>2. a \in AcAccounts
  BY <1>1 DEF ShareInv
<1>3. Stepped(o, "sessions")
  BY <1>1, Stepping
<1> PICK r \in Commands : /\ Replaced(o, r) /\ r.step = "sessions" /\ r.kind = acOp[o].kind
                          /\ r.acct = a
  BY <1>3 DEF Stepped
<1>4. /\ \A p \in AcOps \ {o} : acOp'[p] = acOp[p]
      /\ \A steps : \A p \in AcOps : p # o => (At(p, steps)' <=> At(p, steps))
      /\ \A steps : At(o, steps)' <=> "sessions" \in steps
      /\ acOp'[o] = r /\ acOp' \in [AcOps -> Commands \union {<<>>}]
  BY <1>1, GoneOn DEF Replaced
<1> HIDE DEF a
<1>5. AccountsTyped'
  BY <1>1, <1>2, <1>4 DEF AccountsTyped
<1>6. ShareInv'
  BY <1>1, GoneOnShares DEF a, Middle
<1>7. AcctInv'
  <2> SUFFICES ASSUME NEW b \in AcAccounts \ acOverlap
               PROVE  /\ \A p \in AcOps : At(p, {"details"})' /\ acOp'[p].acct = b => b \in acRows
                      /\ \A p \in AcOps : At(p, {"forget"})' /\ acOp'[p].acct = b => b \notin acRows
                      /\ ~Between(b)' => /\ b \in acSessions' => b \in acRows
                                         /\ b \in acRows \ acHalf' => b \in acSessions'
    BY <1>1 DEF AcctInv
  <2>0. \A p \in AcOps, steps \in {{"details"}, {"forget"}, Middle} :
          At(p, steps)' => p # o /\ At(p, steps) /\ acOp'[p] = acOp[p]
    BY <1>4 DEF Middle
  <2>1. CASE b = a
    <3>1. b \in acRows
      BY <1>1, <2>1 DEF AcctInv, a
    <3>2. \A p \in AcOps : At(p, {"forget"})' => acOp'[p].acct # a
      BY <1>1, <2>0, <2>1, Alone, InTheMiddle DEF a
    <3> QED
      BY <1>1, <2>1, <3>1, <3>2
  <2>2. CASE b # a
    <3>1. \A p \in AcOps : At(p, Middle) /\ acOp[p].acct = b => p # o
      BY <2>2 DEF a
    <3>2. Between(b) => Between(b)'
      BY <1>4, <3>1, BetweenAt
    <3>3. (b \in acSessions' <=> b \in acSessions) /\ (b \in acHalf' <=> b \in acHalf)
      BY <1>1, <2>2
    <3> QED
      BY <2>0, <3>2, <3>3 DEF AcctInv
  <2> QED
    BY <2>1, <2>2
<1>8. ActorInv'
  <2> SUFFICES ASSUME ~acTwoChose
               PROVE  (\A p \in AcOps : ~At(p, Middle)') /\ ActsRight'
    BY <1>1, InTheMiddle DEF ActorInv
  <2>1. acActive = a
    BY <1>1 DEF ActorInv, a
  <2>2. \A p \in AcOps : p # o => ~At(p, Middle)
    BY <1>1 DEF ActorInv
  <2>3. \A p \in AcOps : ~At(p, Middle)'
    BY <1>4, <2>2 DEF Middle
  <2> QED
    BY <1>1, <2>1, <2>3 DEF ActsRight
<1>9. StreamInv'
  <2>1. At(o, {"forget", "sessions"})'
    BY <1>4
  <2>2. \A p \in AcOps : At(p, {"columns", "lock", "start"})' => At(p, {"columns", "lock", "start"})
    BY <1>4
  <2> QED
    BY <1>1, <2>1, <2>2 DEF StreamInv
<1> QED
  BY <1>5, <1>6, <1>7, <1>8, <1>9

\* A login cut off: before its session the row stays without one, in its restart the streams
\* are left as they are.
LEMMA DropKeeps == ASSUME AccountInv, NEW o \in AcOps, DropLogin(o) PROVE AccountInv'
<1> USE DEF AccountInv
<1> DEFINE a == acOp[o].acct
<1>1. /\ o \in Busy /\ acOp[o].kind = "login" /\ CommandEnds(o)
      /\ acHalf' = IF acOp[o].step = "details" THEN acHalf \union {a} ELSE acHalf
      /\ acRaced' = (acRaced \/ o \in Restarting)
      /\ UNCHANGED <<acRows, acActive, acSessions, acActor, acLayout, acStreams, acOverlap,
                     acTwoChose>>
  BY DEF DropLogin, acStored, acMemory, Busy
<1>2. a \in AcAccounts /\ acOp[o] \in Commands
  BY <1>1, BusyIsACommand DEF ShareInv
<1>3. Replaced(o, <<>>)
  BY <1>1, Ending
<1>4. /\ ShareInv' /\ Busy' = Busy \ {o}
      /\ \A p \in AcOps \ {o} : acOp'[p] = acOp[p]
      /\ \A steps : \A p \in AcOps : p # o => (At(p, steps)' <=> At(p, steps))
      /\ \A steps : ~At(o, steps)'
      /\ acOp' \in [AcOps -> Commands \union {<<>>}]
  BY <1>1, <1>3, EndedShares DEF Replaced
<1>5. AccountsTyped'
  <2>1. acRaced' \in BOOLEAN
    BY <1>1
  <2>2. acHalf' \in SUBSET AcAccounts
    BY <1>1, <1>2 DEF AccountsTyped
  <2> QED
    BY <1>1, <1>4, <2>1, <2>2 DEF AccountsTyped
<1>6. AcctInv' /\ ActorInv'
  <2>1. CASE At(o, {"details"})
    <3>0. acHalf' = acHalf \union {a}
      BY <1>1, <2>1 DEF At
    <3>1. AcctInv'
      <4> SUFFICES ASSUME NEW b \in AcAccounts \ acOverlap
                   PROVE  /\ \A p \in AcOps : At(p, {"details"})' /\ acOp'[p].acct = b => b \in acRows
                          /\ \A p \in AcOps : At(p, {"forget"})' /\ acOp'[p].acct = b => b \notin acRows
                          /\ ~Between(b)' => /\ b \in acSessions => b \in acRows
                                             /\ b \in acRows \ acHalf' => b \in acSessions
        BY <1>1 DEF AcctInv
      <4>0. \A p \in AcOps, steps \in {{"details"}, {"forget"}, Middle} :
              At(p, steps)' => p # o /\ At(p, steps) /\ acOp'[p] = acOp[p]
        BY <1>4
      <4>1. CASE b = a
        <5>1. b \in acRows
          BY <1>1, <2>1, <4>1 DEF AcctInv
        <5>2. \A p \in AcOps : At(p, {"forget"})' => acOp'[p].acct # a
          BY <1>1, <2>1, <4>0, <4>1, Alone, InTheMiddle
        <5> QED
          BY <3>0, <4>1, <5>1, <5>2
      <4>2. CASE b # a
        <5>1. \A p \in AcOps : At(p, Middle) /\ acOp[p].acct = b => p # o
          BY <4>2
        <5>2. Between(b) => Between(b)'
          BY <1>4, <5>1, BetweenAt
        <5>3. b \in acHalf' <=> b \in acHalf
          BY <3>0, <4>2
        <5> QED
          BY <4>0, <5>2, <5>3 DEF AcctInv
      <4> QED
        BY <4>1, <4>2
    <3>2. ActorInv'
      <4> SUFFICES ASSUME ~acTwoChose
                   PROVE  (\A p \in AcOps : ~At(p, Middle)') /\ acActive \in acHalf'
        BY <1>1, InTheMiddle DEF ActorInv
      <4>1. acActive = a
        BY <1>1, <2>1 DEF ActorInv
      <4>2. \A p \in AcOps : p # o => ~At(p, Middle)
        BY <1>1, <2>1, InTheMiddle DEF ActorInv
      <4> QED
        BY <1>4, <3>0, <4>1, <4>2
    <3> QED
      BY <3>1, <3>2
  <2>2. CASE ~At(o, {"details"})
    <3>1. ~At(o, Middle) /\ acHalf' = acHalf
      BY <1>1, <2>2 DEF ShareInv, At, Middle
    <3> QED
      BY <1>1, <1>4, <3>1, BeyondKeeps
  <2> QED
    BY <2>1, <2>2
<1>7. StreamInv'
  <2> SUFFICES ASSUME ~acRaced'
               PROVE  StreamInv'
    BY DEF StreamInv
  <2>1. ~acRaced /\ o \notin Restarting
    BY <1>1
  <2>2. \A steps \in {{"forget", "sessions"}, {"columns", "lock", "start"},
                     {"lock", "start"}} : ~At(o, steps)
    BY <1>1, <2>1 DEF Restarting, At, ShareInv
  <2>3. \A p \in AcOps, steps \in {{"forget", "sessions"}, {"columns", "lock", "start"},
                                   {"lock", "start"}} :
          /\ At(p, steps)' <=> At(p, steps)
          /\ At(p, steps) => acOp'[p] = acOp[p]
    BY <1>4, <2>2
  <2> QED
    BY <1>1, <2>1, <2>3 DEF StreamInv
<1> QED
  BY <1>4, <1>5, <1>6, <1>7

\* A logout takes the session; the actor is the row's choice, or any session that is left.
LEMMA ForgetKeeps == ASSUME AccountInv, NEW o \in AcOps, ForgetSession(o) PROVE AccountInv'
<1> USE DEF AccountInv
<1> DEFINE a == acOp[o].acct
           left == acSessions \ {a}
           fallback == acOp[o].fallback
<1>1. /\ o \in Busy /\ acOp[o].kind = "logout" /\ At(o, {"forget"})
      /\ acSessions' = left /\ AcGoTo(o, "sessions") /\ At(o, Middle)
      /\ UNCHANGED <<acRows, acActive, acLayout, acStreams, acHalf, acOverlap, acTwoChose,
                     acRaced>>
  BY DEF ForgetSession, AcStep, SessionsAfter, acStored, acGhosts, Busy, At, Middle
<1> PICK any \in (IF acActor # a THEN {acActor} ELSE IF left = {} THEN {NoAcct} ELSE left) :
            acActor' = IF fallback \in left THEN fallback ELSE any
  BY DEF ForgetSession, ActorAfter
<1>2. acActor' \in acSessions' \union {NoAcct}
  BY <1>1 DEF AccountsTyped
<1>3. Stepped(o, "sessions")
  BY <1>1, Stepping
<1> PICK r \in Commands : /\ Replaced(o, r) /\ r.step = "sessions" /\ r.kind = acOp[o].kind
                          /\ r.acct = a
  BY <1>3 DEF Stepped
<1>4. /\ \A p \in AcOps \ {o} : acOp'[p] = acOp[p]
      /\ \A steps : \A p \in AcOps : p # o => (At(p, steps)' <=> At(p, steps))
      /\ \A steps : At(o, steps)' <=> "sessions" \in steps
      /\ acOp'[o] = r /\ acOp' \in [AcOps -> Commands \union {<<>>}]
  BY <1>1, GoneOn DEF Replaced
<1>5. AccountsTyped'
  BY <1>1, <1>2, <1>4 DEF AccountsTyped
<1>6. ShareInv'
  BY <1>1, GoneOnShares DEF Middle
<1>7. AcctInv'
  <2> SUFFICES ASSUME NEW b \in AcAccounts \ acOverlap
               PROVE  /\ \A p \in AcOps : At(p, {"details"})' /\ acOp'[p].acct = b => b \in acRows
                      /\ \A p \in AcOps : At(p, {"forget"})' /\ acOp'[p].acct = b => b \notin acRows
                      /\ ~Between(b)' => /\ b \in acSessions' => b \in acRows
                                         /\ b \in acRows \ acHalf => b \in acSessions'
    BY <1>1 DEF AcctInv
  <2>0. \A p \in AcOps, steps \in {{"details"}, {"forget"}, Middle} :
          At(p, steps)' => p # o /\ At(p, steps) /\ acOp'[p] = acOp[p]
    BY <1>4 DEF Middle
  <2>1. CASE b = a
    <3>1. b \notin acRows /\ b \notin acSessions'
      BY <1>1, <2>1 DEF AcctInv
    <3>2. \A p \in AcOps : At(p, {"details"})' => acOp'[p].acct # a
      BY <1>1, <2>0, <2>1, Alone, InTheMiddle
    <3> QED
      BY <2>1, <3>1, <3>2
  <2>2. CASE b # a
    <3>1. \A p \in AcOps : At(p, Middle) /\ acOp[p].acct = b => p # o
      BY <2>2
    <3>2. Between(b) => Between(b)'
      BY <1>4, <3>1, BetweenAt
    <3>3. b \in acSessions' <=> b \in acSessions
      BY <1>1, <2>2
    <3> QED
      BY <2>0, <3>2, <3>3 DEF AcctInv
  <2> QED
    BY <2>1, <2>2
<1>8. ActorInv'
  <2> SUFFICES ASSUME ~acTwoChose
               PROVE  /\ \A p \in AcOps : ~At(p, Middle)'
                      /\ acActive \notin acHalf \union acOverlap => ActsRight'
    BY <1>1, InTheMiddle DEF ActorInv
  <2>1. acActive = fallback /\ a \notin acOverlap
    BY <1>1 DEF ActorInv
  <2>2. \A p \in AcOps : p # o => ~At(p, Middle)
    BY <1>1 DEF ActorInv
  <2>3. a \in AcAccounts /\ a \notin acRows
    BY <1>1, <2>1 DEF AcctInv, ShareInv
  <2>4. ASSUME NEW b, b # a PROVE ~Between(b)
    <3>1. \A p \in AcOps : At(p, Middle) => acOp[p].acct = a
      BY <2>2
    <3> QED
      BY <2>4, <3>1, BetweenAt
  <2>5. \A b \in left : b \in AcAccounts /\ (b \in acOverlap \/ b \in acRows)
    BY <2>4 DEF AcctInv, AccountsTyped
  <2>6. \A p \in AcOps : ~At(p, Middle)'
    BY <1>4, <2>2 DEF Middle
  <2>7. CASE acRows = {}
    <3>1. acActive = NoAcct /\ fallback \notin left
      BY <2>1, <2>5, <2>7, AcAssumption DEF AccountsTyped
    <3>2. acActor' = any
      BY <3>1
    <3>3. any = NoAcct \/ any \in left
      BY DEF AccountsTyped
    <3>4. any = NoAcct \/ any \in acOverlap
      BY <2>5, <2>7, <3>3
    <3> QED
      BY <1>1, <2>6, <3>1, <3>2, <3>4 DEF ActsRight
  <2>8. CASE acRows # {}
    <3>1. acActive \in acRows /\ acActive \in AcAccounts /\ acActive # a
      BY <2>3, <2>8 DEF AccountsTyped
    <3>2. acActive \notin acHalf \union acOverlap => acActive \in acSessions
      BY <2>4, <3>1 DEF AcctInv
    <3>3. acActive \notin acHalf \union acOverlap => acActor' = acActive
      BY <2>1, <3>1, <3>2
    <3> QED
      BY <1>1, <2>6, <3>3 DEF ActsRight
  <2> QED
    BY <2>7, <2>8
<1>9. StreamInv'
  <2>1. At(o, {"forget", "sessions"})'
    BY <1>4
  <2>2. \A p \in AcOps : At(p, {"columns", "lock", "start"})' => At(p, {"columns", "lock", "start"})
    BY <1>4
  <2> QED
    BY <1>1, <2>1, <2>2 DEF StreamInv
<1> QED
  BY <1>5, <1>6, <1>7, <1>8, <1>9

LEMMA SwitchKeeps == ASSUME AccountInv, SwitchActive PROVE AccountInv'
<1> USE DEF AccountInv
<1> PICK a \in acSessions \intersect acRows : acActive' = a /\ acActor' = a
  BY DEF SwitchActive
<1>1. UNCHANGED <<acRows, acSessions, acLayout, acStreams, acOp, acHalf, acOverlap, acRaced>>
      /\ Chooses
  BY DEF SwitchActive
<1>2. Busy' = Busy /\ \A p, steps : At(p, steps)' <=> At(p, steps)
  BY <1>1 DEF At, Busy
<1>3. AccountsTyped'
  BY <1>1 DEF AccountsTyped, Chooses
<1>4. ShareInv'
  BY <1>1, <1>2 DEF ShareInv
<1>5. AcctInv'
  BY <1>1, <1>2 DEF AcctInv, Between
<1>6. ActorInv'
  <2> SUFFICES ASSUME ~acTwoChose' PROVE ActorInv'
    BY DEF ActorInv
  <2>1. \A p \in AcOps : ~At(p, Middle)
    BY <1>1 DEF Chooses, At, Middle
  <2>2. \A p \in AcOps : ~At(p, Middle)' /\ ~At(p, {"details"})' /\ ~At(p, {"forget"})'
    BY <1>2, <2>1, InTheMiddle
  <2> QED
    BY <2>2 DEF ActorInv, ActsRight
<1>7. StreamInv'
  BY <1>1, <1>2 DEF StreamInv
<1> QED
  BY <1>3, <1>4, <1>5, <1>6, <1>7

\* The sessions are read: from here on the streams are decided, unless somebody else restarts
\* them too.
LEMMA SnapSessionsKeeps == ASSUME AccountInv, NEW o \in AcOps, SnapSessions(o) PROVE AccountInv'
<1> USE DEF AccountInv
<1>1. /\ o \in Busy /\ acOp[o].step = "sessions" /\ acOp[o] \in Commands
      /\ acOp' = [acOp EXCEPT ![o].step = "columns", ![o].snap = acSessions]
      /\ acRaced' = \E p \in Restarting : p # o
      /\ UNCHANGED <<acRows, acActive, acSessions, acActor, acLayout, acStreams, acHalf,
                     acOverlap, acTwoChose>>
  BY BusyIsACommand DEF SnapSessions, Snapshot, acStored, acMemory, Busy
<1> DEFINE q == [acOp[o] EXCEPT !.step = "columns"]
           r == [q EXCEPT !.snap = acSessions]
<1>2. q \in Commands
  BY <1>1 DEF Commands
<1>3. r \in Commands
  BY <1>2 DEF Commands, AccountsTyped
<1>4. r.step = "columns" /\ r.kind = acOp[o].kind /\ r.acct = acOp[o].acct
      /\ r.snap = acSessions
  BY <1>1 DEF Commands
<1>5. Replaced(o, r)
  <2>1. acOp[o] \in Commands /\ acOp \in [AcOps -> Commands \union {<<>>}]
    BY <1>1 DEF AccountsTyped
  <2> DEFINE f == [acOp EXCEPT ![o].step = "columns"]
  <2>2. f = [acOp EXCEPT ![o] = q]
    BY <2>1
  <2>3. f \in [AcOps -> Commands \union {<<>>}] /\ f[o] = q
        /\ \A p \in AcOps : p # o => f[p] = acOp[p]
    BY <1>2, <2>1, <2>2
  <2>4. acOp' = [f EXCEPT ![o].snap = acSessions]
    BY <1>1
  <2> HIDE DEF f, q
  <2>5. acOp' = [f EXCEPT ![o] = r]
    BY <2>3, <2>4
  <2> HIDE DEF r
  <2> QED
    BY <1>3, <2>3, <2>5 DEF Replaced
<1> HIDE DEF q, r
<1>6. /\ \A p \in AcOps \ {o} : acOp'[p] = acOp[p]
      /\ \A steps : \A p \in AcOps : p # o => (At(p, steps)' <=> At(p, steps))
      /\ \A steps : At(o, steps)' <=> "columns" \in steps
      /\ acOp'[o] = r /\ acOp' \in [AcOps -> Commands \union {<<>>}]
  <2>1. acOp'[o] = r /\ acOp' \in [AcOps -> Commands \union {<<>>}]
    BY <1>5 DEF Replaced
  <2>2. /\ \A p \in AcOps \ {o} : acOp'[p] = acOp[p]
        /\ \A steps : \A p \in AcOps : p # o => (At(p, steps)' <=> At(p, steps))
        /\ \A steps : At(o, steps)' <=> r.step \in steps
    BY <1>1, <1>3, <1>4, <1>5, GoneOn
  <2> QED
    BY <1>4, <2>1, <2>2
<1>7. AccountsTyped'
  <2>1. acRaced' \in BOOLEAN
    BY <1>1
  <2> QED
    BY <1>1, <1>6, <2>1 DEF AccountsTyped
<1>8. ShareInv'
  BY <1>1, <1>3, <1>4, <1>5, GoneOnShares DEF Middle
<1>9. AcctInv' /\ ActorInv'
  <2>1. ~At(o, Middle) /\ ~At(o, Middle)'
    BY <1>1, <1>6 DEF At, Middle
  <2> QED
    BY <1>1, <1>6, <2>1, BeyondKeeps
<1>10. StreamInv'
  <2> SUFFICES ASSUME ~acRaced' PROVE StreamInv'
    BY DEF StreamInv
  <2>1. \A p \in Restarting : p = o
    BY <1>1
  <2>2. \A p \in AcOps, steps \in {{"columns", "lock", "start"}, {"lock", "start"}} :
          p # o => ~At(p, steps)'
    BY <1>6, <2>1 DEF Restarting, At
  <2>3. At(o, {"columns", "lock", "start"})' /\ ~At(o, {"lock", "start"})' /\ acOp'[o].snap = acSessions'
    BY <1>1, <1>4, <1>6
  <2> QED
    BY <2>2, <2>3 DEF StreamInv
<1> QED
  BY <1>7, <1>8, <1>9, <1>10

LEMMA SnapColumnsKeeps == ASSUME AccountInv, NEW o \in AcOps, SnapColumns(o) PROVE AccountInv'
<1> USE DEF AccountInv
<1>1. /\ o \in Busy /\ acOp[o].step = "columns" /\ acOp[o] \in Commands
      /\ acOp' = [acOp EXCEPT ![o].step = "lock", ![o].layout = acLayout]
      /\ UNCHANGED <<acRows, acActive, acSessions, acActor, acLayout, acStreams, acHalf,
                     acOverlap, acTwoChose, acRaced>>
  BY BusyIsACommand DEF SnapColumns, acStored, acMemory, acGhosts, Busy
<1> DEFINE q == [acOp[o] EXCEPT !.step = "lock"]
           r == [q EXCEPT !.layout = acLayout]
<1>2. q \in Commands
  BY <1>1 DEF Commands
<1>3. r \in Commands
  BY <1>2 DEF Commands, AccountsTyped
<1>4. r.step = "lock" /\ r.kind = acOp[o].kind /\ r.acct = acOp[o].acct
      /\ r.snap = acOp[o].snap /\ r.layout = acLayout
  BY <1>1 DEF Commands
<1>5. Replaced(o, r)
  <2>1. acOp[o] \in Commands /\ acOp \in [AcOps -> Commands \union {<<>>}]
    BY <1>1 DEF AccountsTyped
  <2> DEFINE f == [acOp EXCEPT ![o].step = "lock"]
  <2>2. f = [acOp EXCEPT ![o] = q]
    BY <2>1
  <2>3. f \in [AcOps -> Commands \union {<<>>}] /\ f[o] = q
        /\ \A p \in AcOps : p # o => f[p] = acOp[p]
    BY <1>2, <2>1, <2>2
  <2>4. acOp' = [f EXCEPT ![o].layout = acLayout]
    BY <1>1
  <2> HIDE DEF f, q
  <2>5. acOp' = [f EXCEPT ![o] = r]
    BY <2>3, <2>4
  <2> HIDE DEF r
  <2> QED
    BY <1>3, <2>3, <2>5 DEF Replaced
<1> HIDE DEF q, r
<1>6. /\ \A p \in AcOps \ {o} : acOp'[p] = acOp[p]
      /\ \A steps : \A p \in AcOps : p # o => (At(p, steps)' <=> At(p, steps))
      /\ \A steps : At(o, steps)' <=> "lock" \in steps
      /\ acOp'[o] = r /\ acOp' \in [AcOps -> Commands \union {<<>>}]
  <2>1. acOp'[o] = r /\ acOp' \in [AcOps -> Commands \union {<<>>}]
    BY <1>5 DEF Replaced
  <2>2. /\ \A p \in AcOps \ {o} : acOp'[p] = acOp[p]
        /\ \A steps : \A p \in AcOps : p # o => (At(p, steps)' <=> At(p, steps))
        /\ \A steps : At(o, steps)' <=> r.step \in steps
    BY <1>1, <1>3, <1>4, <1>5, GoneOn
  <2> QED
    BY <1>4, <2>1, <2>2
<1>7. AccountsTyped'
  BY <1>1, <1>6 DEF AccountsTyped
<1>8. ShareInv'
  BY <1>1, <1>3, <1>4, <1>5, GoneOnShares DEF Middle
<1>9. AcctInv' /\ ActorInv'
  <2>1. ~At(o, Middle) /\ ~At(o, Middle)'
    BY <1>1, <1>6 DEF At, Middle
  <2> QED
    BY <1>1, <1>6, <2>1, BeyondKeeps
<1>10. StreamInv'
  <2>0. At(o, {"columns", "lock", "start"}) /\ ~At(o, {"forget", "sessions"})
    BY <1>1 DEF At
  <2>1. At(o, {"columns", "lock", "start"})' /\ ~At(o, {"forget", "sessions"})'
    BY <1>6
  <2>2. \A p \in AcOps : /\ At(p, {"columns", "lock", "start"})' <=> At(p, {"columns", "lock", "start"})
                         /\ At(p, {"forget", "sessions"})' <=> At(p, {"forget", "sessions"})
                         /\ acOp'[p].snap = acOp[p].snap
    BY <1>4, <1>6, <2>0, <2>1
  <2>3. \A p \in AcOps : At(p, {"lock", "start"})' =>
          \/ p = o /\ acOp'[p].layout = acLayout
          \/ At(p, {"lock", "start"}) /\ acOp'[p].layout = acOp[p].layout
    BY <1>4, <1>6
  <2> QED
    BY <1>1, <2>2, <2>3 DEF StreamInv
<1> QED
  BY <1>7, <1>8, <1>9, <1>10

\* What the end of a restart leaves.
LEMMA EndedKeeps ==
    ASSUME AccountInv, NEW o \in Busy, acOp[o].step \in {"lock", "start"}, CommandEnds(o),
           UNCHANGED <<acRows, acActive, acSessions, acActor, acHalf, acOverlap, acTwoChose, acLayout,
                       acRaced>>,
           acStreams' = [a \in acOp[o].snap |-> acOp[o].layout]
    PROVE  AccountInv'
<1> USE DEF AccountInv
<1>0. o \in AcOps
  BY DEF Busy
<1>1. Replaced(o, <<>>)
  BY <1>0, Ending
<1>2. /\ ShareInv'
      /\ \A p \in AcOps \ {o} : acOp'[p] = acOp[p]
      /\ \A steps : \A p \in AcOps : p # o => (At(p, steps)' <=> At(p, steps))
      /\ \A steps : ~At(o, steps)'
      /\ acOp' \in [AcOps -> Commands \union {<<>>}]
  BY <1>1, EndedShares DEF Replaced
<1>3. AccountsTyped'
  BY <1>2 DEF AccountsTyped
<1>4. AcctInv' /\ ActorInv'
  <2>1. ~At(o, Middle)
    BY DEF At, Middle
  <2> QED
    BY <1>0, <1>2, <2>1, BeyondKeeps
<1>5. StreamInv'
  <2> SUFFICES ASSUME ~acRaced PROVE StreamInv'
    BY DEF StreamInv
  <2>1. At(o, {"columns", "lock", "start"}) /\ At(o, {"lock", "start"}) /\ ~At(o, {"forget", "sessions"})
    BY DEF At
  <2>2. \A p \in AcOps : ~At(p, {"columns", "lock", "start"})' /\ ~At(p, {"lock", "start"})'
    <3>1. \A p \in AcOps : p # o => ~At(p, {"columns", "lock", "start"})
      BY <1>0, <2>1 DEF StreamInv
    <3>2. \A p \in AcOps : At(p, {"lock", "start"}) => At(p, {"columns", "lock", "start"})
      BY DEF At
    <3> QED
      BY <1>2, <3>1, <3>2
  <2>3. (\A p \in AcOps : ~At(p, {"forget", "sessions"})') => \A p \in AcOps : ~At(p, {"forget", "sessions"})
    BY <1>2, <2>1
  <2>4. (\A p \in AcOps : ~At(p, {"forget", "sessions"})') => acStreams' = [a \in acSessions |-> acLayout]
    BY <1>0, <2>1, <2>3 DEF StreamInv
  <2> QED
    BY <2>2, <2>4 DEF StreamInv
<1> QED
  BY <1>2, <1>3, <1>4, <1>5

\* restart_streaming without a session is over when the old streams are stopped.
LEMMA AbortKeeps == ASSUME AccountInv, NEW o \in AcOps, AbortStreams(o) PROVE AccountInv'
<1> USE DEF AccountInv
<1>1. /\ o \in Busy /\ acOp[o].step = "lock" /\ acOp[o] \in Commands
      /\ acStreams' = Restrict(acStreams, {})
      /\ UNCHANGED <<acRows, acActive, acSessions, acActor, acLayout, acHalf, acOverlap, acTwoChose,
                     acRaced>>
  BY BusyIsACommand DEF AbortStreams, acStored, acMemory, acGhosts, Busy
<1>2. CASE acOp[o].snap = {}
  <2>1. CommandEnds(o)
    BY <1>2 DEF AbortStreams
  <2>2. acStreams' = [a \in acOp[o].snap |-> acOp[o].layout]
    BY <1>1, <1>2 DEF Restrict
  <2> QED
    BY <1>1, <2>1, <2>2, EndedKeeps
<1>3. CASE acOp[o].snap # {}
  <2>1. Stepped(o, "start")
    BY <1>1, <1>3, Stepping DEF AbortStreams
  <2> PICK r \in Commands : /\ Replaced(o, r) /\ r.step = "start" /\ r.kind = acOp[o].kind
                            /\ r.acct = acOp[o].acct /\ r.snap = acOp[o].snap
                            /\ r.layout = acOp[o].layout
    BY <2>1 DEF Stepped
  <2>2. /\ \A p \in AcOps \ {o} : acOp'[p] = acOp[p]
        /\ \A steps : \A p \in AcOps : p # o => (At(p, steps)' <=> At(p, steps))
        /\ \A steps : At(o, steps)' <=> "start" \in steps
        /\ acOp'[o] = r /\ acOp' \in [AcOps -> Commands \union {<<>>}]
    BY <1>1, GoneOn DEF Replaced
  <2>3. AccountsTyped'
    BY <1>1, <2>2 DEF AccountsTyped
  <2>4. ShareInv'
    BY <1>1, GoneOnShares DEF Middle
  <2>5. ~At(o, Middle) /\ ~At(o, Middle)'
    BY <1>1, <2>2 DEF At, Middle
  <2>6. AcctInv' /\ ActorInv'
    BY <1>1, <2>2, <2>5, BeyondKeeps
  <2>7. StreamInv'
    <3>1. /\ At(o, {"columns", "lock", "start"}) /\ At(o, {"lock", "start"})
          /\ ~At(o, {"forget", "sessions"}) /\ ~At(o, {"forget", "sessions"})'
          /\ At(o, {"columns", "lock", "start"})' /\ At(o, {"lock", "start"})'
      BY <1>1, <2>2 DEF At
    <3>2. \A p \in AcOps : /\ At(p, {"columns", "lock", "start"})' <=> At(p, {"columns", "lock", "start"})
                           /\ At(p, {"lock", "start"})' <=> At(p, {"lock", "start"})
                           /\ At(p, {"forget", "sessions"})' <=> At(p, {"forget", "sessions"})
                           /\ acOp'[p].snap = acOp[p].snap /\ acOp'[p].layout = acOp[p].layout
      BY <2>2, <3>1
    <3>3. \E p \in AcOps : At(p, {"columns", "lock", "start"})'
      BY <3>1
    <3> QED
      BY <1>1, <3>2, <3>3 DEF StreamInv
  <2> QED
    BY <2>3, <2>4, <2>6, <2>7
<1> QED
  BY <1>2, <1>3

LEMMA StartKeeps == ASSUME AccountInv, NEW o \in AcOps, StartStreams(o) PROVE AccountInv'
  BY EndedKeeps DEF StartStreams, acStored, acMemory, acGhosts, Busy

\* A start forgets every command, and what it cannot restore is half.
LEMMA RestartKeeps == ASSUME AccountInv, Restart PROVE AccountInv'
<1> USE DEF AccountInv
<1> PICK restored \in SUBSET acRows :
          /\ acSessions' = restored /\ acHalf' = acRows \ restored
          /\ acActor' = IF acActive \in restored THEN acActive
                        ELSE IF restored = {} THEN NoAcct
                        ELSE CHOOSE a \in restored : \A b \in restored : a <= b
          /\ acStreams' = [a \in restored |-> acLayout]
  BY DEF Restart
<1>1. /\ acOp' = [o \in AcOps |-> <<>>] /\ acOverlap' = {} /\ acTwoChose' = FALSE
      /\ acRaced' = FALSE
      /\ UNCHANGED <<acRows, acActive, acLayout>>
  BY DEF Restart, acStored
<1>2. Busy' = {} /\ \A p, steps : ~At(p, steps)'
  BY <1>1 DEF Busy, At
<1>3. restored \in SUBSET AcAccounts
  BY DEF AccountsTyped
<1>4. acActor' \in restored \union {NoAcct}
  BY <1>3, FirstAccount
<1>5. AccountsTyped'
  BY <1>1, <1>3, <1>4 DEF AccountsTyped
<1>6. ShareInv' /\ AcctInv'
  BY <1>1, <1>2, BetweenAt DEF ShareInv, AcctInv
<1>7. acActive \notin acHalf' => acActor' = acActive
  <2>1. CASE acRows = {}
    BY <2>1, <1>3, AcAssumption DEF AccountsTyped
  <2>2. CASE acRows # {}
    BY <2>2 DEF AccountsTyped
  <2> QED
    BY <2>1, <2>2
<1>8. ActorInv'
  BY <1>1, <1>2, <1>7 DEF ActorInv, ActsRight
<1>9. StreamInv'
  BY <1>1, <1>2 DEF StreamInv
<1> QED
  BY <1>5, <1>6, <1>8, <1>9

LEMMA AccountsInit == AccountSetInit => AccountInv
<1> SUFFICES ASSUME AccountSetInit PROVE AccountInv
  OBVIOUS
<1> USE DEF AccountSetInit
<1>1. Busy = {} /\ \A p, steps : ~At(p, steps)
  BY DEF Busy, At
<1>2. AccountsTyped
  BY DEF AccountsTyped
<1>3. ShareInv /\ AcctInv /\ ActorInv
  BY <1>1 DEF ShareInv, AcctInv, ActorInv, ActsRight
<1>4. StreamInv
  BY <1>1 DEF StreamInv
<1> QED
  BY <1>2, <1>3, <1>4 DEF AccountInv

LEMMA AccountsNext == ASSUME AccountInv, AccountSetNext PROVE AccountInv'
  BY RestartKeeps, SwitchKeeps, StoreKeeps, AddKeeps, DropKeeps, RemoveKeeps, ForgetKeeps,
     SaveKeeps, SnapSessionsKeeps, SnapColumnsKeeps, AbortKeeps, StartKeeps DEF AccountSetNext

LEMMA AccountsStill == ASSUME AccountInv, UNCHANGED acVars PROVE AccountInv'
<1>1. UNCHANGED <<acRows, acActive, acSessions, acActor, acLayout, acStreams, acOp, acHalf,
                  acOverlap, acTwoChose, acRaced>>
  BY DEF acVars
<1>2. Busy' = Busy /\ \A p, steps : At(p, steps)' <=> At(p, steps)
  BY <1>1 DEF Busy, At
<1>3. AccountsTyped' /\ ShareInv'
  BY <1>1, <1>2 DEF AccountInv, AccountsTyped, ShareInv
<1>4. AcctInv'
  BY <1>1, <1>2 DEF AccountInv, AcctInv, Between
<1>5. ActorInv' /\ StreamInv'
  BY <1>1, <1>2 DEF AccountInv, ActorInv, ActsRight, StreamInv
<1> QED
  BY <1>3, <1>4, <1>5 DEF AccountInv

LEMMA AccountInvMeans ==
    AccountInv => SessionsMatchRows /\ ActorIsTheActiveRow /\ StreamsFollowSessions
<1> SUFFICES ASSUME AccountInv PROVE SessionsMatchRows /\ ActorIsTheActiveRow /\ StreamsFollowSessions
  OBVIOUS
<1>1. SessionsMatchRows
  BY DEF AccountInv, AcctInv, SessionsMatchRows
<1>2. ActorIsTheActiveRow
  <2> SUFFICES ASSUME ~acTwoChose, \A a \in AcAccounts : ~Between(a),
                      acActive \notin acHalf \union acOverlap
               PROVE  ActsRight
    BY DEF ActorIsTheActiveRow, ActsRight
  <2>1. ASSUME NEW o \in AcOps, At(o, Middle) PROVE FALSE
    <3>1. At(o, {"details"}) \/ At(o, {"forget"})
      BY <2>1 DEF At, Middle
    <3>2. o \in Busy /\ acOp[o].kind # "columns"
      BY <3>1 DEF AccountInv, ShareInv, At
    <3>3. acOp[o].acct \in AcAccounts
      BY <3>2 DEF AccountInv, ShareInv
    <3> QED
      BY <2>1, <3>3, BetweenAt
  <2> QED
    BY <2>1 DEF AccountInv, ActorInv
<1>3. StreamsFollowSessions
  <2> SUFFICES ASSUME Busy = {}, ~acRaced PROVE acStreams = [a \in acSessions |-> acLayout]
    BY DEF StreamsFollowSessions
  <2>1. \A p, steps : ~At(p, steps)
    BY DEF At
  <2> QED
    BY <2>1 DEF AccountInv, StreamInv
<1> QED
  BY <1>1, <1>2, <1>3

(***************************************************************************)
(* The logins.                                                             *)
(***************************************************************************)

\* The requests on the ports: of a page, or anything else.
Answers == [of : LgFlows, says : {"result", "error"}, stays : BOOLEAN]
           \union [of : {NoLogin}, says : {"noise"}, stays : BOOLEAN]

\* The steps before a login's page is open, and those after its answer.
Early == {"idle", "asked", "detect", "prepare", "open"}
Late == {"exchange", "verify", "persist", "done"}

LoginsTyped ==
    /\ lgStep \in [LgFlows -> Early \union {"wait"} \union Late \union {"ended"}]
    /\ lgPort \in [LgFlows -> LgPorts \union {NoPort}]
    /\ lgBacklog \in [LgPorts -> Seq(Answers)]
    /\ lgReading \in [LgFlows -> {<<>>} \union {<<r>> : r \in Answers}]
    /\ lgPages \subseteq LgFlows \X LgPorts

\* A port has one listener, and without one nothing waits there.
PortInv ==
    /\ \A f, g \in LgFlows : f # g /\ lgPort[f] = lgPort[g] => lgPort[f] = NoPort
    /\ \A p \in LgPorts : (\A f \in LgFlows : lgPort[f] # p) => lgBacklog[p] = <<>>

Given(f) == \E answer \in {"result", "error"} : <<f, answer>> \in lgGiven

\* Of one login: what it reads or has before it of its own page was given there while it
\* listened; before its page is open nothing is, while it waits what was given is before it, and
\* it goes on only with a result.
FlowInv(f) ==
    /\ \A r \in ToSet(lgReading[f]) : r.of = f => <<f, r.says>> \in lgGiven
    /\ lgPort[f] # NoPort =>
         \A r \in ToSet(lgBacklog[lgPort[f]]) : r.of = f => <<f, r.says>> \in lgGiven
    /\ lgStep[f] \in Early => ~Given(f) /\ \A p \in LgPorts : <<f, p>> \notin lgPages
    /\ lgStep[f] \in {"prepare", "open", "wait"} => lgPort[f] # NoPort
    /\ lgStep[f] \in {"idle", "asked", "detect"} => lgPort[f] = NoPort
    /\ lgReading[f] # <<>> => lgStep[f] = "wait"
    /\ lgStep[f] = "wait" /\ Given(f) =>
         \E r \in ToSet(lgBacklog[lgPort[f]]) \union ToSet(lgReading[f]) : r.of = f
    /\ lgStep[f] \in Late => <<f, "result">> \in lgGiven

LoginInv == LoginsTyped /\ PortInv /\ \A f \in LgFlows : FlowInv(f)

LEMMA Queueing ==
    ASSUME NEW S, NEW q \in Seq(S), NEW e \in S
    PROVE  Append(q, e) \in Seq(S) /\ ToSet(Append(q, e)) = ToSet(q) \union {e}
<1>1. /\ Append(q, e) \in Seq(S) /\ DOMAIN Append(q, e) = 1..(Len(q) + 1)
      /\ \A i \in 1..(Len(q) + 1) : Append(q, e)[i] = IF i = Len(q) + 1 THEN e ELSE q[i]
      /\ Len(q) \in Nat /\ DOMAIN q = 1..Len(q)
  OBVIOUS
<1>2. ToSet(Append(q, e)) = ToSet(q) \union {e}
  BY <1>1 DEF ToSet
<1> QED
  BY <1>1, <1>2

LEMMA Dequeueing ==
    ASSUME NEW S, NEW q \in Seq(S), q # <<>>
    PROVE  Head(q) \in S /\ Tail(q) \in Seq(S) /\ ToSet(q) = ToSet(Tail(q)) \union {Head(q)}
<1>1. /\ Head(q) \in S /\ Tail(q) \in Seq(S) /\ Head(q) = q[1]
      /\ Len(q) \in Nat \ {0} /\ DOMAIN q = 1..Len(q) /\ DOMAIN Tail(q) = 1..(Len(q) - 1)
      /\ \A i \in 1..(Len(q) - 1) : Tail(q)[i] = q[i + 1]
  OBVIOUS
<1>2. \A i \in 1..Len(q) : q[i] = Head(q) \/ \E j \in 1..(Len(q) - 1) : q[i] = Tail(q)[j]
  <2> SUFFICES ASSUME NEW i \in 1..Len(q), i # 1
               PROVE  \E j \in 1..(Len(q) - 1) : q[i] = Tail(q)[j]
    BY <1>1
  <2>1. i - 1 \in 1..(Len(q) - 1) /\ q[i] = Tail(q)[i - 1]
    BY <1>1
  <2> QED
    BY <2>1
<1>3. \A j \in 1..(Len(q) - 1) : j + 1 \in 1..Len(q) /\ Tail(q)[j] = q[j + 1]
  BY <1>1
<1>4. ToSet(q) = ToSet(Tail(q)) \union {Head(q)}
  <2>1. ToSet(q) = {q[i] : i \in 1..Len(q)} /\ ToSet(Tail(q)) = {Tail(q)[j] : j \in 1..(Len(q) - 1)}
    BY <1>1 DEF ToSet
  <2>2. Head(q) = q[1] /\ 1 \in 1..Len(q)
    BY <1>1
  <2> DEFINE all == ToSet(q)  rest == ToSet(Tail(q))
  <2>3. \A x : x \in all <=> \E i \in 1..Len(q) : x = q[i]
    BY <2>1
  <2>4. \A x : x \in rest <=> \E j \in 1..(Len(q) - 1) : x = Tail(q)[j]
    BY <2>1
  <2> HIDE DEF all, rest
  <2>5. \A x : x \in all <=> x \in rest \union {Head(q)}
    BY <1>2, <1>3, <2>2, <2>3, <2>4
  <2>6. all = rest \union {Head(q)}
    BY <2>5
  <2> QED
    BY <2>6 DEF all, rest
<1> QED
  BY <1>1, <1>4

\* A login that a step does not touch.
LEMMA FlowStays ==
    ASSUME NEW f \in LgFlows, FlowInv(f),
           lgStep'[f] = lgStep[f], lgPort'[f] = lgPort[f], lgReading'[f] = lgReading[f],
           lgPort[f] # NoPort => lgBacklog'[lgPort[f]] = lgBacklog[lgPort[f]],
           \A p \in LgPorts : <<f, p>> \in lgPages' <=> <<f, p>> \in lgPages,
           \A x : <<f, x>> \in lgGiven' <=> <<f, x>> \in lgGiven
    PROVE  FlowInv(f)'
<1>1. Given(f)' <=> Given(f)
  BY DEF Given
<1>2. lgStep[f] \in {"prepare", "open", "wait"} => lgPort[f] # NoPort
  BY DEF FlowInv
<1>3. lgPort[f] # NoPort => lgBacklog'[lgPort'[f]] = lgBacklog[lgPort[f]]
  OBVIOUS
<1>4. /\ (\A r \in ToSet(lgReading[f]) : r.of = f => <<f, r.says>> \in lgGiven)'
      /\ (lgPort[f] # NoPort =>
            \A r \in ToSet(lgBacklog[lgPort[f]]) : r.of = f => <<f, r.says>> \in lgGiven)'
  BY <1>3 DEF FlowInv
<1>5. /\ (lgStep[f] \in Early => ~Given(f) /\ \A p \in LgPorts : <<f, p>> \notin lgPages)'
      /\ (lgStep[f] \in {"prepare", "open", "wait"} => lgPort[f] # NoPort)'
      /\ (lgStep[f] \in {"idle", "asked", "detect"} => lgPort[f] = NoPort)'
      /\ (lgReading[f] # <<>> => lgStep[f] = "wait")'
      /\ (lgStep[f] \in Late => <<f, "result">> \in lgGiven)'
  BY <1>1 DEF FlowInv
<1>6. (lgStep[f] = "wait" /\ Given(f) =>
         \E r \in ToSet(lgBacklog[lgPort[f]]) \union ToSet(lgReading[f]) : r.of = f)'
  BY <1>1, <1>2, <1>3 DEF FlowInv
<1> QED
  BY <1>4, <1>5, <1>6 DEF FlowInv

\* A login that ends, or leaves its port with an answer.
LEMMA Closed ==
    ASSUME LoginInv, NEW f \in LgFlows, LgCloseListener(f),
           NEW s \in Late \union {"ended"}, lgStep' = [lgStep EXCEPT ![f] = s],
           s \in Late => <<f, "result">> \in lgGiven, UNCHANGED <<lgPages, lgGiven>>
    PROVE  LoginInv'
<1> USE DEF LoginInv
<1>1. /\ lgPort' = [lgPort EXCEPT ![f] = NoPort]
      /\ lgReading' = [lgReading EXCEPT ![f] = <<>>]
      /\ lgBacklog' = [p \in LgPorts |-> IF p = lgPort[f] THEN <<>> ELSE lgBacklog[p]]
  BY DEF LgCloseListener
<1>2. /\ lgPort'[f] = NoPort /\ lgReading'[f] = <<>> /\ lgStep'[f] = s
      /\ \A g \in LgFlows : g # f => /\ lgPort'[g] = lgPort[g] /\ lgReading'[g] = lgReading[g]
                                     /\ lgStep'[g] = lgStep[g]
      /\ \A p \in LgPorts : lgBacklog'[p] = IF p = lgPort[f] THEN <<>> ELSE lgBacklog[p]
  BY <1>1 DEF LoginsTyped
<1>3. LoginsTyped'
  <2>1. lgBacklog' \in [LgPorts -> Seq(Answers)]
    BY <1>1 DEF LoginsTyped
  <2>2. lgStep' \in [LgFlows -> Early \union {"wait"} \union Late \union {"ended"}]
    BY DEF LoginsTyped
  <2> QED
    BY <1>1, <2>1, <2>2 DEF LoginsTyped
<1>4. PortInv'
  <2>1. ASSUME NEW g \in LgFlows, NEW h \in LgFlows, g # h, lgPort'[g] = lgPort'[h]
        PROVE  lgPort'[g] = NoPort
    BY <1>2, <2>1 DEF PortInv
  <2>2. ASSUME NEW p \in LgPorts, \A g \in LgFlows : lgPort'[g] # p PROVE lgBacklog'[p] = <<>>
    <3>1. CASE p = lgPort[f]
      BY <1>2, <3>1
    <3>2. CASE p # lgPort[f]
      <4>1. \A g \in LgFlows : lgPort[g] # p
        BY <1>2, <2>2, <3>2
      <4> QED
        BY <1>2, <3>2, <4>1 DEF PortInv
    <3> QED
      BY <3>1, <3>2
  <2> QED
    BY <2>1, <2>2 DEF PortInv
<1>5. ASSUME NEW g \in LgFlows PROVE FlowInv(g)'
  <2>1. CASE g = f
    <3>1. ToSet(<<>>) = {}
      BY DEF ToSet
    <3> QED
      BY <1>2, <2>1, <3>1 DEF FlowInv, Early, Late
  <2>2. CASE g # f
    <3>1. lgPort[g] # NoPort => lgPort[g] \in LgPorts /\ lgPort[g] # lgPort[f]
      BY <2>2 DEF PortInv, LoginsTyped
    <3>2. lgPort[g] # NoPort => lgBacklog'[lgPort[g]] = lgBacklog[lgPort[g]]
      BY <1>2, <3>1
    <3> QED
      BY <1>2, <2>2, <3>2, FlowStays
  <2> QED
    BY <2>1, <2>2
<1> QED
  BY <1>3, <1>4, <1>5

LEMMA LoginEndsKeeps == ASSUME LoginInv, NEW f \in LgFlows, LoginEnds(f) PROVE LoginInv'
  BY Closed DEF LoginEnds, Late

\* A step of one login that moves neither its port nor what is on the ports.
LEMMA Moves ==
    ASSUME LoginInv, NEW f \in LgFlows, NEW s, lgStep' = [lgStep EXCEPT ![f] = s],
           UNCHANGED <<lgPort, lgReading, lgBacklog, lgPages, lgGiven>>,
           \/ /\ lgStep[f] \in Early /\ s \in Early
              /\ lgPort[f] # NoPort <=> s \in {"prepare", "open"}
           \/ lgStep[f] \in Late /\ s \in Late
    PROVE  LoginInv'
<1> USE DEF LoginInv
<1>1. lgStep'[f] = s /\ \A g \in LgFlows : g # f => lgStep'[g] = lgStep[g]
  BY DEF LoginsTyped
<1>2. LoginsTyped' /\ PortInv'
  BY DEF LoginsTyped, PortInv
<1>3. ASSUME NEW g \in LgFlows PROVE FlowInv(g)'
  <2>1. CASE g # f
    BY <1>1, <2>1, FlowStays
  <2>2. CASE g = f
    <3>1. Given(f)' <=> Given(f)
      BY DEF Given
    <3>2. lgReading[f] = <<>>
      BY DEF FlowInv, Early, Late
    <3> QED
      BY <1>1, <2>2, <3>1, <3>2 DEF FlowInv, Early, Late
  <2> QED
    BY <2>1, <2>2
<1> QED
  BY <1>2, <1>3

LEMMA BindKeeps == ASSUME LoginInv, NEW f \in LgFlows, DetectAndBind(f) PROVE LoginInv'
<1> USE DEF LoginInv
<1> PICK p \in LgPorts : (\A g \in LgFlows : lgPort[g] # p) /\ lgPort' = [lgPort EXCEPT ![f] = p]
  BY DEF DetectAndBind
<1>1. /\ lgStep[f] = "detect" /\ UNCHANGED <<lgReading, lgBacklog, lgPages, lgGiven>>
      /\ lgStep' = [lgStep EXCEPT ![f] = IF lgKind[f] = "misskey" THEN "open" ELSE "prepare"]
  BY DEF DetectAndBind
<1>2. /\ lgPort'[f] = p /\ lgStep'[f] \in {"open", "prepare"} /\ p # NoPort
      /\ \A g \in LgFlows : g # f => lgPort'[g] = lgPort[g] /\ lgStep'[g] = lgStep[g]
  BY <1>1, LgAssumption DEF LoginsTyped
<1>3. lgBacklog[p] = <<>> /\ ToSet(<<>>) = {}
  BY DEF PortInv, ToSet
<1>4. LoginsTyped'
  BY <1>1 DEF LoginsTyped, Early
<1>5. PortInv'
  <2>1. lgPort[f] = NoPort
    BY <1>1 DEF FlowInv
  <2>2. ASSUME NEW g \in LgFlows, NEW h \in LgFlows, g # h, lgPort'[g] = lgPort'[h]
        PROVE  lgPort'[g] = NoPort
    BY <1>2, <2>2 DEF PortInv
  <2>3. ASSUME NEW q \in LgPorts, \A g \in LgFlows : lgPort'[g] # q PROVE lgBacklog'[q] = <<>>
    <3>1. \A g \in LgFlows : lgPort[g] # q
      BY <1>2, <2>1, <2>3, LgAssumption
    <3> QED
      BY <1>1, <3>1 DEF PortInv
  <2> QED
    BY <2>2, <2>3 DEF PortInv
<1>6. ASSUME NEW g \in LgFlows PROVE FlowInv(g)'
  <2>1. CASE g # f
    BY <1>1, <1>2, <2>1, FlowStays
  <2>2. CASE g = f
    <3>1. Given(f)' <=> Given(f)
      BY <1>1 DEF Given
    <3>2. lgReading[f] = <<>>
      BY <1>1 DEF FlowInv
    <3> QED
      BY <1>1, <1>2, <1>3, <2>2, <3>1, <3>2 DEF FlowInv, Early, Late
  <2> QED
    BY <2>1, <2>2
<1> QED
  BY <1>4, <1>5, <1>6

LEMMA OpenKeeps == ASSUME LoginInv, NEW f \in LgFlows, OpenPage(f) PROVE LoginInv'
<1> USE DEF LoginInv
<1>1. /\ lgStep[f] = "open" /\ lgStep' = [lgStep EXCEPT ![f] = "wait"]
      /\ lgPages' = lgPages \union {<<f, lgPort[f]>>}
      /\ UNCHANGED <<lgPort, lgReading, lgBacklog, lgGiven>>
  BY DEF OpenPage
<1>2. lgPort[f] # NoPort /\ lgPort[f] \in LgPorts
  BY <1>1 DEF FlowInv, LoginsTyped
<1>3. lgStep'[f] = "wait" /\ \A g \in LgFlows : g # f => lgStep'[g] = lgStep[g]
  BY <1>1 DEF LoginsTyped
<1>4. LoginsTyped' /\ PortInv'
  BY <1>1, <1>2 DEF LoginsTyped, PortInv
<1>5. ASSUME NEW g \in LgFlows PROVE FlowInv(g)'
  <2>1. CASE g # f
    <3>1. \A p : <<g, p>> \in lgPages' <=> <<g, p>> \in lgPages
      BY <1>1, <2>1
    <3> QED
      BY <1>1, <1>3, <2>1, <3>1, FlowStays
  <2>2. CASE g = f
    <3>1. ~Given(f)'
      BY <1>1 DEF Given, FlowInv, Early
    <3> QED
      BY <1>1, <1>2, <1>3, <2>2, <3>1 DEF FlowInv, Early, Late
  <2> QED
    BY <2>1, <2>2
<1> QED
  BY <1>4, <1>5

\* A connection: the answer of a page is given to the login that listens behind it, if it is its own.
LEMMA VisitKeeps ==
    ASSUME LoginInv, NEW port \in LgPorts, NEW request \in Answers, Visit(port, request),
           request.of \in LgFlows => <<request.of, port>> \in lgPages
    PROVE  LoginInv'
<1> USE DEF LoginInv
<1>1. /\ UNCHANGED <<lgStep, lgPort, lgReading, lgPages>>
      /\ lgBacklog' = IF \E f \in LgFlows : lgPort[f] = port
                      THEN [lgBacklog EXCEPT ![port] = Append(@, request)] ELSE lgBacklog
      /\ lgGiven' = lgGiven \union {<<f, request.says>> : f \in {g \in LgFlows :
                                       g = request.of /\ lgPort[g] = port}}
  BY DEF Visit, lgFlow
<1>2. /\ Append(lgBacklog[port], request) \in Seq(Answers)
      /\ ToSet(Append(lgBacklog[port], request)) = ToSet(lgBacklog[port]) \union {request}
  <2>1. lgBacklog[port] \in Seq(Answers)
    BY DEF LoginsTyped
  <2> QED
    BY <2>1, Queueing
<1>3. /\ \A p \in LgPorts : p # port => lgBacklog'[p] = lgBacklog[p]
      /\ (\E f \in LgFlows : lgPort[f] = port) =>
            lgBacklog'[port] = Append(lgBacklog[port], request)
      /\ (\A f \in LgFlows : lgPort[f] # port) => lgBacklog'[port] = lgBacklog[port]
  BY <1>1 DEF LoginsTyped
<1>4. LoginsTyped'
  BY <1>1, <1>2 DEF LoginsTyped
<1>5. PortInv'
  BY <1>1, <1>3 DEF PortInv
<1>6. ASSUME NEW f \in LgFlows PROVE FlowInv(f)'
  <2>1. CASE lgPort[f] # port
    <3>1. \A x : <<f, x>> \in lgGiven' <=> <<f, x>> \in lgGiven
      BY <1>1, <2>1
    <3>2. lgPort[f] # NoPort => lgBacklog'[lgPort[f]] = lgBacklog[lgPort[f]]
      BY <1>3, <2>1 DEF LoginsTyped
    <3> QED
      BY <1>1, <3>1, <3>2, FlowStays
  <2>2. CASE lgPort[f] = port
    <3>1. /\ lgPort[f] # NoPort
          /\ ToSet(lgBacklog'[port]) = ToSet(lgBacklog[port]) \union {request}
      BY <1>2, <1>3, <2>2, LgAssumption
    <3>2. /\ \A x : <<f, x>> \in lgGiven => <<f, x>> \in lgGiven'
          /\ request.of = f => <<f, request.says>> \in lgGiven'
          /\ request.of # f => \A x : <<f, x>> \in lgGiven' => <<f, x>> \in lgGiven
      BY <1>1, <2>2
    <3>3. request.of # f => (Given(f)' <=> Given(f))
      BY <3>2 DEF Given
    <3>4. lgStep[f] \in Early => request.of # f
      BY <2>2 DEF FlowInv
    <3>5. /\ (\A r \in ToSet(lgReading[f]) : r.of = f => <<f, r.says>> \in lgGiven)'
          /\ (\A r \in ToSet(lgBacklog[lgPort[f]]) : r.of = f => <<f, r.says>> \in lgGiven)'
      BY <1>1, <2>2, <3>1, <3>2 DEF FlowInv
    <3>6. (lgStep[f] \in Early => ~Given(f) /\ \A p \in LgPorts : <<f, p>> \notin lgPages)'
      BY <1>1, <3>3, <3>4 DEF FlowInv
    <3>7. /\ (lgReading[f] # <<>> => lgStep[f] = "wait")'
          /\ (lgStep[f] \in Late => <<f, "result">> \in lgGiven)'
      BY <1>1, <3>2 DEF FlowInv
    <3>8. (lgStep[f] = "wait" /\ Given(f) =>
             \E r \in ToSet(lgBacklog[lgPort[f]]) \union ToSet(lgReading[f]) : r.of = f)'
      BY <1>1, <2>2, <3>1, <3>3 DEF FlowInv
    <3> QED
      BY <1>1, <3>1, <3>5, <3>6, <3>7, <3>8 DEF FlowInv
  <2> QED
    BY <2>1, <2>2
<1> QED
  BY <1>4, <1>5, <1>6

LEMMA TakeKeeps == ASSUME LoginInv, NEW f \in LgFlows, AcceptConnection(f) PROVE LoginInv'
<1> USE DEF LoginInv
<1> DEFINE port == lgPort[f]
           queue == lgBacklog[port]
<1>1. /\ lgStep[f] = "wait" /\ lgReading[f] = <<>> /\ queue # <<>>
      /\ lgReading' = [lgReading EXCEPT ![f] = <<Head(queue)>>]
      /\ lgBacklog' = [lgBacklog EXCEPT ![port] = Tail(queue)]
      /\ UNCHANGED <<lgStep, lgPort, lgPages, lgGiven>>
  BY DEF AcceptConnection
<1>2. port # NoPort /\ port \in LgPorts
  BY <1>1 DEF FlowInv, LoginsTyped
<1>3. queue \in Seq(Answers)
  BY <1>2 DEF LoginsTyped
<1> HIDE DEF queue
<1>4. /\ Head(queue) \in Answers /\ Tail(queue) \in Seq(Answers)
      /\ ToSet(queue) = ToSet(Tail(queue)) \union {Head(queue)}
  BY <1>1, <1>3, Dequeueing
<1>5. ToSet(<<Head(queue)>>) = {Head(queue)} /\ ToSet(<<>>) = {}
  BY DEF ToSet
<1>6. /\ lgReading'[f] = <<Head(queue)>> /\ lgBacklog'[port] = Tail(queue)
      /\ \A g \in LgFlows : g # f => lgReading'[g] = lgReading[g]
      /\ \A p \in LgPorts : p # port => lgBacklog'[p] = lgBacklog[p]
  BY <1>1, <1>2 DEF LoginsTyped
<1>7. LoginsTyped'
  <2>1. lgBacklog' \in [LgPorts -> Seq(Answers)]
    BY <1>1, <1>2, <1>4 DEF LoginsTyped
  <2>2. lgReading' \in [LgFlows -> {<<>>} \union {<<r>> : r \in Answers}]
    BY <1>1, <1>4 DEF LoginsTyped
  <2> QED
    BY <1>1, <2>1, <2>2 DEF LoginsTyped
<1>8. PortInv'
  BY <1>1, <1>6 DEF PortInv
<1>9. ASSUME NEW g \in LgFlows PROVE FlowInv(g)'
  <2>1. CASE g # f
    <3>1. lgPort[g] # NoPort => lgPort[g] \in LgPorts /\ lgPort[g] # port
      BY <2>1 DEF PortInv, LoginsTyped
    <3> QED
      BY <1>1, <1>6, <2>1, <3>1, FlowStays
  <2>2. CASE g = f
    <3>1. \A r \in ToSet(queue) : r.of = f => <<f, r.says>> \in lgGiven
      BY <1>2 DEF FlowInv, queue
    <3>2. Given(f)' <=> Given(f)
      BY <1>1 DEF Given
    <3>3. Given(f) => \E r \in ToSet(queue) : r.of = f
      BY <1>1, <1>5 DEF FlowInv, queue
    <3>4. lgBacklog'[lgPort'[f]] = Tail(queue)
      BY <1>1, <1>6
    <3> QED
      BY <1>1, <1>2, <1>4, <1>5, <1>6, <2>2, <3>1, <3>2, <3>3, <3>4 DEF FlowInv, Early, Late
  <2> QED
    BY <2>1, <2>2
<1> QED
  BY <1>7, <1>8, <1>9

LEMMA RejectKeeps == ASSUME LoginInv, NEW f \in LgFlows, RejectRequest(f) PROVE LoginInv'
<1> USE DEF LoginInv
<1>1. CASE LoginEnds(f)
  BY <1>1, LoginEndsKeeps
<1>2. CASE ~LoginEnds(f)
  <2>1. /\ lgReading[f] # <<>> /\ Head(lgReading[f]).of # f
        /\ lgReading' = [lgReading EXCEPT ![f] = <<>>]
        /\ lgBacklog' = [lgBacklog EXCEPT ![lgPort[f]] = @]
        /\ UNCHANGED <<lgStep, lgPort, lgPages, lgGiven>>
    BY <1>2 DEF RejectRequest, AfterReject, Wanted
  <2>2. lgBacklog' = lgBacklog
    BY <2>1 DEF LoginsTyped
  <2>3. PICK r \in Answers : lgReading[f] = <<r>>
    BY <2>1 DEF LoginsTyped
  <2>4. r.of # f /\ ToSet(<<r>>) = {r} /\ ToSet(<<>>) = {}
    BY <2>1, <2>3 DEF ToSet
  <2>5. lgReading'[f] = <<>> /\ \A g \in LgFlows : g # f => lgReading'[g] = lgReading[g]
    BY <2>1 DEF LoginsTyped
  <2>6. LoginsTyped' /\ PortInv'
    BY <2>1, <2>2 DEF LoginsTyped, PortInv
  <2>7. ASSUME NEW g \in LgFlows PROVE FlowInv(g)'
    <3>1. CASE g # f
      BY <2>1, <2>2, <2>5, <3>1, FlowStays
    <3>2. CASE g = f
      <4>1. Given(f)' <=> Given(f)
        BY <2>1 DEF Given
      <4>2. Given(f) => \E x \in ToSet(lgBacklog[lgPort[f]]) : x.of = f
        BY <2>1, <2>3, <2>4 DEF FlowInv
      <4>3. lgStep[f] = "wait"
        BY <2>1 DEF FlowInv
      <4> QED
        BY <2>1, <2>2, <2>4, <2>5, <3>2, <4>1, <4>2, <4>3 DEF FlowInv, Early, Late
    <3> QED
      BY <3>1, <3>2
  <2> QED
    BY <2>6, <2>7
<1> QED
  BY <1>1, <1>2

LEMMA AcceptKeeps == ASSUME LoginInv, NEW f \in LgFlows, AcceptRequest(f) PROVE LoginInv'
<1> USE DEF LoginInv
<1>1. CASE LoginEnds(f)
  BY <1>1, LoginEndsKeeps
<1>2. CASE ~LoginEnds(f)
  <2>1. /\ lgReading[f] # <<>> /\ Head(lgReading[f]).of = f /\ Head(lgReading[f]).says # "error"
        /\ lgStep' = [lgStep EXCEPT ![f] = "exchange"]
        /\ LgCloseListener(f) /\ UNCHANGED <<lgPages, lgGiven>>
    BY <1>2 DEF AcceptRequest, Wanted
  <2>2. PICK r \in Answers : lgReading[f] = <<r>>
    BY <2>1 DEF LoginsTyped
  <2>3. r.of = f /\ r.says # "error" /\ ToSet(<<r>>) = {r}
    BY <2>1, <2>2 DEF ToSet
  <2>4. r.says = "result"
    BY <2>3, LgAssumption DEF Answers
  <2>5. <<f, "result">> \in lgGiven
    BY <2>2, <2>3, <2>4 DEF FlowInv
  <2> QED
    BY <2>1, <2>5, Closed DEF Late
<1> QED
  BY <1>1, <1>2

LEMMA LoginsInit == LoginInit => LoginInv
<1> SUFFICES ASSUME LoginInit PROVE LoginInv
  OBVIOUS
<1>1. LoginsTyped
  BY DEF LoginInit, LoginsTyped, Early
<1>2. PortInv
  BY DEF LoginInit, PortInv
<1>3. \A f \in LgFlows : FlowInv(f)
  BY DEF LoginInit, FlowInv, Given, Early, Late, ToSet
<1> QED
  BY <1>1, <1>2, <1>3 DEF LoginInv

LEMMA LoginsStill ==
    ASSUME LoginInv, UNCHANGED <<lgStep, lgPort, lgReading, lgBacklog, lgPages, lgGiven>>
    PROVE  LoginInv'
  BY FlowStays DEF LoginInv, LoginsTyped, PortInv

LEMMA LoginsNext == ASSUME LoginInv, LoginNext PROVE LoginInv'
<1>1. ASSUME NEW f \in LgFlows, BeginLogin(f) \/ LeaseLogin(f) \/ PrepareOAuth(f) PROVE LoginInv'
  <2>1. /\ lgStep[f] = "prepare" => lgPort[f] # NoPort
        /\ lgStep[f] \in {"idle", "asked"} => lgPort[f] = NoPort
    BY DEF LoginInv, FlowInv
  <2> QED
    BY <1>1, <2>1, Moves DEF BeginLogin, LeaseLogin, PrepareOAuth, Early
<1>2. ASSUME NEW f \in LgFlows, LoginProceeds(f) PROVE LoginInv'
  BY <1>2, Moves DEF LoginProceeds, Late
<1>3. ASSUME NEW f \in LgFlows, LoginCancelled(f) \/ LoginRequestFails(f) \/ WaitTimesOut(f)
      PROVE  LoginInv'
  BY <1>3, LoginEndsKeeps DEF LoginCancelled, LoginRequestFails, WaitTimesOut
<1>4. ASSUME NEW f \in LgFlows, BeginAgain(f) \/ CancelLogin(f) PROVE LoginInv'
  BY <1>4, LoginsStill DEF BeginAgain, CancelLogin
<1>5. ASSUME NEW page \in lgPages, AnswerLoginPage(page) PROVE LoginInv'
  <2>1. PICK answer \in {"result", "error"}, stays \in BOOLEAN :
           Visit(page[2], [of |-> page[1], says |-> answer, stays |-> stays])
    BY <1>5 DEF AnswerLoginPage
  <2>2. page = <<page[1], page[2]>> /\ page[1] \in LgFlows /\ page[2] \in LgPorts
    BY DEF LoginInv, LoginsTyped
  <2>3. [of |-> page[1], says |-> answer, stays |-> stays] \in Answers
    BY <2>2 DEF Answers
  <2> QED
    BY <2>1, <2>2, <2>3, VisitKeeps
<1>6. ASSUME OtherVisit PROVE LoginInv'
  <2>1. PICK p \in LgPorts : Visit(p, [of |-> NoLogin, says |-> "noise", stays |-> TRUE])
    BY <1>6 DEF OtherVisit
  <2>2. [of |-> NoLogin, says |-> "noise", stays |-> TRUE] \in Answers
    BY DEF Answers
  <2> QED
    BY <2>1, <2>2, VisitKeeps, LgAssumption
<1> QED
  BY <1>1, <1>2, <1>3, <1>4, <1>5, <1>6, BindKeeps, OpenKeeps, TakeKeeps, RejectKeeps, AcceptKeeps
     DEF LoginNext

LEMMA LoginInvMeans == LoginInv => LoginIsDecidedByItsPage
<1> SUFFICES ASSUME LoginInv, NEW f \in LgFlows
             PROVE  /\ lgStep[f] \in {"exchange", "verify", "persist", "done"} =>
                         <<f, "result">> \in lgGiven
                    /\ lgStep[f] = "wait"
                       /\ (\E answer \in {"result", "error"} : <<f, answer>> \in lgGiven) =>
                         \E r \in ToSet(lgBacklog[lgPort[f]]) \union ToSet(lgReading[f]) : r.of = f
  BY Zenon DEF LoginIsDecidedByItsPage
<1>1. FlowInv(f)
  BY DEF LoginInv
<1> QED
  BY <1>1 DEF FlowInv, Late, Given

(***************************************************************************)
(* The theorem.                                                            *)
(***************************************************************************)

\* For any number of accounts, commands at a time, saves, restarts, logins and ports, and whatever
\* else is under way: an account that no login or logout of its own is at work on is signed in
\* exactly when it is stored, but for one whose last login or logout met another of the same
\* account and for sessions that were cut off or not restored; the acting account is that of
\* the active row, unless the last choice was made beside a command half-way; with nothing
\* under way the streams follow; and a login is decided by what was answered on its own page
\* (account.rs, auth.rs, preferences.rs, desktop.rs).
THEOREM AccountsStayTrue == AccountsSpec => []AccountsAgree
<1> DEFINE Inv == AccountInv /\ LoginInv
           Step == \/ AccountSetNext /\ UNCHANGED lgVars
                   \/ LoginNext /\ UNCHANGED acVars
<1>1. AccountSetInit /\ LoginInit => Inv
  BY AccountsInit, LoginsInit
<1>2. Inv /\ [Step]_<<acVars, lgVars>> => Inv'
  <2> SUFFICES ASSUME Inv, [Step]_<<acVars, lgVars>> PROVE Inv'
    OBVIOUS
  <2>1. UNCHANGED lgVars => LoginInv'
    BY LoginsStill DEF lgVars, lgFlow
  <2>2. AccountSetNext \/ UNCHANGED acVars => AccountInv'
    BY AccountsNext, AccountsStill
  <2>3. LoginNext => LoginInv'
    BY LoginsNext
  <2> QED
    BY <2>1, <2>2, <2>3
<1>3. Inv => AccountsAgree
  BY AccountInvMeans, LoginInvMeans DEF AccountsAgree
<1> QED
  BY <1>1, <1>2, <1>3, PTL DEF AccountsSpec

-----------------------------------------------------------------------------
(***************************************************************************)
(* The start-up synchronisation of a collection.                           *)
(***************************************************************************)

WalkSteps == {"idle", "prepare", "fetch", "save", "commit", "complete"}
Walks == [pc : WalkSteps, gen : 0..MaxStarts, cursor : 0..MaxMarks, seen : SUBSET (1..MaxMarks),
          page : SUBSET SyncPosts, next : 0..MaxMarks]
Quiet == SyncPosts \ touched

\* A walk has the generation of the row, and one without a generation stores no cursor.
WalkInv ==
    /\ sync.pc # "idle" => starts > 0
    /\ sync.pc \in {"fetch", "save", "commit", "complete"} => sync.gen = phase.gen
    /\ sync.gen = NoGeneration => sync.next = NoCursor

\* The cursors of a walk go down; an answer that does not was given before.
CursorInv ==
    sync.pc \in {"fetch", "save", "commit"} /\ sync.gen # NoGeneration =>
      /\ sync.cursor = phase.cursor
      /\ sync.cursor = NoCursor => sync.seen = {}
      /\ \A c \in sync.seen : c >= sync.cursor
      /\ sync.pc # "fetch" /\ sync.next # NoCursor =>
            sync.next \in sync.seen \/ sync.cursor = NoCursor \/ sync.next < sync.cursor

\* The members of the open generation that did not change are in the collection and in the
\* database, and those at the cursor or above it are members.
MembersInv ==
    phase.gen # NoGeneration =>
      \A p \in Quiet :
         /\ <<phase.gen, p>> \in members => mark[p] # 0 /\ p \in viewer /\ p \in entries
         /\ phase.cursor # NoCursor /\ mark[p] >= phase.cursor => <<phase.gen, p>> \in members

\* The page in hand has what lies between its two cursors, and it is saved before it counts.
HandInv ==
    sync.pc \in {"save", "commit"} /\ sync.gen # NoGeneration =>
      \A p \in Quiet :
         /\ p \in sync.page => mark[p] # 0
         /\ p \in sync.page /\ sync.pc = "commit" => p \in viewer /\ p \in entries
         /\ (/\ mark[p] # 0
             /\ sync.cursor = NoCursor \/ mark[p] < sync.cursor
             /\ sync.next = NoCursor \/ sync.page = {} \/ mark[p] >= sync.next) => p \in sync.page

\* After the last page every status of the collection is a member.
WholeInv ==
    sync.pc = "complete" /\ sync.gen # NoGeneration =>
      \A p \in Quiet : mark[p] # 0 => <<phase.gen, p>> \in members

SyncInv ==
    /\ SyncTypeOK
    /\ act.pc # "idle" => act.post \in touched
    /\ WalkInv /\ CursorInv /\ MembersInv /\ HandInv /\ WholeInv

(***************************************************************************)
(* Pages.                                                                  *)
(***************************************************************************)

\* A page is cut off at its oldest status.
LEMMA PageIsACut ==
    ASSUME mark \in [SyncPosts -> 0..MaxMarks], NEW c \in 0..MaxMarks,
           NEW p \in ProviderPage(c), NEW q \in Before(c), mark[q] >= mark[p]
    PROVE  q \in ProviderPage(c)
<1> DEFINE newer(r) == {s \in Before(c) : mark[s] > mark[r]}
<1>1. p \in Before(c) /\ Cardinality(newer(p)) < PageLimit
  BY DEF ProviderPage
<1>2. Before(c) \subseteq SyncPosts /\ IsFiniteSet(SyncPosts) /\ MaxMarks \in Nat
      /\ PageLimit \in Nat
  BY SyncAssumption DEF Before
<1>3. newer(q) \subseteq newer(p)
  <2> SUFFICES ASSUME NEW s \in Before(c), mark[s] > mark[q] PROVE mark[s] > mark[p]
    OBVIOUS
  <2>1. mark[s] \in 0..MaxMarks /\ mark[q] \in 0..MaxMarks /\ mark[p] \in 0..MaxMarks
    BY <1>1, <1>2
  <2> QED
    BY <1>2, <2>1
<1>4. newer(p) \subseteq SyncPosts
  BY <1>2
<1>5. IsFiniteSet(newer(p))
  <2> HIDE DEF newer
  <2> QED
    BY <1>2, <1>4, FS_Subset
<1>6. Cardinality(newer(q)) <= Cardinality(newer(p)) /\ Cardinality(newer(p)) \in Nat
      /\ Cardinality(newer(q)) \in Nat
  <2> HIDE DEF newer
  <2> QED
    BY <1>3, <1>5, FS_Subset, FS_CardinalityType
<1>7. Cardinality(newer(q)) < PageLimit
  <2> HIDE DEF newer
  <2> QED
    BY <1>1, <1>2, <1>6
<1> QED
  BY <1>7 DEF ProviderPage

\* A page is empty only where the collection ends.
LEMMA PageHasTheNewest ==
    ASSUME mark \in [SyncPosts -> 0..MaxMarks], NEW c \in 0..MaxMarks, Before(c) # {}
    PROVE  ProviderPage(c) # {}
<1>1. Before(c) \subseteq SyncPosts /\ MaxMarks \in Nat /\ PageLimit \in Nat \ {0}
  BY SyncAssumption DEF Before
<1> DEFINE E == {MaxMarks - mark[p] : p \in Before(c)}
<1>2. E \in SUBSET (0..MaxMarks) /\ E # {}
  <2>1. \A p \in Before(c) : MaxMarks - mark[p] \in 0..MaxMarks
    <3> SUFFICES ASSUME NEW p \in Before(c) PROVE MaxMarks - mark[p] \in 0..MaxMarks
      OBVIOUS
    <3>1. mark[p] \in 0..MaxMarks
      BY <1>1
    <3> QED
      BY <1>1, <3>1
  <2> QED
    BY <2>1
<1> HIDE DEF E
<1>3. PICK m \in E : \A k \in E : m <= k
  BY <1>1, <1>2, LeastBelow
<1> USE DEF E
<1>4. PICK p \in Before(c) : m = MaxMarks - mark[p]
  BY <1>3
<1>5. ASSUME NEW q \in Before(c), mark[q] > mark[p] PROVE FALSE
  <2>1. mark[q] \in 0..MaxMarks /\ mark[p] \in 0..MaxMarks
    BY <1>1
  <2>2. m <= MaxMarks - mark[q]
    BY <1>3
  <2> QED
    BY <1>1, <1>4, <1>5, <2>1, <2>2
<1>6. {q \in Before(c) : mark[q] > mark[p]} = {}
  BY <1>5
<1>7. Cardinality({q \in Before(c) : mark[q] > mark[p]}) < PageLimit
  BY <1>1, <1>6, FS_EmptySet
<1> QED
  BY <1>7 DEF ProviderPage

\* What the answer to a page is.
LEMMA PageFacts ==
    ASSUME mark \in [SyncPosts -> 0..MaxMarks], NEW c \in 0..MaxMarks
    PROVE  /\ ProviderPage(c) \subseteq Before(c) /\ Before(c) \subseteq SyncPosts
           /\ ProviderPage(c) = {} => Before(c) = {}
           /\ NextCursor(c) \in 0..MaxMarks
           /\ NextCursor(c) = NoCursor => ProviderPage(c) = Before(c)
           /\ NextCursor(c) # NoCursor => c = NoCursor \/ NextCursor(c) < c
           /\ \A p \in Before(c) : mark[p] >= NextCursor(c) => p \in ProviderPage(c)
<1>0. ProviderPage(c) \subseteq Before(c) /\ Before(c) \subseteq SyncPosts /\ MaxMarks \in Nat
  BY SyncAssumption DEF ProviderPage, Before
<1>1. ProviderPage(c) = {} => Before(c) = {}
  BY PageHasTheNewest
<1>2. CASE ProviderPage(c) = Before(c)
  <2>1. NextCursor(c) = NoCursor
    BY <1>2 DEF NextCursor
  <2> QED
    BY <1>0, <1>1, <1>2, <2>1 DEF NoCursor
<1>3. CASE ProviderPage(c) # Before(c)
  <2> DEFINE E == {mark[p] : p \in ProviderPage(c)}
  <2>1. ProviderPage(c) # {}
    BY <1>0, <1>1, <1>3
  <2>2. E \in SUBSET (0..MaxMarks) /\ E # {}
    BY <1>0, <2>1
  <2>3. NextCursor(c) = Min(E)
    BY <1>3 DEF NextCursor
  <2> HIDE DEF E
  <2>4. PICK m \in E : \A k \in E : m <= k
    BY <1>0, <2>2, LeastBelow
  <2>5. Min(E) \in E
    BY <2>4 DEF Min
  <2> USE DEF E
  <2>6. PICK p \in ProviderPage(c) : NextCursor(c) = mark[p]
    BY <2>3, <2>5
  <2>7. p \in Before(c) /\ mark[p] \in 0..MaxMarks
    BY <1>0, <2>6
  <2>8. mark[p] # 0 /\ (c = NoCursor \/ mark[p] < c)
    BY <2>7 DEF Before
  <2>9. \A q \in Before(c) : mark[q] >= NextCursor(c) => q \in ProviderPage(c)
    BY <2>6, PageIsACut
  <2> QED
    BY <1>0, <1>1, <2>6, <2>7, <2>8, <2>9 DEF NoCursor
<1> QED
  BY <1>2, <1>3

(***************************************************************************)
(* The record of a walk.                                                   *)
(***************************************************************************)

LEMMA IdleWalk ==
    /\ IdleSync \in Walks /\ IdleSync.pc = "idle" /\ IdleSync.gen = NoGeneration
    /\ IdleSync.next = NoCursor
<1>1. 0 \in 0..MaxStarts /\ 0 \in 0..MaxMarks
  BY SyncAssumption
<1>2. {} \in SUBSET (1..MaxMarks) /\ {} \in SUBSET SyncPosts /\ "idle" \in WalkSteps
  BY DEF WalkSteps
<1> QED
  BY <1>1, <1>2 DEF IdleSync, Walks, NoGeneration, NoCursor

LEMMA IdleActs ==
    /\ IdleAct \in [pc : {"idle", "viewer", "entry"}, post : SyncPosts, on : BOOLEAN]
    /\ IdleAct.pc = "idle"
<1>1. (CHOOSE p \in SyncPosts : TRUE) \in SyncPosts
  BY SyncAssumption
<1> QED
  BY <1>1 DEF IdleAct

\* The fields a step of the walk leaves alone.
WalkMoves(pc, cursor, seen, page, next) ==
    /\ sync' \in Walks /\ sync'.pc = pc /\ sync'.gen = sync.gen /\ sync'.cursor = cursor
    /\ sync'.seen = seen /\ sync'.page = page /\ sync'.next = next

LEMMA WalkGets ==
    ASSUME sync \in Walks, NEW page \in SUBSET SyncPosts, NEW next \in 0..MaxMarks,
           sync' = [sync EXCEPT !.pc = "save", !.page = page, !.next = next]
    PROVE  WalkMoves("save", sync.cursor, sync.seen, page, next)
<1>1. PICK pc \in WalkSteps : pc = "save"
  BY DEF WalkSteps
<1> QED
  BY <1>1 DEF Walks, WalkMoves

LEMMA WalkGetsHead ==
    ASSUME sync \in Walks, NEW page \in SUBSET SyncPosts,
           sync' = [sync EXCEPT !.pc = "save", !.page = page]
    PROVE  WalkMoves("save", sync.cursor, sync.seen, page, sync.next)
<1>1. PICK pc \in WalkSteps : pc = "save"
  BY DEF WalkSteps
<1> QED
  BY <1>1 DEF Walks, WalkMoves

LEMMA WalkAdvances ==
    ASSUME sync \in Walks, NEW pc \in WalkSteps, sync' = [sync EXCEPT !.pc = pc]
    PROVE  WalkMoves(pc, sync.cursor, sync.seen, sync.page, sync.next)
  BY DEF Walks, WalkMoves

LEMMA WalkGoesOn ==
    ASSUME sync \in Walks, NEW next \in 1..MaxMarks,
           sync' = [sync EXCEPT !.pc = "fetch", !.cursor = next, !.seen = @ \union {next},
                                !.page = {}, !.next = NoCursor]
    PROVE  WalkMoves("fetch", next, sync.seen \union {next}, {}, NoCursor)
<1>1. PICK pc \in WalkSteps : pc = "fetch"
  BY DEF WalkSteps
<1>2. PICK none \in SUBSET SyncPosts : none = {}
  OBVIOUS
<1>3. NoCursor \in 0..MaxMarks /\ next \in 0..MaxMarks
  BY SyncAssumption DEF NoCursor
<1>4. PICK seen \in SUBSET (1..MaxMarks) : seen = sync.seen \union {next}
  <2>1. sync.seen \in SUBSET (1..MaxMarks)
    BY DEF Walks
  <2>2. sync.seen \union {next} \in SUBSET (1..MaxMarks)
    BY <2>1
  <2> QED
    BY <2>2
<1>5. PICK zero \in 0..MaxMarks : zero = NoCursor
  BY <1>3
<1>6. sync' = [sync EXCEPT !.pc = pc, !.cursor = next, !.seen = seen, !.page = none,
                           !.next = zero]
  BY <1>1, <1>2, <1>4, <1>5
<1>7. WalkMoves(pc, next, seen, none, zero)
  BY <1>3, <1>6 DEF Walks, WalkMoves
<1> QED
  BY <1>1, <1>2, <1>4, <1>5, <1>7

LEMMA WalkBegins ==
    ASSUME NEW gen \in 0..MaxStarts, NEW from \in 0..MaxMarks,
           sync' = [IdleSync EXCEPT !.pc = "fetch", !.gen = gen, !.cursor = from,
                                    !.seen = {from} \ {NoCursor}]
    PROVE  /\ sync' \in Walks /\ sync'.pc = "fetch" /\ sync'.gen = gen /\ sync'.cursor = from
           /\ sync'.seen = {from} \ {NoCursor} /\ sync'.next = NoCursor
<1>1. PICK pc \in WalkSteps : pc = "fetch"
  BY DEF WalkSteps
<1>2. PICK seen \in SUBSET (1..MaxMarks) : seen = {from} \ {NoCursor}
  <2>1. {from} \ {NoCursor} \in SUBSET (1..MaxMarks)
    BY SyncAssumption DEF NoCursor
  <2> QED
    BY <2>1
<1>3. sync' = [IdleSync EXCEPT !.pc = pc, !.gen = gen, !.cursor = from, !.seen = seen]
  BY <1>1, <1>2
<1>4. IdleSync \in Walks /\ IdleSync.next = NoCursor
  BY IdleWalk
<1>5. sync' \in Walks /\ sync'.pc = pc /\ sync'.gen = gen /\ sync'.cursor = from
      /\ sync'.seen = seen /\ sync'.next = IdleSync.next
  BY <1>3, <1>4 DEF Walks
<1> QED
  BY <1>1, <1>2, <1>4, <1>5

(***************************************************************************)
(* Init, and the steps in the order of the model.                          *)
(***************************************************************************)

LEMMA SyncStarts == ASSUME SyncInit PROVE SyncInv
<1>1. MaxMarks \in Nat /\ MaxStarts \in Nat /\ 0 \in 0..MaxMarks /\ 0 \in 0..MaxStarts
  BY SyncAssumption
<1>2. /\ mark \in [SyncPosts -> 0..MaxMarks] /\ marks \in 0..MaxMarks
      /\ viewer \subseteq SyncPosts /\ entries \subseteq SyncPosts
      /\ members \subseteq (1..MaxStarts) \X SyncPosts /\ starts \in 0..MaxStarts
      /\ touched \subseteq SyncPosts
  BY <1>1 DEF SyncInit
<1>3. /\ phase \in [gen : 0..MaxStarts, cursor : 0..MaxMarks, full : BOOLEAN]
      /\ phase.cursor = NoCursor /\ phase.gen = NoGeneration
  BY <1>1 DEF SyncInit, NoGeneration, NoCursor
<1>4. sync \in Walks /\ sync.pc = "idle" /\ sync.gen = NoGeneration /\ sync.next = NoCursor
  BY IdleWalk DEF SyncInit
<1>5. act \in [pc : {"idle", "viewer", "entry"}, post : SyncPosts, on : BOOLEAN]
      /\ act.pc = "idle"
  BY IdleActs DEF SyncInit
<1>6. SyncTypeOK
  BY <1>2, <1>3, <1>4, <1>5 DEF SyncTypeOK, Walks, WalkSteps
<1> QED
  BY <1>3, <1>4, <1>5, <1>6 DEF SyncInv, WalkInv, CursorInv, MembersInv, HandInv, WholeInv

LEMMA TypesAre ==
    ASSUME SyncTypeOK
    PROVE  /\ mark \in [SyncPosts -> 0..MaxMarks] /\ sync \in Walks
           /\ phase \in [gen : 0..MaxStarts, cursor : 0..MaxMarks, full : BOOLEAN]
           /\ act \in [pc : {"idle", "viewer", "entry"}, post : SyncPosts, on : BOOLEAN]
           /\ MaxMarks \in Nat /\ MaxStarts \in Nat
  BY SyncAssumption DEF SyncTypeOK, Walks, WalkSteps

\* What happens to statuses that are then no longer quiet disturbs nothing.
LEMMA OthersKeep ==
    ASSUME SyncInv, SyncTypeOK', touched \subseteq touched', sync' = sync, phase' = phase,
           members' = members, starts' = starts, act'.pc # "idle" => act'.post \in touched',
           \A p \in SyncPosts \ touched' : /\ mark'[p] = mark[p]
                                           /\ p \in viewer => p \in viewer'
                                           /\ p \in entries => p \in entries'
    PROVE  SyncInv'
<1>1. \A p \in Quiet' : p \in Quiet /\ mark'[p] = mark[p] /\ (p \in viewer => p \in viewer')
                        /\ (p \in entries => p \in entries')
  BY DEF Quiet
<1>2. WalkInv' /\ CursorInv'
  BY DEF SyncInv, WalkInv, CursorInv
<1>3. MembersInv'
  BY <1>1 DEF SyncInv, MembersInv
<1>4. HandInv' /\ WholeInv'
  BY <1>1 DEF SyncInv, HandInv, WholeInv
<1> QED
  BY <1>2, <1>3, <1>4 DEF SyncInv

\* A walk that ends where it is leaves what it has done.
LEMMA WalkEndsKeeps ==
    ASSUME SyncInv, SyncTypeOK', sync'.pc \in {"idle", "prepare"}, sync'.next = NoCursor,
           sync'.pc = "prepare" => starts' > 0, phase' = phase, members' = members,
           mark' = mark, touched' = touched, viewer \subseteq viewer', entries \subseteq entries',
           act'.pc # "idle" => act' = act
    PROVE  SyncInv'
<1>1. Quiet' = Quiet
  BY DEF Quiet
<1>2. WalkInv' /\ CursorInv' /\ HandInv' /\ WholeInv'
  BY DEF WalkInv, CursorInv, HandInv, WholeInv
<1>3. MembersInv'
  BY <1>1 DEF SyncInv, MembersInv
<1> QED
  BY <1>2, <1>3 DEF SyncInv

LEMMA ProviderMoves ==
    ASSUME SyncInv, NEW p \in SyncPosts, NEW on \in BOOLEAN, ProviderSets(p, on)
    PROVE  /\ mark' \in [SyncPosts -> 0..MaxMarks] /\ marks' \in 0..MaxMarks
           /\ touched' = touched \union {p} /\ touched' \subseteq SyncPosts
           /\ \A q \in SyncPosts \ touched' : mark'[q] = mark[q]
<1>1. marks \in 0..MaxMarks /\ marks < MaxMarks /\ touched \subseteq SyncPosts
      /\ mark \in [SyncPosts -> 0..MaxMarks]
  BY DEF SyncInv, SyncTypeOK, ProviderSets
<1>2. MaxMarks \in Nat
  BY SyncAssumption
<1>3. marks + 1 \in 0..MaxMarks /\ 0 \in 0..MaxMarks
  BY <1>1, <1>2
<1> QED
  BY <1>1, <1>3 DEF ProviderSets

LEMMA ElsewhereKeeps ==
    ASSUME SyncInv, NEW p \in SyncPosts, NEW on \in BOOLEAN, ElsewhereSets(p, on)
    PROVE  SyncInv'
<1>0. UNCHANGED <<viewer, entries, phase, members, sync, act, starts>> /\ ProviderSets(p, on)
  BY DEF ElsewhereSets
<1>1. /\ mark' \in [SyncPosts -> 0..MaxMarks] /\ marks' \in 0..MaxMarks
      /\ touched' = touched \union {p} /\ touched' \subseteq SyncPosts
      /\ \A q \in SyncPosts \ touched' : mark'[q] = mark[q]
  BY <1>0, ProviderMoves
<1>2. SyncTypeOK'
  BY <1>0, <1>1 DEF SyncInv, SyncTypeOK
<1>3. act'.pc # "idle" => act'.post \in touched'
  BY <1>0, <1>1 DEF SyncInv
<1> QED
  BY <1>0, <1>1, <1>2, <1>3, OthersKeep

LEMMA ExecutedKeeps ==
    ASSUME SyncInv, NEW p \in SyncPosts, NEW on \in BOOLEAN, ActionExecuted(p, on)
    PROVE  SyncInv'
<1>0. UNCHANGED <<viewer, entries, phase, members, sync, starts>> /\ ProviderSets(p, on)
  BY DEF ActionExecuted
<1>1. /\ mark' \in [SyncPosts -> 0..MaxMarks] /\ marks' \in 0..MaxMarks
      /\ touched' = touched \union {p} /\ touched' \subseteq SyncPosts
      /\ \A q \in SyncPosts \ touched' : mark'[q] = mark[q]
  BY <1>0, ProviderMoves
<1>2. act' \in [pc : {"idle", "viewer", "entry"}, post : SyncPosts, on : BOOLEAN]
      /\ act'.post = p
  BY DEF ActionExecuted
<1>3. SyncTypeOK'
  BY <1>0, <1>1, <1>2 DEF SyncInv, SyncTypeOK
<1> QED
  BY <1>0, <1>1, <1>2, <1>3, OthersKeep

LEMMA ActionSavesKeeps == ASSUME SyncInv, ActionSaves PROVE SyncInv'
<1>0. UNCHANGED <<mark, marks, entries, phase, members, sync, starts, touched>>
  BY DEF ActionSaves
<1>1. SyncTypeOK /\ act.post \in touched /\ act.post \in SyncPosts
  BY TypesAre DEF ActionSaves, SyncInv
<1>2. /\ act' \in [pc : {"idle", "viewer", "entry"}, post : SyncPosts, on : BOOLEAN]
      /\ act'.post = act.post
  BY <1>1, TypesAre DEF ActionSaves
<1>3. viewer' \subseteq SyncPosts /\ \A p \in SyncPosts \ touched' : p \in viewer => p \in viewer'
  BY <1>0, <1>1 DEF ActionSaves, SyncTypeOK
<1>4. SyncTypeOK'
  BY <1>0, <1>1, <1>2, <1>3 DEF SyncTypeOK
<1> QED
  BY <1>0, <1>1, <1>2, <1>3, <1>4, OthersKeep

LEMMA ActionListsKeeps == ASSUME SyncInv, ActionLists PROVE SyncInv'
<1>0. UNCHANGED <<mark, marks, viewer, phase, members, sync, starts, touched>>
  BY DEF ActionLists
<1>1. SyncTypeOK /\ act.post \in touched /\ act.post \in SyncPosts
  BY TypesAre DEF ActionLists, SyncInv
<1>2. /\ act' \in [pc : {"idle", "viewer", "entry"}, post : SyncPosts, on : BOOLEAN]
      /\ act'.pc = "idle"
  BY IdleActs DEF ActionLists
<1>3. entries' \subseteq SyncPosts
      /\ \A p \in SyncPosts \ touched' : p \in entries => p \in entries'
  BY <1>0, <1>1 DEF ActionLists, SyncTypeOK
<1>4. SyncTypeOK'
  BY <1>0, <1>1, <1>2, <1>3 DEF SyncTypeOK
<1> QED
  BY <1>0, <1>2, <1>3, <1>4, OthersKeep

LEMMA ActionFailsKeeps == ASSUME SyncInv, ActionFails PROVE SyncInv'
<1>0. UNCHANGED <<mark, marks, viewer, entries, phase, members, sync, starts, touched>>
  BY DEF ActionFails
<1>2. /\ act' \in [pc : {"idle", "viewer", "entry"}, post : SyncPosts, on : BOOLEAN]
      /\ act'.pc = "idle"
  BY IdleActs DEF ActionFails
<1>4. SyncTypeOK'
  BY <1>0, <1>2 DEF SyncInv, SyncTypeOK
<1> QED
  BY <1>0, <1>2, <1>4, OthersKeep

LEMMA StartProcessKeeps == ASSUME SyncInv, StartProcess PROVE SyncInv'
<1>0. UNCHANGED <<mark, marks, viewer, entries, phase, members, touched>>
  BY DEF StartProcess
<1>1. SyncTypeOK
  BY DEF SyncInv
<1>2. /\ act' \in [pc : {"idle", "viewer", "entry"}, post : SyncPosts, on : BOOLEAN]
      /\ act'.pc = "idle"
  BY IdleActs DEF StartProcess
<1>3. sync' \in Walks /\ sync'.pc = "prepare" /\ sync'.next = NoCursor
  <2>1. PICK pc \in WalkSteps : pc = "prepare"
    BY DEF WalkSteps
  <2>2. sync' = [IdleSync EXCEPT !.pc = pc]
    BY <2>1 DEF StartProcess
  <2>3. sync' \in Walks /\ sync'.pc = pc /\ sync'.next = IdleSync.next
    BY <2>2, IdleWalk DEF Walks
  <2> QED
    BY <2>1, <2>3, IdleWalk
<1>4. starts' \in 0..MaxStarts /\ starts' > 0
  BY <1>1, SyncAssumption DEF StartProcess, SyncTypeOK
<1>5. SyncTypeOK'
  BY <1>0, <1>1, <1>2, <1>3, <1>4 DEF SyncTypeOK, Walks, WalkSteps
<1> QED
  BY <1>0, <1>2, <1>3, <1>4, <1>5, WalkEndsKeeps

LEMMA FailPhaseKeeps == ASSUME SyncInv, FailPhase PROVE SyncInv'
<1>0. UNCHANGED <<mark, marks, viewer, entries, phase, members, act, starts, touched>>
  BY DEF FailPhase
<1>1. sync' \in Walks /\ sync'.pc = "idle" /\ sync'.next = NoCursor
  BY IdleWalk DEF FailPhase
<1>2. SyncTypeOK'
  BY <1>0, <1>1 DEF SyncInv, SyncTypeOK, Walks, WalkSteps
<1> QED
  BY <1>0, <1>1, <1>2, WalkEndsKeeps

LEMMA SavePageFailsKeeps == ASSUME SyncInv, SavePageFails PROVE SyncInv'
<1>0. UNCHANGED <<mark, marks, phase, members, act, starts, touched>>
  BY DEF SavePageFails
<1>1. sync' \in Walks /\ sync'.pc = "idle" /\ sync'.next = NoCursor
  BY IdleWalk DEF SavePageFails
<1>2. sync.page \subseteq SyncPosts /\ SyncTypeOK
  BY TypesAre DEF SyncInv, Walks
<1>3. PICK part \in SUBSET sync.page : viewer' = viewer \union part
                                      /\ entries' = entries \union part
  BY DEF SavePageFails
<1>4. SyncTypeOK'
  BY <1>0, <1>1, <1>2, <1>3 DEF SyncTypeOK, Walks, WalkSteps
<1> QED
  BY <1>0, <1>1, <1>3, <1>4, WalkEndsKeeps

\* A walk that begins: at the top with no members, at the stored cursor, or at the head.
LEMMA PrepareKeeps == ASSUME SyncInv, PreparePhase PROVE SyncInv'
<1>0. UNCHANGED <<mark, marks, viewer, entries, act, starts>> /\ sync.pc = "prepare"
  BY DEF PreparePhase
<1>1. SyncTypeOK /\ starts \in 1..MaxStarts /\ MaxStarts \in Nat /\ MaxMarks \in Nat
  BY <1>0, SyncAssumption DEF SyncInv, WalkInv, SyncTypeOK
<1>2. PICK plan \in Plans :
        LET gen == CASE plan = "full" -> starts
                     [] plan = "resume" -> phase.gen
                     [] OTHER -> NoGeneration
            from == IF plan = "resume" THEN phase.cursor ELSE NoCursor
        IN  /\ sync' = IF plan = "skip" THEN IdleSync
                       ELSE [IdleSync EXCEPT !.pc = "fetch", !.gen = gen, !.cursor = from,
                                             !.seen = {from} \ {NoCursor}]
            /\ phase' = IF plan = "full" THEN [phase EXCEPT !.gen = gen, !.cursor = NoCursor]
                        ELSE phase
            /\ members' = IF plan = "full" THEN {} ELSE members
            /\ touched' = IF plan # "full" THEN touched
                          ELSE IF act.pc = "idle" THEN {} ELSE {act.post}
  BY DEF PreparePhase
<1>3. plan \in {"resume", "full", "incremental", "skip"}
      /\ (plan = "resume" <=> phase.gen # NoGeneration)
  BY DEF Plans
<1>4. phase \in [gen : 0..MaxStarts, cursor : 0..MaxMarks, full : BOOLEAN]
      /\ act \in [pc : {"idle", "viewer", "entry"}, post : SyncPosts, on : BOOLEAN]
  BY <1>1, TypesAre
<1>5. CASE plan = "skip"
  <2>1. sync' = IdleSync /\ phase' = phase /\ members' = members /\ touched' = touched
    BY <1>2, <1>5
  <2>2. sync' \in Walks /\ sync'.pc = "idle" /\ sync'.next = NoCursor
    BY <2>1, IdleWalk
  <2>3. SyncTypeOK'
    BY <1>0, <1>1, <2>1, <2>2 DEF SyncTypeOK, Walks, WalkSteps
  <2> QED
    BY <1>0, <2>1, <2>2, <2>3, WalkEndsKeeps
<1>6. CASE plan = "full"
  <2>1. /\ sync' = [IdleSync EXCEPT !.pc = "fetch", !.gen = starts, !.cursor = NoCursor,
                                    !.seen = {NoCursor} \ {NoCursor}]
        /\ phase' = [phase EXCEPT !.gen = starts, !.cursor = NoCursor]
        /\ members' = {}
        /\ touched' = IF act.pc = "idle" THEN {} ELSE {act.post}
    BY <1>2, <1>6
  <2>2. NoCursor \in 0..MaxMarks /\ starts \in 0..MaxStarts
    BY <1>1 DEF NoCursor
  <2>3. /\ sync' \in Walks /\ sync'.pc = "fetch" /\ sync'.gen = starts /\ sync'.cursor = NoCursor
        /\ sync'.seen = {} /\ sync'.next = NoCursor
    BY <2>1, <2>2, WalkBegins
  <2>4. phase' \in [gen : 0..MaxStarts, cursor : 0..MaxMarks, full : BOOLEAN]
        /\ phase'.gen = starts /\ phase'.cursor = NoCursor
    BY <1>4, <2>1, <2>2
  <2>5. touched' \subseteq SyncPosts /\ (act'.pc # "idle" => act'.post \in touched')
    BY <1>0, <1>4, <2>1
  <2>6. starts # NoGeneration /\ starts > 0
    BY <1>1 DEF NoGeneration
  <2>7. SyncTypeOK'
    BY <1>0, <1>1, <2>1, <2>3, <2>4, <2>5 DEF SyncTypeOK, Walks, WalkSteps, NoCursor
  <2>8. WalkInv' /\ CursorInv'
    BY <1>0, <2>3, <2>4, <2>6 DEF WalkInv, CursorInv
  <2>9. MembersInv'
    BY <2>1, <2>4 DEF MembersInv
  <2>10. HandInv' /\ WholeInv'
    BY <2>3 DEF HandInv, WholeInv
  <2> QED
    BY <2>5, <2>7, <2>8, <2>9, <2>10 DEF SyncInv
<1>7. CASE plan \in {"resume", "incremental"}
  <2> DEFINE gen == IF plan = "resume" THEN phase.gen ELSE NoGeneration
             from == IF plan = "resume" THEN phase.cursor ELSE NoCursor
  <2>1. /\ sync' = [IdleSync EXCEPT !.pc = "fetch", !.gen = gen, !.cursor = from,
                                    !.seen = {from} \ {NoCursor}]
        /\ phase' = phase /\ members' = members /\ touched' = touched
    BY <1>2, <1>7
  <2>2. gen \in 0..MaxStarts /\ from \in 0..MaxMarks
    BY <1>1, <1>4 DEF NoGeneration, NoCursor
  <2>3. gen = phase.gen
    BY <1>3, <1>7
  <2>4. from = phase.cursor
    BY <1>1, <1>3, <1>7 DEF SyncTypeOK
  <2> HIDE DEF gen, from
  <2>5. /\ sync' \in Walks /\ sync'.pc = "fetch" /\ sync'.gen = gen /\ sync'.cursor = from
        /\ sync'.seen = {from} \ {NoCursor} /\ sync'.next = NoCursor
    BY <2>1, <2>2, WalkBegins
  <2>6. SyncTypeOK'
    BY <1>0, <1>1, <2>1, <2>5 DEF SyncTypeOK, Walks, WalkSteps
  <2>7. WalkInv'
    BY <1>0, <1>1, <2>1, <2>3, <2>5 DEF WalkInv
  <2>8. CursorInv'
    <3>1. from = NoCursor => sync'.seen = {}
      BY <2>5
    <3>2. \A c \in sync'.seen : c >= from
      BY <1>1, <2>2, <2>5
    <3> QED
      BY <2>1, <2>4, <2>5, <3>1, <3>2 DEF CursorInv
  <2>9. MembersInv'
    BY <1>0, <2>1 DEF SyncInv, MembersInv, Quiet
  <2>10. HandInv' /\ WholeInv'
    BY <2>5 DEF HandInv, WholeInv
  <2> QED
    BY <1>0, <2>1, <2>6, <2>7, <2>8, <2>9, <2>10 DEF SyncInv
<1> QED
  BY <1>3, <1>5, <1>6, <1>7

\* A page that is read has what joined before the cursor, down to the next one.
LEMMA FetchKeeps == ASSUME SyncInv, FetchPage PROVE SyncInv'
<1>0. UNCHANGED <<mark, marks, viewer, entries, phase, members, act, starts, touched>>
      /\ sync.pc = "fetch"
  BY DEF FetchPage
<1>1. SyncTypeOK /\ sync \in Walks /\ mark \in [SyncPosts -> 0..MaxMarks] /\ MaxMarks \in Nat
      /\ sync.cursor \in 0..MaxMarks /\ sync.next \in 0..MaxMarks
      /\ sync.seen \subseteq 1..MaxMarks
  BY TypesAre DEF SyncInv, Walks
<1>2. /\ ProviderPage(sync.cursor) \subseteq Before(sync.cursor)
      /\ Before(sync.cursor) \subseteq SyncPosts
      /\ ProviderPage(sync.cursor) = {} => Before(sync.cursor) = {}
      /\ NextCursor(sync.cursor) \in 0..MaxMarks
      /\ NextCursor(sync.cursor) = NoCursor => ProviderPage(sync.cursor) = Before(sync.cursor)
      /\ NextCursor(sync.cursor) # NoCursor
           => sync.cursor = NoCursor \/ NextCursor(sync.cursor) < sync.cursor
      /\ \A p \in Before(sync.cursor) :
            mark[p] >= NextCursor(sync.cursor) => p \in ProviderPage(sync.cursor)
  BY <1>1, PageFacts
<1>3. MembersInv'
  BY <1>0 DEF SyncInv, MembersInv, Quiet
<1>4. CASE /\ sync.gen = NoGeneration
           /\ \E page \in SUBSET ProviderPage(NoCursor) :
                sync' = [sync EXCEPT !.pc = "save", !.page = page]
  <2>1. PICK page \in SUBSET ProviderPage(NoCursor) :
             sync' = [sync EXCEPT !.pc = "save", !.page = page]
    BY <1>4
  <2>2. page \in SUBSET SyncPosts
    BY DEF ProviderPage, Before
  <2>3. WalkMoves("save", sync.cursor, sync.seen, page, sync.next)
    BY <1>1, <2>1, <2>2, WalkGetsHead
  <2>4. SyncTypeOK'
    BY <1>0, <1>1, <2>3 DEF SyncTypeOK, Walks, WalkSteps, WalkMoves
  <2>5. WalkInv'
    BY <1>0, <2>3 DEF SyncInv, WalkInv, WalkMoves
  <2>6. CursorInv' /\ HandInv' /\ WholeInv'
    BY <1>4, <2>3 DEF CursorInv, HandInv, WholeInv, WalkMoves
  <2> QED
    BY <1>0, <1>3, <2>4, <2>5, <2>6 DEF SyncInv
<1>5. ASSUME sync.gen # NoGeneration, NEW next \in 0..MaxMarks,
             \/ next = NextCursor(sync.cursor)
             \/ next \in sync.seen,
             sync' = [sync EXCEPT !.pc = "save", !.page = ProviderPage(sync.cursor),
                                  !.next = next]
      PROVE  SyncInv'
  <2>1. PICK page \in SUBSET SyncPosts : page = ProviderPage(sync.cursor)
    BY <1>2
  <2>2. WalkMoves("save", sync.cursor, sync.seen, page, next)
    BY <1>1, <1>5, <2>1, WalkGets
  <2>3. SyncTypeOK'
    BY <1>0, <1>1, <2>2 DEF SyncTypeOK, Walks, WalkSteps, WalkMoves
  <2>4. WalkInv'
    BY <1>0, <1>5, <2>2 DEF SyncInv, WalkInv, WalkMoves
  <2>5. /\ sync.cursor = phase.cursor
        /\ sync.cursor = NoCursor => sync.seen = {}
        /\ \A c \in sync.seen : c >= sync.cursor
    BY <1>0, <1>5 DEF SyncInv, CursorInv
  <2>6. next # NoCursor => next \in sync.seen \/ sync.cursor = NoCursor \/ next < sync.cursor
    BY <1>2, <1>5
  <2>7. CursorInv'
    BY <1>0, <2>2, <2>5, <2>6 DEF CursorInv, WalkMoves
  <2>8. ASSUME NEW p \in Quiet, mark[p] # 0, sync.cursor = NoCursor \/ mark[p] < sync.cursor,
               next = NoCursor \/ page = {} \/ mark[p] >= next
        PROVE  p \in page
    <3>1. p \in SyncPosts /\ mark[p] \in 0..MaxMarks
      BY <1>1 DEF Quiet
    <3>2. p \in Before(sync.cursor)
      BY <2>8, <3>1 DEF Before
    <3>3. page # {}
      BY <1>2, <2>1, <3>2
    <3>4. CASE next \in sync.seen
      <4>1. next >= sync.cursor /\ next # NoCursor /\ sync.cursor # NoCursor
        BY <1>1, <2>5, <3>4 DEF NoCursor
      <4>2. mark[p] < sync.cursor /\ mark[p] >= next
        BY <2>8, <3>3, <4>1
      <4> QED
        BY <1>1, <3>1, <4>1, <4>2
    <3>5. CASE next = NextCursor(sync.cursor)
      BY <1>2, <2>1, <2>8, <3>2, <3>3, <3>5
    <3> QED
      BY <1>5, <3>4, <3>5
  <2>9. ASSUME NEW p \in page PROVE mark[p] # 0
    BY <1>2, <2>1 DEF Before
  <2>10. HandInv' /\ WholeInv'
    <3>1. Quiet' = Quiet
      BY <1>0 DEF Quiet
    <3> QED
      BY <1>0, <2>2, <2>8, <2>9, <3>1 DEF HandInv, WholeInv, WalkMoves
  <2> QED
    BY <1>0, <1>3, <2>3, <2>4, <2>7, <2>10 DEF SyncInv
<1>6. \A again \in sync.seen : again \in 0..MaxMarks
  BY <1>1
<1> QED
  BY <1>2, <1>4, <1>5, <1>6 DEF FetchPage

LEMMA SavePageKeeps == ASSUME SyncInv, SavePage PROVE SyncInv'
<1>0. UNCHANGED <<mark, marks, phase, members, act, starts, touched>> /\ sync.pc = "save"
  BY DEF SavePage
<1>1. SyncTypeOK /\ sync \in Walks /\ sync.page \subseteq SyncPosts
  BY TypesAre DEF SyncInv, Walks
<1>2. WalkMoves("commit", sync.cursor, sync.seen, sync.page, sync.next)
  BY <1>1, WalkAdvances DEF SavePage, WalkSteps
<1>3. viewer' = viewer \union sync.page /\ entries' = entries \union sync.page
  BY DEF SavePage
<1>4. SyncTypeOK'
  BY <1>0, <1>1, <1>2, <1>3 DEF SyncTypeOK, Walks, WalkSteps, WalkMoves
<1>5. WalkInv' /\ CursorInv'
  BY <1>0, <1>2 DEF SyncInv, WalkInv, CursorInv, WalkMoves
<1>6. Quiet' = Quiet
  BY <1>0 DEF Quiet
<1>7. MembersInv'
  BY <1>0, <1>3, <1>6 DEF SyncInv, MembersInv
<1>8. HandInv' /\ WholeInv'
  BY <1>0, <1>2, <1>3, <1>6 DEF SyncInv, HandInv, WholeInv, WalkMoves
<1> QED
  BY <1>0, <1>4, <1>5, <1>7, <1>8 DEF SyncInv

LEMMA CommitKeeps == ASSUME SyncInv, CommitPageCheckpoint PROVE SyncInv'
<1>0. UNCHANGED <<mark, marks, viewer, entries, act, starts, touched>> /\ sync.pc = "commit"
  BY DEF CommitPageCheckpoint
<1>1. SyncTypeOK /\ sync \in Walks /\ mark \in [SyncPosts -> 0..MaxMarks] /\ MaxMarks \in Nat
      /\ sync.cursor \in 0..MaxMarks /\ sync.next \in 0..MaxMarks
      /\ sync.seen \subseteq 1..MaxMarks /\ sync.page \subseteq SyncPosts
      /\ phase \in [gen : 0..MaxStarts, cursor : 0..MaxMarks, full : BOOLEAN]
  BY TypesAre DEF SyncInv, Walks
<1>2. /\ phase' = [phase EXCEPT !.cursor = sync.next]
      /\ members' = IF sync.gen = NoGeneration THEN members
                    ELSE members \union {<<sync.gen, p>> : p \in sync.page}
  BY DEF CommitPageCheckpoint
<1>3. /\ phase' \in [gen : 0..MaxStarts, cursor : 0..MaxMarks, full : BOOLEAN]
      /\ phase'.gen = phase.gen /\ phase'.cursor = sync.next
  BY <1>1, <1>2
<1>4. sync.gen = phase.gen /\ (phase.gen = NoGeneration => sync.next = NoCursor)
  BY <1>0 DEF SyncInv, WalkInv
<1>5. members' \subseteq (1..MaxStarts) \X SyncPosts
  <2>1. sync.gen # NoGeneration => sync.gen \in 1..MaxStarts
    BY <1>1 DEF Walks, NoGeneration
  <2> QED
    BY <1>1, <1>2, <2>1 DEF SyncTypeOK
<1>6. Quiet' = Quiet
  BY <1>0 DEF Quiet
<1>7. /\ sync.gen # NoGeneration =>
           /\ sync.cursor = phase.cursor
           /\ sync.cursor = NoCursor => sync.seen = {}
           /\ \A c \in sync.seen : c >= sync.cursor
           /\ sync.next # NoCursor =>
                 sync.next \in sync.seen \/ sync.cursor = NoCursor \/ sync.next < sync.cursor
  BY <1>0 DEF SyncInv, CursorInv
\* Whatever is at the new cursor or above it, and in the end whatever there is, is a member.
<1>8. ASSUME phase.gen # NoGeneration, NEW p \in Quiet, mark[p] # 0,
             sync.next = NoCursor \/ sync.page = {} \/ mark[p] >= sync.next
      PROVE  <<phase.gen, p>> \in members'
  <2>1. p \in SyncPosts /\ mark[p] \in 0..MaxMarks
    BY <1>1 DEF Quiet
  <2>2. CASE sync.cursor # NoCursor /\ mark[p] >= sync.cursor
    <3>1. <<phase.gen, p>> \in members
      BY <1>4, <1>7, <1>8, <2>2 DEF SyncInv, MembersInv
    <3> QED
      BY <1>2, <3>1
  <2>3. CASE sync.cursor = NoCursor \/ mark[p] < sync.cursor
    <3>1. p \in sync.page
      BY <1>0, <1>4, <1>8, <2>3 DEF SyncInv, HandInv
    <3> QED
      BY <1>2, <1>4, <1>8, <3>1
  <2> QED
    BY <1>1, <2>1, <2>2, <2>3
<1>9. MembersInv'
  <2> SUFFICES ASSUME phase.gen # NoGeneration, NEW p \in Quiet
               PROVE  /\ <<phase.gen, p>> \in members' => mark[p] # 0 /\ p \in viewer
                                                          /\ p \in entries
                      /\ sync.next # NoCursor /\ mark[p] >= sync.next
                           => <<phase.gen, p>> \in members'
    BY <1>0, <1>3, <1>6 DEF MembersInv
  <2>1. ASSUME <<phase.gen, p>> \in members'
        PROVE  mark[p] # 0 /\ p \in viewer /\ p \in entries
    <3>1. <<phase.gen, p>> \in members \/ p \in sync.page
      BY <1>2, <2>1
    <3>2. CASE <<phase.gen, p>> \in members
      BY <3>2 DEF SyncInv, MembersInv
    <3>3. CASE p \in sync.page
      BY <1>0, <1>4, <3>3 DEF SyncInv, HandInv
    <3> QED
      BY <3>1, <3>2, <3>3
  <2>2. ASSUME sync.next # NoCursor, mark[p] >= sync.next
        PROVE  <<phase.gen, p>> \in members'
    <3>1. mark[p] # 0
      BY <1>1, <2>2 DEF NoCursor
    <3> QED
      BY <1>8, <2>2, <3>1
  <2> QED
    BY <2>1, <2>2
<1>10. phase'.cursor # NoCursor => phase'.gen # NoGeneration
  BY <1>3, <1>4
<1>11. CASE sync.gen = NoGeneration \/ sync.page = {} \/ sync.next = NoCursor
  <2>1. sync' = [sync EXCEPT !.pc = "complete"]
    BY <1>11 DEF CommitPageCheckpoint
  <2>2. WalkMoves("complete", sync.cursor, sync.seen, sync.page, sync.next)
    BY <1>1, <2>1, WalkAdvances DEF WalkSteps
  <2>3. SyncTypeOK'
    BY <1>0, <1>1, <1>3, <1>5, <1>10, <2>2 DEF SyncTypeOK, Walks, WalkSteps, WalkMoves
  <2>4. WalkInv' /\ CursorInv' /\ HandInv'
    BY <1>0, <1>3, <2>2 DEF SyncInv, WalkInv, CursorInv, HandInv, WalkMoves
  <2>5. WholeInv'
    BY <1>0, <1>3, <1>4, <1>6, <1>8, <1>11, <2>2 DEF WholeInv, WalkMoves
  <2> QED
    BY <1>0, <1>9, <2>3, <2>4, <2>5 DEF SyncInv
<1>12. CASE /\ ~(sync.gen = NoGeneration \/ sync.page = {} \/ sync.next = NoCursor)
            /\ sync.next \in sync.seen
  <2>1. sync' = IdleSync
    BY <1>12 DEF CommitPageCheckpoint
  <2>2. sync' \in Walks /\ sync'.pc = "idle" /\ sync'.gen = NoGeneration
        /\ sync'.next = NoCursor
    BY <2>1, IdleWalk
  <2>3. SyncTypeOK'
    BY <1>0, <1>1, <1>3, <1>5, <1>10, <2>2 DEF SyncTypeOK, Walks, WalkSteps
  <2>4. WalkInv' /\ CursorInv' /\ HandInv' /\ WholeInv'
    BY <2>2 DEF WalkInv, CursorInv, HandInv, WholeInv
  <2> QED
    BY <1>0, <1>9, <2>3, <2>4 DEF SyncInv
<1>13. CASE /\ ~(sync.gen = NoGeneration \/ sync.page = {} \/ sync.next = NoCursor)
            /\ sync.next \notin sync.seen
  <2>1. sync' = [sync EXCEPT !.pc = "fetch", !.cursor = sync.next,
                             !.seen = @ \union {sync.next}, !.page = {}, !.next = NoCursor]
    BY <1>13 DEF CommitPageCheckpoint
  <2>2. sync.next \in 1..MaxMarks
    BY <1>1, <1>13 DEF NoCursor
  <2>3. WalkMoves("fetch", sync.next, sync.seen \union {sync.next}, {}, NoCursor)
    BY <1>1, <2>1, <2>2, WalkGoesOn
  <2>4. SyncTypeOK'
    BY <1>0, <1>1, <1>3, <1>5, <1>10, <2>3 DEF SyncTypeOK, Walks, WalkSteps, WalkMoves
  <2>5. WalkInv' /\ HandInv' /\ WholeInv'
    BY <1>0, <1>3, <1>4, <2>3 DEF SyncInv, WalkInv, HandInv, WholeInv, WalkMoves
  <2>6. \A c \in sync.seen \union {sync.next} : c >= sync.next
    <3> SUFFICES ASSUME NEW c \in sync.seen PROVE c >= sync.next
      BY <1>1
    <3>1. c \in 1..MaxMarks /\ c >= sync.cursor /\ sync.cursor # NoCursor
      BY <1>1, <1>7, <1>13
    <3>2. sync.next < sync.cursor
      BY <1>7, <1>13, <3>1
    <3> QED
      BY <1>1, <3>1, <3>2
  <2>7. CursorInv'
    BY <1>3, <1>13, <2>3, <2>6 DEF CursorInv, WalkMoves
  <2> QED
    BY <1>0, <1>9, <2>4, <2>5, <2>7 DEF SyncInv
<1> QED
  BY <1>11, <1>12, <1>13

\* The end of a reconciliation.
LEMMA CompleteIs ==
    ASSUME SyncInv, CompletePhase
    PROVE  /\ phase'.gen = NoGeneration /\ phase'.cursor = NoCursor
           /\ phase' \in [gen : 0..MaxStarts, cursor : 0..MaxMarks, full : BOOLEAN]
           /\ viewer' \subseteq viewer /\ entries' \subseteq entries /\ members' \subseteq members
           /\ phase.gen # NoGeneration =>
                \A p \in SyncPosts :
                   /\ p \in viewer' <=> p \in viewer /\ <<phase.gen, p>> \in members
                   /\ p \in entries' <=> p \in entries /\ <<phase.gen, p>> \in members
<1>1. phase \in [gen : 0..MaxStarts, cursor : 0..MaxMarks, full : BOOLEAN]
  BY TypesAre DEF SyncInv
<1>2. NoGeneration \in 0..MaxStarts /\ NoCursor \in 0..MaxMarks
  BY SyncAssumption DEF NoGeneration, NoCursor
<1>3. (phase.full \/ phase.gen # NoGeneration) \in BOOLEAN
  BY <1>1
<1>4. PICK full \in BOOLEAN : phase' = [gen |-> NoGeneration, cursor |-> NoCursor, full |-> full]
  BY <1>3 DEF CompletePhase
<1>5. /\ viewer' \subseteq viewer /\ entries' \subseteq entries /\ members' \subseteq members
      /\ phase.gen # NoGeneration =>
           \A p \in SyncPosts :
              /\ p \in viewer' <=> p \in viewer /\ <<phase.gen, p>> \in members
              /\ p \in entries' <=> p \in entries /\ <<phase.gen, p>> \in members
  BY DEF CompletePhase
<1> QED
  BY <1>2, <1>4, <1>5

LEMMA CompleteKeeps == ASSUME SyncInv, CompletePhase PROVE SyncInv'
<1>0. UNCHANGED <<mark, marks, act, starts, touched>> /\ sync.pc = "complete"
  BY DEF CompletePhase
<1>1. sync' \in Walks /\ sync'.pc = "idle" /\ sync'.gen = NoGeneration /\ sync'.next = NoCursor
  BY IdleWalk DEF CompletePhase
<1>2. SyncTypeOK'
  BY <1>0, <1>1, CompleteIs DEF SyncInv, SyncTypeOK, Walks, WalkSteps
<1>3. WalkInv' /\ CursorInv' /\ MembersInv' /\ HandInv' /\ WholeInv'
  BY <1>1, CompleteIs DEF WalkInv, CursorInv, MembersInv, HandInv, WholeInv
<1> QED
  BY <1>0, <1>2, <1>3 DEF SyncInv

LEMMA CompleteConverges == ASSUME SyncInv, CompletePhase PROVE ReconcileConverges
<1>1. SUFFICES ASSUME phase.gen # NoGeneration, NEW p \in SyncPosts \ touched
               PROVE  /\ (p \in viewer') = (mark[p] # 0)
                      /\ (p \in entries') = (mark[p] # 0)
  BY DEF ReconcileConverges
<1>2. p \in Quiet /\ sync.pc = "complete" /\ sync.gen = phase.gen
  BY DEF CompletePhase, Quiet, SyncInv, WalkInv
<1>3. <<phase.gen, p>> \in members <=> mark[p] # 0
  BY <1>1, <1>2 DEF SyncInv, MembersInv, WholeInv
<1>4. mark[p] # 0 => p \in viewer /\ p \in entries
  BY <1>1, <1>2, <1>3 DEF SyncInv, MembersInv
<1> QED
  BY <1>1, <1>3, <1>4, CompleteIs

LEMMA SyncKeeps == ASSUME SyncInv, [SyncNext]_syncVars PROVE SyncInv'
<1>1. CASE UNCHANGED syncVars
  <2>1. SyncTypeOK' /\ Quiet' = Quiet
    BY <1>1 DEF SyncInv, SyncTypeOK, syncVars, Quiet
  <2> QED
    BY <1>1, <2>1 DEF SyncInv, WalkInv, CursorInv, MembersInv, HandInv, WholeInv, syncVars
<1>2. CASE SyncNext
  BY <1>2, ElsewhereKeeps, ExecutedKeeps, ActionSavesKeeps, ActionListsKeeps, ActionFailsKeeps,
     StartProcessKeeps, PrepareKeeps, FetchKeeps, SavePageKeeps, SavePageFailsKeeps,
     CommitKeeps, CompleteKeeps, FailPhaseKeeps DEF SyncNext, SyncRun
<1> QED
  BY <1>1, <1>2

\* Only the end of a reconciliation closes a generation.
LEMMA OnlyCompleteCloses ==
    ASSUME SyncInv, [SyncNext]_syncVars, phase.gen # NoGeneration, phase'.gen = NoGeneration
    PROVE  CompletePhase
<1>1. SyncTypeOK
  BY DEF SyncInv
<1>2. ASSUME PreparePhase PROVE FALSE
  <2>1. Plans = {"resume"}
    BY DEF Plans
  <2>2. phase' = phase
    BY <1>2, <2>1 DEF PreparePhase
  <2> QED
    BY <2>2
<1>3. ASSUME CommitPageCheckpoint PROVE FALSE
  <2>1. phase'.gen = phase.gen
    BY <1>1, <1>3, TypesAre DEF CommitPageCheckpoint
  <2> QED
    BY <2>1
<1> QED
  BY <1>2, <1>3 DEF SyncNext, SyncRun, syncVars, ElsewhereSets, ActionExecuted, ActionSaves,
     ActionLists, ActionFails, StartProcess, FetchPage, SavePage, SavePageFails, FailPhase

\* Of the model of the start-up synchronisation: the rows and the walk have their types and a
\* resume cursor belongs to an open generation; and whenever a reconciliation is completed,
\* however many starts, failed pages, repeated cursors and resumes it took, the flags and
\* entries of the statuses that did not change meanwhile are those of the provider, for any
\* collection, page size and number of starts (run_phase, commit_page_checkpoint,
\* complete_phase).
THEOREM ReconciliationsConverge == SyncSpec => []SyncTypeOK /\ [][ReconcileConverges]_syncVars
<1>1. SyncInit => SyncInv
  BY SyncStarts
<1>2. SyncInv /\ [SyncNext]_syncVars => SyncInv'
  BY SyncKeeps
<1>3. SyncInv /\ [SyncNext]_syncVars => [ReconcileConverges]_syncVars
  BY OnlyCompleteCloses, CompleteConverges DEF ReconcileConverges
<1>4. SyncInv => SyncTypeOK
  BY DEF SyncInv
<1> QED
  BY <1>1, <1>2, <1>3, <1>4, PTL DEF SyncSpec

-----------------------------------------------------------------------------
(***************************************************************************)
(* The notifications at start-up.                                          *)
(***************************************************************************)

PhaseSteps == {<<>>, Steps, <<"notices", "mark">>, <<"mark">>}

NoticesTyped ==
    /\ nsThere \in Nat /\ nsHigh \in Nat /\ nsStarts \in Nat
    /\ nsPage \in Seq(Nat)
    /\ nsTodo \in PhaseSteps
    /\ nsStream # <<>> => nsStream \in Seq(Nat) /\ Len(nsStream) = 1

\* What is stored when the mark is moved: of the page and of the stream the posts come first,
\* and between the mark and the first of the page there is nothing that was not listed or
\* found too much.
NoticesInv ==
    /\ NoticesTyped /\ NothingIsPassedOver /\ NoticesHaveTheirPost
    /\ nsTodo \in {<<"notices", "mark">>, <<"mark">>} => PostsOf(Listed) \subseteq nsPosts
    /\ nsTodo = <<"mark">> => Listed \subseteq nsStored
    /\ nsTodo # <<>> /\ nsPage # <<>> =>
         \A n \in nsHigh + 1..nsPage[1] : n \in Listed \union nsBeyond
    /\ nsStream # <<>> => NsPostOf[nsStream[1]] \in nsPosts

\* The page that is listed: in either order it has no holes.
LEMMA ListedHasNoHoles ==
    ASSUME nsThere \in Nat, nsHigh \in Nat, NEW page, page = ListedAfter(nsHigh)
    PROVE  /\ page \in Seq(Nat)
           /\ page # <<>> =>
                \A n \in nsHigh + 1..page[1] :
                   \/ \E k \in DOMAIN page : page[k] = n
                   \/ \A k \in DOMAIN page : page[k] > n
<1> DEFINE count == IF nsThere - nsHigh < NsPage THEN nsThere - nsHigh ELSE NsPage
<1>0. NsPage \in Nat
  <2>1. NsPage \in {NsNotices, NsPage, NsStarts}
    OBVIOUS
  <2> QED
    BY <2>1, NsAssumption
<1>1. NsPage \in Nat /\ count \in Int /\ count <= NsPage /\ count <= nsThere - nsHigh
  BY <1>0
<1>2. ListedAfter(nsHigh) = IF nsOldestFirst /\ nsHigh > 0 THEN [k \in 1..count |-> nsHigh + k]
                            ELSE [k \in 1..count |-> nsThere + 1 - k]
  BY DEF ListedAfter
<1> HIDE DEF count
<1>3. CASE count < 1
  <2>1. 1..count = {}
    BY <1>1, <1>3
  <2>2. page = <<>>
    BY <1>2, <2>1
  <2> QED
    BY <2>2
<1>4. CASE count >= 1 /\ nsOldestFirst /\ nsHigh > 0
  <2>1. page = [k \in 1..count |-> nsHigh + k] /\ count \in Nat
    BY <1>1, <1>2, <1>4
  <2>2. page \in Seq(Nat) /\ DOMAIN page = 1..count /\ page[1] = nsHigh + 1
    BY <1>4, <2>1
  <2> QED
    BY <1>4, <2>1, <2>2
<1>5. CASE count >= 1 /\ ~(nsOldestFirst /\ nsHigh > 0)
  <2>1. page = [k \in 1..count |-> nsThere + 1 - k] /\ count \in Nat
    BY <1>1, <1>2, <1>5
  <2>2. \A k \in 1..count : nsThere + 1 - k \in Nat
    BY <1>1, <2>1
  <2>3. page \in Seq(Nat) /\ DOMAIN page = 1..count /\ page[1] = nsThere
    BY <1>5, <2>1, <2>2
  <2>4. ASSUME NEW n \in nsHigh + 1..page[1], NEW j \in DOMAIN page, ~(page[j] > n)
        PROVE  \E k \in DOMAIN page : page[k] = n
    <3>1. j \in 1..count /\ page[j] = nsThere + 1 - j /\ n \in Int /\ n <= nsThere
      BY <2>1, <2>3, <2>4
    <3>2. nsThere + 1 - n \in 1..count
      BY <2>1, <2>4, <3>1
    <3>3. page[nsThere + 1 - n] = n
      BY <2>1, <3>1, <3>2
    <3> QED
      BY <2>3, <3>2, <3>3
  <2> QED
    BY <2>3, <2>4
<1> QED
  BY <1>1, <1>3, <1>4, <1>5

LEMMA FirstIsListed ==
    ASSUME nsPage \in Seq(Nat), nsPage # <<>>
    PROVE  nsPage[1] \in Nat /\ nsPage[1] \in Listed
<1>1. 1 \in DOMAIN nsPage
  OBVIOUS
<1> QED
  BY <1>1 DEF Listed

LEMMA PostsOfUnion ==
    ASSUME NEW S, NEW T
    PROVE  PostsOf(S \union T) = PostsOf(S) \union PostsOf(T)
  BY DEF PostsOf

LEMMA StepIs ==
    ASSUME nsTodo \in PhaseSteps, NEW step, DoingStep(step)
    PROVE  /\ step = "posts" => nsTodo' = <<"notices", "mark">>
           /\ step = "notices" => nsTodo = <<"notices", "mark">> /\ nsTodo' = <<"mark">>
           /\ step = "mark" => nsTodo = <<"mark">> /\ nsTodo' = <<>>
<1>1. /\ Head(Steps) = "posts" /\ Tail(Steps) = <<"notices", "mark">>
      /\ Head(<<"notices", "mark">>) = "notices" /\ Tail(<<"notices", "mark">>) = <<"mark">>
      /\ Head(<<"mark">>) = "mark" /\ Tail(<<"mark">>) = <<>>
  BY DEF Steps
<1> QED
  BY <1>1 DEF PhaseSteps, DoingStep

LEMMA NoticesStart == ASSUME NotificationSyncInit PROVE NoticesInv
<1>1. /\ nsThere = 0 /\ nsStored = {} /\ nsPosts = {} /\ nsHigh = 0 /\ nsPage = <<>>
      /\ nsTodo = <<>> /\ nsStream = <<>> /\ nsStarts = 0
  BY DEF NotificationSyncInit
<1>2. <<>> \in Seq(Nat) /\ <<>> \in PhaseSteps /\ 1..0 = {}
  BY DEF PhaseSteps
<1>3. <<>> # <<"notices", "mark">> /\ <<>> # <<"mark">>
  <2>1. Len(<<>>) = 0 /\ Len(<<"notices", "mark">>) = 2 /\ Len(<<"mark">>) = 1
    OBVIOUS
  <2> QED
    BY <2>1
<1>4. NoticesTyped
  BY <1>1, <1>2 DEF NoticesTyped
<1> QED
  BY <1>1, <1>2, <1>3, <1>4 DEF NoticesInv, NothingIsPassedOver, NoticesHaveTheirPost, PostsOf

LEMMA ArrivesKeeps == ASSUME NoticesInv, NoticeArrives PROVE NoticesInv'
<1>1. nsThere' \in Nat
  BY DEF NoticesInv, NoticesTyped, NoticeArrives
<1> QED
  BY <1>1 DEF NoticeArrives, NoticesInv, NoticesTyped, NothingIsPassedOver,
     NoticesHaveTheirPost, Listed, PostsOf

LEMMA StartKeepsNotices == ASSUME NoticesInv, StartNoticeSync PROVE NoticesInv'
<1>1. PICK page : page = ListedAfter(nsHigh)
  OBVIOUS
<1>2. /\ nsPage' = page /\ nsTodo' = Steps /\ nsStream' = <<>> /\ nsStarts' = nsStarts + 1
      /\ nsBeyond' = nsBeyond \union
           IF page = <<>> THEN {}
            ELSE {n \in nsHigh + 1..page[1] : \A k \in DOMAIN page : page[k] > n}
      /\ UNCHANGED <<nsThere, nsOldestFirst, nsStored, nsPosts, nsHigh>>
  BY <1>1 DEF StartNoticeSync
<1>3. NoticesTyped
  BY DEF NoticesInv
<1>4. /\ page \in Seq(Nat)
      /\ page # <<>> =>
           \A n \in nsHigh + 1..page[1] :
              \/ \E k \in DOMAIN page : page[k] = n
              \/ \A k \in DOMAIN page : page[k] > n
  BY <1>1, <1>3, ListedHasNoHoles DEF NoticesTyped
<1>5. NoticesTyped'
  <2>1. Steps \in PhaseSteps /\ nsStarts' \in Nat
    BY <1>2, <1>3 DEF PhaseSteps, NoticesTyped
  <2> QED
    BY <1>2, <1>3, <1>4, <2>1 DEF NoticesTyped
<1>6. NothingIsPassedOver' /\ NoticesHaveTheirPost'
  BY <1>2 DEF NoticesInv, NothingIsPassedOver, NoticesHaveTheirPost, PostsOf
<1>7. nsPage' # <<>> => \A n \in nsHigh' + 1..nsPage'[1] : n \in Listed' \union nsBeyond'
  BY <1>2, <1>4 DEF Listed
<1>8. nsTodo' \notin {<<"notices", "mark">>, <<"mark">>}
  <2>1. Len(nsTodo') = 3 /\ Len(<<"notices", "mark">>) = 2 /\ Len(<<"mark">>) = 1
    BY <1>2 DEF Steps
  <2> QED
    BY <2>1
<1> QED
  BY <1>2, <1>5, <1>6, <1>7, <1>8 DEF NoticesInv

LEMMA StorePostsKeeps == ASSUME NoticesInv, StorePosts PROVE NoticesInv'
<1>1. nsTodo' = <<"notices", "mark">> /\ nsTodo # <<>>
  BY StepIs DEF NoticesInv, NoticesTyped, StorePosts, DoingStep
<1>2. /\ nsPosts' = nsPosts \union PostsOf(Listed)
      /\ UNCHANGED <<nsThere, nsOldestFirst, nsStored, nsHigh, nsPage, nsStream, nsStarts, nsBeyond>>
  BY DEF StorePosts
<1>3. Listed' = Listed /\ PostsOf(Listed)' = PostsOf(Listed)
  BY <1>2 DEF Listed, PostsOf
<1>4. NoticesTyped' /\ NothingIsPassedOver' /\ NoticesHaveTheirPost'
  BY <1>1, <1>2 DEF NoticesInv, NoticesTyped, NothingIsPassedOver, NoticesHaveTheirPost,
     PostsOf, PhaseSteps
<1>5. nsTodo' # <<"mark">>
  <2>1. Len(<<"notices", "mark">>) = 2 /\ Len(<<"mark">>) = 1
    OBVIOUS
  <2> QED
    BY <1>1, <2>1
<1> QED
  BY <1>1, <1>2, <1>3, <1>4, <1>5 DEF NoticesInv

LEMMA StoreNoticesKeeps == ASSUME NoticesInv, StoreNotices PROVE NoticesInv'
<1>1. nsTodo = <<"notices", "mark">> /\ nsTodo' = <<"mark">> /\ nsTodo # <<>>
  BY StepIs DEF NoticesInv, NoticesTyped, StoreNotices, DoingStep
<1>2. /\ nsStored' = nsStored \union Listed
      /\ UNCHANGED <<nsThere, nsOldestFirst, nsPosts, nsHigh, nsPage, nsStream, nsStarts, nsBeyond>>
  BY DEF StoreNotices
<1>3. Listed' = Listed /\ PostsOf(Listed)' = PostsOf(Listed) /\ PostsOf(Listed) \subseteq nsPosts
  BY <1>1, <1>2 DEF Listed, PostsOf, NoticesInv
<1>4. PostsOf(nsStored') \subseteq nsPosts
  BY <1>2, <1>3, PostsOfUnion DEF NoticesInv, NoticesHaveTheirPost
<1>5. NoticesHaveTheirPost'
  BY <1>2, <1>4 DEF NoticesHaveTheirPost, PostsOf
<1>6. NoticesTyped' /\ NothingIsPassedOver'
  BY <1>1, <1>2 DEF NoticesInv, NoticesTyped, NothingIsPassedOver, PhaseSteps
<1> QED
  BY <1>1, <1>2, <1>3, <1>5, <1>6 DEF NoticesInv

LEMMA MoveMarkKeeps == ASSUME NoticesInv, MoveMark PROVE NoticesInv'
<1>1. nsTodo = <<"mark">> /\ nsTodo' = <<>> /\ nsTodo # <<>>
  BY StepIs DEF NoticesInv, NoticesTyped, MoveMark, DoingStep
<1>2. /\ nsHigh' = IF nsPage = <<>> THEN nsHigh ELSE nsPage[1]
      /\ UNCHANGED <<nsThere, nsOldestFirst, nsStored, nsPosts, nsPage, nsStream, nsStarts, nsBeyond>>
  BY DEF MoveMark
<1>3. NoticesTyped /\ NothingIsPassedOver /\ Listed \subseteq nsStored
  BY <1>1 DEF NoticesInv
<1>4. nsHigh' \in Nat
  BY <1>2, <1>3, FirstIsListed DEF NoticesTyped
<1>5. NothingIsPassedOver'
  <2>1. CASE nsPage = <<>>
    BY <1>2, <1>3, <2>1 DEF NothingIsPassedOver
  <2>2. CASE nsPage # <<>>
    <3>1. \A n \in nsHigh + 1..nsPage[1] : n \in Listed \union nsBeyond
      BY <1>1, <2>2 DEF NoticesInv
    <3>2. \A n \in 1..nsPage[1] : n \in 1..nsHigh \/ n \in nsHigh + 1..nsPage[1]
      BY <1>3, <2>2, FirstIsListed DEF NoticesTyped
    <3> QED
      BY <1>2, <1>3, <2>2, <3>1, <3>2 DEF NothingIsPassedOver
  <2> QED
    BY <2>1, <2>2
<1>6. NoticesTyped' /\ NoticesHaveTheirPost'
  BY <1>1, <1>2, <1>3, <1>4 DEF NoticesInv, NoticesTyped, NoticesHaveTheirPost, PostsOf, PhaseSteps
<1> QED
  BY <1>1, <1>2, <1>5, <1>6 DEF NoticesInv

LEMMA PhaseFailsKeeps == ASSUME NoticesInv, NoticeSyncFails PROVE NoticesInv'
  BY DEF NoticeSyncFails, NoticesInv, NoticesTyped, NothingIsPassedOver, NoticesHaveTheirPost,
     PhaseSteps, PostsOf

LEMMA StreamPostKeeps == ASSUME NoticesInv, StreamStoresPost PROVE NoticesInv'
<1>1. /\ nsStream' = <<nsThere>> /\ nsPosts' = nsPosts \union PostsOf({nsThere})
      /\ UNCHANGED <<nsThere, nsOldestFirst, nsStored, nsHigh, nsPage, nsTodo, nsStarts, nsBeyond>>
  BY DEF StreamStoresPost
<1>2. nsThere \in Nat
  BY DEF NoticesInv, NoticesTyped
<1>3. nsStream' \in Seq(Nat) /\ Len(nsStream') = 1 /\ nsStream'[1] = nsThere
  BY <1>1, <1>2
<1>4. NsPostOf[nsThere] \in PostsOf({nsThere})
  BY DEF PostsOf
<1>5. NoticesTyped' /\ NothingIsPassedOver' /\ NoticesHaveTheirPost'
  BY <1>1, <1>3 DEF NoticesInv, NoticesTyped, NothingIsPassedOver, NoticesHaveTheirPost, PostsOf
<1>6. Listed' = Listed /\ PostsOf(Listed)' = PostsOf(Listed)
  BY <1>1 DEF Listed, PostsOf
<1> QED
  BY <1>1, <1>3, <1>4, <1>5, <1>6 DEF NoticesInv

LEMMA StreamNoticeKeeps == ASSUME NoticesInv, StreamStoresNotice PROVE NoticesInv'
<1>1. /\ nsStream # <<>> /\ nsStream' = <<>>
      /\ nsStored' = nsStored \union {nsStream[1]} \/ nsStored' = nsStored
      /\ UNCHANGED <<nsThere, nsOldestFirst, nsPosts, nsHigh, nsPage, nsTodo, nsStarts, nsBeyond>>
  BY DEF StreamStoresNotice
<1>2. PostsOf({nsStream[1]}) \subseteq nsPosts
  BY <1>1 DEF NoticesInv, PostsOf
<1>3. PostsOf(nsStored') \subseteq nsPosts
  BY <1>1, <1>2, PostsOfUnion DEF NoticesInv, NoticesHaveTheirPost
<1>4. NoticesHaveTheirPost'
  BY <1>1, <1>3 DEF NoticesHaveTheirPost, PostsOf
<1>5. NoticesTyped'
  BY <1>1 DEF NoticesInv, NoticesTyped
<1>7. NothingIsPassedOver'
  BY <1>1 DEF NoticesInv, NothingIsPassedOver
<1>6. Listed' = Listed /\ PostsOf(Listed)' = PostsOf(Listed)
  BY <1>1 DEF Listed, PostsOf
<1> QED
  BY <1>1, <1>4, <1>5, <1>6, <1>7 DEF NoticesInv

\* Of the model of the notifications at start-up: what is older than the mark the next start
\* begins from has been stored or did not fit into a page, and no notification is stored
\* without its post, in whichever order the provider lists, whatever fails and whenever the
\* process stops (run_notification_phase, save_notification_batch, save_notification_to_db).
THEOREM NoticesAreCaughtUp ==
    NotificationSyncSpec => [](NothingIsPassedOver /\ NoticesHaveTheirPost)
<1>1. NotificationSyncInit => NoticesInv
  BY NoticesStart
<1>2. NoticesInv /\ [NotificationSyncNext]_nsVars => NoticesInv'
  <2>1. ASSUME NoticesInv, UNCHANGED nsVars PROVE NoticesInv'
    BY <2>1 DEF nsVars, NoticesInv, NoticesTyped, NothingIsPassedOver, NoticesHaveTheirPost,
       Listed, PostsOf
  <2> QED
    BY <2>1, ArrivesKeeps, StartKeepsNotices, StorePostsKeeps, StoreNoticesKeeps, MoveMarkKeeps,
       PhaseFailsKeeps, StreamPostKeeps, StreamNoticeKeeps DEF NotificationSyncNext
<1>3. NoticesInv => NothingIsPassedOver /\ NoticesHaveTheirPost
  BY DEF NoticesInv
<1> QED
  BY <1>1, <1>2, <1>3, PTL DEF NotificationSyncSpec
=============================================================================
