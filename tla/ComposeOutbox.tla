--------------------------- MODULE ComposeOutbox ---------------------------
(***************************************************************************)
(* The durable compose outbox: posts and edits are rows of an SQLite table *)
(* that one worker per process claims, at most MaxConcurrentDeliveries at  *)
(* a time, and delivers to a remote provider that may answer, refuse, lose *)
(* the answer, or act on a request long after the client gave up on it.    *)
(*                                                                         *)
(* Rows:     src/db/queries/compose_outbox.rs (one SQL statement, or one   *)
(*           transaction, is one action).                                  *)
(* Worker:   src/services/compose_outbox.rs.                               *)
(* Delivery: src/application/status.rs and the protocol adapters.          *)
(***************************************************************************)
EXTENDS Naturals, FiniteSets

CONSTANTS
  Items,                    \* outbox ids (operation UUIDs, never reused)
  Accts,                    \* acting accounts
  AcctOf,                   \* [Items -> Accts]  acting_account_acct
  KindOf,                   \* [Items -> {"post", "edit"}]  operation_kind
  KeyedAccts,               \* accounts on Mastodon, Paon or Bluesky; the others are Misskey
  MaxAutomaticAttempts,     \* 6 in the code
  MaxConcurrentDeliveries,  \* 4 in the code
  ListLimit,                \* LIMIT 100 of the outbox listing
  Stamps,                   \* the wall-clock readings created_at may take
  MaxRetries,               \* bound: retries the user asks for, all items together
  MaxStops                  \* bound: times the process stops

ASSUME OutboxAssumption ==
  /\ IsFiniteSet(Items)
  /\ AcctOf \in [Items -> Accts]
  /\ KindOf \in [Items -> {"post", "edit"}]
  /\ KeyedAccts \subseteq Accts
  /\ MaxAutomaticAttempts \in Nat
  /\ MaxConcurrentDeliveries \in Nat \ {0}
  /\ ListLimit \in Nat
  /\ Stamps \subseteq Nat
  /\ MaxRetries \in Nat
  /\ MaxStops \in Nat

VARIABLES
  state,      \* [Items -> RowStates] state column; "none" before, "deleted" after the row exists
  attempts,   \* [Items -> Nat] attempts column
  unsure,     \* [Items -> BOOLEAN] last_error = 'errors.delivery_uncertain'
  due,        \* [Items -> BOOLEAN] next_attempt_at <= now
  createdAt,  \* [Items -> Nat] created_at column
  rowid,      \* [Items -> Nat] SQLite rowid, insertion order
  task,       \* [Items -> TaskSteps] where the spawned `deliver` future stands
  idem,       \* [Items -> BOOLEAN] its local `idempotent_provider`
  login,      \* [Accts -> BOOLEAN] the account's login_accounts row exists
  session,    \* [Accts -> BOOLEAN] SessionManager holds a session for it
  worker,     \* "down", "recover", "list", "resume" or "run"
  resume,     \* SUBSET Items: the listing recover_idempotent_interrupted_items still walks
  copies,     \* [Items -> Nat] times the provider has executed the mutation
  late,       \* [Items -> Nat] abandoned requests the provider has not processed yet
  seen,       \* SUBSET Items: idempotency keys the provider has accepted
  gone,       \* [Items -> BOOLEAN] Misskey edit: the original note is deleted
  lateDelete, \* [Items -> BOOLEAN] an abandoned Misskey delete is still on its way
  risky,      \* [Items -> Nat] history: user retries of a row shown as delivery_uncertain
  jumped,     \* [Items -> BOOLEAN] history: the row re-entered the queue out of turn
  retries,    \* Nat: user retries so far
  stops       \* Nat: process stops so far

rowVars  == <<state, attempts, unsure, due, createdAt, rowid, jumped>>
taskVars == <<task, idem>>
authVars == <<login, session>>
bootVars == <<worker, resume>>
provider == <<copies, late, seen, gone, lateDelete>>
usage    == <<risky, retries, stops>>
vars == <<rowVars, taskVars, authVars, bootVars, provider, usage>>

RowStates == {"none", "queued", "sending", "retrying", "failed", "uncertain",
              "succeeded", "cancelled", "deleted"}

(* The three classes of AppErrorCode that `deliver` tells apart:           *)
(* "busy" is RateLimited or DatabaseBusy, "ambiguous" is Timeout or        *)
(* Internal, "final" is every other code.                                  *)
ErrorClasses == {"busy", "ambiguous", "final"}

TaskSteps == {"none", "claimed", "ready", "deleting", "sent", "applied",
              "saving", "ok"} \cup ErrorClasses

Pending == {"queued", "sending", "retrying"}
Stored  == RowStates \ {"none", "deleted"}

Keyed(i) == AcctOf[i] \in KeyedAccts

(* Mutant of KeyOf: a new key for every attempt. *)
KeyPerAttempt(i) == <<i, attempts[i]>>

(* The idempotency key of a request: the outbox id, whatever the attempt.  *)
(* Edits carry none.                                                       *)
KeyOf(i) == i

(* Misskey has no edit: its adapter deletes the note and creates it again. *)
RecreatesNote(i) == KindOf[i] = "edit" /\ ~Keyed(i)

Older(i, j) ==
  /\ AcctOf[i] = AcctOf[j]
  /\ \/ createdAt[i] < createdAt[j]
     \/ createdAt[i] = createdAt[j] /\ rowid[i] < rowid[j]

(* Mutant of Claimable: an older row waiting for its retry does not block. *)
ClaimablePastRetrying(i) ==
  /\ state[i] \in {"queued", "retrying"}
  /\ due[i]
  /\ ~ \E j \in Items : Older(j, i) /\ state[j] \in {"queued", "sending"}

(* Mutant of Claimable: any other pending row of the account blocks. *)
ClaimableAlone(i) ==
  /\ state[i] \in {"queued", "retrying"}
  /\ due[i]
  /\ ~ \E j \in Items \ {i} : AcctOf[j] = AcctOf[i] /\ state[j] \in Pending

(* The candidates of has_due and claim_next. *)
Claimable(i) ==
  /\ state[i] \in {"queued", "retrying"}
  /\ due[i]
  /\ ~ \E j \in Items : Older(j, i) /\ state[j] \in Pending

(* ORDER BY created_at ASC, rowid ASC LIMIT 1. *)
ClaimedFirst(i, j) ==
  \/ createdAt[i] < createdAt[j]
  \/ createdAt[i] = createdAt[j] /\ rowid[i] <= rowid[j]

Inserted == {i \in Items : state[i] # "none"}

Live == {i \in Items : task[i] # "none"}

Up == worker # "down"

Init ==
  /\ state = [i \in Items |-> "none"]
  /\ attempts = [i \in Items |-> 0]
  /\ unsure = [i \in Items |-> FALSE]
  /\ due = [i \in Items |-> FALSE]
  /\ createdAt = [i \in Items |-> 0]
  /\ rowid = [i \in Items |-> 0]
  /\ jumped = [i \in Items |-> FALSE]
  /\ task = [i \in Items |-> "none"]
  /\ idem = [i \in Items |-> FALSE]
  /\ login = [a \in Accts |-> TRUE]
  /\ session = [a \in Accts |-> TRUE]
  /\ worker = "recover"
  /\ resume = {}
  /\ copies = [i \in Items |-> 0]
  /\ late = [i \in Items |-> 0]
  /\ seen = {}
  /\ gone = [i \in Items |-> FALSE]
  /\ lateDelete = [i \in Items |-> FALSE]
  /\ risky = [i \in Items |-> 0]
  /\ retries = 0
  /\ stops = 0

-----------------------------------------------------------------------------
(* IPC commands: enqueue, retry, cancel.                                   *)

(* A failed insert (writer timeout, missing login row) leaves no row: it   *)
(* is a stuttering step.  created_at is a fresh reading of the wall clock, *)
(* which may have been set back since an older row was inserted.           *)
Enqueue(i, now) ==
  /\ Up
  /\ state[i] = "none"
  /\ login[AcctOf[i]]
  /\ state' = [state EXCEPT ![i] = "queued"]
  /\ due' = [due EXCEPT ![i] = TRUE]
  /\ createdAt' = [createdAt EXCEPT ![i] = now]
  /\ rowid' = [rowid EXCEPT ![i] = Cardinality(Inserted) + 1]
  /\ jumped' = [jumped EXCEPT
       ![i] = \E j \in Items : /\ AcctOf[j] = AcctOf[i]
                               /\ state[j] \in Stored
                               /\ now < createdAt[j]]
  /\ UNCHANGED <<attempts, unsure, taskVars, authVars, bootVars, provider, usage>>

(* The UPDATE both the retry command and the start-up resume execute. *)
Requeue(i) ==
  /\ state[i] \in {"failed", "uncertain", "cancelled"}
  /\ state' = [state EXCEPT ![i] = "queued"]
  /\ unsure' = [unsure EXCEPT ![i] = FALSE]
  /\ due' = [due EXCEPT ![i] = TRUE]
  /\ jumped' = [jumped EXCEPT ![i] = TRUE]
  /\ UNCHANGED <<attempts, createdAt, rowid>>

Retry(i) ==
  /\ Up
  /\ retries < MaxRetries
  /\ Requeue(i)
  /\ retries' = retries + 1
  /\ risky' = [risky EXCEPT ![i] = @ + (IF unsure[i] THEN 1 ELSE 0)]
  /\ UNCHANGED <<taskVars, authVars, bootVars, provider, stops>>

(* Mutant of Cancel: a row that is being sent can be cancelled. *)
CancelSending(i) ==
  /\ Up
  /\ state[i] \in {"queued", "sending", "retrying", "failed", "uncertain"}
  /\ state' = [state EXCEPT ![i] = "cancelled"]
  /\ UNCHANGED <<attempts, unsure, due, createdAt, rowid, jumped,
                 taskVars, authVars, bootVars, provider, usage>>

Cancel(i) ==
  /\ Up
  /\ state[i] \in {"queued", "retrying", "failed", "uncertain"}
  /\ state' = [state EXCEPT ![i] = "cancelled"]
  /\ UNCHANGED <<attempts, unsure, due, createdAt, rowid, jumped,
                 taskVars, authVars, bootVars, provider, usage>>

-----------------------------------------------------------------------------
(* The worker: start-up recovery, then claims.                             *)

(* Mutant of RecoverInterrupted: last_error is not set. *)
RecoverSilently ==
  /\ worker = "recover"
  /\ worker' = "list"
  /\ state' = [i \in Items |-> IF state[i] = "sending" THEN "uncertain" ELSE state[i]]
  /\ UNCHANGED <<attempts, unsure, due, createdAt, rowid, jumped, resume,
                 taskVars, authVars, provider, usage>>

(* A database error is only logged: the rows then stay 'sending'. *)
RecoverInterrupted ==
  /\ worker = "recover"
  /\ worker' = "list"
  /\ \/ /\ state' = [i \in Items |->
                        IF state[i] = "sending" THEN "uncertain" ELSE state[i]]
        /\ unsure' = [i \in Items |-> state[i] = "sending" \/ unsure[i]]
        /\ UNCHANGED <<attempts, due, createdAt, rowid, jumped>>
     \/ UNCHANGED rowVars
  /\ UNCHANGED <<resume, taskVars, authVars, provider, usage>>

ListRank(s) == CASE s = "sending"  -> 0
                 [] s = "queued"   -> 1
                 [] s = "retrying" -> 2
                 [] s \in {"failed", "uncertain"} -> 3
                 [] OTHER -> 4

ListedBefore(i, j) ==
  \/ ListRank(state[i]) < ListRank(state[j])
  \/ ListRank(state[i]) = ListRank(state[j]) /\ createdAt[i] > createdAt[j]

(* The results the listing query may return: ListLimit rows (all, when     *)
(* there are fewer) with no excluded row sorted before an included one.    *)
Listings ==
  LET rows == {i \in Items : state[i] \in Stored}
  IN  {S \in SUBSET rows :
         /\ Cardinality(S) <= ListLimit
         /\ S # rows => Cardinality(S) = ListLimit
         /\ \A i \in S, j \in rows \ S : ~ ListedBefore(j, i)}

(* recover_idempotent_interrupted_items reads the listing once; nothing is *)
(* resumed when the read fails.                                            *)
ListInterrupted ==
  /\ worker = "list"
  /\ worker' = "resume"
  /\ \E S \in Listings \cup {{}} :
       resume' = {i \in S : state[i] = "uncertain" /\ unsure[i]}
  /\ UNCHANGED <<rowVars, taskVars, authVars, provider, usage>>

(* One turn of the resume loop: the row is re-queued on the strength of    *)
(* the listing read earlier, unless its account's provider ignores keys;   *)
(* the UPDATE may match nothing any more, or fail.                         *)
ResumeOne(i) ==
  /\ worker = "resume"
  /\ i \in resume
  /\ resume' = resume \ {i}
  /\ \/ session[AcctOf[i]] /\ Keyed(i) /\ Requeue(i)
     \/ UNCHANGED rowVars
  /\ UNCHANGED <<worker, taskVars, authVars, provider, usage>>

StartLoop ==
  /\ worker = "resume"
  /\ resume = {}
  /\ worker' = "run"
  /\ UNCHANGED <<resume, rowVars, taskVars, authVars, provider, usage>>

(* Mutant of ClaimNext: the limit is off by one. *)
ClaimOneTooMany(i) ==
  /\ worker = "run"
  /\ Cardinality(Live) <= MaxConcurrentDeliveries
  /\ Claimable(i)
  /\ \A j \in Items : Claimable(j) => ClaimedFirst(i, j)
  /\ state' = [state EXCEPT ![i] = "sending"]
  /\ attempts' = [attempts EXCEPT ![i] = @ + 1]
  /\ task' = [task EXCEPT ![i] = "claimed"]
  /\ UNCHANGED <<unsure, due, createdAt, rowid, jumped, idem,
                 authVars, bootVars, provider, usage>>

(* claim_next in one transaction, then the spawn of `deliver`. *)
ClaimNext(i) ==
  /\ worker = "run"
  /\ Cardinality(Live) < MaxConcurrentDeliveries
  /\ Claimable(i)
  /\ \A j \in Items : Claimable(j) => ClaimedFirst(i, j)
  /\ state' = [state EXCEPT ![i] = "sending"]
  /\ attempts' = [attempts EXCEPT ![i] = @ + 1]
  /\ task' = [task EXCEPT ![i] = "claimed"]
  /\ UNCHANGED <<unsure, due, createdAt, rowid, jumped, idem,
                 authVars, bootVars, provider, usage>>

(* The retry delay of a row elapses. *)
DelayElapses(i) ==
  /\ state[i] = "retrying"
  /\ ~due[i]
  /\ due' = [due EXCEPT ![i] = TRUE]
  /\ UNCHANGED <<state, attempts, unsure, createdAt, rowid, jumped,
                 taskVars, authVars, bootVars, provider, usage>>

-----------------------------------------------------------------------------
(* One delivery: the stages of `deliver`, each up to its next await.        *)

Step(i, from, to) ==
  /\ task[i] = from
  /\ task' = [task EXCEPT ![i] = to]

(* The session is looked up once for the retry policy ... *)
ReadSessionKind(i) ==
  /\ Step(i, "claimed", "ready")
  /\ idem' = [idem EXCEPT ![i] = session[AcctOf[i]] /\ Keyed(i)]
  /\ UNCHANGED <<rowVars, authVars, bootVars, provider, usage>>

(* Mutant of FailBeforeSend: an early return reports success. *)
ReturnBeforeSend(i) ==
  /\ \E c \in ErrorClasses \cup {"ok"} : Step(i, "ready", c)
  /\ UNCHANGED <<idem, rowVars, authVars, bootVars, provider, usage>>

(* ... settings, plugin hooks, validation and id resolution may all fail   *)
(* before anything was sent ...                                            *)
FailBeforeSend(i) ==
  /\ \E c \in ErrorClasses : Step(i, "ready", c)
  /\ UNCHANGED <<idem, rowVars, authVars, bootVars, provider, usage>>

(* Mutant of Send: a Misskey edit creates without deleting first. *)
SendWithoutDelete(i) ==
  /\ session[AcctOf[i]]
  /\ Step(i, "ready", "sent")
  /\ UNCHANGED <<idem, rowVars, authVars, bootVars, provider, usage>>

(* ... and the session is looked up again for the request itself. *)
Send(i) ==
  /\ session[AcctOf[i]]
  /\ Step(i, "ready", IF RecreatesNote(i) THEN "deleting" ELSE "sent")
  /\ UNCHANGED <<idem, rowVars, authVars, bootVars, provider, usage>>

(* The provider executes the mutation, or recognises the key of one it has *)
(* already executed.  Bluesky reaches the same through the record key that *)
(* is derived from the outbox id and the read of that record.              *)
Execute(i) ==
  LET keyed == KindOf[i] = "post" /\ Keyed(i)
  IN  /\ copies' = [copies EXCEPT
                      ![i] = IF keyed /\ KeyOf(i) \in seen THEN @ ELSE @ + 1]
      /\ seen' = IF keyed THEN seen \cup {KeyOf(i)} ELSE seen

ProviderExecutes(i) ==
  /\ Step(i, "sent", "applied")
  /\ Execute(i)
  /\ UNCHANGED <<late, gone, lateDelete, idem, rowVars, authVars, bootVars, usage>>

ProviderDeletesNote(i) ==
  /\ Step(i, "deleting", "sent")
  /\ ~gone[i]
  /\ gone' = [gone EXCEPT ![i] = TRUE]
  /\ UNCHANGED <<copies, late, seen, lateDelete, idem, rowVars, authVars, bootVars, usage>>

(* An error answer: 429, 401 or an unsupported operation mean the request  *)
(* was not executed; any other status is Internal and says nothing.        *)
ProviderRefuses(i) ==
  /\ \E c \in ErrorClasses : Step(i, "sent", c) \/ Step(i, "deleting", c)
  /\ UNCHANGED <<idem, rowVars, authVars, bootVars, provider, usage>>

(* The client gives up on a request that is still on its way. *)
RequestTimesOut(i) ==
  /\ \/ /\ Step(i, "sent", "ambiguous")
        /\ late' = [late EXCEPT ![i] = @ + 1]
        /\ UNCHANGED lateDelete
     \/ /\ Step(i, "deleting", "ambiguous")
        /\ lateDelete' = [lateDelete EXCEPT ![i] = TRUE]
        /\ UNCHANGED late
  /\ UNCHANGED <<copies, seen, gone, idem, rowVars, authVars, bootVars, usage>>

LateExecutes(i) ==
  /\ late[i] > 0
  /\ late' = [late EXCEPT ![i] = @ - 1]
  /\ Execute(i)
  /\ UNCHANGED <<gone, lateDelete, taskVars, rowVars, authVars, bootVars, usage>>

LateDeletesNote(i) ==
  /\ lateDelete[i]
  /\ lateDelete' = [lateDelete EXCEPT ![i] = FALSE]
  /\ gone' = [gone EXCEPT ![i] = TRUE]
  /\ UNCHANGED <<copies, late, seen, taskVars, rowVars, authVars, bootVars, usage>>

(* The answer to an executed request arrives or is lost.  A post is then   *)
(* done (a failed cache write is only logged); an edit is saved first.     *)
ResponseArrives(i) ==
  /\ \/ Step(i, "applied", IF KindOf[i] = "post" THEN "ok" ELSE "saving")
     \/ Step(i, "applied", "ambiguous")
  /\ UNCHANGED <<idem, rowVars, authVars, bootVars, provider, usage>>

(* The edited status goes to the cache; here a database error is the       *)
(* result of the delivery ("database is locked" or a pool timeout).        *)
SaveEdit(i) ==
  /\ \E r \in {"ok", "busy", "ambiguous"} : Step(i, "saving", r)
  /\ UNCHANGED <<idem, rowVars, authVars, bootVars, provider, usage>>

-----------------------------------------------------------------------------
(* The result of a delivery is written back.                               *)

(* Mutant of ShouldRetry: ambiguous failures are retried everywhere. *)
RetryAmbiguous(i) ==
  /\ attempts[i] < MaxAutomaticAttempts
  /\ task[i] \in {"busy", "ambiguous"}

ShouldRetry(i) ==
  /\ attempts[i] < MaxAutomaticAttempts
  /\ task[i] = "busy" \/ (idem[i] /\ task[i] = "ambiguous")

(* Mutant of FailureState: the uncertain branch is missing. *)
NeverUncertain(i) == IF ShouldRetry(i) THEN "retrying" ELSE "failed"

(* Mutant of FailureState: a state the table's CHECK does not know. *)
UnknownState(i) == IF ShouldRetry(i) THEN "retry" ELSE "failed"

FailureState(i) ==
  IF ShouldRetry(i) THEN "retrying"
  ELSE IF task[i] = "ambiguous" /\ ~idem[i] THEN "uncertain"
  ELSE "failed"

(* Both UPDATEs are guarded by state = 'sending'; they match nothing when  *)
(* the row was deleted meanwhile.                                          *)
MarkSucceeded(i) ==
  /\ Step(i, "ok", "none")
  /\ IF state[i] = "sending"
       THEN /\ state' = [state EXCEPT ![i] = "succeeded"]
            /\ unsure' = [unsure EXCEPT ![i] = FALSE]
       ELSE UNCHANGED <<state, unsure>>
  /\ UNCHANGED <<attempts, due, createdAt, rowid, jumped, idem,
                 authVars, bootVars, provider, usage>>

MarkFailure(i) ==
  /\ \E c \in ErrorClasses : Step(i, c, "none")
  /\ IF state[i] = "sending"
       THEN /\ state' = [state EXCEPT ![i] = FailureState(i)]
            /\ unsure' = [unsure EXCEPT ![i] = FailureState(i) = "uncertain"]
            /\ due' = [due EXCEPT ![i] = FailureState(i) # "retrying"]
       ELSE UNCHANGED <<state, unsure, due>>
  /\ UNCHANGED <<attempts, createdAt, rowid, jumped, idem,
                 authVars, bootVars, provider, usage>>

(* The write fails and is only logged: no task owns the 'sending' row now. *)
MarkLost(i) ==
  /\ \E r \in ErrorClasses \cup {"ok"} : Step(i, r, "none")
  /\ UNCHANGED <<idem, rowVars, authVars, bootVars, provider, usage>>

-----------------------------------------------------------------------------
(* Accounts and process life.                                              *)

(* logout_account: the login row goes in one transaction, its outbox rows  *)
(* by ON DELETE CASCADE whatever their state ...                           *)
LogoutDeletesRows(a) ==
  /\ Up
  /\ login[a]
  /\ login' = [login EXCEPT ![a] = FALSE]
  /\ state' = [i \in Items |->
                 IF AcctOf[i] = a /\ state[i] \in Stored THEN "deleted" ELSE state[i]]
  /\ UNCHANGED <<attempts, unsure, due, createdAt, rowid, jumped,
                 session, taskVars, bootVars, provider, usage>>

(* ... and the session is removed afterwards. *)
LogoutRemovesSession(a) ==
  /\ session[a] /\ ~login[a]
  /\ session' = [session EXCEPT ![a] = FALSE]
  /\ UNCHANGED <<login, rowVars, taskVars, bootVars, provider, usage>>

(* A login persists the row first and adds the session last. *)
LoginPersists(a) ==
  /\ Up
  /\ ~login[a] /\ ~session[a]
  /\ login' = [login EXCEPT ![a] = TRUE]
  /\ UNCHANGED <<session, rowVars, taskVars, bootVars, provider, usage>>

LoginAddsSession(a) ==
  /\ Up
  /\ login[a] /\ ~session[a]
  /\ session' = [session EXCEPT ![a] = TRUE]
  /\ UNCHANGED <<login, rowVars, taskVars, bootVars, provider, usage>>

(* Exit or crash: every delivery is aborted where it stands, and requests  *)
(* already sent go on without it.                                          *)
Stop ==
  /\ Up
  /\ stops < MaxStops
  /\ stops' = stops + 1
  /\ worker' = "down"
  /\ resume' = {}
  /\ session' = [a \in Accts |-> FALSE]
  /\ task' = [i \in Items |-> "none"]
  /\ late' = [i \in Items |-> IF task[i] = "sent" THEN late[i] + 1 ELSE late[i]]
  /\ lateDelete' = [i \in Items |-> lateDelete[i] \/ task[i] = "deleting"]
  /\ UNCHANGED <<idem, rowVars, login, copies, seen, gone, risky, retries>>

(* Sessions are restored from the login rows; some may fail to. *)
Start ==
  /\ worker = "down"
  /\ worker' = "recover"
  /\ session' \in {s \in [Accts -> BOOLEAN] : \A a \in Accts : s[a] => login[a]}
  /\ UNCHANGED <<resume, login, rowVars, taskVars, provider, usage>>

-----------------------------------------------------------------------------
Deliver(i) ==
  \/ ReadSessionKind(i) \/ FailBeforeSend(i) \/ Send(i)
  \/ ResponseArrives(i) \/ SaveEdit(i)
  \/ MarkSucceeded(i) \/ MarkFailure(i) \/ MarkLost(i)

Provider(i) ==
  \/ ProviderExecutes(i) \/ ProviderDeletesNote(i) \/ ProviderRefuses(i)
  \/ RequestTimesOut(i) \/ LateExecutes(i) \/ LateDeletesNote(i)

Next ==
  \/ \E i \in Items :
       \/ \E now \in Stamps : Enqueue(i, now)
       \/ Retry(i) \/ Cancel(i)
       \/ ResumeOne(i) \/ ClaimNext(i) \/ DelayElapses(i)
       \/ Deliver(i) \/ Provider(i)
  \/ \E a \in Accts : \/ LogoutDeletesRows(a) \/ LogoutRemovesSession(a)
                     \/ LoginPersists(a) \/ LoginAddsSession(a)
  \/ RecoverInterrupted \/ ListInterrupted \/ StartLoop \/ Stop \/ Start

Spec == Init /\ [][Next]_vars

(* What the code keeps doing while the process is up: the worker loop is   *)
(* woken by notify, by a finished delivery and at least every 5 seconds;   *)
(* every HTTP request has a timeout; tokio runs every spawned delivery.    *)
(* Nothing is assumed of the provider, of the user, or of restarts.        *)
Fairness ==
  /\ WF_vars(RecoverInterrupted)
  /\ WF_vars(ListInterrupted)
  /\ WF_vars(StartLoop)
  /\ WF_vars(\E i \in Items : ClaimNext(i))
  /\ \A i \in Items : /\ WF_vars(ResumeOne(i))
                      /\ WF_vars(DelayElapses(i))
                      /\ WF_vars(Deliver(i))
                      /\ WF_vars(RequestTimesOut(i))

FairSpec == Spec /\ Fairness

-----------------------------------------------------------------------------
(* Properties.                                                             *)

(* Rows, tasks, accounts and the worker only take the values the code and  *)
(* the table's CHECK constraints know.                                     *)
TypeOK ==
  /\ state \in [Items -> RowStates]
  /\ attempts \in [Items -> Nat]
  /\ unsure \in [Items -> BOOLEAN]
  /\ due \in [Items -> BOOLEAN]
  /\ createdAt \in [Items -> Nat]
  /\ rowid \in [Items -> Nat]
  /\ jumped \in [Items -> BOOLEAN]
  /\ task \in [Items -> TaskSteps]
  /\ idem \in [Items -> BOOLEAN]
  /\ login \in [Accts -> BOOLEAN]
  /\ session \in [Accts -> BOOLEAN]
  /\ worker \in {"down", "recover", "list", "resume", "run"}
  /\ resume \subseteq Items
  /\ copies \in [Items -> Nat]
  /\ late \in [Items -> Nat]
  /\ seen \subseteq Items
  /\ gone \in [Items -> BOOLEAN]
  /\ lateDelete \in [Items -> BOOLEAN]
  /\ risky \in [Items -> Nat]
  /\ retries \in Nat
  /\ stops \in Nat

(* Copies of a post that exist, or still may come to exist without the     *)
(* outbox doing anything more.                                             *)
Exposure(i) == copies[i] + late[i] + (IF task[i] = "sent" THEN 1 ELSE 0)

UnkeyedPost(i) == KindOf[i] = "post" /\ ~Keyed(i)

(* On a provider without idempotency keys, timeouts, crashes between the   *)
(* provider's acceptance and the write-back, lost write-backs and          *)
(* automatic retries never produce a second copy of a post: a further copy *)
(* takes a user retry of a row that was shown as delivery_uncertain.       *)
AtMostOncePerDecision ==
  \A i \in Items : UnkeyedPost(i) => Exposure(i) <= 1 + risky[i]

(* 'failed' is only reported when it is true: on a provider without keys   *)
(* a post in state 'failed' was not published, and no abandoned request    *)
(* can still publish it, unless the user retried an uncertain row.         *)
FailedMeansUnpublished ==
  \A i \in Items : UnkeyedPost(i) /\ state[i] = "failed" /\ risky[i] = 0
                     => Exposure(i) = 0

(* Every attempt of a post carries the same key, so a provider that        *)
(* honours keys publishes it once however often the outbox, the start-up   *)
(* resume and the user send it.                                            *)
KeyedPostPublishedOnce ==
  \A i \in Items : KindOf[i] = "post" /\ Keyed(i) => copies[i] <= 1

(* A row is only reported 'succeeded' when the provider executed it; for a *)
(* Misskey edit this also says the note was created again.                 *)
SucceededMeansExecuted ==
  \A i \in Items : state[i] = "succeeded" => copies[i] > 0

(* Misskey edits delete before they create.  A repeated attempt finds the  *)
(* note gone and stops, so the replacement is never created twice.         *)
NoteRecreatedOnce ==
  \A i \in Items : RecreatesNote(i) => Exposure(i) <= 1

(* A delivery in progress owns its row: until it has written its result    *)
(* the row is 'sending' (or was deleted by a logout), so no user command,  *)
(* no start-up recovery and no second claim can touch the row or start     *)
(* another delivery of the item.                                           *)
DeliveryOwnsRow ==
  \A i \in Items :
    task[i] # "none" => worker = "run" /\ state[i] \in {"sending", "deleted"}

(* The inductive strengthening of AtMostOncePerDecision and                *)
(* FailedMeansUnpublished: while an item can be sent again without a new   *)
(* decision of the user, the decisions already taken cover every copy      *)
(* there is or may be.                                                     *)
Resendable(i) ==
  \/ state[i] \in {"none", "queued", "retrying", "failed"}
  \/ state[i] = "cancelled" /\ ~unsure[i]
  \/ task[i] \in {"claimed", "ready", "busy", "final"}

ItemInv(i) ==
  /\ task[i] # "none" => worker = "run" /\ state[i] \in {"sending", "deleted"}
  /\ idem[i] => Keyed(i)
  /\ state[i] = "uncertain" => unsure[i]
  /\ KindOf[i] = "post" => task[i] \notin {"deleting", "saving"}
  /\ UnkeyedPost(i) => Exposure(i) <= 1 + risky[i]
  /\ UnkeyedPost(i) /\ Resendable(i) => Exposure(i) <= risky[i]

ExposureInv == \A i \in Items : ItemInv(i)

(* Deliveries of one account are serialised in creation order: a row can   *)
(* only be pending while a younger one is being sent if it was re-queued   *)
(* after a result, or inserted with a clock that had been set back.        *)
FifoPerAccount ==
  \A i, j \in Items :
    Older(i, j) /\ state[j] = "sending" /\ state[i] \in Pending => jumped[i]

(* The worker never runs more deliveries than its limit, restarts and      *)
(* logouts included.                                                       *)
BoundedConcurrency == Cardinality(Live) <= MaxConcurrentDeliveries

(* A row that was cancelled is not sent again unless the user retries it.  *)
CancelledStaysCancelled ==
  [][\A i \in Items :
       state[i] = "cancelled" /\ state'[i] = "queued" => retries' > retries]_vars

(* A mutation the provider may already have executed is sent again without *)
(* the user only where the provider honours keys.                          *)
NoBlindResend ==
  [][\A i \in Items :
       task[i] = "ready" /\ task'[i] \in {"sent", "deleting"} /\ ~Keyed(i)
         => copies[i] + late[i] <= risky[i]]_vars

(* A 'sending' row without a delivery: its write-back failed.              *)
Orphaned(i) == state[i] = "sending" /\ task[i] = "none"

(* Every queued row is delivered, given up or withdrawn: while the process *)
(* stays up, a row leaves the queue unless it, or an older row of the same *)
(* account, is a 'sending' row that no delivery owns any more (its         *)
(* write-back failed); only the next start releases such a row.            *)
EveryRowSettles ==
  \A i \in Items :
    state[i] \in {"queued", "retrying"} ~>
      \/ state[i] \notin Pending
      \/ worker = "down"
      \/ \E j \in Items : Orphaned(j) /\ (j = i \/ Older(j, i))

=============================================================================
