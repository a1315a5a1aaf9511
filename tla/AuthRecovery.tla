---------------------------- MODULE AuthRecovery ----------------------------
(***************************************************************************)
(* The credentials of one Bluesky account: requests that meet a 401 and    *)
(* rotate the refresh token (bluesky/client.rs, api/ports.rs), the sink    *)
(* that writes the rotated session to SQLite (auth/credential_store.rs),   *)
(* and the login, logout and start-up restore that replace it              *)
(* (application/auth.rs, account.rs, desktop.rs, runtime.rs).              *)
(*                                                                         *)
(* A login or a restore creates a client; requests keep the client they    *)
(* started with.  A session is the number of the refresh token it holds:   *)
(* the provider issues tokens 1, 2, ... and accepts each of them once.     *)
(* The `operations` mutex covers every statement on the account row and    *)
(* every change of the account generation, so it is the atomicity of those *)
(* actions; the gate and credential_persist are held across awaits and are *)
(* modelled as locks.                                                      *)
(***************************************************************************)
EXTENDS Integers, FiniteSets

CONSTANTS Requests,     \* request slots
          NoOne,        \* the holder of a free mutex
          MaxClients,   \* bound: logins and restores
          MaxTokens,    \* bound: refresh tokens the provider issues
          MaxCalls,     \* bound: requests made
          MaxLogouts,   \* bound: logout commands
          HasPassword   \* the row carries an app password

ASSUME AuthAssumption ==
    /\ {MaxClients, MaxTokens, MaxCalls, MaxLogouts} \subseteq Nat
    /\ HasPassword \in BOOLEAN
    /\ NoOne \notin Requests

VARIABLES
    row,         \* the login_accounts row, or NoRow
    account,     \* account_generations of the CredentialStore
    session,     \* the client in the SessionManager, 0 when there is none
    clients,     \* how many clients were created
    agent,       \* client -> the agent's session, 0 when it was cleared
    snapshot,    \* client -> the access_token snapshot
    sink,        \* client -> expected_generation of its sink, or NoSink
    gate,        \* client -> its AuthRecoveryGate
    persisting,  \* client -> holder of credential_persist
    req,         \* request slot -> its call
    login,       \* the login command
    logout,      \* the logout command
    issued,      \* provider: tokens issued so far
    live,        \* provider: refresh tokens it still accepts
    calls,       \* requests made so far
    logouts      \* logout commands so far

clientVars == <<clients, agent, snapshot, sink, gate, persisting>>
provider == <<issued, live>>
store == <<row, account>>
commands == <<session, login, logout, logouts>>
vars == <<store, commands, clientVars, provider, req, calls>>

Clients == 1..MaxClients
Tokens == 1..MaxTokens
NoSink == -1
NoRow == [owner |-> 0, by |-> 0, token |-> 0, half |-> FALSE]

\* No call in the slot, or one that returned Ok.
Idle == {"idle", "done"}
\* Inside AuthRecoveryGate::run, holding its mutex.
Rotating == {"refresh", "rotated", "resume", "reauth"}
\* Inside refresh_token; the last two hold credential_persist.
Saving == {"token", "sink", "stored"}

\* A call: the client it uses, the gate generation it observed, the session
\* it is rotating or saving, why refresh_token was called ("ok" or "err" after
\* an operation, "rec" from a recovery) and the session it succeeded with.
Call == [pc : Idle \union Rotating \union Saving \union {"call", "gate", "recall"},
         client : 0..MaxClients, seen : Nat, token : 0..MaxTokens,
         why : {"ok", "err", "rec"}, used : 0..MaxTokens]

IdleCall == [pc |-> "idle", client |-> 0, seen |-> 0, token |-> 0, why |-> "ok", used |-> 0]

NoCommand == [pc |-> "idle", client |-> 0]

FreshGate == [gen |-> 0, lastGen |-> 0, outcome |-> "none", lock |-> NoOne]

\* r holds the gate's mutex: recover() is running for it.
Recovering(r) ==
    \/ req[r].pc \in Rotating
    \/ req[r].pc \in Saving /\ req[r].why = "rec"

-----------------------------------------------------------------------------
(***************************************************************************)
(* How a request moves.                                                    *)
(***************************************************************************)

Put(r, call) == req' = [req EXCEPT ![r] = call]

Goto(r, pc) == Put(r, [req[r] EXCEPT !.pc = pc])

\* The call returns, and its locals with it; of an Ok the client and the
\* session are remembered.
Return(r, ok) ==
    Put(r, IF ok THEN [IdleCall EXCEPT !.pc = "done", !.client = req[r].client,
                                       !.used = req[r].used]
           ELSE IdleCall)

\* The operation is sent again after a successful recovery.
Again(r) == Put(r, [IdleCall EXCEPT !.pc = "recall", !.client = req[r].client])

\* AuthRecoveryGate::run after recover(): publish the outcome under the next
\* generation and release the gate; a failed exchange means logged out.
Settle(r, outcome) ==
    LET g == gate[req[r].client]
        mine == g.gen = req[r].seen
    IN  /\ gate' = [gate EXCEPT ![req[r].client] =
                      IF mine THEN [gen |-> g.gen + 1, lastGen |-> g.gen + 1,
                                    outcome |-> outcome, lock |-> NoOne]
                      ELSE [g EXCEPT !.lock = NoOne]]
        /\ IF mine /\ outcome = "success" THEN Again(r) ELSE Return(r, FALSE)

\* What follows refresh_token, by where it was called from.
AfterSave(r, saved) ==
    IF req[r].why = "rec"
    THEN Settle(r, IF saved THEN "success" ELSE "failed")
    ELSE /\ Return(r, saved /\ req[r].why = "ok")
         /\ UNCHANGED gate

-----------------------------------------------------------------------------
(***************************************************************************)
(* Requests: with_auth_retry around one operation.                         *)
(***************************************************************************)

\* A caller clones the account's session and sends its operation.
Start(r) ==
    /\ req[r].pc \in Idle
    /\ session # 0
    /\ calls < MaxCalls
    /\ calls' = calls + 1
    /\ Put(r, [IdleCall EXCEPT !.pc = "call", !.client = session])
    /\ UNCHANGED <<store, commands, clientVars, provider>>

\* The operation succeeds: refresh_token, then Ok.
Succeed(r) ==
    /\ req[r].pc \in {"call", "recall"}
    /\ Put(r, [req[r] EXCEPT !.pc = "token", !.why = "ok", !.used = agent[req[r].client]])
    /\ UNCHANGED <<store, commands, clientVars, provider, calls>>

\* The first operation is answered with 401: the request joins the recovery
\* of the generation it observes.
Unauthorized(r) ==
    /\ req[r].pc = "call"
    /\ Put(r, [req[r] EXCEPT !.pc = "gate", !.seen = gate[req[r].client].gen])
    /\ UNCHANGED <<store, commands, clientVars, provider, calls>>

\* The first operation fails otherwise: refresh_token, then the error.
Fail(r) ==
    /\ req[r].pc = "call"
    /\ Put(r, [req[r] EXCEPT !.pc = "token", !.why = "err"])
    /\ UNCHANGED <<store, commands, clientVars, provider, calls>>

\* The operation repeated after a recovery fails.
FailAgain(r) ==
    /\ req[r].pc = "recall"
    /\ Return(r, FALSE)
    /\ UNCHANGED <<store, commands, clientVars, provider, calls>>

\* External: the agent's middleware meets ExpiredToken during an operation and
\* refreshes its session by itself.
SilentRefresh(r) ==
    LET c == req[r].client IN
    /\ req[r].pc \in {"call", "recall"}
    /\ agent[c] \in live
    /\ issued < MaxTokens
    /\ issued' = issued + 1
    /\ live' = (live \ {agent[c]}) \union {issued + 1}
    /\ agent' = [agent EXCEPT ![c] = issued + 1]
    /\ UNCHANGED <<store, commands, clients, snapshot, sink, gate, persisting, req, calls>>

\* Mutant of Abort: the gate stays locked.
AbortLocked(r) ==
    LET c == req[r].client IN
    /\ req[r].pc \notin Idle
    /\ persisting' = IF persisting[c] = r THEN [persisting EXCEPT ![c] = NoOne] ELSE persisting
    /\ Put(r, IdleCall)
    /\ UNCHANGED <<store, commands, clients, agent, snapshot, sink, gate, provider, calls>>

\* The future of a request is dropped (restart_streaming aborts the polls):
\* its guards are released, the gate keeps its generation.
Abort(r) ==
    LET c == req[r].client IN
    /\ req[r].pc \notin Idle
    /\ gate' = IF gate[c].lock = r
               THEN [gate EXCEPT ![c] = [gate[c] EXCEPT !.lock = NoOne]] ELSE gate
    /\ persisting' = IF persisting[c] = r THEN [persisting EXCEPT ![c] = NoOne] ELSE persisting
    /\ Put(r, IdleCall)
    /\ UNCHANGED <<store, commands, clients, agent, snapshot, sink, provider, calls>>

-----------------------------------------------------------------------------
(***************************************************************************)
(* Recovery: AuthRecoveryGate::run around recover_authentication.          *)
(***************************************************************************)

\* Mutant of Enter: the generation is not read again under the mutex.
EnterUnchecked(r) ==
    LET c == req[r].client IN
    /\ req[r].pc = "gate"
    /\ gate[c].lock = NoOne
    /\ Put(r, [req[r] EXCEPT !.pc = IF agent[c] # 0 THEN "refresh" ELSE "reauth",
                             !.token = agent[c]])
    /\ gate' = [gate EXCEPT ![c] = [gate[c] EXCEPT !.lock = r]]
    /\ UNCHANGED <<store, commands, clients, agent, snapshot, sink, persisting, provider, calls>>

\* The gate's mutex is obtained.  When the generation moved on, the published
\* outcome is shared; a generation invalidated by logout has none.
Enter(r) ==
    LET c == req[r].client
        g == gate[c]
    IN
    /\ req[r].pc = "gate"
    /\ g.lock = NoOne
    /\ IF g.gen # req[r].seen
       THEN /\ IF g.lastGen = g.gen /\ g.outcome = "success"
               THEN Again(r) ELSE Return(r, FALSE)
            /\ UNCHANGED gate
       ELSE /\ Put(r, [req[r] EXCEPT !.pc = IF agent[c] # 0 THEN "refresh" ELSE "reauth",
                                     !.token = agent[c]])
            /\ gate' = [gate EXCEPT ![c] = [gate[c] EXCEPT !.lock = r]]
    /\ UNCHANGED <<store, commands, clients, agent, snapshot, sink, persisting, provider, calls>>

\* manual_refresh_session: the provider executes refreshSession.
Rotate(r) ==
    /\ req[r].pc = "refresh"
    /\ req[r].token \in live
    /\ issued < MaxTokens
    /\ issued' = issued + 1
    /\ live' = (live \ {req[r].token}) \union {issued + 1}
    /\ Put(r, [req[r] EXCEPT !.pc = "rotated", !.token = issued + 1])
    /\ UNCHANGED <<store, commands, clientVars, calls>>

\* refreshSession is answered with a 4xx: reauthenticate with the app
\* password, or give up as unauthorized when there is none.
Refuse(r) ==
    /\ req[r].pc = "refresh"
    /\ live' = live \ {req[r].token}
    /\ IF HasPassword
       THEN Goto(r, "reauth") /\ UNCHANGED gate
       ELSE Settle(r, "unauthorized")
    /\ UNCHANGED <<store, commands, clients, agent, snapshot, sink, persisting, issued, calls>>

\* The answer of refreshSession is lost or a 5xx, executed or not.
LoseRefresh(r) ==
    /\ req[r].pc \in {"refresh", "rotated"}
    /\ Settle(r, "failed")
    /\ UNCHANGED <<store, commands, clients, agent, snapshot, sink, persisting, provider, calls>>

\* resume_session stores the rotated session in the agent and asks getSession.
Resume(r) ==
    /\ req[r].pc = "rotated"
    /\ agent' = [agent EXCEPT ![req[r].client] = req[r].token]
    /\ Goto(r, "resume")
    /\ UNCHANGED <<store, commands, clients, snapshot, sink, gate, persisting, provider, calls>>

\* getSession succeeded: refresh_token writes the session.
Resumed(r) ==
    /\ req[r].pc = "resume"
    /\ Put(r, [req[r] EXCEPT !.pc = "token", !.why = "rec"])
    /\ UNCHANGED <<store, commands, clientVars, provider, calls>>

\* getSession failed: the agent clears its session.
ResumeFailed(r) ==
    /\ req[r].pc = "resume"
    /\ agent' = [agent EXCEPT ![req[r].client] = 0]
    /\ Settle(r, "failed")
    /\ UNCHANGED <<store, commands, clients, snapshot, sink, persisting, provider, calls>>

\* reauthenticate_with_app_password: createSession opens a new token family.
Reauthenticate(r) ==
    /\ req[r].pc = "reauth"
    /\ HasPassword
    /\ issued < MaxTokens
    /\ issued' = issued + 1
    /\ live' = live \union {issued + 1}
    /\ agent' = [agent EXCEPT ![req[r].client] = issued + 1]
    /\ Put(r, [req[r] EXCEPT !.pc = "token", !.why = "rec"])
    /\ UNCHANGED <<store, commands, clients, snapshot, sink, gate, persisting, calls>>

\* createSession is refused, or there is no app password.
ReauthFailed(r) ==
    /\ req[r].pc = "reauth"
    /\ Settle(r, IF HasPassword THEN "failed" ELSE "unauthorized")
    /\ UNCHANGED <<store, commands, clients, agent, snapshot, sink, persisting, provider, calls>>

-----------------------------------------------------------------------------
(***************************************************************************)
(* refresh_token and the credential sink.                                  *)
(***************************************************************************)

\* Mutant of ReadSession: the snapshot is updated before the sink is called.
ReadSessionEarly(r) ==
    LET c == req[r].client IN
    /\ req[r].pc = "token"
    /\ persisting[c] = NoOne
    /\ IF agent[c] \in {0, snapshot[c]}
       THEN AfterSave(r, agent[c] # 0) /\ UNCHANGED <<persisting, snapshot>>
       ELSE /\ persisting' = [persisting EXCEPT ![c] = r]
            /\ snapshot' = [snapshot EXCEPT ![c] = agent[c]]
            /\ Put(r, [req[r] EXCEPT !.pc = "sink", !.token = agent[c]])
            /\ UNCHANGED gate
    /\ UNCHANGED <<store, commands, clients, agent, sink, provider, calls>>

\* Mutant of ReadSession: credential_persist is not taken.
ReadSessionUnlocked(r) ==
    LET c == req[r].client IN
    /\ req[r].pc = "token"
    /\ IF agent[c] \in {0, snapshot[c]}
       THEN AfterSave(r, agent[c] # 0)
       ELSE /\ Put(r, [req[r] EXCEPT !.pc = "sink", !.token = agent[c]])
            /\ UNCHANGED gate
    /\ UNCHANGED <<store, commands, clients, agent, snapshot, sink, persisting, provider, calls>>

\* credential_persist is obtained and the agent's session read.  No session
\* is an error, the session of the snapshot needs no write.
ReadSession(r) ==
    LET c == req[r].client IN
    /\ req[r].pc = "token"
    /\ persisting[c] = NoOne
    /\ IF agent[c] \in {0, snapshot[c]}
       THEN AfterSave(r, agent[c] # 0) /\ UNCHANGED persisting
       ELSE /\ persisting' = [persisting EXCEPT ![c] = r]
            /\ Put(r, [req[r] EXCEPT !.pc = "sink", !.token = agent[c]])
            /\ UNCHANGED gate
    /\ UNCHANGED <<store, commands, clients, agent, snapshot, sink, provider, calls>>

\* Mutant of SinkWrite: the generation is not compared.
SinkWriteStale(r) ==
    LET c == req[r].client IN
    /\ req[r].pc = "sink"
    /\ row # NoRow
    /\ row' = [owner |-> row.owner, by |-> c, token |-> req[r].token, half |-> row.half]
    /\ Goto(r, "stored")
    /\ UNCHANGED <<account, commands, clientVars, provider, calls>>

\* update_for_account_generation writes the row of its own generation.
SinkWrite(r) ==
    LET c == req[r].client IN
    /\ req[r].pc = "sink"
    /\ sink[c] = account
    /\ row # NoRow
    /\ row' = [owner |-> row.owner, by |-> c, token |-> req[r].token, half |-> row.half]
    /\ Goto(r, "stored")
    /\ UNCHANGED <<account, commands, clientVars, provider, calls>>

\* Mutant of SinkFailed: an early return keeps credential_persist.
SinkFailedLocked(r) ==
    /\ req[r].pc = "sink"
    /\ AfterSave(r, FALSE)
    /\ UNCHANGED <<store, commands, clients, agent, snapshot, sink, persisting, provider, calls>>

\* StaleLoginGeneration, RowNotFound or a database error: the snapshot stays.
SinkFailed(r) ==
    /\ req[r].pc = "sink"
    /\ persisting' = [persisting EXCEPT ![req[r].client] = NoOne]
    /\ AfterSave(r, FALSE)
    /\ UNCHANGED <<store, commands, clients, agent, snapshot, sink, provider, calls>>

\* The sink's future completed: the snapshot follows.
SinkDone(r) ==
    LET c == req[r].client IN
    /\ req[r].pc = "stored"
    /\ snapshot' = [snapshot EXCEPT ![c] = req[r].token]
    /\ persisting' = [persisting EXCEPT ![c] = NoOne]
    /\ AfterSave(r, TRUE)
    /\ UNCHANGED <<store, commands, clients, agent, sink, provider, calls>>

-----------------------------------------------------------------------------
(***************************************************************************)
(* Login, logout, restart.                                                 *)
(***************************************************************************)

\* A login cancels the one in progress and authenticates with the provider: a
\* client with the session createSession opened, no sink yet.  Between
\* persist_login_account and bluesky_sink there is no await to cancel at.
LoginBegin ==
    /\ login.pc # "arm"
    /\ clients < MaxClients
    /\ issued < MaxTokens
    /\ issued' = issued + 1
    /\ live' = live \union {issued + 1}
    /\ clients' = clients + 1
    /\ agent' = [agent EXCEPT ![clients + 1] = issued + 1]
    /\ snapshot' = [snapshot EXCEPT ![clients + 1] = issued + 1]
    /\ login' = [pc |-> "persist", client |-> clients + 1]
    /\ UNCHANGED <<store, session, logout, logouts, sink, gate, persisting, req, calls>>

\* persist_login_account: the row is replaced and the generation advances.
LoginPersist ==
    /\ login.pc = "persist"
    /\ row' = [owner |-> login.client, by |-> login.client,
               token |-> agent[login.client], half |-> FALSE]
    /\ account' = account + 1
    /\ login' = [login EXCEPT !.pc = "arm"]
    /\ UNCHANGED <<session, logout, logouts, clientVars, provider, req, calls>>

\* The login is cancelled while its transaction commits: SQLite has the row,
\* advance_generation is never reached.
LoginHalf ==
    /\ login.pc = "persist"
    /\ row' = [owner |-> login.client, by |-> login.client,
               token |-> agent[login.client], half |-> TRUE]
    /\ login' = NoCommand
    /\ UNCHANGED <<account, session, logout, logouts, clientVars, provider, req, calls>>

\* bluesky_sink takes the generation of this moment.
LoginArm ==
    /\ login.pc = "arm"
    /\ sink' = [sink EXCEPT ![login.client] = account]
    /\ login' = [login EXCEPT !.pc = "add"]
    /\ UNCHANGED <<store, session, logout, logouts, clients, agent, snapshot, gate, persisting,
                   provider, req, calls>>

\* The new session replaces the account's entry in the SessionManager.
LoginAdd ==
    /\ login.pc = "add"
    /\ session' = login.client
    /\ login' = NoCommand
    /\ UNCHANGED <<store, logout, logouts, clientVars, provider, req, calls>>

\* Cancelled at another await, or the transaction or metadata write failed.
LoginStop ==
    /\ login.pc \in {"persist", "add"}
    /\ login' = NoCommand
    /\ UNCHANGED <<store, session, logout, logouts, clientVars, provider, req, calls>>

\* logout_account looks up the session.
LogoutBegin ==
    /\ logout.pc = "idle"
    /\ logouts < MaxLogouts
    /\ logouts' = logouts + 1
    /\ logout' = [pc |-> IF session = 0 THEN "remove" ELSE "invalidate", client |-> session]
    /\ UNCHANGED <<store, session, login, clientVars, provider, req, calls>>

\* Mutant of LogoutInvalidate: the generation is moved backwards.
LogoutInvalidateBack ==
    /\ logout.pc = "invalidate"
    /\ gate[logout.client].lock = NoOne
    /\ gate' = [gate EXCEPT ![logout.client] =
                  [gen |-> gate[logout.client].gen - 1, lastGen |-> 0, outcome |-> "none",
                   lock |-> NoOne]]
    /\ logout' = [logout EXCEPT !.pc = "remove"]
    /\ UNCHANGED <<store, session, login, logouts, clients, agent, snapshot, sink, persisting,
                   provider, req, calls>>

\* invalidate_for_logout waits for the recovery in progress.
LogoutInvalidate ==
    /\ logout.pc = "invalidate"
    /\ gate[logout.client].lock = NoOne
    /\ gate' = [gate EXCEPT ![logout.client] =
                  [gen |-> gate[logout.client].gen + 1, lastGen |-> 0, outcome |-> "none",
                   lock |-> NoOne]]
    /\ logout' = [logout EXCEPT !.pc = "remove"]
    /\ UNCHANGED <<store, session, login, logouts, clients, agent, snapshot, sink, persisting,
                   provider, req, calls>>

\* remove_account_and_reassign deletes the row and advances the generation.
LogoutRemove ==
    /\ logout.pc = "remove"
    /\ row # NoRow
    /\ row' = NoRow
    /\ account' = account + 1
    /\ logout' = [logout EXCEPT !.pc = "drop"]
    /\ UNCHANGED <<session, login, logouts, clientVars, provider, req, calls>>

\* The row is missing or the transaction fails: the command ends here.
LogoutFailed ==
    /\ logout.pc = "remove"
    /\ logout' = NoCommand
    /\ UNCHANGED <<store, session, login, logouts, clientVars, provider, req, calls>>

\* remove_session drops whatever session the account has.
LogoutDrop ==
    /\ logout.pc = "drop"
    /\ session' = 0
    /\ logout' = NoCommand
    /\ UNCHANGED <<store, login, logouts, clientVars, provider, req, calls>>

\* Everything in memory is gone.
Forget ==
    /\ account' = 0
    /\ req' = [r \in Requests |-> IdleCall]
    /\ login' = NoCommand
    /\ logout' = NoCommand
    /\ gate' = [c \in Clients |-> FreshGate]
    /\ persisting' = [c \in Clients |-> NoOne]
    /\ UNCHANGED <<logouts, calls>>

\* from_stored resumes the row's session or opens another one, and start-up
\* writes it back before it arms the sink.
Restore ==
    LET c == clients + 1 IN
    /\ row # NoRow
    /\ clients < MaxClients
    /\ \E fresh \in BOOLEAN :
          LET t == IF fresh THEN issued + 1 ELSE row.token IN
          /\ fresh => issued < MaxTokens /\ (row.token \in live \/ HasPassword)
          /\ issued' = IF fresh THEN issued + 1 ELSE issued
          /\ live' = IF fresh THEN (live \ {row.token}) \union {t} ELSE live
          /\ row' = [owner |-> c, by |-> c, token |-> t, half |-> FALSE]
          /\ agent' = [d \in Clients |-> IF d = c THEN t ELSE 0]
          /\ snapshot' = agent'
    /\ clients' = c
    /\ session' = c
    /\ sink' = [d \in Clients |-> IF d = c THEN 0 ELSE NoSink]
    /\ Forget

\* The process starts without the account: no row, a session the provider
\* refuses, or a rotation whose result was not written back.
RestoreFailed ==
    /\ session' = 0
    /\ live' \in {live, live \ {row.token}}
    /\ sink' = [d \in Clients |-> NoSink]
    /\ agent' = [d \in Clients |-> 0]
    /\ snapshot' = agent'
    /\ UNCHANGED <<row, clients, issued>>
    /\ Forget

-----------------------------------------------------------------------------

Init ==
    /\ row = NoRow
    /\ account = 0
    /\ session = 0
    /\ clients = 0
    /\ agent = [c \in Clients |-> 0]
    /\ snapshot = [c \in Clients |-> 0]
    /\ sink = [c \in Clients |-> NoSink]
    /\ gate = [c \in Clients |-> FreshGate]
    /\ persisting = [c \in Clients |-> NoOne]
    /\ req = [r \in Requests |-> IdleCall]
    /\ login = NoCommand
    /\ logout = NoCommand
    /\ issued = 0
    /\ live = {}
    /\ calls = 0
    /\ logouts = 0

Request(r) ==
    \/ Start(r)
    \/ Succeed(r)
    \/ Unauthorized(r)
    \/ Fail(r)
    \/ FailAgain(r)
    \/ SilentRefresh(r)
    \/ Abort(r)

Recovery(r) ==
    \/ Enter(r)
    \/ Rotate(r)
    \/ Refuse(r)
    \/ LoseRefresh(r)
    \/ Resume(r)
    \/ Resumed(r)
    \/ ResumeFailed(r)
    \/ Reauthenticate(r)
    \/ ReauthFailed(r)

RefreshToken(r) ==
    \/ ReadSession(r)
    \/ SinkWrite(r)
    \/ SinkFailed(r)
    \/ SinkDone(r)

Login ==
    \/ LoginBegin
    \/ LoginPersist
    \/ LoginHalf
    \/ LoginArm
    \/ LoginAdd
    \/ LoginStop

Logout ==
    \/ LogoutBegin
    \/ LogoutInvalidate
    \/ LogoutRemove
    \/ LogoutFailed
    \/ LogoutDrop

Next ==
    \/ \E r \in Requests : Request(r) \/ Recovery(r) \/ RefreshToken(r)
    \/ Login
    \/ Logout
    \/ Restore
    \/ RestoreFailed

Spec == Init /\ [][Next]_vars

\* tokio polls every task that can run, its mutexes are handed over in the
\* order of arrival, and every HTTP request and statement ends (timeouts).
\* Nothing is assumed of the provider's answers, of users or of restarts.
Fairness ==
    /\ \A r \in Requests :
        /\ WF_vars(Succeed(r) \/ Unauthorized(r) \/ Fail(r) \/ FailAgain(r))
        /\ SF_vars(Enter(r))
        /\ WF_vars(Refuse(r) \/ LoseRefresh(r) \/ Resume(r) \/ Resumed(r) \/ ResumeFailed(r)
                   \/ ReauthFailed(r))
        /\ SF_vars(ReadSession(r))
        /\ WF_vars(SinkWrite(r) \/ SinkFailed(r) \/ SinkDone(r))
    /\ SF_vars(LogoutInvalidate)
    /\ WF_vars(LogoutRemove \/ LogoutFailed \/ LogoutDrop)

FairSpec == Spec /\ Fairness

-----------------------------------------------------------------------------
(***************************************************************************)
(* Properties.                                                             *)
(***************************************************************************)

\* The gate, the snapshot, the row and every call have their types.
TypeOK ==
    /\ row \in [owner : 0..MaxClients, by : 0..MaxClients, token : 0..MaxTokens, half : BOOLEAN]
    /\ account \in Nat
    /\ session \in 0..MaxClients
    /\ clients \in 0..MaxClients
    /\ agent \in [Clients -> 0..MaxTokens]
    /\ snapshot \in [Clients -> 0..MaxTokens]
    /\ sink \in [Clients -> Nat \union {NoSink}]
    /\ gate \in [Clients -> [gen : Nat, lastGen : Nat, lock : Requests \union {NoOne},
                            outcome : {"none", "success", "unauthorized", "failed"}]]
    /\ persisting \in [Clients -> Requests \union {NoOne}]
    /\ req \in [Requests -> Call]
    /\ login \in [pc : {"idle", "persist", "arm", "add"}, client : 0..MaxClients]
    /\ logout \in [pc : {"idle", "invalidate", "remove", "drop"}, client : 0..MaxClients]
    /\ issued \in 0..MaxTokens
    /\ live \subseteq Tokens
    /\ calls \in 0..MaxCalls
    /\ logouts \in 0..MaxLogouts

\* "a stale refresh can never recreate credentials after logout has completed"
\* (bluesky/client.rs) and the test old_rotation_cannot_overwrite_credentials_
\* after_logout_and_relogin: the session in the row was written by the client
\* of the login or restore the row belongs to, however late a rotation of an
\* older client arrives.  The row of a login cancelled during its commit is
\* excepted: it belongs to no client that lives.
RotationStaysInItsLogin == ~row.half => row.by = row.owner

\* "queued 401 handlers must not each replay a failed rotation" (bluesky/
\* client.rs): of all requests of a client at most one is recovering, and only
\* for a generation whose outcome is not published yet, whatever aborts and
\* logouts come between.
SingleFlight ==
    \A r \in Requests : Recovering(r) =>
        /\ req[r].seen = gate[req[r].client].gen
        /\ \A s \in Requests \ {r} : Recovering(s) => req[s].client # req[r].client

\* "Refresh is not reported as successful until this future completes,
\* preventing a new refresh-token family from existing only in process memory"
\* (BlueskyCredentialSink): a request that returned Ok leaves in the row of its
\* login a session at least as new as the one it succeeded with.
SuccessIsDurable ==
    \A r \in Requests :
        req[r].pc = "done" /\ row.by = req[r].client => row.token >= req[r].used

\* Concurrent requests of a client save its sessions in the order the agent
\* obtained them (credential_persist): the row never returns to an older
\* refresh token, which the provider would refuse after a restart.
RowNeverGoesBack ==
    [][row # NoRow /\ row'.by = row.by => row'.token >= row.token]_vars

\* Every request returns: no order of recoveries, aborts, failed writes and
\* logouts leaves a gate or credential_persist held for ever.
RequestsReturn ==
    \A r \in Requests : (req[r].pc \notin Idle) ~> (req[r].pc \in Idle)

\* A logout that waits for a recovery in progress ends.
LogoutEnds == (logout.pc # "idle") ~> (logout.pc = "idle")
=============================================================================
