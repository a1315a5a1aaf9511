------------------------ MODULE AuthRecoveryProofs ------------------------
(***************************************************************************)
(* For any number of requests, logins, logouts, restarts and tokens: a     *)
(* rotation never writes the row of a login it does not belong to,         *)
(* recoveries of a client are single-flight, and what a request reported   *)
(* as its success is saved.                                                *)
(***************************************************************************)
EXTENDS AuthRecovery, TLAPS

(* Type correctness in three parts, with the clients that the calls and    *)
(* the commands in progress know.                                          *)
Gates == [gen : Nat, lastGen : Nat, lock : Requests \union {NoOne},
          outcome : {"none", "success", "unauthorized", "failed"}]

CallsOK ==
    /\ req \in [Requests -> Call]
    /\ \A r \in Requests : req[r].pc # "idle" => req[r].client # 0

GatesOK == gate \in [Clients -> Gates]

RestOK ==
    /\ row \in [owner : 0..MaxClients, by : 0..MaxClients, token : 0..MaxTokens, half : BOOLEAN]
    /\ account \in Nat
    /\ session \in 0..MaxClients
    /\ clients \in 0..MaxClients
    /\ agent \in [Clients -> 0..MaxTokens]
    /\ snapshot \in [Clients -> 0..MaxTokens]
    /\ sink \in [Clients -> Nat \union {NoSink}]
    /\ persisting \in [Clients -> Requests \union {NoOne}]
    /\ login \in [pc : {"idle", "persist", "arm", "add"}, client : 0..MaxClients]
    /\ login.pc # "idle" => login.client # 0
    /\ logout \in [pc : {"idle", "invalidate", "remove", "drop"}, client : 0..MaxClients]
    /\ logout.pc = "invalidate" => logout.client # 0
    /\ issued \in 0..MaxTokens
    /\ live \subseteq Tokens
    /\ calls \in 0..MaxCalls
    /\ logouts \in 0..MaxLogouts

TypeInv == CallsOK /\ GatesOK /\ RestOK

(* A sink is never armed for a generation to come; the sink of the current *)
(* generation belongs to the owner of the row; and a login about to arm    *)
(* its sink still owns the row, unless a logout removed it.                *)
SinkInv ==
    /\ \A c \in Clients : sink[c] <= account
    /\ row # NoRow /\ ~row.half => \A c \in Clients : sink[c] = account => c = row.owner
    /\ login.pc = "arm" => row = NoRow \/ row.owner = login.client

LoginInv == SinkInv /\ RotationStaysInItsLogin

(* The holder of the gate's mutex is the request that recovers, and nobody *)
(* moved the generation it observed.                                       *)
GateInv ==
    \A r \in Requests : Recovering(r) =>
        /\ gate[req[r].client].lock = r
        /\ req[r].seen = gate[req[r].client].gen

-----------------------------------------------------------------------------
(* Facts about calls and gates.                                            *)

(* The bounds are numbers.                                                 *)
LEMMA Bounds ==
    /\ MaxClients \in Nat /\ MaxTokens \in Nat /\ MaxCalls \in Nat /\ MaxLogouts \in Nat
    /\ 0 \in 0..MaxClients /\ 0 \in 0..MaxTokens
BY AuthAssumption

(* An empty slot is a call.                                                *)
LEMMA IdleIsCall == IdleCall \in Call /\ IdleCall.pc = "idle"
BY Bounds DEF IdleCall, Call, Idle, Rotating, Saving

(* Replacing one call keeps the types of all.                              *)
LEMMA PutTypes ==
    ASSUME NEW r \in Requests, NEW k \in Call, CallsOK, Put(r, k), k.pc # "idle" => k.client # 0
    PROVE  CallsOK'
BY DEF Put, CallsOK

(* A call in progress is a call of a client.                               *)
LEMMA CallFacts ==
    ASSUME NEW r \in Requests, TypeInv, req[r].pc # "idle"
    PROVE  /\ req[r] \in Call /\ req[r].client \in Clients /\ req[r].client # 0
           /\ agent[req[r].client] \in 0..MaxTokens
           /\ gate[req[r].client] \in Gates
BY DEF TypeInv, CallsOK, GatesOK, RestOK, Call, Clients

(* A call that returns or is repeated leaves calls.                        *)
LEMMA ReturnTypes ==
    ASSUME NEW r \in Requests, TypeInv, req[r].pc # "idle",
           Again(r) \/ \E ok \in BOOLEAN : Return(r, ok)
    PROVE  CallsOK'
<1> DEFINE c == req[r].client
           again == [IdleCall EXCEPT !.pc = "recall", !.client = c]
           done == [IdleCall EXCEPT !.pc = "done", !.client = c, !.used = req[r].used]
<1>1. c \in Clients /\ req[r] \in Call
  BY CallFacts
<1>2. again \in Call /\ again.client = c
  BY <1>1, IdleIsCall DEF Call, Clients
<1>3. done \in Call /\ done.client = c
  BY <1>1, IdleIsCall DEF Call, Clients, Idle
<1>4. c # 0
  BY <1>1, Bounds DEF Clients
<1>5. CASE Again(r)
  <2>1. Put(r, again)
    BY <1>5 DEF Again
  <2> QED
    BY <2>1, <1>2, <1>4, PutTypes DEF TypeInv
<1>6. CASE \E ok \in BOOLEAN : Return(r, ok)
  <2>1. Put(r, done) \/ Put(r, IdleCall)
    BY <1>6 DEF Return
  <2> QED
    BY <2>1, <1>3, <1>4, IdleIsCall, PutTypes DEF TypeInv
<1> QED
  BY <1>5, <1>6

(* Publishing an outcome keeps the types, releases the gate and advances   *)
(* the generation of one client.                                           *)
LEMMA SettleTypes ==
    ASSUME NEW r \in Requests, NEW o \in {"success", "unauthorized", "failed"}, TypeInv,
           req[r].pc # "idle", Settle(r, o)
    PROVE  CallsOK' /\ GatesOK'
<1> DEFINE c == req[r].client
           g == gate[c]
<1>1. c \in Clients /\ g \in Gates
  BY CallFacts
<1>2. [gen |-> g.gen + 1, lastGen |-> g.gen + 1, outcome |-> o, lock |-> NoOne] \in Gates
  BY <1>1 DEF Gates
<1>3. [g EXCEPT !.lock = NoOne] \in Gates
  BY <1>1 DEF Gates
<1>4. GatesOK'
  BY <1>1, <1>2, <1>3 DEF Settle, GatesOK, TypeInv
<1>5. Again(r) \/ Return(r, FALSE)
  BY DEF Settle
<1>6. CallsOK'
  BY <1>5, ReturnTypes
<1> QED
  BY <1>4, <1>6

(* What follows refresh_token keeps the types.                             *)
LEMMA AfterSaveTypes ==
    ASSUME NEW r \in Requests, NEW saved \in BOOLEAN, TypeInv, req[r].pc # "idle",
           AfterSave(r, saved)
    PROVE  CallsOK' /\ GatesOK'
<1>1. CASE req[r].why = "rec"
  BY <1>1, SettleTypes DEF AfterSave
<1>2. CASE req[r].why # "rec"
  <2>1. \E ok \in BOOLEAN : Return(r, ok)
    BY <1>2 DEF AfterSave
  <2>2. UNCHANGED gate
    BY <1>2 DEF AfterSave
  <2> QED
    BY <2>1, <2>2, ReturnTypes DEF TypeInv, GatesOK
<1> QED
  BY <1>1, <1>2

-----------------------------------------------------------------------------
(* Every step keeps the types.                                             *)

(* Steps of a request that replace its call and leave the gates alone.     *)
LEMMA PlainCalls ==
    ASSUME TypeInv, NEW r \in Requests,
           \/ Start(r) \/ Succeed(r) \/ Unauthorized(r) \/ Fail(r) \/ FailAgain(r) \/ Rotate(r)
           \/ Resume(r) \/ Resumed(r) \/ Reauthenticate(r) \/ SinkWrite(r)
    PROVE  CallsOK' /\ GatesOK'
<1>1. CASE Start(r)
  <2> DEFINE k == [IdleCall EXCEPT !.pc = "call", !.client = session]
  <2>1. k \in Call /\ k.client # 0
    BY <1>1, IdleIsCall DEF Start, TypeInv, RestOK, Call
  <2>2. Put(r, k) /\ UNCHANGED gate
    BY <1>1 DEF Start, clientVars
  <2> QED
    BY <2>1, <2>2, PutTypes DEF TypeInv, GatesOK
<1>2. CASE Succeed(r)
  <2> DEFINE k == [req[r] EXCEPT !.pc = "token", !.why = "ok", !.used = agent[req[r].client]]
  <2>1. req[r] \in Call /\ req[r].client # 0 /\ agent[req[r].client] \in 0..MaxTokens
    BY <1>2, CallFacts DEF Succeed
  <2>2. k \in Call /\ k.client # 0
    BY <2>1 DEF Call, Saving
  <2>3. Put(r, k) /\ UNCHANGED gate
    BY <1>2 DEF Succeed, clientVars
  <2> QED
    BY <2>2, <2>3, PutTypes DEF TypeInv, GatesOK
<1>3. CASE Unauthorized(r)
  <2> DEFINE k == [req[r] EXCEPT !.pc = "gate", !.seen = gate[req[r].client].gen]
  <2>1. req[r] \in Call /\ req[r].client # 0 /\ gate[req[r].client] \in Gates
    BY <1>3, CallFacts DEF Unauthorized
  <2>2. k \in Call /\ k.client # 0
    BY <2>1 DEF Call, Gates
  <2>3. Put(r, k) /\ UNCHANGED gate
    BY <1>3 DEF Unauthorized, clientVars
  <2> QED
    BY <2>2, <2>3, PutTypes DEF TypeInv, GatesOK
<1>4. CASE Fail(r)
  <2> DEFINE k == [req[r] EXCEPT !.pc = "token", !.why = "err"]
  <2>1. req[r] \in Call /\ req[r].client # 0
    BY <1>4, CallFacts DEF Fail
  <2>2. k \in Call /\ k.client # 0
    BY <2>1 DEF Call, Saving
  <2>3. Put(r, k) /\ UNCHANGED gate
    BY <1>4 DEF Fail, clientVars
  <2> QED
    BY <2>2, <2>3, PutTypes DEF TypeInv, GatesOK
<1>5. CASE Rotate(r)
  <2> DEFINE k == [req[r] EXCEPT !.pc = "rotated", !.token = issued + 1]
  <2>1. req[r] \in Call /\ req[r].client # 0
    BY <1>5, CallFacts DEF Rotate
  <2>2. issued + 1 \in 0..MaxTokens
    BY <1>5, Bounds DEF Rotate, TypeInv, RestOK
  <2>3. k \in Call /\ k.client # 0
    BY <2>1, <2>2 DEF Call, Rotating
  <2>4. Put(r, k) /\ UNCHANGED gate
    BY <1>5 DEF Rotate, clientVars
  <2> QED
    BY <2>3, <2>4, PutTypes DEF TypeInv, GatesOK
<1>6. CASE Resume(r)
  <2> DEFINE k == [req[r] EXCEPT !.pc = "resume"]
  <2>1. req[r] \in Call /\ req[r].client # 0
    BY <1>6, CallFacts DEF Resume
  <2>2. k \in Call /\ k.client # 0
    BY <2>1 DEF Call, Rotating
  <2>3. Put(r, k) /\ UNCHANGED gate
    BY <1>6 DEF Resume, Goto, clientVars
  <2> QED
    BY <2>2, <2>3, PutTypes DEF TypeInv, GatesOK
<1>7. CASE Resumed(r)
  <2> DEFINE k == [req[r] EXCEPT !.pc = "token", !.why = "rec"]
  <2>1. req[r] \in Call /\ req[r].client # 0
    BY <1>7, CallFacts DEF Resumed
  <2>2. k \in Call /\ k.client # 0
    BY <2>1 DEF Call, Saving
  <2>3. Put(r, k) /\ UNCHANGED gate
    BY <1>7 DEF Resumed, clientVars
  <2> QED
    BY <2>2, <2>3, PutTypes DEF TypeInv, GatesOK
<1>8. CASE Reauthenticate(r)
  <2> DEFINE k == [req[r] EXCEPT !.pc = "token", !.why = "rec"]
  <2>1. req[r] \in Call /\ req[r].client # 0
    BY <1>8, CallFacts DEF Reauthenticate
  <2>2. k \in Call /\ k.client # 0
    BY <2>1 DEF Call, Saving
  <2>3. Put(r, k) /\ UNCHANGED gate
    BY <1>8 DEF Reauthenticate, clientVars
  <2> QED
    BY <2>2, <2>3, PutTypes DEF TypeInv, GatesOK
<1>9. CASE SinkWrite(r)
  <2> DEFINE k == [req[r] EXCEPT !.pc = "stored"]
  <2>1. req[r] \in Call /\ req[r].client # 0
    BY <1>9, CallFacts DEF SinkWrite
  <2>2. k \in Call /\ k.client # 0
    BY <2>1 DEF Call, Saving
  <2>3. Put(r, k) /\ UNCHANGED gate
    BY <1>9 DEF SinkWrite, Goto, clientVars
  <2> QED
    BY <2>2, <2>3, PutTypes DEF TypeInv, GatesOK
<1>10. CASE FailAgain(r)
  BY <1>10, ReturnTypes DEF FailAgain, clientVars, TypeInv, GatesOK
<1> QED
  BY <1>1, <1>2, <1>3, <1>4, <1>5, <1>6, <1>7, <1>8, <1>9, <1>10

(* Steps of a request that lock, release or publish a gate.                *)
LEMMA GatedCalls ==
    ASSUME TypeInv, NEW r \in Requests,
           \/ SilentRefresh(r) \/ Abort(r) \/ Enter(r) \/ Refuse(r) \/ LoseRefresh(r)
           \/ ResumeFailed(r) \/ ReauthFailed(r) \/ ReadSession(r) \/ SinkFailed(r) \/ SinkDone(r)
    PROVE  CallsOK' /\ GatesOK'
<1>1. req[r].pc # "idle"
  BY DEF SilentRefresh, Abort, Enter, Refuse, LoseRefresh, ResumeFailed, ReauthFailed,
         ReadSession, SinkFailed, SinkDone, Idle
<1>2. req[r] \in Call /\ req[r].client \in Clients /\ req[r].client # 0
  BY <1>1, CallFacts
<1>3. agent[req[r].client] \in 0..MaxTokens /\ gate[req[r].client] \in Gates
  BY <1>1, CallFacts
<1>4. CASE SilentRefresh(r)
  BY <1>4 DEF SilentRefresh, TypeInv, CallsOK, GatesOK
<1>5. CASE Abort(r)
  <2>1. Put(r, IdleCall)
    BY <1>5 DEF Abort
  <2>2. [gate[req[r].client] EXCEPT !.lock = NoOne] \in Gates
    BY <1>3 DEF Gates
  <2>3. GatesOK'
    BY <1>2, <1>5, <2>2 DEF Abort, TypeInv, GatesOK
  <2> QED
    BY <2>1, <2>3, IdleIsCall, PutTypes DEF TypeInv
<1>6. CASE Enter(r)
  <2> DEFINE c == req[r].client
             k == [req[r] EXCEPT !.pc = IF agent[c] # 0 THEN "refresh" ELSE "reauth",
                                 !.token = agent[c]]
  <2>1. CASE gate[c].gen # req[r].seen
    <3>1. UNCHANGED gate /\ (Again(r) \/ Return(r, FALSE))
      BY <1>6, <2>1 DEF Enter
    <3> QED
      BY <1>1, <3>1, ReturnTypes DEF TypeInv, GatesOK
  <2>2. CASE gate[c].gen = req[r].seen
    <3>1. k \in Call /\ k.client # 0
      BY <1>2, <1>3 DEF Call, Rotating
    <3>2. [gate[c] EXCEPT !.lock = r] \in Gates
      BY <1>3 DEF Gates
    <3>3. Put(r, k) /\ gate' = [gate EXCEPT ![c] = [gate[c] EXCEPT !.lock = r]]
      BY <1>6, <2>2 DEF Enter
    <3>4. CallsOK'
      BY <3>1, <3>3, PutTypes DEF TypeInv
    <3> QED
      BY <3>2, <3>3, <3>4 DEF TypeInv, GatesOK
  <2> QED
    BY <2>1, <2>2
<1>7. CASE Refuse(r)
  <2> DEFINE k == [req[r] EXCEPT !.pc = "reauth"]
  <2>1. k \in Call /\ k.client # 0
    BY <1>2 DEF Call, Rotating
  <2>2. CASE HasPassword
    <3>1. Put(r, k) /\ UNCHANGED gate
      BY <1>7, <2>2 DEF Refuse, Goto
    <3> QED
      BY <2>1, <3>1, PutTypes DEF TypeInv, GatesOK
  <2>3. CASE ~HasPassword
    BY <1>1, <1>7, <2>3, SettleTypes DEF Refuse
  <2> QED
    BY <2>2, <2>3
<1>8. CASE LoseRefresh(r)
  BY <1>1, <1>8, SettleTypes DEF LoseRefresh
<1>9. CASE ResumeFailed(r)
  BY <1>1, <1>9, SettleTypes DEF ResumeFailed
<1>10. CASE ReauthFailed(r)
  BY <1>1, <1>10, SettleTypes DEF ReauthFailed
<1>11. CASE ReadSession(r)
  <2> DEFINE k == [req[r] EXCEPT !.pc = "sink", !.token = agent[req[r].client]]
  <2>1. k \in Call /\ k.client # 0
    BY <1>2, <1>3 DEF Call, Saving
  <2>2. CASE agent[req[r].client] \in {0, snapshot[req[r].client]}
    <3>1. AfterSave(r, agent[req[r].client] # 0)
      BY <1>11, <2>2 DEF ReadSession
    <3> QED
      BY <1>1, <3>1, AfterSaveTypes
  <2>3. CASE agent[req[r].client] \notin {0, snapshot[req[r].client]}
    <3>1. Put(r, k) /\ UNCHANGED gate
      BY <1>11, <2>3 DEF ReadSession
    <3> QED
      BY <2>1, <3>1, PutTypes DEF TypeInv, GatesOK
  <2> QED
    BY <2>2, <2>3
<1>12. CASE SinkFailed(r)
  BY <1>1, <1>12, AfterSaveTypes DEF SinkFailed
<1>13. CASE SinkDone(r)
  BY <1>1, <1>13, AfterSaveTypes DEF SinkDone
<1> QED
  BY <1>4, <1>5, <1>6, <1>7, <1>8, <1>9, <1>10, <1>11, <1>12, <1>13

(* A token that is issued within the bound is a token.                     *)
LEMMA NewToken ==
    ASSUME RestOK, issued < MaxTokens
    PROVE  /\ issued + 1 \in 0..MaxTokens /\ issued + 1 \in Tokens
           /\ \A t : (live \ {t}) \union {issued + 1} \subseteq Tokens
           /\ live \union {issued + 1} \subseteq Tokens
<1>1. issued + 1 \in 0..MaxTokens /\ issued + 1 \in Tokens
  BY Bounds DEF RestOK, Tokens
<1>2. live \subseteq Tokens
  BY DEF RestOK
<1> QED
  BY <1>1, <1>2

(* A request changes the row, the agents, snapshots, locks and tokens only *)
(* within their types.                                                     *)
LEMMA CallsRest ==
    ASSUME TypeInv, NEW r \in Requests, Request(r) \/ Recovery(r) \/ RefreshToken(r)
    PROVE  RestOK'
<1> USE Bounds DEF RestOK
<1>1. RestOK
  BY DEF TypeInv
<1>2. CASE Start(r)
  BY <1>1, <1>2 DEF Start, store, commands, clientVars, provider
<1>3. CASE Succeed(r) \/ Unauthorized(r) \/ Fail(r) \/ FailAgain(r)
  BY <1>1, <1>3 DEF Succeed, Unauthorized, Fail, FailAgain, store, commands, clientVars, provider
<1>4. req[r].pc # "idle" => req[r] \in Call /\ req[r].client \in Clients
  BY CallFacts
<1>5. CASE SilentRefresh(r)
  <2>1. issued' \in 0..MaxTokens /\ live' \subseteq Tokens
    BY <1>1, <1>5, NewToken DEF SilentRefresh
  <2>2. agent' \in [Clients -> 0..MaxTokens]
    BY <1>1, <1>5, NewToken DEF SilentRefresh
  <2> QED
    BY <1>1, <1>5, <2>1, <2>2 DEF SilentRefresh, store, commands
<1>6. CASE Abort(r)
  BY <1>1, <1>6 DEF Abort, store, commands, provider
<1>7. CASE Enter(r) \/ LoseRefresh(r) \/ ReauthFailed(r)
  BY <1>1, <1>7 DEF Enter, LoseRefresh, ReauthFailed, store, commands, provider
<1>8. CASE Rotate(r)
  BY <1>1, <1>8, NewToken DEF Rotate, store, commands, clientVars
<1>9. CASE Refuse(r)
  BY <1>1, <1>9 DEF Refuse, store, commands, Tokens
<1>10. CASE Resume(r)
  <2>1. req[r].token \in 0..MaxTokens
    BY <1>4, <1>10 DEF Resume, Call
  <2>2. agent' \in [Clients -> 0..MaxTokens]
    BY <1>1, <1>10, <2>1 DEF Resume
  <2> QED
    BY <1>1, <1>10, <2>2 DEF Resume, store, commands, provider
<1>11. CASE Resumed(r)
  BY <1>1, <1>11 DEF Resumed, store, commands, clientVars, provider
<1>12. CASE ResumeFailed(r)
  BY <1>1, <1>12 DEF ResumeFailed, store, commands, provider
<1>13. CASE Reauthenticate(r)
  <2>1. issued' \in 0..MaxTokens /\ live' \subseteq Tokens
    BY <1>1, <1>13, NewToken DEF Reauthenticate
  <2>2. agent' \in [Clients -> 0..MaxTokens]
    BY <1>1, <1>13, NewToken DEF Reauthenticate
  <2> QED
    BY <1>1, <1>13, <2>1, <2>2 DEF Reauthenticate, store, commands
<1>14. CASE ReadSession(r)
  BY <1>1, <1>14 DEF ReadSession, store, commands, provider
<1>15. CASE SinkWrite(r)
  <2>1. req[r].token \in 0..MaxTokens /\ req[r].client \in 0..MaxClients
    BY <1>4, <1>15 DEF SinkWrite, Call
  <2>2. row' \in [owner : 0..MaxClients, by : 0..MaxClients, token : 0..MaxTokens, half : BOOLEAN]
    BY <1>1, <1>15, <2>1 DEF SinkWrite
  <2> QED
    BY <1>1, <1>15, <2>2 DEF SinkWrite, commands, clientVars, provider
<1>16. CASE SinkFailed(r)
  BY <1>1, <1>16 DEF SinkFailed, store, commands, provider
<1>17. CASE SinkDone(r)
  BY <1>1, <1>4, <1>17 DEF SinkDone, store, commands, provider, Call
<1> QED
  BY <1>2, <1>3, <1>5, <1>6, <1>7, <1>8, <1>9, <1>10, <1>11, <1>12, <1>13, <1>14, <1>15, <1>16,
     <1>17 DEF Request, Recovery, RefreshToken

(* Logins, logouts and restarts keep the types.                            *)
LEMMA CommandTypes ==
    ASSUME TypeInv, Login \/ Logout \/ Restore \/ RestoreFailed
    PROVE  TypeInv'
<1> USE Bounds DEF TypeInv, RestOK
<1>1. CASE LoginBegin
  <2>1. issued' \in 0..MaxTokens /\ live' \subseteq Tokens
    BY <1>1, NewToken DEF LoginBegin
  <2>2. agent' \in [Clients -> 0..MaxTokens] /\ snapshot' \in [Clients -> 0..MaxTokens]
    BY <1>1, NewToken DEF LoginBegin
  <2>3. clients + 1 \in 0..MaxClients /\ clients + 1 # 0
    BY <1>1 DEF LoginBegin
  <2> QED
    BY <1>1, <2>1, <2>2, <2>3 DEF LoginBegin, CallsOK, GatesOK, store
<1>2. CASE LoginPersist
  <2>1. agent[login.client] \in 0..MaxTokens /\ login.client \in 0..MaxClients
    BY <1>2 DEF LoginPersist, Clients
  <2>2. row' \in [owner : 0..MaxClients, by : 0..MaxClients, token : 0..MaxTokens, half : BOOLEAN]
    BY <1>2, <2>1 DEF LoginPersist
  <2> QED
    BY <1>2, <2>2 DEF LoginPersist, CallsOK, GatesOK, clientVars, provider
<1>3. CASE LoginHalf
  <2>1. agent[login.client] \in 0..MaxTokens /\ login.client \in 0..MaxClients
    BY <1>3 DEF LoginHalf, Clients
  <2>2. row' \in [owner : 0..MaxClients, by : 0..MaxClients, token : 0..MaxTokens, half : BOOLEAN]
    BY <1>3, <2>1 DEF LoginHalf
  <2> QED
    BY <1>3, <2>2 DEF LoginHalf, CallsOK, GatesOK, clientVars, provider, NoCommand
<1>4. CASE LoginArm
  BY <1>4 DEF LoginArm, CallsOK, GatesOK, store, provider
<1>5. CASE LoginAdd
  BY <1>5 DEF LoginAdd, CallsOK, GatesOK, store, clientVars, provider, NoCommand
<1>6. CASE LoginStop
  BY <1>6 DEF LoginStop, CallsOK, GatesOK, store, clientVars, provider, NoCommand
<1>7. CASE LogoutBegin
  BY <1>7 DEF LogoutBegin, CallsOK, GatesOK, store, clientVars, provider
<1>8. CASE LogoutInvalidate
  <2> DEFINE g == [gen |-> gate[logout.client].gen + 1, lastGen |-> 0, outcome |-> "none",
                   lock |-> NoOne]
  <2>1. logout.client \in Clients
    BY <1>8 DEF LogoutInvalidate, Clients
  <2>2. g \in Gates
    BY <2>1 DEF GatesOK, Gates
  <2>3. GatesOK'
    BY <1>8, <2>1, <2>2 DEF LogoutInvalidate, GatesOK
  <2>4. CallsOK' /\ RestOK'
    BY <1>8 DEF LogoutInvalidate, CallsOK, store, provider
  <2> QED
    BY <2>3, <2>4
<1>9. CASE LogoutRemove
  BY <1>9 DEF LogoutRemove, CallsOK, GatesOK, clientVars, provider, NoRow
<1>10. CASE LogoutFailed
  BY <1>10 DEF LogoutFailed, CallsOK, GatesOK, store, clientVars, provider, NoCommand
<1>11. CASE LogoutDrop
  BY <1>11 DEF LogoutDrop, CallsOK, GatesOK, store, clientVars, provider, NoCommand
<1>12. Forget => CallsOK' /\ GatesOK'
  BY IdleIsCall DEF Forget, CallsOK, GatesOK, Gates, FreshGate
<1>13. CASE Restore
  <2>1. PICK fresh \in BOOLEAN :
          LET t == IF fresh THEN issued + 1 ELSE row.token IN
          /\ fresh => issued < MaxTokens /\ (row.token \in live \/ HasPassword)
          /\ issued' = IF fresh THEN issued + 1 ELSE issued
          /\ live' = IF fresh THEN (live \ {row.token}) \union {t} ELSE live
          /\ row' = [owner |-> clients + 1, by |-> clients + 1, token |-> t, half |-> FALSE]
          /\ agent' = [d \in Clients |-> IF d = clients + 1 THEN t ELSE 0]
          /\ snapshot' = agent'
    BY <1>13 DEF Restore
  <2> DEFINE t == IF fresh THEN issued + 1 ELSE row.token
  <2>2. t \in 0..MaxTokens /\ clients + 1 \in 0..MaxClients
    BY <1>13, <2>1 DEF Restore
  <2>3. row' = [owner |-> clients + 1, by |-> clients + 1, token |-> t, half |-> FALSE]
    BY <2>1
  <2>4. row' \in [owner : 0..MaxClients, by : 0..MaxClients, token : 0..MaxTokens, half : BOOLEAN]
    BY <2>2, <2>3
  <2>5. agent' \in [Clients -> 0..MaxTokens] /\ snapshot' \in [Clients -> 0..MaxTokens]
    BY <2>1, <2>2
  <2>6. issued' \in 0..MaxTokens /\ live' \subseteq Tokens
    <3>1. CASE fresh
      BY <2>1, <3>1, NewToken
    <3>2. CASE ~fresh
      BY <2>1, <3>2
    <3> QED
      BY <3>1, <3>2
  <2>7. sink' \in [Clients -> Nat \union {NoSink}]
    BY <1>13 DEF Restore
  <2>8. /\ session' \in 0..MaxClients /\ clients' \in 0..MaxClients
        /\ login' = NoCommand /\ logout' = NoCommand /\ account' = 0
        /\ persisting' \in [Clients -> Requests \union {NoOne}]
        /\ UNCHANGED <<calls, logouts>>
    BY <1>13, <2>2 DEF Restore, Forget
  <2>9. RestOK'
    BY <2>4, <2>5, <2>6, <2>7, <2>8 DEF NoCommand
  <2> QED
    BY <1>12, <1>13, <2>9 DEF Restore
<1>14. CASE RestoreFailed
  <2>1. RestOK'
    BY <1>14 DEF RestoreFailed, Forget, NoCommand, Clients, Tokens
  <2> QED
    BY <1>12, <1>14, <2>1 DEF RestoreFailed
<1> QED
  BY <1>1, <1>2, <1>3, <1>4, <1>5, <1>6, <1>7, <1>8, <1>9, <1>10, <1>11, <1>13, <1>14
     DEF Login, Logout

LEMMA TypeInit == Init => TypeInv
BY Bounds, IdleIsCall DEF Init, TypeInv, CallsOK, GatesOK, RestOK, Gates, NoRow, FreshGate,
   NoCommand, NoSink, Clients, Tokens

LEMMA TypeStep == TypeInv /\ [Next]_vars => TypeInv'
<1> SUFFICES ASSUME TypeInv, [Next]_vars PROVE TypeInv'
  OBVIOUS
<1>1. ASSUME NEW r \in Requests, Request(r) \/ Recovery(r) \/ RefreshToken(r) PROVE TypeInv'
  <2>1. CallsOK' /\ GatesOK'
    BY <1>1, PlainCalls, GatedCalls DEF Request, Recovery, RefreshToken
  <2> QED
    BY <1>1, <2>1, CallsRest DEF TypeInv
<1>2. CASE Login \/ Logout \/ Restore \/ RestoreFailed
  BY <1>2, CommandTypes
<1>3. CASE UNCHANGED vars
  BY <1>3 DEF vars, store, commands, clientVars, provider, TypeInv, CallsOK, GatesOK, RestOK
<1> QED
  BY <1>1, <1>2, <1>3 DEF Next

(* The row, the gates and every call keep their types in every behaviour.  *)
THEOREM TypeCorrect == Spec => []TypeOK
<1>1. TypeInv => TypeOK
  BY DEF TypeInv, CallsOK, GatesOK, RestOK, Gates, TypeOK
<1> QED
  BY <1>1, TypeInit, TypeStep, PTL DEF Spec

-----------------------------------------------------------------------------
(* The row belongs to its login.                                           *)

(* A step that leaves the row, the generation, the sinks and the login     *)
(* alone keeps the invariant.                                              *)
LEMMA LoginQuiet ==
    ASSUME LoginInv, UNCHANGED <<row, account, sink, login>>
    PROVE  LoginInv'
BY DEF LoginInv, SinkInv, RotationStaysInItsLogin

(* Of all steps of a request only the sink's write touches the row, and it *)
(* writes the row of its own login.                                        *)
LEMMA LoginCalls ==
    ASSUME TypeInv, LoginInv, NEW r \in Requests, Request(r) \/ Recovery(r) \/ RefreshToken(r)
    PROVE  LoginInv'
<1>1. CASE SinkWrite(r)
  <2> DEFINE c == req[r].client
  <2>1. c \in Clients
    BY <1>1, CallFacts DEF SinkWrite
  <2>2. row # NoRow /\ sink[c] = account /\ UNCHANGED <<account, sink, login>>
    BY <1>1 DEF SinkWrite, commands, clientVars
  <2>3. row'.owner = row.owner /\ row'.half = row.half /\ row'.by = c
    BY <1>1 DEF SinkWrite
  <2>4. ~row.half => c = row.owner
    BY <2>1, <2>2 DEF LoginInv, SinkInv
  <2>5. RotationStaysInItsLogin'
    BY <2>3, <2>4 DEF RotationStaysInItsLogin
  <2>6. SinkInv'
    BY <2>2, <2>3 DEF LoginInv, SinkInv
  <2> QED
    BY <2>5, <2>6 DEF LoginInv
<1>2. CASE ~SinkWrite(r)
  <2>1. UNCHANGED <<row, account, sink, login>>
    BY <1>2 DEF Request, Recovery, RefreshToken, Start, Succeed, Unauthorized, Fail, FailAgain,
       SilentRefresh, Abort, Enter, Rotate, Refuse, LoseRefresh, Resume, Resumed, ResumeFailed,
       Reauthenticate, ReauthFailed, ReadSession, SinkFailed, SinkDone,
       store, commands, clientVars
  <2> QED
    BY <2>1, LoginQuiet
<1> QED
  BY <1>1, <1>2

(* A login or a logout advances the generation past every sink; a cancelled *)
(* commit does not, and its row is marked.                                 *)
LEMMA LoginCommands ==
    ASSUME TypeInv, LoginInv, Login \/ Logout \/ Restore \/ RestoreFailed
    PROVE  LoginInv'
<1> USE DEF LoginInv, SinkInv, RotationStaysInItsLogin
<1>1. account \in Nat /\ sink \in [Clients -> Nat \union {NoSink}] /\ clients \in Nat
  BY Bounds DEF TypeInv, RestOK
<1>2. \A c \in Clients : sink[c] \in Int
  BY <1>1 DEF NoSink
<1>3. CASE LoginBegin
  BY <1>3 DEF LoginBegin, store
<1>4. CASE LoginPersist
  <2>1. /\ row'.owner = login.client /\ row'.by = login.client /\ login' = [login EXCEPT !.pc = "arm"]
        /\ account' = account + 1 /\ UNCHANGED sink
    BY <1>4 DEF LoginPersist, clientVars
  <2>2. login'.client = login.client
    BY <2>1 DEF TypeInv, RestOK
  <2>3. \A c \in Clients : sink'[c] < account'
    BY <1>1, <1>2, <2>1
  <2> QED
    BY <1>1, <1>2, <2>1, <2>2, <2>3
<1>5. CASE LoginHalf
  <2>1. row'.by = row'.owner /\ row'.half /\ login'.pc = "idle" /\ UNCHANGED <<account, sink>>
    BY <1>5 DEF LoginHalf, clientVars, NoCommand
  <2> QED
    BY <2>1
<1>6. CASE LoginArm
  <2>1. /\ login.pc = "arm" /\ login'.pc # "arm" /\ UNCHANGED <<row, account>>
        /\ sink' = [sink EXCEPT ![login.client] = account]
    BY <1>6 DEF LoginArm, store, TypeInv, RestOK
  <2>2. \A c \in Clients : sink'[c] = IF c = login.client THEN account ELSE sink[c]
    BY <1>1, <2>1
  <2> QED
    BY <1>1, <2>1, <2>2
<1>7. CASE LoginAdd \/ LoginStop
  <2>1. login'.pc = "idle" /\ UNCHANGED <<row, account, sink>>
    BY <1>7 DEF LoginAdd, LoginStop, store, clientVars, NoCommand
  <2> QED
    BY <2>1
<1>8. CASE LogoutRemove
  <2>1. row' = NoRow /\ account' = account + 1 /\ UNCHANGED <<sink, login>>
    BY <1>8 DEF LogoutRemove, clientVars
  <2>2. row'.by = row'.owner
    BY <2>1 DEF NoRow
  <2> QED
    BY <1>1, <1>2, <2>1, <2>2
<1>9. CASE LogoutBegin \/ LogoutInvalidate \/ LogoutFailed \/ LogoutDrop
  <2>1. UNCHANGED <<row, account, sink, login>>
    BY <1>9 DEF LogoutBegin, LogoutInvalidate, LogoutFailed, LogoutDrop, store, clientVars
  <2> QED
    BY <2>1, LoginQuiet
<1>10. CASE Restore
  <2>1. row'.owner = clients + 1 /\ row'.by = clients + 1
    BY <1>10 DEF Restore
  <2>2. /\ account' = 0 /\ login'.pc = "idle"
        /\ sink' = [d \in Clients |-> IF d = clients + 1 THEN 0 ELSE NoSink]
    BY <1>10 DEF Restore, Forget, NoCommand
  <2>3. \A c \in Clients : sink'[c] <= 0 /\ (sink'[c] = 0 => c = clients + 1)
    BY <2>2 DEF NoSink
  <2> QED
    BY <2>1, <2>2, <2>3
<1>11. CASE RestoreFailed
  <2>1. /\ account' = 0 /\ login'.pc = "idle" /\ UNCHANGED row
        /\ sink' = [d \in Clients |-> NoSink]
    BY <1>11 DEF RestoreFailed, Forget, NoCommand
  <2>2. \A c \in Clients : sink'[c] = -1
    BY <2>1 DEF NoSink
  <2> QED
    BY <2>1, <2>2
<1> QED
  BY <1>3, <1>4, <1>5, <1>6, <1>7, <1>8, <1>9, <1>10, <1>11 DEF Login, Logout

(* For every number of requests, logins, logouts and restarts: the session *)
(* in the row was written by the client the row belongs to; the late       *)
(* rotation of an older client is refused (update_for_account_generation). *)
THEOREM RowBelongsToItsLogin == Spec => []RotationStaysInItsLogin
<1>1. Init => LoginInv
  BY DEF Init, LoginInv, SinkInv, RotationStaysInItsLogin, NoRow, NoCommand, NoSink
<1>2. TypeInv /\ LoginInv /\ [Next]_vars => LoginInv'
  <2> SUFFICES ASSUME TypeInv, LoginInv, [Next]_vars PROVE LoginInv'
    OBVIOUS
  <2>1. CASE UNCHANGED vars
    <3>1. UNCHANGED <<row, account, sink, login>>
      BY <2>1 DEF vars, store, commands, clientVars
    <3> QED
      BY <3>1, LoginQuiet
  <2> QED
    BY <2>1, LoginCalls, LoginCommands DEF Next
<1>3. LoginInv => RotationStaysInItsLogin
  BY DEF LoginInv
<1> QED
  BY <1>1, <1>2, <1>3, TypeInit, TypeStep, PTL DEF Spec

-----------------------------------------------------------------------------
(* Recoveries are single-flight.                                           *)

(* A step that replaces the call of r by one that does not recover keeps   *)
(* the invariant when the gates of the others stay as they are.            *)
LEMMA GateOthers ==
    ASSUME GateInv, NEW r \in Requests, NEW k, Put(r, k), CallsOK,
           \/ k.pc \notin Rotating /\ (k.pc \notin Saving \/ k.why # "rec")
           \/ gate'[k.client].lock = r /\ k.seen = gate'[k.client].gen,
           \A s \in Requests \ {r} : Recovering(s) =>
               gate'[req[s].client].lock = s /\ gate'[req[s].client].gen = gate[req[s].client].gen
    PROVE  GateInv'
<1> SUFFICES ASSUME NEW s \in Requests, Recovering(s)'
             PROVE  gate'[req'[s].client].lock = s /\ req'[s].seen = gate'[req'[s].client].gen
  BY DEF GateInv
<1>1. CASE s = r
  <2>1. req'[r] = k
    BY DEF Put, CallsOK
  <2> QED
    BY <1>1, <2>1 DEF Recovering
<1>2. CASE s # r
  <2>1. req'[s] = req[s]
    BY <1>2 DEF Put, CallsOK
  <2>2. Recovering(s)
    BY <2>1 DEF Recovering
  <2> QED
    BY <1>2, <2>1, <2>2 DEF GateInv
<1> QED
  BY <1>1, <1>2

(* Requests that do not touch the gate and do not start to recover.        *)
LEMMA GateQuiet ==
    ASSUME GateInv, NEW r \in Requests, NEW k, Put(r, k), CallsOK, UNCHANGED gate,
           \/ k.pc \notin Rotating /\ (k.pc \notin Saving \/ k.why # "rec")
           \/ Recovering(r) /\ k.client = req[r].client /\ k.seen = req[r].seen
    PROVE  GateInv'
BY GateOthers DEF GateInv

(* When the holder publishes its outcome, no other request recovers on its *)
(* client.                                                                 *)
LEMMA GateSettle ==
    ASSUME TypeInv, GateInv, NEW r \in Requests, NEW o, Recovering(r), Settle(r, o)
    PROVE  GateInv'
<1> DEFINE c == req[r].client
           again == [IdleCall EXCEPT !.pc = "recall", !.client = c]
<1>1. c \in Clients /\ CallsOK /\ gate \in [Clients -> Gates] /\ req[r] \in Call
  BY CallFacts DEF Recovering, Rotating, Saving, TypeInv, GatesOK
<1>2. gate[c].lock = r
  BY DEF GateInv
<1>3. \A d \in Clients \ {c} : gate'[d] = gate[d]
  BY <1>1 DEF Settle
<1>4. \A s \in Requests \ {r} : Recovering(s) => req[s].client \in Clients \ {c}
  <2> SUFFICES ASSUME NEW s \in Requests \ {r}, Recovering(s) PROVE req[s].client \in Clients \ {c}
    OBVIOUS
  <2>1. req[s].client \in Clients
    BY CallFacts DEF Recovering, Rotating, Saving
  <2>2. gate[req[s].client].lock = s
    BY DEF GateInv
  <2> QED
    BY <1>2, <2>1, <2>2
<1>5. \A s \in Requests \ {r} : Recovering(s) =>
          gate'[req[s].client].lock = s /\ gate'[req[s].client].gen = gate[req[s].client].gen
  BY <1>3, <1>4 DEF GateInv
<1>6. again.pc = "recall" /\ IdleCall.pc = "idle"
  BY DEF IdleCall
<1>7. Put(r, again) \/ Put(r, IdleCall)
  BY DEF Settle, Again, Return
<1> QED
  BY <1>1, <1>5, <1>6, <1>7, GateOthers DEF Rotating, Saving

(* Every step of a request keeps the gates' invariant.                     *)
LEMMA GateCalls ==
    ASSUME TypeInv, GateInv, NEW r \in Requests, Request(r) \/ Recovery(r) \/ RefreshToken(r)
    PROVE  GateInv'
<1> DEFINE c == req[r].client
<1>1. CallsOK /\ gate \in [Clients -> Gates] /\ req[r] \in Call
  BY DEF TypeInv, CallsOK, GatesOK
<1>2. IdleCall.pc = "idle" /\ IdleCall \in Call
  BY IdleIsCall
<1>3. CASE Start(r)
  <2> DEFINE k == [IdleCall EXCEPT !.pc = "call", !.client = session]
  <2>1. k.pc \notin Rotating /\ (k.pc \notin Saving \/ k.why # "rec")
    BY <1>1, <1>2 DEF Rotating, Saving, Call
  <2>2. Put(r, k) /\ UNCHANGED gate
    BY <1>3 DEF Start, clientVars
  <2> QED
    BY <1>1, <2>1, <2>2, GateQuiet
<1>4. CASE Succeed(r)
  <2> DEFINE k == [req[r] EXCEPT !.pc = "token", !.why = "ok", !.used = agent[c]]
  <2>1. k.pc \notin Rotating /\ (k.pc \notin Saving \/ k.why # "rec")
    BY <1>1, <1>2 DEF Rotating, Saving, Call
  <2>2. Put(r, k) /\ UNCHANGED gate
    BY <1>4 DEF Succeed, clientVars
  <2> QED
    BY <1>1, <2>1, <2>2, GateQuiet
<1>5. CASE Unauthorized(r)
  <2> DEFINE k == [req[r] EXCEPT !.pc = "gate", !.seen = gate[c].gen]
  <2>1. k.pc \notin Rotating /\ (k.pc \notin Saving \/ k.why # "rec")
    BY <1>1, <1>2 DEF Rotating, Saving, Call
  <2>2. Put(r, k) /\ UNCHANGED gate
    BY <1>5 DEF Unauthorized, clientVars
  <2> QED
    BY <1>1, <2>1, <2>2, GateQuiet
<1>6. CASE Fail(r)
  <2> DEFINE k == [req[r] EXCEPT !.pc = "token", !.why = "err"]
  <2>1. k.pc \notin Rotating /\ (k.pc \notin Saving \/ k.why # "rec")
    BY <1>1, <1>2 DEF Rotating, Saving, Call
  <2>2. Put(r, k) /\ UNCHANGED gate
    BY <1>6 DEF Fail, clientVars
  <2> QED
    BY <1>1, <2>1, <2>2, GateQuiet
<1>7. CASE FailAgain(r)
  <2>1. Put(r, IdleCall) /\ UNCHANGED gate
    BY <1>7 DEF FailAgain, Return, clientVars
  <2> QED
    BY <1>1, <1>2, <2>1, GateQuiet DEF Rotating, Saving
<1>8. CASE SilentRefresh(r)
  BY <1>8 DEF SilentRefresh, GateInv, Recovering
<1>9. CASE Abort(r)
  <2>1. c \in Clients
    BY <1>9, CallFacts DEF Abort, Idle
  <2>2. Put(r, IdleCall)
    BY <1>9 DEF Abort
  <2>3. \A s \in Requests \ {r} : Recovering(s) =>
          gate'[req[s].client].lock = s /\ gate'[req[s].client].gen = gate[req[s].client].gen
    <3> SUFFICES ASSUME NEW s \in Requests \ {r}, Recovering(s)
                 PROVE  gate'[req[s].client] = gate[req[s].client]
      BY DEF GateInv
    <3>1. gate[req[s].client].lock = s
      BY DEF GateInv
    <3> QED
      BY <1>1, <1>9, <2>1, <3>1 DEF Abort
  <2> QED
    BY <1>1, <1>2, <2>2, <2>3, GateOthers DEF Rotating, Saving
<1>10. CASE Enter(r)
  <2> DEFINE k == [req[r] EXCEPT !.pc = IF agent[c] # 0 THEN "refresh" ELSE "reauth",
                                 !.token = agent[c]]
             again == [IdleCall EXCEPT !.pc = "recall", !.client = c]
  <2>1. c \in Clients /\ gate[c].lock = NoOne
    BY <1>10, CallFacts DEF Enter
  <2>2. CASE gate[c].gen # req[r].seen
    <3>1. UNCHANGED gate /\ (Put(r, again) \/ Put(r, IdleCall))
      BY <1>10, <2>2 DEF Enter, Again, Return
    <3>2. again.pc = "recall"
      BY DEF IdleCall
    <3> QED
      BY <1>1, <1>2, <3>1, <3>2, GateQuiet DEF Rotating, Saving
  <2>3. CASE gate[c].gen = req[r].seen
    <3>1. Put(r, k) /\ gate' = [gate EXCEPT ![c] = [gate[c] EXCEPT !.lock = r]]
      BY <1>10, <2>3 DEF Enter
    <3>2. k.client = c /\ k.seen = req[r].seen
      BY <1>1 DEF Call
    <3>3. gate[c] \in Gates
      BY <1>1, <2>1
    <3>4. gate'[c].lock = r /\ gate'[c].gen = gate[c].gen
      BY <1>1, <2>1, <3>1, <3>3 DEF Gates
    <3>5. \A s \in Requests \ {r} : Recovering(s) =>
            gate'[req[s].client].lock = s /\ gate'[req[s].client].gen = gate[req[s].client].gen
      <4> SUFFICES ASSUME NEW s \in Requests \ {r}, Recovering(s)
                   PROVE  gate'[req[s].client] = gate[req[s].client]
        BY DEF GateInv
      <4>1. gate[req[s].client].lock = s
        BY DEF GateInv
      <4>2. req[s].client # c
        BY <2>1, <4>1, AuthAssumption
      <4>3. req[s].client \in Clients
        BY CallFacts DEF Recovering, Rotating, Saving
      <4> QED
        BY <1>1, <3>1, <4>2, <4>3
    <3>6. gate'[k.client].lock = r /\ k.seen = gate'[k.client].gen
      BY <2>3, <3>2, <3>4
    <3>7. Put(r, k) /\ CallsOK
      BY <1>1, <3>1
    <3> HIDE DEF k
    <3> QED
      BY <3>5, <3>6, <3>7, GateOthers
  <2> QED
    BY <2>2, <2>3
<1>11. CASE Rotate(r)
  <2> DEFINE k == [req[r] EXCEPT !.pc = "rotated", !.token = issued + 1]
  <2>1. Recovering(r) /\ k.client = c /\ k.seen = req[r].seen
    BY <1>1, <1>11 DEF Rotate, Recovering, Rotating, Saving, Call
  <2>2. Put(r, k) /\ UNCHANGED gate
    BY <1>11 DEF Rotate, clientVars
  <2> QED
    BY <1>1, <2>1, <2>2, GateQuiet
<1>12. CASE Refuse(r)
  <2> DEFINE k == [req[r] EXCEPT !.pc = "reauth"]
  <2>1. Recovering(r) /\ k.client = c /\ k.seen = req[r].seen
    BY <1>1, <1>12 DEF Refuse, Recovering, Rotating, Call
  <2>2. CASE HasPassword
    <3>1. Put(r, k) /\ UNCHANGED gate
      BY <1>12, <2>2 DEF Refuse, Goto
    <3> QED
      BY <1>1, <2>1, <3>1, GateQuiet
  <2>3. CASE ~HasPassword
    BY <1>12, <2>1, <2>3, GateSettle DEF Refuse
  <2> QED
    BY <2>2, <2>3
<1>13. CASE LoseRefresh(r)
  BY <1>13, GateSettle DEF LoseRefresh, Recovering, Rotating
<1>14. CASE ResumeFailed(r)
  BY <1>14, GateSettle DEF ResumeFailed, Recovering, Rotating
<1>15. CASE ReauthFailed(r)
  BY <1>15, GateSettle DEF ReauthFailed, Recovering, Rotating
<1>16. CASE Resume(r)
  <2> DEFINE k == [req[r] EXCEPT !.pc = "resume"]
  <2>1. Recovering(r) /\ k.client = c /\ k.seen = req[r].seen
    BY <1>1, <1>16 DEF Resume, Recovering, Rotating, Saving, Call
  <2>2. Put(r, k) /\ UNCHANGED gate
    BY <1>16 DEF Resume, Goto, clientVars
  <2> QED
    BY <1>1, <2>1, <2>2, GateQuiet
<1>17. CASE Resumed(r)
  <2> DEFINE k == [req[r] EXCEPT !.pc = "token", !.why = "rec"]
  <2>1. Recovering(r) /\ k.client = c /\ k.seen = req[r].seen
    BY <1>1, <1>17 DEF Resumed, Recovering, Rotating, Saving, Call
  <2>2. Put(r, k) /\ UNCHANGED gate
    BY <1>17 DEF Resumed, clientVars
  <2> QED
    BY <1>1, <2>1, <2>2, GateQuiet
<1>18. CASE Reauthenticate(r)
  <2> DEFINE k == [req[r] EXCEPT !.pc = "token", !.why = "rec"]
  <2>1. Recovering(r) /\ k.client = c /\ k.seen = req[r].seen
    BY <1>1, <1>18 DEF Reauthenticate, Recovering, Rotating, Saving, Call
  <2>2. Put(r, k) /\ UNCHANGED gate
    BY <1>18 DEF Reauthenticate, clientVars
  <2> QED
    BY <1>1, <2>1, <2>2, GateQuiet
<1>19. ASSUME NEW saved \in BOOLEAN, req[r].pc \in Saving, AfterSave(r, saved) PROVE GateInv'
  <2> DEFINE done == [IdleCall EXCEPT !.pc = "done", !.client = c, !.used = req[r].used]
  <2>1. CASE req[r].why = "rec"
    BY <1>19, <2>1, GateSettle DEF AfterSave, Recovering
  <2>2. CASE req[r].why # "rec"
    <3>1. UNCHANGED gate /\ (Put(r, done) \/ Put(r, IdleCall))
      BY <1>19, <2>2 DEF AfterSave, Return
    <3>2. done.pc = "done"
      BY DEF IdleCall
    <3> QED
      BY <1>1, <1>2, <3>1, <3>2, GateQuiet DEF Rotating, Saving
  <2> QED
    BY <2>1, <2>2
<1>20. CASE ReadSession(r)
  <2> DEFINE k == [req[r] EXCEPT !.pc = "sink", !.token = agent[c]]
  <2>1. CASE agent[c] \in {0, snapshot[c]}
    BY <1>19, <1>20, <2>1 DEF ReadSession, Saving
  <2>2. CASE agent[c] \notin {0, snapshot[c]}
    <3>1. Put(r, k) /\ UNCHANGED gate
      BY <1>20, <2>2 DEF ReadSession
    <3>2. k.pc = "sink" /\ k.client = c /\ k.seen = req[r].seen /\ k.why = req[r].why
      BY <1>1 DEF Call
    <3>3. CASE req[r].why = "rec"
      BY <1>1, <1>20, <3>1, <3>2, <3>3, GateQuiet DEF ReadSession, Recovering, Saving
    <3>4. CASE req[r].why # "rec"
      BY <1>1, <3>1, <3>2, <3>4, GateQuiet DEF Rotating
    <3> QED
      BY <3>3, <3>4
  <2> QED
    BY <2>1, <2>2
<1>21. CASE SinkWrite(r)
  <2> DEFINE k == [req[r] EXCEPT !.pc = "stored"]
  <2>1. Put(r, k) /\ UNCHANGED gate
    BY <1>21 DEF SinkWrite, Goto, clientVars
  <2>2. k.pc = "stored" /\ k.client = c /\ k.seen = req[r].seen /\ k.why = req[r].why
    BY <1>1 DEF Call
  <2>3. CASE req[r].why = "rec"
    BY <1>1, <1>21, <2>1, <2>2, <2>3, GateQuiet DEF SinkWrite, Recovering, Saving
  <2>4. CASE req[r].why # "rec"
    BY <1>1, <2>1, <2>2, <2>4, GateQuiet DEF Rotating
  <2> QED
    BY <2>3, <2>4
<1>22. CASE SinkFailed(r)
  BY <1>19, <1>22 DEF SinkFailed, Saving
<1>23. CASE SinkDone(r)
  BY <1>19, <1>23 DEF SinkDone, Saving
<1> QED
  BY <1>3, <1>4, <1>5, <1>6, <1>7, <1>8, <1>9, <1>10, <1>11, <1>12, <1>13, <1>14, <1>15,
     <1>16, <1>17, <1>18, <1>20, <1>21, <1>22, <1>23
     DEF Request, Recovery, RefreshToken

(* Only logout moves a generation from outside, and it waits for the gate. *)
LEMMA GateCommands ==
    ASSUME TypeInv, GateInv, Login \/ Logout \/ Restore \/ RestoreFailed
    PROVE  GateInv'
<1>1. CASE LogoutInvalidate
  <2>1. logout.client \in Clients
    BY <1>1, Bounds DEF LogoutInvalidate, TypeInv, RestOK, Clients
  <2> SUFFICES ASSUME NEW s \in Requests, Recovering(s)
               PROVE  gate'[req[s].client] = gate[req[s].client]
    BY <1>1 DEF LogoutInvalidate, GateInv, Recovering
  <2>2. gate[req[s].client].lock = s
    BY DEF GateInv
  <2>3. req[s].client # logout.client
    BY <1>1, <2>2, AuthAssumption DEF LogoutInvalidate
  <2>4. req[s].client \in Clients
    BY CallFacts DEF Recovering, Rotating, Saving
  <2> QED
    BY <1>1, <2>1, <2>3, <2>4 DEF LogoutInvalidate, TypeInv, GatesOK
<1>2. CASE Restore \/ RestoreFailed
  <2>1. \A r \in Requests : req'[r].pc = "idle"
    BY <1>2, IdleIsCall DEF Restore, RestoreFailed, Forget
  <2> QED
    BY <2>1 DEF GateInv, Recovering, Rotating, Saving
<1>3. CASE ~LogoutInvalidate /\ (Login \/ Logout)
  <2>1. UNCHANGED <<req, gate>>
    BY <1>3 DEF Login, Logout, LoginBegin, LoginPersist, LoginHalf, LoginArm, LoginAdd, LoginStop,
       LogoutBegin, LogoutRemove, LogoutFailed, LogoutDrop, clientVars
  <2> QED
    BY <2>1 DEF GateInv, Recovering
<1> QED
  BY <1>1, <1>2, <1>3

LEMMA GateInit == Init => GateInv
BY IdleIsCall DEF Init, GateInv, Recovering, Rotating, Saving

LEMMA GateStep == TypeInv /\ GateInv /\ [Next]_vars => GateInv'
<1> SUFFICES ASSUME TypeInv, GateInv, [Next]_vars PROVE GateInv'
  OBVIOUS
<1>1. CASE UNCHANGED vars
  <2>1. UNCHANGED <<req, gate>>
    BY <1>1 DEF vars, clientVars
  <2> QED
    BY <2>1 DEF GateInv, Recovering
<1> QED
  BY <1>1, GateCalls, GateCommands DEF Next

(* For every number of requests, aborts and logouts: at most one request   *)
(* of a client rotates its token, and never for a generation whose outcome *)
(* is already published (AuthRecoveryGate::run).                           *)
THEOREM RecoveryIsSingleFlight == Spec => []SingleFlight
<1>1. GateInv => SingleFlight
  BY DEF GateInv, SingleFlight
<1> QED
  BY <1>1, GateInit, GateStep, TypeInit, TypeStep, PTL DEF Spec

-----------------------------------------------------------------------------
(***************************************************************************)
(* A request that reported success left its session, or a newer one of the *)
(* same login, in SQLite, and the row of a login never returns to an older *)
(* session.                                                                *)
(***************************************************************************)

(* Requests, the session and the row know only clients that exist; the     *)
(* client of a login in progress is the newest one, and unused as yet.     *)
ClientsKnown ==
    /\ \A r \in Requests : req[r].client <= clients
    /\ session <= clients /\ row.by <= clients
    /\ row # NoRow => row.by # 0
    /\ login.pc # "idle" =>
         /\ login.client = clients /\ session < clients
         /\ \A r \in Requests : req[r].client < clients
         /\ agent[clients] = snapshot[clients]
    /\ login.pc = "persist" => row.by < clients

(* Every token there is was issued.                                        *)
TokensIssued ==
    /\ row.token <= issued
    /\ \A c \in Clients : agent[c] <= issued /\ snapshot[c] <= issued
    /\ \A t \in live : t <= issued
    /\ \A r \in Requests : req[r].token <= issued /\ req[r].used <= issued

(* Of each client: the snapshot is not ahead of the row, nor the row of    *)
(* the agent.                                                              *)
SavedInOrder ==
    \A c \in Clients :
        /\ agent[c] # 0 => snapshot[c] <= agent[c]
        /\ row.by = c => row.token >= snapshot[c]
        /\ row.by = c /\ agent[c] # 0 => row.token <= agent[c]

(* What a call k of request r carries, against the agent, the snapshot and *)
(* the row of its client: a save holds credential_persist and is between   *)
(* snapshot and agent; a token that is being rotated is the agent's, or    *)
(* already refused; a rotated one is newer than the agent's, which is dead *)
(* and so cannot move before resume_session replaces it.                   *)
CallOrdered(k, r) ==
    LET c == k.client IN
    /\ k.pc \in {"sink", "stored"} =>
         /\ persisting[c] = r
         /\ k.token >= snapshot[c]
         /\ agent[c] # 0 => k.token <= agent[c]
         /\ k.why = "ok" => k.used <= k.token
    /\ k.pc = "sink" /\ row.by = c => row.token <= k.token
    /\ k.pc = "stored" /\ row.by = c => row.token >= k.token
    /\ k.pc = "token" /\ k.why = "ok" /\ agent[c] # 0 => k.used <= agent[c]
    /\ k.pc = "refresh" => k.token = agent[c] \/ k.token \notin live
    /\ k.pc = "rotated" => agent[c] # 0 /\ agent[c] \notin live /\ agent[c] < k.token
    /\ k.pc = "done" => k.used <= snapshot[c]

CallsOrdered == \A r \in Requests : CallOrdered(req[r], r)

DurableInv == ClientsKnown /\ TokensIssued /\ SavedInOrder /\ CallsOrdered

-----------------------------------------------------------------------------
(* The shape of a call that is over, or starts again: of an Ok the client  *)
(* and the session it succeeded with remain.                               *)
Left(k, r, ok) ==
    /\ k \in Call
    /\ k.pc \in {"idle", "recall", "done"}
    /\ k.client \in {0, req[r].client} /\ k.token = 0 /\ k.used \in {0, req[r].used}
    /\ k.pc = "done" => ok /\ k.client = req[r].client /\ k.used = req[r].used

LEMMA ReturnLeaves ==
    ASSUME TypeInv, NEW r \in Requests, req[r].pc # "idle", NEW ok \in BOOLEAN, Return(r, ok)
    PROVE  \E k : Put(r, k) /\ Left(k, r, ok)
<1> DEFINE done == [IdleCall EXCEPT !.pc = "done", !.client = req[r].client, !.used = req[r].used]
<1>1. req[r] \in Call
  BY CallFacts
<1>2. done \in Call
  BY <1>1, IdleIsCall DEF Call, Idle
<1>3. Left(done, r, TRUE) /\ Left(IdleCall, r, ok)
  BY <1>2, IdleIsCall DEF Left, IdleCall
<1>4. Put(r, IF ok THEN done ELSE IdleCall)
  BY DEF Return
<1> HIDE DEF done
<1> QED
  BY <1>3, <1>4

LEMMA AgainLeaves ==
    ASSUME TypeInv, NEW r \in Requests, req[r].pc # "idle", Again(r)
    PROVE  \E k : Put(r, k) /\ Left(k, r, FALSE)
<1> DEFINE again == [IdleCall EXCEPT !.pc = "recall", !.client = req[r].client]
<1>1. req[r] \in Call
  BY CallFacts
<1>2. again \in Call
  BY <1>1, IdleIsCall DEF Call
<1>3. Left(again, r, FALSE)
  BY <1>2 DEF Left, IdleCall
<1> QED
  BY <1>3 DEF Again

LEMMA SettleLeaves ==
    ASSUME TypeInv, NEW r \in Requests, req[r].pc # "idle", NEW o, Settle(r, o)
    PROVE  \E k : Put(r, k) /\ Left(k, r, FALSE)
BY ReturnLeaves, AgainLeaves DEF Settle

LEMMA SaveLeaves ==
    ASSUME TypeInv, NEW r \in Requests, req[r].pc # "idle", NEW saved \in BOOLEAN,
           AfterSave(r, saved)
    PROVE  \E k : Put(r, k) /\ Left(k, r, saved /\ req[r].why = "ok")
<1>1. CASE req[r].why = "rec"
  <2>1. PICK k : Put(r, k) /\ Left(k, r, FALSE)
    BY <1>1, SettleLeaves DEF AfterSave
  <2> QED
    BY <2>1 DEF Left
<1>2. CASE req[r].why # "rec"
  BY <1>2, ReturnLeaves DEF AfterSave
<1> QED
  BY <1>1, <1>2

-----------------------------------------------------------------------------
(* A step that replaces one call, and at most refuses tokens or passes     *)
(* credential_persist on.                                                  *)
LEMMA OneCall ==
    ASSUME TypeInv, DurableInv, NEW r \in Requests, NEW k, Put(r, k),
           UNCHANGED <<row, session, clients, login, agent, snapshot, issued>>,
           live' \subseteq live,
           \A s \in Requests \ {r} : req[s].pc \in {"sink", "stored"}
                                       => persisting'[req[s].client] = persisting[req[s].client],
           k.client <= clients, login.pc # "idle" => k.client < clients,
           k.token <= issued, k.used <= issued,
           CallOrdered(k, r)'
    PROVE  DurableInv'
<1>1. req'[r] = k /\ \A s \in Requests \ {r} : req'[s] = req[s]
  BY DEF Put, TypeInv, CallsOK
<1>2. ClientsKnown'
  BY <1>1 DEF DurableInv, ClientsKnown
<1>3. TokensIssued'
  BY <1>1 DEF DurableInv, TokensIssued
<1>4. SavedInOrder'
  BY DEF DurableInv, SavedInOrder
<1>5. ASSUME NEW s \in Requests PROVE CallOrdered(req[s], s)'
  <2>1. CASE s = r
    BY <1>1, <2>1 DEF CallOrdered
  <2>2. CASE s # r
    <3>1. CallOrdered(req[s], s) /\ req'[s] = req[s]
      BY <1>1, <2>2 DEF DurableInv, CallsOrdered
    <3> QED
      BY <2>2, <3>1 DEF CallOrdered
  <2> QED
    BY <2>1, <2>2
<1>6. CallsOrdered'
  BY <1>5 DEF CallsOrdered
<1> QED
  BY <1>2, <1>3, <1>4, <1>6 DEF DurableInv

(* So does a call that fails, or starts again.                             *)
LEMMA CallLeaves ==
    ASSUME TypeInv, DurableInv, NEW r \in Requests, req[r].pc # "idle",
           NEW k, Put(r, k), Left(k, r, FALSE),
           UNCHANGED <<row, session, clients, login, agent, snapshot, issued>>,
           live' \subseteq live,
           \A s \in Requests \ {r} : req[s].pc \in {"sink", "stored"}
                                       => persisting'[req[s].client] = persisting[req[s].client]
    PROVE  DurableInv'
<1>1. /\ req[r].client <= clients /\ 0 <= clients
      /\ login.pc # "idle" => req[r].client < clients /\ 0 < clients
  BY DEF DurableInv, ClientsKnown, TypeInv, CallsOK, RestOK, Call
<1>2. 0 <= issued /\ req[r].used <= issued
  BY DEF DurableInv, TokensIssued, TypeInv, RestOK
<1>3. CallOrdered(k, r)'
  BY DEF CallOrdered, Left
<1>4. k.client <= clients /\ (login.pc # "idle" => k.client < clients)
  BY <1>1 DEF Left
<1>5. k.token <= issued /\ k.used <= issued
  BY <1>2 DEF Left
<1> QED
  BY <1>3, <1>4, <1>5, OneCall

-----------------------------------------------------------------------------
(* The steps of a request that touch nothing but its call and its locks.   *)

(* What is known of a call in progress.                                    *)
LEMMA KnownCall ==
    ASSUME TypeInv, DurableInv, NEW r \in Requests, req[r].pc # "idle"
    PROVE  /\ req[r] \in Call /\ req[r].client \in Clients
           /\ req[r].client <= clients /\ (login.pc # "idle" => req[r].client < clients)
           /\ req[r].token <= issued /\ req[r].used <= issued
           /\ req[r].token \in Nat /\ req[r].used \in Nat
           /\ agent[req[r].client] <= issued /\ agent[req[r].client] \in Nat
           /\ snapshot[req[r].client] <= issued /\ snapshot[req[r].client] \in Nat
           /\ row.token \in Nat /\ row.token <= issued /\ issued \in Nat /\ clients \in Nat
           /\ CallOrdered(req[r], r)
<1>1. req[r] \in Call /\ req[r].client \in Clients
  BY CallFacts
<1>2. agent[req[r].client] \in Nat /\ snapshot[req[r].client] \in Nat
  BY <1>1, Bounds DEF TypeInv, RestOK
<1>3. row.token \in Nat /\ issued \in Nat /\ clients \in Nat
  BY Bounds DEF TypeInv, RestOK
<1>4. req[r].token \in Nat /\ req[r].used \in Nat
  BY <1>1, Bounds DEF Call
<1> QED
  BY <1>1, <1>2, <1>3, <1>4 DEF DurableInv, ClientsKnown, TokensIssued, CallsOrdered

LEMMA DurableQuiet ==
    ASSUME TypeInv, DurableInv, NEW r \in Requests,
           \/ Start(r) \/ Succeed(r) \/ Unauthorized(r) \/ Fail(r) \/ Resumed(r) \/ Enter(r)
    PROVE  DurableInv'
<1> USE DEF store, commands, clientVars, provider
<1>1. CASE Start(r)
  <2>1. PICK k : k = [IdleCall EXCEPT !.pc = "call", !.client = session]
    OBVIOUS
  <2>2. Put(r, k) /\ k.client = session /\ k.pc = "call" /\ k.token = 0 /\ k.used = 0
    BY <1>1, <2>1 DEF Start, IdleCall
  <2>3. k.client <= clients /\ (login.pc # "idle" => k.client < clients)
    BY <2>2 DEF DurableInv, ClientsKnown
  <2>4. 0 <= issued
    BY Bounds DEF TypeInv, RestOK
  <2>5. CallOrdered(k, r)'
    BY <2>2 DEF CallOrdered
  <2> QED
    BY <1>1, <2>2, <2>3, <2>4, <2>5, OneCall DEF Start
<1>2. CASE Succeed(r)
  <2>1. PICK k : k = [req[r] EXCEPT !.pc = "token", !.why = "ok", !.used = agent[req[r].client]]
    OBVIOUS
  <2>2. req[r].pc # "idle" /\ Put(r, k)
    BY <1>2, <2>1 DEF Succeed
  <2>3. /\ k.pc = "token" /\ k.client = req[r].client /\ k.token = req[r].token
        /\ k.used = agent[req[r].client]
    BY <2>1, <2>2, KnownCall DEF Call
  <2>4. CallOrdered(k, r)'
    BY <1>2, <2>2, <2>3, KnownCall DEF CallOrdered, Succeed
  <2> QED
    BY <1>2, <2>2, <2>3, <2>4, KnownCall, OneCall DEF Succeed
<1>3. CASE Unauthorized(r)
  <2>1. PICK k : k = [req[r] EXCEPT !.pc = "gate", !.seen = gate[req[r].client].gen]
    OBVIOUS
  <2>2. req[r].pc # "idle" /\ Put(r, k)
    BY <1>3, <2>1 DEF Unauthorized
  <2>3. /\ k.pc = "gate" /\ k.client = req[r].client /\ k.token = req[r].token
        /\ k.used = req[r].used
    BY <2>1, <2>2, KnownCall DEF Call
  <2>4. CallOrdered(k, r)'
    BY <2>3 DEF CallOrdered
  <2> QED
    BY <1>3, <2>2, <2>3, <2>4, KnownCall, OneCall DEF Unauthorized
<1>4. CASE Fail(r)
  <2>1. PICK k : k = [req[r] EXCEPT !.pc = "token", !.why = "err"]
    OBVIOUS
  <2>2. req[r].pc # "idle" /\ Put(r, k)
    BY <1>4, <2>1 DEF Fail
  <2>3. /\ k.pc = "token" /\ k.why = "err" /\ k.client = req[r].client
        /\ k.token = req[r].token /\ k.used = req[r].used
    BY <2>1, <2>2, KnownCall DEF Call
  <2>4. CallOrdered(k, r)'
    BY <2>3 DEF CallOrdered
  <2> QED
    BY <1>4, <2>2, <2>3, <2>4, KnownCall, OneCall DEF Fail
<1>5. CASE Resumed(r)
  <2>1. PICK k : k = [req[r] EXCEPT !.pc = "token", !.why = "rec"]
    OBVIOUS
  <2>2. req[r].pc # "idle" /\ Put(r, k)
    BY <1>5, <2>1 DEF Resumed
  <2>3. /\ k.pc = "token" /\ k.why = "rec" /\ k.client = req[r].client
        /\ k.token = req[r].token /\ k.used = req[r].used
    BY <2>1, <2>2, KnownCall DEF Call
  <2>4. CallOrdered(k, r)'
    BY <2>3 DEF CallOrdered
  <2> QED
    BY <1>5, <2>2, <2>3, <2>4, KnownCall, OneCall DEF Resumed
<1>6. CASE Enter(r)
  <2> DEFINE c == req[r].client
  <2>1. CASE gate[c].gen # req[r].seen
    <3>1. req[r].pc # "idle" /\ (Again(r) \/ Return(r, FALSE))
      BY <1>6, <2>1 DEF Enter
    <3>2. PICK k : Put(r, k) /\ Left(k, r, FALSE)
      BY <3>1, ReturnLeaves, AgainLeaves
    <3> QED
      BY <1>6, <3>1, <3>2, CallLeaves DEF Enter
  <2>2. CASE gate[c].gen = req[r].seen
    <3>1. PICK k : k = [req[r] EXCEPT !.pc = IF agent[c] # 0 THEN "refresh" ELSE "reauth",
                                      !.token = agent[c]]
      OBVIOUS
    <3>2. req[r].pc # "idle" /\ Put(r, k)
      BY <1>6, <2>2, <3>1 DEF Enter
    <3>3. /\ k.pc \in {"refresh", "reauth"} /\ k.client = c /\ k.token = agent[c]
          /\ k.used = req[r].used
      BY <3>1, <3>2, KnownCall DEF Call
    <3>4. CallOrdered(k, r)'
      BY <1>6, <3>3 DEF CallOrdered, Enter
    <3> QED
      BY <1>6, <3>2, <3>3, <3>4, KnownCall, OneCall DEF Enter
  <2> QED
    BY <2>1, <2>2
<1> QED
  BY <1>1, <1>2, <1>3, <1>4, <1>5, <1>6

LEMMA DurableEnds ==
    ASSUME TypeInv, DurableInv, NEW r \in Requests,
           \/ FailAgain(r) \/ LoseRefresh(r) \/ ReauthFailed(r) \/ Refuse(r) \/ Abort(r)
           \/ SinkFailed(r)
    PROVE  DurableInv'
<1> USE DEF store, commands, clientVars, provider
<1>1. CASE FailAgain(r)
  <2>1. req[r].pc # "idle" /\ Return(r, FALSE)
    BY <1>1 DEF FailAgain
  <2>2. PICK k : Put(r, k) /\ Left(k, r, FALSE)
    BY <2>1, ReturnLeaves
  <2> QED
    BY <1>1, <2>1, <2>2, CallLeaves DEF FailAgain
<1>2. CASE LoseRefresh(r)
  <2>1. req[r].pc # "idle" /\ Settle(r, "failed")
    BY <1>2 DEF LoseRefresh
  <2>2. PICK k : Put(r, k) /\ Left(k, r, FALSE)
    BY <2>1, SettleLeaves
  <2> QED
    BY <1>2, <2>1, <2>2, CallLeaves DEF LoseRefresh
<1>3. CASE ReauthFailed(r)
  <2>1. req[r].pc # "idle" /\ \E o : Settle(r, o)
    BY <1>3 DEF ReauthFailed
  <2>2. PICK k : Put(r, k) /\ Left(k, r, FALSE)
    BY <2>1, SettleLeaves
  <2> QED
    BY <1>3, <2>1, <2>2, CallLeaves DEF ReauthFailed
<1>4. CASE Refuse(r)
  <2>1. req[r].pc # "idle" /\ live' \subseteq live
    BY <1>4 DEF Refuse
  <2>2. CASE HasPassword
    <3>1. PICK k : k = [req[r] EXCEPT !.pc = "reauth"]
      OBVIOUS
    <3>2. Put(r, k)
      BY <1>4, <2>2, <3>1 DEF Refuse, Goto
    <3>3. /\ k.pc = "reauth" /\ k.client = req[r].client
          /\ k.token = req[r].token /\ k.used = req[r].used
      BY <2>1, <3>1, KnownCall DEF Call
    <3>4. CallOrdered(k, r)'
      BY <3>3 DEF CallOrdered
    <3> QED
      BY <1>4, <2>1, <3>2, <3>3, <3>4, KnownCall, OneCall DEF Refuse
  <2>3. CASE ~HasPassword
    <3>1. PICK k : Put(r, k) /\ Left(k, r, FALSE)
      BY <1>4, <2>1, <2>3, SettleLeaves DEF Refuse
    <3> QED
      BY <1>4, <2>1, <3>1, CallLeaves DEF Refuse
  <2> QED
    BY <2>2, <2>3
<1>5. ASSUME NEW s \in Requests \ {r}, req[s].pc \in {"sink", "stored"}
      PROVE  req[s].client \in Clients /\ persisting[req[s].client] = s
  BY <1>5, KnownCall DEF CallOrdered
<1>6. CASE Abort(r)
  <2>1. req[r].pc # "idle" /\ Put(r, IdleCall)
    BY <1>6 DEF Abort, Idle
  <2>2. Left(IdleCall, r, FALSE)
    BY IdleIsCall DEF Left, IdleCall
  <2>3. \A s \in Requests \ {r} : req[s].pc \in {"sink", "stored"}
                                   => persisting'[req[s].client] = persisting[req[s].client]
    BY <1>5, <1>6 DEF Abort, TypeInv, RestOK
  <2> QED
    BY <1>6, <2>1, <2>2, <2>3, CallLeaves DEF Abort
<1>7. CASE SinkFailed(r)
  <2>1. req[r].pc # "idle" /\ AfterSave(r, FALSE)
    BY <1>7 DEF SinkFailed
  <2>2. PICK k : Put(r, k) /\ Left(k, r, FALSE)
    BY <2>1, SaveLeaves DEF Left
  <2>3. req[r].client \in Clients /\ persisting[req[r].client] = r
    BY <1>7, <2>1, KnownCall DEF CallOrdered, SinkFailed
  <2>4. \A s \in Requests \ {r} : req[s].pc \in {"sink", "stored"}
                                   => persisting'[req[s].client] = persisting[req[s].client]
    BY <1>5, <1>7, <2>3 DEF SinkFailed, TypeInv, RestOK
  <2> QED
    BY <1>7, <2>1, <2>2, <2>4, CallLeaves DEF SinkFailed
<1> QED
  BY <1>1, <1>2, <1>3, <1>4, <1>6, <1>7

-----------------------------------------------------------------------------
(* The steps that move the agent's session or the provider's tokens.       *)

(* A token just issued is newer than every token there is.                 *)
LEMMA DurableRotate ==
    ASSUME TypeInv, DurableInv, NEW r \in Requests, Rotate(r)
    PROVE  DurableInv'
<1> USE DEF store, commands, clientVars, provider
<1>1. PICK k : k = [req[r] EXCEPT !.pc = "rotated", !.token = issued + 1]
  OBVIOUS
<1>2. /\ req[r].pc = "refresh" /\ req[r].token \in live /\ Put(r, k)
      /\ issued' = issued + 1 /\ live' = (live \ {req[r].token}) \union {issued + 1}
  BY <1>1 DEF Rotate
<1>3. /\ k.pc = "rotated" /\ k.client = req[r].client /\ k.token = issued + 1
      /\ k.used = req[r].used
  BY <1>1, <1>2, KnownCall DEF Call
<1>4. req'[r] = k /\ \A s \in Requests \ {r} : req'[s] = req[s]
  BY <1>2 DEF Put, TypeInv, CallsOK
<1>5. UNCHANGED <<row, session, clients, login, agent, snapshot, persisting>>
  BY DEF Rotate
<1>6. ClientsKnown'
  BY <1>2, <1>3, <1>4, <1>5, KnownCall DEF DurableInv, ClientsKnown
<1>7. issued \in Nat /\ \A c \in Clients : agent[c] \in Nat /\ snapshot[c] \in Nat
  BY Bounds DEF TypeInv, RestOK
<1>8. \A s \in Requests : req[s].token \in Nat /\ req[s].used \in Nat
  BY Bounds DEF TypeInv, CallsOK, Call
<1>9. row.token \in Nat /\ \A t \in live : t \in Nat
  BY Bounds DEF TypeInv, RestOK, Tokens
<1>10. TokensIssued'
  BY <1>2, <1>3, <1>4, <1>5, <1>7, <1>8, <1>9, KnownCall DEF DurableInv, TokensIssued
<1>11. SavedInOrder'
  BY <1>5 DEF DurableInv, SavedInOrder
<1>12. CallOrdered(k, r)'
  <2>1. req[r].token = agent[req[r].client] /\ 0 \notin live
    BY <1>2, KnownCall DEF CallOrdered, TypeInv, RestOK, Tokens
  <2>2. /\ agent[req[r].client] # 0 /\ agent[req[r].client] \notin live'
        /\ agent[req[r].client] < issued + 1
    BY <1>2, <2>1, KnownCall
  <2> QED
    BY <1>3, <1>5, <2>2 DEF CallOrdered
<1>13. ASSUME NEW s \in Requests \ {r} PROVE CallOrdered(req[s], s)'
  <2>1. CallOrdered(req[s], s) /\ req'[s] = req[s] /\ req[s].token <= issued
    BY <1>4 DEF DurableInv, CallsOrdered, TokensIssued
  <2>2. req[s].pc = "rotated" => agent[req[s].client] <= issued /\ agent[req[s].client] \in Nat
    BY <2>1, KnownCall
  <2>3. req[s].token \notin live => req[s].token \notin live'
    BY <1>2, <1>7, <1>8, <2>1
  <2> QED
    BY <1>2, <1>5, <1>7, <2>1, <2>2, <2>3 DEF CallOrdered
<1>14. CallsOrdered'
  BY <1>4, <1>12, <1>13 DEF CallsOrdered, CallOrdered
<1> QED
  BY <1>6, <1>10, <1>11, <1>14 DEF DurableInv

(* The agent of one client takes a token that is newer than its own, or    *)
(* none, while at most the call of r moves.                                *)
LEMMA AgentMoves ==
    ASSUME TypeInv, TypeInv', DurableInv, NEW r \in Requests, NEW t, NEW k, req[r].pc # "idle",
           agent' = [agent EXCEPT ![req[r].client] = t],
           t # 0 =>
             /\ t \in Nat /\ t > agent[req[r].client] /\ t > snapshot[req[r].client]
             /\ row.by = req[r].client => t > row.token
             /\ \A s \in Requests : req[s].client = req[r].client =>
                         /\ req[s].pc \in {"sink", "stored"} => t >= req[s].token
                         /\ req[s].pc = "token" /\ req[s].why = "ok" => t >= req[s].used,
           UNCHANGED <<row, session, clients, login, snapshot, persisting>>,
           issued' >= issued, issued' \in Nat, t <= issued', live' \subseteq Tokens,
           \A u \in live' : u <= issued' /\ (u \in live \/ u > issued),
           req'[r] = k, \A s \in Requests \ {r} : req'[s] = req[s],
           k.client \in {0, req[r].client}, k.token <= issued, k.used <= issued,
           \A s \in Requests \ {r} : req[s].client = req[r].client /\ req[s].pc = "refresh"
                                       => req[s].token \notin live',
           \A s \in Requests \ {r} : req[s].client = req[r].client => req[s].pc # "rotated",
           CallOrdered(k, r)'
    PROVE  DurableInv'
<1> DEFINE c == req[r].client
<1>1. c \in Clients /\ c \in Nat \ {0} /\ c <= clients /\ (login.pc # "idle" => c < clients)
  BY KnownCall, Bounds DEF Clients
<1>2. issued \in Nat /\ clients \in 0..MaxClients /\ \A d \in Clients : agent[d] \in Nat /\ snapshot[d] \in Nat
  BY Bounds DEF TypeInv, RestOK
<1>3. agent'[c] = t /\ \A d \in Clients \ {c} : agent'[d] = agent[d]
  BY <1>1 DEF TypeInv, RestOK
<1>4. \A s \in Requests : req[s].token \in Nat /\ req[s].used \in Nat
  BY Bounds DEF TypeInv, CallsOK, Call
<1>5. row.token \in Nat
  BY Bounds DEF TypeInv, RestOK
<1>6. ClientsKnown'
  <2>1. \A s \in Requests : req'[s].client <= clients
    BY <1>1, <1>2, Bounds DEF DurableInv, ClientsKnown
  <2>2. login.pc # "idle" => \A s \in Requests : req'[s].client < clients
    BY <1>1, <1>2, Bounds DEF DurableInv, ClientsKnown
  <2>3. login.pc # "idle" => agent'[clients] = snapshot[clients]
    <3>1. login.pc # "idle" => clients \in Clients /\ clients # c
      BY <1>1, <1>2, Bounds DEF Clients
    <3> QED
      BY <1>3, <3>1 DEF DurableInv, ClientsKnown
  <2> QED
    BY <2>1, <2>2, <2>3 DEF DurableInv, ClientsKnown
<1>7. TokensIssued'
  <2>1. \A s \in Requests : req'[s].token <= issued' /\ req'[s].used <= issued'
    <3>1. ASSUME NEW s \in Requests PROVE req'[s].token <= issued /\ req'[s].used <= issued
      BY DEF DurableInv, TokensIssued
    <3>2. \A s \in Requests : req'[s].token \in Nat /\ req'[s].used \in Nat
      BY Bounds DEF TypeInv, CallsOK, Call
    <3> QED
      BY <1>2, <3>1, <3>2
  <2>2. \A d \in Clients : agent'[d] <= issued' /\ snapshot'[d] <= issued'
    BY <1>2, <1>3 DEF DurableInv, TokensIssued
  <2> QED
    BY <1>2, <1>5, <2>1, <2>2 DEF DurableInv, TokensIssued
<1>8. SavedInOrder'
  BY <1>2, <1>3, <1>5 DEF DurableInv, SavedInOrder
<1>9. ASSUME NEW s \in Requests \ {r} PROVE CallOrdered(req[s], s)'
  <2>1. CallOrdered(req[s], s) /\ req'[s] = req[s]
    BY DEF DurableInv, CallsOrdered
  <2>2. req[s].token <= issued
    BY DEF DurableInv, TokensIssued
  <2>3. CASE req[s].client = c
    <3>1. req[s].pc # "rotated" /\ (req[s].pc = "refresh" => req[s].token \notin live')
      BY <2>3, Zenon
    <3> QED
      BY <1>2, <1>3, <1>4, <2>1, <2>3, <3>1 DEF CallOrdered
  <2>4. CASE req[s].client # c
    <3>1. CASE req[s].pc = "idle"
      BY <2>1, <3>1 DEF CallOrdered
    <3>2. CASE req[s].pc # "idle"
      <4>1. /\ req[s].client \in Clients /\ agent'[req[s].client] = agent[req[s].client]
            /\ agent[req[s].client] <= issued /\ agent[req[s].client] \in Nat
        BY <1>3, <2>4, <3>2, KnownCall
      <4>2. /\ req[s].token \notin live => req[s].token \notin live'
            /\ agent[req[s].client] \notin live => agent[req[s].client] \notin live'
        BY <1>2, <1>4, <2>2, <4>1 DEF Tokens
      <4> QED
        BY <2>1, <4>1, <4>2 DEF CallOrdered
    <3> QED
      BY <3>1, <3>2
  <2> QED
    BY <2>3, <2>4
<1>10. CallsOrdered'
  BY <1>9 DEF CallsOrdered, CallOrdered
<1> QED
  BY <1>6, <1>7, <1>8, <1>10 DEF DurableInv

(* No two recoveries of a client.                                          *)
LEMMA OneRecovers ==
    ASSUME TypeInv, GateInv, NEW r \in Requests, NEW s \in Requests,
           req[r].pc \in Rotating, req[s].pc \in Rotating, req[s].client = req[r].client
    PROVE  s = r
BY DEF GateInv, Recovering

LEMMA DurableAgent ==
    ASSUME TypeInv, TypeInv', DurableInv, GateInv, NEW r \in Requests,
           SilentRefresh(r) \/ Resume(r) \/ ResumeFailed(r) \/ Reauthenticate(r)
    PROVE  DurableInv'
<1> USE DEF store, commands, provider
<1> DEFINE c == req[r].client
<1>1. req[r].pc # "idle"
  BY DEF SilentRefresh, Resume, ResumeFailed, Reauthenticate
<1>2. c \in Clients /\ issued \in Nat /\ issued' \in Nat /\ live \subseteq Tokens /\ live' \subseteq Tokens
  BY <1>1, KnownCall, Bounds DEF TypeInv, RestOK
<1>3. \A u \in live : u \in Nat /\ u <= issued
  BY <1>2, Bounds DEF DurableInv, TokensIssued, Tokens
<1>4. /\ agent[c] \in Nat /\ snapshot[c] \in Nat /\ row.token \in Nat
      /\ agent[c] <= issued /\ snapshot[c] <= issued /\ row.token <= issued
  BY <1>1, KnownCall
<1>5. \A s \in Requests : /\ req[s].token \in Nat /\ req[s].used \in Nat
                          /\ req[s].token <= issued /\ req[s].used <= issued
  BY Bounds DEF TypeInv, CallsOK, Call, DurableInv, TokensIssued
<1>6. \A s \in Requests : CallOrdered(req[s], s)
  BY DEF DurableInv, CallsOrdered
<1>7. \A k : Put(r, k) => req'[r] = k /\ \A s \in Requests \ {r} : req'[s] = req[s]
  BY DEF Put, TypeInv, CallsOK
<1>8. CASE SilentRefresh(r)
  <2>1. PICK k : k = req[r]
    OBVIOUS
  <2>2. PICK t : t = issued + 1
    OBVIOUS
  <2>3. /\ agent[c] \in live /\ issued' = t /\ live' = (live \ {agent[c]}) \union {t}
        /\ agent' = [agent EXCEPT ![c] = t] /\ req[r].pc \in {"call", "recall"}
        /\ UNCHANGED <<row, session, clients, login, snapshot, persisting, req>>
    BY <1>8, <2>2 DEF SilentRefresh
  <2>4. t \in Nat /\ t > issued
    BY <1>2, <2>2
  <2>5. /\ t > agent[c] /\ t > snapshot[c] /\ t > row.token
        /\ \A s \in Requests : t >= req[s].token /\ t >= req[s].used
    BY <1>2, <1>4, <1>5, <2>4
  <2>6. \A u \in live' : u <= issued' /\ (u \in live \/ u > issued)
    BY <1>2, <1>3, <2>3, <2>4
  <2>7. \A s \in Requests \ {r} : req[s].client = c /\ req[s].pc = "refresh"
                                    => req[s].token \notin live'
    BY <1>2, <1>5, <1>6, <2>3, <2>4 DEF CallOrdered
  <2>8. \A s \in Requests \ {r} : req[s].client = c => req[s].pc # "rotated"
    BY <1>6, <2>3 DEF CallOrdered
  <2>9. CallOrdered(k, r)'
    BY <2>1, <2>3 DEF CallOrdered
  <2>10. k.client = c /\ k.token <= issued /\ k.used <= issued /\ req'[r] = k
    BY <1>5, <2>1, <2>3
  <2>11. \A s \in Requests \ {r} : req'[s] = req[s]
    BY <2>3
  <2>12. issued' >= issued /\ t <= issued'
    BY <1>2, <2>3, <2>4
  <2> QED
    BY <1>1, <1>2, <2>3, <2>4, <2>5, <2>6, <2>7, <2>8, <2>9, <2>10, <2>11, <2>12, AgentMoves
<1>9. ASSUME NEW s \in Requests \ {r}, req[r].pc \in Rotating, req[s].client = c
      PROVE  req[s].pc \notin {"refresh", "rotated"}
  BY <1>9, OneRecovers DEF Rotating
<1>10. CASE Resume(r)
  <2>1. PICK k : k = [req[r] EXCEPT !.pc = "resume"]
    OBVIOUS
  <2>2. PICK t : t = req[r].token
    OBVIOUS
  <2>3. /\ req[r].pc = "rotated" /\ agent' = [agent EXCEPT ![c] = t] /\ Put(r, k)
        /\ UNCHANGED <<row, session, clients, login, snapshot, persisting, issued, live>>
    BY <1>10, <2>1, <2>2 DEF Resume, Goto
  <2>4. k.pc = "resume" /\ k.client = c /\ k.token = req[r].token /\ k.used = req[r].used
    BY <1>1, <2>1, KnownCall DEF Call
  <2>5. agent[c] # 0 /\ agent[c] < t /\ t \in Nat /\ t <= issued
    BY <1>5, <1>6, <2>2, <2>3 DEF CallOrdered
  <2>6. t > snapshot[c] /\ (row.by = c => t > row.token)
    BY <1>2, <1>4, <2>5 DEF DurableInv, SavedInOrder
  <2>7. \A s \in Requests : req[s].client = c =>
             /\ req[s].pc \in {"sink", "stored"} => t >= req[s].token
             /\ req[s].pc = "token" /\ req[s].why = "ok" => t >= req[s].used
    BY <1>4, <1>5, <1>6, <2>5 DEF CallOrdered
  <2>8. \A s \in Requests \ {r} : req[s].client = c => req[s].pc \notin {"refresh", "rotated"}
    BY <1>9, <2>3 DEF Rotating
  <2>9. CallOrdered(k, r)'
    BY <2>4 DEF CallOrdered
  <2>10. \A u \in live' : u <= issued' /\ (u \in live \/ u > issued)
    BY <1>3, <2>3
  <2>11. k.token <= issued /\ k.used <= issued /\ issued' >= issued /\ t <= issued'
    BY <1>2, <1>5, <2>3, <2>4, <2>5
  <2>12. req'[r] = k /\ \A s \in Requests \ {r} : req'[s] = req[s]
    BY <1>7, <2>3
  <2> QED
    BY <1>1, <1>2, <2>3, <2>4, <2>5, <2>6, <2>7, <2>8, <2>9, <2>10, <2>11, <2>12, AgentMoves
<1>11. CASE ResumeFailed(r)
  <2>11. PICK t : t = 0
    OBVIOUS
  <2>1. /\ req[r].pc = "resume" /\ agent' = [agent EXCEPT ![c] = t] /\ Settle(r, "failed")
        /\ UNCHANGED <<row, session, clients, login, snapshot, persisting, issued, live>>
    BY <1>11, <2>11 DEF ResumeFailed
  <2>2. PICK k : Put(r, k) /\ Left(k, r, FALSE)
    BY <1>1, <2>1, SettleLeaves
  <2>3. k.client \in {0, c} /\ k.token <= issued /\ k.used <= issued
    BY <1>2, <1>5, <2>2 DEF Left
  <2>4. CallOrdered(k, r)'
    BY <2>2 DEF CallOrdered, Left
  <2>5. \A s \in Requests \ {r} : req[s].client = c => req[s].pc \notin {"refresh", "rotated"}
    BY <1>9, <2>1 DEF Rotating
  <2>6. \A u \in live' : u <= issued' /\ (u \in live \/ u > issued)
    BY <1>3, <2>1
  <2>7. issued' >= issued /\ t <= issued'
    BY <1>2, <2>1, <2>11
  <2>8. req'[r] = k /\ \A s \in Requests \ {r} : req'[s] = req[s]
    BY <1>7, <2>2
  <2>9. /\ \A s \in Requests \ {r} : req[s].client = c /\ req[s].pc = "refresh"
                                        => req[s].token \notin live'
        /\ \A s \in Requests \ {r} : req[s].client = c => req[s].pc # "rotated"
    BY <2>5
  <2>10. UNCHANGED <<row, session, clients, login, snapshot, persisting>>
    BY <2>1
  <2>12. t # 0 =>
           /\ t \in Nat /\ t > agent[c] /\ t > snapshot[c]
           /\ row.by = c => t > row.token
           /\ \A s \in Requests : req[s].client = c =>
                /\ req[s].pc \in {"sink", "stored"} => t >= req[s].token
                /\ req[s].pc = "token" /\ req[s].why = "ok" => t >= req[s].used
    BY <2>11
  <2> HIDE DEF c
  <2> QED
    BY <1>1, <1>2, <2>1, <2>3, <2>4, <2>6, <2>7, <2>8, <2>9, <2>10, <2>12, AgentMoves DEF c
<1>12. CASE Reauthenticate(r)
  <2>1. PICK k : k = [req[r] EXCEPT !.pc = "token", !.why = "rec"]
    OBVIOUS
  <2>2. PICK t : t = issued + 1
    OBVIOUS
  <2>3. /\ req[r].pc = "reauth" /\ issued' = t /\ live' = live \union {t}
        /\ agent' = [agent EXCEPT ![c] = t] /\ Put(r, k)
        /\ UNCHANGED <<row, session, clients, login, snapshot, persisting>>
    BY <1>12, <2>1, <2>2 DEF Reauthenticate
  <2>4. /\ k.pc = "token" /\ k.why = "rec" /\ k.client = c /\ k.token = req[r].token
        /\ k.used = req[r].used
    BY <1>1, <2>1, KnownCall DEF Call
  <2>5. t \in Nat /\ t > issued
    BY <1>2, <2>2
  <2>6. /\ t > agent[c] /\ t > snapshot[c] /\ t > row.token
        /\ \A s \in Requests : t >= req[s].token /\ t >= req[s].used
    BY <1>2, <1>4, <1>5, <2>5
  <2>7. \A u \in live' : u <= issued' /\ (u \in live \/ u > issued)
    BY <1>2, <1>3, <2>3, <2>5
  <2>8. \A s \in Requests \ {r} : req[s].client = c => req[s].pc \notin {"refresh", "rotated"}
    BY <1>9, <2>3 DEF Rotating
  <2>9. CallOrdered(k, r)'
    BY <2>4 DEF CallOrdered
  <2>10. k.token <= issued /\ k.used <= issued /\ issued' >= issued /\ t <= issued'
    BY <1>2, <1>5, <2>3, <2>4, <2>5
  <2>11. req'[r] = k /\ \A s \in Requests \ {r} : req'[s] = req[s]
    BY <1>7, <2>3
  <2> QED
    BY <1>1, <1>2, <2>3, <2>4, <2>5, <2>6, <2>7, <2>8, <2>9, <2>10, <2>11, AgentMoves
<1> QED
  BY <1>8, <1>10, <1>11, <1>12

-----------------------------------------------------------------------------
(* refresh_token: credential_persist makes a client save one session at a  *)
(* time.                                                                   *)

LEMMA OneSaves ==
    ASSUME TypeInv, DurableInv, NEW r \in Requests, NEW s \in Requests \ {r},
           req[s].pc \in {"sink", "stored"}
    PROVE  persisting[req[s].client] = s
BY KnownCall DEF CallOrdered

LEMMA DurableRead ==
    ASSUME TypeInv, DurableInv, NEW r \in Requests, ReadSession(r)
    PROVE  DurableInv'
<1> USE DEF store, commands, provider
<1> DEFINE c == req[r].client
<1>1. /\ req[r].pc = "token" /\ req[r].pc # "idle" /\ persisting[c] = NoOne
      /\ UNCHANGED <<row, session, clients, login, agent, snapshot, issued, live>>
  BY DEF ReadSession
<1>2. CASE agent[c] \in {0, snapshot[c]}
  <2>1. AfterSave(r, agent[c] # 0) /\ UNCHANGED persisting
    BY <1>2 DEF ReadSession
  <2>2. PICK k : Put(r, k) /\ Left(k, r, agent[c] # 0 /\ req[r].why = "ok")
    BY <1>1, <2>1, SaveLeaves
  <2>3. /\ k.client \in {0, c} /\ k.token = 0 /\ k.used \in {0, req[r].used}
        /\ k.pc \in {"idle", "recall", "done"}
        /\ k.pc = "done" => agent[c] # 0 /\ req[r].why = "ok" /\ k.client = c
                            /\ k.used = req[r].used
    BY <2>2 DEF Left
  <2>4. k.pc = "done" => k.used <= snapshot[c]
    BY <1>1, <1>2, <2>3, KnownCall DEF CallOrdered
  <2>5. CallOrdered(k, r)'
    BY <1>1, <2>3, <2>4 DEF CallOrdered
  <2>6. /\ k.client <= clients /\ (login.pc # "idle" => k.client < clients)
        /\ k.token <= issued /\ k.used <= issued
    <3>1. c \in Nat \ {0}
      BY <1>1, KnownCall, Bounds DEF Clients
    <3> QED
      BY <1>1, <2>3, <3>1, KnownCall
  <2> QED
    BY <1>1, <2>1, <2>2, <2>5, <2>6, OneCall
<1>3. CASE agent[c] \notin {0, snapshot[c]}
  <2>1. PICK k : k = [req[r] EXCEPT !.pc = "sink", !.token = agent[c]]
    OBVIOUS
  <2>2. Put(r, k) /\ persisting' = [persisting EXCEPT ![c] = r]
    BY <1>3, <2>1 DEF ReadSession
  <2>3. /\ k.pc = "sink" /\ k.client = c /\ k.token = agent[c] /\ k.used = req[r].used
        /\ k.why = req[r].why
    BY <1>1, <2>1, KnownCall DEF Call
  <2>4. c \in Clients /\ persisting'[c] = r
    BY <1>1, <2>2, KnownCall DEF TypeInv, RestOK
  <2>5. /\ snapshot[c] <= agent[c] /\ (row.by = c => row.token <= agent[c])
        /\ req[r].why = "ok" => req[r].used <= agent[c]
    BY <1>1, <1>3, <2>4, KnownCall DEF DurableInv, SavedInOrder, CallOrdered
  <2>6. CallOrdered(k, r)'
    BY <1>1, <2>3, <2>4, <2>5, KnownCall DEF CallOrdered
  <2>7. ASSUME NEW s \in Requests \ {r}, req[s].pc \in {"sink", "stored"}
        PROVE  persisting'[req[s].client] = persisting[req[s].client]
    <3>1. s # NoOne /\ persisting[req[s].client] = s
      BY <2>7, OneSaves, AuthAssumption
    <3> QED
      BY <1>1, <2>2, <3>1 DEF TypeInv, RestOK
  <2> QED
    BY <1>1, <2>2, <2>3, <2>6, <2>7, KnownCall, OneCall
<1> QED
  BY <1>2, <1>3

LEMMA DurableWrite ==
    ASSUME TypeInv, DurableInv, NEW r \in Requests, SinkWrite(r)
    PROVE  DurableInv'
<1> USE DEF commands, clientVars, provider
<1> DEFINE c == req[r].client
<1>1. PICK k : k = [req[r] EXCEPT !.pc = "stored"]
  OBVIOUS
<1>2. /\ req[r].pc = "sink" /\ req[r].pc # "idle" /\ Put(r, k) /\ row # NoRow
      /\ row' = [owner |-> row.owner, by |-> c, token |-> req[r].token, half |-> row.half]
      /\ UNCHANGED <<session, clients, login, agent, snapshot, issued, live, persisting>>
  BY <1>1 DEF SinkWrite, Goto
<1>3. /\ k.pc = "stored" /\ k.client = c /\ k.token = req[r].token /\ k.used = req[r].used
      /\ k.why = req[r].why
  BY <1>1, <1>2, KnownCall DEF Call
<1>4. req'[r] = k /\ \A s \in Requests \ {r} : req'[s] = req[s]
  BY <1>2 DEF Put, TypeInv, CallsOK
<1>5. row'.by = c /\ row'.token = req[r].token
  BY <1>2
<1>6. /\ c \in Clients /\ c # 0 /\ c <= clients /\ (login.pc # "idle" => c < clients)
      /\ persisting[c] = r /\ req[r].token >= snapshot[c] /\ req[r].token <= issued
      /\ agent[c] # 0 => req[r].token <= agent[c]
  BY <1>2, KnownCall, Bounds DEF CallOrdered, Clients
<1>7. ClientsKnown'
  BY <1>2, <1>3, <1>4, <1>5, <1>6 DEF DurableInv, ClientsKnown
<1>8. TokensIssued'
  BY <1>2, <1>3, <1>4, <1>5, <1>6 DEF DurableInv, TokensIssued
<1>9. SavedInOrder'
  BY <1>2, <1>5, <1>6 DEF DurableInv, SavedInOrder
<1>10. CallOrdered(k, r)'
  BY <1>2, <1>3, <1>5, <1>6, KnownCall DEF CallOrdered
<1>11. ASSUME NEW s \in Requests \ {r} PROVE CallOrdered(req[s], s)'
  <2>1. CallOrdered(req[s], s) /\ req'[s] = req[s]
    BY <1>4 DEF DurableInv, CallsOrdered
  <2>2. req[s].pc \in {"sink", "stored"} => req[s].client # c
    BY <1>6, OneSaves
  <2> QED
    BY <1>2, <1>5, <2>1, <2>2 DEF CallOrdered
<1>12. CallsOrdered'
  BY <1>4, <1>10, <1>11 DEF CallsOrdered, CallOrdered
<1> QED
  BY <1>7, <1>8, <1>9, <1>12 DEF DurableInv

LEMMA DurableDone ==
    ASSUME TypeInv, DurableInv, NEW r \in Requests, SinkDone(r)
    PROVE  DurableInv'
<1> USE DEF store, commands, provider
<1> DEFINE c == req[r].client
<1>1. /\ req[r].pc = "stored" /\ req[r].pc # "idle" /\ AfterSave(r, TRUE)
      /\ snapshot' = [snapshot EXCEPT ![c] = req[r].token]
      /\ persisting' = [persisting EXCEPT ![c] = NoOne]
      /\ UNCHANGED <<row, session, clients, login, agent, issued, live>>
  BY DEF SinkDone
<1>2. PICK k : Put(r, k) /\ Left(k, r, req[r].why = "ok")
  BY <1>1, SaveLeaves
<1>3. /\ k.client \in {0, c} /\ k.token = 0 /\ k.used \in {0, req[r].used}
      /\ k.pc \in {"idle", "recall", "done"}
      /\ k.pc = "done" => req[r].why = "ok" /\ k.client = c /\ k.used = req[r].used
  BY <1>2 DEF Left
<1>4. req'[r] = k /\ \A s \in Requests \ {r} : req'[s] = req[s]
  BY <1>2 DEF Put, TypeInv, CallsOK
<1>5. /\ c \in Clients /\ c \in Nat \ {0} /\ c <= clients /\ (login.pc # "idle" => c < clients)
      /\ persisting[c] = r /\ req[r].token >= snapshot[c] /\ req[r].token <= issued
      /\ agent[c] # 0 => req[r].token <= agent[c]
      /\ row.by = c => row.token >= req[r].token
      /\ req[r].why = "ok" => req[r].used <= req[r].token
  BY <1>1, KnownCall, Bounds DEF CallOrdered, Clients
<1>6. snapshot'[c] = req[r].token /\ \A d \in Clients \ {c} : snapshot'[d] = snapshot[d]
  BY <1>1, <1>5 DEF TypeInv, RestOK
<1>7. clients \in 0..MaxClients /\ issued \in Nat /\ \A d \in Clients : snapshot[d] \in Nat
  BY Bounds DEF TypeInv, RestOK
<1>8. req[r].token \in Nat /\ req[r].used \in Nat /\ req[r].used <= issued
  BY <1>1, KnownCall
<1>9. ClientsKnown'
  <2>1. k.client <= clients /\ (login.pc # "idle" => k.client < clients)
    BY <1>3, <1>5, <1>7, Bounds
  <2>2. login.pc # "idle" => clients \in Clients /\ clients # c
    BY <1>5, <1>7, Bounds DEF Clients
  <2> QED
    BY <1>1, <1>4, <1>6, <2>1, <2>2 DEF DurableInv, ClientsKnown
<1>10. TokensIssued'
  <2>1. k.token <= issued /\ k.used <= issued
    BY <1>3, <1>7, <1>8
  <2> QED
    BY <1>1, <1>4, <1>5, <1>6, <2>1 DEF DurableInv, TokensIssued
<1>11. SavedInOrder'
  BY <1>1, <1>5, <1>6 DEF DurableInv, SavedInOrder
<1>12. CallOrdered(k, r)'
  BY <1>3, <1>5, <1>6 DEF CallOrdered
<1>13. ASSUME NEW s \in Requests \ {r} PROVE CallOrdered(req[s], s)'
  <2>1. CallOrdered(req[s], s) /\ req'[s] = req[s]
    BY <1>4 DEF DurableInv, CallsOrdered
  <2>2. req[s].pc \in {"sink", "stored"} => req[s].client # c
    BY <1>5, OneSaves
  <2>3. CASE req[s].pc = "idle"
    BY <2>1, <2>3 DEF CallOrdered
  <2>4. CASE req[s].pc # "idle"
    <3>1. req[s].client \in Clients /\ req[s].used \in Nat
      BY <2>4, KnownCall
    <3>2. req[s].client # c => /\ snapshot'[req[s].client] = snapshot[req[s].client]
                               /\ persisting'[req[s].client] = persisting[req[s].client]
      BY <1>1, <1>6, <3>1 DEF TypeInv, RestOK
    <3>3. CASE req[s].client = c
      <4>1. req[s].pc = "done" => req[s].used <= req[r].token
        BY <1>5, <1>7, <1>8, <2>1, <3>1, <3>3 DEF CallOrdered
      <4> QED
        BY <1>1, <1>6, <2>1, <2>2, <3>3, <4>1 DEF CallOrdered
    <3>4. CASE req[s].client # c
      BY <1>1, <2>1, <3>2, <3>4 DEF CallOrdered
    <3> QED
      BY <3>3, <3>4
  <2> QED
    BY <2>3, <2>4
<1>14. CallsOrdered'
  BY <1>4, <1>12, <1>13 DEF CallsOrdered, CallOrdered
<1> QED
  BY <1>9, <1>10, <1>11, <1>14 DEF DurableInv

-----------------------------------------------------------------------------
(* Login, logout and restart.                                              *)

(* While no call, client or token moves, only the row has to stay in       *)
(* order.                                                                  *)
LEMMA DurableCommand ==
    ASSUME TypeInv, DurableInv, ClientsKnown', SavedInOrder',
           UNCHANGED <<req, agent, snapshot, persisting, live, issued>>,
           row'.token <= issued,
           row' = row \/ \A s \in Requests : req[s].pc # "idle" => row'.by # req[s].client
    PROVE  DurableInv'
<1>1. TokensIssued'
  BY DEF DurableInv, TokensIssued
<1>2. ASSUME NEW s \in Requests PROVE CallOrdered(req[s], s)'
  <2>1. CallOrdered(req[s], s)
    BY DEF DurableInv, CallsOrdered
  <2>2. CASE req[s].pc = "idle"
    BY <2>2 DEF CallOrdered
  <2>3. CASE req[s].pc # "idle" /\ row' = row
    BY <2>1, <2>3 DEF CallOrdered
  <2>4. CASE req[s].pc # "idle" /\ row'.by # req[s].client
    BY <2>1, <2>4 DEF CallOrdered
  <2> QED
    BY <2>2, <2>3, <2>4
<1>3. CallsOrdered'
  BY <1>2 DEF CallsOrdered
<1> QED
  BY <1>1, <1>3 DEF DurableInv

LEMMA DurableLogin ==
    ASSUME TypeInv, DurableInv, Login
    PROVE  DurableInv'
<1> USE DEF provider
<1>1. /\ clients \in 0..MaxClients /\ issued \in Nat /\ row.by \in Nat
      /\ \A s \in Requests : req[s].pc # "idle" => req[s].client \in Clients
      /\ row.token \in Nat /\ row.token <= issued /\ session \in Nat
      /\ \A s \in Requests : req[s].client \in Nat
      /\ \A d \in Clients : agent[d] \in Nat /\ snapshot[d] \in Nat
  BY Bounds DEF TypeInv, RestOK, CallsOK, Call, Clients, DurableInv, TokensIssued
<1>2. login.pc # "idle" => /\ login.client = clients /\ session < clients
                           /\ \A s \in Requests : req[s].client < clients
                           /\ clients \in Clients /\ agent[clients] = snapshot[clients]
                           /\ agent[clients] <= issued /\ clients # 0
  <2>1. login.pc # "idle" => clients \in Clients
    BY <1>1, Bounds DEF DurableInv, ClientsKnown, Clients
  <2> QED
    BY <1>1, <2>1, Bounds DEF DurableInv, ClientsKnown, TokensIssued, Clients
<1>3. CASE LoginBegin
  <2>1. /\ clients' = clients + 1 /\ issued' = issued + 1 /\ live' = live \union {issued + 1}
        /\ agent' = [agent EXCEPT ![clients + 1] = issued + 1]
        /\ snapshot' = [snapshot EXCEPT ![clients + 1] = issued + 1]
        /\ login'.pc = "persist" /\ login'.client = clients + 1
        /\ UNCHANGED <<row, session, req, persisting>>
        /\ clients + 1 \in Clients
    BY <1>1, <1>3, Bounds DEF LoginBegin, store, Clients
  <2>2. /\ agent'[clients + 1] = issued + 1 /\ snapshot'[clients + 1] = issued + 1
        /\ \A d \in Clients : d # clients + 1 => agent'[d] = agent[d] /\ snapshot'[d] = snapshot[d]
    BY <2>1 DEF TypeInv, RestOK
  <2>3. ClientsKnown'
    BY <1>1, <2>1, <2>2 DEF DurableInv, ClientsKnown
  <2>4. TokensIssued'
    <3>1. \A s \in Requests : req[s].token \in Nat /\ req[s].used \in Nat
      BY Bounds DEF TypeInv, CallsOK, Call
    <3>2. \A t \in live : t \in Nat
      BY Bounds DEF TypeInv, RestOK, Tokens
    <3> QED
      BY <1>1, <2>1, <2>2, <3>1, <3>2 DEF DurableInv, TokensIssued
  <2>5. SavedInOrder'
    <3>1. row.by <= clients
      BY DEF DurableInv, ClientsKnown
    <3> QED
      BY <1>1, <2>1, <2>2, <3>1 DEF DurableInv, SavedInOrder
  <2>6. ASSUME NEW s \in Requests PROVE CallOrdered(req[s], s)'
    <3>1. CASE req[s].pc = "idle"
      BY <2>1, <3>1 DEF CallOrdered
    <3>2. CASE req[s].pc # "idle"
      <4>1. /\ req[s].client \in Clients /\ req[s].client # clients + 1
            /\ req[s].token \in Nat /\ req[s].token <= issued
            /\ agent[req[s].client] \in Nat /\ agent[req[s].client] <= issued
            /\ CallOrdered(req[s], s)
        BY <1>1, <3>2, KnownCall
      <4>2. /\ agent'[req[s].client] = agent[req[s].client]
            /\ snapshot'[req[s].client] = snapshot[req[s].client]
        BY <2>2, <4>1
      <4>3. /\ req[s].token \notin live => req[s].token \notin live'
            /\ agent[req[s].client] \notin live => agent[req[s].client] \notin live'
        BY <1>1, <2>1, <4>1
      <4> QED
        BY <2>1, <4>1, <4>2, <4>3 DEF CallOrdered
    <3> QED
      BY <3>1, <3>2
  <2>7. CallsOrdered'
    BY <2>6 DEF CallsOrdered
  <2> QED
    BY <2>3, <2>4, <2>5, <2>7 DEF DurableInv
<1>4. CASE LoginPersist \/ LoginHalf
  <2>1. /\ row'.by = clients /\ row'.token = agent[clients] /\ login.pc = "persist"
        /\ UNCHANGED <<session, clients, req, agent, snapshot, persisting, live, issued>>
        /\ login'.pc \in {"arm", "idle"}
        /\ login'.pc # "idle" => login'.client = clients
    <3>1. CASE LoginPersist
      BY <1>2, <3>1 DEF LoginPersist, clientVars, TypeInv, RestOK
    <3>2. CASE LoginHalf
      BY <1>2, <3>2 DEF LoginHalf, clientVars, NoCommand
    <3> QED
      BY <1>4, <3>1, <3>2
  <2>2. ClientsKnown'
    BY <1>1, <1>2, <2>1 DEF DurableInv, ClientsKnown
  <2>3. SavedInOrder'
    BY <1>1, <1>2, <2>1 DEF DurableInv, SavedInOrder
  <2>4. \A s \in Requests : req[s].pc # "idle" => row'.by # req[s].client
    BY <1>1, <1>2, <2>1
  <2> QED
    BY <1>2, <2>1, <2>2, <2>3, <2>4, DurableCommand
<1>5. CASE LoginArm \/ LoginAdd \/ LoginStop
  <2>1. /\ UNCHANGED <<row, clients, req, agent, snapshot, persisting, live, issued>>
        /\ login.pc # "idle"
        /\ \/ session' = session /\ login'.pc = "add" /\ login'.client = login.client
           \/ session' = login.client /\ login'.pc = "idle"
           \/ session' = session /\ login'.pc = "idle"
    BY <1>5 DEF LoginArm, LoginAdd, LoginStop, store, clientVars, NoCommand, TypeInv, RestOK
  <2>2. ClientsKnown'
    BY <1>1, <1>2, <2>1 DEF DurableInv, ClientsKnown
  <2>3. SavedInOrder'
    BY <2>1 DEF DurableInv, SavedInOrder
  <2> QED
    BY <1>1, <2>1, <2>2, <2>3, DurableCommand
<1> QED
  BY <1>3, <1>4, <1>5 DEF Login

LEMMA DurableLogout ==
    ASSUME TypeInv, DurableInv, Logout
    PROVE  DurableInv'
<1> USE DEF provider
<1>1. UNCHANGED <<clients, req, agent, snapshot, persisting, live, issued, login>>
  BY DEF Logout, LogoutBegin, LogoutInvalidate, LogoutRemove, LogoutFailed, LogoutDrop, clientVars
<1>2. clients \in Nat /\ issued \in Nat /\ row.token <= issued
  BY Bounds DEF TypeInv, RestOK, DurableInv, TokensIssued
<1>3. \A s \in Requests : req[s].pc # "idle" => req[s].client \in Clients
  BY CallFacts
<1>4. CASE LogoutRemove
  <2>1. row' = NoRow /\ row'.by = 0 /\ row'.token = 0 /\ session' = session
    BY <1>4 DEF LogoutRemove, NoRow
  <2>2. 0 \notin Clients
    BY Bounds DEF Clients
  <2>3. ClientsKnown'
    <3>1. login.pc = "persist" => 0 < clients
      <4>1. login.pc = "persist" => session < clients /\ session \in Nat
        BY Bounds DEF DurableInv, ClientsKnown, TypeInv, RestOK
      <4> QED
        BY <1>2, <4>1
    <3> QED
      BY <1>1, <1>2, <2>1, <3>1 DEF DurableInv, ClientsKnown
  <2>4. SavedInOrder'
    BY <1>1, <2>1, <2>2 DEF DurableInv, SavedInOrder
  <2> QED
    BY <1>1, <1>2, <1>3, <2>1, <2>2, <2>3, <2>4, DurableCommand
<1>5. CASE LogoutBegin \/ LogoutInvalidate \/ LogoutFailed \/ LogoutDrop
  <2>1. row' = row /\ session' \in {session, 0}
    BY <1>5 DEF LogoutBegin, LogoutInvalidate, LogoutFailed, LogoutDrop, store
  <2>2. ClientsKnown'
    <3>1. 0 <= clients /\ (login.pc # "idle" => 0 < clients)
      <4>1. login.pc # "idle" => session < clients /\ session \in Nat
        BY Bounds DEF DurableInv, ClientsKnown, TypeInv, RestOK
      <4> QED
        BY <1>2, <4>1
    <3> QED
      BY <1>1, <2>1, <3>1 DEF DurableInv, ClientsKnown
  <2>3. SavedInOrder'
    BY <1>1, <2>1 DEF DurableInv, SavedInOrder
  <2> QED
    BY <1>1, <1>2, <2>1, <2>2, <2>3, DurableCommand
<1> QED
  BY <1>4, <1>5 DEF Logout

(* After a restart no call is left, and the restored client holds exactly  *)
(* the session of the row.                                                 *)
LEMMA DurableRestart ==
    ASSUME TypeInv, DurableInv, Restore \/ RestoreFailed
    PROVE  DurableInv'
<1>1. \A s \in Requests : req'[s] = IdleCall
  BY DEF Restore, RestoreFailed, Forget
<1>2. /\ clients \in Nat /\ issued \in Nat /\ row.token \in Nat /\ row.token <= issued
      /\ row.by <= clients /\ row.by \in Nat /\ (row # NoRow => row.by # 0)
      /\ \A t \in live : t \in Nat /\ t <= issued
  <2>1. clients \in Nat /\ issued \in Nat /\ row.token \in Nat /\ row.by \in Nat
    BY Bounds DEF TypeInv, RestOK
  <2>2. \A t \in live : t \in Nat
    BY Bounds DEF TypeInv, RestOK, Tokens
  <2> QED
    BY <2>1, <2>2 DEF DurableInv, TokensIssued, ClientsKnown
<1>3. CallsOrdered'
  BY <1>1, IdleIsCall DEF CallsOrdered, CallOrdered
<1>4. login'.pc = "idle"
  BY DEF Restore, RestoreFailed, Forget, NoCommand
<1>5. IdleCall.client = 0 /\ IdleCall.token = 0 /\ IdleCall.used = 0
  BY DEF IdleCall
<1>6. CASE Restore
  <2>1. PICK fresh \in BOOLEAN :
          LET t == IF fresh THEN issued + 1 ELSE row.token IN
          /\ issued' = IF fresh THEN issued + 1 ELSE issued
          /\ live' = IF fresh THEN (live \ {row.token}) \union {t} ELSE live
          /\ row' = [owner |-> clients + 1, by |-> clients + 1, token |-> t, half |-> FALSE]
          /\ agent' = [d \in Clients |-> IF d = clients + 1 THEN t ELSE 0]
          /\ snapshot' = agent'
    BY <1>6 DEF Restore
  <2>2. clients' = clients + 1 /\ session' = clients + 1
    BY <1>6 DEF Restore
  <2>3. PICK t : /\ t \in Nat /\ t <= issued' /\ issued' \in Nat /\ issued' >= issued
                 /\ row'.by = clients + 1 /\ row'.token = t
                 /\ agent' = [d \in Clients |-> IF d = clients + 1 THEN t ELSE 0]
                 /\ snapshot' = agent'
                 /\ \A u \in live' : u <= issued'
    <3>1. CASE fresh
      BY <1>2, <2>1, <3>1
    <3>2. CASE ~fresh
      BY <1>2, <2>1, <3>2
    <3> QED
      BY <3>1, <3>2
  <2>4. ClientsKnown'
    BY <1>1, <1>2, <1>4, <1>5, <2>2, <2>3 DEF ClientsKnown
  <2>5. TokensIssued'
    BY <1>1, <1>5, <2>3 DEF TokensIssued
  <2>6. SavedInOrder'
    BY <2>3 DEF SavedInOrder
  <2> QED
    BY <1>3, <2>4, <2>5, <2>6 DEF DurableInv
<1>7. CASE RestoreFailed
  <2>1. /\ agent' = [d \in Clients |-> 0] /\ snapshot' = agent' /\ session' = 0
        /\ UNCHANGED <<row, clients, issued>> /\ live' \subseteq live
    BY <1>7 DEF RestoreFailed
  <2>2. ClientsKnown'
    BY <1>1, <1>2, <1>4, <1>5, <2>1 DEF ClientsKnown
  <2>3. TokensIssued'
    BY <1>1, <1>2, <1>5, <2>1 DEF TokensIssued
  <2>4. SavedInOrder'
    BY <1>2, <2>1 DEF SavedInOrder
  <2> QED
    BY <1>3, <2>2, <2>3, <2>4 DEF DurableInv
<1> QED
  BY <1>6, <1>7

-----------------------------------------------------------------------------
LEMMA DurableInit == Init => DurableInv
<1> SUFFICES ASSUME Init PROVE DurableInv
  OBVIOUS
<1>1. /\ \A r \in Requests : req[r].pc = "idle" /\ req[r].client = 0 /\ req[r].token = 0
                             /\ req[r].used = 0
      /\ row = NoRow /\ row.by = 0 /\ row.token = 0 /\ session = 0 /\ clients = 0
      /\ login.pc = "idle" /\ issued = 0 /\ live = {}
      /\ \A c \in Clients : agent[c] = 0 /\ snapshot[c] = 0 /\ c # 0
  BY Bounds DEF Init, IdleCall, NoRow, NoCommand, Clients
<1>2. ClientsKnown /\ TokensIssued /\ SavedInOrder
  BY <1>1 DEF ClientsKnown, TokensIssued, SavedInOrder
<1>3. CallsOrdered
  BY <1>1 DEF CallsOrdered, CallOrdered
<1> QED
  BY <1>2, <1>3 DEF DurableInv

LEMMA DurableStep == TypeInv /\ GateInv /\ DurableInv /\ [Next]_vars => DurableInv'
<1> SUFFICES ASSUME TypeInv, GateInv, DurableInv, [Next]_vars PROVE DurableInv'
  OBVIOUS
<1>1. TypeInv'
  BY TypeStep
<1>2. ASSUME NEW r \in Requests, Request(r) PROVE DurableInv'
  BY <1>1, <1>2, DurableQuiet, DurableEnds, DurableAgent DEF Request
<1>3. ASSUME NEW r \in Requests, Recovery(r) PROVE DurableInv'
  BY <1>1, <1>3, DurableQuiet, DurableEnds, DurableAgent, DurableRotate DEF Recovery
<1>4. ASSUME NEW r \in Requests, RefreshToken(r) PROVE DurableInv'
  BY <1>4, DurableRead, DurableWrite, DurableEnds, DurableDone DEF RefreshToken
<1>5. CASE Login \/ Logout \/ Restore \/ RestoreFailed
  BY <1>5, DurableLogin, DurableLogout, DurableRestart
<1>6. CASE UNCHANGED vars
  <2>1. UNCHANGED <<row, session, login, clients, agent, snapshot, persisting, req, issued, live>>
    BY <1>6 DEF vars, store, commands, clientVars, provider
  <2>2. ClientsKnown' /\ TokensIssued' /\ SavedInOrder'
    BY <2>1 DEF DurableInv, ClientsKnown, TokensIssued, SavedInOrder
  <2>3. CallsOrdered'
    BY <2>1 DEF DurableInv, CallsOrdered, CallOrdered
  <2> QED
    BY <2>2, <2>3 DEF DurableInv
<1> QED
  BY <1>2, <1>3, <1>4, <1>5, <1>6 DEF Next

(* For every number of requests, tokens and restarts: a request that       *)
(* returned Ok left the session it succeeded with, or a newer one, in the  *)
(* row of its login (refresh_token awaits the sink before it reports).     *)
THEOREM SuccessIsSaved == Spec => []SuccessIsDurable
<1>1. TypeInv /\ DurableInv => SuccessIsDurable
  <2> SUFFICES ASSUME TypeInv, DurableInv, NEW r \in Requests, req[r].pc = "done",
                      row.by = req[r].client
               PROVE  row.token >= req[r].used
    BY DEF SuccessIsDurable
  <2>1. /\ req[r].client \in Clients /\ req[r].used <= snapshot[req[r].client]
        /\ req[r].used \in Nat /\ snapshot[req[r].client] \in Nat /\ row.token \in Nat
    BY KnownCall DEF CallOrdered
  <2> QED
    BY <2>1 DEF DurableInv, SavedInOrder
<1> QED
  BY <1>1, TypeInit, TypeStep, GateInit, GateStep, DurableInit, DurableStep, PTL DEF Spec

(* The row of a client never returns to an older refresh token, however    *)
(* its requests are interleaved, aborted or failed (credential_persist).   *)
THEOREM RowOnlyAdvances == Spec => RowNeverGoesBack
<1>1. TypeInv /\ DurableInv /\ [Next]_vars
        => [row # NoRow /\ row'.by = row.by => row'.token >= row.token]_vars
  <2> SUFFICES ASSUME TypeInv, DurableInv, [Next]_vars, row # NoRow, row'.by = row.by
               PROVE  row'.token >= row.token
    OBVIOUS
  <2>1. row.token \in Nat /\ row.by # 0 /\ row.by <= clients /\ row.by \in Nat /\ clients \in Nat
    BY Bounds DEF TypeInv, RestOK, DurableInv, ClientsKnown
  <2>2. CASE row' = row
    BY <2>1, <2>2
  <2>3. ASSUME NEW r \in Requests, SinkWrite(r) PROVE row'.token >= row.token
    <3>1. req[r].pc = "sink" /\ row'.by = req[r].client /\ row'.token = req[r].token
      BY <2>3 DEF SinkWrite
    <3>2. row.token <= req[r].token /\ req[r].token \in Nat
      BY <3>1, KnownCall DEF CallOrdered
    <3> QED
      BY <2>1, <3>1, <3>2
  <2>4. CASE LoginPersist \/ LoginHalf
    <3>1. login.pc = "persist" /\ row'.by = login.client
      BY <2>4 DEF LoginPersist, LoginHalf
    <3>2. row.by < clients /\ login.client = clients
      BY <3>1 DEF DurableInv, ClientsKnown
    <3> QED
      BY <2>1, <3>1, <3>2
  <2>5. CASE LogoutRemove
    BY <2>1, <2>5 DEF LogoutRemove, NoRow
  <2>6. CASE Restore
    <3>1. row'.by = clients + 1
      BY <2>6 DEF Restore
    <3> QED
      BY <2>1, <3>1
  <2>7. \/ row' = row \/ LoginPersist \/ LoginHalf \/ LogoutRemove \/ Restore
        \/ \E r \in Requests : SinkWrite(r)
    <3>1. ASSUME NEW r \in Requests, Request(r) PROVE row' = row
      BY <3>1 DEF Request, Start, Succeed, Unauthorized, Fail, FailAgain, SilentRefresh, Abort, store
    <3>2. ASSUME NEW r \in Requests, Recovery(r) PROVE row' = row
      BY <3>2 DEF Recovery, Enter, Rotate, Refuse, LoseRefresh, Resume, Resumed, ResumeFailed,
                  Reauthenticate, ReauthFailed, store
    <3>3. ASSUME NEW r \in Requests, RefreshToken(r) PROVE row' = row \/ SinkWrite(r)
      BY <3>3 DEF RefreshToken, ReadSession, SinkFailed, SinkDone, store
    <3>4. CASE Login
      BY <3>4 DEF Login, LoginBegin, LoginArm, LoginAdd, LoginStop, store
    <3>5. CASE Logout
      BY <3>5 DEF Logout, LogoutBegin, LogoutInvalidate, LogoutFailed, LogoutDrop, store
    <3>6. CASE RestoreFailed
      BY <3>6 DEF RestoreFailed
    <3>7. CASE UNCHANGED vars
      BY <3>7 DEF vars, store
    <3> QED
      BY <3>1, <3>2, <3>3, <3>4, <3>5, <3>6, <3>7 DEF Next
  <2> QED
    BY <2>2, <2>3, <2>4, <2>5, <2>6, <2>7
<1> QED
  BY <1>1, TypeInit, TypeStep, GateInit, GateStep, DurableInit, DurableStep, PTL
     DEF Spec, RowNeverGoesBack
=============================================================================
