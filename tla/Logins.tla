------------------------------ MODULE Logins --------------------------------
(***************************************************************************)
(* Which accounts are signed in: the rows of login_accounts, the sessions  *)
(* of SessionManager with the acting account, and the streams that run for *)
(* them (application/auth.rs, account.rs, desktop.rs, preferences.rs).     *)
(* Every command works through its own awaits; two of them may run at a    *)
(* time.  Tokens and their generations are in AuthRecovery.                *)
(***************************************************************************)
EXTENDS Integers, FiniteSets, Sequences, SequencesExt, Functions

CONSTANTS AcAccounts, AcOps,
          AcCommands, AcMaxLayouts     \* bounds: commands and restarts, saves

NoAcct == 0
ASSUME AcAssumption == AcAccounts \subseteq Nat \ {NoAcct}

VARIABLES
    acRows, acActive,      \* login_accounts and its active row
    acSessions, acActor,   \* SessionManager: sessions, active_acct
    acLayout,              \* column_configs, by version
    acStreams,             \* streaming_handles: account -> the layout its streams serve
    acHandles,             \* streaming_handles.write(): the command that holds it
    acOp,                  \* command -> <<>> or a record
    acCommands,
    acHalf,                \* ghost: rows whose login or restoration did not come to a session
    acOverlap,             \* ghost: accounts whose last login or logout began while another of
                           \* the same account was between its row and its session
    acTwoChose,            \* ghost: the last choice of the active row was made while another
                           \* command, of any account, was between its row and its session
    acRaced                \* ghost: the last restart of the streams overlapped or was cut off

acVars == <<acRows, acActive, acSessions, acActor, acLayout, acStreams, acHandles, acOp,
            acCommands, acHalf, acOverlap, acTwoChose, acRaced>>
acStored == <<acRows, acActive>>
acMemory == <<acSessions, acActor>>
acGhosts == <<acHalf, acOverlap, acTwoChose, acRaced>>

Busy == {o \in AcOps : acOp[o] # <<>>}
Restarting == {o \in Busy : acOp[o].step \in {"sessions", "columns", "lock", "start"}}
AcStep(o, kind, step) == acOp[o] # <<>> /\ acOp[o].kind = kind /\ acOp[o].step = step
AcGoTo(o, step) == acOp' = [acOp EXCEPT ![o].step = step]

\* A login or logout of the account has written its row and not yet come to its session.
Between(a) == \E o \in Busy : acOp[o].step \in {"details", "forget"} /\ acOp[o].acct = a

\* The ghosts of a login or a logout of acct, and of a choice of the active row: what was true of
\* commands before does not matter once one runs alone.
Overlaps(acct) ==
    acOverlap' = IF Between(acct) THEN acOverlap \union {acct} ELSE acOverlap \ {acct}
Chooses == acTwoChose' = \E o \in Busy : acOp[o].step \in {"details", "forget"}

\* The bound on commands and restarts.
CountCommand == acCommands < AcCommands /\ acCommands' = acCommands + 1

BeginCommand(o, kind, acct, step, fallback) ==
    /\ acOp[o] = <<>>
    /\ CountCommand
    /\ acOp' = [acOp EXCEPT ![o] = [kind |-> kind, acct |-> acct, step |-> step,
                                    fallback |-> fallback, snap |-> {}, layout |-> 0]]

\* The command is over, by its end, an error, a cancellation or a dropped future.
CommandEnds(o) == acOp' = [acOp EXCEPT ![o] = <<>>]

\* persist_login_account, when the provider has confirmed the login: the row is written and is
\* the active one.  A login that begins cancels those that are under way, but cancel_all and
\* begin are two steps (LeaseLogin below), so that two may come here.
StoreLogin(o) ==
    /\ \E a \in AcAccounts :
          /\ BeginCommand(o, "login", a, "details", NoAcct)
          /\ acRows' = acRows \union {a} /\ acActive' = a
          /\ Overlaps(a)
    /\ Chooses
    /\ UNCHANGED <<acMemory, acLayout, acStreams, acHandles, acHalf, acRaced>>

\* Mutant of ActorOfLogin: add_session alone, which makes an actor only where there is none.
ActorOfLoginFirst(acct) == IF acActor = NoAcct THEN acct ELSE acActor

ActorOfLogin(acct) == acct

\* The server's metadata and the profile are stored; then the session is there.
AddSession(o) ==
    /\ AcStep(o, "login", "details")
    /\ acSessions' = acSessions \union {acOp[o].acct} /\ acActor' = ActorOfLogin(acOp[o].acct)
    /\ acHalf' = acHalf \ {acOp[o].acct}
    /\ AcGoTo(o, "sessions")
    /\ UNCHANGED <<acStored, acLayout, acStreams, acHandles, acCommands,
                   acOverlap, acTwoChose, acRaced>>

\* cancel_login_flow, a newer login or an error: the rest of the login is dropped where it is.
DropLogin(o) ==
    /\ acOp[o] # <<>> /\ acOp[o].kind = "login"
    /\ CommandEnds(o)
    /\ acHandles' = IF acHandles = o THEN NoAcct ELSE acHandles
    /\ acHalf' = IF acOp[o].step = "details" THEN acHalf \union {acOp[o].acct}
                 ELSE acHalf
    /\ acRaced' = (acRaced \/ o \in Restarting)
    /\ UNCHANGED <<acStored, acMemory, acLayout, acStreams, acCommands, acOverlap,
                   acTwoChose>>

\* remove_login_account_and_reassign: the active row if it stays, or else the first one.
Fallback(rows, active, acct) ==
    CASE rows = {acct} -> NoAcct
      [] rows # {acct} /\ active # acct -> active
      [] OTHER -> CHOOSE a \in rows \ {acct} : \A b \in rows \ {acct} : a <= b

\* logout_account: of an account that has no row only the uploads and the generation go.  In the
\* transaction that removes the row its columns go to the fallback, or with it when there is
\* none (SettingsPages has what is in them): a new layout, if it had any.
RemoveRow(o) ==
    /\ \E a \in acRows :
          LET fallback == Fallback(acRows, acActive, a) IN
          /\ BeginCommand(o, "logout", a, "forget", fallback)
          /\ acRows' = acRows \ {a} /\ acActive' = fallback
          /\ acHalf' = acHalf \ {a}
          /\ Overlaps(a)
    /\ acLayout' \in {acLayout, acLayout + 1}
    /\ Chooses
    /\ UNCHANGED <<acMemory, acStreams, acHandles, acRaced>>

\* remove_session takes any other session, set_active the row's choice if it has a session.
ActorAfter(left, fallback, any) == IF fallback \in left THEN fallback ELSE any

\* Mutant of SessionsAfter: only the actor changes.
SessionsAfterKept(left) == acSessions

SessionsAfter(left) == left

ForgetSession(o) ==
    /\ AcStep(o, "logout", "forget")
    /\ LET left == acSessions \ {acOp[o].acct} IN
       /\ acSessions' = SessionsAfter(left)
       /\ \E any \in (IF acActor # acOp[o].acct THEN {acActor}
                      ELSE IF left = {} THEN {NoAcct} ELSE left) :
             acActor' = ActorAfter(left, acOp[o].fallback, any)
    /\ AcGoTo(o, "sessions")
    /\ UNCHANGED <<acStored, acLayout, acStreams, acHandles, acCommands,
                   acGhosts>>

\* switch_active_account: the sessions stay locked until the row is written.
SwitchActive ==
    /\ \E a \in acSessions \intersect acRows :
          acActive' = a /\ acActor' = a
    /\ CountCommand /\ Chooses
    /\ UNCHANGED <<acRows, acSessions, acLayout, acStreams, acHandles, acOp,
                   acHalf, acOverlap, acRaced>>

\* save_columns: the columns are replaced in one transaction; the streams follow.
SaveColumns(o) ==
    /\ acLayout < AcMaxLayouts
    /\ BeginCommand(o, "columns", NoAcct, "sessions", NoAcct)
    /\ acLayout' = acLayout + 1
    /\ UNCHANGED <<acStored, acMemory, acStreams, acHandles, acGhosts>>

-----------------------------------------------------------------------------

\* Mutant of Snapshot: the account that just changed is left to its own streams.
SnapshotWithout(o) == acSessions \ {acOp[o].acct}

Snapshot(o) == acSessions

\* restart_streaming: the sessions are read, then the columns, then the handles are locked.
SnapSessions(o) ==
    /\ acOp[o] # <<>> /\ acOp[o].step = "sessions"
    /\ acOp' = [acOp EXCEPT ![o].step = "columns", ![o].snap = Snapshot(o)]
    /\ acRaced' = \E p \in Restarting : p # o
    /\ UNCHANGED <<acStored, acMemory, acLayout, acStreams, acHandles, acCommands, acHalf,
                   acOverlap, acTwoChose>>

SnapColumns(o) ==
    /\ acOp[o] # <<>> /\ acOp[o].step = "columns"
    /\ acOp' = [acOp EXCEPT ![o].step = "lock", ![o].layout = acLayout]
    /\ UNCHANGED <<acStored, acMemory, acLayout, acStreams, acHandles, acCommands,
                   acGhosts>>

AbortStreams(o) ==
    /\ acOp[o] # <<>> /\ acOp[o].step = "lock" /\ acHandles = NoAcct
    /\ acStreams' = Restrict(acStreams, {})
    /\ IF acOp[o].snap = {} THEN CommandEnds(o) /\ UNCHANGED acHandles
       ELSE AcGoTo(o, "start") /\ acHandles' = o
    /\ UNCHANGED <<acStored, acMemory, acLayout, acCommands, acGhosts>>

StartStreams(o) ==
    /\ acOp[o] # <<>> /\ acOp[o].step = "start"
    /\ acStreams' = [a \in acOp[o].snap |-> acOp[o].layout]
    /\ acHandles' = NoAcct
    /\ CommandEnds(o)
    /\ UNCHANGED <<acStored, acMemory, acLayout, acCommands, acGhosts>>

\* The process stops and starts again: initialize_runtime_state restores what it can.
Restart ==
    /\ CountCommand
    /\ \E restored \in SUBSET acRows :
          /\ acSessions' = restored /\ acHalf' = acRows \ restored
          /\ acActor' = IF acActive \in restored THEN acActive
                        ELSE IF restored = {} THEN NoAcct
                        ELSE CHOOSE a \in restored : \A b \in restored : a <= b
          /\ acStreams' = [a \in restored |-> acLayout]
    /\ acHandles' = NoAcct
    /\ acOp' = [o \in AcOps |-> <<>>]
    /\ acOverlap' = {} /\ acTwoChose' = FALSE /\ acRaced' = FALSE
    /\ UNCHANGED <<acStored, acLayout>>

\* A start that has restored every session.
AccountSetInit ==
    /\ acRows \in SUBSET AcAccounts
    /\ acActive \in (IF acRows = {} THEN {NoAcct} ELSE acRows)
    /\ acSessions = acRows /\ acActor = acActive
    /\ acLayout = 0 /\ acStreams = [a \in acRows |-> 0] /\ acHandles = NoAcct
    /\ acOp = [o \in AcOps |-> <<>>] /\ acCommands = 0
    /\ acHalf = {} /\ acOverlap = {} /\ acTwoChose = FALSE /\ acRaced = FALSE

AccountSetNext ==
    \/ Restart \/ SwitchActive
    \/ \E o \in AcOps :
          \/ StoreLogin(o) \/ AddSession(o) \/ DropLogin(o) \/ RemoveRow(o) \/ ForgetSession(o)
          \/ SaveColumns(o)
          \/ SnapSessions(o) \/ SnapColumns(o) \/ AbortStreams(o) \/ StartStreams(o)

-----------------------------------------------------------------------------

\* An account with no login or logout between its row and its session is signed in exactly when
\* it is stored, whatever commands of other accounts do meanwhile: none is left behind by a
\* logout, and a login that did not come to its session is what acHalf says.  Only where the
\* last login or logout of this account met another of the same account they may disagree.
SessionsMatchRows ==
    \A a \in AcAccounts \ acOverlap :
        Between(a) \/ /\ a \in acSessions => a \in acRows
                      /\ a \in acRows \ acHalf => a \in acSessions

\* With no command between its row and its session the acting account is the one a restart would
\* bring back, if the last choice was not made beside another that was under way, and the
\* active row has a session.  When no row is left, only a session without a row may act.
ActorIsTheActiveRow ==
    ~acTwoChose /\ (\A a \in AcAccounts : ~Between(a)) /\ acActive \notin acHalf \union acOverlap =>
    acActor = acActive \/ (acActive = NoAcct /\ acActor \in acOverlap)

\* With nothing under way every account signed in has streams for the columns there are, and no
\* other has: unless two restarts overlapped, or a login was cancelled in one.
StreamsFollowSessions ==
    Busy = {} /\ ~acRaced => acStreams = [a \in acSessions |-> acLayout]

-----------------------------------------------------------------------------
(***************************************************************************)
(* A login through the browser: run_mastodon_oauth and run_misskey_miauth  *)
(* (application/auth.rs), the loopback listener their pages answer to      *)
(* (auth/callback_server.rs) and the leases that cancel them               *)
(* (state/operation_cancellation.rs).  A page the browser opened outlives  *)
(* its login, and a later login may get the port of an earlier one.        *)
(* AuthRecovery models what is stored.                                     *)
(***************************************************************************)
CONSTANTS LgFlows,     \* the logins, each with an operation id of its own
          LgPorts,     \* the ports the system hands out
          LgMaxVisits  \* bound: connections to the ports

NoPort == 0
NoLogin == 0
ASSUME LgAssumption == NoLogin \notin LgFlows /\ NoPort \notin LgPorts

VARIABLES
    lgKind,     \* the server kind detect_server_kind finds
    lgStep,     \* idle, asked, detect, prepare, open, wait, exchange, verify, persist, done, ended
    lgActive,   \* the operations with a lease
    lgCancel,   \* those whose token is cancelled
    lgPort,     \* the port a login listens on, NoPort without a listener
    lgBacklog,  \* port -> the connections not yet accepted
    lgPages,    \* the pages open in the browser: <<login, port>>
    lgReading,  \* login -> the connection being read, <<>> for none
    lgVisits,
    lgGiven     \* ghost: <<login, answer>>: given on the login's page while it listened there

lgFlow == <<lgKind, lgStep, lgActive, lgCancel, lgPort, lgReading>>
lgVars == <<lgFlow, lgBacklog, lgPages, lgVisits, lgGiven>>

\* select! drops a login at one of its awaits after it was cancelled, not at once: until then it
\* may take the steps that are ready.
Running(f) == f \in lgActive

\* The listener is dropped, and what had not been accepted is refused.
LgCloseListener(f) ==
    /\ lgPort' = [lgPort EXCEPT ![f] = NoPort]
    /\ lgReading' = [lgReading EXCEPT ![f] = <<>>]
    /\ lgBacklog' = [p \in LgPorts |-> IF p = lgPort[f] THEN <<>> ELSE lgBacklog[p]]

\* The lease is dropped with the command.
LoginEnds(f) ==
    /\ lgStep' = [lgStep EXCEPT ![f] = "ended"]
    /\ lgActive' = lgActive \ {f} /\ lgCancel' = lgCancel \ {f}
    /\ LgCloseListener(f)
    /\ UNCHANGED <<lgKind, lgPages, lgVisits, lgGiven>>

-----------------------------------------------------------------------------

\* login_with_instance_domain: every other login is cancelled first,
BeginLogin(f) ==
    /\ lgStep[f] = "idle"
    /\ lgCancel' = lgActive
    /\ lgStep' = [lgStep EXCEPT ![f] = "asked"]
    /\ UNCHANGED <<lgKind, lgActive, lgPort, lgReading, lgBacklog, lgPages, lgVisits, lgGiven>>

\* and this one gets its lease, under another lock: a login that came between stays.
LeaseLogin(f) ==
    /\ lgStep[f] = "asked"
    /\ lgActive' = lgActive \union {f}
    /\ lgStep' = [lgStep EXCEPT ![f] = "detect"]
    /\ UNCHANGED <<lgKind, lgCancel, lgPort, lgReading, lgBacklog, lgPages, lgVisits, lgGiven>>

\* The same operation id again is refused, when the login it names is already cancelled.
BeginAgain(f) ==
    /\ f \in lgActive /\ lgCancel' = lgActive
    /\ UNCHANGED <<lgKind, lgStep, lgActive, lgPort, lgReading, lgBacklog, lgPages, lgVisits,
                   lgGiven>>

\* cancel_login_flow
CancelLogin(f) ==
    /\ f \in lgActive /\ lgCancel' = lgCancel \union {f}
    /\ UNCHANGED <<lgKind, lgStep, lgActive, lgPort, lgReading, lgBacklog, lgPages, lgVisits,
                   lgGiven>>

\* select!: the cancelled login stops at its await.
LoginCancelled(f) == f \in lgCancel /\ LoginEnds(f)

\* A request of the login to its server fails.
LoginRequestFails(f) ==
    /\ Running(f) /\ lgStep[f] \in {"detect", "prepare", "exchange", "verify", "persist"}
    /\ LoginEnds(f)

\* run_login_flow and CallbackListener::bind: a port nobody listens on.
DetectAndBind(f) ==
    /\ Running(f) /\ lgStep[f] = "detect"
    /\ \E p \in LgPorts : (\A g \in LgFlows : lgPort[g] # p) /\ lgPort' = [lgPort EXCEPT ![f] = p]
    /\ lgStep' = [lgStep EXCEPT ![f] = IF lgKind[f] = "misskey" THEN "open" ELSE "prepare"]
    /\ UNCHANGED <<lgKind, lgActive, lgCancel, lgReading, lgBacklog, lgPages, lgVisits, lgGiven>>

\* OAuthFlow::prepare: the instance is read and the application registered.
PrepareOAuth(f) ==
    /\ Running(f) /\ lgStep[f] = "prepare"
    /\ lgStep' = [lgStep EXCEPT ![f] = "open"]
    /\ UNCHANGED <<lgKind, lgActive, lgCancel, lgPort, lgReading, lgBacklog, lgPages, lgVisits,
                   lgGiven>>

\* open::that: the page carries the state (or the session) and the port of the login.
OpenPage(f) ==
    /\ Running(f) /\ lgStep[f] = "open"
    /\ lgPages' = lgPages \union {<<f, lgPort[f]>>}
    /\ lgStep' = [lgStep EXCEPT ![f] = "wait"]
    /\ UNCHANGED <<lgKind, lgActive, lgCancel, lgPort, lgReading, lgBacklog, lgVisits, lgGiven>>

-----------------------------------------------------------------------------
\* The browser.

Visit(port, request) ==
    /\ lgVisits < LgMaxVisits /\ lgVisits' = lgVisits + 1
    /\ lgBacklog' = IF \E f \in LgFlows : lgPort[f] = port
                    THEN [lgBacklog EXCEPT ![port] = Append(@, request)] ELSE lgBacklog
    /\ lgGiven' = lgGiven \union {<<f, request.says>> : f \in {g \in LgFlows :
                                     g = request.of /\ lgPort[g] = port}}
    /\ UNCHANGED <<lgFlow, lgPages>>

\* The user answers a page, perhaps one of a login that is over, perhaps twice.
AnswerLoginPage(page) ==
    \E answer \in {"result", "error"}, stays \in BOOLEAN :
        Visit(page[2], [of |-> page[1], says |-> answer, stays |-> stays])

\* Another request: a favicon, a connection opened ahead and never used, a scanner.
OtherVisit == \E p \in LgPorts : Visit(p, [of |-> NoLogin, says |-> "noise", stays |-> TRUE])

-----------------------------------------------------------------------------
\* wait_for_valid_request

AcceptConnection(f) ==
    /\ Running(f) /\ lgStep[f] = "wait" /\ lgReading[f] = <<>>
    /\ lgBacklog[lgPort[f]] # <<>>
    /\ lgReading' = [lgReading EXCEPT ![f] = <<Head(lgBacklog[lgPort[f]])>>]
    /\ lgBacklog' = [lgBacklog EXCEPT ![lgPort[f]] = Tail(@)]
    /\ UNCHANGED <<lgKind, lgStep, lgActive, lgCancel, lgPort, lgPages, lgVisits, lgGiven>>

\* Mutant of Wanted: the state of the request is not compared.
WantedAny(f, request) == request.says # "noise"

\* read_request, parse_callback_request and the required parameters: only a request of this
\* login's own page is taken.
Wanted(f, request) == request.of = f

\* Mutant of AfterReject: a rejected request makes a new listener.
AfterRejectNone(backlog) == <<>>

\* The connections behind a rejected one keep their places.
AfterReject(backlog) == backlog

\* Anything else is answered with an error and the listener goes on, unless the other end
\* is gone when the answer is written: write_response then ends the wait.
RejectRequest(f) ==
    /\ Running(f) /\ lgReading[f] # <<>> /\ ~Wanted(f, Head(lgReading[f]))
    /\ IF Head(lgReading[f]).stays
       THEN /\ lgReading' = [lgReading EXCEPT ![f] = <<>>]
            /\ lgBacklog' = [lgBacklog EXCEPT ![lgPort[f]] = AfterReject(@)]
            /\ UNCHANGED <<lgKind, lgStep, lgActive, lgCancel, lgPort, lgPages, lgVisits, lgGiven>>
       ELSE LoginEnds(f)

\* The callback is taken, the listener dropped.
AcceptRequest(f) ==
    LET request == Head(lgReading[f])
    IN
    /\ Running(f) /\ lgReading[f] # <<>> /\ Wanted(f, request)
    /\ IF ~request.stays THEN LoginEnds(f)
       ELSE IF request.says = "error" THEN LoginEnds(f)
       ELSE /\ lgStep' = [lgStep EXCEPT ![f] = "exchange"]
            /\ LgCloseListener(f)
            /\ UNCHANGED <<lgKind, lgActive, lgCancel, lgPages, lgVisits, lgGiven>>

\* CALLBACK_TIMEOUT
WaitTimesOut(f) == Running(f) /\ lgStep[f] = "wait" /\ LoginEnds(f)

\* exchange_code or check, verify_credentials, persist_login_session.
LoginProceeds(f) ==
    /\ Running(f)
    /\ \/ /\ lgStep[f] = "exchange" /\ lgStep' = [lgStep EXCEPT ![f] = "verify"]
          /\ UNCHANGED lgActive
       \/ /\ lgStep[f] = "verify" /\ lgStep' = [lgStep EXCEPT ![f] = "persist"]
          /\ UNCHANGED lgActive
       \/ /\ lgStep[f] = "persist" /\ lgStep' = [lgStep EXCEPT ![f] = "done"]
          /\ lgActive' = lgActive \ {f}
    /\ UNCHANGED <<lgKind, lgCancel, lgPort, lgReading, lgBacklog, lgPages, lgVisits, lgGiven>>

LoginInit ==
    /\ lgKind \in [LgFlows -> {"mastodon", "misskey"}]
    /\ lgStep = [f \in LgFlows |-> "idle"] /\ lgActive = {} /\ lgCancel = {}
    /\ lgPort = [f \in LgFlows |-> NoPort] /\ lgBacklog = [p \in LgPorts |-> <<>>]
    /\ lgPages = {} /\ lgReading = [f \in LgFlows |-> <<>>] /\ lgVisits = 0
    /\ lgGiven = {}

LoginNext ==
    \/ \E f \in LgFlows :
          \/ BeginLogin(f) \/ LeaseLogin(f) \/ BeginAgain(f) \/ CancelLogin(f) \/ LoginCancelled(f)
          \/ LoginRequestFails(f) \/ DetectAndBind(f) \/ PrepareOAuth(f) \/ OpenPage(f)
          \/ AcceptConnection(f) \/ RejectRequest(f) \/ AcceptRequest(f) \/ WaitTimesOut(f)
          \/ LoginProceeds(f)
    \/ \E page \in lgPages : AnswerLoginPage(page)
    \/ OtherVisit

-----------------------------------------------------------------------------

\* A login is decided by what was answered on its own page while it listened: one that goes on to
\* exchange a code was given a result there, not on the page of an earlier login that had the
\* same port, nor by a connection that is none of its own; and whatever noise comes before or
\* after an answer, as long as the login waits the answer is still before it.
LoginIsDecidedByItsPage ==
    \A f \in LgFlows :
        /\ lgStep[f] \in {"exchange", "verify", "persist", "done"} => <<f, "result">> \in lgGiven
        /\ lgStep[f] = "wait" /\ (\E answer \in {"result", "error"} : <<f, answer>> \in lgGiven) =>
             \E request \in ToSet(lgBacklog[lgPort[f]]) \union ToSet(lgReading[f]) : request.of = f

-----------------------------------------------------------------------------

\* The accounts and the logins, side by side: no variable is of both.
AccountsSpec == /\ AccountSetInit /\ LoginInit
                /\ [][ \/ AccountSetNext /\ UNCHANGED lgVars
                       \/ LoginNext /\ UNCHANGED acVars ]_<<acVars, lgVars>>

\* Accounts (account.rs, auth.rs, preferences.rs, desktop.rs): a login is decided by its own
\* page, and the rows, the sessions, the acting account and the streams go together.
AccountsAgree ==
    LoginIsDecidedByItsPage /\ SessionsMatchRows /\ ActorIsTheActiveRow /\ StreamsFollowSessions
=============================================================================
