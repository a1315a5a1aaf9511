---------------------------- MODULE MisskeySocket ----------------------------
(***************************************************************************)
(* One Misskey streaming task: the reconnect loop, the socket with its     *)
(* channels and its heartbeat (misskey/streaming.rs), the entry of the     *)
(* task in the status registry (services/websocket_status.rs) and its      *)
(* backoff (services/reconnect_budget.rs).  The consumer of the task's     *)
(* channel reads a snapshot of the server when a Resync arrives.           *)
(***************************************************************************)
EXTENDS Integers, Sequences, FiniteSets, FiniteSetsExt, SequencesExt

CONSTANTS MkStreams,   \* the stream types of the run
          MkCap,       \* the capacity of tx
          MkMaxItems,  \* bound: what the server publishes
          MkMaxPings,  \* bound: pings
          MkMaxTries,  \* bound: connection attempts
          MkMaxAsks,   \* bound: requests to reconnect
          MkMaxDelay   \* MAX_RECONNECT_BACKOFF_SECONDS

ASSUME MkAssumption == MkCap > 0 /\ MkMaxDelay > 0

VARIABLES
    mkStream,   \* stream_type
    mkStep,     \* slot, connecting, subscribing, resync, open, send, backoff, ended
    mkLink,     \* the connection: none, up, or dead (up for the client alone)
    mkUp,       \* the frames on their way to the server
    mkSubs,     \* the channels the server has opened on this connection
    mkNet,      \* the frames on their way to the client
    mkTodo,     \* the channels still to ask for
    mkEvent,    \* the event tx.send is waiting to hand over
    mkTx,       \* the task's channel
    mkOpen,     \* its receiver exists
    mkResync,   \* resync_on_connect
    mkPermit,   \* the permit stored by notify_one
    mkWaiting,  \* waiting_for_pong
    mkDelay,    \* next_delay_seconds
    mkEntry,    \* the registry entry: state, pending_ping, latency_ms; <<>> once removed
    mkItems,    \* the channel of everything the server published, in order
    mkPings, mkTries, mkAsks,
    mkKnown,    \* ghost: the items the consumer has
    mkFirst,    \* ghost: no connection was established yet
    mkBlind     \* ghost: published before the first connection, or while the client
                \*        has asked for a channel the server has not opened yet

mkTask == <<mkStream, mkStep, mkTodo, mkEvent, mkResync, mkWaiting, mkDelay>>
mkWire == <<mkLink, mkUp, mkSubs, mkNet>>
mkBounds == <<mkPings, mkTries, mkAsks>>
mkGhosts == <<mkKnown, mkFirst, mkBlind>>
mkVars == <<mkTask, mkWire, mkTx, mkOpen, mkPermit, mkEntry, mkItems, mkBounds, mkGhosts>>

\* build_subscribe_frames: the channels of a stream type.
SubscribeFrames(stream) ==
    CASE stream = "User" -> <<"homeTimeline", "main">>
      [] stream = "UserNotification" -> <<"main">>
      [] stream \in {"Public", "PublicRemote"} -> <<"globalTimeline">>
      [] OTHER -> <<>>

NoPing == [state |-> "connecting", ping |-> 0, latency |-> <<>>]

\* Connection::connecting, connected and disconnected.
EntryIs(state) ==
    mkEntry' = [mkEntry EXCEPT !.state = state,
                               !.ping = IF state = "connecting" THEN @ ELSE 0,
                               !.latency = IF state = "connecting" THEN @ ELSE <<>>]

HangUp == mkLink' = "none" /\ mkUp' = <<>> /\ mkNet' = <<>> /\ mkSubs' = {}

-----------------------------------------------------------------------------
\* The server and the network.

\* Something is published; a connection with its channel open carries it.
Publish ==
    /\ Len(mkItems) < MkMaxItems
    /\ \E channel \in {"homeTimeline", "main"} :
          LET heard == mkLink = "up" /\ channel \in mkSubs
              asked == mkLink = "up" /\ mkStep \in {"resync", "open", "send"}
              item == Len(mkItems) + 1
          IN /\ mkItems' = Append(mkItems, channel)
             /\ mkNet' = IF heard THEN Append(mkNet, <<"item", item>>) ELSE mkNet
             /\ mkBlind' = IF mkFirst \/ (asked /\ ~heard) THEN mkBlind \union {item} ELSE mkBlind
    /\ UNCHANGED <<mkTask, mkLink, mkUp, mkSubs, mkTx, mkOpen, mkPermit, mkEntry, mkBounds,
                   mkKnown, mkFirst>>

\* The server opens a channel, or answers a ping.
ServerHandles ==
    /\ mkLink = "up" /\ mkUp # <<>>
    /\ mkUp' = Tail(mkUp)
    /\ \/ /\ Head(mkUp)[1] = "connect"
          /\ mkSubs' = mkSubs \union {Head(mkUp)[2]} /\ UNCHANGED mkNet
       \/ /\ Head(mkUp)[1] = "ping"
          /\ mkNet' = Append(mkNet, <<"pong", Head(mkUp)[2]>>) /\ UNCHANGED mkSubs
    /\ UNCHANGED <<mkTask, mkLink, mkTx, mkOpen, mkPermit, mkEntry, mkItems, mkBounds, mkGhosts>>

\* The connection breaks without a word.
LinkDies ==
    /\ mkLink = "up" /\ mkLink' = "dead" /\ mkUp' = <<>> /\ mkSubs' = {}
    /\ UNCHANGED <<mkTask, mkNet, mkTx, mkOpen, mkPermit, mkEntry, mkItems, mkBounds, mkGhosts>>

\* The consumer takes an event; a Resync has it read the server again.
Consume ==
    /\ mkOpen /\ mkTx # <<>> /\ mkTx' = Tail(mkTx)
    /\ mkKnown' = IF Head(mkTx) = <<"resync">> THEN 1 .. Len(mkItems)
                  ELSE mkKnown \union {Head(mkTx)[2]}
    /\ UNCHANGED <<mkTask, mkWire, mkOpen, mkPermit, mkEntry, mkItems, mkBounds, mkFirst, mkBlind>>

\* The account's streams are stopped: the receiver is dropped.
CloseReceiver ==
    /\ mkOpen /\ mkOpen' = FALSE /\ mkTx' = <<>>
    /\ UNCHANGED <<mkTask, mkWire, mkPermit, mkEntry, mkItems, mkBounds, mkGhosts>>

\* reconnect: notify_one stores at most one permit.
AskReconnect ==
    /\ mkEntry # <<>> /\ mkAsks < MkMaxAsks
    /\ mkAsks' = mkAsks + 1 /\ mkPermit' = TRUE
    /\ UNCHANGED <<mkTask, mkWire, mkTx, mkOpen, mkEntry, mkItems, mkPings, mkTries, mkGhosts>>

-----------------------------------------------------------------------------
\* The task.

\* wait_for_server_slot has returned: the attempt begins.
BeginAttempt ==
    /\ mkStep = "slot" /\ mkTries < MkMaxTries
    /\ mkTries' = mkTries + 1
    /\ mkStep' = "connecting" /\ EntryIs("connecting")
    /\ UNCHANGED <<mkStream, mkTodo, mkEvent, mkResync, mkWaiting, mkDelay, mkWire, mkTx, mkOpen,
                   mkPermit, mkItems, mkPings, mkAsks, mkGhosts>>

\* connect_once ends: disconnected, then the backoff, unless the receiver is gone.
AttemptFails ==
    /\ mkStep' = IF mkOpen THEN "backoff" ELSE "ended"
    /\ mkDelay' = IF mkOpen THEN Min({2 * mkDelay, MkMaxDelay}) ELSE mkDelay
    /\ HangUp /\ mkTodo' = <<>> /\ mkEvent' = <<>> /\ mkWaiting' = FALSE
    /\ mkResync' = TRUE
    /\ IF mkOpen THEN EntryIs("reconnecting") ELSE mkEntry' = <<>>
    /\ UNCHANGED <<mkStream, mkTx, mkOpen, mkPermit, mkItems, mkBounds, mkGhosts>>

\* connect_async within CONNECT_TIMEOUT, or not.
Connects ==
    /\ mkStep = "connecting"
    /\ mkStep' = "subscribing" /\ mkLink' = "up" /\ mkTodo' = SubscribeFrames(mkStream)
    /\ UNCHANGED <<mkStream, mkEvent, mkResync, mkWaiting, mkDelay, mkUp, mkSubs, mkNet, mkTx,
                   mkOpen, mkPermit, mkEntry, mkItems, mkBounds, mkGhosts>>

ConnectFails == mkStep = "connecting" /\ AttemptFails

SendSubscribe ==
    /\ mkStep = "subscribing" /\ mkTodo # <<>>
    /\ mkUp' = IF mkLink = "up" THEN Append(mkUp, <<"connect", Head(mkTodo)>>) ELSE mkUp
    /\ mkTodo' = Tail(mkTodo)
    /\ UNCHANGED <<mkStream, mkStep, mkEvent, mkResync, mkWaiting, mkDelay, mkLink, mkSubs, mkNet,
                   mkTx, mkOpen, mkPermit, mkEntry, mkItems, mkBounds, mkGhosts>>

\* Every channel is asked for: the outage is over.
Established ==
    /\ mkStep = "subscribing" /\ mkTodo = <<>>
    /\ mkStep' = IF mkResync THEN "resync" ELSE "open"
    /\ mkDelay' = 1 /\ EntryIs("connected") /\ mkFirst' = FALSE
    /\ UNCHANGED <<mkStream, mkTodo, mkEvent, mkResync, mkWaiting, mkWire, mkTx, mkOpen, mkPermit,
                   mkItems,
                   mkBounds, mkKnown, mkBlind>>

\* tx.send waits for room; without a receiver connect_once returns.
HandOver(from, event) ==
    /\ mkStep = from
    /\ \/ /\ mkOpen /\ Len(mkTx) < MkCap
          /\ mkTx' = Append(mkTx, event) /\ mkStep' = "open" /\ mkEvent' = <<>>
          /\ UNCHANGED <<mkStream, mkTodo, mkResync, mkWaiting, mkDelay, mkWire, mkOpen, mkPermit,
                         mkEntry, mkItems, mkBounds, mkGhosts>>
       \/ ~mkOpen /\ AttemptFails

SendResync == HandOver("resync", <<"resync">>)
SendEvent == HandOver("send", mkEvent)

\* read.next(): any frame shows that the server lives; parse_message makes an event of an item.
ReceiveItem ==
    /\ mkStep = "open" /\ mkNet # <<>> /\ Head(mkNet)[1] = "item"
    /\ mkNet' = Tail(mkNet) /\ mkWaiting' = FALSE
    /\ mkEvent' = <<"event", Head(mkNet)[2]>> /\ mkStep' = "send"
    /\ UNCHANGED <<mkStream, mkTodo, mkResync, mkDelay, mkLink, mkUp, mkSubs, mkTx, mkOpen,
                   mkPermit, mkEntry, mkItems, mkBounds, mkGhosts>>

\* Mutant of Pong: the payload is not compared.
PongAny(entry, payload) ==
    IF entry.ping # 0 THEN [entry EXCEPT !.ping = 0, !.latency = <<entry.ping, payload>>] ELSE entry

\* pong_received: the latency is taken from the ping with the same payload.
Pong(entry, payload) ==
    IF entry.ping = payload THEN [entry EXCEPT !.ping = 0, !.latency = <<entry.ping, payload>>]
    ELSE entry

ReceivePong ==
    /\ mkStep = "open" /\ mkNet # <<>> /\ Head(mkNet)[1] = "pong"
    /\ mkEntry' = Pong(mkEntry, Head(mkNet)[2])
    /\ mkNet' = Tail(mkNet) /\ mkWaiting' = FALSE
    /\ UNCHANGED <<mkStream, mkStep, mkTodo, mkEvent, mkResync, mkDelay, mkLink, mkUp, mkSubs,
                   mkTx, mkOpen, mkPermit, mkItems, mkBounds, mkGhosts>>

\* A close frame or an error ends connect_once; so does a frame without a receiver.
SocketEnds ==
    /\ mkStep = "open" /\ (mkLink = "up" \/ ~mkOpen)
    /\ AttemptFails

\* Mutant of AwaitPong: only the first ping of a connection is waited for.
AwaitPongOnce == mkPings = 0

AwaitPong == TRUE

\* ping_interval: a ping, and PONG_TIMEOUT begins.  The interval is longer than the timeout.
SendPing ==
    /\ mkStep = "open" /\ ~mkWaiting /\ mkPings < MkMaxPings
    /\ mkPings' = mkPings + 1
    /\ mkUp' = IF mkLink = "up" THEN Append(mkUp, <<"ping", mkPings + 1>>) ELSE mkUp
    /\ mkEntry' = [mkEntry EXCEPT !.ping = mkPings + 1]
    /\ mkWaiting' = AwaitPong
    /\ UNCHANGED <<mkStream, mkStep, mkTodo, mkEvent, mkResync, mkDelay, mkLink, mkSubs, mkNet,
                   mkTx, mkOpen, mkPermit, mkItems, mkTries, mkAsks, mkGhosts>>

PongTimesOut == mkStep = "open" /\ mkWaiting /\ AttemptFails

BackoffEnds ==
    /\ mkStep = "backoff"
    /\ mkStep' = IF mkOpen THEN "slot" ELSE "ended"
    /\ mkEntry' = IF mkOpen THEN mkEntry ELSE <<>>
    /\ UNCHANGED <<mkStream, mkTodo, mkEvent, mkResync, mkWaiting, mkDelay, mkWire, mkTx, mkOpen,
                   mkPermit, mkItems, mkBounds, mkGhosts>>

\* Mutant of AfterDrop: only an attempt that ended by itself asks for a resync.
AfterDropKept == mkResync

AfterDrop == TRUE

\* select!: a request to reconnect drops the attempt wherever it waits, a send included.
ReconnectRequested ==
    /\ mkStep \notin {"slot", "ended"} /\ mkPermit
    /\ mkPermit' = FALSE
    /\ mkStep' = IF mkOpen THEN "slot" ELSE "ended"
    /\ HangUp /\ mkTodo' = <<>> /\ mkEvent' = <<>> /\ mkWaiting' = FALSE
    /\ mkResync' = AfterDrop
    /\ IF mkOpen THEN EntryIs("reconnecting") ELSE mkEntry' = <<>>
    /\ UNCHANGED <<mkStream, mkDelay, mkTx, mkOpen, mkItems, mkBounds, mkGhosts>>

-----------------------------------------------------------------------------

SocketInit ==
    /\ mkStream \in MkStreams
    /\ mkStep = "slot" /\ mkLink = "none" /\ mkUp = <<>> /\ mkSubs = {} /\ mkNet = <<>>
    /\ mkTodo = <<>> /\ mkEvent = <<>> /\ mkTx = <<>> /\ mkOpen = TRUE
    /\ mkResync = FALSE /\ mkPermit = FALSE /\ mkWaiting = FALSE /\ mkDelay = 1
    /\ mkEntry = NoPing /\ mkItems = <<>>
    /\ mkPings = 0 /\ mkTries = 0 /\ mkAsks = 0
    /\ mkKnown = {} /\ mkFirst = TRUE /\ mkBlind = {}

SocketNext ==
    \/ Publish \/ ServerHandles \/ LinkDies \/ Consume \/ CloseReceiver \/ AskReconnect
    \/ BeginAttempt \/ Connects \/ ConnectFails \/ SendSubscribe \/ Established
    \/ SendResync \/ SendEvent \/ ReceiveItem \/ ReceivePong \/ SocketEnds
    \/ SendPing \/ PongTimesOut \/ BackoffEnds \/ ReconnectRequested

\* The task is polled and its timers fire; the server may stay silent for ever.
SocketTask ==
    SendEvent \/ SendResync \/ ReceiveItem \/ ReceivePong \/ SendPing \/ PongTimesOut

-----------------------------------------------------------------------------

\* An open stream with nothing on its way has shown its consumer everything published since
\* the first connection on its channels: what a broken or half-open connection lost, and an
\* event dropped because a request to reconnect came while the channel was full, is covered
\* by the Resync of a later connection, itself never lost to a second request.
MissedItemsAreResynced ==
    mkStep = "open" /\ mkLink = "up" /\ mkNet = <<>> /\ mkTx = <<>> /\ mkOpen =>
        \A i \in 1 .. Len(mkItems) :
            \/ i \in mkKnown \union mkBlind
            \/ mkItems[i] \notin Range(SubscribeFrames(mkStream))

\* The latency shown is that of a ping and its own pong, on the present connection: a pong
\* that comes after a later ping counts for neither.
LatencyIsOfOnePing ==
    mkEntry # <<>> /\ mkEntry.latency # <<>> =>
        mkEntry.state = "connected" /\ mkEntry.latency[1] = mkEntry.latency[2]

\* A connection that died in silence is given up once what was on its way is read.
DeadLinkIsDropped ==
    (/\ mkStep = "open" /\ mkLink = "dead" /\ mkNet = <<>>
     /\ mkWaiting \/ mkPings < MkMaxPings) ~> mkLink # "dead"
=============================================================================
