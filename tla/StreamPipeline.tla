--------------------------- MODULE StreamPipeline ---------------------------
(***************************************************************************)
(* The live path of one signed-in account: one socket per stream type, a   *)
(* micro-batching processor per socket, the persistence queue and its      *)
(* worker (services/streaming_service.rs), the bridge that sequences       *)
(* events for the WebView (application/desktop/stream_bridge.rs) and the   *)
(* emit queue (application/desktop.rs).                                    *)
(*                                                                         *)
(* Posts are the data: a post is published, edited and deleted at the      *)
(* provider, and every stream of the account carries every change.  The    *)
(* rows of the status cache have other writers too: a notification, a      *)
(* boost and a quote carry a copy of a post as it was, and so does every   *)
(* answer a command or a quote lookup saves.  The StreamClock positions    *)
(* the processors attach are left out: the bridge ignores them and numbers *)
(* the events itself.                                                      *)
(***************************************************************************)
EXTENDS Integers, Sequences, FiniteSets

CONSTANTS Streams,      \* the stream types the account subscribes to: with
                        \* none, restart_streaming starts no bridge
          Posts,        \* posts of the provider
          MaxVersion,   \* bound: versions of a post
          RawCap,       \* RAW_STREAM_QUEUE_CAPACITY
          BatchCap,     \* EVENT_MICRO_BATCH_CAPACITY
          PersistCap,   \* PERSISTENCE_QUEUE_CAPACITY
          BridgeCap,    \* STREAM_BRIDGE_QUEUE_CAPACITY
          WireCap,      \* EMIT_QUEUE_CAPACITY
          SideCap,      \* STREAM_SIDE_EFFECT_QUEUE_CAPACITY and the one at work
          MaxOutages,   \* bound: lost connections and failed first attempts
          MaxFaults,    \* bound: failed writes of the persistence worker
          MaxRestarts,  \* bound: restart_streaming calls
          MaxCopies     \* bound: notices and boosts received, answers saved

ASSUME PipelineAssumption ==
    /\ Streams # {} /\ MaxVersion \in Nat \ {0}
    /\ {RawCap, BatchCap, PersistCap, BridgeCap, WireCap, SideCap} \subseteq Nat \ {0}
    /\ {MaxOutages, MaxFaults, MaxRestarts, MaxCopies} \subseteq Nat

VARIABLES
    post,      \* post -> its version at the provider, 0 while there is none
    log,       \* every change of a post, in the order the provider made them
    conn,      \* stream -> "first" (never connected), "up" or "down"
    read,      \* stream -> how much of log its socket has delivered or missed
    raw,       \* stream -> the socket's queue to its processor
    work,      \* stream -> events of the current batch still to broadcast
    pq,        \* the persistence queue
    lagged,    \* the flag shared by the processors and the worker
    wpc,       \* where the persistence worker is
    wbatch,    \* the batch it holds
    db,        \* post -> version of its statuses row, 0 while there is none
    behind,    \* posts whose row was last written from a copy that was no
               \* longer what the provider held
    entries,   \* stream -> posts with a row in that stream's timeline_entries
    bridge,    \* the queue into the bridge
    gen, seq,  \* the bridge's generation and sequence
    epoch,     \* which bridge this is: counts restarts
    owed,      \* the notice the bridge has emitted and not handed over yet
    side,      \* bridge -> its notification side effects, the one at work first
    telling,   \* post -> what its quote lookup has still to tell the bridge
    wire,      \* the emit queue
    echo,      \* a detached commit notice waits for room in it
    seen,      \* the WebView's last recorded position of this account
    lost,      \* a batch was dropped and no resync was queued since
    missed,    \* some change reaches the database by no batch
    outages, faults, copies

provider == <<post, log>>
sockets == <<conn, read, raw, outages>>
persistence == <<pq, lagged, wpc, wbatch, lost>>
database == <<db, behind, entries, faults>>
bridgeVars == <<bridge, gen, seq, epoch>>
besides == <<owed, side, telling, echo, copies>>
webview == <<wire, seen>>
vars == <<provider, sockets, work, persistence, database, bridgeVars, besides, webview, missed>>

Versions == 0..MaxVersion
Resync == [kind |-> "resync"]
Committed == [kind |-> "committed"]
Changes == [kind : {"new", "edit", "delete"}, post : Posts, ver : Versions]
Copies == [kind : {"notice", "boost"}, post : Posts, ver : Versions]
Events == Changes \cup Copies \cup {Resync}
NoBatch == [stream |-> "none", events |-> <<>>]
Nowhere == [gen |-> 0, seq |-> 0, epoch |-> 0]
WorkerSteps == {"idle", "persist", "commit", "check", "swap", "resync"}

IsChange(e) == e.kind \in {"new", "edit", "delete"}
IsDelete(e) == e.kind = "delete"
IsSave(e) == e.kind \in {"new", "edit", "notice", "boost"}

(* The versions of a post that may still be under way somewhere.           *)
Past(p) == {log[i].ver : i \in {i \in DOMAIN log : log[i].post = p /\ IsSave(log[i])}}

-----------------------------------------------------------------------------
(* The provider and the sockets.                                           *)

Change(kind, p, v) ==
    /\ post' = [post EXCEPT ![p] = IF kind = "delete" THEN 0 ELSE v]
    /\ log' = Append(log, [kind |-> kind, post |-> p, ver |-> v])
    /\ UNCHANGED <<sockets, work, persistence, database, bridgeVars, besides, webview, missed>>

Deleted(p) == \E i \in DOMAIN log : log[i].kind = "delete" /\ log[i].post = p

Publish(p) == post[p] = 0 /\ ~Deleted(p) /\ Change("new", p, 1)
Edit(p) == post[p] \in 1..(MaxVersion - 1) /\ Change("edit", p, post[p] + 1)
Delete(p) == post[p] > 0 /\ Change("delete", p, 0)

(* connect_once: the first connection of run_streaming sends no marker,    *)
(* every later one starts with a Resync.  What the provider sent while the *)
(* socket was not connected is gone; the socket counts as connected when   *)
(* its marker is queued.                                                   *)
Connect(s) ==
    /\ conn[s] # "up"
    /\ Len(raw[s]) < RawCap
    /\ conn' = [conn EXCEPT ![s] = "up"]
    /\ read' = [read EXCEPT ![s] = Len(log)]
    /\ missed' = (missed \/ read[s] < Len(log))
    /\ raw' = IF conn[s] = "first" THEN raw
              ELSE [raw EXCEPT ![s] = Append(@, Resync)]
    /\ UNCHANGED <<provider, outages, work, persistence, database, bridgeVars, besides,
                   webview>>

(* A failed first attempt, a reset, a missing pong or a reconnect request. *)
Disconnect(s) ==
    /\ conn[s] # "down"
    /\ outages < MaxOutages
    /\ outages' = outages + 1
    /\ conn' = [conn EXCEPT ![s] = "down"]
    /\ UNCHANGED <<provider, read, raw, work, persistence, database, bridgeVars, besides,
                   webview, missed>>

Receive(s) ==
    /\ conn[s] = "up"
    /\ read[s] < Len(log)
    /\ Len(raw[s]) < RawCap
    /\ raw' = [raw EXCEPT ![s] = Append(@, log[read[s] + 1])]
    /\ read' = [read EXCEPT ![s] = @ + 1]
    /\ UNCHANGED <<provider, conn, outages, work, persistence, database, bridgeVars, besides,
                   webview, missed>>

(* A notification about a post, or a boost or a quote of it, brings a copy *)
(* of the post as it was when that was made.  Which of the account's       *)
(* streams carries it does not matter.                                     *)
ReceiveCopy(s, copy) ==
    /\ conn[s] = "up"
    /\ copies < MaxCopies /\ copies' = copies + 1
    /\ copy.ver \in Past(copy.post)
    /\ Len(raw[s]) < RawCap
    /\ raw' = [raw EXCEPT ![s] = Append(@, copy)]
    /\ UNCHANGED <<provider, conn, read, outages, work, persistence, database, bridgeVars,
                   owed, side, telling, echo, webview, missed>>

-----------------------------------------------------------------------------
(* The processors.                                                         *)

(* CoalescedBatch::push: one event per post, in the place of the first     *)
(* one; a delete is never replaced by anything but a delete.  Notices and  *)
(* boosts have keys of their own and are never merged with their post: an  *)
(* edit may end up before a notice with the older copy.                    *)
Push(events, e) ==
    LET same == {i \in DOMAIN events : /\ IsChange(events[i]) /\ IsChange(e)
                                       /\ events[i].post = e.post}
    IN  IF same = {} THEN Append(events, e)
        ELSE LET i == CHOOSE i \in same : TRUE
             IN  IF events[i].kind = "delete" /\ e.kind # "delete"
                 THEN events ELSE [events EXCEPT ![i] = e]

Coalesce(received) ==
    LET batch[n \in 0..Len(received)] ==
            IF n = 0 THEN <<>> ELSE Push(batch[n - 1], received[n])
    IN  batch[Len(received)]

(* A batch that does not wait for more: at the capacity, or with the       *)
(* socket's queue drained.                                                 *)
BatchSize(s) == IF Len(raw[s]) < BatchCap THEN Len(raw[s]) ELSE BatchCap

(* Mutants: the flag is forgotten; the processor waits for room.           *)
DropSilently(batch) ==
    /\ IF Len(pq) < PersistCap THEN pq' = Append(pq, batch) ELSE UNCHANGED pq
    /\ lost' = (lost \/ Len(pq) >= PersistCap)
    /\ missed' = (missed \/ Len(pq) >= PersistCap)
    /\ UNCHANGED lagged

WaitForRoom(batch) ==
    /\ Len(pq) < PersistCap
    /\ pq' = Append(pq, batch)
    /\ UNCHANGED <<lagged, lost, missed>>

(* enqueue_persistence_batch: a full queue drops the batch and only sets   *)
(* the flag; the processor never waits.                                    *)
EnqueuePersistence(batch) ==
    \/ /\ Len(pq) < PersistCap
       /\ pq' = Append(pq, batch)
       /\ UNCHANGED <<lagged, lost, missed>>
    \/ /\ Len(pq) >= PersistCap
       /\ lagged' = TRUE
       /\ lost' = TRUE
       /\ missed' = TRUE
       /\ UNCHANGED pq

(* receive_micro_batch and the hand-over that follows it without an await. *)
TakeBatch(s) ==
    LET events == Coalesce(SubSeq(raw[s], 1, BatchSize(s)))
    IN  /\ work[s] = <<>>
        /\ raw[s] # <<>>
        /\ raw' = [raw EXCEPT ![s] = SubSeq(@, BatchSize(s) + 1, Len(@))]
        /\ work' = [work EXCEPT ![s] = events]
        /\ EnqueuePersistence([stream |-> s, events |-> events])
        /\ UNCHANGED <<provider, conn, read, outages, wpc, wbatch, database, bridgeVars,
                       besides, webview>>

(* broadcast_event awaits room in the bridge's queue.                      *)
Broadcast(s) ==
    /\ work[s] # <<>>
    /\ Len(bridge) < BridgeCap
    /\ bridge' = Append(bridge, [ev |-> Head(work[s]), stream |-> s])
    /\ work' = [work EXCEPT ![s] = Tail(@)]
    /\ UNCHANGED <<provider, sockets, persistence, database, gen, seq, epoch, besides, webview,
                   missed>>

-----------------------------------------------------------------------------
(* The persistence worker.                                                 *)

(* The events of a batch that persist_event_batch writes, by their place   *)
(* in it, and their order: the statuses, those of notifications and the    *)
(* boosted and quoted ones among them, then the deletes.                   *)
Writes(batch) == {i \in DOMAIN batch.events : batch.events[i] # Resync}

WrittenBefore(batch, i, j) ==
    LET first == batch.events[i]
        then == batch.events[j]
    IN  \/ IsSave(first) /\ IsDelete(then)
        \/ (IsSave(first) <=> IsSave(then)) /\ i < j

(* What a batch that stops half-way may have written.                      *)
Prefixes(batch) ==
    {done \in SUBSET Writes(batch) :
        \A i \in done, j \in Writes(batch) : WrittenBefore(batch, j, i) => j \in done}

LastWrite(batch, done, p) ==
    CHOOSE i \in done :
        /\ batch.events[i].post = p
        /\ \A j \in done : batch.events[j].post = p /\ j # i => WrittenBefore(batch, j, i)

(* Mutant: a deleted row is kept with a marker instead of its version.     *)
StoredTombstone(e) == IF IsSave(e) THEN e.ver ELSE -1

(* What a write leaves of a post: a save upserts the row unconditionally.  *)
Stored(e) == IF IsSave(e) THEN e.ver ELSE 0

(* A copy the provider has left behind.                                    *)
OldCopy(e) == e \in Copies /\ e.ver # post[e.post]

(* The writes of wbatch in done: the rows, and the timeline entries, which *)
(* a new status gets and a delete takes from every timeline.               *)
PersistWrites(done) ==
    LET events == wbatch.events
        posts(kinds) == {events[i].post : i \in {i \in done : events[i].kind \in kinds}}
        listed(c) == IF c = wbatch.stream THEN posts({"new"}) ELSE {}
        written(p) == \E i \in done : events[i].post = p
        last(p) == events[LastWrite(wbatch, done, p)]
    IN  /\ db' = [p \in Posts |-> IF written(p) THEN Stored(last(p)) ELSE db[p]]
        /\ behind' = {p \in Posts : IF written(p) THEN OldCopy(last(p)) ELSE p \in behind}
        /\ entries' = [c \in Streams |-> (entries[c] \cup listed(c)) \ posts({"delete"})]

WorkerTakes ==
    /\ wpc = "idle" /\ pq # <<>>
    /\ wpc' = "persist" /\ wbatch' = Head(pq) /\ pq' = Tail(pq)
    /\ UNCHANGED <<provider, sockets, work, lagged, lost, database, bridgeVars, besides,
                   webview, missed>>

PersistSucceeds ==
    /\ wpc = "persist"
    /\ PersistWrites(Writes(wbatch))
    /\ wpc' = "commit"
    /\ UNCHANGED <<provider, sockets, work, pq, wbatch, lagged, lost, faults, bridgeVars,
                   besides, webview, missed>>

(* Mutant: a failed batch is not tried again.                              *)
PersistGivesUp ==
    /\ wpc = "persist"
    /\ faults < MaxFaults
    /\ \E done \in Prefixes(wbatch) \ {Writes(wbatch)} : PersistWrites(done)
    /\ faults' = faults + 1
    /\ lagged' = TRUE
    /\ wpc' = "commit"
    /\ UNCHANGED <<provider, sockets, work, pq, wbatch, lost, bridgeVars, besides, webview,
                   missed>>

(* A write fails after the ones before it were committed: the flag is set  *)
(* and the whole batch is tried again a second later.                      *)
PersistFails ==
    /\ wpc = "persist"
    /\ faults < MaxFaults
    /\ \E done \in Prefixes(wbatch) \ {Writes(wbatch)} : PersistWrites(done)
    /\ faults' = faults + 1
    /\ lagged' = TRUE
    /\ UNCHANGED <<provider, sockets, work, pq, wpc, wbatch, lost, bridgeVars, besides,
                   webview, missed>>

(* CacheCommitted, when the batch held more than resync markers.           *)
AnnounceCommit ==
    /\ wpc = "commit"
    /\ IF Writes(wbatch) = {} THEN UNCHANGED bridge
       ELSE /\ Len(bridge) < BridgeCap
            /\ bridge' = Append(bridge, [ev |-> Committed, stream |-> "none"])
    /\ wpc' = "check" /\ wbatch' = NoBatch
    /\ UNCHANGED <<provider, sockets, work, pq, lagged, lost, database, gen, seq, epoch,
                   besides, webview, missed>>

(* Mutant: the two conditions are evaluated in the other order.            *)
ClearLaggedFirst ==
    /\ wpc = "check"
    /\ wpc' = IF pq = <<>> /\ lagged THEN "resync" ELSE "idle"
    /\ lagged' = FALSE
    /\ UNCHANGED <<provider, sockets, work, pq, wbatch, lost, database, bridgeVars, besides,
                   webview, missed>>

(* receiver.is_empty() and lagged.swap(false) are two steps: processors    *)
(* run between them.                                                       *)
CheckEmpty ==
    /\ wpc = "check"
    /\ wpc' = IF pq = <<>> THEN "swap" ELSE "idle"
    /\ UNCHANGED <<provider, sockets, work, pq, wbatch, lagged, lost, database, bridgeVars,
                   besides, webview, missed>>

SwapLagged ==
    /\ wpc = "swap"
    /\ wpc' = IF lagged THEN "resync" ELSE "idle"
    /\ lagged' = FALSE
    /\ UNCHANGED <<provider, sockets, work, pq, wbatch, lost, database, bridgeVars, besides,
                   webview, missed>>

RequestResync ==
    /\ wpc = "resync"
    /\ Len(bridge) < BridgeCap
    /\ bridge' = Append(bridge, [ev |-> Resync, stream |-> "none"])
    /\ wpc' = "idle"
    /\ lost' = FALSE
    /\ UNCHANGED <<provider, sockets, work, pq, wbatch, lagged, database, gen, seq, epoch,
                   besides, webview, missed>>

-----------------------------------------------------------------------------
(* The other writers of the same rows.                                     *)

(* persist_status_graph upserts every status of an answer, and the ones it *)
(* boosts or quotes, without a look at the row: what was fetched before a  *)
(* change and saved after it stands there.                                 *)
SaveCopies(copy) ==
    /\ db' = [p \in Posts |-> IF p \in DOMAIN copy THEN copy[p] ELSE db[p]]
    /\ behind' = {p \in Posts : IF p \in DOMAIN copy THEN copy[p] # post[p] ELSE p \in behind}

Answers == UNION {[asked -> Versions] : asked \in SUBSET Posts}
IsAnswer(copy) == copy \in Answers /\ \A p \in DOMAIN copy : copy[p] \in Past(p)

(* A command saves what the provider answered: a page of a timeline, a     *)
(* thread, a search, a status.  No restart stops it.  (What it lists in a  *)
(* timeline is TimelinePages.)                                             *)
SavePage(copy) ==
    /\ IsAnswer(copy)
    /\ copies < MaxCopies /\ copies' = copies + 1
    /\ SaveCopies(copy)
    /\ UNCHANGED <<provider, sockets, work, persistence, entries, faults, bridgeVars, owed, side,
                   telling, echo, webview, missed>>

(* resolve_quote_job, from its save on: the quoting post p, as it was when *)
(* its job was queued, and the post it quotes.  QuoteLookups has the jobs' *)
(* registry and queue.                                                     *)
QuoteSaves(p, copy) ==
    /\ telling[p] = <<>>
    /\ IsAnswer(copy) /\ p \in DOMAIN copy
    /\ copies < MaxCopies /\ copies' = copies + 1
    /\ SaveCopies(copy)
    /\ telling' = [telling EXCEPT
                     ![p] = <<Committed, [kind |-> "edit", post |-> p, ver |-> copy[p]]>>]
    /\ UNCHANGED <<provider, sockets, work, persistence, entries, faults, bridgeVars, owed, side,
                   echo, webview, missed>>

QuoteTells(p) ==
    /\ telling[p] # <<>>
    /\ Len(bridge) < BridgeCap
    /\ bridge' = Append(bridge, [ev |-> Head(telling[p]), stream |-> "none"])
    /\ telling' = [telling EXCEPT ![p] = Tail(@)]
    /\ UNCHANGED <<provider, sockets, work, persistence, database, gen, seq, epoch, owed, side,
                   echo, copies, webview, missed>>

(* A notification's side effect ends, saved or with an error: its status   *)
(* is upserted, and save_notification_to_db announces each commit, the     *)
(* account's before the status's, unless an announcement is still pending. *)
SideEnds(b) ==
    /\ side[b] # <<>>
    /\ LET notice == Head(side[b])
       IN  \/ SaveCopies([p \in {notice.post} |-> notice.ver])
           \/ UNCHANGED <<db, behind>>
    /\ side' = [side EXCEPT ![b] = Tail(@)]
    /\ echo' \in {echo, TRUE}
    /\ UNCHANGED <<provider, sockets, work, persistence, entries, faults, bridgeVars, owed,
                   telling, copies, webview, missed>>

-----------------------------------------------------------------------------
(* The bridge, the emit queue and the WebView's recordPosition.            *)

Position == [gen |-> gen', seq |-> seq', epoch |-> epoch]

(* Mutant: commit notices are numbered too.                                *)
NumberEverything(ev) ==
    \/ ev = Resync /\ gen' = gen + 1 /\ seq' = 0
    \/ ev # Resync /\ seq' = seq + 1 /\ UNCHANGED gen

Number(ev) ==
    \/ ev = Committed /\ UNCHANGED <<gen, seq>>
    \/ ev = Resync /\ gen' = gen + 1 /\ seq' = 0
    \/ ev \notin {Committed, Resync} /\ seq' = seq + 1 /\ UNCHANGED gen

(* An emitted notification is handed to the side effects before the next   *)
(* event is taken.                                                         *)
Forward ==
    /\ bridge # <<>> /\ owed = <<>>
    /\ Len(wire) < WireCap
    /\ LET item == Head(bridge)
       IN  /\ Number(item.ev)
           /\ wire' = Append(wire, [ev |-> item.ev, stream |-> item.stream, at |-> Position])
           /\ owed' = IF item.ev.kind = "notice" THEN <<item.ev>> ELSE <<>>
    /\ bridge' = Tail(bridge)
    /\ UNCHANGED <<provider, sockets, work, persistence, database, epoch, side, telling, echo,
                   copies, seen, missed>>

(* side_effect_tx.send awaits room: a full queue stops the bridge.         *)
HandOver ==
    /\ owed # <<>>
    /\ Len(side[epoch]) < SideCap
    /\ side' = [side EXCEPT ![epoch] = Append(@, Head(owed))]
    /\ owed' = <<>>
    /\ UNCHANGED <<provider, sockets, work, persistence, database, bridgeVars, telling, echo,
                   copies, webview, missed>>

(* emit_detached's task finds room.                                        *)
EmitEcho ==
    /\ echo
    /\ Len(wire) < WireCap
    /\ wire' = Append(wire, [ev |-> Committed, stream |-> "none", at |-> Nowhere])
    /\ echo' = FALSE
    /\ UNCHANGED <<provider, sockets, work, persistence, database, bridgeVars, owed, side,
                   telling, copies, seen, missed>>

(* The part of the WebView's listener that concerns positions.             *)
TakeWire ==
    /\ wire # <<>>
    /\ wire' = Tail(wire)
    /\ seen' = IF Head(wire).ev = Committed THEN seen ELSE Head(wire).at

Display ==
    /\ TakeWire
    /\ UNCHANGED <<provider, sockets, work, persistence, database, bridgeVars, besides,
                   missed>>

(* restart_streaming aborts every task of the account, a half-written      *)
(* batch included, and starts over; what the emit queue holds is still     *)
(* delivered, and the side effects that were handed over are worked off.   *)
Restart ==
    /\ epoch < MaxRestarts
    /\ epoch' = epoch + 1
    /\ conn' = [s \in Streams |-> "first"]
    /\ raw' = [s \in Streams |-> <<>>]
    /\ work' = [s \in Streams |-> <<>>]
    /\ pq' = <<>> /\ lagged' = FALSE /\ lost' = FALSE
    /\ wpc' = "idle" /\ wbatch' = NoBatch
    /\ bridge' = <<>> /\ gen' = 1 /\ seq' = 0
    /\ IF wpc = "persist"
       THEN \E done \in Prefixes(wbatch) : PersistWrites(done)
       ELSE UNCHANGED <<db, behind, entries>>
    /\ missed' = (missed \/ wpc = "persist" \/ pq # <<>> \/ \E s \in Streams : raw[s] # <<>>)
    /\ owed' = <<>> /\ telling' = [p \in Posts |-> <<>>]
    /\ UNCHANGED <<provider, read, outages, faults, side, echo, copies, webview>>

-----------------------------------------------------------------------------
Init ==
    /\ post = [p \in Posts |-> 0] /\ log = <<>>
    /\ conn = [s \in Streams |-> "first"]
    /\ read = [s \in Streams |-> 0]
    /\ raw = [s \in Streams |-> <<>>]
    /\ work = [s \in Streams |-> <<>>]
    /\ pq = <<>> /\ lagged = FALSE /\ lost = FALSE
    /\ wpc = "idle" /\ wbatch = NoBatch
    /\ db = [p \in Posts |-> 0] /\ behind = {} /\ entries = [s \in Streams |-> {}]
    /\ bridge = <<>> /\ gen = 1 /\ seq = 0 /\ epoch = 0
    /\ wire = <<>> /\ seen = Nowhere
    /\ owed = <<>> /\ side = [b \in 0..MaxRestarts |-> <<>>]
    /\ telling = [p \in Posts |-> <<>>] /\ echo = FALSE
    /\ missed = FALSE /\ outages = 0 /\ faults = 0 /\ copies = 0

ProviderStep == \E p \in Posts : Publish(p) \/ Edit(p) \/ Delete(p)
SocketStep == \E s \in Streams : Connect(s) \/ Disconnect(s) \/ Receive(s)
CopyStep == \E s \in Streams, copy \in Copies : ReceiveCopy(s, copy)
ProcessorStep == \E s \in Streams : TakeBatch(s) \/ Broadcast(s)
WorkerStep == \/ WorkerTakes \/ PersistSucceeds \/ PersistFails \/ AnnounceCommit
              \/ CheckEmpty \/ SwapLagged \/ RequestResync

OtherWriterStep ==
    \/ \E copy \in Answers : SavePage(copy) \/ \E p \in Posts : QuoteSaves(p, copy)
    \/ \E p \in Posts : QuoteTells(p)
    \/ \E b \in 0..MaxRestarts : SideEnds(b)
BridgeStep == Forward \/ HandOver \/ EmitEcho

(* Everything but the WebView.                                             *)
BackendStep == \/ ProviderStep \/ SocketStep \/ CopyStep \/ ProcessorStep \/ WorkerStep
               \/ OtherWriterStep \/ BridgeStep \/ Restart

Next == BackendStep \/ Display

Spec == Init /\ [][Next]_vars

(* Every task of the live path is scheduled.  Nothing is assumed of the    *)
(* persistence worker.                                                     *)
LiveFairness ==
    /\ \A s \in Streams : /\ WF_vars(Connect(s)) /\ WF_vars(Receive(s))
                          /\ WF_vars(TakeBatch(s)) /\ WF_vars(Broadcast(s))
    /\ WF_vars(Forward) /\ WF_vars(HandOver) /\ WF_vars(Display)

(* A notification's side effect ends, if only with an error: every attempt *)
(* to write waits for a connection and for SQLite's lock a limited time,   *)
(* and the attempts are counted.                                           *)
SideFairness == \A b \in 0..MaxRestarts : WF_vars(SideEnds(b))

(* The worker is scheduled and its writes succeed at last.                 *)
WorkerFairness ==
    WF_vars(WorkerTakes \/ PersistSucceeds \/ AnnounceCommit \/ CheckEmpty
            \/ SwapLagged \/ RequestResync)

LiveSpec == Spec /\ LiveFairness /\ SideFairness

-----------------------------------------------------------------------------
(* Properties.                                                             *)

(* Every queue holds what its consumer expects and the worker is at one of *)
(* its steps.                                                              *)
TypeOK ==
    /\ post \in [Posts -> Versions]
    /\ log \in Seq(Changes)
    /\ conn \in [Streams -> {"first", "up", "down"}]
    /\ read \in [Streams -> 0..Len(log)]
    /\ raw \in [Streams -> Seq(Events)]
    /\ work \in [Streams -> Seq(Events)]
    /\ pq \in Seq([stream : Streams, events : Seq(Events)])
    /\ wbatch \in [stream : Streams \cup {"none"}, events : Seq(Events)]
    /\ wpc \in WorkerSteps
    /\ {lagged, lost, missed} \subseteq BOOLEAN
    /\ db \in [Posts -> Versions] /\ behind \subseteq Posts
    /\ entries \in [Streams -> SUBSET Posts]
    /\ bridge \in Seq([ev : Events \cup {Committed}, stream : Streams \cup {"none"}])
    /\ wire \in Seq([ev : Events \cup {Committed}, stream : Streams \cup {"none"},
                     at : [gen : Nat, seq : Nat, epoch : Nat]])
    /\ owed \in Seq(Copies) /\ side \in [0..MaxRestarts -> Seq(Copies)]
    /\ telling \in [Posts -> Seq(Events \cup {Committed})] /\ echo \in BOOLEAN
    /\ {gen, seq, epoch, outages, faults, copies} \subseteq Nat
    /\ seen \in [gen : Nat, seq : Nat, epoch : Nat]

(* While a dropped batch awaits its resync, the worker still has the flag  *)
(* to find (or has just taken it) and another look at it to come, so that  *)
(* no drop is forgotten between is_empty, swap and the next overflow.      *)
LagCovered ==
    lost => /\ lagged \/ wpc = "resync"
            /\ pq # <<>> \/ wpc # "idle"

Settled == /\ \A s \in Streams : raw[s] = <<>> /\ work[s] = <<>> /\ read[s] = Len(log)
           /\ pq = <<>> /\ wpc \in {"idle", "check", "swap", "resync"}

(* Once every change has gone through, the status cache holds what the     *)
(* provider holds, whatever the streams' batches interleaved, however      *)
(* events were coalesced and however often a batch had to be retried.      *)
(* Only a copy that was already old when it was written, from a notice, a  *)
(* boost, a quote or an answer, may still stand in a row: the upserts of   *)
(* those writers look at nothing, and the stream says nothing more.        *)
CacheConverges ==
    Settled /\ ~missed => \A p \in Posts : db[p] = post[p] \/ p \in behind

(* The frontend's recordPosition.                                          *)
Continuous(before, after) ==
    before.gen = after.gen /\ before.seq + 1 = after.seq

Numbered(i) == i \in DOMAIN wire /\ wire[i].ev # Committed
Before(i) ==
    LET earlier == {j \in 1..(i - 1) : Numbered(j)}
    IN  IF earlier = {} THEN seen
        ELSE wire[CHOOSE j \in earlier : \A k \in earlier : k <= j].at

(* The WebView sees a gap exactly where the bridge was replaced: the       *)
(* numbers of one bridge are continuous although processors, quote and     *)
(* persistence workers write to it concurrently, and a restart, which      *)
(* loses queued events, never looks continuous.                            *)
GapsShowRestarts ==
    \A i \in DOMAIN wire :
        (Numbered(i) /\ wire[i].ev # Resync /\ Before(i) # Nowhere) =>
            (Continuous(Before(i), wire[i].at) <=> Before(i).epoch = wire[i].at.epoch)

(* If the worker runs and its writes succeed at last, a dropped batch is   *)
(* followed by a resync request to the WebView.                            *)
LossIsResynced == WorkerFairness => (lost ~> ~lost)

(* "A busy SQLite writer must never make a healthy provider connection     *)
(* look frozen": what a socket delivered is broadcast even if the          *)
(* persistence worker never runs again, and although the bridge waits for  *)
(* the notification side effects once their queue is full.  It does rest   *)
(* on each of those ending: one write that hung for ever would stop the    *)
(* bridge after SideCap notices.                                           *)
LiveDelivery ==
    \A s \in Streams : (raw[s] # <<>> \/ work[s] # <<>>)
                         ~> (raw[s] = <<>> /\ work[s] = <<>>)

(* A post that is created and still there is listed in the timeline of     *)
(* every stream that carried it.                                           *)
NewPostsListed ==
    Settled /\ ~missed => \A p \in Posts, s \in Streams : post[p] > 0 => p \in entries[s]
=============================================================================
