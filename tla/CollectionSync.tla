--------------------------- MODULE CollectionSync ---------------------------
(***************************************************************************)
(* The start-up synchronisation of one collection (bookmarks or            *)
(* favourites) of one account: services/startup_sync.rs, with the          *)
(* status_action of application/status.rs running beside it.               *)
(*                                                                         *)
(* A full reconciliation walks every page of the provider's collection and *)
(* then clears whatever it has not seen.  It may take several process      *)
(* lives: generation, cursor and the set of members seen are rows.  Home,  *)
(* public and notification phases run the same plan, checkpoint and        *)
(* completion with no generation, as the incremental plan here.            *)
(***************************************************************************)
EXTENDS Integers, FiniteSets, FiniteSetsExt

CONSTANTS SyncPosts,      \* statuses that may be in the collection
          PageLimit,      \* STARTUP_PAGE_LIMIT
          MaxMarks,       \* bound: changes of the collection at the provider
          MaxStarts       \* bound: starts of the process

ASSUME SyncAssumption ==
    /\ SyncPosts # {} /\ IsFiniteSet(SyncPosts)
    /\ PageLimit \in Nat \ {0} /\ MaxMarks \in Nat /\ MaxStarts \in Nat

VARIABLES
    mark,      \* provider: status -> when it joined the collection, 0 if it is not in it
    marks,     \* provider: changes so far
    viewer,    \* statuses whose status_viewer_state has the flag
    entries,   \* timeline_entries of the collection
    phase,     \* the startup_sync_state row: generation, resume cursor, a full reconcile is known
    members,   \* startup_sync_reconciliation_members: <<generation, status>>
    sync,      \* the running synchronisation
    act,       \* the running status_action
    starts,    \* starts so far
    touched    \* history: statuses changed at the provider since the generation was opened

syncVars == <<mark, marks, viewer, entries, phase, members, sync, act, starts, touched>>

NoGeneration == 0
NoCursor == 0

IdleSync == [pc |-> "idle", gen |-> NoGeneration, cursor |-> NoCursor, seen |-> {}, page |-> {},
             next |-> NoCursor]
IdleAct == [pc |-> "idle", post |-> CHOOSE p \in SyncPosts : TRUE, on |-> FALSE]

-----------------------------------------------------------------------------
(***************************************************************************)
(* The provider.                                                           *)
(***************************************************************************)

\* The collection is listed newest first; a cursor is the place of the last
\* status of a page, so that a page is what joined before it.
Before(cursor) == {p \in SyncPosts : mark[p] # 0 /\ (cursor = NoCursor \/ mark[p] < cursor)}

ProviderPage(cursor) ==
    LET older == Before(cursor) IN
    {p \in older : Cardinality({q \in older : mark[q] > mark[p]}) < PageLimit}

\* The next cursor of a page, if it is not the last one.
NextCursor(cursor) ==
    LET page == ProviderPage(cursor) IN
    IF page = Before(cursor) THEN NoCursor ELSE Min({mark[p] : p \in page})

\* A status joins or leaves the collection.
ProviderSets(p, on) ==
    /\ marks < MaxMarks
    /\ (mark[p] = 0) = on
    /\ marks' = marks + 1
    /\ mark' = [mark EXCEPT ![p] = IF on THEN marks + 1 ELSE 0]
    /\ touched' = touched \union {p}

\* Another client of the account changes the collection.
ElsewhereSets(p, on) ==
    /\ ProviderSets(p, on)
    /\ UNCHANGED <<viewer, entries, phase, members, sync, act, starts>>

-----------------------------------------------------------------------------
(***************************************************************************)
(* status_action: the provider first, then the flag, then the entry.       *)
(***************************************************************************)

\* The provider executes bookmark or unbookmark.
ActionExecuted(p, on) ==
    /\ act.pc = "idle"
    /\ starts > 0
    /\ ProviderSets(p, on)
    /\ act' = [pc |-> "viewer", post |-> p, on |-> on]
    /\ UNCHANGED <<viewer, entries, phase, members, sync, starts>>

\* save_status_for_viewer_to_db: the flag of the answer.
ActionSaves ==
    /\ act.pc = "viewer"
    /\ viewer' = IF act.on THEN viewer \union {act.post} ELSE viewer \ {act.post}
    /\ act' = [act EXCEPT !.pc = "entry"]
    /\ UNCHANGED <<mark, marks, entries, phase, members, sync, starts, touched>>

\* The timeline entry is inserted or deleted.
ActionLists ==
    /\ act.pc = "entry"
    /\ entries' = IF act.on THEN entries \union {act.post} ELSE entries \ {act.post}
    /\ act' = IdleAct
    /\ UNCHANGED <<mark, marks, viewer, phase, members, sync, starts, touched>>

\* The answer is lost, or a write fails after its retries.
ActionFails ==
    /\ act.pc # "idle"
    /\ act' = IdleAct
    /\ UNCHANGED <<mark, marks, viewer, entries, phase, members, sync, starts, touched>>

-----------------------------------------------------------------------------
(***************************************************************************)
(* The synchronisation.                                                    *)
(***************************************************************************)

\* schedule_post_ready_work of a new process; the tasks of the old one died.
StartProcess ==
    /\ starts < MaxStarts
    /\ starts' = starts + 1
    /\ sync' = [IdleSync EXCEPT !.pc = "prepare"]
    /\ act' = IdleAct
    /\ UNCHANGED <<mark, marks, viewer, entries, phase, members, touched>>

\* StartupSyncPolicy::plan.  An open generation is resumed; a full
\* reconciliation is due when there was none or the last one is old enough;
\* a fresh head is skipped.  The clock may say either.
Plans ==
    IF phase.gen # NoGeneration THEN {"resume"}
    ELSE IF ~phase.full THEN {"full"}
    ELSE {"full", "incremental", "skip"}

\* prepare_phase: a new generation starts with no members.
PreparePhase ==
    /\ sync.pc = "prepare"
    /\ \E plan \in Plans :
        LET gen == CASE plan = "full" -> starts
                     [] plan = "resume" -> phase.gen
                     [] OTHER -> NoGeneration
            from == IF plan = "resume" THEN phase.cursor ELSE NoCursor
        IN  /\ sync' = IF plan = "skip" THEN IdleSync
                       ELSE [IdleSync EXCEPT !.pc = "fetch", !.gen = gen, !.cursor = from,
                                             !.seen = {from} \ {NoCursor}]
            /\ phase' = IF plan = "full" THEN [phase EXCEPT !.gen = gen, !.cursor = NoCursor]
                        ELSE phase
            /\ members' = IF plan = "full" THEN {} ELSE members
            /\ touched' = IF plan # "full" THEN touched
                          ELSE IF act.pc = "idle" THEN {} ELSE {act.post}
    /\ UNCHANGED <<mark, marks, viewer, entries, act, starts>>

\* One page is read.  A head page is cut off by since_id; a provider may
\* answer a cursor it has given before.
FetchPage ==
    /\ sync.pc = "fetch"
    /\ \/ /\ sync.gen = NoGeneration
          /\ \E page \in SUBSET ProviderPage(NoCursor) :
                sync' = [sync EXCEPT !.pc = "save", !.page = page]
       \/ /\ sync.gen # NoGeneration
          /\ sync' = [sync EXCEPT !.pc = "save", !.page = ProviderPage(sync.cursor),
                                  !.next = NextCursor(sync.cursor)]
       \/ /\ sync.gen # NoGeneration
          /\ \E again \in sync.seen :
                sync' = [sync EXCEPT !.pc = "save", !.page = ProviderPage(sync.cursor),
                                     !.next = again]
    /\ UNCHANGED <<mark, marks, viewer, entries, phase, members, act, starts, touched>>

\* save_status_batch_with_retry: statuses with their flag and entry.
SavePage ==
    /\ sync.pc = "save"
    /\ viewer' = viewer \union sync.page
    /\ entries' = entries \union sync.page
    /\ sync' = [sync EXCEPT !.pc = "commit"]
    /\ UNCHANGED <<mark, marks, phase, members, act, starts, touched>>

\* The write fails after some of its transactions.
SavePageFails ==
    /\ sync.pc = "save"
    /\ \E part \in SUBSET sync.page :
          /\ viewer' = viewer \union part
          /\ entries' = entries \union part
    /\ sync' = IdleSync
    /\ UNCHANGED <<mark, marks, phase, members, act, starts, touched>>

\* Mutant of CommitPageCheckpoint: the cursor is stored without the members.
CommitCursorOnly ==
    /\ sync.pc = "commit"
    /\ phase' = [phase EXCEPT !.cursor = sync.next]
    /\ sync' = IF sync.gen = NoGeneration \/ sync.page = {} \/ sync.next = NoCursor
               THEN [sync EXCEPT !.pc = "complete"]
               ELSE [sync EXCEPT !.pc = "fetch", !.cursor = sync.next,
                                 !.seen = @ \union {sync.next}, !.page = {}, !.next = NoCursor]
    /\ members' = IF sync.page # {} /\ sync.next = NoCursor
                  THEN members \union {<<sync.gen, p>> : p \in sync.page} ELSE members
    /\ UNCHANGED <<mark, marks, viewer, entries, act, starts, touched>>

\* Mutant of CommitPageCheckpoint: a repeated cursor is followed.
CommitUnguarded ==
    /\ sync.pc = "commit"
    /\ phase' = [phase EXCEPT !.cursor = sync.next]
    /\ members' = IF sync.gen = NoGeneration THEN members
                  ELSE members \union {<<sync.gen, p>> : p \in sync.page}
    /\ sync' = IF sync.gen = NoGeneration \/ sync.page = {} \/ sync.next = NoCursor
               THEN [sync EXCEPT !.pc = "complete"]
               ELSE [sync EXCEPT !.pc = "fetch", !.cursor = sync.next, !.page = {},
                                 !.next = NoCursor]
    /\ UNCHANGED <<mark, marks, viewer, entries, act, starts, touched>>

\* commit_page_checkpoint: members and cursor in one transaction; then the
\* loop goes on, ends, or gives up over a repeated cursor.
CommitPageCheckpoint ==
    /\ sync.pc = "commit"
    /\ phase' = [phase EXCEPT !.cursor = sync.next]
    /\ members' = IF sync.gen = NoGeneration THEN members
                  ELSE members \union {<<sync.gen, p>> : p \in sync.page}
    /\ sync' = IF sync.gen = NoGeneration \/ sync.page = {} \/ sync.next = NoCursor
               THEN [sync EXCEPT !.pc = "complete"]
               ELSE IF sync.next \in sync.seen THEN IdleSync
               ELSE [sync EXCEPT !.pc = "fetch", !.cursor = sync.next,
                                 !.seen = @ \union {sync.next}, !.page = {}, !.next = NoCursor]
    /\ UNCHANGED <<mark, marks, viewer, entries, act, starts, touched>>

\* Mutant of CompletePhase: the resume cursor is not cleared.
CompleteKeepsCursor ==
    LET kept == {p \in SyncPosts : <<phase.gen, p>> \in members} IN
    /\ sync.pc = "complete"
    /\ viewer' = IF phase.gen = NoGeneration THEN viewer ELSE viewer \intersect kept
    /\ entries' = IF phase.gen = NoGeneration THEN entries ELSE entries \intersect kept
    /\ members' = {m \in members : m[1] # phase.gen}
    /\ phase' = [phase EXCEPT !.gen = NoGeneration, !.full = @ \/ phase.gen # NoGeneration]
    /\ sync' = IdleSync
    /\ UNCHANGED <<mark, marks, act, starts, touched>>

\* complete_phase: flags and entries outside the members of the generation go.
CompletePhase ==
    LET gen == phase.gen
        kept == {p \in SyncPosts : <<gen, p>> \in members}
    IN
    /\ sync.pc = "complete"
    /\ IF gen = NoGeneration
       THEN UNCHANGED <<viewer, entries, members>>
       ELSE /\ viewer' = viewer \intersect kept
            /\ entries' = entries \intersect kept
            /\ members' = {m \in members : m[1] # gen}
    /\ phase' = [gen |-> NoGeneration, cursor |-> NoCursor,
                 full |-> phase.full \/ gen # NoGeneration]
    /\ sync' = IdleSync
    /\ UNCHANGED <<mark, marks, act, starts, touched>>

\* fail_phase: an API or database error ends the run, the row stays as it is.
FailPhase ==
    /\ sync.pc \in {"prepare", "fetch", "commit", "complete"}
    /\ sync' = IdleSync
    /\ UNCHANGED <<mark, marks, viewer, entries, phase, members, act, starts, touched>>

-----------------------------------------------------------------------------

SyncInit ==
    /\ mark = [p \in SyncPosts |-> 0]
    /\ marks = 0
    /\ viewer = {}
    /\ entries = {}
    /\ phase = [gen |-> NoGeneration, cursor |-> NoCursor, full |-> FALSE]
    /\ members = {}
    /\ sync = IdleSync
    /\ act = IdleAct
    /\ starts = 0
    /\ touched = {}

SyncRun ==
    \/ PreparePhase
    \/ FetchPage
    \/ SavePage
    \/ SavePageFails
    \/ CommitPageCheckpoint
    \/ CompletePhase
    \/ FailPhase

SyncNext ==
    \/ \E p \in SyncPosts, on \in BOOLEAN : ElsewhereSets(p, on) \/ ActionExecuted(p, on)
    \/ ActionSaves
    \/ ActionLists
    \/ ActionFails
    \/ StartProcess
    \/ SyncRun

SyncSpec == SyncInit /\ [][SyncNext]_syncVars

-----------------------------------------------------------------------------

\* The rows, the members and the two tasks have their types, and a resume
\* cursor belongs to an open generation.
SyncTypeOK ==
    /\ phase.cursor # NoCursor => phase.gen # NoGeneration
    /\ mark \in [SyncPosts -> 0..MaxMarks]
    /\ marks \in 0..MaxMarks
    /\ viewer \subseteq SyncPosts
    /\ entries \subseteq SyncPosts
    /\ phase \in [gen : 0..MaxStarts, cursor : 0..MaxMarks, full : BOOLEAN]
    /\ members \subseteq (1..MaxStarts) \X SyncPosts
    /\ sync \in [pc : {"idle", "prepare", "fetch", "save", "commit", "complete"},
                 gen : 0..MaxStarts, cursor : 0..MaxMarks, seen : SUBSET (1..MaxMarks),
                 page : SUBSET SyncPosts, next : 0..MaxMarks]
    /\ act \in [pc : {"idle", "viewer", "entry"}, post : SyncPosts, on : BOOLEAN]
    /\ starts \in 0..MaxStarts
    /\ touched \subseteq SyncPosts

\* "a crash keeps both the cursor and the seen set" (migrations/022) and "full
\* reconciliation reflects removals at the remote": when a reconciliation is
\* completed, however many starts, failed pages and resumes it took, flags
\* and entries of every status that did not change meanwhile are those of the
\* provider.
ReconcileConverges ==
    phase.gen # NoGeneration /\ phase'.gen = NoGeneration =>
     \A p \in SyncPosts \ touched :
         /\ (p \in viewer') = (mark[p] # 0)
         /\ (p \in entries') = (mark[p] # 0)

\* "pagination repeated cursor; reconciliation remains resumable": a run ends
\* whatever cursors the provider answers.
SyncEnds == (sync.pc # "idle") ~> (sync.pc = "idle")
=============================================================================
