-------------------------- MODULE FrontendRecovery --------------------------
(***************************************************************************)
(* The checkpoint that lets the application reload a hung page without     *)
(* losing what the user was writing: FrontendRecoveryState of              *)
(* application/frontend_recovery.rs and the coordinator that writes to it, *)
(* frontend/src/utils/frontendRecovery.ts.                                 *)
(*                                                                         *)
(* The page writes its draft and whether it may be reloaded, one write at  *)
(* a time.  The watchdog reserves a reload, and may rebuild the view once  *)
(* when the reload does not come.  Replaced pages still deliver writes.    *)
(***************************************************************************)
EXTENDS Integers, FiniteSets

CONSTANTS Drafts,     \* what the user may have written; 0 is nothing
          TooLarge,   \* the drafts the native process refuses
          Cyclic,     \* the drafts that cannot be serialised
          MaxPages    \* bound: documents loaded

ASSUME DraftsAssumption == 0 \in Drafts /\ TooLarge \cup Cyclic \subseteq Drafts \ {0}

VARIABLES
    frStored,  \* the native process: StoredCheckpoint; generation 0 is none
    frDoc,     \* the document in the view
    frPage,    \* its coordinator, and the draft and submission of its user
    frWire     \* writes of replaced documents that may still arrive

frVars == <<frStored, frDoc, frPage, frWire>>

NoWrite == [draft |-> -1, blocked |-> FALSE, gen |-> 0]

FreshPage == [step |-> "new", gen |-> 0, text |-> 0, draft |-> 0, blockers |-> {},
              pend |-> NoWrite, flight |-> NoWrite, done |-> "none", last |-> NoWrite,
              submit |-> "idle"]

-----------------------------------------------------------------------------
(* The native process.                                                     *)

\* Mutant of Checkpointed: a write of a replaced document is taken.
CheckpointedStale(st, w) ==
    IF w.draft \in TooLarge THEN [st EXCEPT !.blocked = TRUE]
    ELSE [st EXCEPT !.draft = w.draft, !.blocked = w.blocked]

\* Mutant of Checkpointed: a refused write leaves the gate as it was.
CheckpointedOpen(st, w) ==
    IF w.gen # st.gen \/ w.draft \in TooLarge THEN st
    ELSE [st EXCEPT !.draft = w.draft, !.blocked = w.blocked]

Checkpointed(st, w) ==
    IF w.gen # st.gen THEN st
    ELSE IF w.draft \in TooLarge THEN [st EXCEPT !.blocked = TRUE]
    ELSE [st EXCEPT !.draft = w.draft, !.blocked = w.blocked]

Refused(st, w) == w.gen # st.gen \/ w.draft \in TooLarge

\* restore: the handshake of a document; the answer is on its way.
Restore ==
    /\ frPage.step = "new"
    /\ frStored' = [frStored EXCEPT !.gen = frDoc, !.blocked = TRUE, !.recreate = FALSE]
    /\ frPage' = [frPage EXCEPT !.step = "restoring", !.gen = frDoc, !.draft = frStored.draft]
    /\ UNCHANGED <<frDoc, frWire>>

\* The write under way is executed; its answer is on its way.
CheckpointCommand ==
    /\ frPage.flight # NoWrite /\ frPage.done = "none"
    /\ frStored' = Checkpointed(frStored, frPage.flight)
    /\ frPage' = [frPage EXCEPT !.done = IF Refused(frStored, frPage.flight) THEN "error" ELSE "ok"]
    /\ UNCHANGED <<frDoc, frWire>>

\* A write of a replaced document is executed; nobody waits for its answer.
LateCheckpoint ==
    /\ \E w \in frWire :
          /\ frStored' = Checkpointed(frStored, w)
          /\ frWire' = frWire \ {w}
    /\ UNCHANGED <<frDoc, frPage>>

\* try_begin_recovery: the watchdog reserves a reload.
TryBeginRecovery ==
    /\ ~frStored.blocked
    /\ frStored' = [frStored EXCEPT !.blocked = TRUE, !.gen = 0, !.recreate = TRUE]
    /\ UNCHANGED <<frDoc, frPage, frWire>>

\* A new document replaces the one in the view.
Replace ==
    /\ frDoc < MaxPages
    /\ frDoc' = frDoc + 1
    /\ frPage' = FreshPage
    /\ frWire' = IF frPage.flight # NoWrite /\ frPage.done = "none"
                 THEN frWire \union {frPage.flight} ELSE frWire

\* try_begin_recreation: the view is built anew, once for a reservation.
TryBeginRecreation ==
    /\ frStored.blocked /\ frStored.gen = 0 /\ frStored.recreate
    /\ frStored' = [frStored EXCEPT !.recreate = FALSE]
    /\ Replace

\* The reload that was asked for comes, or the content process dies and is reloaded.
Reload ==
    /\ Replace
    /\ UNCHANGED frStored

-----------------------------------------------------------------------------
(* The page.                                                               *)

PageReady ==
    /\ frPage.step = "restoring"
    /\ frPage' = [frPage EXCEPT !.step = "ready", !.text = frPage.draft]
    /\ UNCHANGED <<frStored, frDoc, frWire>>

\* The coordinator sends w, unless it is what was last written.
Send(p, w) == IF w = p.last THEN p ELSE [p EXCEPT !.flight = w]

\* setBlocked of the blockers bs: a write, or the one to make after the write under way.
SetBlocked(p, bs) ==
    LET w == [draft |-> p.draft, blocked |-> bs # {}, gen |-> p.gen]
        q == [p EXCEPT !.blockers = bs]
    IN  IF p.flight # NoWrite THEN [q EXCEPT !.pend = w] ELSE Send(q, w)

With(bs, b, on) == IF on THEN bs \union {b} ELSE bs \ {b}

\* save: the user edits.  compose says that an upload or a post is under way.
Edit(d, compose) ==
    /\ frPage.step = "ready" /\ d # frPage.text
    /\ LET p == [frPage EXCEPT !.text = d] IN
       frPage' = IF d \in Cyclic
                 THEN SetBlocked(p, p.blockers \union {"invalid"})
                 ELSE SetBlocked([p EXCEPT !.draft = d],
                                 With(p.blockers \ {"invalid"}, "compose", compose))
    /\ UNCHANGED <<frStored, frDoc, frWire>>

\* submit: posting waits until the native process has taken the blocker.
Submit ==
    LET p == SetBlocked(frPage, frPage.blockers \union {"submit"}) IN
    /\ frPage.step = "ready" /\ frPage.submit = "idle"
    /\ frPage' = [p EXCEPT !.submit = IF p.flight = NoWrite THEN "protected" ELSE "asking"]
    /\ UNCHANGED <<frStored, frDoc, frWire>>

\* The post was made, refused or given up: the blocker is taken back.
Submitted ==
    /\ frPage.submit = "protected"
    /\ frPage' = SetBlocked([frPage EXCEPT !.submit = "idle"], frPage.blockers \ {"submit"})
    /\ UNCHANGED <<frStored, frDoc, frWire>>

\* The outcome of a post is unknown: its blocker stays.
SubmitUncertain ==
    /\ frPage.submit = "protected"
    /\ frPage' = [frPage EXCEPT !.submit = "idle"]
    /\ UNCHANGED <<frStored, frDoc, frWire>>

\* Mutant of WriteDone: who waits is told when one write is done.
WriteDoneEarly ==
    LET p == [frPage EXCEPT !.flight = NoWrite, !.done = "none", !.pend = NoWrite,
                            !.last = IF frPage.done = "ok" THEN frPage.flight ELSE @,
                            !.submit = IF @ # "asking" THEN @
                                       ELSE IF frPage.done = "ok" THEN "protected" ELSE "idle"]
    IN
    /\ frPage.done # "none"
    /\ frPage' = IF frPage.pend = NoWrite THEN p ELSE Send(p, frPage.pend)
    /\ UNCHANGED <<frStored, frDoc, frWire>>

\* flush: the answer of a write comes.  The next write goes out; who waits is told when
\* there is none, or that it failed.
WriteDone ==
    LET p == [frPage EXCEPT !.flight = NoWrite, !.done = "none", !.pend = NoWrite,
                            !.last = IF frPage.done = "ok" THEN frPage.flight ELSE @]
        q == IF frPage.pend = NoWrite THEN p ELSE Send(p, frPage.pend)
    IN
    /\ frPage.done # "none"
    /\ frPage' = [q EXCEPT !.submit = IF @ # "asking" THEN @
                                      ELSE IF frPage.done = "error" THEN "idle"
                                      ELSE IF q.flight = NoWrite THEN "protected" ELSE @]
    /\ UNCHANGED <<frStored, frDoc, frWire>>

RecoveryInit ==
    /\ frStored = [draft |-> 0, gen |-> 0, blocked |-> TRUE, recreate |-> FALSE]
    /\ frDoc = 1
    /\ frPage = FreshPage
    /\ frWire = {}

RecoveryNext ==
    \/ Restore \/ CheckpointCommand \/ LateCheckpoint
    \/ TryBeginRecovery \/ TryBeginRecreation \/ Reload
    \/ PageReady \/ (\E d \in Drafts, c \in BOOLEAN : Edit(d, c))
    \/ Submit \/ Submitted \/ SubmitUncertain \/ WriteDone

RecoverySpec == RecoveryInit /\ [][RecoveryNext]_frVars

-----------------------------------------------------------------------------

\* From the moment a post may go out until its outcome is known the watchdog cannot reload
\* the page: the native process holds the blocker of this very document.
SubmissionIsNotInterrupted ==
    frPage.submit = "protected" => frStored.gen = frPage.gen /\ frStored.blocked

\* While the watchdog may reload the page of the current generation, what its user wrote
\* is in the checkpoint, or a write of it is on its way.
DraftIsSafe ==
    frPage.step = "ready" /\ frStored.gen = frPage.gen /\ ~frStored.blocked
        => frStored.draft = frPage.text \/ frPage.flight # NoWrite

\* What the checkpoint of frontend_recovery.rs and frontendRecovery.ts is for: a recovery
\* of the page neither interrupts a post nor loses what was written.
DraftsSurvive == SubmissionIsNotInterrupted /\ DraftIsSafe

\* From the reservation of a reload until the next document has its state back nothing
\* changes the draft that document will find.
ReservedDraftIsKept ==
    frStored.gen = 0 \/ frPage.step = "restoring" => frStored'.draft = frStored.draft
=============================================================================
