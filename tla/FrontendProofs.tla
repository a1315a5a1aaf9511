-------------------------- MODULE FrontendProofs --------------------------
(***************************************************************************)
(* What the page and the process that watches it owe to the user.          *)
(*                                                                         *)
(* FrontendRecovery: a recovery of the page neither interrupts a post nor  *)
(* loses a draft, for every set of drafts and any number of documents.     *)
(* What the watchdog may do depends on the native process alone, so the    *)
(* invariant relates what the native process holds to what the coordinator *)
(* of the current document believes it holds: its last write that was      *)
(* taken, the write under way, and the one it has to make after that.      *)
(*                                                                         *)
(* WebviewHealth: the watchdog reloads only a page that stood still on     *)
(* screen for the recovery time. The invariant bounds every clock of its   *)
(* state by the time the window was watched.                               *)
(*                                                                         *)
(* CacheNotices: no commit to the status cache is overlooked by a column.  *)
(* The invariant follows a commit from the emitter to the refresh.         *)
(*                                                                         *)
(* PostActions: a page at rest shows the flag the acting account has, and  *)
(* a deletion removes what the server deleted and nothing else.  Unless an *)
(* account is set aside, a command that runs is that of the one mutation   *)
(* of the post, which is why nothing overtakes it.                         *)
(***************************************************************************)
EXTENDS FrontendRecovery, WebviewHealth, CacheNotices, PostActions, SequenceTheorems,
        TLAPS

Blockers == {"invalid", "compose", "submit"}

Writes == [draft : Drafts \cup {-1}, blocked : BOOLEAN, gen : Nat]

Stored == [draft : Drafts \cup {-1}, gen : Nat, blocked : BOOLEAN, recreate : BOOLEAN]

Pages == [step : {"new", "restoring", "ready"}, gen : Nat, text : Drafts \cup {-1},
          draft : Drafts \cup {-1}, blockers : SUBSET Blockers, pend : Writes,
          flight : Writes, done : {"none", "ok", "error"}, last : Writes,
          submit : {"idle", "asking", "protected"}]

Typed ==
    /\ frStored \in Stored
    /\ frDoc \in Nat \ {0}
    /\ frPage \in Pages
    /\ frWire \subseteq Writes

\* Generations: the native process knows the current document, a replaced one whose
\* successor has not asked for its state, or none.
GenInv ==
    /\ frStored.gen \in 0..frDoc
    /\ frPage.step = "new" => frPage.gen = 0 /\ frStored.gen # frDoc
    /\ frPage.step # "new" => frPage.gen = frDoc /\ frStored.gen \in {0, frDoc}
    /\ \A w \in frWire : w.gen \in 1..(frDoc - 1)

\* The queue of a page: one write under way, one after it, both of its own generation.
QueueInv(p) ==
    /\ p.flight = NoWrite \/ p.flight.gen = p.gen
    /\ p.pend = NoWrite \/ p.pend.gen = p.gen
    /\ p.flight = NoWrite => p.done = "none" /\ p.pend = NoWrite
    /\ p.step # "ready" => /\ p.flight = NoWrite
                           /\ p.last = NoWrite
                           /\ p.submit = "idle"
                           /\ p.blockers = {}

\* What a page would write now.
Wish(p) == [draft |-> p.draft, blocked |-> p.blockers # {}, gen |-> p.gen]

\* The last write in the queue says what the page wants.
WishInv(p) ==
    /\ p.pend # NoWrite => p.pend = Wish(p)
    /\ p.pend = NoWrite /\ p.flight # NoWrite => p.flight = Wish(p)
    /\ p.step = "ready" => p.text = p.draft \/ "invalid" \in p.blockers

Current(st, p) == st.gen = p.gen

\* What a page was told is what the native process holds.
ToldInv(st, p) ==
    /\ p.done # "ok" /\ p.last.blocked => Current(st, p) /\ st.blocked
    /\ p.done = "ok" /\ p.flight.blocked => Current(st, p) /\ st.blocked
    /\ p.done = "error" /\ Current(st, p) => st.blocked

\* While the watchdog may act the native process holds the draft that was last taken.
OpenInv(st, p) ==
    p.step # "new" /\ Current(st, p) /\ ~st.blocked =>
        /\ p.step = "ready"
        /\ p.done # "ok" => p.last.draft = st.draft /\ ~p.last.blocked
        /\ p.done = "ok" => p.flight.draft = st.draft /\ ~p.flight.blocked

\* When nothing is under way then, that write was what the page wants.
SettledInv(st, p) ==
    p.step # "new" /\ Current(st, p) /\ ~st.blocked /\ p.flight = NoWrite => p.last = Wish(p)

\* A submission holds its blocker from the moment it asks for it.
SubmitInv(st, p) ==
    /\ p.submit # "idle" => "submit" \in p.blockers
    /\ p.submit = "asking" => p.flight # NoWrite
    /\ p.submit = "protected" => /\ Current(st, p)
                                 /\ st.blocked
                                 /\ p.flight # NoWrite /\ p.done = "none" => p.flight.blocked

PageInv(st, p) ==
    /\ QueueInv(p)
    /\ WishInv(p)
    /\ ToldInv(st, p)
    /\ OpenInv(st, p)
    /\ SettledInv(st, p)
    /\ SubmitInv(st, p)

RecoveryInv == Typed /\ GenInv /\ PageInv(frStored, frPage)

-----------------------------------------------------------------------------
(* The operators of the page.                                              *)

LEMMA NoWriteIsTyped == NoWrite \in Writes
BY DEF NoWrite, Writes

LEMMA WishIsTyped ==
    ASSUME NEW p \in Pages
    PROVE  Wish(p) \in Writes
BY DEF Wish, Pages, Writes

\* setBlocked: only the blockers and the two writes change.  A write under way is left
\* alone, and the new wish waits behind it; otherwise it goes out, if it is news.
LEMMA SetBlockedIs ==
    ASSUME NEW p \in Pages, NEW bs \in SUBSET Blockers
    PROVE  LET q == SetBlocked(p, bs) IN
           /\ q \in Pages
           /\ q.step = p.step /\ q.gen = p.gen /\ q.text = p.text /\ q.draft = p.draft
           /\ q.done = p.done /\ q.last = p.last /\ q.submit = p.submit
           /\ q.blockers = bs
           /\ p.flight # NoWrite => q.flight = p.flight /\ q.pend = Wish(q)
           /\ p.flight = NoWrite => q.pend = p.pend
           /\ p.flight = NoWrite /\ Wish(q) = p.last => q.flight = NoWrite
           /\ p.flight = NoWrite /\ Wish(q) # p.last => q.flight = Wish(q)
<1> DEFINE w == [draft |-> p.draft, blocked |-> bs # {}, gen |-> p.gen]
           b == [p EXCEPT !.blockers = bs]
           q == SetBlocked(p, bs)
<1>1. w \in Writes
  BY DEF Pages, Writes
<1>2. /\ b \in Pages
      /\ b.step = p.step /\ b.gen = p.gen /\ b.text = p.text /\ b.draft = p.draft
      /\ b.done = p.done /\ b.last = p.last /\ b.submit = p.submit
      /\ b.blockers = bs /\ b.flight = p.flight /\ b.pend = p.pend
  BY DEF Pages
<1>3. q = IF p.flight # NoWrite THEN [b EXCEPT !.pend = w]
          ELSE IF w = b.last THEN b ELSE [b EXCEPT !.flight = w]
  BY DEF SetBlocked, Send
<1> HIDE DEF b, q
<1>4. /\ q \in Pages
      /\ q.step = b.step /\ q.gen = b.gen /\ q.text = b.text /\ q.draft = b.draft
      /\ q.done = b.done /\ q.last = b.last /\ q.submit = b.submit
      /\ q.blockers = b.blockers
      /\ p.flight # NoWrite => q.flight = b.flight /\ q.pend = w
      /\ p.flight = NoWrite => q.pend = b.pend
      /\ p.flight = NoWrite /\ w = b.last => q.flight = b.flight
      /\ p.flight = NoWrite /\ w # b.last => q.flight = w
  <2> HIDE DEF w
  <2> QED BY <1>1, <1>2, <1>3 DEF Pages
<1>5. Wish(q) = w
  BY <1>2, <1>4 DEF Wish
<1> HIDE DEF w
<1> QED BY <1>2, <1>4, <1>5 DEF q

\* Whatever changes the page's wish through setBlocked keeps what is known of the page,
\* when its submission goes on holding its blocker.
LEMMA SetBlockedKeeps ==
    ASSUME NEW st \in Stored, NEW p \in Pages, NEW bs \in SUBSET Blockers,
           QueueInv(p), ToldInv(st, p), OpenInv(st, p), SubmitInv(st, p),
           p.step = "ready", p.gen # 0,
           p.text = p.draft \/ "invalid" \in bs,
           p.submit # "idle" => "submit" \in bs
    PROVE  PageInv(st, SetBlocked(p, bs))
<1> DEFINE q == SetBlocked(p, bs)
<1>1. /\ q \in Pages
      /\ q.step = p.step /\ q.gen = p.gen /\ q.text = p.text /\ q.draft = p.draft
      /\ q.done = p.done /\ q.last = p.last /\ q.submit = p.submit
      /\ q.blockers = bs
      /\ p.flight # NoWrite => q.flight = p.flight /\ q.pend = Wish(q)
      /\ p.flight = NoWrite => q.pend = p.pend
      /\ p.flight = NoWrite /\ Wish(q) = p.last => q.flight = NoWrite
      /\ p.flight = NoWrite /\ Wish(q) # p.last => q.flight = Wish(q)
  BY SetBlockedIs
<1> HIDE DEF q
<1>2. Wish(q) # NoWrite /\ Wish(q).gen = q.gen /\ Wish(q).blocked = (bs # {})
  BY <1>1 DEF Wish, NoWrite
<1>3. p.flight = NoWrite => p.done = "none" /\ p.pend = NoWrite
  BY DEF QueueInv
<1>4. QueueInv(q)
  BY <1>1, <1>2, <1>3 DEF QueueInv
<1>5. WishInv(q)
  BY <1>1, <1>2, <1>3 DEF WishInv
<1>6. ToldInv(st, q)
  BY <1>1, <1>2, <1>3 DEF ToldInv, Current
<1>7. OpenInv(st, q)
  BY <1>1, <1>2, <1>3 DEF OpenInv, Current
<1>8. SettledInv(st, q)
  BY <1>1, <1>2, <1>3 DEF OpenInv, SettledInv, Current
<1>9. SubmitInv(st, q)
  BY <1>1, <1>2, <1>3 DEF SubmitInv, Current
<1> QED BY <1>4, <1>5, <1>6, <1>7, <1>8, <1>9 DEF PageInv, q

LEMMA CheckpointedIs ==
    ASSUME NEW st \in Stored, NEW w \in Writes
    PROVE  LET s == Checkpointed(st, w) IN
           /\ s \in Stored
           /\ s.gen = st.gen
           /\ w.gen # st.gen => s = st
           /\ w.gen = st.gen /\ w.draft \in TooLarge => s.blocked /\ s.draft = st.draft
           /\ w.gen = st.gen /\ w.draft \notin TooLarge =>
                 s.blocked = w.blocked /\ s.draft = w.draft
BY DEF Checkpointed, Stored, Writes

-----------------------------------------------------------------------------
(* Every step keeps the invariant.                                         *)

\* A page that holds a submission, a write or a blocker is ready, and its generation is
\* that of the document.
LEMMA ReadyHasGeneration ==
    ASSUME RecoveryInv
    PROVE  /\ frPage.step # "new" => frPage.gen = frDoc /\ frPage.gen # 0
           /\ frPage.flight # NoWrite => frPage.step = "ready" /\ frPage.flight.gen = frPage.gen
           /\ frPage.submit # "idle" => frPage.step = "ready"
BY DEF RecoveryInv, Typed, GenInv, PageInv, QueueInv

LEMMA StartHolds == RecoveryInit => RecoveryInv
<1> SUFFICES ASSUME RecoveryInit PROVE RecoveryInv
  OBVIOUS
<1>1. Typed
  BY NoWriteIsTyped, DraftsAssumption
     DEF RecoveryInit, Typed, Stored, Pages, FreshPage
<1>2. GenInv
  BY DEF RecoveryInit, GenInv, FreshPage
<1>3. PageInv(frStored, frPage)
  BY DEF RecoveryInit, FreshPage, NoWrite, PageInv, QueueInv, WishInv, ToldInv, OpenInv,
         SettledInv, SubmitInv, Current
<1> QED BY <1>1, <1>2, <1>3 DEF RecoveryInv

LEMMA RestoreKeeps == RecoveryInv /\ Restore => RecoveryInv'
<1> SUFFICES ASSUME RecoveryInv, Restore PROVE RecoveryInv'
  OBVIOUS
<1>1. /\ frStored \in Stored
      /\ frPage \in Pages
      /\ frDoc \in Nat \ {0}
      /\ frWire \subseteq Writes
  BY DEF RecoveryInv, Typed
<1>2. /\ frStored' \in Stored
      /\ frStored'.gen = frDoc /\ frStored'.blocked
  BY <1>1 DEF Restore, Stored
<1>3. /\ frPage' \in Pages
      /\ frPage'.step = "restoring" /\ frPage'.gen = frDoc
      /\ frPage'.flight = frPage.flight /\ frPage'.pend = frPage.pend
      /\ frPage'.done = frPage.done /\ frPage'.last = frPage.last
      /\ frPage'.submit = frPage.submit /\ frPage'.blockers = frPage.blockers
  BY <1>1 DEF Restore, Pages, Stored
<1>4. Typed'
  BY <1>1, <1>2, <1>3 DEF Restore, Typed
<1>5. GenInv'
  BY <1>1, <1>2, <1>3 DEF Restore, RecoveryInv, GenInv
<1>6. /\ frPage.flight = NoWrite /\ frPage.last = NoWrite
      /\ frPage.submit = "idle" /\ frPage.blockers = {}
      /\ frPage.done = "none" /\ frPage.pend = NoWrite
  BY DEF Restore, RecoveryInv, PageInv, QueueInv
<1>7. PageInv(frStored', frPage')
  BY <1>2, <1>3, <1>6
     DEF NoWrite, PageInv, QueueInv, WishInv, ToldInv, OpenInv, SettledInv, SubmitInv, Current
<1> QED BY <1>4, <1>5, <1>7 DEF RecoveryInv

LEMMA CheckpointCommandKeeps == RecoveryInv /\ CheckpointCommand => RecoveryInv'
<1> SUFFICES ASSUME RecoveryInv, CheckpointCommand PROVE RecoveryInv'
  OBVIOUS
<1> DEFINE w == frPage.flight
<1>1. /\ frStored \in Stored
      /\ frPage \in Pages
      /\ frDoc \in Nat \ {0}
      /\ frWire \subseteq Writes
      /\ w \in Writes
  BY DEF RecoveryInv, Typed, Pages
<1>2. /\ w # NoWrite
      /\ w.gen = frPage.gen
      /\ frPage.step = "ready"
      /\ frPage.done = "none"
  BY ReadyHasGeneration DEF CheckpointCommand
<1>3. /\ frStored' \in Stored
      /\ frStored'.gen = frStored.gen
      /\ w.gen # frStored.gen => frStored' = frStored
      /\ w.gen = frStored.gen /\ w.draft \in TooLarge =>
            frStored'.blocked /\ frStored'.draft = frStored.draft
      /\ w.gen = frStored.gen /\ w.draft \notin TooLarge =>
            frStored'.blocked = w.blocked /\ frStored'.draft = w.draft
  BY <1>1, CheckpointedIs DEF CheckpointCommand
<1>4. /\ frPage' \in Pages
      /\ frPage'.step = frPage.step /\ frPage'.gen = frPage.gen
      /\ frPage'.text = frPage.text /\ frPage'.draft = frPage.draft
      /\ frPage'.flight = w /\ frPage'.pend = frPage.pend
      /\ frPage'.last = frPage.last /\ frPage'.submit = frPage.submit
      /\ frPage'.blockers = frPage.blockers
      /\ frPage'.done \in {"ok", "error"}
      /\ frPage'.done = "error" <=> (w.gen # frStored.gen \/ w.draft \in TooLarge)
  BY <1>1 DEF CheckpointCommand, Pages, Refused
<1>5. Typed'
  BY <1>1, <1>3, <1>4 DEF CheckpointCommand, Typed
<1>6. GenInv'
  BY <1>1, <1>3, <1>4 DEF CheckpointCommand, RecoveryInv, GenInv
<1> HIDE DEF w
<1>7. PageInv(frStored, frPage)
  BY DEF RecoveryInv
<1>8. frPage.flight = w
  BY DEF w
<1>9. QueueInv(frPage')
  BY <1>2, <1>4, <1>7, <1>8 DEF PageInv, QueueInv
<1>10. WishInv(frPage')
  BY <1>2, <1>4, <1>7, <1>8 DEF PageInv, WishInv, Wish
<1>11. ToldInv(frStored', frPage')
  BY <1>2, <1>3, <1>4, <1>7, <1>8 DEF PageInv, ToldInv, Current
<1>12. OpenInv(frStored', frPage')
  BY <1>2, <1>3, <1>4, <1>7, <1>8 DEF PageInv, OpenInv, ToldInv, Current
<1>13. SettledInv(frStored', frPage')
  BY <1>2, <1>4, <1>8 DEF SettledInv
<1>14. SubmitInv(frStored', frPage')
  BY <1>2, <1>3, <1>4, <1>7, <1>8 DEF PageInv, SubmitInv, Current
<1>15. PageInv(frStored', frPage')
  BY <1>9, <1>10, <1>11, <1>12, <1>13, <1>14 DEF PageInv
<1> QED BY <1>5, <1>6, <1>15 DEF RecoveryInv

\* A late write is of an older document: it changes what the native process holds only
\* while the document in the view has not asked for its state.
LEMMA LateCheckpointKeeps == RecoveryInv /\ LateCheckpoint => RecoveryInv'
<1> SUFFICES ASSUME RecoveryInv, LateCheckpoint PROVE RecoveryInv'
  OBVIOUS
<1>1. /\ frStored \in Stored
      /\ frPage \in Pages
      /\ frDoc \in Nat \ {0}
      /\ frWire \subseteq Writes
  BY DEF RecoveryInv, Typed
<1>2. PICK w \in frWire : /\ frStored' = Checkpointed(frStored, w)
                         /\ frWire' = frWire \ {w}
  BY DEF LateCheckpoint
<1>3. frPage' = frPage /\ frDoc' = frDoc
  BY DEF LateCheckpoint
<1>4. w \in Writes /\ w.gen \in 1..(frDoc - 1)
  BY <1>1 DEF RecoveryInv, GenInv
<1>5. /\ frStored' \in Stored
      /\ frStored'.gen = frStored.gen
      /\ w.gen # frStored.gen => frStored' = frStored
  BY <1>1, <1>2, <1>4, CheckpointedIs
<1>6. Typed'
  BY <1>1, <1>2, <1>3, <1>5 DEF Typed
<1>7. GenInv'
  BY <1>1, <1>2, <1>3, <1>5 DEF RecoveryInv, GenInv
<1>8. PageInv(frStored, frPage)
  BY DEF RecoveryInv
<1>9. CASE frPage.step # "new"
  <2>1. w.gen # frStored.gen
    BY <1>1, <1>4, <1>9 DEF RecoveryInv, GenInv
  <2>2. frStored' = frStored
    BY <2>1, <1>5
  <2>3. PageInv(frStored', frPage')
    BY <2>2, <1>3, <1>8
  <2> QED BY <2>3, <1>6, <1>7 DEF RecoveryInv
<1>10. CASE frPage.step = "new"
  <2>1. /\ frPage.last = NoWrite /\ frPage.flight = NoWrite
        /\ frPage.submit = "idle" /\ frPage.done = "none"
    BY <1>8, <1>10 DEF PageInv, QueueInv
  <2>2. PageInv(frStored', frPage)
    BY <1>8, <1>10, <2>1 DEF PageInv, ToldInv, OpenInv, SettledInv, SubmitInv, NoWrite
  <2> QED BY <2>2, <1>3, <1>6, <1>7 DEF RecoveryInv
<1> QED BY <1>9, <1>10

LEMMA TryBeginRecoveryKeeps == RecoveryInv /\ TryBeginRecovery => RecoveryInv'
<1> SUFFICES ASSUME RecoveryInv, TryBeginRecovery PROVE RecoveryInv'
  OBVIOUS
<1>1. /\ frStored \in Stored
      /\ frPage \in Pages
      /\ frDoc \in Nat \ {0}
      /\ frWire \subseteq Writes
  BY DEF RecoveryInv, Typed
<1>2. /\ frStored' \in Stored
      /\ frStored'.gen = 0
      /\ frStored'.blocked
      /\ ~frStored.blocked
  BY <1>1 DEF TryBeginRecovery, Stored
<1>3. frPage' = frPage /\ frDoc' = frDoc /\ frWire' = frWire
  BY DEF TryBeginRecovery
<1>4. Typed'
  BY <1>1, <1>2, <1>3 DEF Typed
<1>5. GenInv'
  BY <1>1, <1>2, <1>3 DEF RecoveryInv, GenInv
<1>6. PageInv(frStored, frPage)
  BY DEF RecoveryInv
<1>7. ToldInv(frStored', frPage)
  BY <1>2, <1>6 DEF PageInv, ToldInv, Current
<1>8. OpenInv(frStored', frPage) /\ SettledInv(frStored', frPage)
  BY <1>2 DEF OpenInv, SettledInv
<1>9. SubmitInv(frStored', frPage)
  BY <1>2, <1>6 DEF PageInv, SubmitInv
<1>10. PageInv(frStored', frPage')
  BY <1>3, <1>6, <1>7, <1>8, <1>9 DEF PageInv
<1> QED BY <1>4, <1>5, <1>10 DEF RecoveryInv

\* A new document knows nothing; only its predecessor's write is still under way.
LEMMA ReplaceKeeps ==
    ASSUME RecoveryInv, Replace, frStored' \in Stored, frStored'.gen = frStored.gen
    PROVE  RecoveryInv'
<1>1. /\ frStored \in Stored
      /\ frPage \in Pages
      /\ frDoc \in Nat \ {0}
      /\ frWire \subseteq Writes
      /\ frPage.flight \in Writes
  BY DEF RecoveryInv, Typed, Pages
<1>2. /\ frDoc' = frDoc + 1
      /\ frPage' = FreshPage
      /\ frWire' \subseteq frWire \union {frPage.flight}
      /\ frPage.flight = NoWrite => frWire' = frWire
  BY DEF Replace
<1>3. FreshPage \in Pages
  BY NoWriteIsTyped, DraftsAssumption DEF FreshPage, Pages
<1>4. Typed'
  BY <1>1, <1>2, <1>3 DEF Typed
<1>5. GenInv'
  <2>1. /\ frStored'.gen \in 0..frDoc'
        /\ frStored'.gen # frDoc'
    BY <1>1, <1>2 DEF RecoveryInv, GenInv
  <2>2. frPage'.step = "new" /\ frPage'.gen = 0
    BY <1>2 DEF FreshPage
  <2>3. ASSUME NEW w \in frWire' PROVE w.gen \in 1..(frDoc' - 1)
    <3>1. CASE w \in frWire
      BY <1>1, <1>2, <3>1 DEF RecoveryInv, GenInv
    <3>2. CASE w = frPage.flight /\ frPage.flight # NoWrite
      BY <1>1, <1>2, <3>2, ReadyHasGeneration
    <3> QED BY <1>2, <3>1, <3>2
  <2> QED BY <2>1, <2>2, <2>3 DEF GenInv
<1>6. PageInv(frStored', frPage')
  BY <1>2 DEF FreshPage, NoWrite, PageInv, QueueInv, WishInv, ToldInv, OpenInv, SettledInv, SubmitInv
<1> QED BY <1>4, <1>5, <1>6 DEF RecoveryInv

LEMMA NewDocumentKeeps == RecoveryInv /\ (TryBeginRecreation \/ Reload) => RecoveryInv'
<1> SUFFICES ASSUME RecoveryInv, TryBeginRecreation \/ Reload PROVE RecoveryInv'
  OBVIOUS
<1>1. frStored \in Stored
  BY DEF RecoveryInv, Typed
<1>2. Replace /\ frStored' \in Stored /\ frStored'.gen = frStored.gen
  BY <1>1 DEF TryBeginRecreation, Reload, Stored
<1> QED BY <1>2, ReplaceKeeps

LEMMA PageReadyKeeps == RecoveryInv /\ PageReady => RecoveryInv'
<1> SUFFICES ASSUME RecoveryInv, PageReady PROVE RecoveryInv'
  OBVIOUS
<1>1. /\ frStored \in Stored
      /\ frPage \in Pages
      /\ frDoc \in Nat \ {0}
      /\ frWire \subseteq Writes
  BY DEF RecoveryInv, Typed
<1>2. /\ frPage' \in Pages
      /\ frPage.step = "restoring" /\ frPage'.step = "ready"
      /\ frPage'.gen = frPage.gen
      /\ frPage'.draft = frPage.draft /\ frPage'.text = frPage.draft
      /\ frPage'.flight = frPage.flight /\ frPage'.pend = frPage.pend
      /\ frPage'.done = frPage.done /\ frPage'.last = frPage.last
      /\ frPage'.submit = frPage.submit /\ frPage'.blockers = frPage.blockers
  BY <1>1 DEF PageReady, Pages
<1>3. frStored' = frStored /\ frDoc' = frDoc /\ frWire' = frWire
  BY DEF PageReady
<1>4. Typed'
  BY <1>1, <1>2, <1>3 DEF Typed
<1>5. GenInv'
  BY <1>1, <1>2, <1>3 DEF RecoveryInv, GenInv
<1>6. PageInv(frStored, frPage)
  BY DEF RecoveryInv
<1>7. PageInv(frStored, frPage')
  BY <1>2, <1>6 DEF PageInv, QueueInv, WishInv, Wish, ToldInv, OpenInv, SettledInv, SubmitInv, Current
<1> QED BY <1>3, <1>4, <1>5, <1>7 DEF RecoveryInv

\* What only changes the page of a ready document keeps the rest.
LEMMA PageStepKeeps ==
    ASSUME RecoveryInv, UNCHANGED <<frStored, frDoc, frWire>>, frPage' \in Pages,
           frPage.step = "ready", frPage'.step = "ready", frPage'.gen = frPage.gen,
           PageInv(frStored, frPage')
    PROVE  RecoveryInv'
<1>1. Typed'
  BY DEF RecoveryInv, Typed
<1>2. GenInv'
  BY DEF RecoveryInv, GenInv
<1> QED BY <1>1, <1>2 DEF RecoveryInv

LEMMA EditKeeps ==
    ASSUME RecoveryInv, NEW d \in Drafts, NEW c \in BOOLEAN, Edit(d, c)
    PROVE  RecoveryInv'
<1> DEFINE p == [frPage EXCEPT !.text = d]
           e == [p EXCEPT !.draft = d]
           invalid == p.blockers \union {"invalid"}
           valid == With(p.blockers \ {"invalid"}, "compose", c)
<1>1. /\ frStored \in Stored
      /\ frPage \in Pages
      /\ PageInv(frStored, frPage)
      /\ frPage.step = "ready" /\ frPage.gen # 0
  BY ReadyHasGeneration DEF RecoveryInv, Typed, Edit
<1>2. /\ p \in Pages
      /\ p.text = d
      /\ p.step = frPage.step /\ p.gen = frPage.gen /\ p.blockers = frPage.blockers
      /\ p.flight = frPage.flight /\ p.pend = frPage.pend
      /\ p.done = frPage.done /\ p.last = frPage.last /\ p.submit = frPage.submit
  BY <1>1 DEF Pages
<1> HIDE DEF p
<1>3. /\ e \in Pages
      /\ e.text = d /\ e.draft = d
      /\ e.step = frPage.step /\ e.gen = frPage.gen /\ e.blockers = frPage.blockers
      /\ e.flight = frPage.flight /\ e.pend = frPage.pend
      /\ e.done = frPage.done /\ e.last = frPage.last /\ e.submit = frPage.submit
  BY <1>2 DEF Pages
<1>4. /\ invalid \in SUBSET Blockers /\ "invalid" \in invalid
      /\ valid \in SUBSET Blockers
      /\ "submit" \in frPage.blockers => "submit" \in invalid /\ "submit" \in valid
  BY <1>2 DEF Pages, Blockers, With
<1> HIDE DEF e, invalid, valid
<1>5. CASE d \in Cyclic
  <2>1. frPage' = SetBlocked(p, invalid)
    BY <1>5 DEF Edit, p, invalid
  <2>2. /\ QueueInv(p) /\ ToldInv(frStored, p) /\ SubmitInv(frStored, p)
        /\ p.step = "ready" /\ p.gen # 0
        /\ p.submit # "idle" => "submit" \in invalid
    BY <1>1, <1>2, <1>4 DEF PageInv, QueueInv, ToldInv, SubmitInv, Current
  <2>3. OpenInv(frStored, p)
    BY <1>1, <1>2 DEF PageInv, OpenInv, Current
  <2>4. p.text = p.draft \/ "invalid" \in invalid
    BY <1>4
  <2>5. PageInv(frStored, frPage')
    BY <1>1, <1>2, <1>4, <2>1, <2>2, <2>3, <2>4, SetBlockedKeeps
  <2>6. frPage' \in Pages /\ frPage'.step = "ready" /\ frPage'.gen = frPage.gen
    BY <1>1, <1>2, <1>4, <2>1, SetBlockedIs
  <2> QED BY <1>1, <2>5, <2>6, PageStepKeeps DEF Edit
<1>6. CASE d \notin Cyclic
  <2>1. frPage' = SetBlocked(e, valid)
    BY <1>2, <1>6 DEF Edit, p, e, valid
  <2>2. /\ QueueInv(e) /\ ToldInv(frStored, e) /\ SubmitInv(frStored, e)
        /\ e.step = "ready" /\ e.gen # 0
        /\ e.submit # "idle" => "submit" \in valid
    BY <1>1, <1>3, <1>4 DEF PageInv, QueueInv, ToldInv, SubmitInv, Current
  <2>3. OpenInv(frStored, e)
    BY <1>1, <1>3 DEF PageInv, OpenInv, Current
  <2>4. e.text = e.draft
    BY <1>3
  <2>5. PageInv(frStored, frPage')
    BY <1>1, <1>3, <1>4, <2>1, <2>2, <2>3, <2>4, SetBlockedKeeps
  <2>6. frPage' \in Pages /\ frPage'.step = "ready" /\ frPage'.gen = frPage.gen
    BY <1>1, <1>3, <1>4, <2>1, SetBlockedIs
  <2> QED BY <1>1, <2>5, <2>6, PageStepKeeps DEF Edit
<1> QED BY <1>5, <1>6

LEMMA SubmitKeeps == RecoveryInv /\ Submit => RecoveryInv'
<1> SUFFICES ASSUME RecoveryInv, Submit PROVE RecoveryInv'
  OBVIOUS
<1> DEFINE bs == frPage.blockers \union {"submit"}
           q == SetBlocked(frPage, bs)
<1>1. /\ frStored \in Stored
      /\ frPage \in Pages
      /\ PageInv(frStored, frPage)
      /\ frPage.step = "ready" /\ frPage.gen # 0
      /\ frPage.submit = "idle"
  BY ReadyHasGeneration DEF RecoveryInv, Typed, Submit
<1>2. bs \in SUBSET Blockers /\ bs # {} /\ "submit" \in bs
  BY <1>1 DEF Pages, Blockers
<1>3. frPage.text = frPage.draft \/ "invalid" \in bs
  BY <1>1 DEF PageInv, WishInv
<1> HIDE DEF bs
<1>4. /\ q \in Pages
      /\ q.step = "ready" /\ q.gen = frPage.gen
      /\ q.done = frPage.done /\ q.last = frPage.last
      /\ q.blockers = bs
      /\ frPage.flight # NoWrite => q.flight = frPage.flight /\ q.pend = Wish(q)
      /\ frPage.flight = NoWrite => q.pend = frPage.pend
      /\ frPage.flight = NoWrite /\ Wish(q) # frPage.last => q.flight = Wish(q)
  BY <1>1, <1>2, SetBlockedIs
<1>5. PageInv(frStored, q)
  BY <1>1, <1>2, <1>3, SetBlockedKeeps DEF PageInv
<1>6. frPage' = [q EXCEPT !.submit = IF q.flight = NoWrite THEN "protected" ELSE "asking"]
  BY DEF Submit, bs
<1> HIDE DEF q
<1>7. /\ frPage' \in Pages
      /\ frPage'.step = "ready" /\ frPage'.gen = frPage.gen
      /\ frPage'.text = q.text /\ frPage'.draft = q.draft /\ frPage'.gen = q.gen
      /\ frPage'.step = q.step
      /\ frPage'.flight = q.flight /\ frPage'.pend = q.pend
      /\ frPage'.done = q.done /\ frPage'.last = q.last /\ frPage'.blockers = bs
      /\ q.blockers = bs
      /\ frPage'.submit = IF q.flight = NoWrite THEN "protected" ELSE "asking"
  BY <1>4, <1>6 DEF Pages
<1>8. QueueInv(frPage') /\ WishInv(frPage')
  BY <1>4, <1>5, <1>7 DEF PageInv, QueueInv, WishInv, Wish
<1>9. /\ ToldInv(frStored, frPage')
      /\ OpenInv(frStored, frPage')
      /\ SettledInv(frStored, frPage')
  BY <1>5, <1>7 DEF PageInv, ToldInv, OpenInv, SettledInv, Current, Wish
<1>10. q.flight = NoWrite => Current(frStored, q) /\ frStored.blocked
  <2> SUFFICES ASSUME q.flight = NoWrite PROVE Current(frStored, q) /\ frStored.blocked
    OBVIOUS
  <2>1. Wish(q) # NoWrite /\ Wish(q).blocked
    BY <1>1, <1>2, <1>4 DEF Wish, NoWrite
  <2>2. q.done = "none"
    BY <1>5 DEF PageInv, QueueInv
  <2>3. q.last = Wish(q)
    BY <1>4, <2>1
  <2> QED BY <1>5, <2>1, <2>2, <2>3 DEF PageInv, ToldInv
<1>11. SubmitInv(frStored, frPage')
  BY <1>2, <1>7, <1>10 DEF SubmitInv, Current
<1>12. PageInv(frStored, frPage')
  BY <1>8, <1>9, <1>11 DEF PageInv
<1> QED BY <1>1, <1>7, <1>12, PageStepKeeps DEF Submit

LEMMA SubmittedKeeps == RecoveryInv /\ Submitted => RecoveryInv'
<1> SUFFICES ASSUME RecoveryInv, Submitted PROVE RecoveryInv'
  OBVIOUS
<1> DEFINE bs == frPage.blockers \ {"submit"}
           p == [frPage EXCEPT !.submit = "idle"]
<1>1. /\ frStored \in Stored
      /\ frPage \in Pages
      /\ PageInv(frStored, frPage)
      /\ frPage.step = "ready" /\ frPage.gen # 0
  BY ReadyHasGeneration DEF RecoveryInv, Typed, Submitted
<1>2. /\ p \in Pages
      /\ p.submit = "idle"
      /\ p.text = frPage.text /\ p.draft = frPage.draft
      /\ p.step = frPage.step /\ p.gen = frPage.gen /\ p.blockers = frPage.blockers
      /\ p.flight = frPage.flight /\ p.pend = frPage.pend
      /\ p.done = frPage.done /\ p.last = frPage.last
  BY <1>1 DEF Pages
<1>3. /\ bs \in SUBSET Blockers
      /\ frPage.text = frPage.draft \/ "invalid" \in bs
  BY <1>1 DEF Pages, PageInv, WishInv
<1>4. frPage' = SetBlocked(p, bs)
  BY DEF Submitted
<1> HIDE DEF p, bs
<1>5. /\ QueueInv(p) /\ ToldInv(frStored, p)
      /\ OpenInv(frStored, p) /\ SubmitInv(frStored, p)
  BY <1>1, <1>2 DEF PageInv, QueueInv, ToldInv, OpenInv, SubmitInv, Current
<1>6. PageInv(frStored, frPage')
  BY <1>1, <1>2, <1>3, <1>4, <1>5, SetBlockedKeeps
<1>7. frPage' \in Pages /\ frPage'.step = "ready" /\ frPage'.gen = frPage.gen
  BY <1>1, <1>2, <1>3, <1>4, SetBlockedIs
<1> QED BY <1>1, <1>6, <1>7, PageStepKeeps DEF Submitted

LEMMA SubmitUncertainKeeps == RecoveryInv /\ SubmitUncertain => RecoveryInv'
<1> SUFFICES ASSUME RecoveryInv, SubmitUncertain PROVE RecoveryInv'
  OBVIOUS
<1>1. /\ frStored \in Stored
      /\ frPage \in Pages
      /\ PageInv(frStored, frPage)
      /\ frPage.step = "ready" /\ frPage.gen # 0
  BY ReadyHasGeneration DEF RecoveryInv, Typed, SubmitUncertain
<1>2. /\ frPage' \in Pages
      /\ frPage'.submit = "idle"
      /\ frPage'.text = frPage.text /\ frPage'.draft = frPage.draft
      /\ frPage'.step = frPage.step /\ frPage'.gen = frPage.gen
      /\ frPage'.blockers = frPage.blockers
      /\ frPage'.flight = frPage.flight /\ frPage'.pend = frPage.pend
      /\ frPage'.done = frPage.done /\ frPage'.last = frPage.last
  BY <1>1 DEF SubmitUncertain, Pages
<1>3. PageInv(frStored, frPage')
  BY <1>1, <1>2
     DEF PageInv, QueueInv, WishInv, Wish, ToldInv, OpenInv, SettledInv, SubmitInv, Current
<1> QED BY <1>1, <1>2, <1>3, PageStepKeeps DEF SubmitUncertain

\* flush: the answer of the write under way, and the next one.
LEMMA WriteDoneKeeps == RecoveryInv /\ WriteDone => RecoveryInv'
<1> SUFFICES ASSUME RecoveryInv, WriteDone PROVE RecoveryInv'
  OBVIOUS
<1> DEFINE p == [frPage EXCEPT !.flight = NoWrite, !.done = "none", !.pend = NoWrite,
                               !.last = IF frPage.done = "ok" THEN frPage.flight ELSE @]
           q == IF frPage.pend = NoWrite THEN p ELSE Send(p, frPage.pend)
<1>1. /\ frStored \in Stored
      /\ frPage \in Pages
      /\ PageInv(frStored, frPage)
      /\ frPage.done # "none" /\ frPage.flight # NoWrite
      /\ frPage.step = "ready" /\ frPage.gen # 0
  <2>1. PageInv(frStored, frPage) /\ frPage.done # "none"
    BY DEF RecoveryInv, WriteDone
  <2>2. frPage.flight # NoWrite
    BY <2>1 DEF PageInv, QueueInv
  <2> QED BY <2>1, <2>2, ReadyHasGeneration DEF RecoveryInv, Typed
<1>2. /\ p \in Pages
      /\ p.flight = NoWrite /\ p.done = "none" /\ p.pend = NoWrite
      /\ frPage.done = "ok" => p.last = frPage.flight
      /\ frPage.done = "error" => p.last = frPage.last
      /\ p.step = "ready" /\ p.gen = frPage.gen
      /\ p.text = frPage.text /\ p.draft = frPage.draft
      /\ p.blockers = frPage.blockers /\ p.submit = frPage.submit
  BY <1>1, NoWriteIsTyped DEF Pages
<1>3. q = IF frPage.pend = NoWrite \/ frPage.pend = p.last THEN p
          ELSE [p EXCEPT !.flight = frPage.pend]
  BY DEF Send
<1>4. frPage' = [q EXCEPT !.submit = IF q.submit # "asking" THEN q.submit
                                     ELSE IF frPage.done = "error" THEN "idle"
                                     ELSE IF q.flight = NoWrite THEN "protected"
                                     ELSE q.submit]
  BY DEF WriteDone
<1> HIDE DEF p, q
<1>5. /\ q \in Pages
      /\ q.done = "none" /\ q.pend = NoWrite
      /\ q.last = p.last
      /\ q.step = "ready" /\ q.gen = frPage.gen
      /\ q.text = frPage.text /\ q.draft = frPage.draft
      /\ q.blockers = frPage.blockers /\ q.submit = frPage.submit
      /\ q.flight # NoWrite => q.flight = frPage.pend
      /\ q.flight = NoWrite => frPage.pend = NoWrite \/ frPage.pend = p.last
  BY <1>1, <1>2, <1>3 DEF Pages
<1>6. /\ frPage' \in Pages
      /\ frPage'.done = "none" /\ frPage'.pend = NoWrite
      /\ frPage'.flight = q.flight /\ frPage'.last = p.last
      /\ frPage'.step = "ready" /\ frPage'.gen = frPage.gen
      /\ frPage'.text = frPage.text /\ frPage'.draft = frPage.draft
      /\ frPage'.blockers = frPage.blockers
      /\ frPage'.submit = IF q.submit # "asking" THEN q.submit
                           ELSE IF frPage.done = "error" THEN "idle"
                           ELSE IF q.flight = NoWrite THEN "protected"
                           ELSE q.submit
  BY <1>4, <1>5 DEF Pages
<1>7. frPage.done \in {"ok", "error"}
  BY <1>1 DEF Pages
<1>8. QueueInv(frPage')
  BY <1>1, <1>5, <1>6 DEF PageInv, QueueInv
<1>9. WishInv(frPage')
  BY <1>1, <1>5, <1>6 DEF PageInv, WishInv, Wish
<1>10. ToldInv(frStored, frPage')
  BY <1>1, <1>2, <1>6, <1>7 DEF PageInv, ToldInv, Current
<1>11. OpenInv(frStored, frPage')
  BY <1>1, <1>2, <1>6, <1>7 DEF PageInv, OpenInv, ToldInv, Current
<1>12. SettledInv(frStored, frPage')
  <2> SUFFICES ASSUME Current(frStored, frPage), ~frStored.blocked, q.flight = NoWrite
               PROVE  p.last = Wish(frPage)
    BY <1>6 DEF SettledInv, Current, Wish
  <2>1. frPage.done = "ok" /\ p.last = frPage.flight
    BY <1>1, <1>2, <1>7 DEF PageInv, ToldInv
  <2> QED BY <1>1, <1>5, <2>1 DEF PageInv, WishInv
<1>13. SubmitInv(frStored, frPage')
  <2>1. frPage'.submit \in {"idle", "asking", "protected"}
    BY <1>6 DEF Pages
  <2>2. /\ frPage.submit # "idle" => "submit" \in frPage.blockers
        /\ frPage.submit = "idle" => frPage'.submit = "idle"
    BY <1>1, <1>5, <1>6 DEF PageInv, SubmitInv
  <2>3. frPage'.submit # "idle" => "submit" \in frPage'.blockers
    BY <1>6, <2>2
  <2>4. frPage'.submit = "asking" => frPage'.flight # NoWrite
    BY <1>5, <1>6
  <2>5. frPage.submit # "idle" => Wish(frPage).blocked
    BY <2>2 DEF Wish
  <2>6. ASSUME frPage'.submit = "protected"
        PROVE  /\ Current(frStored, frPage')
               /\ frStored.blocked
               /\ frPage'.flight # NoWrite => frPage'.flight.blocked
    <3>1. CASE frPage.submit = "protected"
      BY <1>1, <1>5, <1>6, <2>5, <3>1 DEF PageInv, SubmitInv, WishInv, Current
    <3>2. CASE frPage.submit = "asking"
      <4>1. frPage.done = "ok" /\ q.flight = NoWrite
        BY <1>5, <1>6, <1>7, <2>6, <3>2
      <4>2. frPage.flight = Wish(frPage)
        BY <1>1, <1>2, <1>5, <4>1 DEF PageInv, WishInv
      <4>3. Current(frStored, frPage) /\ frStored.blocked
        BY <1>1, <2>5, <3>2, <4>1, <4>2 DEF PageInv, ToldInv
      <4> QED BY <1>6, <4>1, <4>3 DEF Current
    <3> QED BY <1>1, <1>6, <2>2, <2>6, <3>1, <3>2 DEF Pages
  <2> QED BY <1>6, <2>3, <2>4, <2>6 DEF SubmitInv
<1>14. PageInv(frStored, frPage')
  BY <1>8, <1>9, <1>10, <1>11, <1>12, <1>13 DEF PageInv
<1> QED BY <1>1, <1>6, <1>14, PageStepKeeps DEF WriteDone

-----------------------------------------------------------------------------
(* The theorems.                                                           *)

LEMMA StutterKeeps == RecoveryInv /\ UNCHANGED frVars => RecoveryInv'
BY DEF RecoveryInv, Typed, GenInv, PageInv, QueueInv, WishInv, Wish, ToldInv, OpenInv,
       SettledInv, SubmitInv, Current, frVars

LEMMA StepKeeps == RecoveryInv /\ [RecoveryNext]_frVars => RecoveryInv'
<1> SUFFICES ASSUME RecoveryInv, [RecoveryNext]_frVars PROVE RecoveryInv'
  OBVIOUS
<1>1. CASE Restore BY <1>1, RestoreKeeps
<1>2. CASE CheckpointCommand BY <1>2, CheckpointCommandKeeps
<1>3. CASE LateCheckpoint BY <1>3, LateCheckpointKeeps
<1>4. CASE TryBeginRecovery BY <1>4, TryBeginRecoveryKeeps
<1>5. CASE TryBeginRecreation \/ Reload BY <1>5, NewDocumentKeeps
<1>6. CASE PageReady BY <1>6, PageReadyKeeps
<1>7. CASE \E d \in Drafts, c \in BOOLEAN : Edit(d, c) BY <1>7, EditKeeps
<1>8. CASE Submit BY <1>8, SubmitKeeps
<1>9. CASE Submitted BY <1>9, SubmittedKeeps
<1>10. CASE SubmitUncertain BY <1>10, SubmitUncertainKeeps
<1>11. CASE WriteDone BY <1>11, WriteDoneKeeps
<1>12. CASE UNCHANGED frVars BY <1>12, StutterKeeps
<1> QED BY <1>1, <1>2, <1>3, <1>4, <1>5, <1>6, <1>7, <1>8, <1>9, <1>10, <1>11, <1>12
        DEF RecoveryNext

LEMMA InvariantHolds == RecoverySpec => []RecoveryInv
BY StartHolds, StepKeeps, PTL DEF RecoverySpec

\* The watchdog never reloads a page whose post may be under way, and a page it may reload
\* has its text in the checkpoint or on its way there (frontend_recovery.rs, the
\* coordinator of frontendRecovery.ts).
THEOREM NothingIsLostByRecovery == RecoverySpec => []DraftsSurvive
<1>1. RecoveryInv => DraftsSurvive
  <2> SUFFICES ASSUME RecoveryInv PROVE DraftsSurvive
    OBVIOUS
  <2>1. SubmissionIsNotInterrupted
    BY DEF RecoveryInv, PageInv, SubmitInv, Current, SubmissionIsNotInterrupted
  <2>2. ASSUME frPage.step = "ready", frStored.gen = frPage.gen, ~frStored.blocked,
               frPage.flight = NoWrite
        PROVE  frStored.draft = frPage.text
    <3>1. /\ frPage.done = "none"
          /\ frPage.last = Wish(frPage)
          /\ frPage.last.draft = frStored.draft /\ ~frPage.last.blocked
      BY <2>2 DEF RecoveryInv, PageInv, QueueInv, OpenInv, SettledInv, Current
    <3>2. Wish(frPage).blocked = (frPage.blockers # {}) /\ Wish(frPage).draft = frPage.draft
      BY DEF Wish
    <3>3. frPage.blockers = {} /\ frPage.draft = frStored.draft
      BY <3>1, <3>2
    <3> QED BY <2>2, <3>3 DEF RecoveryInv, PageInv, WishInv
  <2>3. DraftIsSafe
    BY <2>2 DEF DraftIsSafe
  <2> QED BY <2>1, <2>3 DEF DraftsSurvive
<1> QED BY <1>1, InvariantHolds, PTL

\* A reserved reload finds the draft that was in the checkpoint when it was reserved:
\* no late write of the old page and no write of the new one changes it on the way.
THEOREM ReservedDraftStays == RecoverySpec => [][ReservedDraftIsKept]_frVars
<1>1. RecoveryInv /\ [RecoveryNext]_frVars => [ReservedDraftIsKept]_frVars
  <2> SUFFICES ASSUME RecoveryInv, RecoveryNext,
                      frStored.gen = 0 \/ frPage.step = "restoring"
               PROVE  frStored'.draft = frStored.draft
    BY DEF ReservedDraftIsKept
  <2>1. frStored \in Stored /\ frWire \subseteq Writes /\ frPage \in Pages /\ frDoc \in Nat
    BY DEF RecoveryInv, Typed
  <2>2. CASE Restore \/ TryBeginRecovery \/ TryBeginRecreation
    BY <2>1, <2>2 DEF Restore, TryBeginRecovery, TryBeginRecreation, Stored
  <2>3. CASE CheckpointCommand
    <3>1. /\ frPage.flight \in Writes
          /\ frPage.flight.gen # frStored.gen
      BY <2>1, <2>3, ReadyHasGeneration DEF CheckpointCommand, Pages
    <3> QED BY <2>1, <2>3, <3>1, CheckpointedIs DEF CheckpointCommand
  <2>4. CASE LateCheckpoint
    <3>1. PICK w \in frWire : frStored' = Checkpointed(frStored, w)
      BY <2>4 DEF LateCheckpoint
    <3>2. w \in Writes /\ w.gen # frStored.gen
      BY <2>1 DEF RecoveryInv, GenInv
    <3> QED BY <2>1, <3>1, <3>2, CheckpointedIs
  <2>5. CASE UNCHANGED frStored
    BY <2>5
  <2> QED BY <2>2, <2>3, <2>4, <2>5
          DEF RecoveryNext, Reload, PageReady, Edit, Submit, Submitted, SubmitUncertain,
              WriteDone
<1> QED BY <1>1, InvariantHolds, PTL DEF RecoverySpec

-----------------------------------------------------------------------------
(* The watchdog.                                                            *)

\* What HealthState is made of, and the evaluations and pages there can be.
Probes == [id : 0..MaxEvals, at : Int]
Progress == [since : Int, missed : Int]
Frames == [frame : Int, since : Int, missed : Int]
Healths == [pend : Probes, slow : Nat, js : Progress, frame : Frames, next : Int, seen : BOOLEAN,
            cool : Int, recreateAt : Int, stopped : BOOLEAN]
Evals == [id : 1..MaxEvals, live : BOOLEAN]

ScreenPages == [view : BOOLEAN, hang : {"no", "js", "raf"}, frame : 0..FrameMod - 1,
          raf : BOOLEAN, shown : BOOLEAN, own : BOOLEAN]

\* The time a page is charged with was spent on screen.
Watched(h, w) ==
    \/ w >= Recovery
    \/ /\ Elapsed(h.js.since) <= w
       /\ Elapsed(h.frame.since) <= w
       /\ h.slow * Grace + Elapsed(h.pend.at) <= w

\* The probe under way is never one of a document that has been replaced.
ReplacedProbesAreGone == \A e \in hwEvals : ~e.live => e.id # hwHealth.pend.id

\* With the types: the watchdog charges a page with no more than was watched.
WatchInv ==
    /\ hwHealth \in Healths
    /\ hwPage \in ScreenPages
    /\ hwVisible \in BOOLEAN
    /\ hwEvals \in SUBSET Evals
    /\ hwWatched \in Nat
    /\ ReplacedProbesAreGone
    /\ Watched(hwHealth, hwWatched)

-----------------------------------------------------------------------------

\* The times of the watchdog.
LEMMA WatchBounds ==
    /\ Grace \in Nat \ {0} /\ Recovery \in Nat \ {0} /\ Cooldown \in Nat \ {0}
    /\ Recreation \in Nat \ {0} /\ SlowProbes \in Nat \ {0} /\ MostMissed \in Nat \ {0}
    /\ MaxEvals \in Nat \ {0} /\ Recovery <= SlowProbes * Grace
BY WatchAssumption

LEMMA ClocksAreNumbers == Clocks \in Nat /\ Recovery <= Clocks
<1>1. MostMissed * Grace \in Nat
  BY WatchBounds
<1> QED
  BY <1>1, WatchBounds DEF Clocks

\* A clock gains at most the tick that has passed.
LEMMA LaterIs ==
    ASSUME NEW t \in Int, NEW most \in Nat
    PROVE  /\ Later(t, most) \in Int
           /\ Elapsed(Later(t, most)) \in Nat /\ Elapsed(t) \in Nat
           /\ Elapsed(Later(t, most)) <= Elapsed(t) + 1
BY DEF Later, Elapsed, Never

LEMMA ElapsedIs ==
    /\ Elapsed(0) = 0 /\ Elapsed(Never) = 0 /\ Elapsed(Grace) = 0
BY WatchBounds DEF Elapsed, Never

\* A document of which nothing is known is charged with nothing.
LEMMA NothingIsKnown ==
    /\ NoProbe \in Probes /\ NoProbe.at = 0 /\ NoProbe.id = 0
    /\ NoProgress \in Progress /\ NoProgress.since = Never
    /\ NoFrame \in Frames /\ NoFrame.since = Never
BY WatchBounds DEF NoProbe, NoProgress, NoFrame, Probes, Progress, Frames, Never

\* One tick, and a pause, on every part of the state.
LEMMA AgedPartsAre ==
    /\ \A p \in Probes : /\ AgedProbe(p) \in Probes /\ AgedProbe(p).id = p.id
                         /\ Elapsed(AgedProbe(p).at) <= Elapsed(p.at) + 1
                         /\ Elapsed(p.at) \in Nat
    /\ \A c \in Progress : /\ AgedClock(c) \in Progress /\ Elapsed(c.since) \in Nat
                           /\ Elapsed(AgedClock(c).since) <= Elapsed(c.since) + 1
    /\ \A c \in Frames : /\ AgedClock(c) \in Frames /\ Elapsed(c.since) \in Nat
                         /\ Elapsed(AgedClock(c).since) <= Elapsed(c.since) + 1
<1>1. ASSUME NEW p \in Probes
      PROVE  /\ AgedProbe(p) \in Probes /\ AgedProbe(p).id = p.id
             /\ Elapsed(AgedProbe(p).at) <= Elapsed(p.at) + 1
             /\ Elapsed(p.at) \in Nat
  <2>1. /\ Later(p.at, Grace) \in Int /\ Elapsed(p.at) \in Nat
        /\ Elapsed(Later(p.at, Grace)) <= Elapsed(p.at) + 1
    BY LaterIs, WatchBounds DEF Probes
  <2> QED
    BY <2>1 DEF AgedProbe, Probes
<1>2. ASSUME NEW c, c \in Progress \/ c \in Frames
      PROVE  /\ Later(c.since, Clocks) \in Int /\ Elapsed(c.since) \in Nat
             /\ Elapsed(Later(c.since, Clocks)) <= Elapsed(c.since) + 1
  <2>1. c.since \in Int
    BY <1>2 DEF Progress, Frames
  <2> QED
    BY <2>1, LaterIs, ClocksAreNumbers
<1>3. \A c \in Progress : /\ AgedClock(c) \in Progress
                          /\ AgedClock(c).since = Later(c.since, Clocks)
  BY <1>2 DEF AgedClock, Progress
<1>4. \A c \in Frames : /\ AgedClock(c) \in Frames
                        /\ AgedClock(c).since = Later(c.since, Clocks)
  BY <1>2 DEF AgedClock, Frames
<1> QED
  BY <1>1, <1>2, <1>3, <1>4

LEMMA PausedPartsAre ==
    /\ \A p \in Probes : /\ PausedProbe(p) \in Probes /\ PausedProbe(p).id = p.id
                         /\ Elapsed(PausedProbe(p).at) = 0
    /\ \A c \in Progress : /\ PausedClock(c, NoProgress) \in Progress
                           /\ Elapsed(PausedClock(c, NoProgress).since) = 0
    /\ \A c \in Frames : /\ PausedClock(c, NoFrame) \in Frames
                         /\ Elapsed(PausedClock(c, NoFrame).since) = 0
<1>1. Grace \in Int
  BY WatchBounds
<1>2. \A p \in Probes : /\ PausedProbe(p) \in Probes /\ PausedProbe(p).id = p.id
                        /\ PausedProbe(p).at = Grace \/ PausedProbe(p).at = 0
  BY <1>1, NothingIsKnown DEF PausedProbe, Probes
<1> PICK g \in Int : g = Grace
  BY <1>1
<1> PICK z \in Int : z = 0
  OBVIOUS
<1>3. ASSUME NEW c \in Progress
      PROVE  /\ PausedClock(c, NoProgress) \in Progress
             /\ \/ PausedClock(c, NoProgress).since = Grace
                \/ PausedClock(c, NoProgress).since = Never
  <2>1. [c EXCEPT !.since = g, !.missed = z] \in Progress
        /\ [c EXCEPT !.since = g, !.missed = z].since = g
    BY DEF Progress
  <2> QED
    BY <2>1, NothingIsKnown DEF PausedClock
<1>4. ASSUME NEW c \in Frames
      PROVE  /\ PausedClock(c, NoFrame) \in Frames
             /\ \/ PausedClock(c, NoFrame).since = Grace
                \/ PausedClock(c, NoFrame).since = Never
  <2>1. [c EXCEPT !.since = g, !.missed = z] \in Frames
        /\ [c EXCEPT !.since = g, !.missed = z].since = g
    BY DEF Frames
  <2> QED
    BY <2>1, NothingIsKnown DEF PausedClock
<1> QED
  BY <1>2, <1>3, <1>4, ElapsedIs

-----------------------------------------------------------------------------
(* What the watchdog knows after each of its steps.                        *)

\* The same on the whole of it.
LEMMA AgedIs ==
    ASSUME NEW h \in Healths
    PROVE  /\ Aged(h) \in Healths
           /\ Aged(h).pend = AgedProbe(h.pend) /\ Aged(h).slow = h.slow
           /\ Aged(h).js = AgedClock(h.js) /\ Aged(h).frame = AgedClock(h.frame)
           /\ Aged(h).seen = h.seen /\ Aged(h).cool = Later(h.cool, 0)
<1>1. PICK p \in Probes : p = AgedProbe(h.pend)
  BY AgedPartsAre DEF Healths
<1>2. PICK j \in Progress : j = AgedClock(h.js)
  BY AgedPartsAre DEF Healths
<1>3. PICK f \in Frames : f = AgedClock(h.frame)
  BY AgedPartsAre DEF Healths
<1>4. h.next \in Int /\ h.cool \in Int /\ h.recreateAt \in Int
  BY DEF Healths
<1>5. PICK n \in Int : n = Later(h.next, 0)
  BY <1>4, LaterIs
<1>6. PICK c \in Int : c = Later(h.cool, 0)
  BY <1>4, LaterIs
<1>7. PICK r \in Int : r = Later(h.recreateAt, 0)
  BY <1>4, LaterIs
<1>8. Aged(h) = [h EXCEPT !.pend = p, !.js = j, !.frame = f, !.next = n, !.cool = c,
                          !.recreateAt = r]
  BY <1>1, <1>2, <1>3, <1>5, <1>6, <1>7 DEF Aged, Healths
<1> QED
  BY <1>1, <1>2, <1>3, <1>6, <1>8 DEF Healths

LEMMA AgedIsWatched ==
    ASSUME NEW h \in Healths, NEW w \in Nat, Watched(h, w)
    PROVE  Watched(Aged(h), IF w < Recovery THEN w + 1 ELSE w)
<1>1. CASE w >= Recovery
  BY <1>1, WatchBounds DEF Watched
<1>2. CASE ~(w >= Recovery)
  <2>1. /\ Elapsed(h.js.since) <= w /\ Elapsed(h.frame.since) <= w
        /\ h.slow * Grace + Elapsed(h.pend.at) <= w
    BY <1>2 DEF Watched
  <2>2. h.js \in Progress /\ h.frame \in Frames /\ h.pend \in Probes /\ h.slow \in Nat
    BY DEF Healths
  <2>3. h.slow * Grace \in Nat
    BY <2>2, WatchBounds
  <2>4. /\ Elapsed(Aged(h).js.since) <= Elapsed(h.js.since) + 1
        /\ Elapsed(Aged(h).frame.since) <= Elapsed(h.frame.since) + 1
        /\ Elapsed(Aged(h).pend.at) <= Elapsed(h.pend.at) + 1
        /\ Elapsed(h.js.since) \in Nat /\ Elapsed(h.frame.since) \in Nat
        /\ Elapsed(h.pend.at) \in Nat /\ Aged(h).slow = h.slow
    BY <2>2, AgedIs, AgedPartsAre
  <2>5. /\ Aged(h).js \in Progress /\ Aged(h).frame \in Frames /\ Aged(h).pend \in Probes
    BY AgedIs DEF Healths
  <2>6. /\ Elapsed(Aged(h).js.since) \in Nat /\ Elapsed(Aged(h).frame.since) \in Nat
        /\ Elapsed(Aged(h).pend.at) \in Nat
    BY <2>5, AgedPartsAre
  <2>7. w < Recovery
    BY <1>2, WatchBounds
  <2>8. /\ Elapsed(Aged(h).js.since) <= w + 1 /\ Elapsed(Aged(h).frame.since) <= w + 1
        /\ Aged(h).slow * Grace + Elapsed(Aged(h).pend.at) <= w + 1
    BY <2>1, <2>3, <2>4, <2>6
  <2> QED
    BY <2>7, <2>8 DEF Watched
<1> QED
  BY <1>1, <1>2

\* Nothing is held against a page that was on screen for no time at all.
LEMMA ClearedIsWatched ==
    ASSUME NEW h \in Healths, NEW w \in Nat, h.slow = 0, Elapsed(h.js.since) = 0,
           Elapsed(h.frame.since) = 0, Elapsed(h.pend.at) = 0
    PROVE  Watched(h, w)
<1>1. 0 * Grace = 0
  BY WatchBounds
<1> QED
  BY <1>1 DEF Watched

LEMMA PausedIs ==
    ASSUME NEW h \in Healths
    PROVE  /\ Pause(h) \in Healths /\ Pause(h).pend.id = h.pend.id /\ Pause(h).cool = h.cool
           /\ \A w \in Nat : Watched(Pause(h), w)
<1>1. PICK p \in Probes : p = PausedProbe(h.pend)
  BY PausedPartsAre DEF Healths
<1>2. PICK j \in Progress : j = PausedClock(h.js, NoProgress)
  BY PausedPartsAre DEF Healths
<1>3. PICK f \in Frames : f = PausedClock(h.frame, NoFrame)
  BY PausedPartsAre DEF Healths
<1>4. PICK n \in Int : n = Grace
  BY WatchBounds
<1>5. PICK r \in Int : r = IF h.recreateAt = Never THEN h.recreateAt ELSE Grace + Recreation
  BY WatchBounds DEF Healths
<1>9. PICK z \in Nat : z = 0
  OBVIOUS
<1>6. Pause(h) = [h EXCEPT !.next = n, !.slow = z, !.recreateAt = r, !.pend = p, !.js = j,
                           !.frame = f]
  BY <1>9, <1>1, <1>2, <1>3, <1>4, <1>5 DEF Pause, Healths
<1>7. /\ Pause(h) \in Healths /\ Pause(h).pend = p /\ Pause(h).js = j /\ Pause(h).frame = f
      /\ Pause(h).slow = z /\ Pause(h).cool = h.cool
  BY <1>6 DEF Healths
<1>8. /\ p.id = h.pend.id /\ Elapsed(p.at) = 0 /\ Elapsed(j.since) = 0 /\ Elapsed(f.since) = 0
  BY <1>1, <1>2, <1>3, PausedPartsAre DEF Healths
<1> QED
  BY <1>7, <1>8, <1>9, ClearedIsWatched

\* A new document starts with no probe under way.
LEMMA NavigationIs ==
    ASSUME NEW h \in Healths
    PROVE  /\ Navigation(h) \in Healths /\ Navigation(h).pend.id = 0
           /\ Navigation(h).cool = h.cool
           /\ \A w \in Nat : Watched(Navigation(h), w)
<1>1. PICK n \in Int : n = Grace
  BY WatchBounds
<1>2. PICK p \in Probes : p = NoProbe
  BY NothingIsKnown
<1>3. PICK j \in Progress : j = NoProgress
  BY NothingIsKnown
<1>4. PICK f \in Frames : f = NoFrame
  BY NothingIsKnown
<1>9. PICK z \in Nat : z = 0
  OBVIOUS
<1>5. Navigation(h) = [h EXCEPT !.pend = p, !.slow = z, !.js = j, !.frame = f, !.next = n]
  BY <1>1, <1>2, <1>3, <1>4, <1>9 DEF Navigation
<1>6. /\ Navigation(h) \in Healths /\ Navigation(h).pend = p /\ Navigation(h).js = j
      /\ Navigation(h).frame = f /\ Navigation(h).slow = z /\ Navigation(h).cool = h.cool
  BY <1>5 DEF Healths
<1>7. p.id = 0 /\ Elapsed(p.at) = 0 /\ Elapsed(j.since) = 0 /\ Elapsed(f.since) = 0
  BY <1>2, <1>3, <1>4, NothingIsKnown, ElapsedIs
<1> QED
  BY <1>6, <1>7, <1>9, ClearedIsWatched

\* One more slow probe is one more grace period on screen.
LEMMA SlowTimes ==
    ASSUME NEW s \in Nat
    PROVE  /\ s * Grace \in Nat /\ (s + 1) * Grace = s * Grace + Grace
           /\ s >= SlowProbes => s * Grace >= SlowProbes * Grace
<1>1. s * Grace \in Nat /\ (s + 1) * Grace = s * Grace + Grace
  BY WatchBounds
<1>2. ASSUME s >= SlowProbes
      PROVE  s * Grace >= SlowProbes * Grace
  <2>1. PICK k \in Nat : s = SlowProbes + k
    <3>1. s - SlowProbes \in Nat /\ s = SlowProbes + (s - SlowProbes)
      BY <1>2, WatchBounds
    <3> QED
      BY <3>1
  <2>2. s * Grace = SlowProbes * Grace + k * Grace
    BY <2>1, WatchBounds
  <2>3. k * Grace \in Nat /\ SlowProbes * Grace \in Nat
    BY WatchBounds
  <2> QED
    BY <2>2, <2>3
<1> QED
  BY <1>1, <1>2

\* An answer counts only for the probe under way, and charges nothing that was not waited for.
LEMMA ProbeDoneIs ==
    ASSUME NEW h \in Healths, NEW id, NEW resp,
           resp = <<>> \/ (resp = <<resp[1], resp[2]>> /\ resp[1] \in BOOLEAN /\ resp[2] \in Int)
    PROVE  /\ ProbeDone(h, id, resp) \in Healths /\ ProbeDone(h, id, resp).cool = h.cool
           /\ ProbeDone(h, id, resp).pend.id \in {0, h.pend.id}
           /\ id # h.pend.id => ProbeDone(h, id, resp) = h
           /\ \A w \in Nat : Watched(h, w) => Watched(ProbeDone(h, id, resp), w)
<1>0. h.slow \in Nat /\ h.pend \in Probes /\ h.js \in Progress /\ h.frame \in Frames
  BY DEF Healths
<1>1. CASE h.pend.id # id
  <2>1. ProbeDone(h, id, resp) = h
    BY <1>1 DEF ProbeDone
  <2> QED
    BY <1>1, <2>1
<1>2. PICK p \in Probes : p = NoProbe
  BY NothingIsKnown
<1>3. p.id = 0 /\ p.at = 0 /\ Elapsed(p.at) = 0
  BY <1>2, NothingIsKnown, ElapsedIs
<1>9. PICK z \in Int : z = 0
  OBVIOUS
<1>4. CASE h.pend.id = id /\ resp = <<>>
  <2>1. ProbeDone(h, id, resp) = [h EXCEPT !.pend = p, !.next = z]
    BY <1>2, <1>4, <1>9 DEF ProbeDone
  <2>2. PICK g \in Healths : g = ProbeDone(h, id, resp)
    BY <2>1 DEF Healths
  <2>3. g.pend = p /\ g.slow = h.slow /\ g.js = h.js /\ g.frame = h.frame /\ g.cool = h.cool
    BY <2>1, <2>2 DEF Healths
  <2>4. ASSUME NEW w \in Nat, Watched(h, w)
        PROVE  Watched(g, w)
    <3>1. h.slow * Grace \in Nat /\ Elapsed(h.pend.at) \in Nat
      BY <1>0, SlowTimes, AgedPartsAre
    <3> QED
      BY <1>3, <2>3, <2>4, <3>1 DEF Watched
  <2> QED
    BY <1>3, <1>4, <2>2, <2>3, <2>4
<1>5. CASE h.pend.id = id /\ resp # <<>>
  <2> DEFINE shown == resp[1] /\ h.seen
             moved == shown /\ h.frame # NoFrame /\ h.frame.frame # resp[2]
             counted == shown /\ Slow(h)
  <2>1. PICK s \in Nat : s = IF ~counted THEN 0
                             ELSE IF h.slow < SlowProbes THEN h.slow + 1 ELSE h.slow
    <3>1. (IF ~counted THEN 0 ELSE IF h.slow < SlowProbes THEN h.slow + 1 ELSE h.slow) \in Nat
      BY <1>0
    <3> QED
      BY <3>1
  <2>2. PICK j \in Progress : j = [since |-> 0, missed |-> 0]
    <3>1. [since |-> 0, missed |-> 0] \in Progress
      BY DEF Progress
    <3> QED
      BY <3>1
  <2>3. PICK new \in Frames : new = [frame |-> resp[2], since |-> 0, missed |-> 0]
    <3>1. resp[2] \in Int
      BY <1>5
    <3>2. [frame |-> resp[2], since |-> 0, missed |-> 0] \in Frames
      BY <3>1 DEF Frames
    <3> QED
      BY <3>2
  <2>4. PICK f \in Frames : f = IF ~shown THEN NoFrame
                                ELSE IF h.frame # NoFrame /\ ~moved THEN h.frame ELSE new
    BY <1>0, NothingIsKnown
  <2>5. PICK r \in Int : r = IF moved /\ hwGate.owned THEN Never ELSE h.recreateAt
    BY DEF Healths, Never
  <2>6. ProbeDone(h, id, resp) =
            [h EXCEPT !.pend = p, !.next = z, !.slow = s, !.js = j, !.frame = f, !.recreateAt = r]
    BY <1>2, <1>5, <1>9, <2>1, <2>2, <2>3, <2>4, <2>5 DEF ProbeDone
  <2> HIDE DEF shown, moved, counted
  <2>7. PICK g \in Healths : g = ProbeDone(h, id, resp)
    BY <2>6 DEF Healths
  <2>8. g.pend = p /\ g.slow = s /\ g.js = j /\ g.frame = f /\ g.cool = h.cool
    BY <2>6, <2>7 DEF Healths
  <2>9. ASSUME NEW w \in Nat, Watched(h, w)
        PROVE  Watched(g, w)
    <3>1. CASE w >= Recovery
      BY <3>1 DEF Watched
    <3>2. CASE ~(w >= Recovery)
      <4>1. /\ Elapsed(h.frame.since) <= w
            /\ h.slow * Grace + Elapsed(h.pend.at) <= w
        BY <2>9, <3>2 DEF Watched
      <4>2. h.slow * Grace \in Nat /\ Elapsed(h.pend.at) \in Nat
        BY <1>0, SlowTimes, AgedPartsAre
      <4>3. Elapsed(j.since) <= w
        BY <2>2, ElapsedIs
      <4>4. Elapsed(f.since) <= w
        <5>1. f = NoFrame \/ f = h.frame \/ f = new
          BY <2>4
        <5>2. Elapsed(NoFrame.since) = 0 /\ Elapsed(new.since) = 0
          BY <2>3, ElapsedIs, NothingIsKnown
        <5> QED
          BY <4>1, <5>1, <5>2
      <4>5. s * Grace <= w
        <5>1. CASE ~counted
          <6>1. s = 0 /\ 0 * Grace = 0
            BY <2>1, <5>1, WatchBounds
          <6> QED
            BY <6>1
        <5>2. CASE counted
          <6>1. Elapsed(h.pend.at) >= Grace
            BY <5>2 DEF counted, Slow
          <6>2. s = h.slow + 1 \/ s = h.slow
            BY <2>1, <5>2
          <6>3. (h.slow + 1) * Grace = h.slow * Grace + Grace
            BY <1>0, SlowTimes
          <6> QED
            BY <4>1, <4>2, <6>1, <6>2, <6>3, WatchBounds, SMTT(30)
        <5> QED
          BY <5>1, <5>2
      <4>6. s * Grace + Elapsed(p.at) <= w
        <5>1. s * Grace \in Nat
          BY SlowTimes
        <5> QED
          BY <1>3, <4>5, <5>1
      <4> QED
        BY <2>8, <4>3, <4>4, <4>6 DEF Watched
    <3> QED
      BY <3>1, <3>2
  <2> QED
    BY <1>3, <1>5, <2>7, <2>8, <2>9
<1> QED
  BY <1>1, <1>4, <1>5

\* A page is only found stalled after it was watched for the recovery time.
LEMMA StalledIsWatched ==
    ASSUME NEW h \in Healths, NEW w \in Nat, Watched(h, w), Stalled(h)
    PROVE  w >= Recovery
<1> SUFFICES ASSUME ~(w >= Recovery) PROVE FALSE
  OBVIOUS
<1>1. /\ Elapsed(h.js.since) <= w /\ Elapsed(h.frame.since) <= w
      /\ h.slow * Grace + Elapsed(h.pend.at) <= w
  BY DEF Watched
<1>2. h.slow \in Nat /\ h.pend \in Probes /\ h.js \in Progress /\ h.frame \in Frames
  BY DEF Healths
<1>3. /\ Elapsed(h.js.since) \in Nat /\ Elapsed(h.frame.since) \in Nat
      /\ Elapsed(h.pend.at) \in Nat /\ h.slow * Grace \in Nat
  BY <1>2, AgedPartsAre, SlowTimes
<1>4. h.slow + (IF Slow(h) THEN 1 ELSE 0) >= SlowProbes
  BY <1>1, <1>3, WatchBounds DEF Stalled
<1>5. CASE Slow(h)
  <2>1. Elapsed(h.pend.at) >= Grace /\ h.slow + 1 >= SlowProbes
    BY <1>4, <1>5 DEF Slow
  <2>2. (h.slow + 1) * Grace >= SlowProbes * Grace
    BY <1>2, <2>1, SlowTimes
  <2>3. (h.slow + 1) * Grace = h.slow * Grace + Grace
    BY <1>2, SlowTimes
  <2>4. SlowProbes * Grace \in Nat
    BY WatchBounds
  <2> QED
    BY <1>1, <1>3, <2>1, <2>2, <2>3, <2>4, WatchBounds
<1>6. CASE ~Slow(h)
  <2>1. h.slow >= SlowProbes
    BY <1>2, <1>4, <1>6, WatchBounds
  <2>2. h.slow * Grace >= SlowProbes * Grace
    BY <1>2, <2>1, SlowTimes
  <2>3. SlowProbes * Grace \in Nat
    BY WatchBounds
  <2> QED
    BY <1>1, <1>3, <2>2, <2>3, WatchBounds
<1> QED
  BY <1>5, <1>6

-----------------------------------------------------------------------------

\* What every step of the watchdog and of the page has to show.
StepIsWatched == WatchInv' /\ StaleAnswersAreIgnored /\ OnlyWatchedPagesAreReloaded

\* What is enough for a step of any kind.
LEMMA WatchStepKeeps ==
    ASSUME WatchInv, hwHealth' \in Healths, hwPage' \in ScreenPages, hwVisible' \in BOOLEAN,
           hwEvals' \in SUBSET Evals,
           hwWatched' \in Nat, Watched(hwHealth', hwWatched'),
           \A e \in hwEvals' : ~e.live => e.id # hwHealth'.pend.id,
           (\A e \in hwEvals : ~e.live => e \in hwEvals') \/ hwHealth' = hwHealth,
           \/ hwHealth'.cool = hwHealth.cool
           \/ hwHealth'.cool = Later(hwHealth.cool, 0)
           \/ hwWatched' >= Recovery
    PROVE  StepIsWatched
<1>1. WatchInv'
  BY DEF WatchInv, ReplacedProbesAreGone
<1>2. StaleAnswersAreIgnored
  BY DEF StaleAnswersAreIgnored
<1>3. OnlyWatchedPagesAreReloaded
  <2>1. Later(0, 0) = 0 /\ Cooldown # 0
    BY WatchBounds DEF Later, Never
  <2> QED
    BY <2>1 DEF OnlyWatchedPagesAreReloaded
<1> QED
  BY <1>1, <1>2, <1>3 DEF StepIsWatched

\* A step that asks for no new probe.
LEMMA NoProbeKeeps ==
    ASSUME WatchInv, hwHealth' \in Healths, hwPage' \in ScreenPages, hwVisible' \in BOOLEAN,
           hwEvals' \subseteq hwEvals,
           hwWatched' \in Nat, Watched(hwHealth', hwWatched'),
           hwHealth'.pend.id \in {0, hwHealth.pend.id},
           (\A e \in hwEvals : ~e.live => e \in hwEvals') \/ hwHealth' = hwHealth,
           \/ hwHealth'.cool = hwHealth.cool
           \/ hwHealth'.cool = Later(hwHealth.cool, 0)
           \/ hwWatched' >= Recovery
    PROVE  StepIsWatched
<1>1. hwEvals' \in SUBSET Evals
  BY DEF WatchInv
<1>2. ASSUME NEW e \in hwEvals', ~e.live
      PROVE  e.id # hwHealth'.pend.id
  <2>1. e.id # 0 /\ e.id # hwHealth.pend.id
    BY <1>2, WatchBounds DEF WatchInv, Evals, ReplacedProbesAreGone
  <2> QED
    BY <2>1
<1> QED
  BY <1>1, <1>2, WatchStepKeeps

\* What every branch of a tick starts from.
LEMMA TicksAre ==
    ASSUME WatchInv, NEW v, NEW gap \in BOOLEAN, Ticks(v, gap)
    PROVE  /\ hwWatched' \in Nat /\ hwVisible' \in BOOLEAN
           /\ v \notin {"pause", "stopped"} => Watched(Aged(hwHealth), hwWatched')
           /\ v = "recover" => Stalled(Aged(hwHealth))
           /\ v = "probe" => Aged(hwHealth).pend = NoProbe
<1>1. hwWatched \in Nat /\ hwHealth \in Healths /\ Watched(hwHealth, hwWatched)
  BY DEF WatchInv
<1>2. hwWatched' = IF ~hwVisible \/ gap THEN 0
                   ELSE IF hwWatched < Recovery THEN hwWatched + 1 ELSE hwWatched
  BY DEF Ticks
<1>3. hwWatched' \in Nat
  BY <1>1, <1>2
<1>4. Verdict(Aged(hwHealth), hwVisible, gap) = v
  BY DEF Ticks
<1>5. v \notin {"pause", "stopped"} => hwVisible /\ ~gap
  BY <1>4 DEF Verdict
<1>6. v = "recover" => Stalled(Aged(hwHealth))
  BY <1>4 DEF Verdict
<1>7. v = "probe" => Aged(hwHealth).pend = NoProbe
  BY <1>4 DEF Verdict
<1>8. Watched(Aged(hwHealth), IF hwWatched < Recovery THEN hwWatched + 1 ELSE hwWatched)
  BY <1>1, AgedIsWatched
<1>9. hwVisible' \in BOOLEAN
  BY DEF Ticks, WatchInv
<1> QED
  BY <1>2, <1>3, <1>5, <1>6, <1>7, <1>8, <1>9

LEMMA AgedKeeps ==
    ASSUME WatchInv
    PROVE  /\ Aged(hwHealth) \in Healths /\ Aged(hwHealth).pend.id = hwHealth.pend.id
           /\ Aged(hwHealth).cool = Later(hwHealth.cool, 0)
<1>1. hwHealth \in Healths
  BY DEF WatchInv
<1>2. hwHealth.pend \in Probes
  BY <1>1 DEF Healths
<1> QED
  BY <1>1, <1>2, AgedIs, AgedPartsAre

\* The branches of a tick, one by one.
LEMMA TickPauseKeeps ==
    ASSUME WatchInv, TickPause
    PROVE  StepIsWatched
<1>1. PICK gap \in BOOLEAN : Ticks("pause", gap)
  BY DEF TickPause
<1>2. PICK b \in BOOLEAN : b = hwVisible
  BY DEF WatchInv
<1>3. PICK h \in Healths : h = Aged(hwHealth)
  BY AgedKeeps
<1>4. PICK g \in Healths : g = [h EXCEPT !.seen = b]
  BY DEF Healths
<1>5. g.pend = h.pend /\ g.cool = h.cool
  BY <1>4 DEF Healths
<1>6. hwHealth' = Pause(g) /\ UNCHANGED <<hwGate, hwPage, hwEvals>>
  BY <1>2, <1>3, <1>4 DEF TickPause
<1>7. hwWatched' \in Nat /\ hwVisible' \in BOOLEAN
  BY <1>1, TicksAre
<1>8. hwHealth' \in Healths /\ Watched(hwHealth', hwWatched')
  BY <1>6, <1>7, PausedIs
<1>9. hwHealth'.pend.id = hwHealth.pend.id /\ hwHealth'.cool = Later(hwHealth.cool, 0)
  BY <1>3, <1>5, <1>6, AgedKeeps, PausedIs
<1>10. hwPage' \in ScreenPages
  BY <1>6 DEF WatchInv
<1> QED
  BY <1>6, <1>7, <1>8, <1>9, <1>10, NoProbeKeeps

\* A probe goes out, or none does: the clock of the answers runs from now if it did not yet.
Probed(h, p, n, j) == [h EXCEPT !.pend = p, !.next = n, !.js = j]

LEMMA ProbedIs ==
    ASSUME NEW h \in Healths, NEW w \in Nat, Watched(h, w), NEW p \in Probes, p.at = 0,
           NEW n \in Int, NEW j \in Progress, j = h.js \/ j.since = 0
    PROVE  /\ Probed(h, p, n, j) \in Healths /\ Probed(h, p, n, j).pend = p
           /\ Probed(h, p, n, j).cool = h.cool /\ Watched(Probed(h, p, n, j), w)
<1>1. h.js \in Progress /\ h.slow \in Nat /\ h.pend \in Probes /\ h.frame \in Frames
  BY DEF Healths
<1>2. PICK g \in Healths : g = Probed(h, p, n, j)
  BY DEF Healths, Probed
<1>3. g.pend = p /\ g.cool = h.cool /\ g.js = j /\ g.frame = h.frame /\ g.slow = h.slow
  BY <1>2 DEF Healths, Probed
<1>4. h.slow * Grace \in Nat /\ Elapsed(h.pend.at) \in Nat /\ Elapsed(p.at) = 0
  BY <1>1, SlowTimes, AgedPartsAre, ElapsedIs
<1>5. Elapsed(j.since) = Elapsed(h.js.since) \/ Elapsed(j.since) = 0
  BY ElapsedIs
<1>6. Watched(g, w)
  BY <1>3, <1>4, <1>5 DEF Watched
<1> QED
  BY <1>2, <1>3, <1>6

LEMMA TickProbeKeeps ==
    ASSUME WatchInv, TickProbe
    PROVE  StepIsWatched
<1>1. PICK h \in Healths : h = Aged(hwHealth)
  BY AgedKeeps
<1> PICK no \in BOOLEAN : no = FALSE
  OBVIOUS
<1>0. Ticks("probe", no)
  BY DEF TickProbe
<1>2. /\ hwWatched' \in Nat /\ Watched(h, hwWatched') /\ h.pend = NoProbe
      /\ hwVisible' \in BOOLEAN
  BY <1>0, <1>1, TicksAre
<1>6. h.cool = Later(hwHealth.cool, 0) /\ h.pend.id = hwHealth.pend.id
  BY <1>1, AgedKeeps
<1>3. hwPage' \in ScreenPages
  BY DEF TickProbe, WatchInv
<1>7. [since |-> 0, missed |-> 0] \in Progress /\ h.js \in Progress
  BY DEF Progress, Healths
<1>8. PICK j \in Progress : j = IF h.js = NoProgress THEN [since |-> 0, missed |-> 0] ELSE h.js
  BY <1>7
<1>9. j = h.js \/ j.since = 0
  BY <1>8
<1>4. ASSUME NEW id \in FreshIds,
             hwHealth' = [h EXCEPT !.pend = [id |-> id, at |-> 0],
                                   !.js = IF @ = NoProgress THEN [since |-> 0, missed |-> 0] ELSE @],
             hwEvals' = hwEvals \union {[id |-> id, live |-> TRUE]}
      PROVE  StepIsWatched
  <2>1. id \in 1..MaxEvals /\ \A e \in hwEvals : e.id # id
    BY DEF FreshIds
  <2>2. PICK p \in Probes : p = [id |-> id, at |-> 0]
    <3>1. [id |-> id, at |-> 0] \in Probes
      BY <2>1, WatchBounds DEF Probes
    <3> QED
      BY <3>1
  <2>3. PICK n \in Int : n = h.next
    BY DEF Healths
  <2>4. hwHealth' = [h EXCEPT !.pend = p, !.next = n, !.js = j]
    BY <1>4, <1>8, <2>2, <2>3 DEF Healths
  <2>10. PICK g \in Healths : /\ g = Probed(h, p, n, j)
                              /\ g.pend = p /\ g.cool = h.cool /\ Watched(g, hwWatched')
    <3>1. p.at = 0
      BY <2>2
    <3>2. PICK w \in Nat : w = hwWatched'
      BY <1>2
    <3>3. Watched(h, w)
      BY <1>2, <3>2
    <3>4. /\ Probed(h, p, n, j) \in Healths /\ Probed(h, p, n, j).pend = p
          /\ Probed(h, p, n, j).cool = h.cool /\ Watched(Probed(h, p, n, j), w)
      BY <1>9, <3>1, <3>3, ProbedIs
    <3> QED
      BY <3>2, <3>4
  <2>5. hwHealth' \in Healths /\ hwHealth'.pend = p /\ hwHealth'.cool = h.cool
        /\ Watched(hwHealth', hwWatched')
    BY <2>4, <2>10 DEF Probed
  <2>6. hwEvals' \in SUBSET Evals
    <3>1. PICK yes \in BOOLEAN : yes = TRUE
      OBVIOUS
    <3>2. [id |-> id, live |-> yes] \in Evals
      BY <2>1 DEF Evals
    <3> QED
      BY <1>4, <3>1, <3>2 DEF WatchInv
  <2>7. hwHealth'.pend.id = id
    BY <2>2, <2>5
  <2>8. \A e \in hwEvals' : ~e.live => e.id # hwHealth'.pend.id
    BY <1>4, <2>1, <2>7
  <2>9. \A e \in hwEvals : e \in hwEvals'
    BY <1>4
  <2> QED
    BY <1>2, <1>3, <1>6, <2>5, <2>6, <2>8, <2>9, WatchStepKeeps
<1>5. ASSUME hwHealth' = [h EXCEPT !.next = 0,
                                   !.js = IF @ = NoProgress THEN [since |-> 0, missed |-> 0] ELSE @],
             UNCHANGED hwEvals
      PROVE  StepIsWatched
  <2>1. PICK p \in Probes : p = h.pend
    BY DEF Healths
  <2>2. PICK n \in Int : n = 0
    OBVIOUS
  <2>3. hwHealth' = [h EXCEPT !.pend = p, !.next = n, !.js = j]
    BY <1>5, <1>8, <2>1, <2>2 DEF Healths
  <2>4. p.at = 0
    BY <1>2, <2>1, NothingIsKnown
  <2>10. PICK g \in Healths : /\ g = Probed(h, p, n, j)
                              /\ g.pend = p /\ g.cool = h.cool /\ Watched(g, hwWatched')
    <3>1. p.at = 0
      BY <2>4
    <3>2. PICK w \in Nat : w = hwWatched'
      BY <1>2
    <3>3. Watched(h, w)
      BY <1>2, <3>2
    <3>4. /\ Probed(h, p, n, j) \in Healths /\ Probed(h, p, n, j).pend = p
          /\ Probed(h, p, n, j).cool = h.cool /\ Watched(Probed(h, p, n, j), w)
      BY <1>9, <3>1, <3>3, ProbedIs
    <3> QED
      BY <3>2, <3>4
  <2>5. hwHealth' \in Healths /\ hwHealth'.pend = p /\ hwHealth'.cool = h.cool
        /\ Watched(hwHealth', hwWatched')
    BY <2>3, <2>10 DEF Probed
  <2> QED
    BY <1>2, <1>3, <1>5, <1>6, <2>1, <2>5, NoProbeKeeps
<1> QED
  BY <1>1, <1>4, <1>5 DEF TickProbe

\* A report of a missed check leaves the clocks alone.
LEMMA ReportedIs ==
    ASSUME NEW h \in Healths, NEW w \in Nat, Watched(h, w), NEW m \in Int,
           NEW g, g = [h EXCEPT !.js.missed = m] \/ g = [h EXCEPT !.frame.missed = m]
    PROVE  g \in Healths /\ g.pend = h.pend /\ g.cool = h.cool /\ Watched(g, w)
<1>1. h.js \in Progress /\ h.frame \in Frames
  BY DEF Healths
<1>2. PICK j \in Progress : j = [h.js EXCEPT !.missed = m]
  BY <1>1 DEF Progress
<1>3. PICK f \in Frames : f = [h.frame EXCEPT !.missed = m]
  BY <1>1 DEF Frames
<1>4. j.since = h.js.since
  BY <1>1, <1>2 DEF Progress
<1>5. f.since = h.frame.since
  BY <1>1, <1>3 DEF Frames
<1>6. g = [h EXCEPT !.js = j] \/ g = [h EXCEPT !.frame = f]
  BY <1>2, <1>3 DEF Healths
<1>7. /\ g \in Healths /\ g.pend = h.pend /\ g.cool = h.cool /\ g.slow = h.slow
      /\ g.js.since = h.js.since /\ g.frame.since = h.frame.since
  BY <1>4, <1>5, <1>6 DEF Healths
<1> QED
  BY <1>7 DEF Watched

LEMMA MissedIsANumber ==
    ASSUME NEW c, c.since \in Int
    PROVE  MissedChecks(c) \in Int
<1>1. Elapsed(c.since) \in Nat
  BY LaterIs, WatchBounds DEF Elapsed
<1> QED
  BY <1>1, WatchBounds DEF MissedChecks

LEMMA TickMissedKeeps ==
    ASSUME WatchInv, TickMissed
    PROVE  StepIsWatched
<1>1. PICK h \in Healths : h = Aged(hwHealth)
  BY AgedKeeps
<1> PICK no \in BOOLEAN : no = FALSE
  OBVIOUS
<1>0. Ticks("missed_js", no) \/ Ticks("missed_frame", no)
  BY DEF TickMissed
<1>9. /\ hwWatched' \in Nat /\ Watched(h, hwWatched') /\ hwVisible' \in BOOLEAN
  <2>1. CASE Ticks("missed_js", no)
    BY <1>1, <2>1, TicksAre
  <2>2. CASE Ticks("missed_frame", no)
    BY <1>1, <2>2, TicksAre
  <2> QED
    BY <1>0, <2>1, <2>2
<1>2. /\ hwWatched' \in Nat /\ Watched(h, hwWatched') /\ hwVisible' \in BOOLEAN
      /\ h.cool = Later(hwHealth.cool, 0) /\ h.pend.id = hwHealth.pend.id
  BY <1>1, <1>9, AgedKeeps
<1>3. hwPage' \in ScreenPages /\ UNCHANGED hwEvals
  BY DEF TickMissed, WatchInv
<1>4. h.js.since \in Int /\ h.frame.since \in Int
  BY DEF Healths, Progress, Frames
<1>5. PICK mj \in Int : mj = MissedChecks(h.js)
  BY <1>4, MissedIsANumber
<1>6. PICK mf \in Int : mf = MissedChecks(h.frame)
  BY <1>4, MissedIsANumber
<1>7. hwHealth' = [h EXCEPT !.js.missed = mj] \/ hwHealth' = [h EXCEPT !.frame.missed = mf]
  BY <1>1, <1>5, <1>6 DEF TickMissed
<1>8. /\ hwHealth' \in Healths /\ hwHealth'.pend = h.pend /\ hwHealth'.cool = h.cool
      /\ Watched(hwHealth', hwWatched')
  BY <1>2, <1>7, ReportedIs
<1> QED
  BY <1>2, <1>3, <1>8, NoProbeKeeps

LEMMA TickQuietKeeps ==
    ASSUME WatchInv, TickQuiet
    PROVE  StepIsWatched
<1> PICK no \in BOOLEAN : no = FALSE
  OBVIOUS
<1>0. Ticks("none", no)
  BY DEF TickQuiet
<1>1. hwWatched' \in Nat /\ Watched(Aged(hwHealth), hwWatched') /\ hwVisible' \in BOOLEAN
  BY <1>0, TicksAre
<1>2. hwPage' \in ScreenPages /\ UNCHANGED hwEvals /\ hwHealth' = Aged(hwHealth)
  BY DEF TickQuiet, WatchInv
<1> QED
  BY <1>1, <1>2, AgedKeeps, NoProbeKeeps

LEMMA TickRecoverKeeps ==
    ASSUME WatchInv, TickRecover
    PROVE  StepIsWatched
<1>1. PICK h \in Healths : h = Aged(hwHealth)
  BY AgedKeeps
<1> PICK no \in BOOLEAN : no = FALSE
  OBVIOUS
<1>0. Ticks("recover", no)
  BY DEF TickRecover
<1>2. hwWatched' \in Nat /\ Watched(h, hwWatched') /\ Stalled(h) /\ hwVisible' \in BOOLEAN
  BY <1>0, <1>1, TicksAre
<1>3. hwWatched' >= Recovery
  BY <1>2, StalledIsWatched
<1>4. PICK g \in Healths : g = Navigation(h)
  BY NavigationIs
<1>5. PICK c \in Int : c = Cooldown
  BY WatchBounds
<1>6. PICK r \in Int : r = Recreation
  BY WatchBounds
<1>7. hwHealth' = [g EXCEPT !.cool = c, !.recreateAt = r]
  BY <1>1, <1>4, <1>5, <1>6 DEF TickRecover, BeginRecovery
<1>8. hwHealth' \in Healths /\ hwHealth'.pend = g.pend
  BY <1>7 DEF Healths
<1>9. hwHealth'.pend.id = 0
  BY <1>4, <1>8, NavigationIs
<1>10. Watched(hwHealth', hwWatched')
  BY <1>3 DEF Watched
<1>11. hwPage' \in ScreenPages /\ UNCHANGED hwEvals
  BY DEF TickRecover, WatchInv
<1> QED
  BY <1>2, <1>3, <1>8, <1>9, <1>10, <1>11, NoProbeKeeps

\* Whatever answers are still to come are those of a replaced document.
LEMMA ReplacedKeeps ==
    ASSUME WatchInv, hwHealth' \in Healths, hwHealth'.pend.id = 0,
           hwPage' \in ScreenPages, hwVisible' \in BOOLEAN,
           hwWatched' \in Nat, Watched(hwHealth', hwWatched'),
           hwEvals' = {[e EXCEPT !.live = FALSE] : e \in hwEvals} \/ hwEvals' = hwEvals,
           \/ hwHealth'.cool = hwHealth.cool
           \/ hwHealth'.cool = Later(hwHealth.cool, 0)
    PROVE  StepIsWatched
<1>0. PICK no \in BOOLEAN : no = FALSE
  OBVIOUS
<1>7. \A e \in Evals : [e EXCEPT !.live = no] \in Evals /\ [e EXCEPT !.live = no].id = e.id
  BY DEF Evals
<1>8. \A e \in Evals : e.id # 0
  BY WatchBounds DEF Evals
<1>1. \A e \in Evals : [e EXCEPT !.live = FALSE] \in Evals /\ e.id # 0
  BY <1>0, <1>7, <1>8
<1>2. \A e \in Evals : ~e.live => [e EXCEPT !.live = FALSE] = e
  BY DEF Evals
<1>3. hwEvals \in SUBSET Evals
  BY DEF WatchInv
<1>4. hwEvals' \in SUBSET Evals
  BY <1>1, <1>3
<1>5. \A e \in hwEvals : ~e.live => e \in hwEvals'
  BY <1>2, <1>3
<1>6. \A e \in hwEvals' : e.id # hwHealth'.pend.id
  BY <1>1, <1>4
<1> QED
  BY <1>4, <1>5, <1>6, WatchStepKeeps

LEMMA FreshViewIsAPage ==
    FreshView \in ScreenPages /\ \A made \in BOOLEAN : [FreshView EXCEPT !.view = made] \in ScreenPages
<1>1. PICK yes \in BOOLEAN : yes = TRUE
  OBVIOUS
<1>2. PICK no \in BOOLEAN : no = FALSE
  OBVIOUS
<1>3. PICK z \in 0..FrameMod - 1 : z = 0
  BY DEF FrameMod
<1>4. FreshView = [view |-> yes, hang |-> "no", frame |-> z, raf |-> no, shown |-> yes, own |-> no]
  BY <1>1, <1>2, <1>3 DEF FreshView
<1>5. FreshView \in ScreenPages
  BY <1>4 DEF ScreenPages
<1> QED
  BY <1>5 DEF ScreenPages

LEMMA TickRecreateKeeps ==
    ASSUME WatchInv, TickRecreate
    PROVE  StepIsWatched
<1>1. PICK h \in Healths : h = Aged(hwHealth)
  BY AgedKeeps
<1> PICK no \in BOOLEAN : no = FALSE
  OBVIOUS
<1>0. Ticks("recreate", no)
  BY DEF TickRecreate
<1>7. hwWatched' \in Nat /\ Watched(h, hwWatched') /\ hwVisible' \in BOOLEAN
  BY <1>0, <1>1, TicksAre
<1>2. /\ hwWatched' \in Nat /\ Watched(h, hwWatched') /\ hwVisible' \in BOOLEAN
      /\ h.cool = Later(hwHealth.cool, 0) /\ h.pend.id = hwHealth.pend.id
  BY <1>1, <1>7, AgedKeeps
<1>3. PICK r \in Int : r = Never
  BY DEF Never
<1>4. hwPage \in ScreenPages
  BY DEF WatchInv
<1>5. CASE hwHealth' = [h EXCEPT !.recreateAt = Never] /\ UNCHANGED <<hwGate, hwPage, hwEvals>>
  <2>1. hwHealth' = [h EXCEPT !.recreateAt = r]
    BY <1>3, <1>5
  <2>2. /\ hwHealth' \in Healths /\ hwHealth'.pend = h.pend /\ hwHealth'.cool = h.cool
        /\ hwHealth'.slow = h.slow /\ hwHealth'.js = h.js /\ hwHealth'.frame = h.frame
    BY <2>1 DEF Healths
  <2>3. Watched(hwHealth', hwWatched')
    BY <1>2, <2>2 DEF Watched
  <2> QED
    BY <1>2, <1>4, <1>5, <2>2, <2>3, NoProbeKeeps
<1>6. CASE hwHealth' = BeginRecreation(h) /\ RecreateMainWebview
  <2>1. PICK g \in Healths : g = Navigation(h)
    BY NavigationIs
  <2>2. hwHealth' = [g EXCEPT !.recreateAt = r]
    BY <1>3, <1>6, <2>1 DEF BeginRecreation
  <2>3. /\ hwHealth' \in Healths /\ hwHealth'.pend = g.pend /\ hwHealth'.cool = g.cool
        /\ hwHealth'.slow = g.slow /\ hwHealth'.js = g.js /\ hwHealth'.frame = g.frame
    BY <2>2 DEF Healths
  <2>4. g.pend.id = 0 /\ g.cool = h.cool /\ Watched(g, hwWatched')
    BY <1>2, <2>1, NavigationIs
  <2>5. Watched(hwHealth', hwWatched')
    BY <2>3, <2>4 DEF Watched
  <2>6. hwPage' \in ScreenPages
    BY <1>4, <1>6, FreshViewIsAPage DEF RecreateMainWebview
  <2>7. hwEvals' = {[e EXCEPT !.live = FALSE] : e \in hwEvals} \/ hwEvals' = hwEvals
    BY <1>6 DEF RecreateMainWebview
  <2> QED
    BY <1>2, <2>3, <2>4, <2>5, <2>6, <2>7, ReplacedKeeps
<1> QED
  BY <1>1, <1>5, <1>6 DEF TickRecreate

LEMMA PollStopsKeeps ==
    ASSUME WatchInv, PollStops
    PROVE  StepIsWatched
<1>1. hwHealth \in Healths /\ hwPage \in ScreenPages /\ hwWatched \in Nat
      /\ Watched(hwHealth, hwWatched) /\ hwVisible \in BOOLEAN
  BY DEF WatchInv
<1>2. hwHealth' = [hwHealth EXCEPT !.stopped = TRUE]
      /\ UNCHANGED <<hwGate, hwPage, hwEvals, hwVisible, hwWatched>>
  BY DEF PollStops
<1>3. hwHealth' \in Healths /\ hwHealth'.pend = hwHealth.pend /\ hwHealth'.cool = hwHealth.cool
      /\ hwHealth'.slow = hwHealth.slow /\ hwHealth'.js = hwHealth.js
      /\ hwHealth'.frame = hwHealth.frame
  BY <1>1, <1>2 DEF Healths
<1>4. Watched(hwHealth', hwWatched')
  BY <1>1, <1>2, <1>3 DEF Watched
<1> QED
  BY <1>1, <1>2, <1>3, <1>4, NoProbeKeeps

\* Answers, and the steps of the page.
LEMMA AnswersKeep ==
    ASSUME WatchInv, NEW e \in hwEvals, PageAnswers(e) \/ OtherAnswer(e)
    PROVE  StepIsWatched
<1>1. hwHealth \in Healths /\ hwPage \in ScreenPages /\ hwWatched \in Nat
      /\ Watched(hwHealth, hwWatched) /\ ReplacedProbesAreGone
  BY DEF WatchInv
<1>2. PICK resp : /\ resp = <<>> \/ (resp = <<resp[1], resp[2]>> /\ resp[1] \in BOOLEAN /\ resp[2] \in Int)
                  /\ hwHealth' = ProbeDone(hwHealth, e.id, resp)
  <2>1. CASE PageAnswers(e)
    <3>1. hwHealth' = ProbeDone(hwHealth, e.id, <<hwPage.shown, hwPage.frame>>)
      BY <2>1 DEF PageAnswers
    <3>2. hwPage.shown \in BOOLEAN
      BY <1>1 DEF ScreenPages
    <3>3. hwPage.frame \in Int
      BY <1>1 DEF ScreenPages, FrameMod
    <3> QED
      BY <3>1, <3>2, <3>3
  <2>2. CASE OtherAnswer(e)
    <3>1. PICK resp \in {<<>>, <<TRUE, 0>>, <<TRUE, 1>>} :
              hwHealth' = ProbeDone(hwHealth, e.id, resp)
      BY <2>2 DEF OtherAnswer
    <3>2. PICK yes \in BOOLEAN : yes = TRUE
      OBVIOUS
    <3>3. resp = <<>> \/ resp = <<yes, 0>> \/ resp = <<yes, 1>>
      BY <3>1, <3>2
    <3>4. resp = <<>> \/ (resp = <<resp[1], resp[2]>> /\ resp[1] \in BOOLEAN /\ resp[2] \in Int)
      BY <3>3
    <3> QED
      BY <3>1, <3>4
  <2> QED
    BY <2>1, <2>2
<1>3. /\ hwHealth' \in Healths /\ hwHealth'.cool = hwHealth.cool
      /\ hwHealth'.pend.id \in {0, hwHealth.pend.id} /\ Watched(hwHealth', hwWatched)
      /\ e.id # hwHealth.pend.id => hwHealth' = hwHealth
  BY <1>1, <1>2, ProbeDoneIs
<1>4. hwPage' \in ScreenPages
  <2>1. CASE OtherAnswer(e)
    BY <1>1, <2>1 DEF OtherAnswer
  <2>2. CASE PageAnswers(e)
    <3>1. PICK b \in BOOLEAN : b = (hwPage.raf \/ hwPage.shown)
      BY Zenon
    <3>2. hwPage' = [hwPage EXCEPT !.raf = b]
      BY <2>2, <3>1 DEF PageAnswers
    <3> QED
      BY <1>1, <3>2 DEF ScreenPages
  <2> QED
    BY <2>1, <2>2
<1>5. hwEvals' = hwEvals \ {e} /\ hwWatched' = hwWatched /\ hwVisible' \in BOOLEAN
  BY DEF PageAnswers, OtherAnswer, WatchInv
<1>6. (\A o \in hwEvals : ~o.live => o \in hwEvals') \/ hwHealth' = hwHealth
  <2>1. CASE e.live
    BY <1>5, <2>1
  <2>2. CASE ~e.live
    BY <1>1, <1>3, <2>2 DEF ReplacedProbesAreGone
  <2> QED
    BY <2>1, <2>2
<1> QED
  BY <1>1, <1>3, <1>4, <1>5, <1>6, NoProbeKeeps

LEMMA PageLoadsKeeps ==
    ASSUME WatchInv, PageLoads
    PROVE  StepIsWatched
<1>1. hwHealth \in Healths /\ hwWatched \in Nat /\ hwVisible \in BOOLEAN
  BY DEF WatchInv
<1>2. /\ hwHealth' = Navigation(hwHealth) /\ hwPage' = FreshView
      /\ hwEvals' = {[e EXCEPT !.live = FALSE] : e \in hwEvals}
      /\ hwWatched' = hwWatched /\ hwVisible' = hwVisible
  BY DEF PageLoads
<1>3. /\ hwHealth' \in Healths /\ hwHealth'.pend.id = 0 /\ hwHealth'.cool = hwHealth.cool
      /\ Watched(hwHealth', hwWatched')
  BY <1>1, <1>2, NavigationIs
<1> QED
  BY <1>1, <1>2, <1>3, FreshViewIsAPage, ReplacedKeeps

\* What the page and the window do by themselves.
LEMMA PageStepsKeep ==
    ASSUME WatchInv,
           PageDraws \/ PageHangs \/ PageRestores \/ WindowShown \/ UNCHANGED hwVars
    PROVE  StepIsWatched
<1>1. hwHealth \in Healths /\ hwPage \in ScreenPages /\ hwWatched \in Nat
      /\ Watched(hwHealth, hwWatched) /\ hwVisible \in BOOLEAN
  BY DEF WatchInv
<1>2. hwHealth' = hwHealth /\ hwEvals' = hwEvals /\ hwWatched' = hwWatched
  BY DEF PageDraws, PageHangs, PageRestores, WindowShown, hwVars
<1>3. hwPage' \in ScreenPages
  <2>1. CASE PageDraws
    <3>1. PICK f \in 0..FrameMod - 1 : f = (hwPage.frame + 1) % FrameMod
      BY <1>1 DEF ScreenPages, FrameMod
    <3>2. PICK b \in BOOLEAN : b = FALSE
      OBVIOUS
    <3>3. hwPage' = [hwPage EXCEPT !.raf = b, !.frame = f]
      BY <2>1, <3>1, <3>2 DEF PageDraws
    <3> QED
      BY <1>1, <3>3 DEF ScreenPages
  <2>2. CASE PageHangs
    BY <1>1, <2>2 DEF PageHangs, ScreenPages
  <2>3. CASE PageRestores
    BY <1>1, <2>3 DEF PageRestores, ScreenPages
  <2>4. CASE WindowShown
    <3>1. PICK s \in BOOLEAN : hwPage' = [hwPage EXCEPT !.shown = s]
      BY <2>4, Zenon DEF WindowShown
    <3> QED
      BY <1>1, <3>1 DEF ScreenPages
  <2>5. CASE UNCHANGED hwVars
    BY <1>1, <2>5 DEF hwVars
  <2> QED
    BY <2>1, <2>2, <2>3, <2>4, <2>5
<1>4. hwVisible' \in BOOLEAN
  BY <1>1, Zenon DEF PageDraws, PageHangs, PageRestores, WindowShown, hwVars
<1> QED
  BY <1>1, <1>2, <1>3, <1>4, NoProbeKeeps

\* The invariant holds from the start and is kept.
LEMMA WatchStarts ==
    ASSUME HealthInit
    PROVE  WatchInv
<1>1. PICK p \in Probes : p = NoProbe
  BY NothingIsKnown
<1>2. PICK j \in Progress : j = NoProgress
  BY NothingIsKnown
<1>3. PICK f \in Frames : f = NoFrame
  BY NothingIsKnown
<1>4. PICK n \in Int : n = Grace
  BY WatchBounds
<1>5. PICK no \in BOOLEAN : no = FALSE
  OBVIOUS
<1>6. PICK r \in Int : r = Never
  BY DEF Never
<1>7. PICK z \in Nat : z = 0
  OBVIOUS
<1>8. hwHealth = [pend |-> p, slow |-> z, js |-> j, frame |-> f, next |-> n, seen |-> no,
                  cool |-> z, recreateAt |-> r, stopped |-> no]
  BY <1>1, <1>2, <1>3, <1>4, <1>5, <1>6, <1>7 DEF HealthInit, NewHealth
<1>9. hwHealth \in Healths
  BY <1>8 DEF Healths
<1>10. /\ hwHealth.slow = 0 /\ hwHealth.js = NoProgress /\ hwHealth.frame = NoFrame
       /\ hwHealth.pend = NoProbe
  BY <1>1, <1>2, <1>3, <1>7, <1>8
<1>11. Watched(hwHealth, 0)
  BY <1>9, <1>10, ClearedIsWatched, NothingIsKnown, ElapsedIs
<1>12. hwVisible \in BOOLEAN
  BY DEF HealthInit
<1>13. hwPage \in ScreenPages
  BY FreshViewIsAPage DEF HealthInit
<1>14. hwEvals \in SUBSET Evals /\ ReplacedProbesAreGone /\ hwWatched = 0
  BY DEF HealthInit, ReplacedProbesAreGone
<1> QED
  BY <1>9, <1>11, <1>12, <1>13, <1>14 DEF WatchInv

LEMMA HealthNextKeeps ==
    ASSUME WatchInv, [HealthNext]_hwVars
    PROVE  StepIsWatched
BY TickPauseKeeps, TickProbeKeeps, TickMissedKeeps, TickQuietKeeps, TickRecoverKeeps,
   TickRecreateKeeps, PollStopsKeeps, AnswersKeep, PageLoadsKeeps, PageStepsKeep
   DEF HealthNext, HealthTick

(* An answer of a replaced document never changes what the watchdog knows of   *)
(* the new one, and a page is reloaded only after it was on screen throughout  *)
(* the recovery time (webview_health.rs, complete and tick).                   *)
THEOREM WatchdogIsFair ==
    HealthSpec => [][StaleAnswersAreIgnored /\ OnlyWatchedPagesAreReloaded]_hwVars
<1>1. HealthInit => WatchInv
  BY WatchStarts
<1>2. WatchInv /\ [HealthNext]_hwVars => WatchInv'
  BY HealthNextKeeps DEF StepIsWatched
<1>3. WatchInv /\ [HealthNext]_hwVars
      => [StaleAnswersAreIgnored /\ OnlyWatchedPagesAreReloaded]_hwVars
  BY HealthNextKeeps DEF StepIsWatched
<1> QED
  BY <1>1, <1>2, <1>3, PTL DEF HealthSpec

-----------------------------------------------------------------------------
(* The notices of commits.                                                  *)

\* The refresh that is under way.
Waves == [on : BOOLEAN, left : SUBSET CnCols, col : 0..CnColumns, version : Nat, read : Int]
CnTypes ==
    /\ cnCommits \in Nat /\ cnSenders \in Nat
    /\ cnQueue \in Seq({"notice", "other"})
    /\ cnDirty \in [CnCols -> Nat] /\ cnFailed \in [CnCols -> Nat]
    /\ cnShown \in [CnCols -> Int]
    /\ cnRun \in Waves
    /\ cnVisible \in SUBSET CnCols

\* One that is not sent again is still waiting for the queue, or in it.
PendingIsTrue ==
    cnPending => cnSenders > 0 \/ \E i \in DOMAIN cnQueue : cnQueue[i] = "notice"

\* The column that is being refreshed is as dirty as it was, or more.
RefreshedIsDirty ==
    cnRun.col # 0 => /\ cnRun.on
                     /\ ~cnMixed => cnRun.version # 0 /\ cnRun.version <= cnDirty[cnRun.col]

\* What a refresh has read is all there is, unless a notice is on its way or came meanwhile.
ReadIsCurrent ==
    cnRun.col # 0 /\ ~cnMixed /\ cnRun.read >= 0 /\ cnDirty[cnRun.col] = cnRun.version
    => NoticeOnItsWay \/ cnRun.read = cnCommits

\* With no notice on its way a clean column shows every commit.
CleanIsCurrent ==
    ~NoticeOnItsWay /\ ~cnMixed => \A c \in CnCols : cnDirty[c] = 0 => cnShown[c] = cnCommits

\* Without a wave and a timer, what is visible and dirty has failed.
RestingHasFailed ==
    ~cnRun.on /\ ~cnTimer => \A c \in cnVisible : cnDirty[c] # 0 => cnFailed[c] = cnDirty[c]

\* All of it.
CnInv == CnTypes /\ PendingIsTrue /\ RefreshedIsDirty /\ ReadIsCurrent /\ CleanIsCurrent
         /\ RestingHasFailed

-----------------------------------------------------------------------------

\* Where a notice can be.
InQueue == \E i \in DOMAIN cnQueue : cnQueue[i] = "notice"

LEMMA WayIs == NoticeOnItsWay <=> cnUntold \/ cnSenders > 0 \/ cnHeld = "notice" \/ InQueue
BY DEF NoticeOnItsWay, InQueue

\* The ends of the queue.
LEMMA AppendedIs ==
    ASSUME NEW q \in Seq({"notice", "other"}), NEW e \in {"notice", "other"}
    PROVE  /\ Append(q, e) \in Seq({"notice", "other"})
           /\ (\E i \in DOMAIN Append(q, e) : Append(q, e)[i] = "notice")
              <=> e = "notice" \/ \E i \in DOMAIN q : q[i] = "notice"
<1>1. Append(q, e) \in Seq({"notice", "other"})
  OBVIOUS
<1>2. /\ DOMAIN q = 1..Len(q) /\ Len(q) \in Nat
      /\ DOMAIN Append(q, e) = 1..Len(q) + 1
      /\ \A i \in 1..Len(q) : Append(q, e)[i] = q[i]
      /\ Append(q, e)[Len(q) + 1] = e
  OBVIOUS
<1>3. \A i \in 1..Len(q) + 1 : i \in 1..Len(q) \/ i = Len(q) + 1
  BY <1>2
<1>4. 1..Len(q) \subseteq 1..Len(q) + 1 /\ Len(q) + 1 \in 1..Len(q) + 1
  BY <1>2
<1> QED
  BY <1>1, <1>2, <1>3, <1>4

LEMMA TakenIs ==
    ASSUME NEW q \in Seq({"notice", "other"}), q # <<>>
    PROVE  /\ Tail(q) \in Seq({"notice", "other"}) /\ Head(q) \in {"notice", "other"}
           /\ (\E i \in DOMAIN q : q[i] = "notice")
              <=> Head(q) = "notice" \/ \E i \in DOMAIN Tail(q) : Tail(q)[i] = "notice"
<1>1. /\ Tail(q) \in Seq({"notice", "other"}) /\ Head(q) \in {"notice", "other"}
      /\ Head(q) = q[1]
  OBVIOUS
<1>2. /\ DOMAIN q = 1..Len(q) /\ Len(q) \in Nat \ {0}
      /\ DOMAIN Tail(q) = 1..Len(q) - 1
      /\ \A i \in 1..Len(q) - 1 : Tail(q)[i] = q[i + 1]
  OBVIOUS
<1>3. \A i \in 1..Len(q) : i = 1 \/ (i - 1 \in 1..Len(q) - 1 /\ Tail(q)[i - 1] = q[i])
  BY <1>2
<1>4. \A i \in 1..Len(q) - 1 : i + 1 \in 1..Len(q)
  BY <1>2
<1>5. 1 \in 1..Len(q)
  BY <1>2
<1> QED
  BY <1>1, <1>2, <1>3, <1>4, <1>5

\* A step of the writers and the emitter, but for the delivery.
LEMMA EmitterKeeps ==
    ASSUME CnInv, UNCHANGED Coordinator, cnCommits' \in Nat, cnSenders' \in Nat,
           cnQueue' \in Seq({"notice", "other"}), PendingIsTrue',
           NoticeOnItsWay => NoticeOnItsWay',
           cnCommits' = cnCommits \/ NoticeOnItsWay'
    PROVE  CnInv'
<1>1. /\ cnDirty' = cnDirty /\ cnFailed' = cnFailed /\ cnTimer' = cnTimer /\ cnRun' = cnRun
      /\ cnVisible' = cnVisible /\ cnShown' = cnShown /\ cnMixed' = cnMixed
  BY DEF Coordinator
<1>2. CnTypes'
  BY <1>1 DEF CnInv, CnTypes
<1>3. RefreshedIsDirty'
  BY <1>1 DEF CnInv, RefreshedIsDirty
<1>4. ReadIsCurrent'
  BY <1>1 DEF CnInv, ReadIsCurrent
<1>5. CleanIsCurrent'
  BY <1>1 DEF CnInv, CleanIsCurrent
<1>6. RestingHasFailed'
  BY <1>1 DEF CnInv, RestingHasFailed
<1> QED
  BY <1>2, <1>3, <1>4, <1>5, <1>6 DEF CnInv

\* The steps of the emitter lose no notice, and change no column.
LEMMA EmitterSteps ==
    ASSUME CnInv, CnCommit \/ EmitDetached \/ SendNotice \/ EmitEvent \/ TakeEvent \/ EmitterYields
    PROVE  CnInv'
<1>0. /\ cnCommits \in Nat /\ cnSenders \in Nat /\ cnQueue \in Seq({"notice", "other"})
      /\ cnPending => cnSenders > 0 \/ InQueue
  BY DEF CnInv, CnTypes, PendingIsTrue, InQueue
<1>1. CASE CnCommit
  <2>1. /\ cnCommits' = cnCommits + 1 /\ cnUntold' /\ UNCHANGED Coordinator
        /\ cnPending' = cnPending /\ cnSenders' = cnSenders /\ cnQueue' = cnQueue
    BY <1>1 DEF CnCommit
  <2>2. PendingIsTrue'
    BY <1>0, <2>1 DEF PendingIsTrue, InQueue
  <2>3. NoticeOnItsWay'
    BY <2>1 DEF NoticeOnItsWay
  <2> QED
    BY <1>0, <2>1, <2>2, <2>3, EmitterKeeps
<1>2. CASE EmitDetached
  <2>1. /\ cnCommits' = cnCommits /\ UNCHANGED Coordinator /\ cnQueue' = cnQueue
        /\ cnSenders' = IF cnPending THEN cnSenders ELSE cnSenders + 1
    BY <1>2 DEF EmitDetached
  <2>2. cnSenders' \in Nat /\ (cnSenders' > 0 \/ InQueue)
    BY <1>0, <2>1
  <2>3. PendingIsTrue' /\ NoticeOnItsWay'
    BY <2>1, <2>2 DEF PendingIsTrue, NoticeOnItsWay, InQueue
  <2> QED
    BY <1>0, <2>1, <2>2, <2>3, EmitterKeeps
<1>3. CASE SendNotice
  <2>1. /\ cnCommits' = cnCommits /\ UNCHANGED Coordinator /\ cnQueue' = Append(cnQueue, "notice")
        /\ cnSenders > 0 /\ cnSenders' = cnSenders - 1
    BY <1>3 DEF SendNotice
  <2>2. cnSenders' \in Nat
    BY <1>0, <2>1
  <2>3. cnQueue' \in Seq({"notice", "other"}) /\ \E i \in DOMAIN cnQueue' : cnQueue'[i] = "notice"
    BY <1>0, <2>1, AppendedIs
  <2>4. PendingIsTrue' /\ NoticeOnItsWay'
    BY <2>3 DEF PendingIsTrue, NoticeOnItsWay
  <2> QED
    BY <1>0, <2>1, <2>2, <2>3, <2>4, EmitterKeeps
<1>4. CASE EmitEvent
  <2>1. /\ cnCommits' = cnCommits /\ UNCHANGED Coordinator /\ cnSenders' = cnSenders
        /\ cnQueue' = Append(cnQueue, "other") \/ cnQueue' = cnQueue
        /\ cnPending' = cnPending /\ cnUntold' = cnUntold /\ cnHeld' = cnHeld
    BY <1>4 DEF EmitEvent
  <2>2. /\ cnQueue' \in Seq({"notice", "other"})
        /\ InQueue => \E i \in DOMAIN cnQueue' : cnQueue'[i] = "notice"
    BY <1>0, <2>1, AppendedIs DEF InQueue
  <2>3. PendingIsTrue' /\ (NoticeOnItsWay => NoticeOnItsWay')
    BY <1>0, <2>1, <2>2 DEF PendingIsTrue, NoticeOnItsWay, InQueue
  <2> QED
    BY <1>0, <2>1, <2>2, <2>3, EmitterKeeps
<1>5. CASE TakeEvent
  <2>1. /\ cnCommits' = cnCommits /\ UNCHANGED Coordinator /\ cnSenders' = cnSenders
        /\ cnQueue # <<>> /\ cnQueue' = Tail(cnQueue) /\ cnHeld' = Head(cnQueue)
        /\ cnHeld = "none" /\ cnUntold' = cnUntold
    BY <1>5 DEF TakeEvent
  <2>2. cnPending' => cnPending /\ Head(cnQueue) # "notice"
    BY <1>5 DEF TakeEvent, ClearsBefore
  <2>3. /\ cnQueue' \in Seq({"notice", "other"})
        /\ InQueue => cnHeld' = "notice" \/ \E i \in DOMAIN cnQueue' : cnQueue'[i] = "notice"
    BY <1>0, <2>1, TakenIs DEF InQueue
  <2>4. PendingIsTrue'
    BY <1>0, <2>1, <2>2, <2>3 DEF PendingIsTrue
  <2>5. NoticeOnItsWay => NoticeOnItsWay'
    BY <2>1, <2>3 DEF NoticeOnItsWay, InQueue
  <2> QED
    BY <1>0, <2>1, <2>3, <2>4, <2>5, EmitterKeeps
<1>6. CASE EmitterYields
  <2>1. /\ cnCommits' = cnCommits /\ UNCHANGED Coordinator /\ cnSenders' = cnSenders
        /\ cnQueue' = cnQueue /\ cnHeld = "told" /\ cnUntold' = cnUntold
    BY <1>6 DEF EmitterYields
  <2>2. cnPending' => cnPending
    BY <1>6 DEF EmitterYields
  <2>3. PendingIsTrue' /\ (NoticeOnItsWay => NoticeOnItsWay')
    BY <1>0, <2>1, <2>2 DEF PendingIsTrue, NoticeOnItsWay, InQueue
  <2> QED
    BY <1>0, <2>1, <2>3, EmitterKeeps
<1> QED
  BY <1>1, <1>2, <1>3, <1>4, <1>5, <1>6

\* A notice that is delivered marks every column dirty.
LEMMA DeliverKeeps ==
    ASSUME CnInv, Deliver
    PROVE  CnInv'
<1>0. CnTypes /\ PendingIsTrue /\ RefreshedIsDirty /\ ReadIsCurrent /\ CleanIsCurrent
      /\ RestingHasFailed
  BY DEF CnInv
<1>1. /\ cnCommits' = cnCommits /\ cnSenders' = cnSenders /\ cnQueue' = cnQueue
      /\ cnPending' = cnPending /\ cnUntold' = cnUntold /\ cnRun' = cnRun
      /\ cnVisible' = cnVisible /\ cnShown' = cnShown /\ cnMixed' = cnMixed
  BY DEF Deliver
<1>2. PendingIsTrue'
  BY <1>0, <1>1 DEF PendingIsTrue
<1>3. CASE cnHeld = "notice"
  <2>1. /\ cnDirty' = [c \in CnCols |-> cnDirty[c] + 1] /\ cnFailed' = [c \in CnCols |-> 0]
        /\ cnVisible # {} => cnTimer' = (cnTimer \/ ~cnRun.on)
    BY <1>3 DEF Deliver, NextVersion, Arm
  <2>2. cnDirty' \in [CnCols -> Nat] /\ cnFailed' \in [CnCols -> Nat]
        /\ \A c \in CnCols : cnDirty'[c] # 0 /\ cnDirty'[c] > cnDirty[c] /\ cnDirty[c] \in Nat
    BY <1>0, <2>1 DEF CnTypes
  <2>3. CnTypes'
    BY <1>0, <1>1, <2>2 DEF CnTypes
  <2>4. /\ cnRun.col # 0 => cnRun.col \in CnCols
        /\ cnRun.version \in Nat
    BY <1>0 DEF CnTypes, Waves, CnCols
  <2>5. RefreshedIsDirty'
    BY <1>0, <1>1, <2>2, <2>4 DEF RefreshedIsDirty
  <2>6. ReadIsCurrent'
    BY <1>0, <1>1, <2>2, <2>4 DEF RefreshedIsDirty, ReadIsCurrent
  <2>7. CleanIsCurrent'
    BY <2>2 DEF CleanIsCurrent
  <2>8. RestingHasFailed'
    BY <1>1, <2>1 DEF RestingHasFailed
  <2> QED
    BY <1>2, <2>3, <2>5, <2>6, <2>7, <2>8 DEF CnInv
<1>4. CASE cnHeld # "notice"
  <2>1. cnHeld' = "none" /\ UNCHANGED <<cnDirty, cnFailed, cnTimer>>
    BY <1>4 DEF Deliver
  <2>2. NoticeOnItsWay => NoticeOnItsWay'
    BY <1>1, <1>4, <2>1 DEF NoticeOnItsWay
  <2>3. CnTypes' /\ RefreshedIsDirty' /\ RestingHasFailed'
    BY <1>0, <1>1, <2>1 DEF CnTypes, RefreshedIsDirty, RestingHasFailed
  <2>4. ReadIsCurrent'
    BY <1>0, <1>1, <2>1, <2>2 DEF ReadIsCurrent
  <2>5. CleanIsCurrent'
    BY <1>0, <1>1, <2>1, <2>2 DEF CleanIsCurrent
  <2> QED
    BY <1>2, <2>3, <2>4, <2>5 DEF CnInv
<1> QED
  BY <1>3, <1>4

\* The steps of the coordinator: nothing changes on the way of a notice.
LEMMA CoordinatorKeeps ==
    ASSUME CnInv, UNCHANGED Emitter, cnDirty' \in [CnCols -> Nat], cnFailed' \in [CnCols -> Nat],
           cnShown' \in [CnCols -> Int], cnRun' \in Waves, cnVisible' \in SUBSET CnCols,
           RefreshedIsDirty', ReadIsCurrent', CleanIsCurrent', RestingHasFailed'
    PROVE  CnInv'
<1>1. CnTypes'
  BY DEF CnInv, CnTypes, Emitter
<1>2. PendingIsTrue'
  BY DEF CnInv, PendingIsTrue, Emitter
<1> QED
  BY <1>1, <1>2 DEF CnInv

LEMMA WayStays ==
    ASSUME UNCHANGED Emitter
    PROVE  /\ NoticeOnItsWay' <=> NoticeOnItsWay
           /\ cnCommits' = cnCommits
BY DEF Emitter, NoticeOnItsWay

LEMMA NoWaveIsAWave == NoWave \in Waves
<1>1. PICK no \in BOOLEAN : no = FALSE
  OBVIOUS
<1>2. 0 \in 0..CnColumns
  BY CnAssumption
<1>3. NoWave = [on |-> no, left |-> {}, col |-> 0, version |-> 0, read |-> 0]
  BY <1>1 DEF NoWave
<1> QED
  BY <1>2, <1>3 DEF Waves

LEMMA ShownSteps ==
    ASSUME CnInv, NEW c \in CnCols, Activate(c) \/ Hide(c)
    PROVE  CnInv'
<1>0. CnTypes /\ PendingIsTrue /\ RefreshedIsDirty /\ ReadIsCurrent /\ CleanIsCurrent
      /\ RestingHasFailed
  BY DEF CnInv
<1>1. /\ UNCHANGED Emitter
      /\ cnDirty' = cnDirty /\ cnRun' = cnRun /\ cnShown' = cnShown /\ cnMixed' = cnMixed
      /\ cnVisible' = cnVisible \union {c} \/ cnVisible' = cnVisible \ {c}
  BY DEF Activate, Hide
<1>2. /\ NoticeOnItsWay' <=> NoticeOnItsWay
      /\ cnCommits' = cnCommits
  BY <1>1, WayStays
<1>3. cnFailed' \in [CnCols -> Nat]
  BY <1>0 DEF Activate, Hide, CnTypes
<1>4. RefreshedIsDirty' /\ ReadIsCurrent' /\ CleanIsCurrent'
  BY <1>0, <1>1, <1>2 DEF RefreshedIsDirty, ReadIsCurrent, CleanIsCurrent
<1>5. RestingHasFailed'
  <2>1. CASE Hide(c)
    BY <1>0, <1>1, <2>1 DEF Hide, RestingHasFailed
  <2>2. CASE Activate(c) /\ cnDirty[c] # 0
    BY <1>1, <2>2 DEF Activate, Arm, RestingHasFailed
  <2>3. CASE Activate(c) /\ cnDirty[c] = 0
    BY <1>0, <1>1, <2>3 DEF Activate, RestingHasFailed
  <2> QED
    BY <2>1, <2>2, <2>3
<1>6. cnVisible' \in SUBSET CnCols
  BY <1>0, <1>1 DEF CnTypes
<1> QED
  BY <1>0, <1>1, <1>3, <1>4, <1>5, <1>6, CoordinatorKeeps DEF CnTypes

\* The steps of the coordinator, one by one.
LEMMA StartWaveKeeps ==
    ASSUME CnInv, StartWave
    PROVE  CnInv'
<1>0. CnTypes /\ PendingIsTrue /\ RefreshedIsDirty /\ ReadIsCurrent /\ CleanIsCurrent
      /\ RestingHasFailed
  BY DEF CnInv
<1>1. /\ UNCHANGED Emitter
      /\ UNCHANGED <<cnDirty, cnUrgent, cnFailed, cnVisible, cnShown, cnMixed>>
  BY DEF StartWave
<1>2. /\ NoticeOnItsWay' <=> NoticeOnItsWay
      /\ cnCommits' = cnCommits
  BY <1>1, WayStays
<1>3. PICK b \in BOOLEAN : b = (Due # {})
  BY Zenon
<1>4. PICK w \in Waves : w = NoWave
  BY NoWaveIsAWave
<1>5. w.col = 0
  BY <1>4 DEF NoWave
<1>6. PICK due \in SUBSET CnCols : due = Due
  BY DEF Due
<1>7. cnRun' = [w EXCEPT !.on = b, !.left = due]
  BY <1>3, <1>4, <1>6 DEF StartWave
<1>8. cnRun' \in Waves /\ cnRun'.col = 0 /\ cnRun'.on = b
  BY <1>5, <1>7 DEF Waves
<1>9. RefreshedIsDirty' /\ ReadIsCurrent'
  BY <1>8 DEF RefreshedIsDirty, ReadIsCurrent
<1>10. CleanIsCurrent'
  BY <1>0, <1>1, <1>2 DEF CleanIsCurrent
<1>11. RestingHasFailed'
  <2> SUFFICES ASSUME ~b, NEW c \in cnVisible, cnDirty[c] # 0
               PROVE  cnFailed[c] = cnDirty[c]
    BY <1>1, <1>8 DEF RestingHasFailed
  <2>1. c \in CnCols /\ c \notin Due
    BY <1>0, <1>3 DEF CnTypes
  <2> QED
    BY <2>1 DEF Due
<1> QED
  BY <1>0, <1>1, <1>8, <1>9, <1>10, <1>11, CoordinatorKeeps DEF CnTypes

LEMMA NextColumnKeeps ==
    ASSUME CnInv, NEW c \in CnCols, NextColumn(c)
    PROVE  CnInv'
<1>0. CnTypes /\ PendingIsTrue /\ RefreshedIsDirty /\ ReadIsCurrent /\ CleanIsCurrent
      /\ RestingHasFailed
  BY DEF CnInv
<1>1. /\ UNCHANGED Emitter
      /\ UNCHANGED <<cnDirty, cnFailed, cnTimer, cnVisible, cnShown, cnMixed>>
      /\ cnRun.on /\ cnRun.col = 0
  BY DEF NextColumn
<1>2. /\ NoticeOnItsWay' <=> NoticeOnItsWay
      /\ cnCommits' = cnCommits
  BY <1>1, WayStays
<1>3. cnRun \in Waves /\ cnDirty[c] \in Nat /\ c \in 0..CnColumns /\ c # 0
  BY <1>0, CnAssumption DEF CnTypes, CnCols
<1>4. PICK left \in SUBSET CnCols : left = cnRun.left \ {c}
  BY <1>3 DEF Waves
<1>5. PICK v \in Nat : v = cnDirty[c]
  BY <1>3
<1>6. PICK none \in Int : none = -1
  OBVIOUS
<1>7. \/ v # 0 /\ cnRun' = [cnRun EXCEPT !.left = left, !.col = c, !.version = v, !.read = none]
      \/ cnRun' = [cnRun EXCEPT !.left = left]
  BY <1>4, <1>5, <1>6 DEF NextColumn
<1>8. /\ cnRun' \in Waves /\ cnRun'.on
      /\ \/ cnRun'.col = c /\ cnRun'.version = v /\ v # 0 /\ cnRun'.read = none
         \/ cnRun'.col = 0
  BY <1>1, <1>3, <1>7 DEF Waves
<1>9. RefreshedIsDirty' /\ ReadIsCurrent'
  BY <1>1, <1>5, <1>6, <1>8 DEF RefreshedIsDirty, ReadIsCurrent
<1>10. CleanIsCurrent' /\ RestingHasFailed'
  BY <1>0, <1>1, <1>2, <1>8 DEF CleanIsCurrent, RestingHasFailed
<1> QED
  BY <1>0, <1>1, <1>8, <1>9, <1>10, CoordinatorKeeps DEF CnTypes

LEMMA ReadsKeeps ==
    ASSUME CnInv, CnReads
    PROVE  CnInv'
<1>0. CnTypes /\ PendingIsTrue /\ RefreshedIsDirty /\ ReadIsCurrent /\ CleanIsCurrent
      /\ RestingHasFailed
  BY DEF CnInv
<1>1. /\ UNCHANGED Emitter
      /\ UNCHANGED <<cnDirty, cnFailed, cnTimer, cnVisible, cnShown, cnMixed>>
      /\ cnRun' = [cnRun EXCEPT !.read = cnCommits]
  BY DEF CnReads
<1>2. /\ NoticeOnItsWay' <=> NoticeOnItsWay
      /\ cnCommits' = cnCommits
  BY <1>1, WayStays
<1>3. cnRun \in Waves /\ cnCommits \in Int
  BY <1>0 DEF CnTypes
<1>4. /\ cnRun' \in Waves /\ cnRun'.on = cnRun.on /\ cnRun'.col = cnRun.col
      /\ cnRun'.version = cnRun.version /\ cnRun'.read = cnCommits
  BY <1>1, <1>3 DEF Waves
<1>5. RefreshedIsDirty' /\ ReadIsCurrent'
  BY <1>0, <1>1, <1>2, <1>4 DEF RefreshedIsDirty, ReadIsCurrent
<1>6. CleanIsCurrent' /\ RestingHasFailed'
  BY <1>0, <1>1, <1>2, <1>4 DEF CleanIsCurrent, RestingHasFailed
<1> QED
  BY <1>0, <1>1, <1>4, <1>5, <1>6, CoordinatorKeeps DEF CnTypes

\* The column under way is over.
LEMMA AfterColumnIs ==
    ASSUME CnTypes, AfterColumn
    PROVE  cnRun' \in Waves /\ cnRun'.col = 0 /\ cnRun'.on = cnRun.on
<1>1. cnRun \in Waves /\ 0 \in 0..CnColumns
  BY CnAssumption DEF CnTypes
<1>2. PICK z \in 0..CnColumns : z = 0
  BY <1>1
<1>3. PICK n \in Nat : n = 0
  OBVIOUS
<1>5. PICK i \in Int : i = 0
  OBVIOUS
<1>4. cnRun' = [cnRun EXCEPT !.col = z, !.version = n, !.read = i]
  BY <1>2, <1>3, <1>5 DEF AfterColumn
<1>6. cnRun' \in Waves
  BY <1>1, <1>2, <1>3, <1>4, <1>5 DEF Waves
<1> QED
  BY <1>1, <1>2, <1>4, <1>6 DEF Waves

LEMMA RefreshEndsKeeps ==
    ASSUME CnInv, RefreshEnds
    PROVE  CnInv'
<1>0. CnTypes /\ PendingIsTrue /\ RefreshedIsDirty /\ ReadIsCurrent /\ CleanIsCurrent
      /\ RestingHasFailed
  BY DEF CnInv
<1>1. /\ UNCHANGED Emitter
      /\ UNCHANGED <<cnTimer, cnVisible, cnMixed>>
      /\ cnRun.col # 0 /\ cnRun.read >= 0
  BY DEF RefreshEnds
<1>2. /\ NoticeOnItsWay' <=> NoticeOnItsWay
      /\ cnCommits' = cnCommits
  BY <1>1, WayStays
<1>3. cnRun' \in Waves /\ cnRun'.col = 0 /\ cnRun'.on
  BY <1>0, <1>1, AfterColumnIs DEF RefreshEnds, RefreshedIsDirty
<1>4. PICK c \in CnCols : c = cnRun.col
  BY <1>0, <1>1, CnAssumption DEF CnTypes, Waves, CnCols
<1>5. PICK r \in Int : r = cnRun.read
  BY <1>0 DEF CnTypes, Waves
<1>6. cnShown' = [cnShown EXCEPT ![c] = r]
  BY <1>4, <1>5 DEF RefreshEnds
<1>7. cnDirty' = IF cnDirty[c] = cnRun.version THEN [cnDirty EXCEPT ![c] = 0] ELSE cnDirty
  BY <1>4 DEF RefreshEnds, Cleaned
<1>8. cnFailed' = IF cnDirty[c] = cnRun.version THEN [cnFailed EXCEPT ![c] = 0] ELSE cnFailed
  BY <1>4 DEF RefreshEnds
<1>9. /\ cnShown' \in [CnCols -> Int] /\ cnDirty' \in [CnCols -> Nat]
      /\ cnFailed' \in [CnCols -> Nat]
  BY <1>0, <1>6, <1>7, <1>8 DEF CnTypes
<1>10. RefreshedIsDirty' /\ ReadIsCurrent' /\ RestingHasFailed'
  BY <1>3 DEF RefreshedIsDirty, ReadIsCurrent, RestingHasFailed
<1>11. CleanIsCurrent'
  <2> SUFFICES ASSUME ~NoticeOnItsWay, ~cnMixed, NEW d \in CnCols, cnDirty'[d] = 0
               PROVE  cnShown'[d] = cnCommits
    BY <1>1, <1>2 DEF CleanIsCurrent
  <2>1. CASE d # c
    BY <1>0, <1>6, <1>7, <2>1 DEF CleanIsCurrent, CnTypes
  <2>2. CASE d = c
    <3>1. cnDirty[c] # 0 /\ (cnDirty[c] \in Nat)
      BY <1>0, <1>1, <1>4 DEF RefreshedIsDirty, CnTypes, Waves
    <3>2. cnDirty[c] = cnRun.version
      BY <1>7, <2>2, <3>1
    <3>3. r = cnCommits
      BY <1>0, <1>1, <1>4, <1>5, <3>2 DEF ReadIsCurrent
    <3> QED
      BY <1>0, <1>6, <2>2, <3>3 DEF CnTypes
  <2> QED
    BY <2>1, <2>2
<1> QED
  BY <1>0, <1>1, <1>3, <1>9, <1>10, <1>11, CoordinatorKeeps DEF CnTypes

LEMMA RefreshFailsKeeps ==
    ASSUME CnInv, RefreshFails
    PROVE  CnInv'
<1>0. CnTypes /\ PendingIsTrue /\ RefreshedIsDirty /\ ReadIsCurrent /\ CleanIsCurrent
      /\ RestingHasFailed
  BY DEF CnInv
<1>1. /\ UNCHANGED Emitter
      /\ UNCHANGED <<cnDirty, cnTimer, cnVisible, cnShown, cnMixed>>
      /\ cnRun.col # 0
  BY DEF RefreshFails
<1>2. /\ NoticeOnItsWay' <=> NoticeOnItsWay
      /\ cnCommits' = cnCommits
  BY <1>1, WayStays
<1>3. cnRun' \in Waves /\ cnRun'.col = 0 /\ cnRun'.on
  BY <1>0, <1>1, AfterColumnIs DEF RefreshFails, RefreshedIsDirty
<1>4. PICK v \in Nat : v = cnRun.version
  BY <1>0 DEF CnTypes, Waves
<1>5. cnFailed' = [cnFailed EXCEPT ![cnRun.col] = v] \/ cnFailed' = cnFailed
  BY <1>4 DEF RefreshFails
<1>6. cnFailed' \in [CnCols -> Nat]
  BY <1>0, <1>5 DEF CnTypes
<1>7. RefreshedIsDirty' /\ ReadIsCurrent' /\ RestingHasFailed'
  BY <1>3 DEF RefreshedIsDirty, ReadIsCurrent, RestingHasFailed
<1>8. CleanIsCurrent'
  BY <1>0, <1>1, <1>2 DEF CleanIsCurrent
<1> QED
  BY <1>0, <1>1, <1>3, <1>6, <1>7, <1>8, CoordinatorKeeps DEF CnTypes

LEMMA WaveEndsKeeps ==
    ASSUME CnInv, WaveEnds
    PROVE  CnInv'
<1>0. CnTypes /\ PendingIsTrue /\ RefreshedIsDirty /\ ReadIsCurrent /\ CleanIsCurrent
      /\ RestingHasFailed
  BY DEF CnInv
<1>1. /\ UNCHANGED Emitter
      /\ UNCHANGED <<cnDirty, cnUrgent, cnFailed, cnVisible, cnShown, cnMixed>>
      /\ cnRun' = NoWave /\ cnTimer' = LooksAgain
  BY DEF WaveEnds
<1>2. /\ NoticeOnItsWay' <=> NoticeOnItsWay
      /\ cnCommits' = cnCommits
  BY <1>1, WayStays
<1>3. cnRun' \in Waves /\ cnRun'.col = 0
  BY <1>1, NoWaveIsAWave DEF NoWave
<1>4. RefreshedIsDirty' /\ ReadIsCurrent'
  BY <1>3 DEF RefreshedIsDirty, ReadIsCurrent
<1>5. CleanIsCurrent'
  BY <1>0, <1>1, <1>2 DEF CleanIsCurrent
<1>6. RestingHasFailed'
  BY <1>1 DEF RestingHasFailed, LooksAgain
<1> QED
  BY <1>0, <1>1, <1>3, <1>4, <1>5, <1>6, CoordinatorKeeps DEF CnTypes

LEMMA ResetKeeps ==
    ASSUME CnInv, ResetWaves
    PROVE  CnInv'
<1>0. CnTypes /\ PendingIsTrue /\ RefreshedIsDirty /\ ReadIsCurrent /\ CleanIsCurrent
      /\ RestingHasFailed
  BY DEF CnInv
<1>1. /\ UNCHANGED Emitter /\ UNCHANGED <<cnRun, cnVisible>>
      /\ cnDirty' = [c \in CnCols |-> 0] /\ cnFailed' = [c \in CnCols |-> 0]
      /\ cnShown' = [c \in CnCols |-> cnCommits]
  BY DEF ResetWaves
<1>2. cnCommits' = cnCommits
  BY <1>1, WayStays
<1>3. cnRun.on => cnMixed'
  BY DEF ResetWaves
<1>4. /\ cnShown' \in [CnCols -> Int] /\ cnDirty' \in [CnCols -> Nat]
      /\ cnFailed' \in [CnCols -> Nat]
  BY <1>0, <1>1 DEF CnTypes
<1>5. RefreshedIsDirty' /\ ReadIsCurrent'
  BY <1>0, <1>1, <1>3 DEF RefreshedIsDirty, ReadIsCurrent
<1>6. CleanIsCurrent'
  BY <1>1, <1>2 DEF CleanIsCurrent
<1>7. RestingHasFailed'
  BY <1>0, <1>1 DEF RestingHasFailed, CnTypes
<1> QED
  BY <1>0, <1>1, <1>4, <1>5, <1>6, <1>7, CoordinatorKeeps DEF CnTypes

\* The invariant holds from the start, and says what is wanted.
LEMMA NoticesStart ==
    ASSUME CacheNoticesInit
    PROVE  CnInv
<1>1. cnRun \in Waves /\ cnRun.col = 0
  BY NoWaveIsAWave DEF CacheNoticesInit, NoWave
<1>2. cnDirty \in [CnCols -> Nat] /\ cnFailed \in [CnCols -> Nat] /\ cnShown \in [CnCols -> Int]
  BY DEF CacheNoticesInit
<1>3. cnCommits \in Nat /\ cnSenders \in Nat /\ cnQueue \in Seq({"notice", "other"})
  BY DEF CacheNoticesInit
<1>4. cnVisible \in SUBSET CnCols
  BY CnAssumption DEF CacheNoticesInit, CnCols
<1>5. CnTypes
  BY <1>1, <1>2, <1>3, <1>4 DEF CnTypes
<1>6. PendingIsTrue
  BY DEF CacheNoticesInit, PendingIsTrue
<1>7. CleanIsCurrent /\ RestingHasFailed
  BY <1>4 DEF CacheNoticesInit, CleanIsCurrent, RestingHasFailed
<1> QED
  BY <1>1, <1>5, <1>6, <1>7 DEF CnInv, RefreshedIsDirty, ReadIsCurrent

LEMMA CnInvIsEnough ==
    ASSUME CnInv
    PROVE  VisibleColumnsCatchUp /\ HiddenColumnsStayDirty
<1>1. CleanIsCurrent /\ RestingHasFailed /\ cnVisible \in SUBSET CnCols
  BY DEF CnInv, CnTypes
<1>2. HiddenColumnsStayDirty
  BY <1>1 DEF CleanIsCurrent, HiddenColumnsStayDirty
<1>3. VisibleColumnsCatchUp
  BY <1>1 DEF CleanIsCurrent, RestingHasFailed, VisibleColumnsCatchUp
<1> QED
  BY <1>2, <1>3

(* However notices are coalesced, delayed by a full queue and crossed by waves, *)
(* activations and failures: once none is on its way a column shows every       *)
(* commit, is dirty, or its refresh failed (desktop.rs, QueuedEmitter, and      *)
(* analyticalTimelineRefresh.ts).                                               *)
THEOREM NoCommitIsOverlooked ==
    CacheNoticesSpec => [](VisibleColumnsCatchUp /\ HiddenColumnsStayDirty)
<1>1. CacheNoticesInit => CnInv
  BY NoticesStart
<1>2. CnInv /\ [CacheNoticesNext]_cnVars => CnInv'
  <2> SUFFICES ASSUME CnInv, [CacheNoticesNext]_cnVars PROVE CnInv'
    OBVIOUS
  <2>1. CASE CacheNoticesNext
    BY <2>1, EmitterSteps, DeliverKeeps, ShownSteps, StartWaveKeeps, NextColumnKeeps, ReadsKeeps,
       RefreshEndsKeeps, RefreshFailsKeeps, WaveEndsKeeps, ResetKeeps DEF CacheNoticesNext
  <2>2. CASE UNCHANGED cnVars
    <3>1. UNCHANGED Coordinator /\ UNCHANGED Emitter
      BY <2>2 DEF cnVars, Coordinator, Emitter
    <3>2. PendingIsTrue' /\ cnCommits' \in Nat /\ cnSenders' \in Nat
          /\ cnQueue' \in Seq({"notice", "other"})
      BY <2>2 DEF cnVars, CnInv, PendingIsTrue, CnTypes
    <3> QED
      BY <3>1, <3>2, WayStays, EmitterKeeps
  <2> QED
    BY <2>1, <2>2
<1>3. CnInv => VisibleColumnsCatchUp /\ HiddenColumnsStayDirty
  BY CnInvIsEnough
<1> QED
  BY <1>1, <1>2, <1>3, PTL DEF CacheNoticesSpec

-----------------------------------------------------------------------------
(***************************************************************************)
(* Marking a post with one of several accounts.                            *)
(***************************************************************************)

OpenPages == {"asking", "read", "confirming", "sent"}
Runs == {"asked", "resolving", "calling", "acted", "saved"}
Clicks == [acct : SaAccts, want : BOOLEAN, scope : Nat,
           page : {"unused", "gone"} \union OpenPages, read : BOOLEAN,
           cmd : {"none", "ok", "error", "cancelled"} \union Runs]
Muts == [op : 0..SaOps, phase : {"none", "pending", "confirmed", "failed", "uncertain"},
         before : BOOLEAN]
Switches == [step : {"none", "asked", "asking", "read", "failed"}, to : SaAccts \union {"none"},
             start : 0..SaOps, read : BOOLEAN, undone : BOOLEAN]

ActionsTyped ==
    /\ saServer \in [SaAccts -> BOOLEAN] /\ saCache \in [SaAccts -> BOOLEAN]
    /\ saEntry \in [SaAccts -> BOOLEAN]
    /\ saActing \in SaAccts /\ saShown \in BOOLEAN /\ saMut \in Muts
    /\ saOps \in [OpIds -> Clicks]
    /\ saScope \in Nat /\ saSwitch \in Switches
    /\ saCancelled \subseteq OpIds /\ saLoose \subseteq SaAccts /\ saBlind \in BOOLEAN

\* A click and its command: unless its account is set aside, a command that runs is that of
\* the post's mutation, and a cancelled one was never sent.
ClickInv(op) ==
    /\ saOps[op].page \in {"unused", "asking", "read", "confirming"} => saOps[op].cmd = "none"
    /\ saOps[op].page = "sent" => saOps[op].cmd # "none"
    /\ saOps[op].page # "unused" => saOps[op].scope <= saScope
    /\ OfOp(op) \notin saLoose =>
         /\ saOps[op].page = "gone" => saOps[op].cmd \notin Runs
         /\ saOps[op].page = "sent" => saMut.op = op /\ saOps[op].cmd # "cancelled"
    /\ op \in saCancelled =>
         /\ saOps[op].page # "unused"
         /\ OfOp(op) \in saLoose \/ (saOps[op].cmd = "none" /\ saOps[op].scope < saScope)

\* The mutation of the post: a pending one is current and of the acting account.
MutInv ==
    /\ saMut.op = NoOp => saMut.phase # "pending"
    /\ saMut.op # NoOp =>
         IF saMut.phase = "pending"
         THEN /\ saOps[saMut.op].page \in OpenPages /\ saOps[saMut.op].scope = saScope
              /\ OfOp(saMut.op) = saActing
         ELSE saOps[saMut.op].page = "gone"
    /\ saSwitch.step = "asked" => saMut.phase # "pending"

\* Server, cache and list of an account that is not set aside differ only while a command is
\* between them.
StoredInv ==
    \A a \in SaAccts \ saLoose :
      /\ (\A op \in OpIds : OfOp(op) = a => saOps[op].cmd \notin {"acted", "saved"})
           => saServer[a] = saCache[a] /\ saEntry[a] = saCache[a]
      /\ \A op \in OpIds : OfOp(op) = a /\ saOps[op].cmd \in {"acted", "saved"} =>
           /\ saServer[a] = saOps[op].want
           /\ saOps[op].cmd = "saved" => saCache[a] = saOps[op].want

\* What the page shows, or will take back, or has read.
ShownInv ==
    saActing \notin saLoose =>
      LET flag == saCache[saActing]
          click == saOps[saMut.op]
      IN  /\ ~saBlind /\ saMut.phase # "pending" => saShown = flag
          /\ ~saBlind /\ saMut.phase = "pending" =>
               CASE click.page \in {"asking", "read", "confirming"} ->
                      saShown = flag /\ saMut.before = flag
                 [] click.page = "sent" /\ click.cmd \in {"saved", "ok"} -> click.want = flag
                 [] OTHER -> saMut.before = flag
          /\ saMut.phase = "pending" /\ click.page = "read" => click.read = flag

\* The change of account: what was read for the new one is true until a click comes.
SwitchInv ==
    /\ saSwitch.step # "none" => saSwitch.to \in SaAccts
    /\ saSwitch.step \in {"asking", "read", "failed"} =>
         /\ saActing = saSwitch.to
         /\ saSwitch.start # NoOp => saOps[saSwitch.start].page = "gone"
    /\ saSwitch.step = "read" /\ saMut.op = saSwitch.start /\ ~saSwitch.undone
       /\ saActing \notin saLoose => saSwitch.read = saCache[saActing]

ActionsInv ==
    /\ ActionsTyped /\ MutInv /\ StoredInv /\ ShownInv /\ SwitchInv
    /\ \A op \in OpIds : ClickInv(op)

LEMMA NoOpIsNoId == NoOp \notin OpIds /\ SaOps \in Nat /\ \A op \in OpIds : op \in 0..SaOps
<1>1. SaOps \in Nat
  BY SaAssumption
<1> QED
  BY <1>1 DEF NoOp, OpIds

(***************************************************************************)
(* Steps of a click and of the mutation.                                   *)
(***************************************************************************)

OpMoves(op, page, read, cmd) ==
    /\ saOps' \in [OpIds -> Clicks]
    /\ saOps'[op].acct = saOps[op].acct /\ saOps'[op].want = saOps[op].want
    /\ saOps'[op].scope = saOps[op].scope
    /\ saOps'[op].page = page /\ saOps'[op].read = read /\ saOps'[op].cmd = cmd
    /\ \A o \in OpIds \ {op} : saOps'[o] = saOps[o]

LEMMA PageMoves ==
    ASSUME saOps \in [OpIds -> Clicks], NEW op \in OpIds,
           NEW page \in {"unused", "gone"} \union OpenPages, saOps' = SaSet(op, "page", page)
    PROVE  OpMoves(op, page, saOps[op].read, saOps[op].cmd)
<1>1. saOps' = [saOps EXCEPT ![op] = [saOps[op] EXCEPT !.page = page]]
  BY DEF SaSet
<1> QED
  BY <1>1 DEF OpMoves, Clicks

LEMMA CmdMoves ==
    ASSUME saOps \in [OpIds -> Clicks], NEW op \in OpIds,
           NEW cmd \in {"none", "ok", "error", "cancelled"} \union Runs,
           saOps' = SaSet(op, "cmd", cmd)
    PROVE  OpMoves(op, saOps[op].page, saOps[op].read, cmd)
<1>1. saOps' = [saOps EXCEPT ![op] = [saOps[op] EXCEPT !.cmd = cmd]]
  BY DEF SaSet
<1> QED
  BY <1>1 DEF OpMoves, Clicks

\* An open click that the mutation is of.
LEMMA OpenIsCurrent ==
    ASSUME ActionsInv, NEW op \in OpIds, saOps[op].page \in OpenPages, saMut.op = op
    PROVE  /\ saMut.phase = "pending" /\ saOps[op].scope = saScope /\ OfOp(op) = saActing
           /\ IsCurrent(op) /\ saSwitch.step # "asked"
<1>1. saMut.op # NoOp
  BY NoOpIsNoId
<1>2. saOps[op].page # "gone"
  BY DEF OpenPages
<1> QED
  BY <1>1, <1>2 DEF ActionsInv, MutInv, IsCurrent

\* A click that was sent, of an account that is not set aside.
LEMMA SentIsCurrent ==
    ASSUME ActionsInv, NEW op \in OpIds, saOps[op].page = "sent", OfOp(op) \notin saLoose
    PROVE  /\ saMut.op = op /\ saMut.phase = "pending" /\ saOps[op].scope = saScope
           /\ OfOp(op) = saActing /\ saSwitch.step # "asked"
<1>1. ClickInv(op) /\ saOps[op].page \in OpenPages
  BY DEF ActionsInv, OpenPages
<1>2. saMut.op = op
  BY <1>1 DEF ClickInv
<1> QED
  BY <1>1, <1>2, OpenIsCurrent

\* A command that runs, of an account that is not set aside.
LEMMA RunningIsCurrent ==
    ASSUME ActionsInv, NEW op \in OpIds, saOps[op].cmd \in Runs, OfOp(op) \notin saLoose
    PROVE  /\ saOps[op].page = "sent" /\ saMut.op = op /\ saMut.phase = "pending"
           /\ OfOp(op) = saActing /\ op \notin saCancelled
<1>1. ClickInv(op) /\ saOps[op] \in Clicks
  BY DEF ActionsInv, ActionsTyped
<1>2. "none" \notin Runs
  BY DEF Runs
<1>3. saOps[op].page \in {"unused", "gone", "asking", "read", "confirming", "sent"}
  BY <1>1 DEF Clicks, OpenPages
<1>4. saOps[op].page = "sent" /\ op \notin saCancelled
  BY <1>1, <1>2, <1>3 DEF ClickInv
<1> QED
  BY <1>4, SentIsCurrent

\* How an open click ends.
LEMMA EndIs ==
    ASSUME ActionsInv, NEW op \in OpIds, saOps[op].page \in OpenPages,
           NEW phase \in {"none", "confirmed", "failed", "uncertain"}, Ends(op, phase)
    PROVE  /\ saMut' \in Muts
           /\ saMut.op # op => saMut' = saMut
           /\ saMut.op = op /\ phase = "none" => saMut' = NoMut
           /\ saMut.op = op /\ phase # "none" =>
                saMut'.op = op /\ saMut'.phase = phase /\ saMut'.before = saMut.before
<1>1. saMut \in Muts
  BY DEF ActionsInv, ActionsTyped
<1>2. NoMut \in Muts
  BY NoOpIsNoId DEF NoMut, Muts, NoOp
<1>3. CASE saMut.op # op
  BY <1>1, <1>3 DEF Ends
<1>4. CASE saMut.op = op
  <2>1. IsCurrent(op)
    BY <1>4, OpenIsCurrent
  <2>2. saMut' = IF phase # "none" THEN [saMut EXCEPT !.phase = phase] ELSE NoMut
    BY <1>4, <2>1 DEF Ends
  <2> QED
    BY <1>1, <1>2, <1>4, <2>2 DEF Muts
<1> QED
  BY <1>3, <1>4

LEMMA NoMutIs == NoMut \in Muts /\ NoMut.op = NoOp /\ NoMut.phase = "none"
  BY NoOpIsNoId DEF NoMut, Muts, NoOp

(***************************************************************************)
(* What the steps of one click leave to the others.                        *)
(***************************************************************************)

\* The other clicks, when the mutation is theirs as before.
LEMMA OtherClicks ==
    ASSUME ActionsInv, NEW op \in OpIds, \A o \in OpIds \ {op} : saOps'[o] = saOps[o],
           saMut.op # op => saMut'.op = saMut.op, saScope' = saScope,
           saCancelled' \subseteq saCancelled, saLoose \subseteq saLoose', ClickInv(op)'
    PROVE  \A o \in OpIds : ClickInv(o)'
<1> SUFFICES ASSUME NEW o \in OpIds, o # op PROVE ClickInv(o)'
  OBVIOUS
<1>1. ClickInv(o) /\ saOps'[o] = saOps[o]
  BY DEF ActionsInv
<1>2. saMut.op = o => saMut'.op = o
  OBVIOUS
<1> QED
  BY <1>1, <1>2 DEF ClickInv, OfOp

\* Server, cache and list, when a click neither begins nor ends to write.
LEMMA StoredStays ==
    ASSUME ActionsInv, NEW op \in OpIds, \A o \in OpIds \ {op} : saOps'[o] = saOps[o],
           UNCHANGED saBackend, saLoose \subseteq saLoose',
           saOps'[op].cmd \in {"acted", "saved"} <=> saOps[op].cmd \in {"acted", "saved"},
           saOps'[op].cmd \in {"acted", "saved"} =>
              /\ saOps'[op].cmd = saOps[op].cmd /\ saOps'[op].want = saOps[op].want
              /\ saOps'[op].acct = saOps[op].acct
    PROVE  StoredInv'
<1>1. /\ saServer' = saServer /\ saCache' = saCache /\ saEntry' = saEntry
      /\ \A a \in SaAccts \ saLoose' : a \in SaAccts \ saLoose
  BY DEF saBackend
<1>2. \A o \in OpIds : saOps'[o].cmd \in {"acted", "saved"} <=> saOps[o].cmd \in {"acted", "saved"}
  OBVIOUS
<1>3. \A o \in OpIds : saOps'[o].cmd \in {"acted", "saved"} =>
         /\ saOps'[o].cmd = saOps[o].cmd /\ saOps'[o].want = saOps[o].want
         /\ saOps'[o].acct = saOps[o].acct
  OBVIOUS
<1>4. StoredInv
  BY DEF ActionsInv
<1> QED
  BY <1>1, <1>2, <1>3, <1>4 DEF StoredInv, OfOp

(***************************************************************************)
(* Steps of a command: the page and what it shows stay as they are.        *)
(***************************************************************************)

\* No second command of the account runs beside one that is not set aside.
LEMMA RunningIsAlone ==
    ASSUME ActionsInv, NEW op \in OpIds, saOps[op].cmd \in Runs, OfOp(op) \notin saLoose,
           NEW o \in OpIds, o # op, OfOp(o) = OfOp(op)
    PROVE  saOps[o].cmd \notin Runs
<1> SUFFICES ASSUME saOps[o].cmd \in Runs PROVE FALSE
  OBVIOUS
<1>1. saMut.op = op
  BY RunningIsCurrent
<1>2. saMut.op = o
  BY RunningIsCurrent
<1> QED
  BY <1>1, <1>2

\* The rest of the page.
PageStays ==
    /\ saMut' = saMut /\ saShown' = saShown /\ saActing' = saActing
    /\ saScope' = saScope /\ saSwitch' = saSwitch /\ saBlind' = saBlind
    /\ saCancelled' \subseteq saCancelled

\* What is set aside, and the account of the click.
CommandMoves(op, cmd) ==
    /\ saOps[op].cmd \in Runs /\ OpMoves(op, saOps[op].page, saOps[op].read, cmd)
    /\ cmd # "none" /\ PageStays
    /\ saLoose \subseteq saLoose' /\ saLoose' \subseteq SaAccts
    /\ saServer' \in [SaAccts -> BOOLEAN] /\ saCache' \in [SaAccts -> BOOLEAN]
    /\ saEntry' \in [SaAccts -> BOOLEAN]
    /\ \A a \in SaAccts \ {OfOp(op)} :
         saServer'[a] = saServer[a] /\ saCache'[a] = saCache[a] /\ saEntry'[a] = saEntry[a]

\* What an account that is not set aside has after the step.
CommandWrites(op, cmd) ==
    LET a == OfOp(op) IN
    /\ cmd # "cancelled"
    /\ IF cmd \in {"acted", "saved"} THEN saServer'[a] = saOps[op].want
       ELSE saServer'[a] = saCache'[a] /\ saEntry'[a] = saCache'[a]
    /\ IF cmd \in {"saved", "ok"} THEN saCache'[a] = saOps[op].want
       ELSE saCache'[a] = saCache[a] /\ saOps[op].cmd # "saved"

LEMMA CommandStoredKeeps ==
    ASSUME ActionsInv, NEW op \in OpIds, NEW cmd, CommandMoves(op, cmd),
           OfOp(op) \notin saLoose' => CommandWrites(op, cmd)
    PROVE  StoredInv'
<1>1. saOps'[op].acct = OfOp(op) /\ saOps'[op].want = saOps[op].want /\ saOps'[op].cmd = cmd
  BY DEF CommandMoves, OpMoves, OfOp
<1>2. \A o \in OpIds \ {op} : saOps'[o] = saOps[o]
  BY DEF CommandMoves, OpMoves
<1>3. saLoose \subseteq saLoose'
  BY DEF CommandMoves
<1> SUFFICES ASSUME NEW a \in SaAccts, a \notin saLoose'
             PROVE  /\ (\A o \in OpIds : saOps'[o].acct = a => saOps'[o].cmd \notin {"acted", "saved"})
                         => saServer'[a] = saCache'[a] /\ saEntry'[a] = saCache'[a]
                    /\ \A o \in OpIds : saOps'[o].acct = a /\ saOps'[o].cmd \in {"acted", "saved"} =>
                         /\ saServer'[a] = saOps'[o].want
                         /\ saOps'[o].cmd = "saved" => saCache'[a] = saOps'[o].want
  BY DEF StoredInv, OfOp
<1>4. a \notin saLoose
  BY <1>3
<1>5. CASE a = OfOp(op)
  <2>1. CommandWrites(op, cmd) /\ saOps[op].cmd \in Runs
    BY <1>5 DEF CommandMoves
  <2>2. \A o \in OpIds \ {op} : saOps'[o].acct = a => saOps'[o].cmd \notin {"acted", "saved"}
    <3> SUFFICES ASSUME NEW o \in OpIds, o # op, saOps[o].acct = a
                 PROVE  saOps[o].cmd \notin {"acted", "saved"}
      BY <1>2
    <3>1. saOps[o].cmd \notin Runs
      BY <1>4, <1>5, <2>1, RunningIsAlone DEF OfOp
    <3> QED
      BY <3>1 DEF Runs
  <2>3. CASE cmd \in {"acted", "saved"}
    BY <1>1, <1>5, <2>1, <2>2, <2>3 DEF CommandWrites
  <2>4. CASE cmd \notin {"acted", "saved"}
    BY <1>1, <1>5, <2>1, <2>2, <2>4 DEF CommandWrites
  <2> QED
    BY <2>3, <2>4
<1>6. CASE a # OfOp(op)
  <2>1. saServer'[a] = saServer[a] /\ saCache'[a] = saCache[a] /\ saEntry'[a] = saEntry[a]
    BY <1>6 DEF CommandMoves
  <2>2. \A o \in OpIds : saOps'[o].acct = a => o # op /\ saOps'[o] = saOps[o]
    BY <1>1, <1>2, <1>6
  <2>3. \A o \in OpIds : saOps[o].acct = a => o # op /\ saOps'[o] = saOps[o]
    BY <1>2, <1>6 DEF OfOp
  <2>4. StoredInv
    BY DEF ActionsInv
  <2>5. /\ (\A o \in OpIds : saOps[o].acct = a => saOps[o].cmd \notin {"acted", "saved"})
             => saServer[a] = saCache[a] /\ saEntry[a] = saCache[a]
        /\ \A o \in OpIds : saOps[o].acct = a /\ saOps[o].cmd \in {"acted", "saved"} =>
             /\ saServer[a] = saOps[o].want
             /\ saOps[o].cmd = "saved" => saCache[a] = saOps[o].want
    BY <1>4, <2>4 DEF StoredInv, OfOp
  <2> QED
    BY <2>1, <2>2, <2>3, <2>5
<1> QED
  BY <1>5, <1>6

LEMMA CommandPageKeeps ==
    ASSUME ActionsInv, NEW op \in OpIds, NEW cmd, CommandMoves(op, cmd),
           OfOp(op) \notin saLoose' => CommandWrites(op, cmd)
    PROVE  MutInv' /\ SwitchInv' /\ ShownInv'
<1>1. /\ saOps'[op].acct = OfOp(op) /\ saOps'[op].want = saOps[op].want
      /\ saOps'[op].cmd = cmd /\ saOps'[op].page = saOps[op].page
      /\ saOps'[op].read = saOps[op].read /\ saOps'[op].scope = saOps[op].scope
  BY DEF CommandMoves, OpMoves, OfOp
<1>2. \A o \in OpIds \ {op} : saOps'[o] = saOps[o]
  BY DEF CommandMoves, OpMoves
<1>3. /\ saMut' = saMut /\ saShown' = saShown /\ saActing' = saActing
      /\ saScope' = saScope /\ saSwitch' = saSwitch /\ saBlind' = saBlind
      /\ saLoose \subseteq saLoose'
  BY DEF CommandMoves, PageStays
<1>4. MutInv /\ SwitchInv /\ ShownInv /\ saActing \in SaAccts /\ saMut \in Muts /\ saSwitch \in Switches
  BY DEF ActionsInv, ActionsTyped
<1>5. \A o \in OpIds : /\ saOps'[o].acct = saOps[o].acct /\ saOps'[o].page = saOps[o].page
                       /\ saOps'[o].scope = saOps[o].scope
  BY <1>1, <1>2 DEF OfOp
<1>6. /\ saMut.op # NoOp => saMut.op \in OpIds
      /\ saSwitch.start # NoOp => saSwitch.start \in OpIds
  BY <1>4, NoOpIsNoId DEF Muts, Switches, OpIds, NoOp
<1>7. MutInv'
  BY <1>3, <1>4, <1>5, <1>6 DEF MutInv, OfOp
<1>8. CASE saActing \in saLoose'
  <2>1. SwitchInv'
    BY <1>3, <1>4, <1>5, <1>6, <1>8 DEF SwitchInv
  <2>2. ShownInv'
    BY <1>3, <1>8 DEF ShownInv
  <2> QED
    BY <1>7, <2>1, <2>2
<1>9. CASE saActing \notin saLoose' /\ OfOp(op) # saActing
  <2>1. saCache'[saActing] = saCache[saActing] /\ saActing \notin saLoose
    BY <1>3, <1>4, <1>9 DEF CommandMoves
  <2>2. saMut.phase = "pending" => saMut.op \in OpIds /\ saOps'[saMut.op] = saOps[saMut.op]
    BY <1>2, <1>4, <1>6, <1>9 DEF MutInv
  <2>3. SwitchInv'
    BY <1>3, <1>4, <1>5, <1>6, <2>1 DEF SwitchInv
  <2>4. ShownInv'
    BY <1>3, <1>4, <2>1, <2>2 DEF ShownInv
  <2> QED
    BY <1>7, <2>3, <2>4
<1>10. CASE saActing \notin saLoose' /\ OfOp(op) = saActing
  <2>1. OfOp(op) \notin saLoose /\ saActing \notin saLoose
    BY <1>3, <1>10
  <2>2. /\ saOps[op].page = "sent" /\ saMut.op = op /\ saMut.phase = "pending"
        /\ CommandWrites(op, cmd) /\ saOps[op].cmd \in Runs
    BY <1>10, <2>1, RunningIsCurrent DEF CommandMoves
  <2>3. saMut.op # saSwitch.start \/ saSwitch.step # "read"
    BY <1>4, <2>2, NoOpIsNoId DEF SwitchInv
  <2>4. SwitchInv'
    BY <1>3, <1>4, <1>5, <1>6, <2>3 DEF SwitchInv
  <2>5. CASE cmd \in {"saved", "ok"}
    <3>1. saCache'[saActing] = saOps[op].want
      BY <1>10, <2>2, <2>5 DEF CommandWrites
    <3> QED
      BY <1>1, <1>3, <2>2, <2>4, <2>5, <3>1, <1>7 DEF ShownInv
  <2>6. CASE cmd \notin {"saved", "ok"}
    <3>1. saCache'[saActing] = saCache[saActing] /\ saOps[op].cmd \notin {"saved", "ok"}
      BY <1>10, <2>2, <2>6 DEF CommandWrites, Runs
    <3>2. ~saBlind => saMut.before = saCache[saActing]
      BY <1>4, <2>1, <2>2, <3>1 DEF ShownInv
    <3>3. ShownInv'
      BY <1>1, <1>3, <2>2, <2>6, <3>1, <3>2 DEF ShownInv
    <3> QED
      BY <2>4, <3>3, <1>7
  <2> QED
    BY <2>5, <2>6
<1> QED
  BY <1>8, <1>9, <1>10

LEMMA CommandKeeps ==
    ASSUME ActionsInv, NEW op \in OpIds, NEW cmd, CommandMoves(op, cmd),
           OfOp(op) \notin saLoose' => CommandWrites(op, cmd)
    PROVE  ActionsInv'
<1>1. ActionsTyped'
  BY DEF ActionsInv, ActionsTyped, CommandMoves, OpMoves, PageStays
<1>2. ClickInv(op)'
  <2>1. /\ saOps'[op].acct = saOps[op].acct /\ saOps'[op].cmd = cmd
        /\ saOps'[op].page = saOps[op].page /\ saOps'[op].scope = saOps[op].scope
    BY DEF CommandMoves, OpMoves
  <2>2. /\ saMut' = saMut /\ saScope' = saScope /\ saCancelled' \subseteq saCancelled
        /\ saLoose \subseteq saLoose' /\ cmd # "none" /\ saOps[op].cmd \in Runs
    BY DEF CommandMoves, PageStays
  <2>3. ClickInv(op)
    BY DEF ActionsInv
  <2>4. "none" \notin Runs
    BY DEF Runs
  <2>5. OfOp(op) \notin saLoose' =>
          /\ cmd # "cancelled" /\ saOps[op].page = "sent" /\ saMut.op = op
          /\ op \notin saCancelled
    BY <2>2, RunningIsCurrent DEF CommandWrites
  <2> QED
    BY <2>1, <2>2, <2>3, <2>4, <2>5 DEF ClickInv, OfOp
<1>3. \A o \in OpIds : ClickInv(o)'
  BY <1>2, OtherClicks DEF CommandMoves, OpMoves, PageStays
<1> QED
  BY <1>1, <1>3, CommandStoredKeeps, CommandPageKeeps DEF ActionsInv

\* What is stored for an account whose one command has not yet had its answer.
LEMMA AloneIsStored ==
    ASSUME ActionsInv, NEW op \in OpIds, OfOp(op) \notin saLoose,
           saOps[op].cmd \in {"asked", "resolving", "calling"}
    PROVE  saServer[OfOp(op)] = saCache[OfOp(op)] /\ saEntry[OfOp(op)] = saCache[OfOp(op)]
<1>1. StoredInv /\ OfOp(op) \in SaAccts
  BY DEF ActionsInv, ActionsTyped, Clicks, OfOp
<1>2. \A o \in OpIds : OfOp(o) = OfOp(op) => saOps[o].cmd \notin {"acted", "saved"}
  <2> SUFFICES ASSUME NEW o \in OpIds, o # op, OfOp(o) = OfOp(op)
               PROVE  saOps[o].cmd \notin {"acted", "saved"}
    OBVIOUS
  <2>1. saOps[o].cmd \notin Runs
    BY RunningIsAlone DEF Runs
  <2> QED
    BY <2>1 DEF Runs
<1> QED
  BY <1>1, <1>2 DEF StoredInv

LEMMA RegisterCommandKeeps ==
    ASSUME ActionsInv, NEW op \in OpIds, RegisterCommand(op)
    PROVE  ActionsInv'
<1>1. ActionsTyped /\ StoredInv
  BY DEF ActionsInv
<1>2. saOps[op].cmd = "asked"
  BY DEF RegisterCommand
<1>3. PICK cmd \in {"none", "ok", "error", "cancelled"} \union Runs : cmd = "resolving"
  BY DEF Runs
<1>4. OpMoves(op, saOps[op].page, saOps[op].read, cmd)
  BY <1>1, <1>3, CmdMoves DEF RegisterCommand, ActionsTyped
<1>5. CommandMoves(op, cmd)
  BY <1>1, <1>2, <1>3, <1>4
     DEF CommandMoves, RegisterCommand, PageStays, saBackend, ActionsTyped, Runs
<1>6. OfOp(op) \notin saLoose' => CommandWrites(op, cmd)
  <2> SUFFICES ASSUME OfOp(op) \notin saLoose PROVE CommandWrites(op, cmd)
    BY DEF RegisterCommand
  <2>1. saServer[OfOp(op)] = saCache[OfOp(op)] /\ saEntry[OfOp(op)] = saCache[OfOp(op)]
    BY <1>2, AloneIsStored
  <2> QED
    BY <1>2, <1>3, <2>1 DEF CommandWrites, RegisterCommand, saBackend
<1> QED
  BY <1>5, <1>6, CommandKeeps

LEMMA ResolveTargetKeeps ==
    ASSUME ActionsInv, NEW op \in OpIds, NEW how \in {"calling", "error"}, ResolveTarget(op, how)
    PROVE  ActionsInv'
<1>1. ActionsTyped /\ StoredInv
  BY DEF ActionsInv
<1>2. saOps[op].cmd = "resolving"
  BY DEF ResolveTarget
<1>3. how \in {"none", "ok", "error", "cancelled"} \union Runs
  BY DEF Runs
<1>4. OpMoves(op, saOps[op].page, saOps[op].read, how)
  BY <1>1, <1>3, CmdMoves DEF ResolveTarget, ActionsTyped
<1>5. CommandMoves(op, how)
  BY <1>1, <1>2, <1>3, <1>4
     DEF CommandMoves, ResolveTarget, PageStays, saPage, saBackend, ActionsTyped, Runs
<1>6. OfOp(op) \notin saLoose' => CommandWrites(op, how)
  <2> SUFFICES ASSUME OfOp(op) \notin saLoose PROVE CommandWrites(op, how)
    BY DEF ResolveTarget
  <2>1. saServer[OfOp(op)] = saCache[OfOp(op)] /\ saEntry[OfOp(op)] = saCache[OfOp(op)]
    BY <1>2, AloneIsStored
  <2> QED
    BY <1>2, <2>1 DEF CommandWrites, ResolveTarget, saBackend
<1> QED
  BY <1>5, <1>6, CommandKeeps

LEMMA CallProviderKeeps ==
    ASSUME ActionsInv, NEW op \in OpIds, NEW acts \in BOOLEAN, NEW told \in BOOLEAN,
           CallProvider(op, acts, told)
    PROVE  ActionsInv'
<1>1. ActionsTyped /\ StoredInv
  BY DEF ActionsInv
<1>2. saOps[op].cmd = "calling"
  BY DEF CallProvider
<1>3. PICK cmd \in {"none", "ok", "error", "cancelled"} \union Runs :
        cmd = IF acts /\ told THEN "acted" ELSE "error"
  BY DEF Runs
<1>4. OpMoves(op, saOps[op].page, saOps[op].read, cmd)
  BY <1>1, <1>3, CmdMoves DEF CallProvider, ActionsTyped
<1>5. OfOp(op) \in SaAccts /\ saOps[op].want \in BOOLEAN
  BY <1>1 DEF ActionsTyped, Clicks, OfOp
<1>6. /\ saServer' = IF acts THEN [saServer EXCEPT ![OfOp(op)] = saOps[op].want] ELSE saServer
      /\ saCache' = saCache /\ saEntry' = saEntry
      /\ saLoose' = IF acts /\ ~told THEN saLoose \union {OfOp(op)} ELSE saLoose
      /\ PageStays
  BY DEF CallProvider, PageStays, saPage
<1>7. CommandMoves(op, cmd)
  BY <1>1, <1>2, <1>3, <1>4, <1>5, <1>6 DEF CommandMoves, ActionsTyped, Runs
<1>8. OfOp(op) \notin saLoose' => CommandWrites(op, cmd)
  <2> SUFFICES ASSUME OfOp(op) \notin saLoose' PROVE CommandWrites(op, cmd)
    OBVIOUS
  <2>1. OfOp(op) \notin saLoose /\ ~(acts /\ ~told)
    BY <1>6
  <2>2. saServer[OfOp(op)] = saCache[OfOp(op)] /\ saEntry[OfOp(op)] = saCache[OfOp(op)]
    BY <1>2, <2>1, AloneIsStored
  <2>3. CASE acts /\ told
    <3>1. cmd = "acted" /\ saServer'[OfOp(op)] = saOps[op].want
      BY <1>1, <1>3, <1>5, <1>6, <2>3 DEF ActionsTyped
    <3> QED
      BY <1>2, <1>6, <3>1 DEF CommandWrites
  <2>4. CASE ~acts
    <3>1. cmd = "error" /\ saServer' = saServer
      BY <1>3, <1>6, <2>4
    <3> QED
      BY <1>2, <1>6, <2>2, <3>1 DEF CommandWrites
  <2> QED
    BY <2>1, <2>3, <2>4
<1> QED
  BY <1>7, <1>8, CommandKeeps

LEMMA SaveViewerStateKeeps ==
    ASSUME ActionsInv, NEW op \in OpIds, NEW fails \in BOOLEAN, SaveViewerState(op, fails)
    PROVE  ActionsInv'
<1>1. ActionsTyped /\ StoredInv
  BY DEF ActionsInv
<1>2. saOps[op].cmd = "acted"
  BY DEF SaveViewerState
<1>3. PICK cmd \in {"none", "ok", "error", "cancelled"} \union Runs :
        cmd = IF fails THEN "error" ELSE "saved"
  BY DEF Runs
<1>4. OpMoves(op, saOps[op].page, saOps[op].read, cmd)
  BY <1>1, <1>3, CmdMoves DEF SaveViewerState, ActionsTyped
<1>5. OfOp(op) \in SaAccts /\ saOps[op].want \in BOOLEAN
  BY <1>1 DEF ActionsTyped, Clicks, OfOp
<1>6. /\ saCache' = IF fails THEN saCache ELSE [saCache EXCEPT ![OfOp(op)] = saOps[op].want]
      /\ saServer' = saServer /\ saEntry' = saEntry
      /\ saLoose' = IF fails THEN saLoose \union {OfOp(op)} ELSE saLoose
      /\ PageStays
  BY DEF SaveViewerState, PageStays, saPage
<1>7. CommandMoves(op, cmd)
  BY <1>1, <1>2, <1>3, <1>4, <1>5, <1>6 DEF CommandMoves, ActionsTyped, Runs
<1>8. OfOp(op) \notin saLoose' => CommandWrites(op, cmd)
  <2> SUFFICES ASSUME OfOp(op) \notin saLoose' PROVE CommandWrites(op, cmd)
    OBVIOUS
  <2>1. OfOp(op) \notin saLoose /\ ~fails
    BY <1>6
  <2>2. saServer[OfOp(op)] = saOps[op].want
    BY <1>1, <1>2, <1>5, <2>1 DEF StoredInv
  <2>3. cmd = "saved" /\ saCache'[OfOp(op)] = saOps[op].want
    BY <1>1, <1>3, <1>5, <1>6, <2>1 DEF ActionsTyped
  <2> QED
    BY <1>6, <2>2, <2>3 DEF CommandWrites
<1> QED
  BY <1>7, <1>8, CommandKeeps

LEMMA SaveEntryKeeps ==
    ASSUME ActionsInv, NEW op \in OpIds, NEW fails \in BOOLEAN, SaveEntry(op, fails)
    PROVE  ActionsInv'
<1>1. ActionsTyped /\ StoredInv
  BY DEF ActionsInv
<1>2. saOps[op].cmd = "saved"
  BY DEF SaveEntry
<1>3. PICK cmd \in {"none", "ok", "error", "cancelled"} \union Runs :
        cmd = IF fails THEN "error" ELSE "ok"
  BY DEF Runs
<1>4. OpMoves(op, saOps[op].page, saOps[op].read, cmd)
  BY <1>1, <1>3, CmdMoves DEF SaveEntry, ActionsTyped
<1>5. OfOp(op) \in SaAccts /\ saOps[op].want \in BOOLEAN
  BY <1>1 DEF ActionsTyped, Clicks, OfOp
<1>6. /\ saEntry' = IF fails THEN saEntry ELSE [saEntry EXCEPT ![OfOp(op)] = saOps[op].want]
      /\ saServer' = saServer /\ saCache' = saCache
      /\ saLoose' = IF fails THEN saLoose \union {OfOp(op)} ELSE saLoose
      /\ PageStays
  BY DEF SaveEntry, PageStays, saPage
<1>7. CommandMoves(op, cmd)
  BY <1>1, <1>2, <1>3, <1>4, <1>5, <1>6 DEF CommandMoves, ActionsTyped, Runs
<1>8. OfOp(op) \notin saLoose' => CommandWrites(op, cmd)
  <2> SUFFICES ASSUME OfOp(op) \notin saLoose' PROVE CommandWrites(op, cmd)
    OBVIOUS
  <2>1. OfOp(op) \notin saLoose /\ ~fails
    BY <1>6
  <2>2. saServer[OfOp(op)] = saOps[op].want /\ saCache[OfOp(op)] = saOps[op].want
    BY <1>1, <1>2, <1>5, <2>1 DEF StoredInv
  <2>3. cmd = "ok" /\ saEntry'[OfOp(op)] = saOps[op].want
    BY <1>1, <1>3, <1>5, <1>6, <2>1 DEF ActionsTyped
  <2> QED
    BY <1>6, <2>2, <2>3 DEF CommandWrites
<1> QED
  BY <1>7, <1>8, CommandKeeps

LEMMA CancelCommandKeeps ==
    ASSUME ActionsInv, NEW op \in OpIds, NEW acts \in BOOLEAN, CancelCommand(op, acts)
    PROVE  ActionsInv'
<1>1. ActionsTyped
  BY DEF ActionsInv
<1>2. op \in saCancelled /\ saOps[op].cmd \in Runs
  BY DEF CancelCommand, Runs
<1>3. PICK cmd \in {"none", "ok", "error", "cancelled"} \union Runs : cmd = "cancelled"
  OBVIOUS
<1>4. OpMoves(op, saOps[op].page, saOps[op].read, cmd)
  BY <1>1, <1>3, CmdMoves DEF CancelCommand, ActionsTyped
<1>5. OfOp(op) \in SaAccts /\ saOps[op].want \in BOOLEAN
  BY <1>1 DEF ActionsTyped, Clicks, OfOp
<1>6. /\ saServer' = IF acts THEN [saServer EXCEPT ![OfOp(op)] = saOps[op].want] ELSE saServer
      /\ saCache' = saCache /\ saEntry' = saEntry /\ saLoose' = saLoose /\ PageStays
  BY DEF CancelCommand, PageStays, saPage
<1>7. CommandMoves(op, cmd)
  BY <1>1, <1>2, <1>3, <1>4, <1>5, <1>6 DEF CommandMoves, ActionsTyped
<1>8. OfOp(op) \in saLoose'
  BY <1>2, <1>6, RunningIsCurrent
<1> QED
  BY <1>7, <1>8, CommandKeeps

(***************************************************************************)
(* Steps of a click on the page.                                           *)
(***************************************************************************)

\* What a step of the page leaves alone; the account may be set aside.
ClickMoves(op, page, read, cmd) ==
    /\ saOps[op].page \in OpenPages /\ OpMoves(op, page, read, cmd)
    /\ UNCHANGED saBackend /\ saActing' = saActing /\ saScope' = saScope
    /\ saCancelled' = saCancelled
    /\ saLoose \subseteq saLoose' /\ saLoose' \subseteq SaAccts

\* A click that is no longer that of the mutation ends, or reads, without effect.
LEMMA OutdatedClickKeeps ==
    ASSUME ActionsInv, NEW op \in OpIds, NEW page \in {"gone", "read"}, NEW read,
           ClickMoves(op, page, read, saOps[op].cmd), saMut.op # op,
           saOps[op].page \notin {"asking", "read", "confirming"} => page = "gone",
           saMut' = saMut, saShown' = saShown, saSwitch' = saSwitch, saBlind' = saBlind
    PROVE  ActionsInv'
<1>1. /\ saOps'[op].acct = saOps[op].acct /\ saOps'[op].scope = saOps[op].scope
      /\ saOps'[op].want = saOps[op].want /\ saOps'[op].cmd = saOps[op].cmd
      /\ saOps'[op].page = page
      /\ saOps' \in [OpIds -> Clicks]
  BY DEF ClickMoves, OpMoves
<1>2. \A o \in OpIds \ {op} : saOps'[o] = saOps[o]
  BY DEF ClickMoves, OpMoves
<1>3. /\ saBackend' = saBackend /\ saActing' = saActing /\ saScope' = saScope
      /\ saCancelled' = saCancelled /\ saLoose \subseteq saLoose' /\ saLoose' \subseteq SaAccts
      /\ saServer' = saServer /\ saCache' = saCache /\ saEntry' = saEntry
  BY DEF ClickMoves, saBackend
<1>4. /\ ActionsTyped /\ MutInv /\ SwitchInv /\ ShownInv /\ ClickInv(op)
      /\ saMut \in Muts /\ saSwitch \in Switches
  BY DEF ActionsInv, ActionsTyped
<1>5. /\ saMut.op # NoOp => saMut.op \in OpIds
      /\ saSwitch.start # NoOp => saSwitch.start \in OpIds
  BY <1>4, NoOpIsNoId DEF Muts, Switches, OpIds, NoOp
<1>6. saOps[op].page \notin {"gone", "unused"}
  BY DEF ClickMoves, OpenPages
<1>7. ActionsTyped'
  BY <1>1, <1>3, <1>4 DEF ActionsTyped
<1>8. MutInv'
  <2>1. saMut.op # NoOp => saOps'[saMut.op] = saOps[saMut.op]
    BY <1>2, <1>5
  <2> QED
    BY <1>3, <1>4, <2>1 DEF MutInv, OfOp
<1>9. ShownInv'
  <2>1. saMut.phase = "pending" => saOps'[saMut.op] = saOps[saMut.op]
    BY <1>2, <1>4, <1>5 DEF MutInv
  <2> QED
    BY <1>3, <1>4, <2>1 DEF ShownInv
<1>10. SwitchInv'
  <2>1. /\ saSwitch.step \in {"asking", "read", "failed"} /\ saSwitch.start # NoOp
             => saOps'[saSwitch.start].page = "gone"
    BY <1>2, <1>4, <1>5, <1>6 DEF SwitchInv
  <2> QED
    BY <1>3, <1>4, <2>1 DEF SwitchInv
<1>11. StoredInv'
  BY <1>1, <1>2, <1>3, StoredStays
<1>12. ClickInv(op)'
  <2>1. OfOp(op) \notin saLoose => saOps[op].page # "sent"
    BY <1>4 DEF ClickInv
  <2>2. saOps[op].page \in {"asking", "read", "confirming", "sent"}
    BY DEF ClickMoves, OpenPages
  <2>3. OfOp(op) \notin saLoose => saOps[op].cmd = "none"
    BY <1>4, <2>1, <2>2 DEF ClickInv
  <2>4. page = "read" => saOps[op].cmd = "none"
    BY <1>4, <2>2 DEF ClickInv
  <2>5. saOps[op].scope <= saScope
    BY <1>4, <1>6 DEF ClickInv
  <2>6. "none" \notin Runs
    BY DEF Runs
  <2>7. op \in saCancelled => OfOp(op) \in saLoose \/ (saOps[op].cmd = "none" /\ saOps[op].scope < saScope)
    BY <1>4 DEF ClickInv
  <2> QED
    BY <1>1, <1>3, <2>3, <2>4, <2>5, <2>6, <2>7 DEF ClickInv, OfOp
<1>13. \A o \in OpIds : ClickInv(o)'
  BY <1>2, <1>3, <1>12, OtherClicks
<1> QED
  BY <1>7, <1>8, <1>9, <1>10, <1>11, <1>13 DEF ActionsInv

\* The mutation after a step of its click: over, ended as such, or still under way.
MutMoves(op, page) ==
    /\ saMut' \in Muts
    /\ \/ saMut'.op = NoOp /\ saMut'.phase = "none" /\ page = "gone"
       \/ saMut'.op = op /\ saMut'.phase # "pending" /\ page = "gone"
       \/ saMut'.op = op /\ saMut'.phase = "pending" /\ page \in OpenPages

\* The change of account, whose flags a declined action makes doubtful.
SwitchMoves ==
    /\ saSwitch' \in Switches
    /\ saSwitch'.step = saSwitch.step /\ saSwitch'.to = saSwitch.to
    /\ saSwitch'.start = saSwitch.start /\ saSwitch'.read = saSwitch.read
    /\ saSwitch.undone => saSwitch'.undone
    /\ saMut'.op = NoOp /\ saSwitch.step = "read" => saSwitch'.undone

\* The click of the mutation: what it shows is left to the step.
LEMMA CurrentClickKeeps ==
    ASSUME ActionsInv, NEW op \in OpIds, NEW page \in {"gone"} \union OpenPages, NEW read, NEW cmd,
           ClickMoves(op, page, read, cmd), saMut.op = op,
           MutMoves(op, page), SwitchMoves, saShown' \in BOOLEAN, saBlind' \in BOOLEAN,
           cmd \notin {"acted", "saved"} \/ cmd = saOps[op].cmd,
           saOps[op].cmd \in {"acted", "saved"} => cmd = saOps[op].cmd,
           page \in {"read", "confirming", "asking"} => cmd = "none",
           page = "sent" => cmd = "asked",
           OfOp(op) \notin saLoose' /\ page = "gone" => cmd \notin Runs,
           saOps[op].page # "sent" \/ page = "gone",
           ShownInv'
    PROVE  ActionsInv'
<1>1. /\ saOps'[op].acct = saOps[op].acct /\ saOps'[op].scope = saOps[op].scope
      /\ saOps'[op].want = saOps[op].want /\ saOps'[op].cmd = cmd
      /\ saOps'[op].page = page
      /\ saOps' \in [OpIds -> Clicks]
  BY DEF ClickMoves, OpMoves
<1>2. \A o \in OpIds \ {op} : saOps'[o] = saOps[o]
  BY DEF ClickMoves, OpMoves
<1>3. /\ saBackend' = saBackend /\ saActing' = saActing /\ saScope' = saScope
      /\ saCancelled' = saCancelled /\ saLoose \subseteq saLoose' /\ saLoose' \subseteq SaAccts
      /\ saServer' = saServer /\ saCache' = saCache /\ saEntry' = saEntry
  BY DEF ClickMoves, saBackend
<1>4. /\ ActionsTyped /\ MutInv /\ SwitchInv /\ ShownInv /\ ClickInv(op)
      /\ saMut \in Muts /\ saSwitch \in Switches
  BY DEF ActionsInv, ActionsTyped
<1>5. /\ saSwitch.start # NoOp => saSwitch.start \in OpIds
      /\ op # NoOp
  BY <1>4, NoOpIsNoId DEF Muts, Switches, OpIds, NoOp
<1>6. /\ saMut.phase = "pending" /\ saOps[op].scope = saScope /\ OfOp(op) = saActing
      /\ saSwitch.step # "asked"
  BY OpenIsCurrent DEF ClickMoves
<1>7. saOps[op].page \notin {"gone", "unused"}
  BY DEF ClickMoves, OpenPages
<1>8. ActionsTyped'
  BY <1>1, <1>3, <1>4 DEF ActionsTyped, MutMoves, SwitchMoves
<1>9. MutInv'
  <2>1. "gone" \notin OpenPages
    BY DEF OpenPages
  <2>2. saMut'.op = NoOp => saMut'.phase # "pending"
    BY <1>5 DEF MutMoves
  <2>3. saSwitch'.step # "asked"
    BY <1>6 DEF SwitchMoves
  <2>4. saMut'.op # NoOp => saMut'.op = op
    BY DEF MutMoves
  <2> QED
    BY <1>1, <1>3, <1>5, <1>6, <2>1, <2>2, <2>3, <2>4 DEF MutInv, MutMoves, OfOp
<1>10. SwitchInv'
  <2>1. saSwitch.step \in {"asking", "read", "failed"} /\ saSwitch.start # NoOp
             => saSwitch.start # op /\ saOps'[saSwitch.start].page = "gone"
    BY <1>2, <1>4, <1>5, <1>7 DEF SwitchInv
  <2>2. saSwitch.step = "read" /\ saMut'.op = saSwitch.start => saSwitch'.undone
    BY <1>5, <2>1 DEF MutMoves, SwitchMoves
  <2> QED
    BY <1>3, <1>4, <2>1, <2>2 DEF SwitchInv, SwitchMoves
<1>11. StoredInv'
  BY <1>1, <1>2, <1>3, StoredStays
<1>12. ClickInv(op)'
  <2>1. saScope \in Nat /\ saOps[op].scope <= saScope
    BY <1>4, <1>6 DEF ActionsTyped
  <2>2. op \in saCancelled => OfOp(op) \in saLoose
    BY <1>4, <1>6, <2>1 DEF ClickInv
  <2>3. page = "sent" => cmd # "none" /\ cmd # "cancelled" /\ saMut'.op = op
    BY <1>5 DEF MutMoves
  <2>4. page # "unused"
    BY DEF OpenPages
  <2> QED
    BY <1>1, <1>3, <2>1, <2>2, <2>3, <2>4 DEF ClickInv, OfOp
<1>13. \A o \in OpIds : ClickInv(o)'
  BY <1>2, <1>3, <1>12, OtherClicks
<1> QED
  BY <1>8, <1>9, <1>10, <1>11, <1>13 DEF ActionsInv

\* What the page shows while the click of the mutation is under way.
LEMMA PendingShows ==
    ASSUME ActionsInv, NEW op \in OpIds, saMut.op = op, saOps[op].page \in OpenPages,
           saActing \notin saLoose, ~saBlind
    PROVE  /\ saOps[op].page \in {"asking", "read", "confirming"} =>
                saShown = saCache[saActing] /\ saMut.before = saCache[saActing]
           /\ saOps[op].page = "sent" =>
                IF saOps[op].cmd \in {"saved", "ok"} THEN saOps[op].want = saCache[saActing]
                ELSE saMut.before = saCache[saActing]
<1>1. saMut.phase = "pending"
  BY OpenIsCurrent
<1> QED
  BY <1>1 DEF ActionsInv, ShownInv

LEMMA ReadViewerStateKeeps ==
    ASSUME ActionsInv, NEW op \in OpIds, ReadViewerState(op)
    PROVE  ActionsInv'
<1>1. ActionsTyped /\ ClickInv(op) /\ OfOp(op) \in SaAccts
  BY DEF ActionsInv, ActionsTyped, Clicks, OfOp
<1>2. saOps[op].page = "asking" /\ saOps[op].cmd = "none"
  BY <1>1 DEF ReadViewerState, ClickInv
<1>3. PICK page \in {"unused", "gone"} \union OpenPages : page = "read"
  BY DEF OpenPages
<1>4. PICK read \in BOOLEAN : read = saCache[OfOp(op)]
  <2>1. saCache[OfOp(op)] \in BOOLEAN
    BY <1>1 DEF ActionsTyped
  <2> QED
    BY <2>1
<1>5. OpMoves(op, page, read, saOps[op].cmd)
  <2>1. saOps' = [saOps EXCEPT ![op] = [saOps[op] EXCEPT !.page = page, !.read = read]]
    BY <1>3, <1>4 DEF ReadViewerState
  <2> QED
    BY <1>1, <2>1 DEF OpMoves, Clicks, ActionsTyped
<1>6. /\ saBackend' = saBackend /\ saActing' = saActing /\ saShown' = saShown /\ saMut' = saMut
      /\ saScope' = saScope /\ saSwitch' = saSwitch /\ saCancelled' = saCancelled
      /\ saBlind' = saBlind /\ saLoose' = saLoose /\ saCache' = saCache
  BY DEF ReadViewerState, saPage, saBackend
<1>7. ClickMoves(op, page, read, saOps[op].cmd)
  BY <1>1, <1>2, <1>5, <1>6 DEF ClickMoves, OpenPages, ActionsTyped
<1>8. CASE saMut.op # op
  BY <1>2, <1>3, <1>6, <1>7, <1>8, OutdatedClickKeeps
<1>9. CASE saMut.op = op
  <2>1. saMut.phase = "pending" /\ OfOp(op) = saActing /\ op # NoOp
    BY <1>2, <1>9, OpenIsCurrent, NoOpIsNoId DEF OpenPages
  <2>2. MutMoves(op, page)
    BY <1>1, <1>3, <1>6, <1>9, <2>1 DEF MutMoves, OpenPages, ActionsTyped
  <2>3. SwitchMoves
    BY <1>1, <1>6, <1>9, <2>1 DEF SwitchMoves, ActionsTyped
  <2>4. ShownInv'
    <3> SUFFICES ASSUME saActing \notin saLoose PROVE ShownInv'
      BY <1>6 DEF ShownInv
    <3>1. ~saBlind => saShown = saCache[saActing] /\ saMut.before = saCache[saActing]
      BY <1>2, <1>9, PendingShows DEF OpenPages
    <3>2. saOps'[op].page = "read" /\ saOps'[op].read = saCache[saActing]
      BY <1>3, <1>4, <1>5, <2>1 DEF OpMoves
    <3> QED
      BY <1>6, <1>9, <2>1, <3>1, <3>2 DEF ShownInv
  <2>5. saShown' \in BOOLEAN /\ saBlind' \in BOOLEAN
    BY <1>1, <1>6 DEF ActionsTyped
  <2> QED
    BY <1>2, <1>3, <1>7, <1>9, <2>2, <2>3, <2>4, <2>5, CurrentClickKeeps
<1> QED
  BY <1>8, <1>9

LEMMA ViewerReadFailsKeeps ==
    ASSUME ActionsInv, NEW op \in OpIds, ViewerReadFails(op)
    PROVE  ActionsInv'
<1>1. ActionsTyped /\ ClickInv(op) /\ saOps[op].page \in OpenPages
  BY DEF ActionsInv, ViewerReadFails, OpenPages
<1>2. saOps[op].page = "asking" /\ saOps[op].cmd = "none"
  BY <1>1 DEF ViewerReadFails, ClickInv
<1>3. PICK page \in {"unused", "gone"} \union OpenPages : page = "gone"
  OBVIOUS
<1>4. OpMoves(op, page, saOps[op].read, saOps[op].cmd)
  BY <1>1, <1>3, PageMoves DEF ViewerReadFails, ActionsTyped
<1>5. /\ saBackend' = saBackend /\ saActing' = saActing /\ saScope' = saScope
      /\ saSwitch' = saSwitch /\ saCancelled' = saCancelled /\ saCache' = saCache
      /\ saBlind' = saBlind /\ saLoose' = saLoose /\ Ends(op, "failed")
      /\ saShown' = IF IsCurrent(op) THEN saMut.before ELSE saShown
  BY DEF ViewerReadFails, saBackend
<1>6. ClickMoves(op, page, saOps[op].read, saOps[op].cmd)
  BY <1>1, <1>4, <1>5 DEF ClickMoves, ActionsTyped
<1>7. CASE saMut.op # op
  <2>1. saMut' = saMut /\ saShown' = saShown
    BY <1>5, <1>7 DEF Ends, IsCurrent
  <2> QED
    BY <1>3, <1>5, <1>6, <1>7, <2>1, OutdatedClickKeeps
<1>8. CASE saMut.op = op
  <2>1. IsCurrent(op) /\ saMut.before \in BOOLEAN /\ op # NoOp
    BY <1>1, <1>8, OpenIsCurrent, NoOpIsNoId DEF ActionsTyped, Muts
  <2>2. saMut' \in Muts /\ saMut'.op = op /\ saMut'.phase = "failed"
    BY <1>1, <1>5, <1>8, EndIs
  <2>3. MutMoves(op, page) /\ SwitchMoves
    BY <1>1, <1>3, <1>5, <2>1, <2>2 DEF MutMoves, SwitchMoves, ActionsTyped
  <2>4. ShownInv'
    <3> SUFFICES ASSUME saActing \notin saLoose PROVE ShownInv'
      BY <1>5 DEF ShownInv
    <3>1. ~saBlind => saMut.before = saCache[saActing]
      BY <1>1, <1>2, <1>8, PendingShows
    <3> QED
      BY <1>5, <2>1, <2>2, <3>1 DEF ShownInv
  <2>5. "none" \notin Runs /\ "gone" \notin OpenPages
    BY DEF Runs, OpenPages
  <2> QED
    BY <1>1, <1>2, <1>3, <1>5, <1>6, <1>8, <2>1, <2>3, <2>4, <2>5, CurrentClickKeeps
       DEF ActionsTyped
<1> QED
  BY <1>7, <1>8

LEMMA ApplyViewerStateKeeps ==
    ASSUME ActionsInv, NEW op \in OpIds, ApplyViewerState(op)
    PROVE  ActionsInv'
<1> DEFINE settled == saOps[op].read = saOps[op].want
<1>1. /\ ActionsTyped /\ ClickInv(op) /\ saOps[op].page \in OpenPages
      /\ saOps[op].read \in BOOLEAN
  BY DEF ActionsInv, ActionsTyped, ApplyViewerState, OpenPages, Clicks
<1>2. saOps[op].page = "read" /\ saOps[op].cmd = "none"
  BY <1>1 DEF ApplyViewerState, ClickInv
<1>3. PICK page \in {"unused", "gone"} \union OpenPages :
        page = IF settled \/ ~IsCurrent(op) THEN "gone" ELSE "confirming"
  BY DEF OpenPages
<1>4. OpMoves(op, page, saOps[op].read, saOps[op].cmd)
  BY <1>1, <1>3, PageMoves DEF ApplyViewerState, ActionsTyped
<1>5. /\ saBackend' = saBackend /\ saActing' = saActing /\ saScope' = saScope
      /\ saSwitch' = saSwitch /\ saCancelled' = saCancelled /\ saLoose' = saLoose
      /\ saCache' = saCache
  BY DEF ApplyViewerState, saBackend
<1>6. ClickMoves(op, page, saOps[op].read, saOps[op].cmd)
  BY <1>1, <1>4, <1>5 DEF ClickMoves, ActionsTyped
<1>7. CASE saMut.op # op
  <2>1. saMut' = saMut /\ saShown' = saShown /\ saBlind' = saBlind /\ page = "gone"
    BY <1>3, <1>7 DEF ApplyViewerState, Ends, IsCurrent
  <2> QED
    BY <1>5, <1>6, <1>7, <2>1, OutdatedClickKeeps
<1>8. CASE saMut.op = op
  <2>1. /\ IsCurrent(op) /\ saMut.phase = "pending" /\ op # NoOp /\ saMut \in Muts
        /\ OfOp(op) = saActing
    BY <1>1, <1>8, OpenIsCurrent, NoOpIsNoId DEF ActionsTyped
  <2>2. /\ saShown' = saOps[op].read /\ saBlind' = FALSE
        /\ saMut' = [saMut EXCEPT !.before = saOps[op].read,
                                  !.phase = IF settled THEN "confirmed" ELSE @]
    BY <2>1 DEF ApplyViewerState
  <2>3. PICK phase \in {"pending", "confirmed"} :
          phase = IF settled THEN "confirmed" ELSE "pending"
    OBVIOUS
  <2>4. saMut' = [saMut EXCEPT !.before = saOps[op].read, !.phase = phase]
    BY <2>1, <2>2, <2>3
  <2>5. /\ saMut' \in Muts /\ saMut'.op = op /\ saMut'.phase = phase
        /\ saMut'.before = saOps[op].read
    BY <1>1, <1>8, <2>1, <2>4 DEF Muts
  <2>6. page = IF phase = "confirmed" THEN "gone" ELSE "confirming"
    BY <1>3, <2>1, <2>3
  <2>7. MutMoves(op, page) /\ SwitchMoves
    BY <1>1, <1>5, <2>1, <2>5, <2>6 DEF MutMoves, SwitchMoves, ActionsTyped, OpenPages
  <2>8. ShownInv'
    <3> SUFFICES ASSUME saActing \notin saLoose PROVE ShownInv'
      BY <1>5 DEF ShownInv
    <3>1. saOps[op].read = saCache[saActing]
      BY <1>2, <1>8, <2>1 DEF ActionsInv, ShownInv
    <3>2. saOps'[op].page = page
      BY <1>4 DEF OpMoves
    <3>3. CASE phase = "confirmed"
      BY <1>5, <2>2, <2>5, <3>1, <3>3 DEF ShownInv
    <3>4. CASE phase = "pending"
      BY <1>5, <2>2, <2>5, <2>6, <3>1, <3>2, <3>4 DEF ShownInv
    <3> QED
      BY <3>3, <3>4
  <2>9. "none" \notin Runs /\ page \in {"gone", "confirming"}
    BY <2>6 DEF Runs
  <2>10. saShown' \in BOOLEAN /\ saBlind' \in BOOLEAN
    BY <1>1, <2>2
  <2> QED
    BY <1>1, <1>2, <1>5, <1>6, <1>8, <2>1, <2>7, <2>8, <2>9, <2>10, CurrentClickKeeps
<1> QED
  BY <1>7, <1>8

LEMMA DecideKeeps ==
    ASSUME ActionsInv, NEW op \in OpIds, NEW yes \in BOOLEAN, Decide(op, yes)
    PROVE  ActionsInv'
<1> DEFINE go == yes /\ IsCurrent(op)
<1>1. /\ ActionsTyped /\ ClickInv(op) /\ SwitchInv /\ saOps[op].page \in OpenPages
      /\ saOps[op].want \in BOOLEAN
  BY DEF ActionsInv, ActionsTyped, Decide, OpenPages, Clicks
<1>2. saOps[op].page = "confirming" /\ saOps[op].cmd = "none"
  BY <1>1 DEF Decide, ClickInv
<1>3. PICK page \in {"unused", "gone"} \union OpenPages : page = IF go THEN "sent" ELSE "gone"
  BY DEF OpenPages
<1>4. PICK cmd \in {"none", "ok", "error", "cancelled"} \union Runs :
        cmd = IF go THEN "asked" ELSE "none"
  BY DEF Runs
<1>5. OpMoves(op, page, saOps[op].read, cmd)
  <2>1. saOps' = [saOps EXCEPT ![op] = [saOps[op] EXCEPT !.page = page, !.cmd = cmd]]
    <3>1. saOps' = [saOps EXCEPT ![op] = [saOps[op] EXCEPT !.page = IF go THEN "sent" ELSE "gone",
                                                           !.cmd = IF go THEN "asked" ELSE saOps[op].cmd]]
      BY DEF Decide
    <3> QED
      BY <1>2, <1>3, <1>4, <3>1
  <2> QED
    BY <1>1, <2>1 DEF OpMoves, Clicks, ActionsTyped
<1>6. /\ saBackend' = saBackend /\ saActing' = saActing /\ saScope' = saScope
      /\ saCancelled' = saCancelled /\ saLoose' = saLoose /\ saBlind' = saBlind
      /\ saCache' = saCache
      /\ saShown' = IF go THEN saOps[op].want ELSE saShown
  BY DEF Decide, saBackend
<1>7. ClickMoves(op, page, saOps[op].read, cmd)
  BY <1>1, <1>5, <1>6 DEF ClickMoves, ActionsTyped
<1>8. PICK undone \in BOOLEAN :
        /\ undone = (saSwitch.undone \/ (~go /\ IsCurrent(op)
                       /\ saSwitch.step \in {"asking", "read", "failed"}))
        /\ saSwitch' = [saSwitch EXCEPT !.undone = undone]
  <2>1. saSwitch.undone \in BOOLEAN
    BY <1>1 DEF ActionsTyped, Switches
  <2> QED
    BY <2>1 DEF Decide
<1>9. CASE saMut.op # op
  <2>1. ~go /\ ~IsCurrent(op)
    BY <1>9 DEF IsCurrent
  <2>2. saMut' = saMut /\ saShown' = saShown
    BY <1>6, <1>9, <2>1 DEF Decide, Ends
  <2>3. saSwitch' = saSwitch
    BY <1>1, <1>8, <2>1 DEF ActionsTyped, Switches
  <2> QED
    BY <1>2, <1>3, <1>4, <1>6, <1>7, <1>9, <2>1, <2>2, <2>3, OutdatedClickKeeps
<1>10. CASE saMut.op = op
  <2>1. /\ IsCurrent(op) /\ saMut.phase = "pending" /\ op # NoOp /\ saMut \in Muts
        /\ OfOp(op) = saActing
    BY <1>1, <1>10, OpenIsCurrent, NoOpIsNoId DEF ActionsTyped
  <2>2. SwitchMoves
    <3>1. /\ saSwitch' \in Switches /\ saSwitch'.step = saSwitch.step
          /\ saSwitch'.to = saSwitch.to /\ saSwitch'.start = saSwitch.start
          /\ saSwitch'.read = saSwitch.read /\ saSwitch'.undone = undone
      BY <1>1, <1>8 DEF ActionsTyped, Switches
    <3>2. go => saMut'.op # NoOp
      BY <1>10, <2>1 DEF Decide
    <3> QED
      BY <1>8, <2>1, <3>1, <3>2 DEF SwitchMoves
  <2>3. CASE go
    <3>1. saMut' = saMut
      BY <2>3 DEF Decide
    <3>2. MutMoves(op, page)
      BY <1>3, <1>10, <2>1, <2>3, <3>1 DEF MutMoves, OpenPages
    <3>3. ShownInv'
      <4> SUFFICES ASSUME saActing \notin saLoose PROVE ShownInv'
        BY <1>6 DEF ShownInv
      <4>1. ~saBlind => saMut.before = saCache[saActing]
        BY <1>1, <1>2, <1>10, PendingShows
      <4>2. saOps'[op].page = "sent" /\ saOps'[op].cmd = "asked"
        BY <1>3, <1>4, <1>5, <2>3 DEF OpMoves
      <4> QED
        BY <1>6, <1>10, <2>1, <3>1, <4>1, <4>2 DEF ShownInv
    <3>4. page = "sent" /\ cmd = "asked" /\ saShown' \in BOOLEAN /\ saBlind' \in BOOLEAN
      BY <1>1, <1>3, <1>4, <1>6, <2>3 DEF ActionsTyped
    <3> QED
      BY <1>2, <1>7, <1>10, <2>2, <3>2, <3>3, <3>4, CurrentClickKeeps
  <2>4. CASE ~go
    <3>1. Ends(op, "none")
      BY <2>4 DEF Decide
    <3>2. saMut' = NoMut
      BY <1>1, <1>10, <3>1, EndIs
    <3>3. MutMoves(op, page)
      BY <1>3, <2>4, <3>2, NoMutIs DEF MutMoves
    <3>4. saShown' = saShown
      BY <1>6, <2>4
    <3>5. ShownInv'
      <4> SUFFICES ASSUME saActing \notin saLoose PROVE ShownInv'
        BY <1>6 DEF ShownInv
      <4>1. ~saBlind => saShown = saCache[saActing]
        BY <1>1, <1>2, <1>10, PendingShows
      <4> QED
        BY <1>6, <3>2, <3>4, <4>1, NoMutIs DEF ShownInv
    <3>6. page = "gone" /\ cmd = "none" /\ saShown' \in BOOLEAN /\ saBlind' \in BOOLEAN
      BY <1>1, <1>3, <1>4, <1>6, <2>4 DEF ActionsTyped
    <3>7. "none" \notin Runs
      BY DEF Runs
    <3> QED
      BY <1>2, <1>7, <1>10, <2>2, <3>3, <3>5, <3>6, <3>7, CurrentClickKeeps
  <2> QED
    BY <2>3, <2>4
<1> QED
  BY <1>9, <1>10

LEMMA TakeAnswerKeeps ==
    ASSUME ActionsInv, NEW op \in OpIds, TakeAnswer(op)
    PROVE  ActionsInv'
<1>1. /\ ActionsTyped /\ ClickInv(op) /\ saOps[op].page \in OpenPages
      /\ saOps[op].want \in BOOLEAN
  BY DEF ActionsInv, ActionsTyped, TakeAnswer, OpenPages, Clicks
<1>2. saOps[op].page = "sent" /\ saOps[op].cmd \in {"ok", "error", "cancelled"}
  BY DEF TakeAnswer
<1>3. PICK page \in {"unused", "gone"} \union OpenPages : page = "gone"
  OBVIOUS
<1>4. OpMoves(op, page, saOps[op].read, saOps[op].cmd)
  BY <1>1, <1>3, PageMoves DEF TakeAnswer, ActionsTyped
<1>5. /\ saBackend' = saBackend /\ saActing' = saActing /\ saScope' = saScope
      /\ saSwitch' = saSwitch /\ saCancelled' = saCancelled /\ saCache' = saCache
      /\ saBlind' = saBlind /\ saLoose' = saLoose
  BY DEF TakeAnswer, saBackend
<1>6. ClickMoves(op, page, saOps[op].read, saOps[op].cmd)
  BY <1>1, <1>4, <1>5 DEF ClickMoves, ActionsTyped
<1>7. PICK phase \in {"none", "confirmed", "failed", "uncertain"} :
        phase = (IF saOps[op].cmd = "ok" THEN "confirmed" ELSE "failed") /\ Ends(op, phase)
  BY DEF TakeAnswer
<1>8. CASE saMut.op # op
  <2>1. saMut' = saMut /\ saShown' = saShown
    BY <1>7, <1>8 DEF TakeAnswer, Ends, IsCurrent
  <2> QED
    BY <1>3, <1>5, <1>6, <1>8, <2>1, OutdatedClickKeeps
<1>9. CASE saMut.op = op
  <2>1. /\ IsCurrent(op) /\ saMut.before \in BOOLEAN /\ op # NoOp /\ OfOp(op) = saActing
    BY <1>1, <1>9, OpenIsCurrent, NoOpIsNoId DEF ActionsTyped, Muts
  <2>2. saMut' \in Muts /\ saMut'.op = op /\ saMut'.phase = phase /\ phase # "pending"
    BY <1>1, <1>7, <1>9, EndIs
  <2>3. saShown' = IF saOps[op].cmd = "ok" THEN saOps[op].want ELSE saMut.before
    BY <2>1 DEF TakeAnswer
  <2>4. MutMoves(op, page) /\ SwitchMoves
    BY <1>1, <1>3, <1>5, <2>1, <2>2 DEF MutMoves, SwitchMoves, ActionsTyped
  <2>5. ShownInv'
    <3> SUFFICES ASSUME saActing \notin saLoose PROVE ShownInv'
      BY <1>5 DEF ShownInv
    <3>1. ~saBlind => IF saOps[op].cmd \in {"saved", "ok"} THEN saOps[op].want = saCache[saActing]
                      ELSE saMut.before = saCache[saActing]
      BY <1>1, <1>2, <1>9, PendingShows
    <3> QED
      BY <1>2, <1>5, <2>2, <2>3, <3>1 DEF ShownInv
  <2>6. saOps[op].cmd \notin Runs /\ "gone" \notin OpenPages
    BY <1>2 DEF Runs, OpenPages
  <2>7. saShown' \in BOOLEAN /\ saBlind' \in BOOLEAN
    BY <1>1, <1>5, <2>1, <2>3 DEF ActionsTyped
  <2> QED
    BY <1>2, <1>3, <1>6, <1>9, <2>4, <2>5, <2>6, <2>7, CurrentClickKeeps
<1> QED
  BY <1>8, <1>9

LEMMA LoseAnswerKeeps ==
    ASSUME ActionsInv, NEW op \in OpIds, LoseAnswer(op)
    PROVE  ActionsInv'
<1>1. /\ ActionsTyped /\ ClickInv(op) /\ saOps[op].page \in OpenPages
      /\ OfOp(op) \in SaAccts
  BY DEF ActionsInv, ActionsTyped, LoseAnswer, OpenPages, Clicks, OfOp
<1>2. saOps[op].page = "sent"
  BY DEF LoseAnswer
<1>3. PICK page \in {"unused", "gone"} \union OpenPages : page = "gone"
  OBVIOUS
<1>4. OpMoves(op, page, saOps[op].read, saOps[op].cmd)
  BY <1>1, <1>3, PageMoves DEF LoseAnswer, ActionsTyped
<1>5. /\ saBackend' = saBackend /\ saActing' = saActing /\ saScope' = saScope
      /\ saSwitch' = saSwitch /\ saCancelled' = saCancelled /\ saShown' = saShown
      /\ saBlind' = saBlind /\ saLoose' = saLoose \union {OfOp(op)} /\ Ends(op, "uncertain")
  BY DEF LoseAnswer
<1>6. ClickMoves(op, page, saOps[op].read, saOps[op].cmd)
  BY <1>1, <1>4, <1>5 DEF ClickMoves, ActionsTyped
<1>7. CASE saMut.op # op
  <2>1. saMut' = saMut
    BY <1>5, <1>7 DEF Ends
  <2> QED
    BY <1>3, <1>5, <1>6, <1>7, <2>1, OutdatedClickKeeps
<1>8. CASE saMut.op = op
  <2>1. op # NoOp /\ OfOp(op) = saActing
    BY <1>1, <1>8, OpenIsCurrent, NoOpIsNoId
  <2>2. saMut' \in Muts /\ saMut'.op = op /\ saMut'.phase = "uncertain"
    BY <1>1, <1>5, <1>8, EndIs
  <2>3. MutMoves(op, page) /\ SwitchMoves
    BY <1>1, <1>3, <1>5, <2>1, <2>2 DEF MutMoves, SwitchMoves, ActionsTyped
  <2>4. ShownInv'
    BY <1>5, <2>1 DEF ShownInv
  <2>5. "gone" \notin OpenPages /\ OfOp(op) \in saLoose'
    BY <1>5 DEF OpenPages
  <2>6. saShown' \in BOOLEAN /\ saBlind' \in BOOLEAN
    BY <1>1, <1>5 DEF ActionsTyped
  <2> QED
    BY <1>3, <1>6, <1>8, <2>3, <2>4, <2>5, <2>6, CurrentClickKeeps
<1> QED
  BY <1>7, <1>8

\* A post has one action at a time, so the click finds no other under way.
LEMMA ClickActionKeeps ==
    ASSUME ActionsInv, NEW op \in OpIds, ClickAction(op)
    PROVE  ActionsInv'
<1>1. /\ ActionsTyped /\ MutInv /\ ShownInv /\ SwitchInv /\ ClickInv(op)
      /\ saActing \in SaAccts /\ saShown \in BOOLEAN /\ saScope \in Nat
      /\ saOps[op] \in Clicks /\ saSwitch \in Switches /\ op # NoOp
  BY NoOpIsNoId DEF ActionsInv, ActionsTyped
<1>2. /\ saSwitch.step # "asked" /\ saMut.phase # "pending" /\ saOps[op].page = "unused"
      /\ saOps[op].cmd = "none"
  BY <1>1 DEF ClickAction, SaMayBegin, InTransition, ClickInv
<1>3. /\ saBackend' = saBackend /\ saActing' = saActing /\ saShown' = saShown
      /\ saScope' = saScope /\ saSwitch' = saSwitch /\ saCancelled' = saCancelled
      /\ saLoose' = saLoose /\ saBlind' = saBlind
      /\ saServer' = saServer /\ saCache' = saCache /\ saEntry' = saEntry
      /\ saMut' = [op |-> op, phase |-> "pending", before |-> saShown]
  BY DEF ClickAction, saBackend
<1>4. PICK want \in BOOLEAN : want = ~saShown
  BY <1>1
<1>5. PICK page \in {"unused", "gone"} \union OpenPages : page = "asking"
  BY DEF OpenPages
<1>6. /\ saOps' \in [OpIds -> Clicks]
      /\ saOps'[op].acct = saActing /\ saOps'[op].scope = saScope /\ saOps'[op].page = "asking"
      /\ saOps'[op].cmd = "none"
      /\ \A o \in OpIds \ {op} : saOps'[o] = saOps[o]
  <2>1. saOps' = [saOps EXCEPT ![op] = [saOps[op] EXCEPT !.acct = saActing, !.want = want,
                                          !.scope = saScope, !.page = page]]
    BY <1>4, <1>5 DEF ClickAction
  <2> QED
    BY <1>1, <1>2, <1>5, <2>1 DEF Clicks, ActionsTyped
<1>7. saMut' \in Muts
  BY <1>1, <1>3, NoOpIsNoId DEF Muts
<1>8. ActionsTyped'
  BY <1>1, <1>3, <1>6, <1>7 DEF ActionsTyped
<1>9. MutInv'
  BY <1>1, <1>2, <1>3, <1>6 DEF MutInv, OfOp, OpenPages
<1>10. ShownInv'
  BY <1>1, <1>2, <1>3, <1>6 DEF ShownInv
<1>11. SwitchInv'
  <2>1. saSwitch.start # NoOp => saSwitch.start \in OpIds
    BY <1>1, NoOpIsNoId DEF Switches, OpIds, NoOp
  <2>2. saSwitch.step \in {"asking", "read", "failed"} /\ saSwitch.start # NoOp
             => saSwitch.start # op /\ saOps'[saSwitch.start].page = "gone"
    BY <1>1, <1>2, <1>6, <2>1 DEF SwitchInv
  <2>3. saMut'.op = op
    BY <1>3
  <2> QED
    BY <1>1, <1>3, <2>2, <2>3 DEF SwitchInv
<1>12. StoredInv'
  BY <1>2, <1>3, <1>6, StoredStays
<1>13. \A o \in OpIds : ClickInv(o)'
  <2>1. ClickInv(op)'
    BY <1>1, <1>2, <1>3, <1>6 DEF ClickInv
  <2> SUFFICES ASSUME NEW o \in OpIds, o # op PROVE ClickInv(o)'
    BY <2>1
  <2>2. ClickInv(o) /\ saOps'[o] = saOps[o]
    BY <1>6 DEF ActionsInv
  <2>3. OfOp(o) \notin saLoose => saOps[o].page # "sent"
    BY <1>2, SentIsCurrent
  <2> QED
    BY <1>3, <2>2, <2>3 DEF ClickInv, OfOp
<1> QED
  BY <1>8, <1>9, <1>10, <1>11, <1>12, <1>13 DEF ActionsInv

(***************************************************************************)
(* Changing the account.                                                   *)
(***************************************************************************)

\* What is pending is taken back; an action that was sent sets its account aside.
LEMMA BeginSwitchKeeps ==
    ASSUME ActionsInv, NEW to \in SaAccts, BeginSwitch(to)
    PROVE  ActionsInv'
<1>1. /\ ActionsTyped /\ MutInv /\ ShownInv /\ SwitchInv /\ StoredInv
      /\ saActing \in SaAccts /\ saShown \in BOOLEAN /\ saScope \in Nat
      /\ saSwitch \in Switches /\ saMut \in Muts /\ saOps \in [OpIds -> Clicks]
      /\ saLoose \subseteq SaAccts /\ saCancelled \subseteq OpIds
  BY DEF ActionsInv, ActionsTyped
<1>2. /\ saServer' = saServer /\ saCache' = saCache /\ saEntry' = saEntry
      /\ saActing' = saActing /\ saOps' = saOps /\ saBlind' = saBlind
      /\ saScope' = saScope + 1
      /\ saSwitch' = [NoSwitch EXCEPT !.step = "asked", !.to = to]
      /\ saSwitch.step = "none"
  BY DEF BeginSwitch, saBackend
<1>3. saSwitch' \in Switches /\ saSwitch'.step = "asked" /\ saSwitch'.to = to
  <2>1. NoSwitch \in Switches
    BY NoOpIsNoId DEF NoSwitch, Switches, NoOp
  <2> QED
    BY <1>2, <2>1 DEF Switches
<1>4. \A o \in OpIds : saOps[o].scope \in Nat
  BY <1>1 DEF Clicks
<1>5. CASE saMut.phase = "pending"
  <2>1. PICK op \in OpIds : op = saMut.op
    BY <1>1, <1>5, NoOpIsNoId DEF MutInv, Muts, OpIds, NoOp
  <2>2. /\ saOps[op].page \in OpenPages /\ saOps[op].scope = saScope /\ OfOp(op) = saActing
    BY <1>1, <1>5, <2>1, NoOpIsNoId DEF MutInv
  <2>3. /\ saShown' = saMut.before /\ saMut' = NoMut
        /\ saCancelled' = saCancelled \union {op}
        /\ saLoose' = IF saOps[op].page = "sent" THEN saLoose \union {saActing} ELSE saLoose
    BY <1>5, <2>1 DEF BeginSwitch
  <2>4. saLoose \subseteq saLoose' /\ saLoose' \subseteq SaAccts /\ saShown' \in BOOLEAN
    BY <1>1, <2>3 DEF Muts
  <2>5. ActionsTyped'
    BY <1>1, <1>2, <1>3, <2>3, <2>4, NoMutIs DEF ActionsTyped
  <2>6. MutInv'
    BY <2>3, NoMutIs DEF MutInv
  <2>7. StoredInv'
    BY <1>1, <1>2, <2>4 DEF StoredInv, OfOp
  <2>8. ShownInv'
    <3> SUFFICES ASSUME saActing \notin saLoose' PROVE ShownInv'
      BY <1>2 DEF ShownInv
    <3>1. saActing \notin saLoose /\ saOps[op].page # "sent"
      BY <2>3, <2>4
    <3>2. ~saBlind => saMut.before = saCache[saActing]
      BY <2>1, <2>2, <3>1, PendingShows DEF OpenPages
    <3> QED
      BY <1>2, <2>3, <3>2, NoMutIs DEF ShownInv
  <2>9. SwitchInv'
    BY <1>3 DEF SwitchInv
  <2>10. \A o \in OpIds : ClickInv(o)'
    <3> SUFFICES ASSUME NEW o \in OpIds PROVE ClickInv(o)'
      OBVIOUS
    <3>1. ClickInv(o) /\ saOps[o].scope \in Nat
      BY <1>4 DEF ActionsInv
    <3>2. o # op /\ saOps[o].page = "sent" => OfOp(o) \in saLoose
      BY <2>1, SentIsCurrent
    <3>3. saOps[op].page = "sent" => OfOp(op) \in saLoose'
      BY <2>2, <2>3
    <3>4. saOps[o].page # "unused" => saOps[o].scope <= saScope + 1
      BY <1>1, <3>1 DEF ClickInv
    <3>5. saOps[o].scope < saScope => saOps[o].scope < saScope + 1
      BY <1>1, <3>1
    <3>6. /\ saOps[op].page # "unused" /\ saOps[op].scope < saScope + 1
          /\ saOps[op].page # "sent" => saOps[op].cmd = "none"
      <4>1. ClickInv(op)
        BY DEF ActionsInv
      <4> QED
        BY <1>1, <2>2, <4>1 DEF ClickInv, OpenPages
    <3>7. o \in saCancelled' => o \in saCancelled \/ o = op
      BY <2>3
    <3> QED
      BY <1>2, <2>4, <3>1, <3>2, <3>3, <3>4, <3>5, <3>6, <3>7 DEF ClickInv, OfOp
  <2> QED
    BY <2>5, <2>6, <2>7, <2>8, <2>9, <2>10 DEF ActionsInv
<1>6. CASE saMut.phase # "pending"
  <2>1. saShown' = saShown /\ saMut' = saMut /\ saCancelled' = saCancelled /\ saLoose' = saLoose
    BY <1>6 DEF BeginSwitch
  <2>2. ActionsTyped'
    BY <1>1, <1>2, <1>3, <2>1 DEF ActionsTyped
  <2>3. MutInv'
    BY <1>1, <1>2, <1>6, <2>1 DEF MutInv
  <2>4. StoredInv'
    BY <1>1, <1>2, <2>1 DEF StoredInv, OfOp
  <2>5. ShownInv'
    BY <1>1, <1>2, <1>6, <2>1 DEF ShownInv
  <2>6. SwitchInv'
    BY <1>3 DEF SwitchInv
  <2>7. \A o \in OpIds : ClickInv(o)'
    <3> SUFFICES ASSUME NEW o \in OpIds PROVE ClickInv(o)'
      OBVIOUS
    <3>1. ClickInv(o) /\ saOps[o].scope \in Nat
      BY <1>4 DEF ActionsInv
    <3>2. saOps[o].page # "unused" => saOps[o].scope <= saScope + 1
      BY <1>1, <3>1 DEF ClickInv
    <3>3. saOps[o].scope < saScope => saOps[o].scope < saScope + 1
      BY <1>1, <3>1
    <3> QED
      BY <1>2, <2>1, <3>1, <3>2, <3>3 DEF ClickInv, OfOp
  <2> QED
    BY <2>2, <2>3, <2>4, <2>5, <2>6, <2>7 DEF ActionsInv
<1> QED
  BY <1>5, <1>6

\* What the steps of the change leave alone.
LEMMA ClicksStay ==
    ASSUME ActionsInv, saOps' = saOps, saMut' = saMut, saScope' = saScope,
           saCancelled' = saCancelled, saLoose' = saLoose, UNCHANGED saBackend
    PROVE  StoredInv' /\ \A o \in OpIds : ClickInv(o)'
<1>1. StoredInv /\ \A o \in OpIds : ClickInv(o)
  BY DEF ActionsInv
<1>2. saServer' = saServer /\ saCache' = saCache /\ saEntry' = saEntry
  BY DEF saBackend
<1>3. StoredInv'
  BY <1>1, <1>2 DEF StoredInv, OfOp
<1>4. \A o \in OpIds : ClickInv(o)'
  BY <1>1 DEF ClickInv, OfOp
<1> QED
  BY <1>3, <1>4

LEMMA SwitchAnswersKeeps ==
    ASSUME ActionsInv, NEW ok \in BOOLEAN, SwitchAnswers(ok)
    PROVE  ActionsInv'
<1>1. /\ ActionsTyped /\ MutInv /\ ShownInv /\ SwitchInv
      /\ saSwitch \in Switches /\ saMut \in Muts /\ saBlind \in BOOLEAN
  BY DEF ActionsInv, ActionsTyped
<1>2. /\ saBackend' = saBackend /\ saShown' = saShown /\ saMut' = saMut /\ saOps' = saOps
      /\ saScope' = saScope /\ saCancelled' = saCancelled /\ saLoose' = saLoose
      /\ saServer' = saServer /\ saCache' = saCache /\ saEntry' = saEntry
      /\ saSwitch.step = "asked" /\ saBlind' = (saBlind \/ ok)
  BY DEF SwitchAnswers, saBackend
<1>3. saSwitch.to \in SaAccts /\ saMut.phase # "pending" /\ NoSwitch \in Switches
  BY <1>1, <1>2, NoOpIsNoId DEF SwitchInv, MutInv, NoSwitch, Switches, NoOp
<1>4. saMut.op # NoOp => saOps[saMut.op].page = "gone"
  BY <1>1, <1>3 DEF MutInv
<1>5. StoredInv' /\ \A o \in OpIds : ClickInv(o)'
  BY <1>2, ClicksStay
<1>6. saBlind' \in BOOLEAN
  BY <1>1, <1>2
<1>7. CASE ok
  <2>1. PICK start \in 0..SaOps : start = saMut.op
    BY <1>1 DEF Muts
  <2>2. PICK step \in {"none", "asked", "asking", "read", "failed"} : step = "asking"
    OBVIOUS
  <2>3. saActing' = saSwitch.to /\ saSwitch' = [saSwitch EXCEPT !.step = step, !.start = start]
    BY <1>7, <2>1, <2>2 DEF SwitchAnswers
  <2>4. /\ saSwitch' \in Switches /\ saSwitch'.step = "asking" /\ saSwitch'.to = saSwitch.to
        /\ saSwitch'.start = saMut.op
    BY <1>1, <2>1, <2>2, <2>3 DEF Switches
  <2>5. ActionsTyped'
    BY <1>1, <1>2, <1>3, <1>6, <2>3, <2>4 DEF ActionsTyped
  <2>6. MutInv'
    BY <1>2, <1>3, <1>4 DEF MutInv
  <2>7. saBlind'
    BY <1>2, <1>7
  <2>8. ShownInv'
    BY <1>2, <1>3, <2>7 DEF ShownInv
  <2>9. SwitchInv'
    BY <1>2, <1>3, <1>4, <2>3, <2>4 DEF SwitchInv
  <2> QED
    BY <1>5, <2>5, <2>6, <2>8, <2>9 DEF ActionsInv
<1>8. CASE ~ok
  <2>1. saActing' = saActing /\ saSwitch' = NoSwitch /\ saBlind' = saBlind
    BY <1>1, <1>2, <1>8 DEF SwitchAnswers
  <2>2. saSwitch'.step = "none"
    BY <2>1 DEF NoSwitch
  <2>3. ActionsTyped'
    BY <1>1, <1>2, <1>3, <1>6, <2>1 DEF ActionsTyped
  <2>4. MutInv'
    BY <1>2, <1>3, <1>4 DEF MutInv
  <2>5. ShownInv'
    BY <1>1, <1>2, <1>3, <2>1 DEF ShownInv
  <2>6. SwitchInv'
    BY <2>2 DEF SwitchInv
  <2> QED
    BY <1>5, <2>3, <2>4, <2>5, <2>6 DEF ActionsInv
<1> QED
  BY <1>7, <1>8

LEMMA ReconcileReadsKeeps ==
    ASSUME ActionsInv, NEW fails \in BOOLEAN, ReconcileReads(fails)
    PROVE  ActionsInv'
<1>1. /\ ActionsTyped /\ MutInv /\ ShownInv /\ SwitchInv /\ saSwitch \in Switches
      /\ saCache \in [SaAccts -> BOOLEAN]
  BY DEF ActionsInv, ActionsTyped
<1>2. /\ saBackend' = saBackend /\ saActing' = saActing /\ saShown' = saShown /\ saMut' = saMut
      /\ saOps' = saOps /\ saScope' = saScope /\ saCancelled' = saCancelled
      /\ saLoose' = saLoose /\ saBlind' = saBlind
      /\ saServer' = saServer /\ saCache' = saCache /\ saEntry' = saEntry
      /\ saSwitch.step = "asking"
  BY DEF ReconcileReads, saBackend
<1>3. /\ saActing = saSwitch.to /\ saSwitch.to \in SaAccts
      /\ saSwitch.start # NoOp => saOps[saSwitch.start].page = "gone"
  BY <1>1, <1>2 DEF SwitchInv
<1>4. PICK read \in BOOLEAN : read = (~fails /\ saCache[saSwitch.to])
  OBVIOUS
<1>5. PICK step \in {"none", "asked", "asking", "read", "failed"} :
        step = IF fails THEN "failed" ELSE "read"
  OBVIOUS
<1>6. saSwitch' = [saSwitch EXCEPT !.step = step, !.read = read]
  BY <1>4, <1>5 DEF ReconcileReads
<1>7. /\ saSwitch' \in Switches /\ saSwitch'.step = step /\ saSwitch'.to = saSwitch.to
      /\ saSwitch'.start = saSwitch.start /\ saSwitch'.read = read
  BY <1>1, <1>6 DEF Switches
<1>8. StoredInv' /\ \A o \in OpIds : ClickInv(o)'
  BY <1>2, ClicksStay
<1>9. ActionsTyped'
  BY <1>1, <1>2, <1>7 DEF ActionsTyped
<1>10. MutInv'
  BY <1>1, <1>2, <1>5, <1>7 DEF MutInv, OfOp
<1>11. ShownInv'
  BY <1>1, <1>2 DEF ShownInv
<1>12. SwitchInv'
  <2>1. step = "read" => read = saCache[saActing]
    <3>1. saCache[saActing] \in BOOLEAN
      BY <1>1, <1>3
    <3> QED
      BY <1>3, <1>4, <1>5, <3>1
  <2> QED
    BY <1>2, <1>3, <1>7, <2>1 DEF SwitchInv
<1> QED
  BY <1>8, <1>9, <1>10, <1>11, <1>12 DEF ActionsInv

LEMMA ReconcileShowsKeeps ==
    ASSUME ActionsInv, ReconcileShows
    PROVE  ActionsInv'
<1>1. /\ ActionsTyped /\ MutInv /\ ShownInv /\ SwitchInv /\ saSwitch \in Switches
      /\ saBlind \in BOOLEAN /\ saShown \in BOOLEAN
  BY DEF ActionsInv, ActionsTyped
<1>2. /\ saBackend' = saBackend /\ saActing' = saActing /\ saMut' = saMut
      /\ saOps' = saOps /\ saScope' = saScope /\ saCancelled' = saCancelled
      /\ saLoose' = saLoose
      /\ saServer' = saServer /\ saCache' = saCache /\ saEntry' = saEntry
      /\ saSwitch.step \in {"read", "failed"} /\ saSwitch' = NoSwitch
  BY DEF ReconcileShows, saBackend
<1>3. NoSwitch \in Switches /\ NoSwitch.step = "none"
  BY NoOpIsNoId DEF NoSwitch, Switches, NoOp
<1>4. StoredInv' /\ \A o \in OpIds : ClickInv(o)'
  BY <1>2, ClicksStay
<1>5. PICK shown \in BOOLEAN : saShown' = shown
                              /\ shown = IF Untouched THEN saSwitch.read ELSE saShown
  BY <1>1 DEF ReconcileShows, Switches
<1>6. PICK blind \in BOOLEAN :
        /\ saBlind' = blind
        /\ blind = IF Untouched THEN saSwitch.step = "failed" \/ saSwitch.undone ELSE saBlind
  <2>1. saSwitch.undone \in BOOLEAN
    BY <1>1 DEF Switches
  <2> QED
    BY <1>1, <2>1 DEF ReconcileShows
<1>7. ActionsTyped'
  BY <1>1, <1>2, <1>3, <1>5, <1>6 DEF ActionsTyped
<1>8. MutInv'
  BY <1>1, <1>2, <1>3 DEF MutInv, OfOp
<1>9. SwitchInv'
  BY <1>2, <1>3 DEF SwitchInv
<1>10. ShownInv'
  <2>1. CASE ~Untouched
    <3>1. saShown' = saShown /\ saBlind' = saBlind
      BY <1>1, <1>5, <1>6, <2>1
    <3> QED
      BY <1>1, <1>2, <3>1 DEF ShownInv
  <2>2. CASE Untouched
    <3> SUFFICES ASSUME saActing \notin saLoose PROVE ShownInv'
      BY <1>2 DEF ShownInv
    <3>1. saMut.op # NoOp => saOps[saMut.op].page = "gone"
      BY <1>1, <1>2, <2>2 DEF SwitchInv, Untouched
    <3>2. saMut.phase # "pending"
      BY <1>1, <3>1 DEF MutInv, OpenPages
    <3>3. ~blind => saSwitch.read = saCache[saActing]
      BY <1>1, <1>2, <1>6, <2>2 DEF SwitchInv, Untouched
    <3> QED
      BY <1>2, <1>5, <1>6, <2>2, <3>2, <3>3 DEF ShownInv
  <2> QED
    BY <2>1, <2>2
<1> QED
  BY <1>4, <1>7, <1>8, <1>9, <1>10 DEF ActionsInv

(***************************************************************************)
(* The invariant and what it is for.                                       *)
(***************************************************************************)

LEMMA ActionsInitially ==
    ASSUME StatusActionsInit
    PROVE  ActionsInv
<1>1. saActing \in SaAccts
  BY SaAssumption DEF StatusActionsInit
<1>2. /\ saServer \in [SaAccts -> BOOLEAN] /\ saCache = saServer /\ saEntry = saServer
      /\ saShown = saCache[saActing] /\ saMut = NoMut /\ saScope = 0 /\ saSwitch = NoSwitch
      /\ saCancelled = {} /\ saLoose = {} /\ saBlind = FALSE
  BY DEF StatusActionsInit
<1>3. /\ saOps \in [OpIds -> Clicks]
      /\ \A o \in OpIds : saOps[o].page = "unused" /\ saOps[o].cmd = "none"
  <2>1. saOps = [o \in OpIds |-> [acct |-> saActing, want |-> FALSE, scope |-> 0,
                                  page |-> "unused", read |-> FALSE, cmd |-> "none"]]
    BY DEF StatusActionsInit
  <2> QED
    BY <1>1, <2>1 DEF Clicks
<1>4. NoSwitch \in Switches /\ NoSwitch.step = "none"
  BY NoOpIsNoId DEF NoSwitch, Switches, NoOp
<1>5. ActionsTyped
  BY <1>1, <1>2, <1>3, <1>4, NoMutIs DEF ActionsTyped
<1>6. MutInv /\ ShownInv /\ SwitchInv
  BY <1>2, <1>4, NoMutIs DEF MutInv, ShownInv, SwitchInv
<1>7. StoredInv
  BY <1>2, <1>3 DEF StoredInv
<1>8. \A o \in OpIds : ClickInv(o)
  BY <1>2, <1>3 DEF ClickInv
<1> QED
  BY <1>5, <1>6, <1>7, <1>8 DEF ActionsInv

LEMMA ActionsStutter == ActionsInv /\ UNCHANGED saVars => ActionsInv'
<1> SUFFICES ASSUME ActionsInv, UNCHANGED saVars PROVE ActionsInv'
  OBVIOUS
<1>1. /\ saServer' = saServer /\ saCache' = saCache /\ saEntry' = saEntry
      /\ saActing' = saActing /\ saShown' = saShown /\ saMut' = saMut /\ saOps' = saOps
      /\ saScope' = saScope /\ saSwitch' = saSwitch /\ saCancelled' = saCancelled
      /\ saLoose' = saLoose /\ saBlind' = saBlind /\ saBackend' = saBackend
  BY DEF saVars, saBackend
<1>2. ActionsTyped /\ MutInv /\ ShownInv /\ SwitchInv
  BY DEF ActionsInv
<1>3. ActionsTyped' /\ MutInv' /\ SwitchInv'
  BY <1>1, <1>2 DEF ActionsTyped, MutInv, SwitchInv, OfOp
<1>4. ShownInv'
  BY <1>1, <1>2 DEF ShownInv
<1> QED
  BY <1>1, <1>3, <1>4, ClicksStay DEF ActionsInv

LEMMA ActionsKeep == ActionsInv /\ StatusActionsNext => ActionsInv'
<1> SUFFICES ASSUME ActionsInv, StatusActionsNext PROVE ActionsInv'
  OBVIOUS
<1>1. CASE \E op \in OpIds : OnPage(op)
  BY <1>1, ClickActionKeeps, ViewerReadFailsKeeps, ApplyViewerStateKeeps, TakeAnswerKeeps,
     LoseAnswerKeeps, DecideKeeps DEF OnPage
<1>2. CASE \E op \in OpIds : InBackend(op)
  BY <1>2, ReadViewerStateKeeps, RegisterCommandKeeps, ResolveTargetKeeps, CallProviderKeeps,
     SaveViewerStateKeeps, SaveEntryKeeps, CancelCommandKeeps DEF InBackend
<1>3. CASE \E to \in SaAccts : BeginSwitch(to)
  BY <1>3, BeginSwitchKeeps
<1>4. CASE \E ok \in BOOLEAN : SwitchAnswers(ok)
  BY <1>4, SwitchAnswersKeeps
<1>5. CASE \E fails \in BOOLEAN : ReconcileReads(fails)
  BY <1>5, ReconcileReadsKeeps
<1>6. CASE ReconcileShows
  BY <1>6, ReconcileShowsKeeps
<1> QED
  BY <1>1, <1>2, <1>3, <1>4, <1>5, <1>6 DEF StatusActionsNext

LEMMA RestingShowsTheFlag == ActionsInv => RestingFlagIsTrue
<1> SUFFICES ASSUME ActionsInv, saSwitch.step = "none", saMut.phase # "pending", ~saBlind,
                    saActing \notin saLoose, \A op \in OpIds : ~CommandRuns(op)
             PROVE  /\ saShown = saCache[saActing]
                    /\ saCache[saActing] = saServer[saActing]
                    /\ saEntry[saActing] = saCache[saActing]
  BY DEF RestingFlagIsTrue
<1>1. saActing \in SaAccts /\ ShownInv /\ StoredInv
  BY DEF ActionsInv, ActionsTyped
<1>2. \A op \in OpIds : saOps[op].cmd \notin {"acted", "saved"}
  BY DEF CommandRuns
<1>3. saShown = saCache[saActing]
  BY <1>1 DEF ShownInv
<1> QED
  BY <1>1, <1>2, <1>3 DEF StoredInv

\* Whatever accounts acted and whatever was cancelled, lost or refused before: once the page is
\* at rest, the flag it shows is the one the acting account has on its server, in the cache and
\* in its list (actionStatus, switchAccount and the commands they call).
THEOREM RestingFlagsAreTrue == StatusActionsSpec => []RestingFlagIsTrue
<1>1. StatusActionsInit => ActionsInv
  BY ActionsInitially
<1>2. ActionsInv /\ [StatusActionsNext]_saVars => ActionsInv'
  BY ActionsKeep, ActionsStutter
<1> QED
  BY <1>1, <1>2, RestingShowsTheFlag, PTL DEF StatusActionsSpec

-----------------------------------------------------------------------------
(***************************************************************************)
(* The deletion of a post.                                                 *)
(***************************************************************************)

DelCopies == Mine \union {"asked"}

DeletionTyped ==
    /\ pdServer \subseteq Mine
    /\ pdCache \subseteq PdRows /\ pdPages \subseteq PdRows
    /\ pdTargets \in Seq(DelCopies)
    /\ pdState \in {"snapshot", "before", "deleting", "after", "cleaning", "ok"}
         => pdRemote \in Mine
    /\ pdHook \in Mine \union {NoCopy}

LeftToClean == {pdTargets[i] : i \in DOMAIN pdTargets}

\* The clean-up begins only when the server has lost a post, and whatever it has not failed
\* over is gone or still to be cleaned.
DeletionInv ==
    /\ DeletionTyped
    /\ pdState \in {"after", "cleaning"} => ~(Mine \subseteq pdServer)
    /\ pdState = "cleaning" /\ ~pdFailed =>
         \A row \in pdCache \ pdSaved : row[1] \in Required => row[1] \in LeftToClean
    /\ DeletedIsNotCached /\ RefusedDeletesNothing

LEMMA RowsOf ==
    ASSUME NEW row \in PdRows
    PROVE  row[1] \in DelCopies /\ row \in CleanedRows(row[1])
  BY DEF PdRows, CleanedRows, DelCopies

\* What the clean-up of a deletion goes through.
LEMMA TargetsAre ==
    ASSUME NEW hook \in Mine \union {NoCopy}, pdRemote \in Mine,
           NEW targets, targets = DeleteCleanupTargets(hook)
    PROVE  /\ targets \in Seq(DelCopies)
           /\ \A post \in Required : \E i \in DOMAIN targets : targets[i] = post
<1>1. ShownCopy \in DelCopies /\ pdRemote \in DelCopies
  BY DEF ShownCopy, DelCopies, Mine
<1> DEFINE second == IF pdRemote = ShownCopy THEN <<>> ELSE <<pdRemote>>
           third == IF hook \in {NoCopy, ShownCopy, pdRemote} THEN <<>> ELSE <<hook>>
<1>2. second \in Seq(DelCopies) /\ third \in Seq(DelCopies) /\ <<ShownCopy>> \in Seq(DelCopies)
  <2>1. hook \notin {NoCopy, ShownCopy, pdRemote} => hook \in DelCopies
    BY DEF DelCopies
  <2> QED
    BY <1>1, <2>1
<1>3. targets = (<<ShownCopy>> \o second) \o third
  BY DEF DeleteCleanupTargets
<1>4. Len(<<ShownCopy>>) = 1 /\ <<ShownCopy>>[1] = ShownCopy
  OBVIOUS
<1>5. pdRemote # ShownCopy => Len(second) = 1 /\ second[1] = pdRemote
  OBVIOUS
<1> HIDE DEF second, third
<1>6. <<ShownCopy>> \o second \in Seq(DelCopies)
      /\ Len(<<ShownCopy>> \o second) = 1 + Len(second)
      /\ (<<ShownCopy>> \o second)[1] = ShownCopy
      /\ (Len(second) = 1 => (<<ShownCopy>> \o second)[2] = second[1])
  BY <1>2, <1>4, ConcatProperties
<1>7. PICK required \in Seq(DelCopies) : required = <<ShownCopy>> \o second
  BY <1>6
<1>8. targets \in Seq(DelCopies) /\ Len(targets) = Len(required) + Len(third)
      /\ \A i \in 1..Len(required) : targets[i] = required[i]
  BY <1>2, <1>3, <1>7, ConcatProperties
<1>9. Len(second) \in Nat /\ Len(third) \in Nat /\ DOMAIN targets = 1..Len(targets)
  BY <1>2, <1>8, LenProperties
<1>10. 1 \in DOMAIN targets /\ targets[1] = ShownCopy
  BY <1>6, <1>7, <1>8, <1>9
<1>11. pdRemote # ShownCopy => 2 \in DOMAIN targets /\ targets[2] = pdRemote
  BY <1>5, <1>6, <1>7, <1>8, <1>9
<1> QED
  BY <1>8, <1>10, <1>11 DEF Required

LEMMA DeletionStarts == ASSUME PostDeletionInit PROVE DeletionInv
<1>1. pdTargets = <<>> /\ <<>> \in Seq(DelCopies)
  BY DEF PostDeletionInit
<1>2. pdState = "idle" /\ pdHook = NoCopy /\ pdServer = Mine /\ pdCache \subseteq PdRows
      /\ pdPages = {} /\ pdLost = {}
  BY DEF PostDeletionInit
<1> QED
  BY <1>1, <1>2 DEF DeletionInv, DeletionTyped, DeletedIsNotCached, RefusedDeletesNothing

\* A step that leaves the clean-up alone.
LEMMA BeforeCleaningKeeps ==
    ASSUME DeletionInv, DeletionTyped', pdState' \notin {"cleaning", "ok"},
           pdState' = "after" => ~(Mine \subseteq pdServer'), pdLost' = pdLost
    PROVE  DeletionInv'
  BY DEF DeletionInv, DeletedIsNotCached, RefusedDeletesNothing

LEMMA RefuseKeeps == ASSUME DeletionInv, RefuseDelete PROVE DeletionInv'
<1>1. DeletionTyped'
  BY DEF RefuseDelete, DeletionInv, DeletionTyped, pdData
<1> QED
  BY <1>1, BeforeCleaningKeeps DEF RefuseDelete, pdData

LEMMA AskKeeps ==
    ASSUME DeletionInv, NEW hooks \in SUBSET {"before", "after"}, AskDelete(hooks)
    PROVE  DeletionInv'
<1>1. pdTargets' = <<>> /\ <<>> \in Seq(DelCopies)
  BY DEF AskDelete
<1>2. pdState' = "resolving" /\ pdHook' = NoCopy
      /\ UNCHANGED <<pdServer, pdCache, pdPages, pdLost>>
  BY DEF AskDelete
<1>3. DeletionTyped'
  BY <1>1, <1>2 DEF DeletionInv, DeletionTyped
<1> QED
  BY <1>2, <1>3, BeforeCleaningKeeps

LEMMA ResolveKeeps == ASSUME DeletionInv, ResolveOwn PROVE DeletionInv'
<1>1. /\ pdRemote' = "own" /\ pdState' \in {"deleting", "snapshot"}
      /\ UNCHANGED <<pdServer, pdCache, pdPages, pdLost, pdHook, pdTargets>>
  BY DEF ResolveOwn, pdData
<1>2. DeletionTyped'
  BY <1>1 DEF DeletionInv, DeletionTyped, Mine
<1> QED
  BY <1>1, <1>2, BeforeCleaningKeeps

LEMMA ForgetKeeps == ASSUME DeletionInv, ForgetResolved PROVE DeletionInv'
  BY DEF ForgetResolved, pdData, pdRequest, DeletionInv, DeletionTyped, DeletedIsNotCached,
     RefusedDeletesNothing, LeftToClean, Required, ShownCopy

LEMMA SnapshotKeeps ==
    ASSUME DeletionInv, NEW ok \in BOOLEAN, TakeSnapshot(ok) PROVE DeletionInv'
<1>1. CASE RefuseDelete
  BY <1>1, RefuseKeeps
<1>2. CASE ~RefuseDelete
  <2>1. /\ pdHook' = IF ok THEN pdRemote ELSE NoCopy
        /\ pdState = "snapshot" /\ pdState' \in {"before", "deleting"}
        /\ UNCHANGED <<pdServer, pdCache, pdPages, pdLost, pdRemote, pdTargets>>
    BY <1>2 DEF TakeSnapshot, pdData
  <2>2. DeletionTyped'
    BY <2>1 DEF DeletionInv, DeletionTyped
  <2> QED
    BY <2>1, <2>2, BeforeCleaningKeeps
<1> QED
  BY <1>1, <1>2

LEMMA HookKeeps ==
    ASSUME DeletionInv, NEW post \in Mine \union {NoCopy}, RunBeforeHook(post)
    PROVE  DeletionInv'
<1>1. CASE RefuseDelete
  BY <1>1, RefuseKeeps
<1>2. CASE ~RefuseDelete
  <2>1. /\ post \in Mine /\ pdHook' = post /\ pdRemote' = post /\ pdState' = "deleting"
        /\ UNCHANGED <<pdServer, pdCache, pdPages, pdLost, pdTargets>>
    BY <1>2 DEF RunBeforeHook, pdData
  <2>2. DeletionTyped'
    BY <2>1 DEF DeletionInv, DeletionTyped
  <2> QED
    BY <2>1, <2>2, BeforeCleaningKeeps
<1> QED
  BY <1>1, <1>2

\* Only a post the server had is deleted there.
LEMMA CallKeeps ==
    ASSUME DeletionInv, NEW ok \in BOOLEAN, CallDelete(ok) PROVE DeletionInv'
<1>1. CASE RefuseDelete
  BY <1>1, RefuseKeeps
<1>2. CASE ~RefuseDelete
  <2>1. /\ ok /\ pdRemote \in pdServer /\ pdServer' = pdServer \ {pdRemote}
        /\ pdState = "deleting" /\ pdState' = "after"
        /\ UNCHANGED <<pdCache, pdPages, pdLost, pdTargets, pdRemote, pdHook>>
    BY <1>2 DEF CallDelete, Deletes
  <2>2. DeletionTyped'
    BY <2>1 DEF DeletionInv, DeletionTyped
  <2>3. ~(Mine \subseteq pdServer')
    BY <2>1 DEF DeletionInv, DeletionTyped
  <2> QED
    BY <2>1, <2>2, <2>3, BeforeCleaningKeeps
<1> QED
  BY <1>1, <1>2

LEMMA LoseKeeps == ASSUME DeletionInv, LoseDeleteAnswer PROVE DeletionInv'
<1>1. /\ pdServer' = pdServer \ {pdRemote} /\ pdState' = "error"
      /\ UNCHANGED <<pdCache, pdPages, pdLost, pdTargets, pdRemote, pdHook>>
  BY DEF LoseDeleteAnswer
<1>2. DeletionTyped'
  BY <1>1 DEF DeletionInv, DeletionTyped
<1> QED
  BY <1>1, <1>2, BeforeCleaningKeeps

LEMMA AfterHookKeeps ==
    ASSUME DeletionInv, NEW post \in Mine \union {NoCopy}, RunAfterHook(post)
    PROVE  DeletionInv'
<1>1. PICK hook \in Mine \union {NoCopy} :
         pdHook' = hook /\ pdTargets' = DeleteCleanupTargets(hook)
  <2>1. pdHook \in Mine \union {NoCopy}
    BY DEF DeletionInv, DeletionTyped
  <2>2. (IF "after" \in pdHooks /\ pdHook # NoCopy /\ post # NoCopy THEN post ELSE pdHook)
        \in Mine \union {NoCopy}
    BY <2>1
  <2> QED
    BY <2>2 DEF RunAfterHook
<1>2. /\ pdState = "after" /\ pdState' = "cleaning" /\ pdRemote \in Mine
      /\ UNCHANGED <<pdServer, pdCache, pdPages, pdSaved, pdLost, pdLocal, pdRemote>>
  BY DEF RunAfterHook, pdData, DeletionInv, DeletionTyped
<1>3. PICK targets : targets = pdTargets'
  OBVIOUS
<1>4. /\ targets \in Seq(DelCopies)
      /\ \A p \in Required : \E i \in DOMAIN targets : targets[i] = p
  BY <1>1, <1>2, <1>3, TargetsAre
<1>5. Required' = Required
  BY <1>2 DEF Required, ShownCopy
<1>6. DeletionTyped'
  BY <1>1, <1>2, <1>3, <1>4 DEF DeletionInv, DeletionTyped
<1>7. Required \subseteq LeftToClean'
  BY <1>3, <1>4 DEF LeftToClean
<1>8. ~(Mine \subseteq pdServer') /\ pdLost' = {}
  BY <1>2 DEF DeletionInv, RefusedDeletesNothing
<1> QED
  BY <1>2, <1>5, <1>6, <1>7, <1>8 DEF DeletionInv, DeletedIsNotCached, RefusedDeletesNothing

LEMMA CleanKeeps ==
    ASSUME DeletionInv, NEW ok \in BOOLEAN, CleanTarget(ok) PROVE DeletionInv'
<1>1. pdTargets # <<>> /\ pdTargets \in Seq(DelCopies) /\ pdState = "cleaning"
  BY DEF CleanTarget, DeletionInv, DeletionTyped
<1>0. PICK target, gone :
        target = Head(pdTargets) /\ gone = (IF ok THEN CleanedRows(target) ELSE {})
  OBVIOUS
<1>2. /\ target = pdTargets[1] /\ gone = (IF ok THEN CleanedRows(target) ELSE {})
      /\ pdCache' = pdCache \ gone /\ pdSaved' = pdSaved \ gone
      /\ pdLost' = pdLost \union {row \in pdCache \intersect gone : Mine \subseteq pdServer}
      /\ pdFailed' = (pdFailed \/ (~ok /\ target \in Required))
      /\ pdTargets' = Tail(pdTargets)
  <2>1. target = pdTargets[1]
    BY <1>0, <1>1, HeadTailProperties
  <2>2. /\ pdCache' = pdCache \ gone /\ pdSaved' = pdSaved \ gone
        /\ pdLost' = pdLost \union {row \in pdCache \intersect gone : Mine \subseteq pdServer}
        /\ pdTargets' = Tail(pdTargets)
    BY <1>0 DEF CleanTarget
  <2>3. pdFailed' = (pdFailed \/ (~ok /\ target \in Required))
    BY <1>0, Zenon DEF CleanTarget
  <2> QED
    BY <1>0, <2>1, <2>2, <2>3
<1>3. UNCHANGED <<pdServer, pdPages, pdLocal, pdState, pdRemote, pdHook>>
  BY DEF CleanTarget
<1>4. /\ Tail(pdTargets) \in Seq(DelCopies)
      /\ \A i \in DOMAIN pdTargets : i # 1 => i - 1 \in DOMAIN Tail(pdTargets)
                                              /\ Tail(pdTargets)[i - 1] = pdTargets[i]
  <2>1. /\ Tail(pdTargets) \in Seq(DelCopies) /\ Len(Tail(pdTargets)) = Len(pdTargets) - 1
        /\ \A i \in 1..Len(Tail(pdTargets)) : Tail(pdTargets)[i] = pdTargets[i + 1]
    BY <1>1, HeadTailProperties
  <2>2. Len(pdTargets) \in Nat /\ DOMAIN pdTargets = 1..Len(pdTargets)
        /\ DOMAIN Tail(pdTargets) = 1..Len(Tail(pdTargets))
    BY <1>1, <2>1, LenProperties
  <2> SUFFICES ASSUME NEW i \in DOMAIN pdTargets, i # 1
               PROVE  i - 1 \in DOMAIN Tail(pdTargets) /\ Tail(pdTargets)[i - 1] = pdTargets[i]
    BY <2>1
  <2>3. i \in 1..Len(pdTargets)
    BY <2>2
  <2>4. i - 1 \in 1..Len(Tail(pdTargets)) /\ (i - 1) + 1 = i
    BY <2>1, <2>2, <2>3
  <2>5. Tail(pdTargets)[i - 1] = pdTargets[(i - 1) + 1]
    BY <2>1, <2>4
  <2> QED
    BY <2>2, <2>4, <2>5
<1>5. \A p \in LeftToClean : p = target \/ p \in LeftToClean'
  <2> SUFFICES ASSUME NEW p \in LeftToClean, p # target PROVE p \in LeftToClean'
    OBVIOUS
  <2>1. PICK i \in DOMAIN pdTargets : pdTargets[i] = p
    BY DEF LeftToClean
  <2>2. i - 1 \in DOMAIN Tail(pdTargets) /\ Tail(pdTargets)[i - 1] = p
    BY <1>2, <1>4, <2>1
  <2>3. i - 1 \in DOMAIN pdTargets' /\ pdTargets'[i - 1] = p
    BY <1>2, <2>2
  <2> QED
    BY <2>3 DEF LeftToClean
<1>6. DeletionTyped'
  BY <1>1, <1>2, <1>3, <1>4 DEF DeletionInv, DeletionTyped
<1>7. Required' = Required
  BY <1>3 DEF Required, ShownCopy
<1>8. ASSUME ~pdFailed', NEW row \in pdCache' \ pdSaved', row[1] \in Required
      PROVE  row[1] \in LeftToClean'
  <2>1. row \in pdCache \ pdSaved /\ row \notin gone /\ row \in PdRows /\ ~pdFailed
    BY <1>2, <1>8 DEF DeletionInv, DeletionTyped
  <2>2. row[1] \in LeftToClean
    BY <1>1, <1>8, <2>1 DEF DeletionInv
  <2>3. row[1] # target
    BY <1>2, <1>8, <2>1, RowsOf
  <2> QED
    BY <1>5, <2>2, <2>3
<1>9. ~(Mine \subseteq pdServer') /\ pdLost' = {}
  BY <1>1, <1>2, <1>3 DEF DeletionInv, RefusedDeletesNothing
<1> QED
  BY <1>1, <1>3, <1>6, <1>7, <1>8, <1>9 DEF DeletionInv, DeletedIsNotCached,
     RefusedDeletesNothing

LEMMA AnswerKeeps == ASSUME DeletionInv, AnswerDelete PROVE DeletionInv'
<1>1. /\ pdState = "cleaning" /\ pdTargets = <<>>
      /\ pdState' = IF pdFailed THEN "error" ELSE "ok"
      /\ UNCHANGED <<pdServer, pdCache, pdPages, pdSaved, pdLost, pdLocal, pdRemote, pdHook,
                     pdTargets>>
  BY DEF AnswerDelete, pdData
<1>2. DeletionTyped'
  BY <1>1 DEF DeletionInv, DeletionTyped
<1>3. LeftToClean = {} /\ Required' = Required
  BY <1>1 DEF LeftToClean, Required, ShownCopy
<1>4. DeletedIsNotCached'
  BY <1>1, <1>3 DEF DeletionInv, DeletedIsNotCached, Required
<1> QED
  BY <1>1, <1>2, <1>4 DEF DeletionInv, RefusedDeletesNothing

LEMMA ReadersKeep ==
    ASSUME DeletionInv, SaveRow \/ \E row \in PdRows : FetchRow(row)
    PROVE  DeletionInv'
<1>1. /\ UNCHANGED <<pdServer, pdLost, pdLocal, pdRemote, pdHook, pdTargets, pdState, pdFailed>>
      /\ pdCache' \subseteq PdRows /\ pdPages' \subseteq PdRows
      /\ \/ pdCache' = pdCache /\ pdSaved' = pdSaved
         \/ pdCache' = pdCache \union pdPages /\ pdSaved' = pdSaved \union pdPages
  BY DEF SaveRow, FetchRow, pdRequest, DeletionInv, DeletionTyped
<1>2. \A row \in pdCache' \ pdSaved' : row \in pdCache \ pdSaved
  BY <1>1
<1>3. Required' = Required /\ LeftToClean' = LeftToClean /\ ShownCopy' = ShownCopy
  BY <1>1 DEF Required, ShownCopy, LeftToClean
<1>4. DeletionTyped'
  BY <1>1 DEF DeletionInv, DeletionTyped
<1> QED
  BY <1>1, <1>2, <1>3, <1>4 DEF DeletionInv, DeletedIsNotCached, RefusedDeletesNothing

\* Of the model of the deletion of a post: after one that answered well neither the copy that
\* was shown nor the post that was deleted is cached, but for what a page fetched earlier
\* saves afterwards, and nothing leaves the cache unless the server deleted a post, for any
\* hooks, failing steps and number of requests (delete_own_status, delete_cleanup_targets).
THEOREM DeletionsAreTrue ==
    PostDeletionSpec => [](DeletedIsNotCached /\ RefusedDeletesNothing)
<1>1. PostDeletionInit => DeletionInv
  BY DeletionStarts
<1>2. DeletionInv /\ [PostDeletionNext]_pdVars => DeletionInv'
  <2>1. ASSUME DeletionInv, UNCHANGED pdVars PROVE DeletionInv'
    BY <2>1 DEF pdVars, pdRequest, DeletionInv, DeletionTyped, DeletedIsNotCached,
       RefusedDeletesNothing, LeftToClean, Required, ShownCopy
  <2>2. ASSUME DeletionInv, ResolveFails PROVE DeletionInv'
    BY <2>2, RefuseKeeps DEF ResolveFails
  <2> QED
    BY <2>1, <2>2, AskKeeps, ResolveKeeps, ForgetKeeps, SnapshotKeeps, HookKeeps, CallKeeps,
       LoseKeeps, AfterHookKeeps, CleanKeeps, AnswerKeeps, ReadersKeep DEF PostDeletionNext
<1>3. DeletionInv => DeletedIsNotCached /\ RefusedDeletesNothing
  BY DEF DeletionInv
<1> QED
  BY <1>1, <1>2, <1>3, PTL DEF PostDeletionSpec

\* What is done to a post of the page, for any accounts, clicks, changes of account, requests
\* and hooks: actionStatus, switchAccount and delete_own_status with the commands they call.
THEOREM PostActionsAreTrue == StatusActionsSpec /\ PostDeletionSpec => []ActionsAreTrue
<1>1. RestingFlagIsTrue /\ DeletedIsNotCached /\ RefusedDeletesNothing => ActionsAreTrue
  BY DEF ActionsAreTrue
<1> QED
  BY <1>1, RestingFlagsAreTrue, DeletionsAreTrue, PTL
=============================================================================
