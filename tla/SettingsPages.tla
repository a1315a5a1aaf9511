--------------------------- MODULE SettingsPages ----------------------------
(***************************************************************************)
(* One setting on its way from the page to the database and back: the      *)
(* SettingsMutationCoordinator of the page, which sends one write at a     *)
(* time (domain/settingsMutations.ts), save_settings, which commits and    *)
(* then applies (application/preferences.rs), and load_setting, which      *)
(* resets a stored value that does not parse (application/settings.rs).    *)
(* The setting is that of the logger; an edit is its number.               *)
(***************************************************************************)
EXTENDS Integers, FiniteSets, Sequences, SequencesExt

CONSTANTS SgEdits,               \* edits the user makes: 1..n
          SgMaxResets,           \* bound: resets of the page's scope
          SgMaxFailures          \* bound: writes and answers that fail

SgDefault == 0
SgCorrupt == -1
ASSUME SgAssumption == {SgEdits, SgMaxResets, SgMaxFailures} \subseteq Nat

VARIABLES
    sgStored,      \* the value in app_settings
    sgBackups,     \* the values kept under _corrupt_backup
    sgReading,     \* a load_setting has read a value that does not parse
    sgSave,        \* edit -> [at, scope]: the step of its save_settings, the scope it is of;
                   \* at the end "over" or, when the answer was an error, "erred"
    sgLog,         \* the value the logger follows
    sgEntry,       \* [gen, phase, timer, flight, scope]: the page's entry; gen is the edit
                   \* that is its draft, flight the edit it waits for
    sgScope,       \* the scope of the coordinator
    sgFailures,
    sgRaced        \* ghost: <<d, e>>: d was under way in another scope when e was sent;
                   \* <<SgDefault, e>>: a reset meant for another value came after e

sgVars == <<sgStored, sgBackups, sgReading, sgSave, sgLog, sgEntry, sgScope, sgFailures, sgRaced>>
SgDatabase == <<sgStored, sgBackups, sgReading, sgLog>>
SgIds == 1..SgEdits
SgRunning == {e \in SgIds : sgSave[e].at \in {"sent", "committed", "applied"}}

\* enqueue: the draft is the newest edit at once, its write waits for the timer.
EnqueueEdit(e) ==
    /\ e = sgEntry.gen + 1 /\ e \in SgIds
    /\ sgEntry' = [sgEntry EXCEPT !.gen = e, !.phase = "dirty", !.timer = TRUE, !.scope = sgScope]
    /\ UNCHANGED <<SgDatabase, sgSave, sgScope, sgFailures, sgRaced>>

\* drain returns when there is nothing to send, and waits for the write in flight.
MayDrain == sgEntry.phase = "dirty" /\ sgEntry.flight = 0

\* The entry and the saves after the draft of entry was sent.
Sent(entry, saves) ==
    /\ sgEntry' = [entry EXCEPT !.phase = "saving", !.flight = entry.gen]
    /\ sgSave' = [saves EXCEPT ![entry.gen] = [at |-> "sent", scope |-> entry.scope]]
    /\ sgRaced' = sgRaced \union
                    ({d \in SgIds : saves[d].at \in {"sent", "committed", "applied"}
                                   /\ saves[d].scope # entry.scope} \X {entry.gen})

\* The timer fires, or the page flushes.
Drain ==
    /\ sgEntry.timer
    /\ LET entry == [sgEntry EXCEPT !.timer = FALSE] IN
       IF MayDrain
       THEN Sent(entry, sgSave)
       ELSE sgEntry' = entry /\ UNCHANGED <<sgSave, sgRaced>>
    /\ UNCHANGED <<SgDatabase, sgScope, sgFailures>>

\* Mutant of CommitFirst: the value is applied before it is committed.
CommitFirstNot == FALSE

\* commit_then_apply
CommitFirst == TRUE

Commit(e) ==
    /\ sgSave[e].at = "sent"
    /\ sgStored' = e
    /\ sgSave' = [sgSave EXCEPT ![e].at = "committed"]
    /\ sgLog' = IF CommitFirst THEN sgLog ELSE e
    /\ UNCHANGED <<sgBackups, sgReading, sgEntry, sgScope, sgFailures, sgRaced>>

CommitFails(e) ==
    /\ sgSave[e].at = "sent" /\ sgFailures < SgMaxFailures
    /\ sgFailures' = sgFailures + 1
    /\ sgSave' = [sgSave EXCEPT ![e].at = "failed"]
    /\ sgLog' = IF CommitFirst THEN sgLog ELSE e
    /\ UNCHANGED <<sgStored, sgBackups, sgReading, sgEntry, sgScope, sgRaced>>

\* The runtime effect; logging::enable may find that the log file cannot be opened, which ends
\* the save with an error although the value is committed.
Apply(e) ==
    /\ sgSave[e].at = "committed"
    /\ \/ /\ sgLog' = IF CommitFirst THEN e ELSE sgLog
          /\ sgSave' = [sgSave EXCEPT ![e].at = "applied"]
          /\ UNCHANGED sgFailures
       \/ /\ sgFailures < SgMaxFailures /\ sgFailures' = sgFailures + 1
          /\ sgSave' = [sgSave EXCEPT ![e].at = "failed"]
          /\ UNCHANGED sgLog
    /\ UNCHANGED <<sgStored, sgBackups, sgReading, sgEntry, sgScope, sgRaced>>

\* The answer is a snapshot of all settings: it fails when another of them does not parse.
AnswerSave(e) ==
    /\ sgSave[e].at = "applied"
    /\ \/ sgSave' = [sgSave EXCEPT ![e].at = "answered"] /\ UNCHANGED sgFailures
       \/ /\ sgFailures < SgMaxFailures /\ sgFailures' = sgFailures + 1
          /\ sgSave' = [sgSave EXCEPT ![e].at = "failed"]
    /\ UNCHANGED <<SgDatabase, sgEntry, sgScope, sgRaced>>

\* Mutant of AfterSave: the answer of an older edit marks the draft as saved.
AfterSaveOfAny(e) ==
    IF sgSave[e].scope # sgScope \/ sgSave[e].scope # sgEntry.scope
    THEN sgEntry.phase
    ELSE IF sgSave[e].at = "failed" THEN "failed" ELSE "saved"

\* What the answer of e makes of the draft: nothing in another scope, a failure whatever was
\* typed since, saved only if it is still the draft.
AfterSave(e) ==
    IF sgSave[e].scope # sgScope \/ sgSave[e].scope # sgEntry.scope
    THEN sgEntry.phase
    ELSE IF sgSave[e].at = "failed" THEN "failed"
    ELSE IF e = sgEntry.gen THEN "saved" ELSE "dirty"

\* Mutant of DrainsAgain: what was typed during the write waits for the next edit.
DrainsAgainNot(entry) == FALSE

\* The end of a write sends what was typed meanwhile, its timer or not.
DrainsAgain(entry) == entry.phase = "dirty" /\ entry.flight = 0

ReceiveSave(e) ==
    /\ sgSave[e].at \in {"answered", "failed"}
    /\ LET entry == [sgEntry EXCEPT !.phase = AfterSave(e),
                                    !.flight = IF @ = e THEN 0 ELSE @]
           saves == [sgSave EXCEPT ![e].at = IF @ = "failed" THEN "erred" ELSE "over"]
       IN IF DrainsAgain(entry)
          THEN Sent(entry, saves)
          ELSE sgEntry' = entry /\ sgSave' = saves /\ UNCHANGED sgRaced
    /\ UNCHANGED <<SgDatabase, sgScope, sgFailures>>

\* resetScope, and the seed of the snapshot that follows: the entry is a new one, which does
\* not know the write in flight.
ResetScope ==
    /\ sgScope < SgMaxResets
    /\ sgScope' = sgScope + 1
    /\ sgEntry' = [sgEntry EXCEPT !.phase = IF sgEntry.phase \in {"dirty", "saving"}
                                            THEN "conflict" ELSE "cancelled",
                                  !.timer = FALSE]
    /\ UNCHANGED <<SgDatabase, sgSave, sgFailures, sgRaced>>

Seed ==
    /\ sgEntry.phase \notin {"dirty", "saving"} /\ sgScope > 0
    /\ sgEntry' = [sgEntry EXCEPT !.phase = "idle", !.timer = FALSE, !.flight = 0,
                                  !.scope = sgScope]
    /\ UNCHANGED <<SgDatabase, sgSave, sgScope, sgFailures, sgRaced>>

\* load_setting, called for any snapshot: what does not parse is remembered,
ReadCorrupt ==
    /\ sgStored = SgCorrupt /\ ~sgReading
    /\ sgReading' = TRUE
    /\ UNCHANGED <<sgStored, sgBackups, sgLog, sgSave, sgEntry, sgScope, sgFailures, sgRaced>>

\* and backup_and_reset_corrupt_setting stores it aside and the default in its place, whatever
\* is there by now.
ResetCorrupt ==
    /\ sgReading
    /\ sgReading' = FALSE
    /\ sgBackups' = sgBackups \union {SgCorrupt}
    /\ sgStored' = SgDefault
    /\ sgRaced' = sgRaced \union
                    ({SgDefault} \X {e \in SgIds : sgStored # SgCorrupt
                                                  /\ sgSave[e].at \notin {"none", "sent"}})
    /\ UNCHANGED <<sgLog, sgSave, sgEntry, sgScope, sgFailures>>

SettingsStoreInit ==
    /\ sgStored \in {SgCorrupt, SgDefault} /\ sgBackups = {} /\ sgReading = FALSE
    /\ sgSave = [e \in SgIds |-> [at |-> "none", scope |-> 0]]
    /\ sgLog = SgDefault
    /\ sgEntry = [gen |-> 0, phase |-> "idle", timer |-> FALSE, flight |-> 0, scope |-> 0]
    /\ sgScope = 0 /\ sgFailures = 0 /\ sgRaced = {}

SettingsStoreNext ==
    \/ \E e \in SgIds : \/ EnqueueEdit(e) \/ Commit(e) \/ CommitFails(e) \/ Apply(e)
                        \/ AnswerSave(e) \/ ReceiveSave(e)
    \/ Drain \/ ResetScope \/ Seed \/ ReadCorrupt \/ ResetCorrupt

\* Once every write ended, a draft the page shows as saved is the stored value.  Only a write of
\* a former scope that was still under way when the draft was sent may stand there instead, or
\* the default of a reset that was meant for another value: the code orders neither.
SavedIsStored ==
    sgEntry.phase = "saved" /\ SgRunning = {} =>
    sgStored = sgEntry.gen \/ <<sgStored, sgEntry.gen>> \in sgRaced

\* A draft that waits to be sent has a timer or a write whose end sends it.
DraftsAreSent == sgEntry.phase = "dirty" => sgEntry.timer \/ sgEntry.flight # 0

\* Once every write ended the logger follows the stored edit, unless its save answered with an
\* error, or overlapped with that of the edit the logger follows.
LoggingIsStored ==
    SgRunning = {} /\ sgStored \in SgIds =>
    \/ sgLog = sgStored
    \/ sgSave[sgStored].at \in {"failed", "erred"}
    \/ {<<sgLog, sgStored>>, <<sgStored, sgLog>>} \intersect sgRaced # {}

-----------------------------------------------------------------------------
(***************************************************************************)
(* The layout of the columns: save_columns (application/preferences.rs)    *)
(* puts what the page sends in order and stores it, columns                *)
(* (application/desktop.rs) reads it back, and a logout hands the columns  *)
(* of the account to another one (db/queries/settings.rs).                 *)
(*                                                                         *)
(* A column is [id, type, param, filter, pane, pos, acct].  A parameter is *)
(* NoParam, <<"text", t>>, or <<"wrap", t, f>>: an object of a text and a  *)
(* display filter, which is how the two are stored together.  A text the   *)
(* user typed may look like one.                                           *)
(***************************************************************************)
CONSTANTS ClLayouts,             \* layouts the page may send
          ClAccts,               \* accounts that may be signed in
          ClBluesky              \* those on Bluesky

ASSUME ClAssumption == ClBluesky \subseteq ClAccts

VARIABLES
    clAsked,       \* the layout the page sends
    clRows,        \* column_configs, in the order they are read
    clSigned,      \* accounts signed in
    clStep,        \* "sent", "saved", "refused" or "later"
    clHanded       \* ghost: a logout gave a Bluesky feed to an account of another kind

clVars == <<clAsked, clRows, clSigned, clStep, clHanded>>

NoParam == <<>>
NoSource == "no account"
Unfiltered == "none"
NotATimeline == <<>>
DefaultHome == [id |-> 0, type |-> "home", param |-> NoParam, filter |-> Unfiltered,
                pane |-> 0, pos |-> 0, acct |-> NoSource]

\* column_type_is_global, timeline_type_supports_display_filter
IsGlobal(type) == type \in {"home", "kq"}
HasFilter(type) == type # "kq"

\* plain_column_param: the text of a parameter.
PlainParam(p) == IF p = NoParam THEN "" ELSE p[2]

\* from_column_config: the timeline a column is of.
TimelineOf(type, p) ==
    IF type = "home" THEN <<"home">>
    ELSE IF type \in {"list", "feed", "kq"} /\ PlainParam(p) # "" THEN <<type, PlainParam(p)>>
    ELSE NotATimeline

\* encode_column_param_with_display_filter
EncodeParam(c) ==
    IF ~HasFilter(c.type) \/ c.filter = Unfiltered THEN c.param
    ELSE <<"wrap", PlainParam(c.param), c.filter>>

\* decode_column_param_with_display_filter
DecodeParam(type, p) ==
    IF HasFilter(type) /\ p # NoParam /\ p[1] = "wrap"
    THEN [param |-> IF p[2] = "" THEN NoParam ELSE <<"text", p[2]>>, filter |-> p[3]]
    ELSE [param |-> p, filter |-> Unfiltered]

\* Mutant of ComesFirst: the pane does not matter.
ComesFirstByPosition(c, d) == c.pos < d.pos

ComesFirst(c, d) == c.pane < d.pane \/ (c.pane = d.pane /\ c.pos < d.pos)

\* normalized_column_request: panes and the places in them are numbered without gaps.
OrderedLayout(layout) ==
    LET Before(i, j) == \/ ComesFirst(layout[i], layout[j])
                        \/ ~ComesFirst(layout[j], layout[i]) /\ i < j
        order == SetToSortSeq(DOMAIN layout, Before)
        cols == [k \in DOMAIN order |-> layout[order[k]]]
        PaneOf(k) == Cardinality({cols[j].pane : j \in 1..k} \ {cols[k].pane})
        Earlier(k) == {j \in 1..k - 1 : cols[j].pane = cols[k].pane}
    IN [k \in DOMAIN cols |-> [cols[k] EXCEPT !.pane = PaneOf(k), !.pos = Cardinality(Earlier(k))]]

\* validate_timeline_column, and the account a column needs; "bad" is no query.
ColumnIsValid(c) ==
    /\ TimelineOf(c.type, c.param) # NotATimeline
    /\ c.type = "kq" => PlainParam(c.param) # "bad"
    /\ c.type = "feed" => c.acct \in clSigned \intersect ClBluesky
    /\ IsGlobal(c.type) \/ c.acct # NoSource

LayoutIsValid(layout) ==
    /\ \A k \in DOMAIN layout : ColumnIsValid(layout[k])
    /\ \A k, l \in DOMAIN layout : layout[k].id = layout[l].id => k = l

\* What is stored for a layout.
RowsOf(layout) ==
    [k \in DOMAIN layout |-> LET c == OrderedLayout(layout)[k] IN
        [c EXCEPT !.param = EncodeParam(c), !.filter = Unfiltered,
                  !.acct = IF IsGlobal(c.type) THEN NoSource ELSE c.acct]]

\* columns and column_to_summary: what the page is given.
ColumnsOf(rows) ==
    IF rows = <<>> THEN <<DefaultHome>>
    ELSE LET known == SelectSeq(rows, LAMBDA c : TimelineOf(c.type, c.param) # NotATimeline)
         IN [k \in DOMAIN known |-> LET d == DecodeParam(known[k].type, known[k].param) IN
                [known[k] EXCEPT !.param = d.param, !.filter = d.filter]]

SaveLayout ==
    /\ clStep = "sent"
    /\ IF LayoutIsValid(OrderedLayout(clAsked))
       THEN clRows' = RowsOf(clAsked) /\ clStep' = "saved"
       ELSE clRows' = clRows /\ clStep' = "refused"
    /\ UNCHANGED <<clAsked, clSigned, clHanded>>

\* Mutant of HandedOver: columns nobody takes stay without an account.
HandedOverOrKept(acct, heir) ==
    [k \in DOMAIN clRows |-> IF clRows[k].acct = acct THEN [clRows[k] EXCEPT !.acct = heir]
                             ELSE clRows[k]]

\* remove_login_account_and_reassign: the columns of an account go to the next one, if any.
HandedOver(acct, heir) ==
    LET kept == SelectSeq(clRows, LAMBDA c : c.acct # acct \/ heir # NoSource)
    IN [k \in DOMAIN kept |-> IF kept[k].acct = acct THEN [kept[k] EXCEPT !.acct = heir]
                              ELSE kept[k]]

LogoutHandsOver(acct, heir) ==
    /\ clStep \in {"saved", "later"} /\ acct \in clSigned
    /\ heir \in IF clSigned = {acct} THEN {NoSource} ELSE clSigned \ {acct}
    /\ clSigned' = clSigned \ {acct} /\ clStep' = "later"
    /\ clRows' = HandedOver(acct, heir)
    /\ clHanded' = (clHanded \/ (heir # NoSource /\ heir \notin ClBluesky
                        /\ \E c \in ToSet(clRows) : c.type = "feed" /\ c.acct = acct))
    /\ UNCHANGED clAsked

ColumnLayoutInit ==
    /\ clAsked \in ClLayouts /\ clRows = <<>> /\ clSigned = ClAccts /\ clStep = "sent"
    /\ clHanded = FALSE

ColumnLayoutNext ==
    \/ SaveLayout
    \/ \E acct \in ClAccts, heir \in ClAccts \union {NoSource} : LogoutHandsOver(acct, heir)

LooksStored(c) == c.param # NoParam /\ c.param[1] = "wrap"

\* A layout that was accepted comes back whole, pane by pane and from left to right, every
\* column with its timeline, its filter where it may have one, and its account; a text that
\* looks like a stored parameter keeps its timeline only. An empty layout shows the home
\* timeline.
AcceptedLayoutComesBack ==
    clStep = "saved" /\ clAsked # <<>> =>
    LET shown == ColumnsOf(clRows) IN
    /\ Len(shown) = Len(clAsked)
    /\ \A c \in ToSet(clAsked) : \E k \in DOMAIN shown : LET s == shown[k] IN
         /\ s.id = c.id /\ TimelineOf(s.type, s.param) = TimelineOf(c.type, c.param)
         /\ LooksStored(c) \/ s.filter = IF HasFilter(c.type) THEN c.filter ELSE Unfiltered
         /\ IsGlobal(c.type) \/ s.acct = c.acct
         /\ \A d \in ToSet(clAsked) : \A l \in DOMAIN shown :
              shown[l].id = d.id =>
              /\ c.pane = d.pane <=> s.pane = shown[l].pane
              /\ c.pane < d.pane \/ (c.pane = d.pane /\ c.pos < d.pos) => k < l

\* What is shown can be saved again as it is, also after logouts, and changes nothing; a
\* Bluesky feed that was handed to an account of another kind is excepted.
ShownLayoutIsSavable ==
    clStep \in {"saved", "later"} /\ clRows # <<>> /\ ~clHanded =>
    LET shown == ColumnsOf(clRows) IN
    /\ LayoutIsValid(OrderedLayout(shown))
    /\ ColumnsOf(RowsOf(shown)) = [k \in DOMAIN shown |-> OrderedLayout(shown)[k]]
=============================================================================
