---------------------------- MODULE MediaFiles ------------------------------
(***************************************************************************)
(* Files on their way to a post (state/media_upload.rs, the upload         *)
(* commands of application/compose.rs, api/mediaUpload.ts): an upload is   *)
(* begun, appended to in chunks and finished; its temporary file belongs   *)
(* to the pending upload and then to the CompletedUpload.  A file dropped  *)
(* on the window is read directly, with a capability that is spent once.   *)
(***************************************************************************)
EXTENDS Integers, FiniteSets

CONSTANTS Uploads, UpAccounts,
          UpChunks,                  \* chunks of every file
          DropTtl,                   \* CAPABILITY_TTL, in ticks
          MaxUpTicks, MaxDrops, MaxLogouts        \* bounds

ASSUME UpAssumption == UpChunks \in Nat \ {0} /\ DropTtl \in Nat \ {0}

VARIABLES
    up,            \* upload -> [at, acct, written, bytes, failing, old, late]: where it is, the
                   \* chunks counted and on disk, a failed write that was not told yet, past its
                   \* TTL, made pending when its account was leaving (ghost)
    upClient,      \* upload -> what uploadBrowserFile does next
    upFiles,       \* uploads whose temporary file exists
    upLeaked,      \* ghost: uploads whose file was left behind
    upSignedIn,    \* accounts with a session
    upLeaving,     \* accounts being logged out
    upLogouts,
    dropAllowed,   \* dropped_paths: when the dropped path expires, 0 without
    dropTokens,    \* drop_capabilities: set of [drop, until]
    dropClock, dropAt, dropCount, dropUsed     \* ghosts but the clock: last drop, drops, uses

upOnly == <<up, upClient, upFiles, upLeaked, upSignedIn, upLeaving, upLogouts>>
dropVars == <<dropAllowed, dropTokens, dropClock, dropAt, dropCount, dropUsed>>
upVars == <<upOnly, dropVars>>

NoUpload == [at |-> "none", acct |-> 0, written |-> 0, bytes |-> 0, failing |-> FALSE,
             old |-> FALSE, late |-> FALSE]
UpPending(u) == up[u].at = "pending"
Owned == {u \in Uploads : up[u].at \in {"made", "pending", "closing", "completed", "sending"}}

\* Mutant of FilesAfter: the uploads are forgotten, their files stay.
FilesAfterKept(gone) == upFiles

FilesAfter(gone) == upFiles \ gone

\* The files of uploads nobody holds any more, beside the `new` ones.  Nobody looks whether a
\* removal succeeded (`let _ = remove_file`): the files of `stuck` stay.
RemoveFiles(gone, new) ==
    \E stuck \in SUBSET gone :
       /\ upFiles' = FilesAfter(gone \ stuck) \union new
       /\ upLeaked' = upLeaked \union stuck

\* Uploads that leave `pending`, or the CompletedUpload that is dropped.
Discard(gone) ==
    /\ up' = [u \in Uploads |-> IF u \in gone THEN [up[u] EXCEPT !.at = "gone"] ELSE up[u]]
    /\ RemoveFiles(gone, {})

-----------------------------------------------------------------------------

\* begin_compose_media_upload: the account has a session; expired uploads go; the file is made.
BeginUpload(u) ==
    /\ up[u].at = "none" /\ upClient[u] = "begin"
    /\ \E a \in upSignedIn :
          LET expired == {v \in Uploads : UpPending(v) /\ up[v].old} IN
          /\ up' = [v \in Uploads |->
                       IF v = u THEN [NoUpload EXCEPT !.at = "made", !.acct = a]
                       ELSE IF v \in expired THEN [up[v] EXCEPT !.at = "gone"] ELSE up[v]]
          /\ RemoveFiles(expired, {u})
    /\ UNCHANGED <<upClient, upSignedIn, upLeaving, upLogouts, dropVars>>

\* The upload is in the map; the id goes to the page, if it is still there.
InsertUpload(u) ==
    /\ up[u].at = "made"
    /\ up' = [up EXCEPT ![u].at = "pending",
                        ![u].late = up[u].acct \notin upSignedIn \ upLeaving]
    /\ upClient' = IF upClient[u] = "begin" THEN [upClient EXCEPT ![u] = "send"] ELSE upClient
    /\ UNCHANGED <<upFiles, upLeaked, upSignedIn, upLeaving, upLogouts, dropVars>>

\* append: a write is buffered, so that its failure is told by the write after it.
\* uploadBrowserFile gives up at the first error and cancels the upload.
AppendChunk(u) ==
    /\ upClient[u] = "send" /\ up[u].written < UpChunks
    /\ IF UpPending(u) /\ ~up[u].failing
       THEN \/ /\ up' = [up EXCEPT ![u].written = @ + 1, ![u].bytes = @ + 1]
               /\ UNCHANGED upClient
            \/ /\ up' = [up EXCEPT ![u].written = @ + 1, ![u].failing = TRUE]
               /\ UNCHANGED upClient
       ELSE /\ upClient' = [upClient EXCEPT ![u] = "cancel"]
            /\ up' = [up EXCEPT ![u].failing = FALSE]
    /\ UNCHANGED <<upFiles, upLeaked, upSignedIn, upLeaving, upLogouts, dropVars>>

\* finish: the upload leaves the map; the bytes counted are compared with those declared.
FinishUpload(u) ==
    /\ upClient[u] = "send" /\ up[u].written = UpChunks
    /\ upClient' = [upClient EXCEPT ![u] = IF UpPending(u) THEN "wait" ELSE "cancel"]
    /\ up' = IF UpPending(u) THEN [up EXCEPT ![u].at = "closing"] ELSE up
    /\ UNCHANGED <<upFiles, upLeaked, upSignedIn, upLeaving, upLogouts, dropVars>>

\* Mutant of FlushFails: the file is not flushed before it is read back.
FlushFailsNever(u) == FALSE

FlushFails(u) == up[u].failing

\* flush, sync_all and validate_media_path: an error leaves the file to nobody.
CloseUpload(u) ==
    /\ up[u].at = "closing"
    /\ \/ /\ ~FlushFails(u)
          /\ up' = [up EXCEPT ![u].at = "completed"] /\ UNCHANGED <<upLeaked, upClient>>
       \/ /\ up' = [up EXCEPT ![u].at = "gone"] /\ upLeaked' = upLeaked \union {u}
          /\ upClient' = [upClient EXCEPT ![u] = IF @ = "wait" THEN "cancel" ELSE @]
    /\ UNCHANGED <<upFiles, upSignedIn, upLeaving, upLogouts, dropVars>>

\* finish_compose_media_upload looks for the account's session again.
SendUpload(u) ==
    /\ up[u].at = "completed"
    /\ IF up[u].acct \in upSignedIn
       THEN up' = [up EXCEPT ![u].at = "sending"] /\ UNCHANGED <<upFiles, upLeaked, upClient>>
       ELSE /\ Discard({u})
            /\ upClient' = [upClient EXCEPT ![u] = IF @ = "wait" THEN "cancel" ELSE @]
    /\ UNCHANGED <<upSignedIn, upLeaving, upLogouts, dropVars>>

\* upload_media answers, with an attachment or an error; CompletedUpload is dropped.
UploadAnswered(u) ==
    /\ up[u].at = "sending"
    /\ Discard({u})
    /\ \E next \in {"done", "cancel"} :
          upClient' = [upClient EXCEPT ![u] = IF @ = "wait" THEN next ELSE @]
    /\ UNCHANGED <<upSignedIn, upLeaving, upLogouts, dropVars>>

\* The signal is looked at between the chunks only; a page that goes away does nothing more.
AbortUpload(u) ==
    /\ \/ upClient[u] = "send" /\ upClient' = [upClient EXCEPT ![u] = "cancel"]
       \/ upClient[u] \notin {"lost", "done"} /\ upClient' = [upClient EXCEPT ![u] = "lost"]
    /\ UNCHANGED <<up, upFiles, upLeaked, upSignedIn, upLeaving, upLogouts, dropVars>>

\* cancel_compose_media_upload
CancelUpload(u) ==
    /\ upClient[u] = "cancel"
    /\ upClient' = [upClient EXCEPT ![u] = "done"]
    /\ Discard({u} \intersect {v \in Uploads : UpPending(v)})
    /\ UNCHANGED <<upSignedIn, upLeaving, upLogouts, dropVars>>

\* Ten minutes pass (UPLOAD_TTL); only the next begin looks.
UploadAges(u) ==
    /\ UpPending(u) /\ ~up[u].old
    /\ up' = [up EXCEPT ![u].old = TRUE]
    /\ UNCHANGED <<upClient, upFiles, upLeaked, upSignedIn, upLeaving, upLogouts, dropVars>>

\* Mutant of CancelsOf: the uploads are left to their TTL.
CancelsOfNone(a) == {}

CancelsOf(a) == {u \in Uploads : UpPending(u) /\ up[u].acct = a}

\* switch_active_account to another account: the uploads of the one before are cancelled.
SwitchAway(a) ==
    /\ upLogouts < MaxLogouts /\ upLogouts' = upLogouts + 1
    /\ a \in upSignedIn
    /\ Discard(CancelsOf(a))
    /\ UNCHANGED <<upClient, upSignedIn, upLeaving, dropVars>>

\* logout_account: the uploads first, the session after the row.
LogoutCancels(a) ==
    /\ upLogouts < MaxLogouts /\ upLogouts' = upLogouts + 1
    /\ a \in upSignedIn \ upLeaving
    /\ Discard(CancelsOf(a))
    /\ upLeaving' = upLeaving \union {a}
    /\ UNCHANGED <<upClient, upSignedIn, dropVars>>

LogoutForgets(a) ==
    /\ a \in upLeaving
    /\ upLeaving' = upLeaving \ {a} /\ upSignedIn' = upSignedIn \ {a}
    /\ UNCHANGED <<up, upClient, upFiles, upLeaked, upLogouts, dropVars>>

\* The process stops: no destructor runs, nothing looks for awayuki-upload-* files at the next
\* start, and a logout has removed the row or has not.
StopUploads ==
    /\ up' = [u \in Uploads |-> IF u \in Owned THEN [up[u] EXCEPT !.at = "gone"] ELSE up[u]]
    /\ upClient' = [u \in Uploads |-> IF up[u].at = "none" THEN upClient[u] ELSE "lost"]
    /\ upLeaked' = upLeaked \union Owned
    /\ upSignedIn' \in {upSignedIn, upSignedIn \ upLeaving} /\ upLeaving' = {}
    /\ UNCHANGED <<upFiles, upLogouts>>

-----------------------------------------------------------------------------

\* register_dropped_paths, from the window's own drop event.
RegisterDrop ==
    /\ dropCount < MaxDrops /\ dropCount' = dropCount + 1
    /\ dropAllowed' = dropClock + DropTtl /\ dropAt' = dropClock
    /\ UNCHANGED <<upOnly, dropTokens, dropClock, dropUsed>>

\* Mutant of TokenExpiry: the capability has a time of its own.
TokenExpiryAnew == dropClock + DropTtl

TokenExpiry == dropAllowed

\* claim_dropped_path: the path is allowed once.
ClaimDrop ==
    /\ dropAllowed > dropClock
    /\ dropTokens' = dropTokens \union {[drop |-> dropCount, until |-> TokenExpiry]}
    /\ dropAllowed' = 0
    /\ UNCHANGED <<upOnly, dropClock, dropAt, dropCount, dropUsed>>

\* Mutant of Spent: the capability can be used until it expires.
SpentNot(t) == dropTokens

Spent(t) == dropTokens \ {t}

\* consume_dropped_path: the capability is gone, whatever it is good for.
ConsumeDrop ==
    /\ \E t \in dropTokens :
          /\ dropTokens' = Spent(t)
          /\ dropUsed' = IF t.until > dropClock THEN dropUsed + 1 ELSE dropUsed
    /\ UNCHANGED <<upOnly, dropAllowed, dropClock, dropAt, dropCount>>

DropTick ==
    /\ dropClock < MaxUpTicks /\ dropClock' = dropClock + 1
    /\ UNCHANGED <<upOnly, dropAllowed, dropTokens, dropAt, dropCount, dropUsed>>

StopDrops ==
    /\ dropAllowed' = 0 /\ dropTokens' = {}
    /\ UNCHANGED <<dropClock, dropAt, dropCount, dropUsed>>

MediaUploadsInit ==
    /\ up = [u \in Uploads |-> NoUpload] /\ upClient = [u \in Uploads |-> "begin"]
    /\ upFiles = {} /\ upLeaked = {} /\ upSignedIn = UpAccounts /\ upLeaving = {}
    /\ upLogouts = 0
    /\ dropAllowed = 0 /\ dropTokens = {} /\ dropClock = 1 /\ dropAt = 0
    /\ dropCount = 0 /\ dropUsed = 0

\* The uploads of the page and the drops have nothing in common but the manager.
UploadsNext ==
    \/ \E u \in Uploads :
          \/ BeginUpload(u) \/ InsertUpload(u) \/ AppendChunk(u) \/ FinishUpload(u) \/ CloseUpload(u)
          \/ SendUpload(u) \/ UploadAnswered(u) \/ AbortUpload(u) \/ CancelUpload(u)
          \/ UploadAges(u)
    \/ \E a \in UpAccounts : SwitchAway(a) \/ LogoutCancels(a) \/ LogoutForgets(a)

DropsNext == RegisterDrop \/ ClaimDrop \/ ConsumeDrop \/ DropTick

-----------------------------------------------------------------------------

\* What goes to the server has every byte that was declared: finish compares the bytes it
\* counted, and a write that failed after it was counted is found by the flush.
SentIsWhole == \A u \in Uploads : up[u].at = "sending" => up[u].bytes = UpChunks

\* A temporary file is there as long as an upload has use for it and no longer, but for those
\* left behind: by a finish that failed, a removal that failed, or a stop of the process.
FilesHaveOwners == upFiles = Owned \union upLeaked

\* An account without a session has no pending upload that it had before it was logged out: only
\* one that came into the map while the logout was under way waits for its TTL.
LogoutsTakeUploads ==
    \A u \in Uploads : UpPending(u) /\ up[u].acct \notin upSignedIn => up[u].late

\* A dropped file is read at most once for each drop.
DropsAreSpentOnce == dropUsed <= dropCount

\* The 30 seconds are counted from the drop, through the claim to the read.
DropsExpire == dropUsed' # dropUsed => dropClock < dropAt + DropTtl

-----------------------------------------------------------------------------
(***************************************************************************)
(* download_media (application/media.rs) with its entry in the             *)
(* OperationCancellationManager: a file is chosen, a free name is found    *)
(* beside it, the body goes to a hidden .part file, and that is linked to  *)
(* the name.  Several downloads and other programs share the folder.       *)
(***************************************************************************)
CONSTANTS Downloads,
          DlNames,               \* the names unique_download_path tries, in order: 1..n
          DlBytes,               \* chunks of the body
          MaxDlStops             \* bound: stops of the process

Empty == "absent"
Other == "other"
ASSUME DlAssumption == DlNames \in Nat \ {0} /\ DlBytes \in Nat \ {0}
                       /\ Downloads \intersect {Empty, Other} = {}

VARIABLES
    dl,            \* download -> [at, name, bytes, token]: the step, the name chosen, the chunks
                   \* in the .part file, the cancellation token
    dlFolder,      \* name -> whose file it is
    dlWhole,       \* names whose file has every byte
    dlParts,       \* downloads whose .part file exists
    dlAnswer,      \* download -> the answer of its command
    dlDismissed,   \* ghost: downloads whose dialog was dismissed
    dlStops, dlOrphans   \* ghost: .part files left behind

dlVars == <<dl, dlFolder, dlWhole, dlParts, dlAnswer, dlDismissed, dlStops, dlOrphans>>

Idle == [at |-> "idle", name |-> 0, bytes |-> 0, token |-> FALSE]
Names == 1..DlNames
Files == <<dlFolder, dlWhole>>
Go(d, step) == dl' = [dl EXCEPT ![d].at = step]

\* The command answers, and its lease is dropped.
AnswerDownload(d, answer) ==
    /\ dl' = [dl EXCEPT ![d] = Idle]
    /\ dlAnswer' = [dlAnswer EXCEPT ![d] = answer]

\* With it the guard goes, which removes the .part file; nobody looks whether that succeeded.
GuardRemoves(d) ==
    \/ dlParts' = dlParts \ {d} /\ UNCHANGED dlOrphans
    \/ d \in dlParts /\ dlOrphans' = dlOrphans \union {d} /\ UNCHANGED dlParts

DownloadFails(d) == AnswerDownload(d, "error") /\ GuardRemoves(d)

BeginDownload(d) ==
    /\ dl[d].at = "idle" /\ dlAnswer[d] = "none"
    /\ Go(d, "choosing")
    /\ UNCHANGED <<Files, dlParts, dlAnswer, dlDismissed, dlStops, dlOrphans>>

\* unique_download_path: the first name that is free now.
FirstFree(n) == dlFolder[n] = Empty /\ \A k \in 1..(n - 1) : dlFolder[k] # Empty

ChooseName(d) ==
    /\ dl[d].at = "choosing"
    /\ \E n \in Names :
          /\ FirstFree(n)
          /\ dl' = [dl EXCEPT ![d].at = "connecting", ![d].name = n]
    /\ UNCHANGED <<Files, dlParts, dlAnswer, dlDismissed, dlStops, dlOrphans>>

\* The dialog was dismissed (macOS): the command answers Ok, as it does when the file is there.
DismissDialog(d) ==
    /\ dl[d].at = "choosing"
    /\ AnswerDownload(d, "ok")
    /\ dlDismissed' = dlDismissed \union {d}
    /\ UNCHANGED <<Files, dlParts, dlStops, dlOrphans>>

\* The server answers, and create_new makes the .part file.
Connect(d) ==
    /\ dl[d].at = "connecting"
    /\ Go(d, "streaming")
    /\ dlParts' = dlParts \union {d}
    /\ UNCHANGED <<Files, dlAnswer, dlDismissed, dlStops, dlOrphans>>

Chunk(d) ==
    /\ dl[d].at = "streaming" /\ dl[d].bytes < DlBytes
    /\ dl' = [dl EXCEPT ![d].bytes = @ + 1]
    /\ UNCHANGED <<Files, dlParts, dlAnswer, dlDismissed, dlStops, dlOrphans>>

\* The dialog, the answer and the body may each fail, as may a write, a flush and the sync.
StepFails(d) ==
    /\ dl[d].at \in {"choosing", "connecting", "streaming", "commit"}
    /\ DownloadFails(d)
    /\ UNCHANGED <<Files, dlDismissed, dlStops>>

\* Mutant of Listening: the token is looked at once more when the file is there.
ListeningAtEnd == {"choosing", "connecting", "streaming", "linked"}

\* The steps that are raced with the token.
Listening == {"choosing", "connecting", "streaming"}

Cancelled(d) ==
    /\ dl[d].token /\ dl[d].at \in Listening
    /\ AnswerDownload(d, "cancelled") /\ GuardRemoves(d)
    /\ UNCHANGED <<Files, dlDismissed, dlStops>>

\* cancel_media_download
CancelDownload(d) ==
    /\ dl[d].at # "idle" /\ ~dl[d].token
    /\ dl' = [dl EXCEPT ![d].token = TRUE]
    /\ UNCHANGED <<Files, dlParts, dlAnswer, dlDismissed, dlStops, dlOrphans>>

\* Mutant of BodyEnds: a connection that ends is the end of the body.
BodyEndsEarly(d) == TRUE

\* The body is over; a body cut short is an error of the stream.
BodyEnds(d) == dl[d].bytes = DlBytes

EndBody(d) ==
    /\ dl[d].at = "streaming" /\ BodyEnds(d)
    /\ Go(d, "commit")
    /\ UNCHANGED <<Files, dlParts, dlAnswer, dlDismissed, dlStops, dlOrphans>>

\* Mutant of CanLink: a rename instead of the link, which replaces what is there.
CanLinkAlways(d) == TRUE

\* hard_link refuses a name that was taken since it was chosen.
CanLink(d) == dlFolder[dl[d].name] = Empty

LinkPart(d) ==
    /\ dl[d].at = "commit"
    /\ IF CanLink(d)
       THEN /\ dlFolder' = [dlFolder EXCEPT ![dl[d].name] = d]
            /\ dlWhole' = IF dl[d].bytes = DlBytes THEN dlWhole \union {dl[d].name} ELSE dlWhole
            /\ Go(d, "linked") /\ UNCHANGED <<dlParts, dlAnswer, dlOrphans>>
       ELSE DownloadFails(d) /\ UNCHANGED Files
    /\ UNCHANGED <<dlDismissed, dlStops>>

\* Mutant of PartsAfter: disarm without the removal.
PartsAfterKept(d) == dlParts

PartsAfter(d) == dlParts \ {d}

\* The .part file goes; if that fails the guard, still armed, tries once more.
RemovePart(d) ==
    /\ dl[d].at = "linked"
    /\ \/ AnswerDownload(d, "ok") /\ dlParts' = PartsAfter(d) /\ UNCHANGED dlOrphans
       \/ DownloadFails(d)
    /\ UNCHANGED <<Files, dlDismissed, dlStops>>

\* Another program makes a file.
OtherFile ==
    /\ \E n \in Names :
          /\ dlFolder[n] = Empty
          /\ dlFolder' = [dlFolder EXCEPT ![n] = Other]
    /\ UNCHANGED <<dl, dlWhole, dlParts, dlAnswer, dlDismissed, dlStops, dlOrphans>>

\* The process stops: no destructor runs and nothing looks for .part files at the next start.
StopDownloads ==
    /\ dl' = [d \in Downloads |-> Idle]
    /\ dlAnswer' = [d \in Downloads |-> IF dl[d].at = "idle" THEN dlAnswer[d] ELSE "stopped"]
    /\ dlOrphans' = dlOrphans \union dlParts
    /\ UNCHANGED <<Files, dlParts, dlDismissed>>

MediaDownloadsInit ==
    /\ dl = [d \in Downloads |-> Idle]
    /\ dlFolder = [n \in Names |-> Empty] /\ dlWhole = {} /\ dlParts = {}
    /\ dlAnswer = [d \in Downloads |-> "none"]
    /\ dlDismissed = {} /\ dlStops = 0 /\ dlOrphans = {}

MediaDownloadsNext ==
    \/ OtherFile
    \/ \E d \in Downloads :
          \/ BeginDownload(d) \/ ChooseName(d) \/ DismissDialog(d) \/ Connect(d) \/ Chunk(d) \/ StepFails(d)
          \/ Cancelled(d) \/ CancelDownload(d) \/ EndBody(d) \/ LinkPart(d) \/ RemovePart(d)

-----------------------------------------------------------------------------

\* A download takes a name nobody has: what another download or program put there between the
\* look and the link stays.
NothingIsReplaced ==
    \A n \in Names : dlFolder[n] # Empty => dlFolder'[n] = dlFolder[n]

\* A file under its own name has every byte, whatever was cancelled, failed or stopped.
NamedFilesAreWhole == \A n \in Names : dlFolder[n] \in Downloads => n \in dlWhole

\* The answer says what is in the folder: a cancelled download left nothing, and one that is
\* done left its file, unless its dialog was dismissed, to which the command answers Ok too.
\* A failure says nothing: the file may be there, its .part not removed.
AnswersMatchFolder ==
    \A d \in Downloads :
       LET there == \E n \in Names : dlFolder[n] = d IN
       /\ dlAnswer[d] = "cancelled" => ~there
       /\ dlAnswer[d] = "ok" => (there <=> d \notin dlDismissed)

\* A .part file is there as long as its download is under way and no longer, but for those left
\* behind, by a removal that failed or a stop of the process.
PartsAreRemoved ==
    dlParts = {d \in Downloads : dl[d].at \in {"streaming", "commit", "linked"}}
              \union dlOrphans

-----------------------------------------------------------------------------

\* The process stops, and with it all three.
StopFiles ==
    /\ dlStops < MaxDlStops /\ dlStops' = dlStops + 1
    /\ StopUploads /\ StopDrops /\ StopDownloads

\* The three parts run side by side and share no state.
FilesInit == MediaUploadsInit /\ MediaDownloadsInit
FilesNext ==
    \/ UploadsNext /\ UNCHANGED dlVars
    \/ DropsNext /\ UNCHANGED dlVars
    \/ MediaDownloadsNext /\ UNCHANGED upVars
    \/ StopFiles

FilesSpec == FilesInit /\ [][FilesNext]_<<upVars, dlVars>>

\* Files (media_upload.rs, media.rs): what is sent is what was chosen, a temporary file goes
\* with its upload or is one of those left behind, a pending upload goes with its account, a
\* drop is read at most once, and under a name of the download folder there are only whole
\* files, those the answers speak of.
FilesAreWhole ==
    /\ SentIsWhole /\ FilesHaveOwners /\ LogoutsTakeUploads
    /\ DropsAreSpentOnce
    /\ NamedFilesAreWhole /\ AnswersMatchFolder /\ PartsAreRemoved
=============================================================================
