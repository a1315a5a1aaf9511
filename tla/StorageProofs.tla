---------------------------- MODULE StorageProofs ----------------------------
(***************************************************************************)
(* What the application keeps on disk: the files of the media commands and *)
(* the search index. For any number of uploads, accounts, drops and        *)
(* downloads, and whatever fails, is cancelled or stops, FilesAreWhole, a  *)
(* drop is read only while it is fresh, and a download never replaces a    *)
(* file of another one; and for any rows, batches, writes and restarts     *)
(* the searches answer what the rows hold. Beside them what is kept in     *)
(* memory of the posts that notifications speak of: a deleted one is not   *)
(* shown longer than an entry lives.                                       *)
(***************************************************************************)
EXTENDS MediaFiles, SearchEngine, SubjectCache, TLAPS, FiniteSetTheorems

fileVars == <<upVars, dlVars>>

-----------------------------------------------------------------------------
(* Uploads.                                                                *)

UpSteps == {"none", "made", "pending", "closing", "completed", "sending", "gone"}
Upload == [at : UpSteps, acct : UpAccounts \union {0}, written : Nat, bytes : Nat,
           failing : BOOLEAN, old : BOOLEAN, late : BOOLEAN]
UploadsTypeOK ==
    /\ up \in [Uploads -> Upload]
    /\ upClient \in [Uploads -> {"begin", "send", "wait", "cancel", "done", "lost"}]
    /\ upSignedIn \subseteq UpAccounts

(* The bytes of an upload on disk are those counted, unless a failed write *)
(* is still to be told: the flush of finish hears of it, and a page that   *)
(* was told sends nothing more.                                            *)
UploadCounted(u) ==
    /\ up[u].at \in {"none", "made"} =>
          up[u].written = 0 /\ up[u].bytes = 0 /\ ~up[u].failing
    /\ UpPending(u) /\ upClient[u] = "send" => up[u].failing \/ up[u].bytes = up[u].written
    /\ up[u].at = "closing" =>
          upClient[u] # "send" /\ (up[u].failing \/ up[u].bytes = UpChunks)
    /\ up[u].at \in {"completed", "sending"} => up[u].bytes = UpChunks

(* An upload that was pending before its account began to leave is gone    *)
(* with the first step of the logout.                                      *)
NotLeftBehind(u) ==
    UpPending(u) /\ up[u].acct \notin upSignedIn \ upLeaving => up[u].late

UploadsKept ==
    /\ UploadsTypeOK
    /\ \A u \in Uploads : UploadCounted(u) /\ NotLeftBehind(u)

(* A file that was left behind is of an upload that is over.               *)
FilesOwned ==
    /\ FilesHaveOwners
    /\ upLeaked \subseteq {u \in Uploads : up[u].at = "gone"}

UploadsInv == UploadsKept /\ FilesOwned

LEMMA UploadsStart == MediaUploadsInit => UploadsInv
  BY UpAssumption DEF MediaUploadsInit, UploadsInv, UploadsKept, UploadsTypeOK, UploadCounted,
     NotLeftBehind, FilesOwned, FilesHaveOwners, Owned, UpPending, NoUpload, Upload, UpSteps

(* The steps of one upload, with what they may do to the others: BeginUpload *)
(* and the logouts discard some.                                           *)
LEMMA UploadSteps ==
  ASSUME UploadsKept, NEW u \in Uploads,
         \/ BeginUpload(u)
         \/ InsertUpload(u)
         \/ AppendChunk(u)
         \/ FinishUpload(u)
         \/ CloseUpload(u)
         \/ SendUpload(u)
         \/ UploadAnswered(u)
         \/ AbortUpload(u)
         \/ CancelUpload(u)
         \/ UploadAges(u)
  PROVE  UploadsKept'
<1> USE UpAssumption DEF UploadsKept, UploadsTypeOK, UploadCounted, NotLeftBehind, UpPending, Upload,
        UpSteps
<1>1. CASE BeginUpload(u)
  <2>1. UploadsTypeOK'
    <3> DEFINE expired == {v \in Uploads : UpPending(v) /\ up[v].old}
    <3>1. PICK a \in UpAccounts :
               up' = [v \in Uploads |->
                        IF v = u THEN [NoUpload EXCEPT !.at = "made", !.acct = a]
                        ELSE IF v \in expired THEN [up[v] EXCEPT !.at = "gone"] ELSE up[v]]
      BY <1>1 DEF BeginUpload
    <3>2. [NoUpload EXCEPT !.at = "made", !.acct = a] \in Upload
      BY DEF NoUpload
    <3>3. \A v \in Uploads : [up[v] EXCEPT !.at = "gone"] \in Upload /\ up[v] \in Upload
      OBVIOUS
    <3>4. up' \in [Uploads -> Upload]
      BY <3>1, <3>2, <3>3
    <3> QED
      BY <1>1, <3>4 DEF BeginUpload
  <2>2. ASSUME NEW v \in Uploads
        PROVE  (UploadCounted(v) /\ NotLeftBehind(v))'
    BY <1>1 DEF BeginUpload, NoUpload
  <2> QED
    BY <2>1, <2>2
<1>2. CASE InsertUpload(u)
  <2>0. PICK b \in BOOLEAN :
             up' = [up EXCEPT ![u].at = "pending", ![u].late = b]
    <3>1. (up[u].acct \notin upSignedIn \ upLeaving) \in BOOLEAN
      OBVIOUS
    <3> QED
      BY <1>2, <3>1, Zenon DEF InsertUpload
  <2>1. UploadsTypeOK'
    <3>1. up' \in [Uploads -> Upload]
      <4>1. [up[u] EXCEPT !.at = "pending", !.late = b] \in Upload
        OBVIOUS
      <4> HIDE DEF Upload
      <4> QED
        BY <2>0, <4>1
    <3>2. /\ \/ upClient' = [upClient EXCEPT ![u] = "send"]
             \/ upClient' = upClient
          /\ upSignedIn' = upSignedIn
      BY <1>2 DEF InsertUpload
    <3> QED
      BY <3>1, <3>2
  <2>2. ASSUME NEW v \in Uploads
        PROVE  (UploadCounted(v) /\ NotLeftBehind(v))'
    BY <1>2 DEF InsertUpload
  <2> QED
    BY <2>1, <2>2
<1>3. CASE AppendChunk(u)
  <2>1. UploadsTypeOK'
    <3>1. CASE UpPending(u) /\ ~up[u].failing
      BY <1>3, <3>1 DEF AppendChunk
    <3>2. CASE ~(UpPending(u) /\ ~up[u].failing)
      <4>1. up' = [up EXCEPT ![u].failing = FALSE]
        BY <1>3, <3>2 DEF AppendChunk
      <4>2. up' \in [Uploads -> Upload]
        <5>1. [up[u] EXCEPT !.failing = FALSE] \in Upload
          OBVIOUS
        <5> HIDE DEF Upload
        <5> QED
          BY <4>1, <5>1
      <4>3. upClient' = [upClient EXCEPT ![u] = "cancel"] /\ upSignedIn' = upSignedIn
        BY <1>3, <3>2 DEF AppendChunk
      <4> QED
        BY <4>2, <4>3
    <3> QED
      BY <3>1, <3>2
  <2>2. ASSUME NEW v \in Uploads
        PROVE  (UploadCounted(v) /\ NotLeftBehind(v))'
    <3>1. CASE v = u
      <4>1. CASE UpPending(u) /\ ~up[u].failing
        BY <1>3, <3>1, <4>1 DEF AppendChunk
      <4>2. CASE ~(UpPending(u) /\ ~up[u].failing)
        BY <1>3, <3>1, <4>2, SMTT(30) DEF AppendChunk
      <4> QED
        BY <4>1, <4>2
    <3>2. CASE v # u
      BY <1>3, <3>2 DEF AppendChunk
    <3> QED
      BY <3>1, <3>2
  <2> QED
    BY <2>1, <2>2
<1>4. CASE FinishUpload(u)
  <2>1. UploadsTypeOK'
    BY <1>4 DEF FinishUpload
  <2>2. ASSUME NEW v \in Uploads
        PROVE  (UploadCounted(v) /\ NotLeftBehind(v))'
    BY <1>4 DEF FinishUpload
  <2> QED
    BY <2>1, <2>2
<1>5. CASE CloseUpload(u)
  BY <1>5, SMTT(30) DEF CloseUpload, FlushFails
<1>6. CASE SendUpload(u)
  BY <1>6 DEF SendUpload, Discard
<1>7. CASE UploadAnswered(u)
  BY <1>7 DEF UploadAnswered, Discard
<1>8. CASE AbortUpload(u)
  BY <1>8 DEF AbortUpload
<1>9. CASE CancelUpload(u)
  BY <1>9 DEF CancelUpload, Discard
<1>10. CASE UploadAges(u)
  <2>1. UploadsTypeOK'
    <3>1. [up[u] EXCEPT !.old = TRUE] \in Upload
      OBVIOUS
    <3>2. up' = [up EXCEPT ![u] = [up[u] EXCEPT !.old = TRUE]] /\ UNCHANGED <<upClient, upSignedIn>>
      BY <1>10 DEF UploadAges
    <3>3. up' \in [Uploads -> Upload]
      <4> HIDE DEF Upload
      <4> QED
        BY <3>1, <3>2
    <3> QED
      BY <3>2, <3>3
  <2>2. ASSUME NEW v \in Uploads
        PROVE  (UploadCounted(v) /\ NotLeftBehind(v))'
    BY <1>10 DEF UploadAges
  <2> QED
    BY <2>1, <2>2
<1> HIDE DEF UploadsKept
<1> QED
  BY <1>1, <1>2, <1>3, <1>4, <1>5, <1>6, <1>7, <1>8, <1>9, <1>10

LEMMA AccountSteps ==
  ASSUME UploadsKept, NEW a \in UpAccounts,
         \/ SwitchAway(a)
         \/ LogoutCancels(a)
         \/ LogoutForgets(a)
  PROVE  UploadsKept'
<1> USE UpAssumption DEF UploadsKept, UploadsTypeOK, UploadCounted, NotLeftBehind, UpPending, Upload,
        UpSteps
<1>1. CASE SwitchAway(a)
  BY <1>1 DEF SwitchAway, Discard, CancelsOf
<1>2. CASE LogoutCancels(a)
  BY <1>2 DEF LogoutCancels, Discard, CancelsOf
<1>3. CASE LogoutForgets(a)
  BY <1>3 DEF LogoutForgets
<1> QED
  BY <1>1, <1>2, <1>3

LEMMA StopKeepsUploads == UploadsKept /\ StopUploads => UploadsKept'
<1> SUFFICES ASSUME UploadsKept, StopUploads
             PROVE  UploadsKept'
  OBVIOUS
<1> USE DEF UploadsKept, StopUploads
<1>1. UploadsTypeOK'
  <2>1. \A u \in Uploads : [up[u] EXCEPT !.at = "gone"] \in Upload
    BY DEF UploadsTypeOK, Upload, UpSteps
  <2>2. up' \in [Uploads -> Upload]
    BY <2>1 DEF UploadsTypeOK
  <2> QED
    BY <2>2 DEF UploadsTypeOK
<1>2. ASSUME NEW u \in Uploads
      PROVE  (UploadCounted(u) /\ NotLeftBehind(u))'
  <2>1. up'[u].at \in {"none", "gone"} /\ (up'[u].at = "none" => up'[u] = up[u])
    BY DEF UploadsTypeOK, Upload, UpSteps, Owned
  <2> QED
    BY <2>1 DEF UploadCounted, NotLeftBehind, UpPending
<1> QED
  BY <1>1, <1>2

(* The files: those of the uploads that are discarded go or are left       *)
(* behind, the others stay.                                                *)
LEMMA FilesRemoved ==
  ASSUME FilesOwned, NEW gone, NEW new, gone \subseteq Owned,
         RemoveFiles(gone, new), Owned' = (Owned \ gone) \union new,
         \A u \in upLeaked \union gone : up'[u].at = "gone"
  PROVE  FilesOwned'
<1>1. PICK stuck \in SUBSET gone :
           /\ upFiles' = (upFiles \ (gone \ stuck)) \union new
           /\ upLeaked' = upLeaked \union stuck
  BY DEF RemoveFiles, FilesAfter
<1>2. upLeaked \intersect Owned = {} /\ Owned \subseteq Uploads
  BY DEF FilesOwned, Owned
<1> QED
  BY <1>1, <1>2 DEF FilesOwned, FilesHaveOwners

LEMMA FilesUntouched ==
  ASSUME FilesOwned, UNCHANGED <<upFiles, upLeaked>>, Owned' = Owned,
         \A u \in upLeaked : up'[u].at = "gone"
  PROVE  FilesOwned'
  BY DEF FilesOwned, FilesHaveOwners

LEMMA DiscardKeepsFiles ==
  ASSUME UploadsInv, NEW gone, gone \subseteq Owned, Discard(gone)
  PROVE  FilesOwned'
<1>1. /\ Owned' = (Owned \ gone) \union {}
      /\ \A u \in upLeaked \union gone : up'[u].at = "gone"
      /\ RemoveFiles(gone, {})
  BY DEF UploadsInv, UploadsKept, UploadsTypeOK, Upload, UpSteps, FilesOwned, Discard, Owned
<1> QED
  BY <1>1, FilesRemoved DEF UploadsInv

LEMMA FileSteps ==
  ASSUME UploadsInv, UploadsNext \/ StopUploads
  PROVE  FilesOwned'
<1> USE DEF UploadsInv, UploadsKept, UploadsTypeOK, Upload, UpSteps, UpPending
<1>1. ASSUME NEW u \in Uploads, BeginUpload(u)
      PROVE  FilesOwned'
  <2> DEFINE expired == {v \in Uploads : UpPending(v) /\ up[v].old}
  <2>1. PICK a \in upSignedIn :
             /\ up' = [v \in Uploads |->
                         IF v = u THEN [NoUpload EXCEPT !.at = "made", !.acct = a]
                         ELSE IF v \in expired THEN [up[v] EXCEPT !.at = "gone"] ELSE up[v]]
             /\ RemoveFiles(expired, {u})
    BY <1>1 DEF BeginUpload
  <2>2. up[u].at = "none"
    BY <1>1 DEF BeginUpload
  <2>3. expired \subseteq Owned /\ Owned' = (Owned \ expired) \union {u}
    BY <2>1, <2>2 DEF Owned, NoUpload
  <2>4. \A v \in upLeaked \union expired : up'[v].at = "gone"
    BY <2>1, <2>2 DEF FilesOwned
  <2> HIDE DEF expired
  <2> QED
    BY <2>1, <2>3, <2>4, FilesRemoved
<1>2. ASSUME NEW u \in Uploads,
             InsertUpload(u) \/ AppendChunk(u) \/ FinishUpload(u) \/ AbortUpload(u) \/ UploadAges(u)
      PROVE  FilesOwned'
  <2>1. UNCHANGED <<upFiles, upLeaked>>
    BY <1>2 DEF InsertUpload, AppendChunk, FinishUpload, AbortUpload, UploadAges
  <2>2. ASSUME NEW v \in Uploads
        PROVE  up'[v].at = up[v].at \/ {up[v].at, up'[v].at} \subseteq {"made", "pending", "closing"}
    BY <1>2 DEF InsertUpload, AppendChunk, FinishUpload, AbortUpload, UploadAges
  <2>3. Owned' = Owned /\ \A v \in upLeaked : up'[v].at = "gone"
    BY <2>2 DEF Owned, FilesOwned
  <2> QED
    BY <2>1, <2>3, FilesUntouched
<1>3. ASSUME NEW u \in Uploads, CloseUpload(u)
      PROVE  FilesOwned'
  <2>1. CASE up' = [up EXCEPT ![u].at = "completed"] /\ UNCHANGED <<upFiles, upLeaked>>
    <3>1. Owned' = Owned /\ \A v \in upLeaked : up'[v].at = "gone"
      BY <1>3, <2>1 DEF CloseUpload, Owned, FilesOwned
    <3> QED
      BY <2>1, <3>1, FilesUntouched
  <2>2. CASE /\ up' = [up EXCEPT ![u].at = "gone"]
             /\ upLeaked' = upLeaked \union {u} /\ UNCHANGED upFiles
    <3>1. u \in Owned /\ Owned' = Owned \ {u}
      BY <1>3, <2>2 DEF CloseUpload, Owned
    <3>2. \A v \in upLeaked' : v \in Uploads /\ up'[v].at = "gone"
      BY <2>2 DEF FilesOwned
    <3> QED
      BY <2>2, <3>1, <3>2 DEF FilesOwned, FilesHaveOwners
  <2> QED
    BY <1>3, <2>1, <2>2 DEF CloseUpload
<1>4. ASSUME NEW u \in Uploads, SendUpload(u)
      PROVE  FilesOwned'
  <2>1. CASE up' = [up EXCEPT ![u].at = "sending"] /\ UNCHANGED <<upFiles, upLeaked>>
    <3>1. Owned' = Owned /\ \A v \in upLeaked : up'[v].at = "gone"
      BY <1>4, <2>1 DEF SendUpload, Owned, FilesOwned
    <3> QED
      BY <2>1, <3>1, FilesUntouched
  <2>2. CASE Discard({u})
    <3>1. {u} \subseteq Owned
      BY <1>4 DEF SendUpload, Owned
    <3> QED
      BY <2>2, <3>1, DiscardKeepsFiles
  <2> QED
    BY <1>4, <2>1, <2>2 DEF SendUpload
<1>5. ASSUME NEW gone, gone \subseteq Owned, Discard(gone)
      PROVE  FilesOwned'
  BY <1>5, DiscardKeepsFiles
<1>6. ASSUME NEW u \in Uploads, UploadAnswered(u) \/ CancelUpload(u)
      PROVE  FilesOwned'
  BY <1>5, <1>6 DEF UploadAnswered, CancelUpload, Owned
<1>7. ASSUME NEW a \in UpAccounts, SwitchAway(a) \/ LogoutCancels(a)
      PROVE  FilesOwned'
  BY <1>5, <1>7 DEF SwitchAway, LogoutCancels, CancelsOf, Owned
<1>8. ASSUME NEW a \in UpAccounts, LogoutForgets(a)
      PROVE  FilesOwned'
  BY <1>8 DEF LogoutForgets, FilesOwned, FilesHaveOwners, Owned
<1>9. CASE StopUploads
  <2>1. Owned' = {} /\ \A v \in upLeaked \union Owned : v \in Uploads /\ up'[v].at = "gone"
    BY <1>9 DEF StopUploads, Owned, FilesOwned
  <2> QED
    BY <1>9, <2>1 DEF StopUploads, FilesOwned, FilesHaveOwners
<1> QED
  BY <1>1, <1>2, <1>3, <1>4, <1>6, <1>7, <1>8, <1>9 DEF UploadsNext

LEMMA UploadsStand == UploadsInv /\ UNCHANGED upOnly => UploadsInv'
  BY DEF UploadsInv, UploadsKept, UploadsTypeOK, UploadCounted, NotLeftBehind, FilesOwned,
     FilesHaveOwners, Owned, UpPending, upOnly

-----------------------------------------------------------------------------
(* Drops.                                                                  *)

Drop == [drop : Nat, until : Nat]
DropsTypeOK ==
    /\ dropAllowed \in Nat /\ dropClock \in Nat /\ dropAt \in Nat
    /\ dropCount \in Nat /\ dropUsed \in Nat
    /\ dropTokens \subseteq Drop /\ IsFiniteSet(dropTokens)

(* The permissions there are: the path that may be claimed, the            *)
(* capabilities and the reads, at most one for each drop.                  *)
Claims == IF dropAllowed = 0 THEN 0 ELSE 1
DropsAreCounted == dropUsed + Cardinality(dropTokens) + Claims <= dropCount

(* None of them lasts longer than the last drop does.                      *)
DropsAreDated ==
    /\ dropAt <= dropClock
    /\ dropAllowed <= dropAt + DropTtl
    /\ \A t \in dropTokens : t.until <= dropAt + DropTtl

DropsInv == DropsTypeOK /\ DropsAreCounted /\ DropsAreDated

LEMMA DropsStart == MediaUploadsInit => DropsInv
  BY UpAssumption, FS_EmptySet DEF MediaUploadsInit, DropsInv, DropsTypeOK, DropsAreCounted,
     DropsAreDated, Claims

LEMMA StopKeepsDrops == DropsInv /\ StopDrops => DropsInv'
<1> SUFFICES ASSUME DropsInv, StopDrops
             PROVE  DropsInv'
  OBVIOUS
<1>1. Cardinality(dropTokens) \in Nat /\ Cardinality({}) = 0 /\ IsFiniteSet({})
  BY FS_CardinalityType, FS_EmptySet DEF DropsInv, DropsTypeOK
<1> QED
  BY <1>1, UpAssumption DEF DropsInv, DropsTypeOK, DropsAreCounted, DropsAreDated, Claims, StopDrops

LEMMA DropSteps ==
  ASSUME DropsInv, DropsNext
  PROVE  DropsInv'
<1> USE UpAssumption DEF DropsInv, DropsTypeOK, DropsAreCounted, DropsAreDated, Claims, Drop
<1>0. Cardinality(dropTokens) \in Nat
  BY FS_CardinalityType
<1>1. CASE RegisterDrop
  BY <1>0, <1>1 DEF RegisterDrop
<1>2. CASE ClaimDrop
  <2> DEFINE t == [drop |-> dropCount, until |-> dropAllowed]
  <2>1. /\ dropTokens' = dropTokens \union {t}
        /\ dropAllowed > 0 /\ dropAllowed' = 0
        /\ UNCHANGED <<dropClock, dropAt, dropCount, dropUsed>>
    BY <1>2 DEF ClaimDrop, TokenExpiry
  <2>2. /\ IsFiniteSet(dropTokens \union {t})
        /\ Cardinality(dropTokens \union {t}) <= Cardinality(dropTokens) + 1
        /\ Cardinality(dropTokens \union {t}) \in Nat
    BY <1>0, FS_AddElement, FS_CardinalityType, SMTT(30)
  <2> QED
    BY <1>0, <2>1, <2>2
<1>3. CASE ConsumeDrop
  <2>1. PICK t \in dropTokens :
             /\ dropTokens' = dropTokens \ {t}
             /\ dropUsed' \in {dropUsed, dropUsed + 1}
             /\ UNCHANGED <<dropAllowed, dropClock, dropAt, dropCount>>
    BY <1>3 DEF ConsumeDrop, Spent
  <2>2. /\ IsFiniteSet(dropTokens \ {t})
        /\ Cardinality(dropTokens \ {t}) = Cardinality(dropTokens) - 1
        /\ Cardinality(dropTokens \ {t}) \in Nat
    BY <1>0, FS_RemoveElement, FS_CardinalityType
  <2> QED
    BY <1>0, <2>1, <2>2
<1>4. CASE DropTick
  BY <1>0, <1>4 DEF DropTick
<1> QED
  BY <1>1, <1>2, <1>3, <1>4 DEF DropsNext

LEMMA DropsStand == DropsInv /\ UNCHANGED dropVars => DropsInv'
  BY DEF DropsInv, DropsTypeOK, DropsAreCounted, DropsAreDated, Claims, dropVars

-----------------------------------------------------------------------------
(* Downloads.                                                              *)

DlSteps == {"idle", "choosing", "connecting", "streaming", "commit", "linked"}
Download == [at : DlSteps, name : Names \union {0}, bytes : Nat, token : BOOLEAN]
DownloadsTypeOK ==
    /\ dl \in [Downloads -> Download]
    /\ dlFolder \in [Names -> Downloads \union {Empty, Other}]
    /\ dlAnswer \in [Downloads -> {"none", "ok", "error", "cancelled", "stopped"}]

(* What the steps of a download leave behind: a name from the choice on, a *)
(* whole body from its end on, the file from the link on.                  *)
In(d) == \E n \in Names : dlFolder[n] = d
Left(d) ==
    /\ dl[d].at \in {"connecting", "streaming", "commit", "linked"} => dl[d].name \in Names
    /\ dl[d].at = "commit" => dl[d].bytes = DlBytes
    /\ dl[d].at # "idle" => dlAnswer[d] = "none"
    /\ dl[d].at = "linked" => In(d)
    /\ In(d) => dl[d].at = "linked" \/ dlAnswer[d] \notin {"none", "cancelled"}
    /\ dlAnswer[d] = "ok" => (In(d) <=> d \notin dlDismissed)
    /\ d \in dlDismissed => dlAnswer[d] = "ok"
    /\ d \in dlOrphans => dlAnswer[d] # "none"

DownloadsInv ==
    /\ DownloadsTypeOK
    /\ \A d \in Downloads : Left(d)
    /\ NamedFilesAreWhole /\ PartsAreRemoved

LEMMA DownloadsStart == MediaDownloadsInit => DownloadsInv
  BY DlAssumption DEF MediaDownloadsInit, DownloadsInv, DownloadsTypeOK, Left, In, Idle, Download,
     DlSteps, NamedFilesAreWhole, PartsAreRemoved

LEMMA DownloadsStand == DownloadsInv /\ UNCHANGED dlVars => DownloadsInv'
  BY DEF DownloadsInv, DownloadsTypeOK, Left, In, NamedFilesAreWhole, PartsAreRemoved, dlVars

LEMMA DownloadRecords ==
  ASSUME NEW r \in Download
  PROVE  /\ \A n \in Names : [r EXCEPT !.at = "connecting", !.name = n] \in Download
         /\ [r EXCEPT !.token = TRUE] \in Download
  BY DEF Download, DlSteps

(* A command that answers: true to the folder, its .part file removed or   *)
(* known as an orphan.                                                     *)
LEMMA AnswerKept ==
  ASSUME DownloadsInv, NEW d \in Downloads,
         NEW answer \in {"ok", "error", "cancelled"},
         AnswerDownload(d, answer), UNCHANGED Files,
         \/ dlParts' = dlParts \ {d} /\ UNCHANGED dlOrphans
         \/ d \in dlParts /\ UNCHANGED dlParts /\ dlOrphans' = dlOrphans \union {d},
         dl[d].at # "idle",
         In(d) => answer # "cancelled",
         \/ UNCHANGED dlDismissed /\ (answer = "ok" => In(d))
         \/ dlDismissed' = dlDismissed \union {d} /\ answer = "ok" /\ ~In(d)
  PROVE  DownloadsInv'
<1>1. DownloadsTypeOK'
  BY DEF DownloadsInv, DownloadsTypeOK, Download, DlSteps, AnswerDownload, Idle, Files
<1>2. ASSUME NEW e \in Downloads
      PROVE  Left(e)'
  BY DEF DownloadsInv, DownloadsTypeOK, Download, Left, In, AnswerDownload, Idle, Files
<1>3. NamedFilesAreWhole'
  BY DEF DownloadsInv, NamedFilesAreWhole, Files
<1>4. PartsAreRemoved'
  <2>1. d \notin dlOrphans /\ dl' = [dl EXCEPT ![d] = Idle] /\ Idle.at = "idle"
    BY DEF DownloadsInv, Left, AnswerDownload, Idle
  <2>2. ASSUME NEW e \in Downloads
        PROVE  dl'[e].at = IF e = d THEN "idle" ELSE dl[e].at
    BY <2>1 DEF DownloadsInv, DownloadsTypeOK
  <2> QED
    BY <2>1, <2>2 DEF DownloadsInv, PartsAreRemoved
<1> QED
  BY <1>1, <1>2, <1>3, <1>4 DEF DownloadsInv

(* The steps of one download.  Only LinkPart touches the folder.           *)
LEMMA DownloadSteps ==
  ASSUME DownloadsInv, NEW d \in Downloads,
         \/ BeginDownload(d)
         \/ ChooseName(d)
         \/ DismissDialog(d)
         \/ Connect(d)
         \/ Chunk(d)
         \/ StepFails(d)
         \/ Cancelled(d)
         \/ CancelDownload(d)
         \/ EndBody(d)
         \/ LinkPart(d)
         \/ RemovePart(d)
  PROVE  DownloadsInv'
<1> USE DlAssumption DEF DownloadsInv, DownloadsTypeOK, Left, In, NamedFilesAreWhole,
        PartsAreRemoved, Download, DlSteps, Files
<1>1. CASE BeginDownload(d)
  BY <1>1 DEF BeginDownload, Go
<1>2. CASE ChooseName(d)
  <2>1. PICK n \in Names : dl' = [dl EXCEPT ![d].at = "connecting", ![d].name = n]
    BY <1>2 DEF ChooseName
  <2>2. dl' \in [Downloads -> Download]
    <3> HIDE DEF Download, DlSteps
    <3>1. [dl[d] EXCEPT !.at = "connecting", !.name = n] \in Download
      BY DownloadRecords
    <3> QED
      BY <2>1, <3>1
  <2>3. ASSUME NEW e \in Downloads
        PROVE  Left(e)'
    <3>1. UNCHANGED <<Files, dlAnswer, dlDismissed, dlOrphans>> /\ dl[d].at = "choosing"
      BY <1>2 DEF ChooseName
    <3>2. CASE e = d
      BY <2>1, <3>1, <3>2
    <3>3. CASE e # d
      BY <2>1, <3>1, <3>3
    <3> QED
      BY <3>2, <3>3
  <2>4. NamedFilesAreWhole' /\ PartsAreRemoved'
    <3>1. ASSUME NEW e \in Downloads
          PROVE  dl'[e].at = IF e = d THEN "connecting" ELSE dl[e].at
      BY <2>1
    <3>2. UNCHANGED <<Files, dlParts, dlOrphans>> /\ dl[d].at = "choosing"
      BY <1>2 DEF ChooseName
    <3>3. \A e \in Downloads : dl'[e].at \in {"streaming", "commit", "linked"}
                               <=> dl[e].at \in {"streaming", "commit", "linked"}
      BY <3>1, <3>2
    <3> HIDE DEF Left, In, DownloadsTypeOK
    <3> QED
      BY <3>2, <3>3
  <2> QED
    BY <1>2, <2>2, <2>3, <2>4 DEF ChooseName
<1>3. CASE Connect(d)
  BY <1>3 DEF Connect, Go
<1>4. CASE Chunk(d)
  BY <1>4 DEF Chunk
<1>5. CASE StepFails(d)
  <2>1. /\ AnswerDownload(d, "error") /\ GuardRemoves(d) /\ UNCHANGED <<Files, dlDismissed>>
        /\ dl[d].at # "idle"
    BY <1>5 DEF StepFails, DownloadFails
  <2> HIDE DEF DownloadsInv, In
  <2> QED
    BY <2>1, AnswerKept DEF GuardRemoves
<1>6. CASE Cancelled(d)
  <2>1. /\ AnswerDownload(d, "cancelled") /\ GuardRemoves(d)
        /\ UNCHANGED <<Files, dlDismissed>>
    BY <1>6 DEF Cancelled
  <2>2. ~In(d) /\ dl[d].at # "idle"
    BY <1>6 DEF Cancelled, Listening
  <2> HIDE DEF DownloadsInv, In
  <2> QED
    BY <2>1, <2>2, AnswerKept DEF GuardRemoves
<1>7. CASE CancelDownload(d)
  <2>1. dl' \in [Downloads -> Download]
    <3> HIDE DEF Download, DlSteps
    <3>1. [dl[d] EXCEPT !.token = TRUE] \in Download
      BY DownloadRecords
    <3> QED
      BY <1>7, <3>1 DEF CancelDownload
  <2> QED
    BY <1>7, <2>1 DEF CancelDownload
<1>8. CASE EndBody(d)
  BY <1>8 DEF EndBody, BodyEnds, Go
<1>9. CASE LinkPart(d)
  <2>1. CASE CanLink(d)
    BY <1>9, <2>1 DEF LinkPart, CanLink, Go
  <2>2. CASE ~CanLink(d)
    <3>1. /\ AnswerDownload(d, "error") /\ GuardRemoves(d) /\ UNCHANGED <<Files, dlDismissed>>
          /\ dl[d].at # "idle"
      BY <1>9, <2>2 DEF LinkPart, DownloadFails
    <3> HIDE DEF DownloadsInv, In
    <3> QED
      BY <3>1, AnswerKept DEF GuardRemoves
  <2> QED
    BY <2>1, <2>2
<1>10. CASE RemovePart(d)
  <2>1. PICK answer \in {"ok", "error"} :
             /\ AnswerDownload(d, answer)
             /\ GuardRemoves(d)
             /\ UNCHANGED Files /\ UNCHANGED dlDismissed
    <3> HIDE DEF Files
    <3> QED
      BY <1>10 DEF RemovePart, PartsAfter, DownloadFails, GuardRemoves
  <2>2. In(d) /\ dl[d].at # "idle"
    BY <1>10 DEF RemovePart
  <2> HIDE DEF DownloadsInv, In
  <2> QED
    BY <2>1, <2>2, AnswerKept DEF GuardRemoves
<1>11. CASE DismissDialog(d)
  <2>1. /\ AnswerDownload(d, "ok") /\ dlDismissed' = dlDismissed \union {d}
        /\ UNCHANGED <<Files, dlParts, dlOrphans>>
        /\ d \notin dlParts /\ ~In(d) /\ dl[d].at # "idle"
    BY <1>11 DEF DismissDialog
  <2>2. dlParts' = dlParts \ {d}
    BY <2>1
  <2> HIDE DEF DownloadsInv, In
  <2> QED
    BY <2>1, <2>2, AnswerKept
<1> HIDE DEF DownloadsInv, Left
<1> QED
  BY <1>1, <1>2, <1>3, <1>4, <1>5, <1>6, <1>7, <1>8, <1>9, <1>10, <1>11

LEMMA FolderSteps ==
  ASSUME DownloadsInv, OtherFile \/ StopDownloads
  PROVE  DownloadsInv'
<1> USE DlAssumption DEF DownloadsInv, DownloadsTypeOK, Left, In, NamedFilesAreWhole,
        PartsAreRemoved, Download, DlSteps, Files
<1>1. CASE OtherFile
  BY <1>1 DEF OtherFile
<1>2. CASE StopDownloads
  <2>1. dl' \in [Downloads -> Download]
    BY DlAssumption, <1>2 DEF StopDownloads, Idle
  <2>2. dlParts = {d \in Downloads : dl[d].at \in {"streaming", "commit", "linked"}}
                  \union dlOrphans
    OBVIOUS
  <2> QED
    BY <1>2, <2>1, <2>2 DEF StopDownloads, Idle
<1> QED
  BY <1>1, <1>2

-----------------------------------------------------------------------------

FilesInv == UploadsInv /\ DropsInv /\ DownloadsInv

LEMMA FilesStep == FilesInv /\ [FilesNext]_fileVars => FilesInv'
<1> SUFFICES ASSUME FilesInv, [FilesNext]_fileVars
             PROVE  FilesInv'
  OBVIOUS
<1> USE DEF FilesInv
<1>1. CASE UploadsNext /\ UNCHANGED dlVars
  <2>1. UploadsInv'
    BY <1>1, UploadSteps, AccountSteps, FileSteps DEF UploadsNext, UploadsInv
  <2>2. UNCHANGED dropVars
    BY <1>1 DEF UploadsNext, BeginUpload, InsertUpload, AppendChunk, FinishUpload, CloseUpload,
       SendUpload, UploadAnswered, AbortUpload, CancelUpload, UploadAges, SwitchAway,
       LogoutCancels, LogoutForgets
  <2> QED
    BY <1>1, <2>1, <2>2, DropsStand, DownloadsStand
<1>2. CASE DropsNext /\ UNCHANGED dlVars
  <2>1. UNCHANGED upOnly
    BY <1>2 DEF DropsNext, RegisterDrop, ClaimDrop, ConsumeDrop, DropTick
  <2> QED
    BY <1>2, <2>1, DropSteps, UploadsStand, DownloadsStand
<1>3. CASE MediaDownloadsNext /\ UNCHANGED upVars
  <2>1. DownloadsInv'
    BY <1>3, DownloadSteps, FolderSteps DEF MediaDownloadsNext
  <2>2. UNCHANGED <<upOnly, dropVars>>
    BY <1>3 DEF upVars
  <2> QED
    BY <2>1, <2>2, UploadsStand, DropsStand
<1>4. CASE StopFiles
  BY <1>4, FileSteps, StopKeepsUploads, StopKeepsDrops, FolderSteps DEF StopFiles, UploadsInv
<1>5. CASE UNCHANGED fileVars
  BY <1>5, UploadsStand, DropsStand, DownloadsStand DEF fileVars, upVars
<1> QED
  BY <1>1, <1>2, <1>3, <1>4, <1>5 DEF FilesNext

LEMMA FilesInvHolds == FilesSpec => []FilesInv
<1>1. FilesInit => FilesInv
  BY UploadsStart, DropsStart, DownloadsStart DEF FilesInit, FilesInv
<1> QED
  BY <1>1, FilesStep, PTL DEF FilesSpec, fileVars

LEMMA FilesInvIsEnough == FilesInv => FilesAreWhole
<1> SUFFICES ASSUME FilesInv
             PROVE  FilesAreWhole
  OBVIOUS
<1>1. SentIsWhole /\ FilesHaveOwners /\ LogoutsTakeUploads
  BY DEF FilesInv, UploadsInv, UploadsKept, UploadCounted, NotLeftBehind, FilesOwned, SentIsWhole,
     LogoutsTakeUploads
<1>2. DropsAreSpentOnce
  <2>1. Cardinality(dropTokens) \in Nat
    BY FS_CardinalityType DEF FilesInv, DropsInv, DropsTypeOK
  <2> QED
    BY <2>1 DEF FilesInv, DropsInv, DropsTypeOK, DropsAreCounted, DropsAreSpentOnce, Claims
<1>3. NamedFilesAreWhole /\ AnswersMatchFolder /\ PartsAreRemoved
  BY DEF FilesInv, DownloadsInv, Left, In, AnswersMatchFolder
<1> QED
  BY <1>1, <1>2, <1>3 DEF FilesAreWhole

(* What is sent to the server is what was chosen; a temporary file is      *)
(* there as long as its upload or its download has use for it, and stays   *)
(* longer only where a finish or a removal failed or the process stopped;  *)
(* a pending upload goes with its account, a drop is read at most once,    *)
(* and the download folder holds under its names whole files only, those   *)
(* the answers speak of (media_upload.rs, media.rs).                       *)
THEOREM FilesStayWhole == FilesSpec => []FilesAreWhole
  BY FilesInvHolds, FilesInvIsEnough, PTL

(* The 30 seconds of a drop are counted through the claim to the read.     *)
THEOREM DropsStayFresh == FilesSpec => [][DropsExpire]_fileVars
<1>1. FilesInv /\ [FilesNext]_fileVars => [DropsExpire]_fileVars
  <2> SUFFICES ASSUME FilesInv, [FilesNext]_fileVars
               PROVE  DropsExpire
    OBVIOUS
  <2>1. CASE ConsumeDrop
    BY <2>1, UpAssumption DEF ConsumeDrop, DropsExpire, FilesInv, DropsInv, DropsTypeOK,
       DropsAreDated, Drop
  <2>2. CASE ~ConsumeDrop
    <3>1. dropUsed' = dropUsed
      BY <2>2 DEF FilesNext, UploadsNext, DropsNext, RegisterDrop, ClaimDrop, DropTick, fileVars,
         upVars, dropVars, BeginUpload, InsertUpload, AppendChunk, FinishUpload, CloseUpload,
         SendUpload, UploadAnswered, AbortUpload, CancelUpload, UploadAges, SwitchAway,
         LogoutCancels, LogoutForgets, StopFiles, StopDrops
    <3> QED
      BY <3>1 DEF DropsExpire
  <2> QED
    BY <2>1, <2>2
<1> QED
  BY <1>1, FilesInvHolds, PTL DEF FilesSpec, fileVars

(* Between the look for a free name and the link another download or       *)
(* program may take the name: what it put there stays (hard_link).         *)
THEOREM DownloadsReplaceNothing == FilesSpec => [][NothingIsReplaced]_fileVars
<1>1. FilesInv /\ [FilesNext]_fileVars => [NothingIsReplaced]_fileVars
  <2> SUFFICES ASSUME FilesInv, [FilesNext]_fileVars
               PROVE  NothingIsReplaced
    OBVIOUS
  <2> USE DEF NothingIsReplaced, FilesInv, DownloadsInv, DownloadsTypeOK, Left
  <2>1. CASE OtherFile
    BY <2>1 DEF OtherFile
  <2>2. ASSUME NEW d \in Downloads, LinkPart(d)
        PROVE  NothingIsReplaced
    BY <2>2 DEF LinkPart, CanLink, Files
  <2>3. CASE UNCHANGED dlFolder
    BY <2>3
  <2>4. \/ OtherFile
        \/ \E d \in Downloads : LinkPart(d)
        \/ UNCHANGED dlFolder
    BY DEF FilesNext, MediaDownloadsNext, dlVars, fileVars, Files, StopFiles, StopDownloads,
       BeginDownload, ChooseName, DismissDialog, Connect, Chunk, StepFails, Cancelled, CancelDownload, EndBody, RemovePart
  <2> QED
    BY <2>1, <2>2, <2>3, <2>4
<1> QED
  BY <1>1, FilesInvHolds, PTL DEF FilesSpec, fileVars

-----------------------------------------------------------------------------
(* The search index.                                                       *)

\* What a worker holds of a row, and the worker.
IxRows == [doc : IxDocs, action : {"upsert", "delete"}, gen : 0..MaxIxWrites,
           text : IxTexts \union {0}]
IxMe == [pc : {"top", "commit"}, job : {"queue", "backfill"}, kind : Kinds,
         batch : SUBSET IxRows, fill : 0..FillStart]

\* The types, those of the batches too.
IxTypes ==
    /\ srcText \in [IxDocs -> IxTexts \union {0}]
    /\ ixContent \in [IxDocs -> IxTexts \union {0}]
    /\ ixQueue \in [IxDocs -> [action : {"upsert", "delete"}, gen : 0..MaxIxWrites]]
    /\ ixFill \in [Kinds -> [cursor : 1..FillStart, completed : BOOLEAN]]
    /\ ixBusy \in BOOLEAN
    /\ ixWrites \in 0..MaxIxWrites
    /\ ixWorker \in [IxWorkers -> IxMe]
    /\ ixStops \in 0..MaxIxStops
    /\ ixSnap \in [Kinds -> [cursor : 1..FillStart, completed : BOOLEAN]]

\* A transaction is only open while a generation is left for it.
RoomToWrite == ixBusy => ixWrites < MaxIxWrites

\* A queued action is the one the row asks for, and generations do not repeat.
QueueIsTrue ==
    /\ \A d \in IxDocs :
          /\ ixQueue[d].gen <= ixWrites
          /\ ixQueue[d].gen # 0 => (ixQueue[d].action = "delete" <=> srcText[d] = 0)
          /\ ixQueue[d].gen # 0 /\ d[1] = "account" => ixQueue[d].action = "upsert"
    /\ \A d, e \in IxDocs : ixQueue[d].gen # 0 /\ ixQueue[d].gen = ixQueue[e].gen => d = e

\* A row that is neither queued nor as its index entry is still ahead of the backfill, and
\* has no entry at all: an entry is never left behind by an older text.
OnlyBehind ==
    \A d \in IxDocs : ixQueue[d].gen = 0 /\ ixContent[d] # srcText[d] =>
        ixContent[d] = 0 /\ ~ixFill[d[1]].completed /\ d[2] < ixFill[d[1]].cursor

\* A row no batch has to do anything for.
Settled(d) == ixQueue[d].gen # 0 \/ ixContent[d] = srcText[d]

\* A batch has at most its limit of rows, of its kind, each once.
BatchRows(me) ==
    /\ \A r \in me.batch : r.doc[1] = me.kind /\ r.gen <= ixWrites
    /\ \A r, q \in me.batch : r.doc = q.doc => r = q
    /\ Cardinality(me.batch) <= (IF me.job = "queue" THEN QueueChunk ELSE BackfillChunk)

\* A prepared row whose queue entry is still the one it was read with has the text it has now.
QueueBatchTrue(me) ==
    \A r \in me.batch : r.gen # 0
       /\ (ixQueue[r.doc] = [action |-> r.action, gen |-> r.gen]
           => r.text = srcText[r.doc])

\* A prepared backfill reaches down from the cursor without a hole: what it holds is current
\* or queued since, and what it passes is settled.
FillBatchTrue(me) ==
    /\ ixFill[me.kind].completed \/ ixFill[me.kind].cursor <= me.fill
    /\ \A r \in me.batch : /\ r.doc[2] < me.fill
                           /\ r.text # srcText[r.doc] => Settled(r.doc)
    /\ \A d \in OfKind(me.kind) :
          d[2] < me.fill /\ (Cardinality(me.batch) < BackfillChunk
                             \/ \E r \in me.batch : r.doc[2] <= d[2])
          => (\E r \in me.batch : r.doc = d) \/ Settled(d)

BatchTrue(me) ==
    /\ BatchRows(me)
    /\ me.pc = "commit" /\ me.job = "queue" => QueueBatchTrue(me)
    /\ me.pc = "commit" /\ me.job = "backfill" => FillBatchTrue(me) /\ me.fill \in 1..FillStart
    /\ me.pc = "top" => me = FreshWorker

BatchesAreTrue == \A w \in IxWorkers : BatchTrue(ixWorker[w])

\* What a search saw of the backfill is no further than the backfill.
SnapIsOlder ==
    \A k \in Kinds : ~ixFill[k].completed
        => ~ixSnap[k].completed /\ ixFill[k].cursor <= ixSnap[k].cursor

IxInv == IxTypes /\ RoomToWrite /\ QueueIsTrue /\ OnlyBehind /\ BatchesAreTrue /\ SnapIsOlder

\* Segments grow only by the index turns since the last check, and while one target waits
\* for its merge no index turn is taken.
MergeInv ==
    /\ MergeTypeOK
    /\ SegmentsStayBelowCeiling
    /\ run.pc = "index" => /\ sinceCheck < IntervalTurns
                           /\ \A t \in Targets : segs[t] < HighWater + sinceCheck
    /\ run.pc = "merge" /\ run.active = "none" /\ ~run.due =>
          /\ sinceCheck <= IntervalTurns
          /\ \A t \in Targets : segs[t] < HighWater + sinceCheck

-----------------------------------------------------------------------------

\* A finite set of things that are measured by integers has one that measures most.
LEMMA SomethingIsLargest ==
    ASSUME NEW S, IsFiniteSet(S), S # {}, NEW rank, \A x \in S : rank[x] \in Int
    PROVE  \E m \in S : \A e \in S : rank[e] <= rank[m]
<1> DEFINE Above(d) == {e \in S : rank[d] < rank[e]}
           T == {Above(d) : d \in S}
<1>1. IsWellFoundedOn(StrictSubsetOrdering(S), FiniteSubsetsOf(S))
  BY FS_StrictSubsetOrderingWellFounded
<1>2. T \subseteq FiniteSubsetsOf(S)
  <2>1. ASSUME NEW d \in S
        PROVE  Above(d) \in FiniteSubsetsOf(S)
    <3>1. Above(d) \in SUBSET S
      OBVIOUS
    <3>2. IsFiniteSet(Above(d))
      BY <3>1, FS_Subset
    <3> QED
      BY <3>1, <3>2 DEF FiniteSubsetsOf
  <2> HIDE DEF Above
  <2> QED
    BY <2>1
<1>3. T # {}
  <2>1. PICK d \in S : TRUE
    OBVIOUS
  <2>2. Above(d) \in T
    OBVIOUS
  <2> QED
    BY <2>2
<1>4. PICK X \in T : \A Y \in T : <<Y, X>> \notin StrictSubsetOrdering(S)
  BY <1>1, <1>2, <1>3, WFMin
<1>5. PICK m \in S : X = Above(m)
  OBVIOUS
<1>6. ASSUME NEW e \in S, rank[m] < rank[e]
      PROVE  FALSE
  <2>1. Above(e) \subseteq Above(m)
    BY <1>6
  <2>2. e \in Above(m) /\ e \notin Above(e)
    BY <1>6
  <2>3. <<Above(e), X>> \in StrictSubsetOrdering(S)
    BY <1>5, <2>1, <2>2 DEF StrictSubsetOrdering
  <2> QED
    BY <1>4, <2>3
<1>7. \A e \in S : rank[e] <= rank[m]
  BY <1>6
<1> QED
  BY <1>7

-----------------------------------------------------------------------------
(* The first n by a measure.                                               *)

LEMMA FirstByIsBelow ==
    ASSUME NEW S, NEW n, NEW rank
    PROVE  FirstBy(S, n, rank) \subseteq S
BY DEF FirstBy

\* What comes before one of the first is one of the first.
LEMMA FirstByIsAnInitialPart ==
    ASSUME NEW S, IsFiniteSet(S), NEW n \in Nat, NEW rank, \A x \in S : rank[x] \in Int,
           NEW d \in S, NEW e \in FirstBy(S, n, rank), rank[d] <= rank[e]
    PROVE  d \in FirstBy(S, n, rank)
<1>1. /\ e \in S
      /\ Cardinality(Outranking(S, rank, e)) < n
  BY DEF FirstBy
<1>2. /\ Outranking(S, rank, d) \in SUBSET Outranking(S, rank, e)
      /\ Outranking(S, rank, e) \in SUBSET S
  BY <1>1 DEF Outranking
<1>3. IsFiniteSet(Outranking(S, rank, e))
  BY <1>2, FS_Subset
<1>4. Cardinality(Outranking(S, rank, d)) <= Cardinality(Outranking(S, rank, e))
  BY <1>2, <1>3, FS_Subset
<1>5. /\ Cardinality(Outranking(S, rank, d)) \in Nat
      /\ Cardinality(Outranking(S, rank, e)) \in Nat
  BY <1>2, <1>3, FS_Subset, FS_CardinalityType
<1> QED
  BY <1>1, <1>4, <1>5 DEF FirstBy

\* Fewer than n of the first n: there are no others.
LEMMA FewAreAll ==
    ASSUME NEW S, IsFiniteSet(S), NEW n \in Nat, NEW rank, \A x \in S : rank[x] \in Int,
           Cardinality(FirstBy(S, n, rank)) < n
    PROVE  FirstBy(S, n, rank) = S
<1> DEFINE F == FirstBy(S, n, rank)
           Others == S \ F
           minus == [d \in Others |-> -rank[d]]
<1>1. F \subseteq S
  BY FirstByIsBelow
<1>2. IsFiniteSet(Others) /\ IsFiniteSet(F)
  BY <1>1, FS_Subset
<1>3. ASSUME Others # {}
      PROVE  FALSE
  <2>1. \A x \in Others : minus[x] \in Int
    OBVIOUS
  <2>2. PICK d \in Others : \A e \in Others : minus[e] <= minus[d]
    <3> HIDE DEF minus, Others
    <3> QED
      BY <1>2, <1>3, <2>1, SomethingIsLargest
  <2>3. \A e \in Others : rank[d] <= rank[e]
    <3> TAKE e \in Others
    <3>1. minus[e] <= minus[d] /\ minus[e] = -rank[e] /\ minus[d] = -rank[d]
      BY <2>2
    <3>2. rank[e] \in Int /\ rank[d] \in Int
      OBVIOUS
    <3> QED
      BY <3>1, <3>2
  <2>4. Outranking(S, rank, d) \in SUBSET F
    <3> SUFFICES ASSUME NEW e \in S, rank[e] < rank[d] PROVE e \in F
      BY DEF Outranking
    <3>1. rank[e] \in Int /\ rank[d] \in Int
      OBVIOUS
    <3> QED
      BY <2>3, <3>1
  <2>5. Cardinality(Outranking(S, rank, d)) <= Cardinality(F)
    BY <1>2, <2>4, FS_Subset
  <2>6. Cardinality(Outranking(S, rank, d)) \in Nat /\ Cardinality(F) \in Nat
    BY <1>2, <2>4, FS_Subset, FS_CardinalityType
  <2>7. Cardinality(Outranking(S, rank, d)) < n
    BY <2>5, <2>6
  <2>8. d \in F
    BY <2>7 DEF FirstBy
  <2> QED
    BY <2>8
<1> QED
  BY <1>1, <1>3

\* No more than n there: all of them are among the first.
LEMMA SmallSetsAreFirst ==
    ASSUME NEW S, IsFiniteSet(S), NEW n \in Nat, NEW rank, \A x \in S : rank[x] \in Int,
           Cardinality(S) <= n
    PROVE  FirstBy(S, n, rank) = S
<1> SUFFICES ASSUME NEW d \in S PROVE Cardinality(Outranking(S, rank, d)) < n
  BY DEF FirstBy
<1>1. Outranking(S, rank, d) \in SUBSET S /\ d \notin Outranking(S, rank, d)
  <2>1. rank[d] \in Int
    OBVIOUS
  <2> QED
    BY <2>1 DEF Outranking
<1>2. /\ Cardinality(Outranking(S, rank, d)) <= Cardinality(S)
      /\ Cardinality(S) = Cardinality(Outranking(S, rank, d)) => S = Outranking(S, rank, d)
      /\ IsFiniteSet(Outranking(S, rank, d))
  BY <1>1, FS_Subset
<1>3. Cardinality(Outranking(S, rank, d)) \in Nat /\ Cardinality(S) \in Nat
  BY <1>2, FS_CardinalityType
<1> QED
  BY <1>1, <1>2, <1>3

\* Things of different measure: no more than n of them are the first n.
LEMMA FirstByIsBounded ==
    ASSUME NEW S, IsFiniteSet(S), NEW n \in Nat, NEW rank, \A x \in S : rank[x] \in Int,
           \A d, e \in S : rank[d] = rank[e] => d = e
    PROVE  /\ IsFiniteSet(FirstBy(S, n, rank))
           /\ Cardinality(FirstBy(S, n, rank)) <= n
<1> DEFINE F == FirstBy(S, n, rank)
           above == [d \in F |-> rank[d]]
<1>1. F \subseteq S
  BY FirstByIsBelow
<1>2. IsFiniteSet(F)
  BY <1>1, FS_Subset
<1>3. CASE F = {}
  BY <1>2, <1>3, FS_EmptySet
<1>4. CASE F # {}
  <2>1. \A x \in F : above[x] \in Int
    BY <1>1
  <2>2. PICK d \in F : \A e \in F : above[e] <= above[d]
    <3> HIDE DEF above, F
    <3> QED
      BY <1>2, <1>4, <2>1, SomethingIsLargest
  <2>3. /\ Outranking(S, rank, d) \in SUBSET S
        /\ Cardinality(Outranking(S, rank, d)) < n
    BY DEF FirstBy, Outranking
  <2>4. IsFiniteSet(Outranking(S, rank, d)) /\ Cardinality(Outranking(S, rank, d)) \in Nat
    BY <2>3, FS_Subset, FS_CardinalityType
  <2>5. F \in SUBSET (Outranking(S, rank, d) \union {d})
    <3> SUFFICES ASSUME NEW e \in F, e # d PROVE e \in Outranking(S, rank, d)
      OBVIOUS
    <3>1. e \in S /\ d \in S /\ rank[e] \in Int /\ rank[d] \in Int
      BY <1>1
    <3>2. rank[e] <= rank[d]
      BY <2>2
    <3>3. rank[e] # rank[d]
      BY <3>1
    <3> QED
      BY <3>1, <3>2, <3>3 DEF Outranking
  <2>6. /\ IsFiniteSet(Outranking(S, rank, d) \union {d})
        /\ Cardinality(Outranking(S, rank, d) \union {d}) <= Cardinality(Outranking(S, rank, d)) + 1
    <3> DEFINE X == Outranking(S, rank, d)
    <3> HIDE DEF X
    <3>1. IsFiniteSet(X) /\ Cardinality(X) \in Nat
      BY <2>4 DEF X
    <3>2. /\ IsFiniteSet(X \union {d})
          /\ Cardinality(X \union {d}) = IF d \in X THEN Cardinality(X) ELSE Cardinality(X) + 1
      BY <3>1, FS_AddElement
    <3>3. Cardinality(X \union {d}) <= Cardinality(X) + 1
      BY <3>1, <3>2
    <3> QED
      BY <3>2, <3>3 DEF X
  <2>7. Cardinality(F) <= Cardinality(Outranking(S, rank, d) \union {d})
    BY <2>5, <2>6, FS_Subset
  <2>8. Cardinality(F) \in Nat /\ Cardinality(Outranking(S, rank, d) \union {d}) \in Nat
    BY <1>2, <2>6, FS_CardinalityType
  <2> QED
    BY <1>2, <2>3, <2>4, <2>6, <2>7, <2>8
<1> QED
  BY <1>3, <1>4

\* As many images as things, when no two have one.
LEMMA ImagesAreCounted ==
    ASSUME NEW S, IsFiniteSet(S), NEW f, f = [x \in S |-> f[x]],
           \A x, y \in S : f[x] = f[y] => x = y
    PROVE  /\ IsFiniteSet({f[x] : x \in S})
           /\ Cardinality({f[x] : x \in S}) = Cardinality(S)
<1> DEFINE T == {f[x] : x \in S}
<1>1. f \in Surjection(S, T)
  BY DEF Surjection
<1>2. f \in Injection(S, T)
  BY DEF Injection, IsInjective
<1> QED
  BY <1>1, <1>2, FS_Surjection

LEMMA MaxIs ==
    ASSUME NEW S \in SUBSET Int, NEW m \in S, \A x \in S : x <= m
    PROVE  Max(S) \in S /\ \A x \in S : x <= Max(S)
<1>1. \A x \in S : m >= x
  OBVIOUS
<1> QED
  BY <1>1 DEF Max

LEMMA MinIs ==
    ASSUME NEW S \in SUBSET Int, NEW m \in S, \A x \in S : m <= x
    PROVE  Min(S) \in S /\ \A x \in S : Min(S) <= x
<1>1. \A x \in S : m =< x
  OBVIOUS
<1> QED
  BY <1>1 DEF Min

-----------------------------------------------------------------------------
\* A loop's turn with its target.
LEMMA PressureIsSeen ==
    ASSUME MergeInv, NEW p \in Targets
    PROVE  /\ MergePressure(p) \in Targets \union {"none"}
           /\ MergePressure(p) = "none" <=> \A t \in Targets : segs[t] < HighWater
<1>0. HighWater \in Nat
  BY IntervalTurnsAssumption
<1>1. segs["status"] \in Nat /\ segs["account"] \in Nat
  BY DEF MergeInv, MergeTypeOK, Targets
<1>2. ASSUME {t \in Targets : segs[t] >= HighWater} # {}, segs["status"] # segs["account"]
      PROVE  \E t \in {t \in Targets : segs[t] >= HighWater} : segs[OtherTarget(t)] < segs[t]
  <2>1. PICK t \in Targets : segs[t] >= HighWater
    BY <1>2
  <2>2. CASE segs["status"] < segs["account"]
    <3>1. "account" \in Targets /\ segs["account"] >= HighWater
      BY <1>0, <1>1, <2>1, <2>2 DEF Targets
    <3> QED
      BY <2>2, <3>1 DEF OtherTarget
  <2>3. CASE segs["account"] < segs["status"]
    <3>1. "status" \in Targets /\ segs["status"] >= HighWater
      BY <1>0, <1>1, <2>1, <2>3 DEF Targets
    <3> QED
      BY <2>3, <3>1 DEF OtherTarget
  <2> QED
    BY <1>1, <1>2, <2>2, <2>3
<1>3. ASSUME {t \in Targets : segs[t] >= HighWater} # {}
      PROVE  MergePressure(p) \in Targets
  BY <1>2, <1>3 DEF MergePressure
<1>4. "none" \notin Targets
  BY DEF Targets
<1>5. {t \in Targets : segs[t] >= HighWater} = {} <=> \A t \in Targets : segs[t] < HighWater
  BY <1>0, <1>1 DEF Targets
<1> QED
  BY <1>3, <1>4, <1>5 DEF MergePressure

LEMMA TargetIsOne ==
    ASSUME MergeInv
    PROVE  /\ TurnTarget \in Targets \union {"none"}
           /\ run.active # "none" => TurnTarget = run.active
           /\ TurnTarget = "none" => \A t \in Targets : segs[t] < HighWater
           /\ ~Protected => \A t \in Targets : segs[t] < HighWater
<1>1. run.next \in Targets /\ run.active \in Targets \union {"none"} /\ "none" \notin Targets
  BY DEF MergeInv, MergeTypeOK, Targets
<1>2. MergeDirty(run.next) \in Targets \union {"none"}
  BY <1>1 DEF MergeDirty, Targets
<1> QED
  BY <1>1, <1>2, PressureIsSeen DEF TurnTarget, Protected

LEMMA MergeStarts ==
    ASSUME MergeInit
    PROVE  MergeInv
<1>1. HighWater \in Nat /\ IntervalTurns \in Nat \ {0} /\ MaxMergeErrors \in Nat
  BY IntervalTurnsAssumption
<1>2. segs \in [Targets -> Nat] /\ \A t \in Targets : segs[t] <= HighWater
  BY <1>1 DEF MergeInit
<1>3. debt \in [Targets -> BOOLEAN]
  BY DEF MergeInit
<1>4. /\ run \in [pc : {"merge", "index"}, active : Targets \union {"none"}, next : Targets,
                    due : BOOLEAN]
      /\ run.active = "none" /\ run.pc = "merge" /\ run.due
  BY DEF MergeInit, RunStart, Targets
<1>5. writerTaken \in BOOLEAN /\ sinceCheck \in Nat /\ mergeErrors \in 0..MaxMergeErrors
  <2>1. writerTaken \in BOOLEAN
    BY DEF MergeInit
  <2>2. sinceCheck = 0 /\ mergeErrors = 0
    BY DEF MergeInit
  <2>3. mergeErrors \in 0..MaxMergeErrors
    BY <1>1, <2>2
  <2> QED
    BY <2>1, <2>2, <2>3
<1>6. MergeTypeOK
  BY <1>2, <1>3, <1>4, <1>5 DEF MergeTypeOK
<1>7. SegmentsStayBelowCeiling
  BY <1>1, <1>2 DEF SegmentsStayBelowCeiling
<1> QED
  BY <1>4, <1>6, <1>7 DEF MergeInv

\* The loop's variables after a step.
Loops == [pc : {"merge", "index"}, active : Targets \union {"none"}, next : Targets, due : BOOLEAN]

\* What a step of the loop has to establish.
LEMMA MergeKeeps ==
    ASSUME MergeInv,
           segs' \in [Targets -> Nat], debt' \in [Targets -> BOOLEAN], run' \in Loops,
           writerTaken' \in BOOLEAN, sinceCheck' \in Nat, mergeErrors' \in 0..MaxMergeErrors,
           run'.active # "none" => run'.pc = "merge",
           \/ run'.pc = "merge" /\ (run'.active # "none" \/ run'.due)
              /\ \A t \in Targets : segs'[t] <= HighWater + IntervalTurns
           \/ run'.pc = "merge" /\ sinceCheck' <= IntervalTurns
              /\ \A t \in Targets : segs'[t] < HighWater + sinceCheck'
           \/ run'.pc = "index" /\ sinceCheck' < IntervalTurns
              /\ \A t \in Targets : segs'[t] < HighWater + sinceCheck'
    PROVE  MergeInv'
<1>1. HighWater \in Nat /\ IntervalTurns \in Nat \ {0}
  BY IntervalTurnsAssumption
<1>2. \A t \in Targets : segs'[t] \in Nat
  OBVIOUS
<1>3. MergeTypeOK'
  BY DEF MergeTypeOK, Loops
<1>4. SegmentsStayBelowCeiling'
  BY <1>1, <1>2 DEF SegmentsStayBelowCeiling
<1> QED
  BY <1>3, <1>4 DEF MergeInv

LEMMA CountedIsAllowed ==
    ASSUME MergeInv
    PROVE  Counted \in Nat
BY DEF MergeInv, MergeTypeOK, Counted

LEMMA MergeNextKeeps ==
    ASSUME MergeInv, MergeNext
    PROVE  MergeInv'
<1>0. HighWater \in Nat /\ IntervalTurns \in Nat \ {0} /\ MaxMergeErrors \in Nat
      /\ HighWater > IntervalTurns + 1
  BY IntervalTurnsAssumption
<1>1. /\ segs \in [Targets -> Nat] /\ debt \in [Targets -> BOOLEAN] /\ run \in Loops
      /\ writerTaken \in BOOLEAN /\ sinceCheck \in Nat /\ mergeErrors \in 0..MaxMergeErrors
      /\ run.active # "none" => run.pc = "merge"
  BY DEF MergeInv, MergeTypeOK, Loops
<1>2. \A t \in Targets : segs[t] <= HighWater + IntervalTurns
  BY DEF MergeInv, SegmentsStayBelowCeiling
<1>3. CASE WriterTakenOrFreed
  <2>1. writerTaken' \in BOOLEAN
    BY <1>3 DEF WriterTakenOrFreed
  <2>2. UNCHANGED <<segs, debt, run, sinceCheck, mergeErrors>>
    BY <1>3 DEF WriterTakenOrFreed
  <2> QED
    BY <2>1, <2>2 DEF MergeInv, MergeTypeOK, SegmentsStayBelowCeiling
<1>4. CASE MergeWorked
  <2> DEFINE t == TurnTarget
  <2>1. t \in Targets /\ segs[t] > 1
    BY <1>4, TargetIsOne DEF MergeWorked, BoundedMerge
  <2>2. /\ segs' = [segs EXCEPT ![t] = @ - 1] /\ debt' = [debt EXCEPT ![t] = TRUE]
        /\ run' = [run EXCEPT !.active = t, !.due = TRUE]
        /\ run.pc = "merge" /\ sinceCheck' = Counted /\ UNCHANGED <<writerTaken, mergeErrors>>
    BY <1>4 DEF MergeWorked, BoundedMerge
  <2> HIDE DEF t
  <2>3. segs' \in [Targets -> Nat] /\ \A x \in Targets : segs'[x] <= HighWater + IntervalTurns
    BY <1>0, <1>1, <1>2, <2>1, <2>2
  <2>4. debt' \in [Targets -> BOOLEAN]
    BY <1>1, <2>2
  <2>5. run' \in Loops /\ run'.pc = "merge" /\ run'.due
    BY <1>1, <2>1, <2>2 DEF Loops
  <2> QED
    BY <1>1, <2>2, <2>3, <2>4, <2>5, CountedIsAllowed, MergeKeeps
<1>5. CASE MergeNoop
  <2> DEFINE t == TurnTarget
             more == MergePressure(OtherTarget(t))
  <2>1. t \in Targets /\ OtherTarget(t) \in Targets
    BY <1>5, TargetIsOne DEF MergeNoop, BoundedMerge, OtherTarget, Targets
  <2>2. /\ segs' = [segs EXCEPT ![t] = @] /\ debt' = [debt EXCEPT ![t] = FALSE]
        /\ run' = [pc |-> IF more = "none" THEN "index" ELSE "merge", active |-> more,
                   next |-> OtherTarget(t), due |-> more # "none"]
        /\ sinceCheck' = 0 /\ UNCHANGED <<writerTaken, mergeErrors>>
    BY <1>5 DEF MergeNoop, BoundedMerge
  <2>3. /\ more \in Targets \union {"none"}
        /\ more = "none" => \A x \in Targets : segs[x] < HighWater
    BY <2>1, PressureIsSeen
  <2> HIDE DEF t, more
  <2>4. segs' = segs /\ debt' \in [Targets -> BOOLEAN]
    BY <1>1, <2>2
  <2>5. run' \in Loops
    BY <2>1, <2>2, <2>3 DEF Loops
  <2>6. CASE more = "none"
    <3>1. run'.pc = "index" /\ run'.active = "none"
      BY <2>2, <2>6
    <3>2. \A x \in Targets : segs'[x] < HighWater + sinceCheck'
      BY <1>0, <1>1, <2>2, <2>3, <2>4, <2>6
    <3> QED
      BY <1>0, <1>1, <2>2, <2>4, <2>5, <3>1, <3>2, MergeKeeps
  <2>7. CASE more # "none"
    <3>1. run'.pc = "merge" /\ run'.active # "none"
      BY <2>2, <2>7
    <3> QED
      BY <1>0, <1>1, <1>2, <2>2, <2>4, <2>5, <3>1, MergeKeeps
  <2> QED
    BY <2>6, <2>7
<1>6. CASE MergeBusy
  <2> DEFINE t == TurnTarget
  <2>1. t \in Targets
    BY <1>6, TargetIsOne DEF MergeBusy
  <2>2. /\ run' = IF Protected THEN [run EXCEPT !.active = t] ELSE [run EXCEPT !.pc = "index"]
        /\ run.pc = "merge" /\ sinceCheck' = Counted
        /\ UNCHANGED <<segs, debt, writerTaken, mergeErrors>>
    BY <1>6 DEF MergeBusy
  <2>3. ~Protected => run.active = "none" /\ \A x \in Targets : segs[x] < HighWater
    BY TargetIsOne DEF Protected
  <2> HIDE DEF t
  <2>4. CASE Protected
    <3>1. run' \in Loops /\ run'.pc = "merge" /\ run'.active # "none"
      BY <1>1, <2>1, <2>2, <2>4 DEF Loops, Targets
    <3> QED
      BY <1>1, <1>2, <2>2, <3>1, CountedIsAllowed, MergeKeeps
  <2>5. CASE ~Protected
    <3>1. run' \in Loops /\ run'.pc = "index" /\ run'.active = "none"
      BY <1>1, <2>2, <2>3, <2>5 DEF Loops
    <3>2. sinceCheck' = 0
      BY <2>2, <2>3, <2>5 DEF Counted
    <3>3. \A x \in Targets : segs'[x] < HighWater + sinceCheck'
      BY <1>0, <1>1, <2>2, <2>3, <2>5, <3>2
    <3> QED
      BY <1>0, <1>1, <2>2, <3>1, <3>2, <3>3, MergeKeeps
  <2> QED
    BY <2>4, <2>5
<1>7. CASE MergeSkipped
  <2>1. /\ run' = [run EXCEPT !.pc = "index"] /\ run.pc = "merge" /\ run.active = "none"
        /\ UNCHANGED <<segs, debt, writerTaken, mergeErrors>>
    BY <1>7 DEF MergeSkipped
  <2>2. run' \in Loops /\ run'.pc = "index" /\ run'.active = "none"
    BY <1>1, <2>1 DEF Loops
  <2>3. CASE TurnTarget = "none" /\ sinceCheck' = 0
    <3>1. \A x \in Targets : segs'[x] < HighWater + sinceCheck'
      BY <1>0, <1>1, <2>1, <2>3, TargetIsOne
    <3> QED
      BY <1>0, <1>1, <2>1, <2>2, <2>3, <3>1, MergeKeeps
  <2>4. CASE ~run.due /\ sinceCheck < IntervalTurns /\ UNCHANGED sinceCheck
    <3>1. \A x \in Targets : segs'[x] < HighWater + sinceCheck'
      BY <2>1, <2>4 DEF MergeInv
    <3> QED
      BY <1>0, <1>1, <2>1, <2>2, <2>4, <3>1, MergeKeeps
  <2> QED
    BY <1>7, <2>3, <2>4 DEF MergeSkipped
<1>8. ASSUME NEW t \in Targets, IndexWrite(t)
      PROVE  MergeInv'
  <2>1. /\ run.pc = "index" /\ segs' = [segs EXCEPT ![t] = @ + 1]
        /\ debt' = [debt EXCEPT ![t] = TRUE] /\ run' = [run EXCEPT !.pc = "merge"]
        /\ sinceCheck' = sinceCheck + 1 /\ UNCHANGED <<writerTaken, mergeErrors>>
    BY <1>8 DEF IndexWrite
  <2>2. sinceCheck < IntervalTurns /\ \A x \in Targets : segs[x] < HighWater + sinceCheck
    BY <2>1 DEF MergeInv
  <2>3. segs' \in [Targets -> Nat] /\ \A x \in Targets : segs'[x] < HighWater + sinceCheck'
    BY <1>0, <1>1, <2>1, <2>2
  <2>4. debt' \in [Targets -> BOOLEAN]
    BY <1>1, <2>1
  <2>5. run' \in Loops /\ run'.pc = "merge"
    BY <1>1, <2>1 DEF Loops
  <2> QED
    BY <1>0, <1>1, <2>1, <2>2, <2>3, <2>4, <2>5, MergeKeeps
<1>9. CASE IndexNothing
  <2>1. /\ run.pc = "index" /\ run' = [run EXCEPT !.pc = "merge"]
        /\ sinceCheck' = sinceCheck + 1 /\ UNCHANGED <<segs, debt, writerTaken, mergeErrors>>
    BY <1>9 DEF IndexNothing
  <2>2. sinceCheck < IntervalTurns /\ \A x \in Targets : segs[x] < HighWater + sinceCheck
    BY <2>1 DEF MergeInv
  <2>3. \A x \in Targets : segs'[x] < HighWater + sinceCheck'
    BY <1>0, <1>1, <2>1, <2>2
  <2>4. run' \in Loops /\ run'.pc = "merge"
    BY <1>1, <2>1 DEF Loops
  <2> QED
    BY <1>0, <1>1, <2>1, <2>2, <2>3, <2>4, MergeKeeps
<1>10. RunStart \in Loops /\ RunStart.pc = "merge" /\ RunStart.due
  BY DEF RunStart, Loops, Targets
<1>11. CASE MergeFailed
  <2> DEFINE t == TurnTarget
  <2>1. t \in Targets /\ OtherTarget(t) \in Targets
    BY <1>11, TargetIsOne DEF MergeFailed, OtherTarget, Targets
  <2>2. /\ run' = IF Protected THEN RunStart
                  ELSE [pc |-> "index", active |-> "none", next |-> OtherTarget(t), due |-> FALSE]
        /\ debt' = [debt EXCEPT ![t] = FALSE] /\ mergeErrors < MaxMergeErrors
        /\ mergeErrors' = mergeErrors + 1 /\ sinceCheck' = Counted
        /\ UNCHANGED <<segs, writerTaken>>
    BY <1>11 DEF MergeFailed
  <2>3. ~Protected => run.active = "none" /\ \A x \in Targets : segs[x] < HighWater
    BY TargetIsOne DEF Protected
  <2> HIDE DEF t
  <2>4. debt' \in [Targets -> BOOLEAN] /\ mergeErrors' \in 0..MaxMergeErrors
    <3>1. debt' \in [Targets -> BOOLEAN]
      BY <1>1, <2>2
    <3>2. mergeErrors' \in 0..MaxMergeErrors
      BY <1>0, <1>1, <2>2
    <3> QED
      BY <3>1, <3>2
  <2>5. CASE Protected
    <3>1. run' \in Loops /\ run'.pc = "merge" /\ run'.due
      BY <1>10, <2>2, <2>5
    <3> QED
      BY <1>1, <1>2, <2>2, <2>4, <3>1, CountedIsAllowed, MergeKeeps
  <2>6. CASE ~Protected
    <3>1. run' \in Loops /\ run'.pc = "index" /\ run'.active = "none"
      BY <2>1, <2>2, <2>6 DEF Loops
    <3>2. sinceCheck' = 0
      BY <2>2, <2>3, <2>6 DEF Counted
    <3>3. \A x \in Targets : segs'[x] < HighWater + sinceCheck'
      BY <1>0, <1>1, <2>2, <2>3, <2>6, <3>2
    <3> QED
      BY <1>0, <1>1, <2>2, <2>4, <3>1, <3>2, <3>3, MergeKeeps
  <2> QED
    BY <2>5, <2>6
<1>12. CASE RunRestarts
  <2>1. /\ mergeErrors < MaxMergeErrors /\ mergeErrors' = mergeErrors + 1 /\ run' = RunStart
        /\ UNCHANGED <<segs, debt, writerTaken, sinceCheck>>
    BY <1>12 DEF RunRestarts
  <2>2. mergeErrors' \in 0..MaxMergeErrors
    BY <1>0, <1>1, <2>1
  <2> QED
    BY <1>1, <1>2, <1>10, <2>1, <2>2, MergeKeeps
<1> QED
  BY <1>3, <1>4, <1>5, <1>6, <1>7, <1>8, <1>9, <1>11, <1>12 DEF MergeNext, RunStep

(* However merges fail, give way to writers or are restarted, the loop lets no *)
(* index grow past the high water by more than the turns of one interval       *)
(* (search_indexer.rs, run).                                                   *)
THEOREM IndexStaysBelowCeiling == MergeSpec => [](MergeTypeOK /\ SegmentsStayBelowCeiling)
<1>1. MergeInit => MergeInv
  BY MergeStarts
<1>2. MergeInv /\ [MergeNext]_mergeVars => MergeInv'
  <2> SUFFICES ASSUME MergeInv, [MergeNext]_mergeVars PROVE MergeInv'
    OBVIOUS
  <2>1. CASE MergeNext
    BY <2>1, MergeNextKeeps
  <2>2. CASE UNCHANGED mergeVars
    BY <2>2 DEF mergeVars, MergeInv, MergeTypeOK, SegmentsStayBelowCeiling
  <2> QED
    BY <2>1, <2>2
<1>3. MergeInv => MergeTypeOK /\ SegmentsStayBelowCeiling
  BY DEF MergeInv
<1> QED
  BY <1>1, <1>2, <1>3, PTL DEF MergeSpec

-----------------------------------------------------------------------------

LEMMA DocsAreKnown ==
    ASSUME NEW d \in IxDocs
    PROVE  d[1] \in Kinds /\ d[2] \in Nat \ {0} /\ d = <<d[1], d[2]>>
BY SearchAssumption

LEMMA FillStartIsAbove ==
    /\ FillStart \in Nat \ {0}
    /\ \A d \in IxDocs : d[2] < FillStart
<1> DEFINE ids == [d \in IxDocs |-> d[2]]
           S == {d[2] : d \in IxDocs}
<1>1. \A d \in IxDocs : ids[d] \in Int
  BY DocsAreKnown
<1>2. PICK m \in IxDocs : \A d \in IxDocs : ids[d] <= ids[m]
  <2> HIDE DEF ids
  <2> QED
    BY <1>1, SomethingIsLargest, SearchAssumption
<1>3. S \in SUBSET Int /\ m[2] \in S /\ \A x \in S : x <= m[2]
  BY <1>2, DocsAreKnown
<1>4. Max(S) \in S /\ \A x \in S : x <= Max(S)
  <2> HIDE DEF S
  <2> QED
    BY <1>3, MaxIs
<1>5. Max(S) \in Nat
  BY <1>4, DocsAreKnown
<1> QED
  BY <1>4, <1>5, DocsAreKnown DEF FillStart

LEMMA ChunksAreNumbers ==
    /\ QueueChunk \in Nat \ {0} /\ BackfillChunk \in Nat \ {0} /\ PendingLimit \in Nat \ {0}
    /\ MaxIxWrites \in Nat /\ MaxIxStops \in Nat
BY SearchAssumption

LEMMA KindsAreFinite ==
    ASSUME NEW k, NEW S \in SUBSET OfKind(k)
    PROVE  IsFiniteSet(S) /\ S \subseteq IxDocs
<1>1. S \in SUBSET IxDocs
  BY DEF OfKind
<1> QED
  BY <1>1, SearchAssumption, FS_Subset

LEMMA RanksAreNumbers ==
    ASSUME IxTypes, NEW S \in SUBSET IxDocs
    PROVE  /\ \A d \in S : Oldest[d] \in Int /\ NewestId[d] \in Int /\ NewestQueued[d] \in Int
           /\ \A d \in IxDocs : /\ Oldest[d] = ixQueue[d].gen
                                /\ NewestId[d] = -d[2]
                                /\ NewestQueued[d] = -ixQueue[d].gen
<1>1. \A d \in IxDocs : ixQueue[d].gen \in Int
  BY ChunksAreNumbers DEF IxTypes
<1>2. \A d \in IxDocs : d[2] \in Int
  BY DocsAreKnown
<1> QED
  BY <1>1, <1>2 DEF Oldest, NewestId, NewestQueued

-----------------------------------------------------------------------------
(* Batches.                                                                *)

RowOf(d) == [doc |-> d, action |-> ixQueue[d].action, gen |-> ixQueue[d].gen, text |-> srcText[d]]
RowsOf(docs) == {RowOf(d) : d \in docs}

LEMMA RowsAreRows ==
    ASSUME IxTypes, NEW docs \in SUBSET IxDocs, IsFiniteSet(docs)
    PROVE  /\ RowsOf(docs) \in SUBSET IxRows
           /\ \A d \in docs : RowOf(d) \in RowsOf(docs) /\ RowOf(d).doc = d
           /\ \A r \in RowsOf(docs) : r.doc \in docs /\ r = RowOf(r.doc)
           /\ Cardinality(RowsOf(docs)) = Cardinality(docs)
<1> DEFINE f == [d \in docs |-> RowOf(d)]
<1>1. ASSUME NEW d \in docs
      PROVE  RowOf(d) \in IxRows /\ RowOf(d).doc = d
  BY DEF IxTypes, IxRows, RowOf
<1>2. \A r \in RowsOf(docs) : r.doc \in docs /\ r = RowOf(r.doc)
  BY <1>1 DEF RowsOf
<1>3. RowsOf(docs) = {f[d] : d \in docs}
  BY DEF RowsOf
<1>4. \A d, e \in docs : f[d] = f[e] => d = e
  BY <1>1
<1>5. Cardinality({f[d] : d \in docs}) = Cardinality(docs)
  <2>1. f = [d \in docs |-> f[d]]
    OBVIOUS
  <2> HIDE DEF f
  <2> QED
    BY <1>4, <2>1, ImagesAreCounted
<1> QED
  BY <1>1, <1>2, <1>3, <1>5 DEF RowsOf

LEMMA WorkIsDue ==
    ASSUME IxTypes
    PROVE  \/ WorkToDo = <<"queue", "status">>
           \/ WorkToDo = <<"queue", "account">>
           \/ /\ WorkToDo = <<"backfill", "account">> \/ WorkToDo = <<"backfill", "status">>
              /\ \A d \in IxDocs : ixQueue[d].gen = 0
              /\ ~ixFill[WorkToDo[2]].completed
           \/ WorkToDo[1] = "idle"
<1>1. ASSUME Queued("status") = {}, Queued("account") = {}
      PROVE  \A d \in IxDocs : ixQueue[d].gen = 0
  BY <1>1, DocsAreKnown DEF Queued, OfKind, Kinds
<1> QED
  BY <1>1 DEF WorkToDo

\* What a worker has after it read a batch.
Reading(job, k, docs) ==
    [pc |-> "commit", job |-> job, kind |-> k, fill |-> ixFill[k].cursor, batch |-> RowsOf(docs)]

LEMMA ReadingIsTyped ==
    ASSUME IxTypes, NEW job \in {"queue", "backfill"}, NEW k \in Kinds,
           NEW docs \in SUBSET IxDocs, IsFiniteSet(docs)
    PROVE  Reading(job, k, docs) \in IxMe
<1>1. RowsOf(docs) \in SUBSET IxRows
  BY RowsAreRows
<1>2. ixFill[k].cursor \in 0..FillStart
  BY FillStartIsAbove DEF IxTypes
<1> QED
  BY <1>1, <1>2 DEF Reading, IxMe

LEMMA QueueBatchIsTrue ==
    ASSUME IxTypes, QueueIsTrue, NEW k \in Kinds
    PROVE  /\ QueueBatch(k) \in SUBSET IxDocs /\ IsFiniteSet(QueueBatch(k))
           /\ BatchTrue(Reading("queue", k, QueueBatch(k)))
<1> DEFINE docs == QueueBatch(k)
           me == Reading("queue", k, docs)
<1>1. Queued(k) \in SUBSET OfKind(k)
  BY DEF Queued
<1>2. IsFiniteSet(Queued(k)) /\ Queued(k) \subseteq IxDocs
  BY <1>1, KindsAreFinite
<1>3. \A d \in Queued(k) : Oldest[d] \in Int
  BY <1>2, RanksAreNumbers
<1>4. \A d, e \in Queued(k) : Oldest[d] = Oldest[e] => d = e
  BY <1>2, RanksAreNumbers DEF Queued, QueueIsTrue
<1>5. docs \subseteq Queued(k)
  BY FirstByIsBelow DEF QueueBatch
<1>6. IsFiniteSet(docs) /\ Cardinality(docs) <= QueueChunk
  BY <1>2, <1>3, <1>4, ChunksAreNumbers, FirstByIsBounded DEF QueueBatch
<1>7. docs \in SUBSET IxDocs
  BY <1>2, <1>5
<1>8. /\ me.job = "queue" /\ me.pc = "commit" /\ me.kind = k /\ me.batch = RowsOf(docs)
  BY DEF Reading
<1> HIDE DEF me, docs
<1>9. ASSUME NEW r \in me.batch
      PROVE  /\ r.doc \in docs /\ r.doc[1] = k /\ r.gen = ixQueue[r.doc].gen
             /\ r.text = srcText[r.doc] /\ r.gen # 0 /\ r.gen <= ixWrites
             /\ r = RowOf(r.doc)
  <2>1. r.doc \in docs /\ r = RowOf(r.doc)
    BY <1>6, <1>7, <1>8, RowsAreRows
  <2>2. r.doc \in Queued(k) /\ r.doc \in IxDocs
    BY <1>5, <1>7, <2>1
  <2>3. r.gen = ixQueue[r.doc].gen /\ r.text = srcText[r.doc]
    BY <2>1 DEF RowOf
  <2> QED
    BY <2>1, <2>2, <2>3 DEF Queued, OfKind, QueueIsTrue
<1>10. Cardinality(me.batch) <= QueueChunk
  BY <1>6, <1>7, <1>8, RowsAreRows
<1>11. BatchRows(me)
  BY <1>8, <1>9, <1>10 DEF BatchRows
<1>12. QueueBatchTrue(me)
  BY <1>9 DEF QueueBatchTrue
<1> QED
  BY <1>6, <1>7, <1>8, <1>11, <1>12 DEF BatchTrue, me, docs

LEMMA BackfillBatchIsTrue ==
    ASSUME IxTypes, QueueIsTrue, OnlyBehind, NEW k \in Kinds, \A d \in IxDocs : ixQueue[d].gen = 0
    PROVE  /\ BackfillBatch(k) \in SUBSET IxDocs /\ IsFiniteSet(BackfillBatch(k))
           /\ BatchTrue(Reading("backfill", k, BackfillBatch(k)))
<1> DEFINE docs == BackfillBatch(k)
           me == Reading("backfill", k, docs)
<1>1. Unfilled(k) \in SUBSET OfKind(k)
  BY DEF Unfilled
<1>2. IsFiniteSet(Unfilled(k)) /\ Unfilled(k) \subseteq IxDocs
  BY <1>1, KindsAreFinite
<1>3. \A d \in Unfilled(k) : NewestId[d] \in Int
  BY <1>2, RanksAreNumbers
<1>4. ASSUME NEW d \in Unfilled(k), NEW e \in Unfilled(k), NewestId[d] = NewestId[e]
      PROVE  d = e
  <2>1. d[1] = k /\ e[1] = k /\ d \in IxDocs /\ e \in IxDocs
    BY <1>2 DEF Unfilled, OfKind
  <2>2. d[2] \in Nat /\ e[2] \in Nat /\ -d[2] = -e[2]
    BY <1>4, <2>1, RanksAreNumbers, DocsAreKnown
  <2>3. d[2] = e[2]
    BY <2>2
  <2> QED
    BY <2>1, <2>3, DocsAreKnown
<1>5. docs \subseteq Unfilled(k)
  BY FirstByIsBelow DEF BackfillBatch
<1>6. IsFiniteSet(docs) /\ Cardinality(docs) <= BackfillChunk
  BY <1>2, <1>3, <1>4, ChunksAreNumbers, FirstByIsBounded DEF BackfillBatch
<1>7. docs \in SUBSET IxDocs
  BY <1>2, <1>5
<1>8. /\ me.job = "backfill" /\ me.pc = "commit" /\ me.kind = k /\ me.batch = RowsOf(docs)
      /\ me.fill = ixFill[k].cursor
  BY DEF Reading
<1>13. me.fill \in 1..FillStart
  BY <1>8 DEF IxTypes
<1>14. Cardinality(docs) < BackfillChunk => docs = Unfilled(k)
  BY <1>2, <1>3, ChunksAreNumbers, FewAreAll DEF BackfillBatch
<1>15. ASSUME NEW d \in Unfilled(k), NEW e \in docs, e[2] <= d[2]
       PROVE  d \in docs
  <2>1. e \in IxDocs /\ d \in IxDocs /\ e[2] \in Nat /\ d[2] \in Nat
    BY <1>2, <1>7, DocsAreKnown
  <2>2. NewestId[d] <= NewestId[e]
    BY <1>15, <2>1, RanksAreNumbers
  <2> QED
    BY <1>2, <1>3, <2>2, ChunksAreNumbers, FirstByIsAnInitialPart DEF BackfillBatch
<1> HIDE DEF me, docs
<1>9. ASSUME NEW r \in me.batch
      PROVE  /\ r.doc \in docs /\ r.doc[1] = k /\ r.doc[2] < me.fill
             /\ r.text = srcText[r.doc] /\ r.gen <= ixWrites
             /\ r = RowOf(r.doc)
  <2>1. r.doc \in docs /\ r = RowOf(r.doc)
    BY <1>6, <1>7, <1>8, RowsAreRows
  <2>2. r.doc \in Unfilled(k) /\ r.doc \in IxDocs
    BY <1>5, <1>7, <2>1
  <2>3. r.gen = ixQueue[r.doc].gen /\ r.text = srcText[r.doc]
    BY <2>1 DEF RowOf
  <2> QED
    BY <1>8, <2>1, <2>2, <2>3 DEF Unfilled, OfKind, QueueIsTrue
<1>10. Cardinality(me.batch) = Cardinality(docs)
  BY <1>6, <1>7, <1>8, RowsAreRows
<1>11. BatchRows(me)
  BY <1>6, <1>8, <1>9, <1>10 DEF BatchRows
<1>16. ASSUME NEW d \in OfKind(k), d[2] < me.fill,
              \/ Cardinality(me.batch) < BackfillChunk
              \/ \E r \in me.batch : r.doc[2] <= d[2]
       PROVE  (\E r \in me.batch : r.doc = d) \/ Settled(d)
  <2>1. d \in IxDocs
    BY DEF OfKind
  <2>2. CASE srcText[d] = 0
    <3>1. ixContent[d] # srcText[d] => ixContent[d] = 0
      BY <2>1 DEF OnlyBehind
    <3> QED
      BY <2>2, <3>1 DEF Settled
  <2>3. CASE srcText[d] # 0
    <3>1. d \in Unfilled(k)
      BY <1>8, <1>16, <2>3 DEF Unfilled
    <3>2. d \in docs
      BY <1>9, <1>10, <1>14, <1>15, <1>16, <3>1
    <3> QED
      BY <1>6, <1>7, <1>8, <3>2, RowsAreRows
  <2> QED
    BY <2>2, <2>3
<1>17. ixFill[k].cursor <= me.fill
  BY <1>8 DEF IxTypes
<1>12. FillBatchTrue(me)
  BY <1>8, <1>9, <1>16, <1>17 DEF FillBatchTrue
<1> QED
  BY <1>6, <1>7, <1>8, <1>11, <1>12, <1>13 DEF BatchTrue, me, docs

-----------------------------------------------------------------------------
(* Steps that let the batches of the other workers be.                     *)

TameStep ==
    /\ ixWrites <= ixWrites'
    /\ \A d \in IxDocs : \/ ixQueue'[d] = ixQueue[d] /\ srcText'[d] = srcText[d]
                         \/ ixQueue'[d].gen = 0
                         \/ ixQueue'[d].gen > ixWrites
    /\ \A d \in IxDocs : Settled(d) \/ srcText'[d] # srcText[d] => Settled(d)'
    /\ \A k \in Kinds : \/ ixFill'[k].completed
                        \/ ~ixFill[k].completed /\ ixFill'[k].cursor <= ixFill[k].cursor

LEMMA BatchOutlives ==
    ASSUME IxTypes, IxTypes', TameStep, NEW me \in IxMe, BatchTrue(me)
    PROVE  BatchTrue(me)'
<1>1. ixWrites \in Nat /\ ixWrites' \in Nat /\ ixWrites <= ixWrites'
  BY ChunksAreNumbers DEF IxTypes, TameStep
<1>2. \A r \in me.batch : r.doc \in IxDocs /\ r.gen \in Nat /\ me.kind \in Kinds
  BY ChunksAreNumbers DEF IxMe, IxRows
<1>3. me.fill \in Nat /\ me.kind \in Kinds
  BY FillStartIsAbove DEF IxMe
<1>4. BatchRows(me)'
  BY <1>1, <1>2 DEF BatchTrue, BatchRows
<1>5. ASSUME QueueBatchTrue(me)
      PROVE  QueueBatchTrue(me)'
  <2> SUFFICES ASSUME NEW r \in me.batch
               PROVE  r.gen # 0 /\ (ixQueue'[r.doc] = [action |-> r.action, gen |-> r.gen]
                                    => r.text = srcText'[r.doc])
    BY DEF QueueBatchTrue
  <2>1. r.gen # 0 /\ r.gen <= ixWrites /\ r.doc \in IxDocs /\ r.gen \in Nat
    BY <1>2, <1>5 DEF QueueBatchTrue, BatchTrue, BatchRows
  <2>2. ASSUME ixQueue'[r.doc] = [action |-> r.action, gen |-> r.gen]
        PROVE  r.text = srcText'[r.doc]
    <3>1. ixQueue'[r.doc].gen = r.gen
      BY <2>2
    <3>2. ixQueue'[r.doc] = ixQueue[r.doc] /\ srcText'[r.doc] = srcText[r.doc]
      BY <1>1, <2>1, <3>1 DEF TameStep
    <3> QED
      BY <1>5, <2>2, <3>2 DEF QueueBatchTrue
  <2> QED
    BY <2>1, <2>2
<1>6. ASSUME FillBatchTrue(me)
      PROVE  FillBatchTrue(me)'
  <2>1. ixFill'[me.kind].completed \/ ixFill'[me.kind].cursor <= me.fill
    <3>1. CASE ixFill'[me.kind].completed
      BY <3>1
    <3>2. CASE ~ixFill'[me.kind].completed
      <4>1. ~ixFill[me.kind].completed /\ ixFill'[me.kind].cursor <= ixFill[me.kind].cursor
        BY <1>3, <3>2 DEF TameStep
      <4>2. ixFill[me.kind].cursor <= me.fill
        BY <1>6, <4>1 DEF FillBatchTrue
      <4>3. ixFill'[me.kind].cursor \in Nat /\ ixFill[me.kind].cursor \in Nat
        BY <1>3, FillStartIsAbove DEF IxTypes
      <4> QED
        BY <1>3, <4>1, <4>2, <4>3
    <3> QED
      BY <3>1, <3>2
  <2>2. ASSUME NEW r \in me.batch
        PROVE  r.doc[2] < me.fill /\ (r.text # srcText'[r.doc] => Settled(r.doc)')
    <3>1. r.doc \in IxDocs
      BY <1>2
    <3>2. r.doc[2] < me.fill /\ (r.text # srcText[r.doc] => Settled(r.doc))
      BY <1>6 DEF FillBatchTrue
    <3>3. ASSUME r.text # srcText'[r.doc]
          PROVE  Settled(r.doc)'
      BY <3>1, <3>2, <3>3 DEF TameStep
    <3> QED
      BY <3>2, <3>3
  <2>3. ASSUME NEW d \in OfKind(me.kind), d[2] < me.fill,
               \/ Cardinality(me.batch) < BackfillChunk
               \/ \E r \in me.batch : r.doc[2] <= d[2]
        PROVE  (\E r \in me.batch : r.doc = d) \/ Settled(d)'
    <3>1. d \in IxDocs
      BY DEF OfKind
    <3>2. (\E r \in me.batch : r.doc = d) \/ Settled(d)
      BY <1>6, <2>3 DEF FillBatchTrue
    <3> QED
      BY <3>1, <3>2 DEF TameStep
  <2> QED
    BY <2>1, <2>2, <2>3 DEF FillBatchTrue
<1> QED
  BY <1>4, <1>5, <1>6 DEF BatchTrue

LEMMA FreshIsTrue ==
    ASSUME IxTypes
    PROVE  FreshWorker \in IxMe /\ BatchTrue(FreshWorker)
<1>1. FreshWorker \in IxMe
  BY FillStartIsAbove DEF FreshWorker, IxMe, Kinds
<1>2. Cardinality({}) = 0
  BY FS_EmptySet
<1>3. BatchRows(FreshWorker)
  BY <1>2, ChunksAreNumbers DEF BatchRows, FreshWorker
<1> QED
  BY <1>1, <1>3 DEF BatchTrue, FreshWorker

\* A worker takes another state, the others keep theirs.
LEMMA WorkersKeep ==
    ASSUME IxTypes, IxTypes', TameStep, BatchesAreTrue, NEW w \in IxWorkers, NEW me \in IxMe,
           BatchTrue(me)', ixWorker' = [ixWorker EXCEPT ![w] = me]
    PROVE  BatchesAreTrue'
<1> SUFFICES ASSUME NEW v \in IxWorkers PROVE BatchTrue(ixWorker[v])'
  BY DEF BatchesAreTrue
<1>1. PICK old \in IxMe : old = ixWorker[v]
  BY DEF IxTypes
<1>2. BatchTrue(old)'
  BY <1>1, BatchOutlives DEF BatchesAreTrue
<1>3. ixWorker'[v] = (IF v = w THEN me ELSE old)
  BY <1>1 DEF IxTypes
<1>4. PICK new : new = ixWorker'[v]
  OBVIOUS
<1>5. BatchTrue(new)'
  BY <1>2, <1>3, <1>4
<1> QED
  BY <1>4, <1>5

LEMMA IdleWorkersKeep ==
    ASSUME IxTypes, IxTypes', TameStep, BatchesAreTrue, UNCHANGED ixWorker
    PROVE  BatchesAreTrue'
<1> SUFFICES ASSUME NEW v \in IxWorkers PROVE BatchTrue(ixWorker[v])'
  BY DEF BatchesAreTrue
<1>1. PICK old \in IxMe : old = ixWorker[v]
  BY DEF IxTypes
<1>2. BatchTrue(old)'
  BY <1>1, BatchOutlives DEF BatchesAreTrue
<1>3. old = ixWorker'[v]
  BY <1>1
<1> QED
  BY <1>2, <1>3

-----------------------------------------------------------------------------
(* The steps.                                                              *)

LEMMA WriteSets ==
    ASSUME IxTypes, NEW rows \in SUBSET IxRows, NEW deleted,
           \A r, q \in rows : r.doc = q.doc => r = q, Write(rows, deleted)
    PROVE  /\ ixContent' \in [IxDocs -> IxTexts \union {0}]
           /\ \A r \in rows : ixContent'[r.doc] = IF r \in deleted THEN 0 ELSE r.text
           /\ \A d \in IxDocs : (\A r \in rows : r.doc # d) => ixContent'[d] = ixContent[d]
<1> DEFINE Text(d) == IF \E r \in rows : r.doc = d
                      THEN LET r == CHOOSE q \in rows : q.doc = d
                           IN IF r \in deleted THEN 0 ELSE r.text
                      ELSE ixContent[d]
<1>1. ixContent' = [d \in IxDocs |-> Text(d)]
  BY DEF Write
<1>2. \A r \in rows : r.doc \in IxDocs /\ r.text \in IxTexts \union {0}
  BY DEF IxRows
<1>3. ASSUME NEW r \in rows
      PROVE  Text(r.doc) = IF r \in deleted THEN 0 ELSE r.text
  <2>1. (CHOOSE q \in rows : q.doc = r.doc) = r
    OBVIOUS
  <2> QED
    BY <2>1
<1>4. \A d \in IxDocs : (\A r \in rows : r.doc # d) => Text(d) = ixContent[d]
  OBVIOUS
<1>5. ASSUME NEW d \in IxDocs
      PROVE  Text(d) \in IxTexts \union {0}
  <2>1. CASE \E r \in rows : r.doc = d
    <3>1. PICK r \in rows : r.doc = d
      BY <2>1
    <3>2. Text(d) = IF r \in deleted THEN 0 ELSE r.text
      BY <1>3, <3>1
    <3> HIDE DEF Text
    <3> QED
      BY <1>2, <3>2
  <2>2. CASE \A r \in rows : r.doc # d
    BY <1>4, <2>2 DEF IxTypes
  <2> QED
    BY <2>1, <2>2
<1> HIDE DEF Text
<1> QED
  BY <1>1, <1>2, <1>3, <1>4, <1>5

\* Steps that leave rows, index, queue and history alone.
LEMMA StillStepsKeep ==
    ASSUME IxInv, UNCHANGED <<srcText, ixContent, ixQueue, ixFill, ixWrites>>,
           ixBusy' \in BOOLEAN, ixBusy' => ixWrites < MaxIxWrites,
           ixStops' \in 0..MaxIxStops,
           ixSnap' = ixSnap \/ ixSnap' = ixFill,
           \/ UNCHANGED ixWorker
           \/ \E w \in IxWorkers, me \in IxMe :
                 ixWorker' = [ixWorker EXCEPT ![w] = me] /\ BatchTrue(me)
    PROVE  IxInv'
<1>1. IxTypes /\ ixWrites \in Nat
  BY ChunksAreNumbers DEF IxInv, IxTypes
<1>2. ixWorker' \in [IxWorkers -> IxMe]
  BY <1>1 DEF IxTypes
<1>3. IxTypes'
  <2>1. ixSnap' \in [Kinds -> [cursor : 1..FillStart, completed : BOOLEAN]]
    BY <1>1 DEF IxTypes
  <2> QED
    BY <1>1, <1>2, <2>1 DEF IxTypes
<1>4. TameStep
  BY <1>1 DEF IxTypes, TameStep, Settled
<1>5. BatchesAreTrue
  BY DEF IxInv
<1>6. BatchesAreTrue'
  <2>1. CASE UNCHANGED ixWorker
    BY <1>1, <1>3, <1>4, <1>5, <2>1, IdleWorkersKeep
  <2>2. ASSUME NEW w \in IxWorkers, NEW me \in IxMe,
               ixWorker' = [ixWorker EXCEPT ![w] = me], BatchTrue(me)
        PROVE  BatchesAreTrue'
    <3>1. BatchTrue(me)'
      BY <1>1, <1>3, <1>4, <2>2, BatchOutlives
    <3> QED
      BY <1>1, <1>3, <1>4, <1>5, <2>2, <3>1, WorkersKeep
  <2> QED
    BY <2>1, <2>2
<1>7. RoomToWrite' /\ QueueIsTrue' /\ OnlyBehind'
  BY DEF IxInv, RoomToWrite, QueueIsTrue, OnlyBehind
<1>8. SnapIsOlder'
  <2> SUFFICES ASSUME NEW k \in Kinds, ~ixFill[k].completed
               PROVE  ~ixSnap'[k].completed /\ ixFill[k].cursor <= ixSnap'[k].cursor
    BY DEF SnapIsOlder
  <2>1. ixFill[k].cursor <= ixFill[k].cursor
    BY <1>1 DEF IxTypes
  <2> QED
    BY <2>1 DEF IxInv, SnapIsOlder
<1> QED
  BY <1>3, <1>6, <1>7, <1>8 DEF IxInv

LEMMA WriterBeginsKeeps ==
    ASSUME IxInv, WriterBegins
    PROVE  IxInv'
<1>1. ixStops \in 0..MaxIxStops
  BY DEF IxInv, IxTypes
<1> QED
  BY <1>1, StillStepsKeep DEF WriterBegins

LEMMA SearchBeginsKeeps ==
    ASSUME IxInv, SearchBegins
    PROVE  IxInv'
<1>1. ixStops \in 0..MaxIxStops /\ ixBusy \in BOOLEAN /\ (ixBusy => ixWrites < MaxIxWrites)
  BY DEF IxInv, IxTypes, RoomToWrite
<1> QED
  BY <1>1, StillStepsKeep DEF SearchBegins

LEMMA BatchIsDroppedKeeps ==
    ASSUME IxInv, NEW w \in IxWorkers, CommitBusy(w) \/ WorkerStops(w)
    PROVE  IxInv'
<1>1. ixStops' \in 0..MaxIxStops /\ ixBusy \in BOOLEAN /\ (ixBusy => ixWrites < MaxIxWrites)
  BY ChunksAreNumbers DEF IxInv, IxTypes, RoomToWrite, CommitBusy, WorkerStops
<1>2. FreshWorker \in IxMe /\ BatchTrue(FreshWorker)
  BY FreshIsTrue DEF IxInv
<1>3. ixWorker' = [ixWorker EXCEPT ![w] = FreshWorker]
  BY DEF CommitBusy, WorkerStops, Done
<1>4. UNCHANGED <<srcText, ixContent, ixQueue, ixFill, ixBusy, ixWrites, ixSnap>>
  BY DEF CommitBusy, WorkerStops
<1> QED
  BY <1>1, <1>2, <1>3, <1>4, StillStepsKeep

LEMMA ReadBatchKeeps ==
    ASSUME IxInv, NEW w \in IxWorkers, ReadBatch(w)
    PROVE  IxInv'
<1> DEFINE docs == IF WorkToDo[1] = "queue" THEN QueueBatch(WorkToDo[2])
                   ELSE BackfillBatch(WorkToDo[2])
           me == Reading(WorkToDo[1], WorkToDo[2], docs)
<1>1. /\ ixStops \in 0..MaxIxStops /\ ixBusy \in BOOLEAN /\ (ixBusy => ixWrites < MaxIxWrites)
      /\ IxTypes /\ QueueIsTrue /\ OnlyBehind
  BY DEF IxInv, IxTypes, RoomToWrite
<1>2. ixWorker' = [ixWorker EXCEPT ![w] = me]
  BY DEF ReadBatch, Reading, RowsOf, RowOf
<1>3. UNCHANGED <<srcText, ixContent, ixQueue, ixFill, ixBusy, ixWrites, ixStops, ixSnap>>
  BY DEF ReadBatch
<1>4. WorkToDo[1] # "idle"
  BY DEF ReadBatch
<1>5. me \in IxMe /\ BatchTrue(me)
  <2>1. CASE WorkToDo[1] = "queue"
    <3>1. WorkToDo[2] \in Kinds
      BY <1>1, <2>1, WorkIsDue DEF Kinds
    <3>2. docs = QueueBatch(WorkToDo[2])
      BY <2>1
    <3>3. docs \in SUBSET IxDocs /\ IsFiniteSet(docs) /\ BatchTrue(me)
      BY <1>1, <2>1, <3>1, <3>2, QueueBatchIsTrue
    <3> HIDE DEF docs
    <3> QED
      BY <1>1, <2>1, <3>1, <3>3, ReadingIsTyped
  <2>2. CASE WorkToDo[1] # "queue"
    <3>1. /\ WorkToDo[2] \in Kinds /\ WorkToDo[1] = "backfill"
          /\ \A d \in IxDocs : ixQueue[d].gen = 0
      BY <1>1, <1>4, <2>2, WorkIsDue DEF Kinds
    <3>2. docs = BackfillBatch(WorkToDo[2])
      BY <2>2
    <3>3. docs \in SUBSET IxDocs /\ IsFiniteSet(docs) /\ BatchTrue(me)
      BY <1>1, <3>1, <3>2, BackfillBatchIsTrue
    <3> HIDE DEF docs
    <3> QED
      BY <1>1, <3>1, <3>3, ReadingIsTyped
  <2> QED
    BY <2>1, <2>2
<1> HIDE DEF me
<1> QED
  BY <1>1, <1>2, <1>3, <1>5, StillStepsKeep

LEMMA WriterCommitsKeeps ==
    ASSUME IxInv, NEW d \in IxDocs, NEW t \in IxTexts \union {0}, WriterCommits(d, t)
    PROVE  IxInv'
<1> DEFINE entry == [action |-> IF t = 0 THEN "delete" ELSE "upsert", gen |-> ixWrites + 1]
<1>1. /\ IxTypes /\ RoomToWrite /\ QueueIsTrue /\ OnlyBehind /\ BatchesAreTrue /\ SnapIsOlder
      /\ ixWrites \in Nat /\ ixWrites < MaxIxWrites /\ MaxIxWrites \in Nat
  BY ChunksAreNumbers DEF IxInv, IxTypes, RoomToWrite, WriterCommits
<1>2. /\ srcText' = [srcText EXCEPT ![d] = t]
      /\ ixQueue' = [ixQueue EXCEPT ![d] = entry]
      /\ ixWrites' = ixWrites + 1 /\ ixBusy' = FALSE
      /\ UNCHANGED <<ixContent, ixFill, ixWorker, ixStops, ixSnap>>
      /\ t = 0 => d[1] = "status"
  BY DEF WriterCommits
<1>3. /\ entry \in [action : {"upsert", "delete"}, gen : 0..MaxIxWrites]
      /\ entry.gen = ixWrites + 1 /\ (entry.action = "delete" <=> t = 0)
      /\ t # 0 => entry.action = "upsert"
  BY <1>1
<1> HIDE DEF entry
<1>4. ixQueue' \in [IxDocs -> [action : {"upsert", "delete"}, gen : 0..MaxIxWrites]]
  BY <1>1, <1>2, <1>3 DEF IxTypes
<1>5. srcText' \in [IxDocs -> IxTexts \union {0}]
  BY <1>1, <1>2 DEF IxTypes
<1>6. ixWrites' \in 0..MaxIxWrites
  BY <1>1, <1>2
<1>7. ixBusy' \in BOOLEAN /\ ~ixBusy'
  BY <1>2
<1>8. IxTypes'
  BY <1>1, <1>2, <1>4, <1>5, <1>6, <1>7 DEF IxTypes
<1>9. /\ \A e \in IxDocs \ {d} : ixQueue'[e] = ixQueue[e] /\ srcText'[e] = srcText[e]
      /\ ixQueue'[d] = entry /\ srcText'[d] = t
  BY <1>1, <1>2 DEF IxTypes
<1>10. \A e \in IxDocs : ixQueue[e].gen \in Nat /\ ixQueue[e].gen <= ixWrites
  BY <1>1 DEF IxTypes, QueueIsTrue
<1>11. QueueIsTrue'
  <2>1. ASSUME NEW e \in IxDocs
        PROVE  /\ ixQueue'[e].gen <= ixWrites'
               /\ ixQueue'[e].gen # 0 => (ixQueue'[e].action = "delete" <=> srcText'[e] = 0)
               /\ ixQueue'[e].gen # 0 /\ e[1] = "account" => ixQueue'[e].action = "upsert"
    <3>1. CASE e = d
      <4>1. ixQueue'[e] = entry /\ srcText'[e] = t
        BY <1>9, <3>1
      <4>2. ixQueue'[e].gen <= ixWrites'
        BY <1>1, <1>2, <1>3, <4>1
      <4> QED
        BY <1>2, <1>3, <3>1, <4>1, <4>2
    <3>2. CASE e # d
      <4>1. ixQueue'[e] = ixQueue[e] /\ srcText'[e] = srcText[e]
        BY <1>9, <3>2
      <4>2. ixQueue'[e].gen <= ixWrites'
        BY <1>1, <1>2, <1>10, <4>1
      <4> QED
        BY <1>1, <4>1, <4>2 DEF QueueIsTrue
    <3> QED
      BY <3>1, <3>2
  <2>2. ASSUME NEW e \in IxDocs, NEW f \in IxDocs,
               ixQueue'[e].gen # 0, ixQueue'[e].gen = ixQueue'[f].gen
        PROVE  e = f
    <3>1. CASE e # d /\ f # d
      BY <1>1, <1>9, <2>2, <3>1 DEF QueueIsTrue
    <3>2. ASSUME NEW g \in IxDocs, g # d
          PROVE  ixQueue'[g].gen # ixQueue'[d].gen
      <4>1. ixQueue'[g].gen = ixQueue[g].gen /\ ixQueue'[d].gen = ixWrites + 1
        BY <1>3, <1>9, <3>2
      <4> QED
        BY <1>1, <1>10, <4>1
    <3> QED
      BY <2>2, <3>1, <3>2
  <2> QED
    BY <2>1, <2>2 DEF QueueIsTrue
<1>12. ixQueue'[d].gen # 0
  BY <1>1, <1>3, <1>9
<1>13. OnlyBehind'
  BY <1>1, <1>2, <1>9, <1>12 DEF OnlyBehind
<1>14. TameStep
  <2>1. ixWrites <= ixWrites'
    BY <1>1, <1>2
  <2>2. \A e \in IxDocs : \/ ixQueue'[e] = ixQueue[e] /\ srcText'[e] = srcText[e]
                          \/ ixQueue'[e].gen > ixWrites
    <3> TAKE e \in IxDocs
    <3>1. CASE e = d
      BY <1>1, <1>3, <1>9, <3>1
    <3>2. CASE e \in IxDocs \ {d}
      BY <1>9, <3>2
    <3> QED
      BY <3>1, <3>2
  <2>3. \A e \in IxDocs : Settled(e) \/ srcText'[e] # srcText[e] => Settled(e)'
    BY <1>2, <1>9, <1>12 DEF Settled
  <2>4. \A k \in Kinds : \/ ixFill'[k].completed
                         \/ ~ixFill[k].completed /\ ixFill'[k].cursor <= ixFill[k].cursor
    BY <1>1, <1>2 DEF IxTypes
  <2> QED
    BY <2>1, <2>2, <2>3, <2>4 DEF TameStep
<1>15. BatchesAreTrue'
  BY <1>1, <1>2, <1>8, <1>14, IdleWorkersKeep
<1>16. SnapIsOlder' /\ RoomToWrite'
  BY <1>1, <1>2, <1>7 DEF SnapIsOlder, RoomToWrite
<1> QED
  BY <1>8, <1>11, <1>13, <1>15, <1>16 DEF IxInv

LEMMA ClearKeeps ==
    ASSUME IxInv, ClearStatusCache
    PROVE  IxInv'
<1>1. /\ IxTypes /\ RoomToWrite /\ BatchesAreTrue
      /\ ixWrites \in Nat /\ ixWrites < MaxIxWrites /\ MaxIxWrites \in Nat
  BY ChunksAreNumbers DEF IxInv, IxTypes, RoomToWrite, ClearStatusCache
<1>2. /\ srcText' = [d \in IxDocs |-> 0] /\ ixContent' = [d \in IxDocs |-> 0]
      /\ ixQueue' = [d \in IxDocs |-> NotQueued]
      /\ ixFill' = [k \in Kinds |-> [cursor |-> FillStart, completed |-> TRUE]]
      /\ ixWrites' = ixWrites + 1 /\ ixBusy' = FALSE
      /\ UNCHANGED <<ixWorker, ixStops, ixSnap>>
  BY DEF ClearStatusCache
<1>3. NotQueued \in [action : {"upsert", "delete"}, gen : 0..MaxIxWrites] /\ NotQueued.gen = 0
  BY <1>1 DEF NotQueued
<1>4. [cursor |-> FillStart, completed |-> TRUE] \in [cursor : 1..FillStart, completed : BOOLEAN]
  BY FillStartIsAbove
<1>5. ixQueue' \in [IxDocs -> [action : {"upsert", "delete"}, gen : 0..MaxIxWrites]]
  BY <1>2, <1>3
<1>6. ixFill' \in [Kinds -> [cursor : 1..FillStart, completed : BOOLEAN]]
  BY <1>2, <1>4
<1>7. ixBusy' \in BOOLEAN /\ ~ixBusy'
  BY <1>2
<1>8. ixWrites' \in 0..MaxIxWrites
  BY <1>1, <1>2
<1>9. IxTypes'
  BY <1>1, <1>2, <1>5, <1>6, <1>7, <1>8 DEF IxTypes
<1>10. \A d \in IxDocs : srcText'[d] = 0 /\ ixContent'[d] = 0 /\ ixQueue'[d].gen = 0
  BY <1>2, <1>3
<1>11. \A k \in Kinds : ixFill'[k].completed
  BY <1>2
<1>12. QueueIsTrue' /\ OnlyBehind'
  BY <1>8, <1>10 DEF QueueIsTrue, OnlyBehind
<1>13. TameStep
  <2>1. ixWrites <= ixWrites'
    BY <1>1, <1>2
  <2>2. \A d \in IxDocs : Settled(d) \/ srcText'[d] # srcText[d] => Settled(d)'
    BY <1>10 DEF Settled
  <2>3. \A d \in IxDocs : \/ ixQueue'[d] = ixQueue[d] /\ srcText'[d] = srcText[d]
                          \/ ixQueue'[d].gen = 0
                          \/ ixQueue'[d].gen > ixWrites
    BY <1>10
  <2>4. \A k \in Kinds : \/ ixFill'[k].completed
                         \/ ~ixFill[k].completed /\ ixFill'[k].cursor <= ixFill[k].cursor
    BY <1>2
  <2> QED
    BY <2>1, <2>2, <2>3, <2>4 DEF TameStep
<1>14. BatchesAreTrue'
  BY <1>1, <1>2, <1>9, <1>13, IdleWorkersKeep
<1> QED
  BY <1>7, <1>9, <1>11, <1>12, <1>14 DEF IxInv, RoomToWrite, SnapIsOlder

LEMMA CommitQueueKeeps ==
    ASSUME IxInv, NEW w \in IxWorkers, CommitQueue(w)
    PROVE  IxInv'
<1>1. /\ IxTypes /\ RoomToWrite /\ QueueIsTrue /\ OnlyBehind /\ BatchesAreTrue /\ SnapIsOlder
      /\ ixStops \in 0..MaxIxStops /\ ixBusy \in BOOLEAN /\ (ixBusy => ixWrites < MaxIxWrites)
  BY DEF IxInv, IxTypes, RoomToWrite
<1>2. PICK me \in IxMe : me = ixWorker[w]
  BY <1>1 DEF IxTypes
<1> DEFINE current == CurrentRows(me)
           keys == {r.doc : r \in current}
           deleted == {r \in current : r.action = "delete"}
<1>3. /\ ixWorker' = [ixWorker EXCEPT ![w] = FreshWorker]
      /\ UNCHANGED <<srcText, ixFill, ixBusy, ixWrites, ixStops, ixSnap>>
      /\ me.pc = "commit" /\ me.job = "queue"
      /\ \/ UNCHANGED <<ixContent, ixQueue>>
         \/ /\ Write(current, deleted)
            /\ ixQueue' = [d \in IxDocs |-> IF d \in keys THEN NotQueued ELSE ixQueue[d]]
  BY <1>2 DEF CommitQueue, Done
<1>4. FreshWorker \in IxMe /\ BatchTrue(FreshWorker)
  BY <1>1, FreshIsTrue
<1>5. CASE UNCHANGED <<ixContent, ixQueue>>
  BY <1>1, <1>3, <1>4, <1>5, StillStepsKeep
<1>6. CASE /\ Write(current, deleted)
           /\ ixQueue' = [d \in IxDocs |-> IF d \in keys THEN NotQueued ELSE ixQueue[d]]
  <2>1. BatchRows(me) /\ QueueBatchTrue(me)
    BY <1>1, <1>2, <1>3 DEF BatchesAreTrue, BatchTrue
  <2>2. /\ current \in SUBSET IxRows
        /\ \A r, q \in current : r.doc = q.doc => r = q
    BY <2>1 DEF CurrentRows, IxMe, BatchRows
  <2>3. /\ ixContent' \in [IxDocs -> IxTexts \union {0}]
        /\ \A r \in current : ixContent'[r.doc] = IF r \in deleted THEN 0 ELSE r.text
        /\ \A d \in IxDocs : (\A r \in current : r.doc # d) => ixContent'[d] = ixContent[d]
    <3> HIDE DEF current, deleted
    <3> QED
      BY <1>1, <1>6, <2>2, WriteSets
  <2>4. ASSUME NEW r \in current
        PROVE  r.doc \in IxDocs /\ ixContent'[r.doc] = srcText[r.doc]
    <3>1. /\ r.doc \in IxDocs /\ r.gen # 0 /\ r.text = srcText[r.doc]
          /\ ixQueue[r.doc].gen = r.gen /\ ixQueue[r.doc].action = r.action
      BY <2>1, <2>2 DEF CurrentRows, QueueBatchTrue, IxRows
    <3>2. r.action = "delete" => srcText[r.doc] = 0
      BY <1>1, <3>1 DEF QueueIsTrue
    <3> QED
      BY <2>3, <3>1, <3>2
  <2>5. \A d \in IxDocs : \/ ixQueue'[d].gen = 0 /\ ixContent'[d] = srcText[d]
                          \/ ixQueue'[d] = ixQueue[d] /\ ixContent'[d] = ixContent[d]
    <3> TAKE d \in IxDocs
    <3>1. CASE d \in keys
      BY <1>6, <2>4, <3>1 DEF NotQueued
    <3>2. CASE d \notin keys
      BY <1>6, <2>3, <3>2
    <3> QED
      BY <3>1, <3>2
  <2>6. ixQueue' \in [IxDocs -> [action : {"upsert", "delete"}, gen : 0..MaxIxWrites]]
    <3>1. NotQueued \in [action : {"upsert", "delete"}, gen : 0..MaxIxWrites]
      BY ChunksAreNumbers DEF NotQueued
    <3> HIDE DEF keys
    <3> QED
      BY <1>1, <1>6, <3>1 DEF IxTypes
  <2> HIDE DEF keys, current, deleted
  <2>7. ixWorker' \in [IxWorkers -> IxMe]
    BY <1>1, <1>3, <1>4 DEF IxTypes
  <2>8. IxTypes'
    BY <1>1, <1>3, <2>3, <2>6, <2>7 DEF IxTypes
  <2>9. QueueIsTrue'
    <3>1. ixWrites \in Nat
      BY <1>1, ChunksAreNumbers DEF IxTypes
    <3>2. ASSUME NEW d \in IxDocs
          PROVE  /\ ixQueue'[d].gen <= ixWrites
                 /\ ixQueue'[d].gen # 0 => ixQueue'[d] = ixQueue[d]
      BY <1>1, <2>5, <3>1 DEF QueueIsTrue
    <3> QED
      BY <1>1, <1>3, <3>2 DEF QueueIsTrue
  <2>10. OnlyBehind'
    BY <1>1, <1>3, <2>5 DEF OnlyBehind
  <2>11. TameStep
    <3>1. ixWrites <= ixWrites'
      BY <1>1, <1>3, ChunksAreNumbers DEF IxTypes
    <3>2. \A d \in IxDocs : \/ ixQueue'[d] = ixQueue[d] /\ srcText'[d] = srcText[d]
                            \/ ixQueue'[d].gen = 0
      BY <1>3, <2>5
    <3>3. \A d \in IxDocs : Settled(d) \/ srcText'[d] # srcText[d] => Settled(d)'
      BY <1>3, <2>5 DEF Settled
    <3>4. \A k \in Kinds : \/ ixFill'[k].completed
                           \/ ~ixFill[k].completed /\ ixFill'[k].cursor <= ixFill[k].cursor
      BY <1>1, <1>3 DEF IxTypes
    <3> QED
      BY <3>1, <3>2, <3>3, <3>4 DEF TameStep
  <2>12. BatchTrue(FreshWorker)'
    BY <1>1, <1>4, <2>8, <2>11, BatchOutlives
  <2>13. BatchesAreTrue'
    BY <1>1, <1>3, <1>4, <2>8, <2>11, <2>12, WorkersKeep
  <2>14. SnapIsOlder' /\ RoomToWrite'
    BY <1>1, <1>3 DEF SnapIsOlder, RoomToWrite
  <2> QED
    BY <2>8, <2>9, <2>10, <2>13, <2>14 DEF IxInv
<1> QED
  BY <1>3, <1>5, <1>6

LEMMA CommitBackfillKeeps ==
    ASSUME IxInv, NEW w \in IxWorkers, CommitBackfill(w)
    PROVE  IxInv'
<1>1. /\ IxTypes /\ RoomToWrite /\ QueueIsTrue /\ OnlyBehind /\ BatchesAreTrue /\ SnapIsOlder
      /\ ixStops \in 0..MaxIxStops /\ ixBusy \in BOOLEAN /\ (ixBusy => ixWrites < MaxIxWrites)
  BY DEF IxInv, IxTypes, RoomToWrite
<1>2. PICK me \in IxMe : me = ixWorker[w]
  BY <1>1 DEF IxTypes
<1> DEFINE current == {r \in me.batch : r.text = srcText[r.doc]}
           ids == {r.doc[2] : r \in me.batch}
           last == IF me.batch = {} THEN me.fill ELSE Min(ids)
           done == Cardinality(me.batch) < BackfillChunk
<1>3. /\ ixWorker' = [ixWorker EXCEPT ![w] = FreshWorker]
      /\ UNCHANGED <<srcText, ixQueue, ixBusy, ixWrites, ixStops, ixSnap>>
      /\ me.pc = "commit" /\ me.job = "backfill"
  BY <1>2 DEF CommitBackfill, Done
<1>4. \/ UNCHANGED <<ixContent, ixFill>>
      \/ /\ ~StaleBackfill(me)
         /\ Write(current, {})
         /\ ixFill' = [ixFill EXCEPT ![me.kind] = [cursor |-> last, completed |-> done]]
  BY <1>2 DEF CommitBackfill
<1>5. FreshWorker \in IxMe /\ BatchTrue(FreshWorker)
  BY <1>1, FreshIsTrue
<1>6. CASE UNCHANGED <<ixContent, ixFill>>
  BY <1>1, <1>3, <1>5, <1>6, StillStepsKeep
<1>7. CASE /\ ~StaleBackfill(me)
           /\ Write(current, {})
           /\ ixFill' = [ixFill EXCEPT ![me.kind] = [cursor |-> last, completed |-> done]]
  <2>1. BatchRows(me) /\ FillBatchTrue(me) /\ me.fill \in 1..FillStart
    BY <1>1, <1>2, <1>3 DEF BatchesAreTrue, BatchTrue
  <2>2. /\ current \in SUBSET IxRows
        /\ \A r, q \in current : r.doc = q.doc => r = q
        /\ \A r \in me.batch : r \in IxRows /\ r.doc \in IxDocs
        /\ me.kind \in Kinds
    BY <2>1 DEF IxMe, BatchRows, IxRows
  <2>3. /\ ixContent' \in [IxDocs -> IxTexts \union {0}]
        /\ \A r \in current : ixContent'[r.doc] = r.text
        /\ \A d \in IxDocs : (\A r \in current : r.doc # d) => ixContent'[d] = ixContent[d]
    <3> HIDE DEF current
    <3>1. /\ ixContent' \in [IxDocs -> IxTexts \union {0}]
          /\ \A r \in current : ixContent'[r.doc] = IF r \in {} THEN 0 ELSE r.text
          /\ \A d \in IxDocs : (\A r \in current : r.doc # d) => ixContent'[d] = ixContent[d]
      BY <1>1, <1>7, <2>2, WriteSets
    <3> QED
      BY <3>1
  <2>4. /\ \A d \in IxDocs : ixQueue[d].gen = 0
        /\ ixFill[me.kind].cursor = me.fill /\ ~ixFill[me.kind].completed
    <3>1. Queued("status") = {} /\ Queued("account") = {}
          /\ ixFill[me.kind] = [cursor |-> me.fill, completed |-> FALSE]
      BY <1>7 DEF StaleBackfill
    <3>2. \A d \in IxDocs : ixQueue[d].gen = 0
      BY <3>1, DocsAreKnown DEF Queued, OfKind, Kinds
    <3> QED
      BY <3>1, <3>2
  <2>5. \A d \in IxDocs : ixContent'[d] = ixContent[d] \/ ixContent'[d] = srcText[d]
    <3> TAKE d \in IxDocs
    <3>1. CASE \E r \in current : r.doc = d
      BY <2>3, <3>1
    <3>2. CASE \A r \in current : r.doc # d
      BY <2>3, <3>2
    <3> QED
      BY <3>1, <3>2
  <2>6. \A r \in me.batch : ixContent'[r.doc] = srcText[r.doc]
    <3> TAKE r \in me.batch
    <3>1. CASE r.text = srcText[r.doc]
      BY <2>3, <3>1
    <3>2. CASE r.text # srcText[r.doc]
      <4>1. Settled(r.doc)
        BY <2>1, <3>2 DEF FillBatchTrue
      <4>2. ixContent[r.doc] = srcText[r.doc]
        BY <2>2, <2>4, <4>1 DEF Settled
      <4> QED
        BY <2>2, <2>5, <4>2
    <3> QED
      BY <3>1, <3>2
  <2>7. /\ last \in 1..FillStart /\ last <= me.fill
        /\ \A d \in IxDocs : me.batch # {} /\ last <= d[2] => \E r \in me.batch : r.doc[2] <= d[2]
    <3>1. CASE me.batch = {}
      BY <2>1, <3>1
    <3>2. CASE me.batch # {}
      <4> DEFINE minus == [r \in me.batch |-> -r.doc[2]]
      <4>1. \A r \in me.batch : r.doc[2] \in Nat \ {0} /\ r.doc[2] < me.fill
        BY <2>1, <2>2, DocsAreKnown DEF FillBatchTrue
      <4>10. \A r \in me.batch : r.doc[2] \in Int
        <5> TAKE r \in me.batch
        <5>1. r.doc[2] \in Nat \ {0}
          BY <4>1
        <5> QED
          BY <5>1
      <4>11. \A r \in me.batch : minus[r] \in Int
        BY <4>10
      <4>2. IsFiniteSet(me.batch)
        <5>1. \A r, q \in me.batch : r.doc = q.doc => r = q
          BY <2>1 DEF BatchRows
        <5> DEFINE doc == [r \in me.batch |-> r.doc]
        <5>2. doc \in Injection(me.batch, IxDocs)
          BY <2>2, <5>1 DEF Injection, IsInjective
        <5> QED
          BY <5>2, SearchAssumption, FS_Injection
      <4>3. PICK m \in me.batch : \A r \in me.batch : minus[r] <= minus[m]
        <5> HIDE DEF minus
        <5> QED
          BY <3>2, <4>2, <4>11, SomethingIsLargest
      <4>4. \A r \in me.batch : m.doc[2] <= r.doc[2]
        <5> TAKE r \in me.batch
        <5>1. -r.doc[2] <= -m.doc[2]
          BY <4>3
        <5>2. \A i, j \in Nat : -i <= -j => j <= i
          OBVIOUS
        <5>3. r.doc[2] \in Nat /\ m.doc[2] \in Nat
          BY <4>1
        <5> QED
          BY <5>1, <5>2, <5>3
      <4>5. ids \in SUBSET Int /\ m.doc[2] \in ids /\ \A x \in ids : m.doc[2] <= x
        <5> HIDE DEF minus
        <5> QED
          BY <4>4, <4>10
      <4>6. Min(ids) \in ids /\ \A x \in ids : Min(ids) <= x
        <5> HIDE DEF ids
        <5> QED
          BY <4>5, MinIs
      <4>7. PICK q \in me.batch : last = q.doc[2]
        BY <3>2, <4>6
      <4> HIDE DEF last, ids, minus
      <4>8. last \in 1..FillStart /\ last <= me.fill
        BY <2>1, <4>1, <4>7, FillStartIsAbove
      <4>9. \A d \in IxDocs : last <= d[2] => q.doc[2] <= d[2]
        BY <4>7
      <4> QED
        BY <4>8, <4>9
    <3> QED
      BY <3>1, <3>2
  <2>8. ASSUME NEW d \in OfKind(me.kind), ixContent'[d] # srcText[d]
        PROVE  ~done /\ d[2] < last
    <3>1. d \in IxDocs /\ d[1] = me.kind /\ d[2] \in Nat
      BY DocsAreKnown DEF OfKind
    <3>2. ixContent[d] # srcText[d] /\ \A r \in me.batch : r.doc # d
      BY <2>5, <2>6, <2>8, <3>1
    <3>3. ~Settled(d)
      BY <2>4, <3>1, <3>2 DEF Settled
    <3>4. d[2] < me.fill
      BY <1>1, <2>4, <3>1, <3>2 DEF OnlyBehind
    <3>5. ~(Cardinality(me.batch) < BackfillChunk) /\ ~\E r \in me.batch : r.doc[2] <= d[2]
      BY <2>1, <3>2, <3>3, <3>4 DEF FillBatchTrue
    <3>6. me.batch # {}
      <4>1. ASSUME me.batch = {} PROVE FALSE
        <5>1. Cardinality(me.batch) = 0
          BY <4>1, FS_EmptySet
        <5>2. ~(Cardinality(me.batch) < BackfillChunk)
          BY <3>5
        <5> QED
          BY <5>1, <5>2, ChunksAreNumbers
      <4> QED
        BY <4>1
    <3>7. ~(last <= d[2])
      BY <2>7, <3>1, <3>5, <3>6
    <3> QED
      BY <2>7, <3>1, <3>5, <3>7
  <2> HIDE DEF last, current, ids, done
  <2>9. done \in BOOLEAN
    BY DEF done
  <2>10. /\ ixFill' \in [Kinds -> [cursor : 1..FillStart, completed : BOOLEAN]]
         /\ ixFill'[me.kind].cursor = last /\ ixFill'[me.kind].completed = done
         /\ \A k \in Kinds \ {me.kind} : ixFill'[k] = ixFill[k]
    <3>1. PICK f \in [cursor : 1..FillStart, completed : BOOLEAN] :
              f = [cursor |-> last, completed |-> done]
      <4>1. [cursor |-> last, completed |-> done] \in [cursor : 1..FillStart, completed : BOOLEAN]
        BY <2>7, <2>9
      <4> QED
        BY <4>1
    <3>2. ixFill' = [ixFill EXCEPT ![me.kind] = f]
      BY <1>7, <3>1
    <3>3. f.cursor = last /\ f.completed = done
      BY <3>1
    <3> QED
      BY <1>1, <2>2, <3>2, <3>3 DEF IxTypes
  <2>11. ixWorker' \in [IxWorkers -> IxMe]
    BY <1>1, <1>3, <1>5 DEF IxTypes
  <2>12. IxTypes'
    BY <1>1, <1>3, <2>3, <2>10, <2>11 DEF IxTypes
  <2>13. QueueIsTrue' /\ RoomToWrite'
    BY <1>1, <1>3 DEF QueueIsTrue, RoomToWrite
  <2>14. OnlyBehind'
    <3> SUFFICES ASSUME NEW d \in IxDocs, ixContent'[d] # srcText[d]
                 PROVE  /\ ixContent'[d] = 0 /\ ~ixFill'[d[1]].completed
                        /\ d[2] < ixFill'[d[1]].cursor
      BY <1>3 DEF OnlyBehind
    <3>1. ixContent[d] # srcText[d] /\ ixContent'[d] = ixContent[d]
      BY <2>5
    <3>2. ixContent[d] = 0 /\ ~ixFill[d[1]].completed /\ d[2] < ixFill[d[1]].cursor
      BY <1>1, <2>4, <3>1 DEF OnlyBehind
    <3>3. d[1] \in Kinds
      BY DocsAreKnown
    <3>4. CASE d[1] = me.kind
      <4>1. d \in OfKind(me.kind)
        BY <3>4 DEF OfKind
      <4>2. ~done /\ d[2] < last
        BY <2>8, <4>1
      <4> QED
        BY <2>10, <3>1, <3>2, <3>4, <4>2
    <3>5. CASE d[1] # me.kind
      BY <2>10, <3>1, <3>2, <3>3, <3>5
    <3> QED
      BY <3>4, <3>5
  <2>15. \A k \in Kinds : ~ixFill'[k].completed
            => ~ixFill[k].completed /\ ixFill'[k].cursor <= ixFill[k].cursor
    <3> TAKE k \in Kinds
    <3>1. CASE k = me.kind
      BY <2>4, <2>7, <2>10, <3>1
    <3>2. CASE k # me.kind
      <4>1. ixFill'[k] = ixFill[k] /\ ixFill[k].cursor <= ixFill[k].cursor
        BY <1>1, <2>10, <3>2 DEF IxTypes
      <4> QED
        BY <4>1
    <3> QED
      BY <3>1, <3>2
  <2>16. TameStep
    <3>1. ixWrites <= ixWrites'
      BY <1>1, <1>3, ChunksAreNumbers DEF IxTypes
    <3>2. \A d \in IxDocs : ixQueue'[d] = ixQueue[d] /\ srcText'[d] = srcText[d]
      BY <1>3
    <3>3. \A d \in IxDocs : Settled(d) \/ srcText'[d] # srcText[d] => Settled(d)'
      BY <1>3, <2>5 DEF Settled
    <3> QED
      BY <2>15, <3>1, <3>2, <3>3 DEF TameStep
  <2>17. BatchTrue(FreshWorker)'
    BY <1>1, <1>5, <2>12, <2>16, BatchOutlives
  <2>18. BatchesAreTrue'
    BY <1>1, <1>3, <1>5, <2>12, <2>16, <2>17, WorkersKeep
  <2>19. SnapIsOlder'
    <3> SUFFICES ASSUME NEW k \in Kinds, ~ixFill'[k].completed
                 PROVE  ~ixSnap[k].completed /\ ixFill'[k].cursor <= ixSnap[k].cursor
      BY <1>3 DEF SnapIsOlder
    <3>1. ~ixFill[k].completed /\ ixFill'[k].cursor <= ixFill[k].cursor
      BY <2>15
    <3>2. ~ixSnap[k].completed /\ ixFill[k].cursor <= ixSnap[k].cursor
      BY <1>1, <3>1 DEF SnapIsOlder
    <3>3. ixFill'[k].cursor \in Nat /\ ixFill[k].cursor \in Nat /\ ixSnap[k].cursor \in Nat
      BY <1>1, <2>10, FillStartIsAbove DEF IxTypes
    <3> QED
      BY <3>1, <3>2, <3>3
  <2> QED
    BY <2>12, <2>13, <2>14, <2>18, <2>19 DEF IxInv
<1> QED
  BY <1>4, <1>6, <1>7

LEMMA SearchStarts ==
    ASSUME SearchInit
    PROVE  IxInv
<1>1. PICK t \in {0, 1} : /\ srcText = [d \in IxDocs |-> t]
                         /\ ixFill = [k \in Kinds |-> [cursor |-> FillStart, completed |-> t = 0]]
  BY DEF SearchInit
<1>2. /\ ixContent = [d \in IxDocs |-> 0] /\ ixQueue = [d \in IxDocs |-> NotQueued]
      /\ ixBusy = FALSE /\ ixWrites = 0 /\ ixWorker = [w \in IxWorkers |-> FreshWorker]
      /\ ixStops = 0 /\ ixSnap = ixFill
  BY DEF SearchInit
<1>3. NotQueued \in [action : {"upsert", "delete"}, gen : 0..MaxIxWrites] /\ NotQueued.gen = 0
  BY ChunksAreNumbers DEF NotQueued
<1>4. PICK f \in [cursor : 1..FillStart, completed : BOOLEAN] :
          f = [cursor |-> FillStart, completed |-> t = 0]
  <2>1. [cursor |-> FillStart, completed |-> t = 0] \in [cursor : 1..FillStart, completed : BOOLEAN]
    BY FillStartIsAbove
  <2> QED
    BY <2>1
<1>5. /\ ixFill = [k \in Kinds |-> f] /\ f.cursor = FillStart /\ (f.completed <=> t = 0)
  BY <1>1, <1>4
<1>6. srcText \in [IxDocs -> IxTexts \union {0}]
  BY <1>1, SearchAssumption
<1>7. ixQueue \in [IxDocs -> [action : {"upsert", "delete"}, gen : 0..MaxIxWrites]]
  BY <1>2, <1>3
<1>8. ixFill \in [Kinds -> [cursor : 1..FillStart, completed : BOOLEAN]]
  BY <1>5
<1>9. FreshWorker \in IxMe
  BY FillStartIsAbove DEF FreshWorker, IxMe, Kinds
<1>10. ixWorker \in [IxWorkers -> IxMe]
  BY <1>2, <1>9
<1>11. ixBusy \in BOOLEAN /\ ~ixBusy
  BY <1>2
<1>12. ixWrites \in 0..MaxIxWrites /\ ixStops \in 0..MaxIxStops
  BY <1>2, ChunksAreNumbers
<1>13. IxTypes
  BY <1>2, <1>6, <1>7, <1>8, <1>10, <1>11, <1>12 DEF IxTypes
<1>14. QueueIsTrue
  BY <1>2, <1>3 DEF QueueIsTrue
<1>15. OnlyBehind
  <2> SUFFICES ASSUME NEW d \in IxDocs, ixContent[d] # srcText[d]
               PROVE  /\ ixContent[d] = 0 /\ ~ixFill[d[1]].completed
                      /\ d[2] < ixFill[d[1]].cursor
    BY DEF OnlyBehind
  <2>1. ixContent[d] = 0 /\ srcText[d] = t
    BY <1>1, <1>2
  <2>2. ixFill[d[1]] = f
    BY <1>5, DocsAreKnown
  <2> QED
    BY <1>5, <2>1, <2>2, FillStartIsAbove
<1>16. BatchesAreTrue
  BY <1>2, <1>13, FreshIsTrue DEF BatchesAreTrue
<1>17. SnapIsOlder
  <2>1. \A k \in Kinds : ixFill[k].cursor <= ixFill[k].cursor
    BY <1>13 DEF IxTypes
  <2> QED
    BY <1>2, <2>1 DEF SnapIsOlder
<1> QED
  BY <1>11, <1>13, <1>14, <1>15, <1>16, <1>17 DEF IxInv, RoomToWrite

-----------------------------------------------------------------------------
(* What follows.                                                           *)

LEMMA IxInvGivesTypes ==
    ASSUME IxInv
    PROVE  SearchTypeOK
<1>1. IxTypes /\ BatchesAreTrue
  BY DEF IxInv
<1>2. ASSUME NEW w \in IxWorkers
      PROVE  /\ ixWorker[w].pc \in {"top", "commit"}
             /\ Cardinality(ixWorker[w].batch) <= Max({QueueChunk, BackfillChunk})
  <2>1. PICK me \in IxMe : me = ixWorker[w]
    BY <1>1 DEF IxTypes
  <2>2. Cardinality(me.batch) <= (IF me.job = "queue" THEN QueueChunk ELSE BackfillChunk)
    BY <1>1, <2>1 DEF BatchesAreTrue, BatchTrue, BatchRows
  <2> DEFINE S == {QueueChunk, BackfillChunk}
  <2>3. S \in SUBSET Int /\ \E m \in S : \A x \in S : x <= m
    BY ChunksAreNumbers
  <2>4. Max(S) \in S /\ \A x \in S : x <= Max(S)
    <3> HIDE DEF S
    <3> QED
      BY <2>3, MaxIs
  <2>5. QueueChunk <= Max(S) /\ BackfillChunk <= Max(S) /\ Max(S) \in Nat
    BY <2>4, ChunksAreNumbers
  <2>6. IsFiniteSet(me.batch)
    <3>1. \A r, q \in me.batch : r.doc = q.doc => r = q
      BY <1>1, <2>1 DEF BatchesAreTrue, BatchTrue, BatchRows
    <3> DEFINE doc == [r \in me.batch |-> r.doc]
    <3>2. doc \in Injection(me.batch, IxDocs)
      BY <3>1 DEF Injection, IsInjective, IxMe, IxRows
    <3> QED
      BY <3>2, SearchAssumption, FS_Injection
  <2>7. Cardinality(me.batch) \in Nat
    BY <2>6, FS_CardinalityType
  <2>8. me.pc \in {"top", "commit"}
    BY DEF IxMe
  <2> HIDE DEF S
  <2>9. Cardinality(me.batch) <= Max(S)
    BY <2>2, <2>5, <2>7, ChunksAreNumbers
  <2> QED
    BY <2>1, <2>8, <2>9 DEF S
<1> QED
  BY <1>1, <1>2 DEF SearchTypeOK, IxTypes

LEMMA IxInvForgetsNothing ==
    ASSUME IxInv
    PROVE  IndexNeverForgets
BY DEF IxInv, OnlyBehind, IndexNeverForgets

\* Whatever is queued with a row is pending while there is room for all.
LEMMA QueuedIsPending ==
    ASSUME IxInv, NEW k \in Kinds, Cardinality(Queued(k)) <= PendingLimit
    PROVE  /\ \A d \in OfKind(k) : ixQueue[d].gen # 0 /\ srcText[d] # 0 => d \in Pending(k)
           /\ Pending(k) \subseteq Queued(k)
<1> DEFINE S == {d \in Queued(k) : ixQueue[d].action = "upsert" /\ srcText[d] # 0}
<1>1. IxTypes /\ QueueIsTrue
  BY DEF IxInv
<1>2. Queued(k) \in SUBSET OfKind(k) /\ S \in SUBSET Queued(k) /\ S \in SUBSET OfKind(k)
  BY DEF Queued
<1>3. IsFiniteSet(Queued(k)) /\ IsFiniteSet(S) /\ S \subseteq IxDocs
  BY <1>2, KindsAreFinite
<1>4. Cardinality(S) <= Cardinality(Queued(k)) /\ Cardinality(S) \in Nat
      /\ Cardinality(Queued(k)) \in Nat
  BY <1>2, <1>3, FS_Subset, FS_CardinalityType
<1>5. Cardinality(S) <= PendingLimit
  BY <1>4, ChunksAreNumbers
<1>6. \A d \in S : NewestQueued[d] \in Int
  BY <1>1, <1>3, RanksAreNumbers
<1>7. Pending(k) = S
  <2>1. Pending(k) = FirstBy(S, PendingLimit, NewestQueued)
    BY DEF Pending
  <2> HIDE DEF S
  <2> QED
    BY <1>3, <1>5, <1>6, <2>1, ChunksAreNumbers, SmallSetsAreFirst
<1>8. ASSUME NEW d \in OfKind(k), ixQueue[d].gen # 0, srcText[d] # 0
      PROVE  d \in S
  <2>1. d \in IxDocs
    BY DEF OfKind
  <2>2. ixQueue[d].action = "upsert"
    <3>1. ixQueue[d].action \in {"upsert", "delete"} /\ ixQueue[d].action # "delete"
      BY <1>1, <1>8, <2>1 DEF IxTypes, QueueIsTrue
    <3> QED
      BY <3>1
  <2> QED
    BY <1>8, <2>2 DEF Queued
<1> QED
  BY <1>2, <1>7, <1>8

\* A kind is matched by its rows and by nothing else, deleted statuses apart.
LEMMA MatchingIsExact ==
    ASSUME IxInv, NEW k \in Kinds, Cardinality(Queued(k)) <= PendingLimit, NEW t \in IxTexts,
           NEW d \in OfKind(k), srcText[d] # 0 \/ k = "account"
    PROVE  d \in Matching(k, t) <=> srcText[d] = t
<1>1. IxTypes /\ QueueIsTrue /\ OnlyBehind /\ SnapIsOlder
  BY DEF IxInv
<1>2. d \in IxDocs /\ d[1] = k /\ t # 0 /\ d[2] \in Nat
  BY SearchAssumption, DocsAreKnown DEF OfKind
<1>3. ixQueue[d].gen # 0 /\ srcText[d] # 0 <=> d \in Pending(k)
  <2>1. d \in Pending(k) => ixQueue[d].gen # 0 /\ srcText[d] # 0
    BY FirstByIsBelow DEF Pending, Queued
  <2> QED
    BY <2>1, QueuedIsPending
<1>4. ixQueue[d].gen # 0 => srcText[d] # 0
  <2>1. CASE srcText[d] # 0
    BY <2>1
  <2>2. CASE k = "account"
    BY <1>1, <1>2, <2>2 DEF QueueIsTrue
  <2> QED
    BY <2>1, <2>2
<1>5. CASE d \in Pending(k)
  BY <1>5 DEF Matching
<1>6. CASE d \notin Pending(k)
  <2>1. ixQueue[d].gen = 0
    BY <1>3, <1>4, <1>6
  <2>2. CASE ixContent[d] = srcText[d]
    BY <1>2, <1>6, <2>2 DEF Matching
  <2>3. CASE ixContent[d] # srcText[d]
    <3>1. ixContent[d] = 0 /\ ~ixFill[k].completed /\ d[2] < ixFill[k].cursor
      BY <1>1, <1>2, <2>1, <2>3 DEF OnlyBehind
    <3>2. ~ixSnap[k].completed /\ ixFill[k].cursor <= ixSnap[k].cursor
      BY <1>1, <3>1 DEF SnapIsOlder
    <3>3. ixFill[k].cursor \in Nat /\ ixSnap[k].cursor \in Nat
      BY <1>1, FillStartIsAbove DEF IxTypes
    <3>4. d[2] < ixSnap[k].cursor
      BY <1>2, <3>1, <3>2, <3>3
    <3> QED
      BY <1>2, <1>6, <3>1, <3>2, <3>4 DEF Matching
  <2> QED
    BY <2>2, <2>3
<1> QED
  BY <1>5, <1>6

LEMMA MatchingIsOfItsKind ==
    ASSUME NEW k \in Kinds, NEW t
    PROVE  Matching(k, t) \subseteq OfKind(k)
BY FirstByIsBelow DEF Matching, Pending, Queued

LEMMA IxInvFindsExactly ==
    ASSUME IxInv
    PROVE  SearchIsExact
<1> SUFFICES ASSUME \A k \in Kinds : Cardinality(Queued(k)) <= PendingLimit, NEW t \in IxTexts
             PROVE  SearchHits(t) = {s \in OfKind("status") :
                        /\ srcText[s] # 0
                        /\ srcText[s] = t \/ \E a \in OfKind("account") : srcText[a] = t}
  BY DEF SearchIsExact
<1>1. "status" \in Kinds /\ "account" \in Kinds
  BY DEF Kinds
<1>2. \A s \in OfKind("status") : srcText[s] # 0 => (s \in Matching("status", t) <=> srcText[s] = t)
  BY <1>1, MatchingIsExact
<1>3. \A a \in OfKind("account") : a \in Matching("account", t) <=> srcText[a] = t
  BY <1>1, MatchingIsExact
<1>4. Matching("account", t) # {} <=> \E a \in OfKind("account") : srcText[a] = t
  BY <1>1, <1>3, MatchingIsOfItsKind
<1> QED
  BY <1>2, <1>4 DEF SearchHits

(* Every committed change of a row reaches the index, whichever batches of two *)
(* processes, changes, clears and restarts crossed each other, and a search    *)
(* finds the rows of its text and no others (search_indexer.rs, search.rs).    *)
THEOREM SearchesAreRight ==
    SearchSpec => [](SearchTypeOK /\ IndexNeverForgets /\ SearchIsExact)
<1>1. SearchInit => IxInv
  BY SearchStarts
<1>2. IxInv /\ [SearchNext]_ixVars => IxInv'
  <2> SUFFICES ASSUME IxInv, [SearchNext]_ixVars PROVE IxInv'
    OBVIOUS
  <2>1. CASE SearchNext
    BY <2>1, WriterBeginsKeeps, WriterCommitsKeeps, ClearKeeps, ReadBatchKeeps, CommitQueueKeeps,
       CommitBackfillKeeps, BatchIsDroppedKeeps, SearchBeginsKeeps
       DEF SearchNext, Interactive, WorkerTurn
  <2>2. CASE UNCHANGED ixVars
    <3>1. ixStops \in 0..MaxIxStops /\ ixBusy \in BOOLEAN /\ (ixBusy => ixWrites < MaxIxWrites)
      BY DEF IxInv, IxTypes, RoomToWrite
    <3> QED
      BY <2>2, <3>1, StillStepsKeep DEF ixVars
  <2> QED
    BY <2>1, <2>2
<1>3. IxInv => SearchTypeOK /\ IndexNeverForgets /\ SearchIsExact
  BY IxInvGivesTypes, IxInvForgetsNothing, IxInvFindsExactly
<1> QED
  BY <1>1, <1>2, <1>3, PTL DEF SearchSpec

(* Both loops of the indexer together: what a search answers is right and the  *)
(* index keeps below its ceiling of segments.                                  *)
THEOREM IndexStaysRight == SearchSpec /\ MergeSpec => []IndexIsRight
<1>1. /\ SearchTypeOK /\ IndexNeverForgets /\ SearchIsExact
      /\ MergeTypeOK /\ SegmentsStayBelowCeiling
      => IndexIsRight
  BY DEF IndexIsRight
<1> QED
  BY <1>1, SearchesAreRight, IndexStaysBelowCeiling, PTL

-----------------------------------------------------------------------------
(***************************************************************************)
(* The posts that Bluesky notifications are about.                         *)
(***************************************************************************)

Entries == [fetched : Nat, used : Nat, put : Nat]
Calls == [step : {"none", "fetch", "store"}, want : SUBSET Uris, have : SUBSET Uris,
          got : SUBSET Uris, hides : SUBSET Nat, asked : Nat]

\* A cache within its capacity, with entries as old as they say: reading one does not renew it.
CacheHolds(cache) ==
    /\ IsFiniteSet(DOMAIN cache) /\ Cardinality(DOMAIN cache) <= CacheCapacity
    /\ DOMAIN cache \subseteq Uris
    /\ \A u \in DOMAIN cache :
         /\ cache[u] \in Entries /\ cache[u].put = cache[u].fetched
         /\ cache[u].fetched <= cache[u].used /\ cache[u].used <= subNow

\* A deleted post is still found only as an answer under way when it was deleted.
FoundIsRecent(found) ==
    \A u \in DOMAIN found : subDeleted[u] # -1 => found[u].fetched - subDeleted[u] <= FetchDelay

\* A call under way is within its time, and what it got was deleted later, if it was.
CallHolds(c) ==
    /\ subCall[c].step # "none" =>
         /\ subCall[c].asked <= subNow /\ subNow - subCall[c].asked <= FetchDelay
    /\ subCall[c].step = "store" =>
         \A u \in subCall[c].got : subDeleted[u] # -1 => subDeleted[u] >= subCall[c].asked
    /\ \A u \in subCall[c].have :
         subDeleted[u] # -1 => subCall[c].asked - subDeleted[u] <= FoundTtl + FetchDelay
    /\ \A put \in subCall[c].hides : subCall[c].asked - put <= MissTtl
    /\ subCall[c].asked <= subNow

SubjectTyped ==
    /\ subNow \in Nat
    /\ subDeleted \in [Uris -> Nat \union {-1}]
    /\ subCall \in [Listings -> Calls]

SubjectInv ==
    /\ SubjectTyped
    /\ CacheHolds(subFound) /\ CacheHolds(subMissed) /\ FoundIsRecent(subFound)
    /\ \A c \in Listings : CallHolds(c)

LEMMA SubjectConstants ==
    /\ CacheCapacity \in Nat \ {0} /\ FoundTtl \in Nat /\ MissTtl \in Nat /\ FetchDelay \in Nat
  BY SubjectAssumption

(***************************************************************************)
(* The operations of a cache.                                              *)
(***************************************************************************)

LEMMA GetManyKeeps ==
    ASSUME subNow \in Nat, NEW cache, CacheHolds(cache), NEW keys, NEW ttl \in Nat,
           NEW read, read = GetMany(cache, keys, ttl)
    PROVE  /\ CacheHolds(read)
           /\ \A u \in DOMAIN read : /\ u \in DOMAIN cache /\ read[u].fetched = cache[u].fetched
                                     /\ subNow - read[u].fetched <= ttl
<1> DEFINE kept == Kept(cache, ttl)
<1>1. kept \subseteq DOMAIN cache /\ \A u \in kept : subNow - cache[u].fetched <= ttl
  BY DEF Kept
<1>2. IsFiniteSet(kept) /\ Cardinality(kept) <= Cardinality(DOMAIN cache)
  <2> HIDE DEF kept
  <2> QED
    BY <1>1, FS_Subset DEF CacheHolds
<1>3. Cardinality(kept) \in Nat /\ Cardinality(DOMAIN cache) \in Nat
  <2> HIDE DEF kept
  <2> QED
    BY <1>2, FS_CardinalityType DEF CacheHolds
<1>4. DOMAIN read = kept
  BY DEF GetMany
<1>5. ASSUME NEW u \in kept
      PROVE  /\ read[u] \in Entries /\ read[u].put = read[u].fetched
             /\ read[u].fetched <= read[u].used /\ read[u].used <= subNow
             /\ read[u].fetched = cache[u].fetched
  <2>1. /\ cache[u] \in Entries /\ cache[u].put = cache[u].fetched
        /\ cache[u].fetched <= cache[u].used /\ cache[u].used <= subNow
    BY <1>1 DEF CacheHolds
  <2>2. read[u] = IF u \in keys THEN [cache[u] EXCEPT !.used = subNow] ELSE cache[u]
    BY DEF GetMany
  <2>3. CASE u \in keys
    <3>1. /\ read[u] \in Entries /\ read[u].put = cache[u].put
          /\ read[u].fetched = cache[u].fetched /\ read[u].used = subNow
      BY <2>1, <2>2, <2>3 DEF Entries
    <3> QED
      BY <2>1, <3>1 DEF Entries
  <2>4. CASE u \notin keys
    BY <2>1, <2>2, <2>4
  <2> QED
    BY <2>3, <2>4
<1>6. Cardinality(kept) <= CacheCapacity
  <2> HIDE DEF kept
  <2> QED
    BY <1>2, <1>3, SubjectConstants DEF CacheHolds
<1> HIDE DEF kept
<1>7. kept \subseteq Uris
  BY <1>1 DEF CacheHolds
<1>8. CacheHolds(read)
  BY <1>2, <1>4, <1>5, <1>6, <1>7 DEF CacheHolds
<1> QED
  BY <1>1, <1>4, <1>5, <1>8

LEMMA InsertKeeps ==
    ASSUME subNow \in Nat, NEW cache, CacheHolds(cache), NEW u \in Uris,
           NEW put \in InsertedInto(cache, u)
    PROVE  /\ CacheHolds(put)
           /\ \A v \in DOMAIN put : IF v = u THEN put[v].fetched = subNow
                                    ELSE v \in DOMAIN cache /\ put[v] = cache[v]
<1>1. PICK new \in Entries : new = [fetched |-> subNow, used |-> subNow, put |-> subNow]
  BY DEF Entries
<1>2. PICK stay \in Evicted(cache, u) :
         put = [v \in stay \union {u} |-> IF v = u THEN new ELSE cache[v]]
  BY <1>1 DEF InsertedInto
<1>3. DOMAIN put = stay \union {u}
  BY <1>2
<1>4. /\ stay \subseteq DOMAIN cache
      /\ \/ u \in DOMAIN cache /\ stay = DOMAIN cache
         \/ Cardinality(DOMAIN cache) < CacheCapacity /\ stay = DOMAIN cache
         \/ u \notin DOMAIN cache /\ \E w \in DOMAIN cache : stay = DOMAIN cache \ {w}
  BY DEF Evicted
<1>5. IsFiniteSet(DOMAIN cache) /\ Cardinality(DOMAIN cache) <= CacheCapacity
      /\ Cardinality(DOMAIN cache) \in Nat /\ CacheCapacity \in Nat
  BY FS_CardinalityType, SubjectConstants DEF CacheHolds
<1>6. IsFiniteSet(stay \union {u}) /\ Cardinality(stay \union {u}) <= CacheCapacity
  <2>1. CASE u \in DOMAIN cache /\ stay = DOMAIN cache
    <3>1. stay \union {u} = DOMAIN cache
      BY <2>1
    <3> QED
      BY <1>5, <3>1
  <2>2. CASE Cardinality(DOMAIN cache) < CacheCapacity /\ stay = DOMAIN cache
    <3>1. IsFiniteSet(stay) /\ Cardinality(stay) \in Nat /\ Cardinality(stay) < CacheCapacity
      BY <1>5, <2>2
    <3>2. CASE u \in stay
      <4>1. stay \union {u} = stay
        BY <3>2
      <4> QED
        BY <1>5, <3>1, <4>1
    <3>3. CASE u \notin stay
      <4>1. IsFiniteSet(stay \union {u}) /\ Cardinality(stay \union {u}) = Cardinality(stay) + 1
        BY <3>1, <3>3, FS_AddElement
      <4> QED
        BY <1>5, <3>1, <4>1
    <3> QED
      BY <3>2, <3>3
  <2>3. ASSUME u \notin DOMAIN cache, NEW w \in DOMAIN cache, stay = DOMAIN cache \ {w}
        PROVE  IsFiniteSet(stay \union {u}) /\ Cardinality(stay \union {u}) <= CacheCapacity
    <3>1. IsFiniteSet(stay) /\ Cardinality(stay) = Cardinality(DOMAIN cache) - 1
      BY <1>5, <2>3, FS_RemoveElement
    <3>2. u \notin stay
      BY <2>3
    <3>3. IsFiniteSet(stay \union {u}) /\ Cardinality(stay \union {u}) = Cardinality(stay) + 1
      BY <3>1, <3>2, FS_AddElement
    <3> QED
      BY <1>5, <3>1, <3>3
  <2> QED
    BY <1>4, <2>1, <2>2, <2>3
<1>7. new.fetched = subNow /\ new.used = subNow /\ new.put = subNow
  BY <1>1
<1>8. \A v \in stay \union {u} : IF v = u THEN put[v] = new
                                 ELSE v \in DOMAIN cache /\ put[v] = cache[v]
  BY <1>2, <1>4
<1>9. \A v \in DOMAIN put : /\ put[v] \in Entries /\ put[v].put = put[v].fetched
                            /\ put[v].fetched <= put[v].used /\ put[v].used <= subNow
  BY <1>3, <1>7, <1>8 DEF CacheHolds
<1>10. DOMAIN put \subseteq Uris
  BY <1>3, <1>4 DEF CacheHolds
<1>11. CacheHolds(put)
  BY <1>3, <1>6, <1>9, <1>10 DEF CacheHolds
<1> QED
  BY <1>3, <1>7, <1>8, <1>11

LEMMA WithoutKeeps ==
    ASSUME NEW cache, CacheHolds(cache), NEW u, NEW left, left = WithoutUri(cache, u)
    PROVE  /\ CacheHolds(left) /\ u \notin DOMAIN left
           /\ \A v \in DOMAIN left : v \in DOMAIN cache /\ left[v] = cache[v]
<1> DEFINE rest == DOMAIN cache \ {u}
<1>1. DOMAIN left = rest /\ \A v \in rest : left[v] = cache[v]
  BY DEF WithoutUri
<1>2. rest \subseteq DOMAIN cache /\ u \notin rest
  OBVIOUS
<1> HIDE DEF rest
<1>3. IsFiniteSet(rest) /\ Cardinality(rest) <= Cardinality(DOMAIN cache)
  BY <1>2, FS_Subset DEF CacheHolds
<1>4. Cardinality(rest) <= CacheCapacity
  BY <1>3, FS_CardinalityType, SubjectConstants DEF CacheHolds
<1>5. rest \subseteq Uris
  BY <1>2 DEF CacheHolds
<1> QED
  BY <1>1, <1>2, <1>3, <1>4, <1>5 DEF CacheHolds

\* What a cache is, at the same time one step later.
LEMMA HoldsLater ==
    ASSUME subNow' = subNow, NEW cache, CacheHolds(cache)
    PROVE  /\ subFound' = cache => CacheHolds(subFound)'
           /\ subMissed' = cache => CacheHolds(subMissed)'
  BY DEF CacheHolds

\* A step of one call.
CallBecomes(c, r) == /\ r \in Calls /\ subCall' \in [Listings -> Calls] /\ subCall'[c] = r
                     /\ \A d \in Listings \ {c} : subCall'[d] = subCall[d]

LEMMA CallIs ==
    ASSUME subCall \in [Listings -> Calls], NEW c \in Listings, NEW r \in Calls,
           subCall' = [subCall EXCEPT ![c] = r]
    PROVE  CallBecomes(c, r)
  BY DEF CallBecomes

LEMMA OtherCalls ==
    ASSUME SubjectInv, subNow' = subNow, subDeleted' = subDeleted, NEW c \in Listings,
           \A d \in Listings \ {c} : subCall'[d] = subCall[d], CallHolds(c)'
    PROVE  \A d \in Listings : CallHolds(d)'
<1> SUFFICES ASSUME NEW d \in Listings, d # c PROVE CallHolds(d)'
  OBVIOUS
<1>1. CallHolds(d) /\ subCall'[d] = subCall[d]
  BY DEF SubjectInv
<1> QED
  BY <1>1 DEF CallHolds

(***************************************************************************)
(* Init, and the steps.                                                    *)
(***************************************************************************)

LEMMA NoCall ==
    /\ NoListing \in Calls /\ NoListing.step = "none" /\ NoListing.have = {}
    /\ NoListing.hides = {} /\ NoListing.asked = 0
  BY DEF NoListing, Calls

LEMMA SubjectStarts == ASSUME SubjectInit PROVE SubjectInv
<1>1. subNow = 0 /\ subFound = [u \in {} |-> 0] /\ subMissed = [u \in {} |-> 0]
      /\ subDeleted = [u \in Uris |-> -1] /\ subCall = [c \in Listings |-> NoListing]
  BY DEF SubjectInit
<1>2. DOMAIN subFound = {} /\ DOMAIN subMissed = {}
  BY <1>1
<1>3. IsFiniteSet({}) /\ Cardinality({}) = 0 /\ CacheCapacity \in Nat
  BY FS_EmptySet, SubjectConstants
<1>4. CacheHolds(subFound) /\ CacheHolds(subMissed) /\ FoundIsRecent(subFound)
  BY <1>2, <1>3 DEF CacheHolds, FoundIsRecent
<1>5. SubjectTyped
  BY <1>1, NoCall DEF SubjectTyped
<1>6. \A c \in Listings : CallHolds(c)
  BY <1>1, NoCall DEF CallHolds
<1> QED
  BY <1>4, <1>5, <1>6 DEF SubjectInv

LEMMA ListingKeeps ==
    ASSUME SubjectInv, NEW c \in Listings, NEW want \in SUBSET Uris, ListNotifications(c, want)
    PROVE  SubjectInv'
<1>1. PICK found, missed :
        /\ found = GetMany(subFound, want, FoundTtl)
        /\ missed = GetMany(subMissed, want, MissTtl)
        /\ subFound' = found /\ subMissed' = missed
        /\ subCall' = [subCall EXCEPT ![c] =
              [step |-> "fetch", want |-> (want \ DOMAIN found) \ DOMAIN missed,
               have |-> want \intersect DOMAIN found, got |-> {},
               hides |-> {missed[u].put : u \in (want \ DOMAIN found) \intersect DOMAIN missed},
               asked |-> subNow]]
        /\ subDeleted' = subDeleted /\ subNow' = subNow
  BY DEF ListNotifications, FoundLookup, MissLifetime
<1>2. subNow \in Nat /\ subCall \in [Listings -> Calls]
      /\ subDeleted \in [Uris -> Nat \union {-1}]
  BY DEF SubjectInv, SubjectTyped
<1>3. /\ CacheHolds(found)
      /\ \A u \in DOMAIN found : /\ u \in DOMAIN subFound
                                 /\ found[u].fetched = subFound[u].fetched
                                 /\ subNow - found[u].fetched <= FoundTtl
  BY <1>1, <1>2, GetManyKeeps, SubjectConstants DEF SubjectInv
<1>4. /\ CacheHolds(missed)
      /\ \A u \in DOMAIN missed : subNow - missed[u].fetched <= MissTtl
  BY <1>1, <1>2, GetManyKeeps, SubjectConstants DEF SubjectInv
<1> DEFINE hides == {missed[u].put : u \in (want \ DOMAIN found) \intersect DOMAIN missed}
           r == [step |-> "fetch", want |-> (want \ DOMAIN found) \ DOMAIN missed,
                 have |-> want \intersect DOMAIN found, got |-> {}, hides |-> hides,
                 asked |-> subNow]
<1>5. hides \in SUBSET Nat /\ \A put \in hides : subNow - put <= MissTtl
  <2>1. \A u \in DOMAIN missed : missed[u].put \in Nat /\ missed[u].put = missed[u].fetched
    BY <1>4 DEF CacheHolds, Entries
  <2> QED
    BY <1>4, <2>1
<1>6. (want \ DOMAIN found) \ DOMAIN missed \in SUBSET Uris
      /\ want \intersect DOMAIN found \in SUBSET Uris
  OBVIOUS
<1>7. r \in Calls /\ r.step = "fetch" /\ r.have = want \intersect DOMAIN found
      /\ r.hides = hides /\ r.asked = subNow
  <2> HIDE DEF hides
  <2> QED
    BY <1>2, <1>5, <1>6 DEF Calls
<1>8. subCall' = [subCall EXCEPT ![c] = r]
  BY <1>1
<1> HIDE DEF r, hides
<1>9. CallBecomes(c, r)
  BY <1>2, <1>7, <1>8, CallIs
<1>10. CacheHolds(subFound)' /\ CacheHolds(subMissed)'
  BY <1>1, <1>3, <1>4, HoldsLater
<1>11. FoundIsRecent(subFound)'
  BY <1>1, <1>3 DEF SubjectInv, FoundIsRecent
<1>12. CallHolds(c)'
  <2>1. \A u \in r.have : subDeleted[u] # -1 => subNow - subDeleted[u] <= FoundTtl + FetchDelay
    <3> SUFFICES ASSUME NEW u \in DOMAIN found, u \in want, subDeleted[u] # -1
                 PROVE  subNow - subDeleted[u] <= FoundTtl + FetchDelay
      BY <1>7
    <3>1. found[u].fetched - subDeleted[u] <= FetchDelay /\ subNow - found[u].fetched <= FoundTtl
      BY <1>3 DEF SubjectInv, FoundIsRecent
    <3>2. found[u].fetched \in Nat /\ subDeleted[u] \in Nat
      BY <1>2, <1>3 DEF CacheHolds, Entries
    <3> QED
      BY <1>2, <3>1, <3>2, SubjectConstants
  <2>2. subNow <= subNow /\ subNow - subNow <= FetchDelay
    BY <1>2, SubjectConstants
  <2> QED
    BY <1>1, <1>5, <1>7, <1>9, <2>1, <2>2 DEF CallBecomes, CallHolds
<1>13. SubjectTyped'
  BY <1>1, <1>2, <1>9 DEF SubjectTyped, CallBecomes
<1>14. \A d \in Listings : CallHolds(d)'
  BY <1>1, <1>9, <1>12, OtherCalls DEF CallBecomes
<1> QED
  BY <1>10, <1>11, <1>13, <1>14 DEF SubjectInv

LEMMA GotKeeps == ASSUME SubjectInv, NEW c \in Listings, GetPosts(c) PROVE SubjectInv'
<1>1. PICK got : /\ got = {u \in subCall[c].want : subDeleted[u] = -1} \/ got = {}
                 /\ subCall' = [subCall EXCEPT ![c].step = "store", ![c].got = got]
  BY DEF GetPosts
<1>2. /\ subCall[c].step = "fetch"
      /\ UNCHANGED <<subFound, subMissed, subDeleted, subNow>>
  BY DEF GetPosts
<1>3. subNow \in Nat /\ subCall \in [Listings -> Calls] /\ subCall[c] \in Calls
      /\ subDeleted \in [Uris -> Nat \union {-1}]
  BY DEF SubjectInv, SubjectTyped
<1>4. got \in SUBSET Uris /\ \A u \in got : subDeleted[u] = -1
  BY <1>1, <1>3 DEF Calls
<1>5. PICK store \in {"none", "fetch", "store"} : store = "store"
  OBVIOUS
<1> DEFINE r == [subCall[c] EXCEPT !.step = store, !.got = got]
<1>6. /\ r \in Calls /\ r.step = store /\ r.have = subCall[c].have /\ r.got = got
      /\ r.hides = subCall[c].hides /\ r.asked = subCall[c].asked
  BY <1>3, <1>4 DEF Calls
<1>7. subCall' = [subCall EXCEPT ![c] = r]
  BY <1>1, <1>3, <1>5
<1> HIDE DEF r
<1>8. CallBecomes(c, r)
  BY <1>3, <1>6, <1>7, CallIs
<1>9. CallHolds(c)'
  BY <1>2, <1>4, <1>5, <1>6, <1>8 DEF CallBecomes, CallHolds, SubjectInv
<1>10. CacheHolds(subFound)' /\ CacheHolds(subMissed)' /\ FoundIsRecent(subFound)'
  BY <1>2 DEF SubjectInv, CacheHolds, FoundIsRecent
<1>11. SubjectTyped'
  BY <1>2, <1>3, <1>8 DEF SubjectTyped, CallBecomes
<1>12. \A d \in Listings : CallHolds(d)'
  BY <1>2, <1>8, <1>9, OtherCalls DEF CallBecomes
<1> QED
  BY <1>10, <1>11, <1>12 DEF SubjectInv

LEMMA StoreKeepsSubjects ==
    ASSUME SubjectInv, NEW c \in Listings, NEW u \in Uris, StoreSubject(c, u)
    PROVE  SubjectInv'
<1>1. /\ subCall[c].step = "store" /\ subDeleted' = subDeleted /\ subNow' = subNow
  BY DEF StoreSubject
<1>2. subNow \in Nat /\ subCall \in [Listings -> Calls] /\ subCall[c] \in Calls
      /\ subDeleted \in [Uris -> Nat \union {-1}]
  BY DEF SubjectInv, SubjectTyped
<1>3. CallHolds(c) /\ CacheHolds(subFound) /\ CacheHolds(subMissed) /\ FoundIsRecent(subFound)
  BY DEF SubjectInv
<1>4. PICK want \in SUBSET Uris : want = subCall[c].want \ {u}
  <2>1. subCall[c].want \ {u} \in SUBSET Uris
    BY <1>2 DEF Calls
  <2> QED
    BY <2>1
<1>5. ASSUME NEW have \in SUBSET Uris, have \subseteq subCall[c].have \union subCall[c].got,
             subCall' = [subCall EXCEPT ![c] = [subCall[c] EXCEPT !.want = want, !.have = have]],
             CacheHolds(subFound)', CacheHolds(subMissed)', FoundIsRecent(subFound)'
      PROVE  SubjectInv'
  <2> DEFINE r == [subCall[c] EXCEPT !.want = want, !.have = have]
  <2>1. /\ r \in Calls /\ r.step = subCall[c].step /\ r.have = have /\ r.got = subCall[c].got
        /\ r.hides = subCall[c].hides /\ r.asked = subCall[c].asked
    BY <1>2 DEF Calls
  <2>2. subCall' = [subCall EXCEPT ![c] = r]
    BY <1>5
  <2> HIDE DEF r
  <2>3. CallBecomes(c, r)
    BY <1>2, <2>1, <2>2, CallIs
  <2>4. ASSUME NEW v \in have, subDeleted[v] # -1
        PROVE  subCall[c].asked - subDeleted[v] <= FoundTtl + FetchDelay
    <3>1. CASE v \in subCall[c].have
      BY <1>3, <2>4, <3>1 DEF CallHolds
    <3>2. CASE v \in subCall[c].got
      <4>1. subDeleted[v] >= subCall[c].asked
        BY <1>1, <1>3, <2>4, <3>2 DEF CallHolds
      <4>2. subCall[c].asked \in Nat /\ subDeleted[v] \in Nat
        BY <1>2, <2>4 DEF Calls
      <4> QED
        BY <4>1, <4>2, SubjectConstants
    <3> QED
      BY <1>5, <2>4, <3>1, <3>2
  <2>5. CallHolds(c)'
    BY <1>1, <1>3, <2>1, <2>3, <2>4 DEF CallBecomes, CallHolds
  <2>6. SubjectTyped'
    BY <1>1, <1>2, <2>3 DEF SubjectTyped, CallBecomes
  <2>7. \A d \in Listings : CallHolds(d)'
    BY <1>1, <2>3, <2>5, OtherCalls DEF CallBecomes
  <2> QED
    BY <1>5, <2>6, <2>7 DEF SubjectInv
<1>6. CASE u \in subCall[c].got
  <2>1. /\ subMissed' = WithoutUri(subMissed, u) /\ subFound' \in InsertedInto(subFound, u)
        /\ subCall' = [subCall EXCEPT ![c].want = @ \ {u}, ![c].have = @ \union {u}]
    BY <1>6 DEF StoreSubject
  <2>2. PICK found, missed : subFound' = found /\ subMissed' = missed
    OBVIOUS
  <2>3. /\ CacheHolds(found)
        /\ \A v \in DOMAIN found : IF v = u THEN found[v].fetched = subNow
                                   ELSE v \in DOMAIN subFound /\ found[v] = subFound[v]
    BY <1>2, <1>3, <2>1, <2>2, InsertKeeps
  <2>4. CacheHolds(missed)
    BY <1>3, <2>1, <2>2, WithoutKeeps
  <2>5. CacheHolds(subFound)' /\ CacheHolds(subMissed)'
    BY <1>1, <2>2, <2>3, <2>4, HoldsLater
  <2>6. subDeleted[u] # -1 => subNow - subDeleted[u] <= FetchDelay
    <3> SUFFICES ASSUME subDeleted[u] # -1 PROVE subNow - subDeleted[u] <= FetchDelay
      OBVIOUS
    <3>1. subDeleted[u] >= subCall[c].asked /\ subNow - subCall[c].asked <= FetchDelay
      BY <1>1, <1>3, <1>6 DEF CallHolds
    <3>2. subCall[c].asked \in Nat /\ subDeleted[u] \in Nat
      BY <1>2 DEF Calls
    <3> QED
      BY <1>2, <3>1, <3>2, SubjectConstants
  <2>7. FoundIsRecent(subFound)'
    BY <1>1, <1>3, <2>2, <2>3, <2>6 DEF FoundIsRecent
  <2>8. PICK have \in SUBSET Uris : have = subCall[c].have \union {u}
    <3>1. subCall[c].have \union {u} \in SUBSET Uris
      BY <1>2 DEF Calls
    <3> QED
      BY <3>1
  <2>9. subCall' = [subCall EXCEPT ![c] = [subCall[c] EXCEPT !.want = want, !.have = have]]
    BY <1>2, <1>4, <2>1, <2>8 DEF Calls
  <2> QED
    BY <1>5, <1>6, <2>5, <2>7, <2>8, <2>9
<1>7. CASE u \notin subCall[c].got
  <2>1. /\ subMissed' \in InsertedInto(subMissed, u) /\ subFound' = subFound
        /\ subCall' = [subCall EXCEPT ![c].want = @ \ {u}]
    BY <1>7 DEF StoreSubject
  <2>2. PICK missed : subMissed' = missed
    OBVIOUS
  <2>3. CacheHolds(missed)
    BY <1>2, <1>3, <2>1, <2>2, InsertKeeps
  <2>4. CacheHolds(subFound)' /\ CacheHolds(subMissed)'
    BY <1>1, <1>3, <2>1, <2>2, <2>3, HoldsLater
  <2>5. FoundIsRecent(subFound)'
    BY <1>1, <1>3, <2>1 DEF FoundIsRecent
  <2>6. PICK have \in SUBSET Uris : have = subCall[c].have
    BY <1>2 DEF Calls
  <2>7. subCall' = [subCall EXCEPT ![c] = [subCall[c] EXCEPT !.want = want, !.have = have]]
    <3>1. [subCall[c] EXCEPT !.want = want, !.have = have] = [subCall[c] EXCEPT !.want = want]
      BY <1>2, <2>6 DEF Calls
    <3>2. subCall' = [subCall EXCEPT ![c] = [subCall[c] EXCEPT !.want = want]]
      BY <1>2, <1>4, <2>1
    <3> QED
      BY <3>1, <3>2
  <2> QED
    BY <1>5, <2>4, <2>5, <2>6, <2>7
<1> QED
  BY <1>6, <1>7

LEMMA ShownKeepsSubjects ==
    ASSUME SubjectInv, NEW c \in Listings, ShowNotifications(c) PROVE SubjectInv'
<1>1. /\ subCall' = [subCall EXCEPT ![c] = NoListing]
      /\ UNCHANGED <<subFound, subMissed, subDeleted, subNow>>
  BY DEF ShowNotifications
<1>2. subNow \in Nat /\ subCall \in [Listings -> Calls]
  BY DEF SubjectInv, SubjectTyped
<1>3. CallBecomes(c, NoListing)
  BY <1>1, <1>2, NoCall, CallIs
<1>4. CallHolds(c)'
  BY <1>1, <1>2, <1>3, NoCall DEF CallBecomes, CallHolds
<1>5. CacheHolds(subFound)' /\ CacheHolds(subMissed)' /\ FoundIsRecent(subFound)'
  BY <1>1 DEF SubjectInv, CacheHolds, FoundIsRecent
<1>6. SubjectTyped'
  BY <1>1, <1>3 DEF SubjectInv, SubjectTyped, CallBecomes
<1>7. \A d \in Listings : CallHolds(d)'
  BY <1>1, <1>3, <1>4, OtherCalls DEF CallBecomes
<1> QED
  BY <1>5, <1>6, <1>7 DEF SubjectInv

LEMMA DeletionKeeps == ASSUME SubjectInv, NEW u \in Uris, DeleteSubject(u) PROVE SubjectInv'
<1>1. /\ subDeleted[u] = -1 /\ subDeleted' = [subDeleted EXCEPT ![u] = subNow]
      /\ subFound' = WithoutUri(subFound, u) /\ subMissed' = WithoutUri(subMissed, u)
      /\ subCall' = subCall /\ subNow' = subNow
  BY DEF DeleteSubject
<1>2. subNow \in Nat /\ subCall \in [Listings -> Calls]
      /\ subDeleted \in [Uris -> Nat \union {-1}]
  BY DEF SubjectInv, SubjectTyped
<1>3. PICK found, missed : subFound' = found /\ subMissed' = missed
  OBVIOUS
<1>4. /\ CacheHolds(found) /\ u \notin DOMAIN found
      /\ \A v \in DOMAIN found : v \in DOMAIN subFound /\ found[v] = subFound[v]
  <2>1. CacheHolds(subFound) /\ found = WithoutUri(subFound, u)
    BY <1>1, <1>3 DEF SubjectInv
  <2> QED
    BY <2>1, WithoutKeeps
<1>5. CacheHolds(missed)
  <2>1. CacheHolds(subMissed) /\ missed = WithoutUri(subMissed, u)
    BY <1>1, <1>3 DEF SubjectInv
  <2> QED
    BY <2>1, WithoutKeeps
<1>6. CacheHolds(subFound)' /\ CacheHolds(subMissed)'
  BY <1>1, <1>3, <1>4, <1>5, HoldsLater
<1>7. subDeleted' \in [Uris -> Nat \union {-1}]
      /\ \A v \in Uris : subDeleted'[v] = IF v = u THEN subNow ELSE subDeleted[v]
  BY <1>1, <1>2
<1>8. FoundIsRecent(subFound)'
  <2>1. \A v \in DOMAIN found : v \in Uris /\ v # u
    BY <1>4 DEF CacheHolds
  <2> QED
    BY <1>3, <1>4, <1>7, <2>1 DEF SubjectInv, FoundIsRecent
<1>9. ASSUME NEW c \in Listings PROVE CallHolds(c)'
  <2>1. CallHolds(c) /\ subCall[c].have \subseteq Uris /\ subCall[c].got \subseteq Uris
        /\ subCall[c].asked \in Nat
    BY <1>2 DEF SubjectInv, Calls
  <2>2. subCall[c].asked <= subNow
    BY <2>1 DEF CallHolds
  <2>3. subCall[c].asked - subNow <= FoundTtl + FetchDelay /\ subNow >= subCall[c].asked
    BY <1>2, <2>1, <2>2, SubjectConstants
  <2> QED
    BY <1>1, <1>7, <2>1, <2>3 DEF CallHolds
<1>10. SubjectTyped'
  BY <1>1, <1>2, <1>7 DEF SubjectTyped
<1> QED
  BY <1>6, <1>8, <1>9, <1>10 DEF SubjectInv

LEMMA TickKeepsSubjects == ASSUME SubjectInv, SubjectTick PROVE SubjectInv'
<1>1. /\ \A c \in Listings : subCall[c].step # "none" => subNow - subCall[c].asked < FetchDelay
      /\ subNow' = subNow + 1 /\ UNCHANGED <<subFound, subMissed, subDeleted, subCall>>
  BY DEF SubjectTick
<1>2. subNow \in Nat /\ subCall \in [Listings -> Calls]
  BY DEF SubjectInv, SubjectTyped
<1>3. ASSUME NEW cache, CacheHolds(cache), NEW u \in DOMAIN cache
      PROVE  cache[u].used <= subNow + 1
  <2>1. cache[u].used \in Nat /\ cache[u].used <= subNow
    BY <1>3 DEF CacheHolds, Entries
  <2> QED
    BY <1>2, <2>1
<1>4. CacheHolds(subFound)' /\ CacheHolds(subMissed)' /\ FoundIsRecent(subFound)'
  <2>1. CacheHolds(subFound) /\ CacheHolds(subMissed) /\ FoundIsRecent(subFound)
    BY DEF SubjectInv
  <2>2. (\A u \in DOMAIN subFound : subFound[u].used <= subNow + 1)
        /\ (\A u \in DOMAIN subMissed : subMissed[u].used <= subNow + 1)
    BY <1>3, <2>1
  <2> QED
    BY <1>1, <2>1, <2>2 DEF CacheHolds, FoundIsRecent
<1>5. ASSUME NEW c \in Listings PROVE CallHolds(c)'
  <2>1. CallHolds(c) /\ subCall[c].asked \in Nat
    BY <1>2 DEF SubjectInv, Calls
  <2>2. subCall[c].asked <= subNow
    BY <2>1 DEF CallHolds
  <2>3. subCall[c].asked <= subNow + 1
        /\ (subCall[c].step # "none" => subNow + 1 - subCall[c].asked <= FetchDelay)
    BY <1>1, <1>2, <2>1, <2>2, SubjectConstants
  <2>4. /\ subCall[c].step # "none" => subCall[c].asked <= subNow'
                                       /\ subNow' - subCall[c].asked <= FetchDelay
        /\ subCall[c].asked <= subNow'
    <3>1. subNow' = subNow + 1
      BY <1>1
    <3> QED
      BY <1>2, <2>1, <2>3, <3>1
  <2>5. subCall' = subCall /\ subDeleted' = subDeleted
    BY <1>1
  <2> QED
    BY <2>1, <2>4, <2>5 DEF CallHolds
<1>6. SubjectTyped'
  BY <1>1, <1>2 DEF SubjectInv, SubjectTyped
<1> QED
  BY <1>4, <1>5, <1>6 DEF SubjectInv

\* Of the model of the subject cache of Bluesky notifications: both caches stay within their
\* capacity, a deleted post is found no longer than the lifetime of an entry and of a request
\* that was under way, and a miss hides a post for the short lifetime only, however many
\* listings, posts and deletions overlap (BoundedTtlCache, get_notifications, delete_status).
THEOREM SubjectsAreForgotten ==
    SubjectSpec => [](SubjectTypeOK /\ DeletedSubjectIsForgotten /\ MissIsShort)
<1>1. SubjectInit => SubjectInv
  BY SubjectStarts
<1>2. SubjectInv /\ [SubjectNext]_subVars => SubjectInv'
  <2>1. ASSUME SubjectInv, UNCHANGED subVars PROVE SubjectInv'
    BY <2>1 DEF subVars, SubjectInv, SubjectTyped, CacheHolds, FoundIsRecent, CallHolds
  <2> QED
    BY <2>1, ListingKeeps, GotKeeps, StoreKeepsSubjects, ShownKeepsSubjects, DeletionKeeps,
       TickKeepsSubjects DEF SubjectNext
<1>3. SubjectInv => SubjectTypeOK /\ DeletedSubjectIsForgotten /\ MissIsShort
  BY DEF SubjectInv, CacheHolds, CallHolds, SubjectTypeOK, DeletedSubjectIsForgotten, MissIsShort
<1> QED
  BY <1>1, <1>2, <1>3, PTL DEF SubjectSpec
=============================================================================
