----------------------------- MODULE CustomSql ------------------------------
(***************************************************************************)
(* The text of a custom timeline (db/queries/custom_timeline.rs): validate *)
(* decides whether it is one SELECT, has_top_level_limit whether it pages  *)
(* itself, and query_statuses wraps it accordingly.  Both read the text    *)
(* byte by byte and must skip quoted values and comments alike.  A text is *)
(* a sequence of lexical atoms with white space between the words.         *)
(***************************************************************************)
EXTENDS Integers, FiniteSets, Sequences, SequencesExt

CONSTANTS SqPieces,              \* pieces of a text after its SELECT
          SqRows,                \* rows the statement has
          SqPage,                \* rows of a page of the column
          SqMax                  \* MAX_RESULT_ROWS

ASSUME SqAssumption == {SqPieces, SqRows, SqPage, SqMax} \subseteq Nat \ {0}

SqWords == {"select", "limit", "word", "delete"}
Forbidden == {"delete"}
Quote == "'"

VARIABLES
    sqText,        \* the pieces the text is written in
    sqVerdict      \* [state, own]: whether it is accepted, and whether it has a limit of its own

sqVars == <<sqText, sqVerdict>>

\* Where the line comment at i ends: at its line break, or with the text.
RECURSIVE LineCommentEnd(_, _)
LineCommentEnd(t, i) == IF i > Len(t) \/ t[i] = "nl" THEN i ELSE LineCommentEnd(t, i + 1)

\* Where the block comment entered at i ends; 0 when nothing closes it.
RECURSIVE BlockCommentEnd(_, _)
BlockCommentEnd(t, i) ==
    IF i > Len(t) THEN 0 ELSE IF t[i] = "*/" THEN i + 1 ELSE BlockCommentEnd(t, i + 1)

\* Where the value entered at i ends; a doubled quote stands for one.
RECURSIVE QuotedEnd(_, _)
QuotedEnd(t, i) ==
    IF i > Len(t) THEN 0
    ELSE IF t[i] # Quote THEN QuotedEnd(t, i + 1)
    ELSE IF i < Len(t) /\ t[i + 1] = Quote THEN QuotedEnd(t, i + 2)
    ELSE i + 1

\* The position after what begins at i; 0 when it is never closed.
After(t, i) ==
    CASE t[i] = "--" -> LineCommentEnd(t, i + 1)
      [] t[i] = "/*" -> BlockCommentEnd(t, i + 1)
      [] t[i] = Quote -> QuotedEnd(t, i + 1)
      [] OTHER -> i + 1

IsComment(atom) == atom \in {"--", "/*", "nl"}

\* The code of a text from i on: what is left when quoted values are reduced to their quote and
\* comments are dropped; "open" stands for a value or comment that is never closed.
RECURSIVE CodeFrom(_, _)
CodeFrom(t, i) ==
    IF i > Len(t) THEN <<>>
    ELSE IF After(t, i) = 0 THEN <<"open">>
    ELSE (IF IsComment(t[i]) THEN <<>> ELSE <<t[i]>>) \o CodeFrom(t, After(t, i))

Code(t) == CodeFrom(t, 1)

\* The code before the first semicolon.
Statement(t) == LET semi == SelectInSeq(Code(t), LAMBDA a : a = ";")
                IN IF semi = 0 THEN Code(t) ELSE SubSeq(Code(t), 1, semi - 1)

CodeWords(t) == SelectSeq(Code(t), LAMBDA a : a \in SqWords)

\* Mutant of Accepted: what follows the statement is not looked at.
AcceptedWithTail(t) ==
    /\ ~Contains(Code(t), "open")
    /\ \A i \in DOMAIN CodeWords(t) : CodeWords(t)[i] \notin Forbidden
    /\ CodeWords(t) # <<>> /\ CodeWords(t)[1] = "select"

\* validate: the text is one statement, begins with SELECT and has no word that writes.
Accepted(t) ==
    /\ ~Contains(Code(t), "open")
    /\ Len(Statement(t)) >= Len(Code(t)) - 1
    /\ \A i \in DOMAIN CodeWords(t) : CodeWords(t)[i] \notin Forbidden
    /\ CodeWords(t) # <<>> /\ CodeWords(t)[1] = "select"

\* Mutant of TopLevelLimit: any limit is a limit of the statement.
TopLevelLimitAnywhere(t) == Contains(Statement(t), "limit")

\* has_top_level_limit: a LIMIT that no parenthesis encloses.
TopLevelLimit(t) ==
    LET step(a, s) == CASE a = "(" -> [s EXCEPT !.depth = @ + 1]
                        [] a = ")" -> [s EXCEPT !.depth = IF @ = 0 THEN 0 ELSE @ - 1]
                        [] a = "limit" -> [s EXCEPT !.found = @ \/ s.depth = 0]
                        [] OTHER -> s
    IN FoldLeft(LAMBDA s, a : step(a, s), [depth |-> 0, found |-> FALSE], Statement(t)).found

SqMin(a, b) == IF a < b THEN a ELSE b

\* query_statuses: the rows from..to of the statement that a page shows.
PageRows(own, offset) ==
    IF own THEN IF offset > 0 THEN <<>> ELSE [i \in 1..SqMin(SqRows, SqMax) |-> i]
    ELSE [i \in 1..SqMin(SqMin(SqPage, SqMax), IF SqRows > offset THEN SqRows - offset ELSE 0)
            |-> offset + i]

SqlAtoms == FlattenSeq(sqText)

Validate ==
    /\ sqVerdict.state = "none"
    /\ sqVerdict' = [state |-> IF Accepted(SqlAtoms) THEN "accepted" ELSE "rejected",
                     own |-> TopLevelLimit(SqlAtoms)]
    /\ UNCHANGED sqText

\* The ways a word may stand in a text: as code, in a value, in a comment.
CodePieces == {<<w>> : w \in SqWords \union {"(", ")", ";"}}
HiddenPieces ==
    {<<Quote, Quote, Quote, "delete", Quote>>} \union
    UNION {{<<Quote, w, Quote>>, <<"--", w, "nl">>, <<"/*", w, "*/">>} :
             w \in {"limit", "delete", ";"}}
OpenPieces == {<<Quote, "word">>, <<"/*", "word">>}

SqlTextInit ==
    /\ sqText \in SeqOf(CodePieces \union HiddenPieces, 2)
                  \union {<<<<"select">>>> \o s :
                             s \in SeqOf(CodePieces \union HiddenPieces, SqPieces)}
                  \union {<<<<"select">>, p>> : p \in OpenPieces}
    /\ sqVerdict = [state |-> "none", own |-> FALSE]

SqlTextNext == Validate

\* Reference: what the pieces say, which know whether they are code.
CodeOnly == SelectSeq(sqText, LAMBDA p : p \in CodePieces)
FirstSemi == SelectInSeq(sqText, LAMBDA p : p = <<";">>)
BeforeSemi == IF FirstSemi = 0 THEN sqText ELSE SubSeq(sqText, 1, FirstSemi - 1)
NumOf(seq, a) == Cardinality({i \in DOMAIN seq : seq[i] = <<a>>})
DepthAt(i) == NumOf(SubSeq(sqText, 1, i), "(") - NumOf(SubSeq(sqText, 1, i), ")")
Balanced == /\ \A i \in DOMAIN BeforeSemi : DepthAt(i) >= 0
            /\ DepthAt(Len(BeforeSemi)) = 0

\* Only the code of a text decides: a value or a comment may hold any word and any punctuation,
\* however its quotes are doubled, and a text is taken when its code is one SELECT.
OnlyCodeDecides ==
    sqVerdict.state # "none" =>
    LET words == SelectSeq(CodeOnly, LAMBDA p : p[1] \in SqWords) IN
    (sqVerdict.state = "accepted") <=>
       /\ \A i \in DOMAIN sqText : sqText[i] \notin OpenPieces
       /\ words # <<>> /\ words[1] = <<"select">>
       /\ \A i \in DOMAIN words : words[i][1] \notin Forbidden
       /\ FirstSemi # 0 => \A i \in (FirstSemi + 1)..Len(sqText) :
                              sqText[i] \notin CodePieces /\ sqText[i][1] # Quote

\* Paging a custom timeline shows each of its rows once; only a statement that limits itself is
\* one page, the limit of a subquery does not count.
CustomPagesTile ==
    sqVerdict.state = "accepted" /\ Balanced =>
    LET limits == \E i \in DOMAIN BeforeSemi : BeforeSemi[i] = <<"limit">> /\ DepthAt(i) = 0
        pages == [k \in 1..(SqRows + 1) |-> PageRows(sqVerdict.own, (k - 1) * SqPage)]
    IN FlattenSeq(pages) = [i \in 1..(IF limits THEN SqMin(SqRows, SqMax) ELSE SqRows) |-> i]

-----------------------------------------------------------------------------
(***************************************************************************)
(* How the query of a custom timeline runs (query_statuses and explain,    *)
(* db/queries/custom_timeline.rs): it borrows a connection of the shared   *)
(* reader pool, puts its limits on it, runs on the connection's own thread *)
(* and takes the limits off again, unless it is dropped on the way.        *)
(***************************************************************************)
CONSTANTS ScConns,               \* connections of the reader pool
          ScReqs                 \* requests

None == "none"

VARIABLES
    scConn,        \* connection -> [by, limits]: who borrowed it, whose limits are on it
    scReq,         \* request -> [kind, step, conn, work, answer]
    scCancelled    \* requests whose operation was cancelled

scVars == <<scConn, scReq, scCancelled>>

ConnOf(r) == scReq[r].conn

\* A connection of the pool is lent; the pool opens closed ones anew.
Borrow(r) == \E c \in ScConns :
    /\ scReq[r].step = "new" /\ scConn[c].by = None
    /\ scConn' = [scConn EXCEPT ![c].by = r]
    /\ scReq' = [scReq EXCEPT ![r].step = "acquired", ![r].conn = c]
    /\ UNCHANGED scCancelled

\* install: the limits of this request take the place of any others.
Install(r) ==
    /\ scReq[r].step = "acquired"
    /\ scConn' = [scConn EXCEPT ![ConnOf(r)].limits = r]
    /\ scReq' = [scReq EXCEPT ![r].step = "waiting", ![r].work = "queued"]
    /\ UNCHANGED scCancelled

\* The connection's thread begins with the statement that was sent to it.
WorkStarts(r) ==
    /\ scReq[r].work = "sent"
    /\ scReq' = [scReq EXCEPT ![r].work = "running"]
    /\ UNCHANGED <<scConn, scCancelled>>

\* The statement ends by itself.
WorkEnds(r, how) ==
    /\ scReq[r].work = "running" /\ how \in {"rows", "error"}
    /\ scReq' = [scReq EXCEPT ![r].work = how]
    /\ UNCHANGED <<scConn, scCancelled>>

\* The progress handler stops it: cancelled, or over its budget of time or operations.
WorkStopped(r) ==
    /\ scReq[r].work = "running" /\ scConn[ConnOf(r)].limits = r
    /\ scReq' = [scReq EXCEPT ![r].work = "interrupted"]
    /\ UNCHANGED <<scConn, scCancelled>>

CancelRequest(r) ==
    /\ r \notin scCancelled /\ scReq[r].step # "done"
    /\ scCancelled' = scCancelled \union {r}
    /\ UNCHANGED <<scConn, scReq>>

\* The wait looks at the cancellation first ...
PollCancellation(r) ==
    /\ scReq[r].step = "waiting"
    /\ scReq' = [scReq EXCEPT ![r] =
          IF r \in scCancelled THEN [@ EXCEPT !.step = "cleaning", !.answer = "cancelled"]
          ELSE [@ EXCEPT !.step = "polling"]]
    /\ UNCHANGED <<scConn, scCancelled>>

\* Mutant of Blamed: whatever was interrupted was too expensive.
BlamedOnBudget(r) == "budget"

\* What an interrupted request is told; explain does not look at the cancellation again.
Blamed(r) == IF scReq[r].kind = "query" /\ r \in scCancelled THEN "cancelled" ELSE "budget"

\* ... and then at the statement.
PollStatement(r) ==
    /\ scReq[r].step = "polling"
    /\ scReq' = [scReq EXCEPT ![r] =
          CASE @.work = "queued" -> [@ EXCEPT !.step = "waiting", !.work = "sent"]
            [] @.work \in {"sent", "running"} -> [@ EXCEPT !.step = "waiting"]
            [] @.work = "rows" -> [@ EXCEPT !.step = "cleaning", !.answer = "rows"]
            [] @.work = "error" -> [@ EXCEPT !.step = "cleaning", !.answer = "rejected"]
            [] OTHER -> [@ EXCEPT !.step = "cleaning", !.answer = Blamed(r)]]
    /\ UNCHANGED <<scConn, scCancelled>>

\* The handle is not locked while the thread is at work.
ThreadRests(r) == scReq[r].work \notin {"sent", "running"}

\* uninstall and the return of the connection; an answer may then be found too large.
Uninstall(r) ==
    /\ scReq[r].step = "cleaning" /\ ThreadRests(r)
    /\ scConn' = [scConn EXCEPT ![ConnOf(r)] = [by |-> None, limits |-> None]]
    /\ \E tooLarge \in BOOLEAN :
         scReq' = [scReq EXCEPT ![r].step = "done", ![r].work = "none",
                     ![r].answer = IF tooLarge /\ @ = "rows" THEN "too_large" ELSE @]
    /\ UNCHANGED scCancelled

\* Mutant of Discarded: the connection goes back to the pool as it is.
DiscardedAsItIs(c) == [scConn[c] EXCEPT !.by = None]

\* drop: a connection whose limits were not taken off is closed.
Discarded(c) == [by |-> None, limits |-> None]

\* The request ends early: its future is dropped, or putting on or taking off the limits fails.
Abandon(r) ==
    /\ scReq[r].step \in {"acquired", "waiting", "cleaning"}
    /\ scConn' = [scConn EXCEPT ![ConnOf(r)] = Discarded(ConnOf(r))]
    /\ scReq' = [scReq EXCEPT ![r].step = "done", ![r].work = "none", ![r].answer = "error"]
    /\ UNCHANGED scCancelled

SqlConnectionsInit ==
    /\ scConn = [c \in ScConns |-> [by |-> None, limits |-> None]]
    /\ \E kinds \in [ScReqs -> {"query", "explain"}] :
         scReq = [r \in ScReqs |-> [kind |-> kinds[r], step |-> "new", conn |-> None,
                                    work |-> "none", answer |-> None]]
    /\ scCancelled = {}

SqlConnectionsNext ==
    \E r \in ScReqs :
        \/ Borrow(r) \/ Install(r) \/ WorkStarts(r) \/ WorkEnds(r, "rows") \/ WorkEnds(r, "error")
        \/ WorkStopped(r) \/ CancelRequest(r) \/ PollCancellation(r) \/ PollStatement(r)
        \/ Uninstall(r) \/ Abandon(r)

\* Whatever happens to a request, the connections in the pool carry no limits, so the clock or
\* the cancellation of one request never stops a statement of another.
LimitsStayWithTheirRequest ==
    \A c \in ScConns : scConn[c].limits \in {None, scConn[c].by}

\* A query its user cancelled is not reported as too expensive; explain is excepted.
StopReasonIsTold ==
    \A r \in ScReqs : scReq'[r].answer = "budget" /\ scReq[r].answer # "budget"
        /\ scReq[r].kind = "query" => r \notin scCancelled
=============================================================================
