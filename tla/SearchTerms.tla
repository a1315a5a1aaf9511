----------------------------- MODULE SearchTerms -----------------------------
(***************************************************************************)
(* What a search term means (db/icu_search.rs, the SQL functions of        *)
(* db/short_search_tokenizer.rs and the query of db/queries/search.rs).    *)
(* One row, a post and its author's name, is looked for in three ways:     *)
(* while it is queued for the index, through the index, and through its    *)
(* stored tokens when it is recent.  SearchEngine has how it gets there.   *)
(*                                                                         *)
(* A text is a sequence of characters.  "A" is another form of "a";        *)
(* letters make words, any other character is a segment of its own.  In a  *)
(* post, "T" is a tag, "P" the end of a paragraph and "E" an entity.       *)
(***************************************************************************)
EXTENDS Integers, Sequences, SequencesExt

CONSTANTS StContents, StNames,   \* the posts and the names there are
          StTerms                \* the terms that are looked for

VARIABLES stContent, stName,     \* the row: its HTML and its author's name
          stTerms                \* what is looked for

stVars == <<stContent, stName, stTerms>>

\* A tag and an entity as they are stored, and as html_to_plain_text shows them.
RawText(html) == FlattenSeq([i \in DOMAIN html |->
                    CASE html[i] \in {"T", "P"} -> <<"<", "b", ">">>
                      [] html[i] = "E" -> <<"&", "a", ";">>
                      [] OTHER -> <<html[i]>>])

\* Mutant of ShownText: the text is compared as it is stored.
ShownTextRaw(html) == RawText(html)

ShownText(html) == FlattenSeq([i \in DOMAIN html |->
                    CASE html[i] = "T" -> <<>>
                      [] html[i] = "P" -> <<"newline">>
                      [] html[i] = "E" -> <<"&">>
                      [] OTHER -> <<html[i]>>])

\* normalize_and_fold: NFKC and case folding.
Folded(text) == [i \in DOMAIN text |-> IF text[i] = "A" THEN "a" ELSE text[i]]

\* tokenize_with_segmenter: words, and every other character by itself.
Letters == {"a", "b"}
Segments(text) ==
    LET More(segments, c) ==
            IF c \in Letters /\ segments # <<>> /\ Last(Last(segments)) \in Letters
            THEN Front(segments) \o <<Append(Last(segments), c)>>
            ELSE Append(segments, <<c>>)
    IN  FoldLeft(More, <<>>, Folded(text))

\* encode_fts_token: one alphanumeric token, with the prefixes it had.
Encoded(segment) == <<"x">> \o segment

\* index_text: each field is segmented by itself, and a token is kept once.
IndexText(fields) == UNION {{Encoded(s) : s \in ToSet(Segments(f))} : f \in fields}

\* match_expression: the tokens of a term in their order, each once and each a prefix.
MatchExpression(term) ==
    LET Once(tokens, s) == IF s \in ToSet(tokens) THEN tokens ELSE Append(tokens, s)
    IN  FoldLeft(Once, <<>>, [i \in DOMAIN Segments(term) |-> Encoded(Segments(term)[i])])

\* FTS5's answer to such an expression; matches_index_text gives it for stored tokens.
Matched(expression, tokens) == \A q \in ToSet(expression) : \E t \in tokens : IsPrefix(q, t)

\* Mutant of FieldMatches: the segments of the term anywhere in the field.
FieldMatchesInside(segment, token) == \E i, j \in DOMAIN token : segment = SubSeq(token, i, j)

FieldMatches(segment, token) == IsPrefix(segment, token)

\* matches_fields: for rows that have no tokens yet.
MatchesFields(term, fields) ==
    \A q \in ToSet(Segments(term)) :
        \E f \in fields : \E t \in ToSet(Segments(f)) : FieldMatches(q, t)

\* requires_contiguous_match and contains_term
RequiresContiguous(term) == Len(Segments(term)) > 1
Holds(text, term) == \E i \in 1..(Len(text) - Len(term) + 1) :
                           SubSeq(text, i, i + Len(term) - 1) = term
ContainsTerm(term, fields) == \E f \in fields : Holds(Folded(f), Folded(term))

\* The candidates of a term: the post's own text, or the name of its author.
Indexed(term) == LET e == MatchExpression(term) IN
                 \/ Matched(e, IndexText({RawText(stContent)}))
                 \/ Matched(e, IndexText({stName}))
Waiting(term) == \/ MatchesFields(term, {RawText(stContent)})
                \/ MatchesFields(term, {stName})

\* Mutant of Recent: the author's tokens are left out.
RecentOfPost(term) == Matched(MatchExpression(term), IndexText({RawText(stContent)}))

Recent(term) == Matched(MatchExpression(term), IndexText({RawText(stContent)})
                                               \union IndexText({stName}))

\* The check every candidate of a term of several segments must pass.
IsContiguous(term) ==
    RequiresContiguous(term) => ContainsTerm(term, {ShownText(stContent), stName})

\* Mutant of TermKey: terms with the same tokens are one.
TermKeyUnordered(term) == ToSet(MatchExpression(term))

\* query_statuses_on_connection: of terms with the same expression the first is kept.
TermKey(term) == MatchExpression(term)
KeptTerms(terms) == {i \in DOMAIN terms : \A j \in 1..(i - 1) : TermKey(terms[j]) # TermKey(terms[i])}
FoundBy(terms) == \A i \in KeptTerms(terms) : Indexed(terms[i]) /\ IsContiguous(terms[i])

SearchTermsInit == stContent \in StContents /\ stName \in StNames /\ stTerms = StTerms

-----------------------------------------------------------------------------

\* A post that is found while it waits for the index is found once it is there, and no other.
AnswersSurviveIndexing ==
    \A term \in stTerms : IsContiguous(term) => (Waiting(term) <=> Indexed(term))

\* What the tokens of recent posts add: for one segment nothing; for several, only posts that
\* show the term, although the index would want each segment to begin a word.
RecentPostsMatchAlike ==
    \A term \in stTerms :
       /\ Indexed(term) => Recent(term)
       /\ Recent(term) /\ ~Indexed(term) => RequiresContiguous(term)

\* A term of several segments is found only where it can be read: never in the markup of a
\* post or across it and the text.
Readable == [i \in DOMAIN SelectSeq(stContent, LAMBDA c : c # "T") |->
                LET c == SelectSeq(stContent, LAMBDA d : d # "T")[i]
                IN  IF c = "E" THEN "&" ELSE c]
LongTermsAreShown ==
    \A term \in stTerms :
       FoundBy(<<term>>) /\ RequiresContiguous(term)
       => Holds(Folded(Readable), Folded(term)) \/ Holds(Folded(stName), Folded(term))

\* Terms that repeat a segment have the expression of a shorter term.
NoRepeats(term) == \A i, j \in DOMAIN Segments(term) :
                      Segments(term)[i] = Segments(term)[j] => i = j

\* A post is found by several terms if it is found by each, but for terms that repeat a segment:
\* after such a shorter term they are not looked for.
EveryTermCounts ==
    \A t \in stTerms, u \in stTerms :
       NoRepeats(t) /\ NoRepeats(u) => (FoundBy(<<t, u>>) <=> FoundBy(<<t>>) /\ FoundBy(<<u>>))
=============================================================================
