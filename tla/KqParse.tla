------------------------------ MODULE KqParse ------------------------------
(***************************************************************************)
(* The KQ compiler's parser (services/kq_filter.rs): from the lexer's      *)
(* tokens to sources and an expression.  Every result is [ok, e, i]: the   *)
(* node and the position after it, or a compile error.                     *)
(*                                                                         *)
(* A node is <<"atom", token>>, <<"set", items>>, <<"un", op, operand>> or *)
(* <<"bin", op, left, right>>.  A token is its spelling; the spellings of  *)
(* one operator are one token, "min" is the magnitude of i64::MIN and any  *)
(* other word is a literal or a field.                                     *)
(***************************************************************************)
EXTENDS Integers, Sequences, FiniteSets, SequencesExt

CONSTANTS KqMaxDepth,       \* max_depth
          KqMaxItems,       \* max_set_items
          KqMaxSources,     \* max_sources
          KqQueries         \* what is compiled: see KqInit

VARIABLE kqQuery            \* a query: the sources and the expression its author means

\* The binary operators by precedence, parse_or to parse_multiplicative.
Levels == <<{"|"}, {"&"}, {"==", "!="}, {"<", "<=", ">", ">="},
            {"regex", "startswith", "endswith", "->", "<-"}, {"+", "-"}, {"*", "/"}>>
BinaryOps == UNION Range(Levels)
Closers == {")", "]", ",", "end", ".", ":"}

Failed == [ok |-> FALSE, e |-> <<>>, i |-> 0]
Parsed(e, i) == [ok |-> TRUE, e |-> e, i |-> i]

\* current: the last token is the end and is never passed.
At(ts, i) == ts[IF i < Len(ts) THEN i ELSE Len(ts)]

RECURSIVE ParseLevel(_, _, _, _), ParseUnary(_, _, _), ParseItems(_, _, _, _)

\* Mutant of Chain: the operators of a level associate to the left.
ChainLeft(nodes, ops) ==
    IF ops = <<>> THEN nodes[1]
    ELSE LET RECURSIVE Fold(_, _)
             Fold(left, k) ==
                 IF k > Len(ops) THEN left ELSE Fold(<<"bin", ops[k], left, nodes[k + 1]>>, k + 1)
         IN Fold(nodes[1], 1)

\* right_fold_ops.
Chain(nodes, ops) ==
    LET RECURSIVE Fold(_)
        Fold(k) == IF k > Len(ops) THEN nodes[k] ELSE <<"bin", ops[k], nodes[k], Fold(k + 1)>>
    IN Fold(1)

\* One level: operands of the next level as long as its operators follow.
ParseLevel(ts, level, i, depth) ==
    LET Operand(j) == IF level = Len(Levels) THEN ParseUnary(ts, j, depth)
                      ELSE ParseLevel(ts, level + 1, j, depth)
        RECURSIVE Tails(_, _, _)
        Tails(nodes, ops, j) ==
            IF At(ts, j) \in Levels[level]
            THEN LET next == Operand(j + 1) IN
                 IF next.ok THEN Tails(Append(nodes, next.e), Append(ops, At(ts, j)), next.i)
                 ELSE Failed
            ELSE IF Len(ops) >= KqMaxDepth THEN Failed
            ELSE Parsed(Chain(nodes, ops), j)
        first == Operand(i)
    IN IF depth > KqMaxDepth \/ ~first.ok THEN Failed ELSE Tails(<<first.e>>, <<>>, first.i)

\* A group, or () which is true.
ParseGroup(ts, i, depth) ==
    IF At(ts, i) = ")" THEN Parsed(<<"atom", "true">>, i + 1)
    ELSE LET inner == ParseLevel(ts, 1, i, depth + 1) IN
         IF inner.ok /\ At(ts, inner.i) = ")" THEN Parsed(inner.e, inner.i + 1) ELSE Failed

\* parse_set: items up to the bracket, a comma may trail.
ParseItems(ts, i, depth, items) ==
    IF At(ts, i) = "]" THEN Parsed(<<"set", items>>, i + 1)
    ELSE IF Len(items) >= KqMaxItems THEN Failed
    ELSE LET item == ParseLevel(ts, 1, i, depth) IN
         CASE ~item.ok -> Failed
           [] At(ts, item.i) = "," -> ParseItems(ts, item.i + 1, depth, Append(items, item.e))
           [] At(ts, item.i) = "]" -> Parsed(<<"set", Append(items, item.e)>>, item.i + 1)
           [] OTHER -> Failed

\* parse_primary and parse_field_or_boolean.
ParsePrimary(ts, i, depth) ==
    LET t == At(ts, i) IN
    CASE depth > KqMaxDepth -> Failed
      [] t = "(" -> ParseGroup(ts, i + 1, depth)
      [] t = "[" -> ParseItems(ts, i + 1, depth + 1, <<>>)
      [] t = "*" -> Parsed(<<"atom", "we">>, i + 1)
      [] t \in BinaryOps \union Closers \union {"min"} -> Failed
      [] OTHER -> Parsed(<<"atom", t>>, i + 1)

\* parse_unary: i64::MIN is a literal only behind its sign.
ParseUnary(ts, i, depth) ==
    LET t == At(ts, i)
        operand == ParseUnary(ts, i + 1, depth + 1)
    IN
    CASE depth > KqMaxDepth -> Failed
      [] t = "-" /\ At(ts, i + 1) = "min" -> Parsed(<<"atom", "-min">>, i + 2)
      [] t \in {"not", "-", "caseful"} ->
            IF operand.ok THEN Parsed(<<"un", t, operand.e>>, operand.i) ELSE Failed
      [] OTHER -> ParsePrimary(ts, i, depth)

-----------------------------------------------------------------------------
(***************************************************************************)
(* Sources.                                                                *)
(***************************************************************************)

SourceNames == {"local", "home", "list", "mentions", "direct", "search", "track", "conversation",
                "user", "public", "local_public", "hashtag", "bookmarks", "favourites"}
RequiresArgument == {"list", "search", "track", "conversation", "user", "hashtag"}
AcceptsWildcard == {"home", "mentions", "direct", "public", "local_public", "bookmarks",
                    "favourites"}

\* Arguments are accounts and strings ("@a"), bare words ("a") and "*".
QuotedArguments == {"@a", "@b"}
BareArguments == {"a", "b"}
Arguments == QuotedArguments \union BareArguments \union {"*"} \union SourceNames

\* normalize_source_argument: without the marker.
Normalized(argument) == CASE argument = "@a" -> "a" [] argument = "@b" -> "b" [] OTHER -> argument

\* name:arg,arg - after a comma, a bare word would be the next source.
RECURSIVE ColonArguments(_, _, _), CallArguments(_, _, _)
ColonArguments(ts, i, args) ==
    IF At(ts, i) \notin Arguments THEN Failed
    ELSE LET more == Append(args, At(ts, i)) IN
         IF At(ts, i + 1) = "," /\ At(ts, i + 2) \in QuotedArguments \union {"*"}
         THEN ColonArguments(ts, i + 2, more) ELSE Parsed(more, i + 1)

\* name(arg,arg,)
CallArguments(ts, i, args) ==
    IF At(ts, i) = ")" THEN Parsed(args, i + 1)
    ELSE IF At(ts, i) \notin Arguments THEN Failed
    ELSE LET more == Append(args, At(ts, i)) IN
         CASE At(ts, i + 1) = "," -> CallArguments(ts, i + 2, more)
           [] At(ts, i + 1) = ")" -> Parsed(more, i + 2)
           [] OTHER -> Failed

\* The specifications of one source: one for each argument, one without
\* arguments when an account source names them all.
SourceSpecs(kind, args) ==
    LET normalized == [k \in DOMAIN args |-> Normalized(args[k])] IN
    IF args = <<>> \/ (kind \in AcceptsWildcard /\ "*" \in Range(normalized))
    THEN << <<kind, "">> >>
    ELSE [k \in DOMAIN args |-> <<kind, normalized[k]>>]

\* parse_source.
ParseSource(ts, i) ==
    LET kind == IF At(ts, i) = "*" THEN "local" ELSE At(ts, i)
        args == CASE At(ts, i + 1) = ":" -> ColonArguments(ts, i + 2, <<>>)
                  [] At(ts, i + 1) = "(" -> CallArguments(ts, i + 2, <<>>)
                  [] OTHER -> Parsed(<<>>, i + 1)
    IN
    IF \/ kind \notin SourceNames
       \/ ~args.ok
       \/ kind \in RequiresArgument /\ args.e = <<>>
       \/ kind = "local" /\ args.e # <<>>
       \/ kind = "user" /\ "*" \in Range(args.e)
    THEN Failed ELSE Parsed(SourceSpecs(kind, args.e), args.i)

\* Each specification once, where it came first.
RECURSIVE Distinct(_)
Distinct(specs) ==
    IF specs = <<>> THEN <<>>
    ELSE <<specs[1]>> \o Distinct(SelectSeq(Tail(specs), LAMBDA s : s # specs[1]))

\* parse_sources: separated by commas, one may trail.
RECURSIVE ParseSources(_, _, _)
ParseSources(ts, i, specs) ==
    IF At(ts, i) \in {"end", "where"} THEN Parsed(Distinct(specs), i)
    ELSE LET source == ParseSource(ts, i)
             more == specs \o source.e
         IN
         CASE ~source.ok \/ Len(more) > KqMaxSources -> Failed
           [] At(ts, source.i) = "," -> ParseSources(ts, source.i + 1, more)
           [] At(ts, source.i) \in {"end", "where"} -> Parsed(Distinct(more), source.i)
           [] OTHER -> Failed

\* parse: from and where, one of which may be left out.  (The types of the
\* expression are KqTypes.)
ParseQuery(ts) ==
    LET from == At(ts, 1) = "from"
        sources == CASE from -> ParseSources(ts, 2, <<>>)
                     [] At(ts, 1) = "where" -> Parsed(<< <<"local", "">> >>, 1)
                     [] OTHER -> Failed
        where == At(ts, sources.i) = "where"
        predicate == CASE ~where -> Parsed(<<"atom", "true">>, sources.i)
                       [] At(ts, sources.i + 1) = "end" ->
                             IF from THEN Parsed(<<"atom", "true">>, sources.i + 1) ELSE Failed
                       [] OTHER -> ParseLevel(ts, 1, sources.i + 1, 0)
    IN
    IF sources.ok /\ sources.e # <<>> /\ predicate.ok /\ At(ts, predicate.i) = "end"
    THEN Parsed(<<sources.e, predicate.e>>, predicate.i) ELSE Failed

-----------------------------------------------------------------------------
(***************************************************************************)
(* The text a reader of docs/kq-query-reference.md writes for a query: the *)
(* table of precedences, "all binary operators associate to the right",    *)
(* and parentheses only where these two ask for them.                      *)
(***************************************************************************)

Rank(op) == CHOOSE level \in DOMAIN Levels : op \in Levels[level]

RECURSIVE Written(_, _)
Written(e, rank) ==
    LET Paren(text, own) == IF own < rank THEN <<"(">> \o text \o <<")">> ELSE text IN
    CASE e[1] = "atom" -> IF e[2] = "-min" THEN Paren(<<"-", "min">>, 8) ELSE <<e[2]>>
      [] e[1] = "un" -> Paren(<<e[2]>> \o Written(e[3], 8), 8)
      [] e[1] = "bin" ->
            LET own == Rank(e[2]) IN
            Paren(Written(e[3], own + 1) \o <<e[2]>> \o Written(e[4], own), own)
      [] OTHER -> <<"[">> \o FlattenSeq([k \in DOMAIN e[2] |-> Written(e[2][k], 1) \o <<",">>])
                          \o <<"]">>

WrittenSource(s) ==
    CASE s.form = "plain" -> <<s.kind>>
      [] s.form = "colon" -> <<s.kind, ":">> \o s.args
      [] OTHER -> <<s.kind, "(">> \o s.args \o <<")">>

RECURSIVE WrittenSources(_)
WrittenSources(sources) ==
    IF sources = <<>> THEN <<>>
    ELSE WrittenSource(sources[1])
         \o (IF Len(sources) > 1 THEN <<",">> ELSE <<>>) \o WrittenSources(Tail(sources))

WrittenQuery(q) ==
    (IF q.sources = <<>> THEN <<>>
     ELSE <<"from">> \o WrittenSources(q.sources) \o (IF q.comma THEN <<",">> ELSE <<>>))
    \o <<"where">> \o Written(q.expr, 1) \o <<"end">>

\* What it means: the arguments of a list are the odd places, the wildcard wins.
MeantSpecs(s) ==
    LET args == {Normalized(a) : a \in Range(s.args) \ {","}} IN
    IF args = {} \/ (s.kind \in AcceptsWildcard /\ "*" \in args) THEN {<<s.kind, "">>}
    ELSE {<<s.kind, a>> : a \in args}

KqInit == kqQuery \in KqQueries

-----------------------------------------------------------------------------

Means(parsed, expr, meant) ==
    /\ parsed.ok
    /\ parsed.e[2] = expr
    /\ Range(parsed.e[1]) = meant
    /\ Len(parsed.e[1]) = Cardinality(meant)

\* "all binary operators of one precedence are right-associative" and the table of
\* precedences (docs/kq-query-reference.md), with groups, sets, the trailing commas and
\* i64::MIN: every query means what the reference says, and names each source once.
QueryMeansWhatItSays ==
    Means(ParseQuery(WrittenQuery(kqQuery)), kqQuery.expr,
          IF kqQuery.sources = <<>> THEN {<<"local", "">>}
          ELSE UNION {MeantSpecs(s) : s \in Range(kqQuery.sources)})
=============================================================================
