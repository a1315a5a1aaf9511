----------------------------- MODULE KqEvaluate -----------------------------
(***************************************************************************)
(* The KQ evaluator (services/kq_evaluator.rs), the type checker and the   *)
(* requirements of a compiled query (services/kq_filter.rs), and what the  *)
(* scan loads of a row for it (services/kq_timeline.rs).                   *)
(*                                                                         *)
(* Expressions are the nodes of KqParse.  One field stands for each place  *)
(* a field is read from and each type it has there.  Letters stand for     *)
(* texts, "a" and "b" also for login accounts; a capital letter folds to   *)
(* its small one.                                                          *)
(***************************************************************************)
EXTENDS Integers, Sequences, SequencesExt

CONSTANTS KqMaxNumber,      \* i64::MAX
          KqAsks,           \* queries asked: [sources, expr]
          KqContents        \* contents of a status

VARIABLES
    kqAsk,    \* the query
    kqRow     \* the cached row it is evaluated on, with what is known about it

kqVars == <<kqAsk, kqRow>>

Logins == {"a", "b"}

-----------------------------------------------------------------------------
(***************************************************************************)
(* Types.                                                                  *)
(***************************************************************************)

\* Literals, and Field::value_types.
AtomType(w) ==
    CASE w \in {"0", "1", "2", "-min", "favs"} -> "number"
      [] w \in {"'a'", "'A'", "text", "author", "booster", "quote_text"} -> "text"
      [] w \in {"#1", "#a", "id"} -> "identity"
      [] w \in {"tags", "we"} -> "set"
      [] w \in {"true", "false", "boost", "favourited", "bookmarked"} -> "bool"

Scalars == {"number", "text", "identity"}

\* binary_result_types.
BinaryType(op, l, r) ==
    CASE op \in {"|", "&"} /\ l = "bool" /\ r = "bool" -> "bool"
      [] op \in {"==", "!="} /\ (\/ l = r /\ l # "set"
                                 \/ l = "identity" /\ r \in Scalars
                                 \/ r = "identity" /\ l \in Scalars) -> "bool"
      [] op \in {"<", "<=", ">", ">="} /\ l = "number" /\ r = "number" -> "bool"
      [] op \in {"startswith", "endswith"} /\ l = "text" /\ r = "text" -> "bool"
      [] op = "->" /\ ((l = "text" /\ r = "text") \/ (l = "set" /\ r # "bool")) -> "bool"
      [] op = "<-" /\ r = "set" /\ l # "bool" -> "bool"
      [] op = "+" /\ l = r /\ l \in {"number", "text", "set"} -> l
      [] op \in {"-", "*"} /\ l = r /\ l \in {"number", "set"} -> l
      [] op = "/" /\ l = "number" /\ r = "number" -> "number"
      [] OTHER -> "error"

UnaryType(op) == CASE op = "not" -> "bool" [] op = "-" -> "number" [] op = "caseful" -> "text"

\* The type of a node, error when make_unary, make_binary or parse_set refuses it.
RECURSIVE KqType(_)
KqType(e) ==
    CASE e[1] = "atom" -> AtomType(e[2])
      [] e[1] = "un" -> IF KqType(e[3]) = UnaryType(e[2]) THEN UnaryType(e[2]) ELSE "error"
      [] e[1] = "bin" -> BinaryType(e[2], KqType(e[3]), KqType(e[4]))
      [] OTHER -> IF \A k \in DOMAIN e[2] : KqType(e[2][k]) \in Scalars THEN "set" ELSE "error"

-----------------------------------------------------------------------------
(***************************************************************************)
(* Values.  A set's items are scalars [k, s] in the order they were added. *)
(***************************************************************************)

Unknown == [k |-> "unknown", t |-> "unknown", n |-> 0, s |-> <<>>, c |-> FALSE, items |-> <<>>]
Truth(t) == [Unknown EXCEPT !.k = "bool", !.t = t]
Bool(b) == Truth(IF b THEN "true" ELSE "false")
Number(n) == [Unknown EXCEPT !.k = "number", !.n = n]
Text(s, caseful) == [Unknown EXCEPT !.k = "text", !.s = s, !.c = caseful]
Identity(s) == [Unknown EXCEPT !.k = "identity", !.s = s]
SetOf(items) == [Unknown EXCEPT !.k = "set", !.items = items]
Digits(n) == CASE n = 0 -> <<"0">> [] n = 1 -> <<"1">> [] n = 2 -> <<"2">> [] OTHER -> <<"?">>

TruthOf(v) == IF v.k = "bool" THEN v.t ELSE "unknown"

\* Mutant of NotT: what is not known to hold does not hold.
NotTwoValued(t) == IF t = "true" THEN "false" ELSE "true"

\* Kleene's connectives, and checked arithmetic.
NotT(t) == CASE t = "true" -> "false" [] t = "false" -> "true" [] OTHER -> "unknown"
AndT(t, u) == CASE t = "false" \/ u = "false" -> "false"
                [] t = "true" /\ u = "true" -> "true" [] OTHER -> "unknown"
OrT(t, u) == NotT(AndT(NotT(t), NotT(u)))
Checked(n) == IF n \in (-KqMaxNumber - 1)..KqMaxNumber THEN Number(n) ELSE Unknown
\* checked_div truncates towards zero.
Abs(n) == IF n < 0 THEN -n ELSE n
Quotient(m, n) == IF (m < 0) = (n < 0) THEN Abs(m) \div Abs(n) ELSE -(Abs(m) \div Abs(n))

FoldCase(s) == [i \in DOMAIN s |-> IF s[i] = "A" THEN "a" ELSE s[i]]

\* scalar_equal: texts fold, identities are exact, a number is its digits.
ScalarEqual(x, y) ==
    CASE x.k = "text" /\ y.k = "text" -> FoldCase(x.s) = FoldCase(y.s)
      [] {x.k, y.k} = {"text", "number"} -> FALSE
      [] OTHER -> x.s = y.s

\* Mutant of Unique: items are unique only when they are the same.
UniqueExact(items, x) == IF \E i \in DOMAIN items : items[i] = x THEN items ELSE Append(items, x)

\* push_unique_scalar.
Unique(items, x) ==
    IF \E i \in DOMAIN items : ScalarEqual(items[i], x) THEN items ELSE Append(items, x)

\* into_scalar.
Scalar(v) == [k |-> v.k, s |-> IF v.k = "number" THEN Digits(v.n) ELSE v.s]
Has(items, x) == \E i \in DOMAIN items : ScalarEqual(items[i], x)
Common(items, others) == \E i \in DOMAIN others : Has(items, others[i])

\* equal_values, by way of the scalars except for booleans and caseful texts.
EqualValues(l, r) ==
    CASE l.k = "unknown" \/ r.k = "unknown" \/ "set" \in {l.k, r.k} -> "unknown"
      [] l.k = "bool" /\ r.k = "bool" ->
            IF "unknown" \in {l.t, r.t} THEN "unknown" ELSE IF l.t = r.t THEN "true" ELSE "false"
      [] l.k = "number" /\ r.k = "number" -> IF l.n = r.n THEN "true" ELSE "false"
      [] l.k = "text" /\ r.k = "text" /\ (l.c \/ r.c) -> IF l.s = r.s THEN "true" ELSE "false"
      [] "bool" \in {l.k, r.k} \/ {l.k, r.k} = {"text", "number"} -> "unknown"
      [] OTHER -> IF ScalarEqual(Scalar(l), Scalar(r)) THEN "true" ELSE "false"

\* compare_text and text_parts.
CompareText(l, r, Test(_, _)) ==
    IF {l.k, r.k} \subseteq {"text", "identity"}
    THEN IF l.c \/ r.c THEN Bool(Test(l.s, r.s)) ELSE Bool(Test(FoldCase(l.s), FoldCase(r.s)))
    ELSE Truth("unknown")

StartsWith(s, t) == IsPrefix(t, s)
EndsWith(s, t) == IsSuffix(t, s)
ContainsText(s, t) == \E i \in 0..Len(s) : IsPrefix(t, SubSeq(s, i + 1, Len(s)))

\* contains and is_in: membership, or a common item of two sets.
ContainsValue(l, r) ==
    CASE l.k = "set" /\ r.k = "set" -> Bool(Common(l.items, r.items))
      [] l.k = "set" /\ r.k \in Scalars -> Bool(Has(l.items, Scalar(r)))
      [] OTHER -> CompareText(l, r, ContainsText)
IsIn(l, r) == IF r.k = "set" /\ (l.k = "set" \/ l.k \in Scalars) THEN ContainsValue(r, l)
              ELSE Truth("unknown")

CompareNumbers(op, l, r) ==
    IF l.k # "number" \/ r.k # "number" THEN Truth("unknown")
    ELSE Bool(CASE op = "<" -> l.n < r.n [] op = "<=" -> l.n <= r.n
                [] op = ">" -> l.n > r.n [] OTHER -> l.n >= r.n)

\* add, subtract, multiply and divide: numbers, texts and sets.
Arithmetic(op, l, r) ==
    CASE l.k = "number" /\ r.k = "number" ->
            (CASE op = "+" -> Checked(l.n + r.n) [] op = "-" -> Checked(l.n - r.n)
               [] op = "*" -> Checked(l.n * r.n)
               [] op = "/" /\ r.n # 0 -> Checked(Quotient(l.n, r.n)) [] OTHER -> Unknown)
      [] l.k = "text" /\ r.k = "text" /\ op = "+" -> Text(l.s \o r.s, l.c \/ r.c)
      [] l.k = "set" /\ r.k = "set" /\ op # "/" ->
            SetOf(CASE op = "+" -> FoldLeft(Unique, l.items, r.items)
                    [] op = "-" -> SelectSeq(l.items, LAMBDA x : ~Has(r.items, x))
                    [] OTHER -> SelectSeq(l.items, LAMBDA x : Has(r.items, x)))
      [] OTHER -> Unknown

-----------------------------------------------------------------------------
(***************************************************************************)
(* Fields.  A row is the wrapper, the status it shows if it is cached, the *)
(* quote of that one if it is cached, the timelines the wrapper is in and  *)
(* each account's state of the shown status.                               *)
(***************************************************************************)

EffectiveThere(row) == row.original \/ ~row.boost

\* Mutant of ViewerState: without a scope, what any account says.
ViewerStateOfAny(row, scope, flag) ==
    CASE ~EffectiveThere(row) -> "unknown"
      [] scope # "none" -> row.viewer[scope][flag]
      [] \E x \in row.logins : row.viewer[x][flag] = "true" -> "true"
      [] OTHER -> "unknown"

\* viewer_state: one account's, unknown without a scope or a status.
ViewerState(row, scope, flag) ==
    IF scope = "none" \/ ~EffectiveThere(row) THEN "unknown" ELSE row.viewer[scope][flag]

\* field_value, effective_field_value, booster_field_value, quote_field_value
\* and viewer_field_value.
FieldValue(f, row, scope) ==
    LET status == row.content IN
    CASE f = "boost" -> Bool(row.boost)
      [] f = "we" -> SetOf(SetToSeq({[k |-> "text", s |-> <<x>>] : x \in row.logins}))
      [] f = "booster" -> IF row.boost THEN Text(<<row.wrapper>>, FALSE) ELSE Unknown
      [] f \in {"favourited", "bookmarked"} -> Truth(ViewerState(row, scope, f))
      [] ~EffectiveThere(row) -> Unknown
      [] f = "quote_text" -> IF row.quote THEN Text(<<"a">>, FALSE) ELSE Unknown
      [] f = "text" -> Text(status.text, FALSE)
      [] f = "id" -> Identity(status.id)
      [] f = "favs" -> Number(status.favs)
      [] f = "author" -> Text(<<status.author>>, FALSE)
      [] f = "tags" -> IF status.tags = "bad" THEN Unknown
                       ELSE SetOf(<<[k |-> "text", s |-> <<status.tags>>]>>)

AtomValue(w, row, scope) ==
    CASE w = "0" -> Number(0) [] w = "1" -> Number(1) [] w = "2" -> Number(2)
      [] w = "-min" -> Number(-KqMaxNumber - 1)
      [] w = "'a'" -> Text(<<"a">>, FALSE) [] w = "'A'" -> Text(<<"A">>, FALSE)
      [] w = "#1" -> Identity(<<"1">>) [] w = "#a" -> Identity(<<"a">>)
      [] w = "true" -> Bool(TRUE) [] w = "false" -> Bool(FALSE)
      [] OTHER -> FieldValue(w, row, scope)

\* eval_unary.
UnaryValue(op, v) ==
    CASE op = "not" -> Truth(NotT(TruthOf(v)))
      [] op = "-" /\ v.k = "number" -> Checked(-v.n)
      [] op = "caseful" /\ v.k = "text" -> [v EXCEPT !.c = TRUE]
      [] OTHER -> Unknown

\* eval, eval_binary and eval_set.
RECURSIVE Eval(_, _, _)
Eval(e, row, scope) ==
    LET V(x) == Eval(x, row, scope) IN
    CASE e[1] = "atom" -> AtomValue(e[2], row, scope)
      [] e[1] = "un" -> UnaryValue(e[2], V(e[3]))
      [] e[1] = "set" ->
            LET items == [k \in DOMAIN e[2] |-> V(e[2][k])] IN
            IF \E k \in DOMAIN items : items[k].k \notin Scalars THEN Unknown
            ELSE SetOf(FoldLeft(Unique, <<>>, [k \in DOMAIN items |-> Scalar(items[k])]))
      [] e[2] = "&" -> Truth(AndT(TruthOf(V(e[3])), TruthOf(V(e[4]))))
      [] e[2] = "|" -> Truth(OrT(TruthOf(V(e[3])), TruthOf(V(e[4]))))
      [] e[2] = "==" -> Truth(EqualValues(V(e[3]), V(e[4])))
      [] e[2] = "!=" -> Truth(NotT(EqualValues(V(e[3]), V(e[4]))))
      [] e[2] \in {"<", "<=", ">", ">="} -> CompareNumbers(e[2], V(e[3]), V(e[4]))
      [] e[2] = "startswith" -> CompareText(V(e[3]), V(e[4]), StartsWith)
      [] e[2] = "endswith" -> CompareText(V(e[3]), V(e[4]), EndsWith)
      [] e[2] = "->" -> ContainsValue(V(e[3]), V(e[4]))
      [] e[2] = "<-" -> IsIn(V(e[3]), V(e[4]))
      [] OTHER -> Arithmetic(e[2], V(e[3]), V(e[4]))

-----------------------------------------------------------------------------
(***************************************************************************)
(* Sources, and the branches in which a row matches them: the account a    *)
(* branch sees the row as, or none.                                        *)
(***************************************************************************)

\* selected_login_accounts.
Selected(arg, row) == {x \in row.logins : arg \in {"", x}}

Member(row, type, x) == <<type, x>> \in row.members

\* mentions_login_account.
MentionsLogin(row, x) == EffectiveThere(row) /\ x \in row.content.mentions

\* account_source_matches.
AccountMatches(kind, row, x) ==
    CASE kind \in {"home", "public", "local_public"} -> Member(row, kind, x)
      [] kind = "mentions" -> MentionsLogin(row, x)
      [] kind = "direct" ->
            /\ EffectiveThere(row) /\ row.content.direct
            /\ \/ Member(row, "home", x) \/ Member(row, "direct", x)
               \/ row.content.author = x \/ MentionsLogin(row, x)
      [] kind = "bookmarks" -> ViewerState(row, x, "bookmarked") = "true"
      [] kind = "favourites" -> ViewerState(row, x, "favourited") = "true"

\* collapse_implicit_account_scopes, collapse_membership_scopes: two accounts
\* make the scope ambiguous.
Collapse(accounts) ==
    CASE accounts = {} -> {}
      [] \E x \in accounts : accounts = {x} -> accounts
      [] OTHER -> {"none"}

\* source_branches.
Branches(source, row) ==
    LET kind == source[1]
        arg == source[2]
        matching == {x \in Selected(arg, row) : AccountMatches(kind, row, x)}
        If(condition) == IF condition THEN {"none"} ELSE {}
    IN
    CASE kind = "local" -> {"none"}
      [] kind \in {"search", "track"} ->
            If(EffectiveThere(row) /\ ContainsText(FoldCase(row.content.text), <<arg>>))
      [] kind = "conversation" -> If(row.conversation)
      [] kind = "user" -> If(row.wrapper = arg)
      [] kind = "hashtag" -> Collapse({x \in row.logins : Member(row, "tag", x)})
      [] kind = "list" -> Collapse({x \in Selected(arg, row) : Member(row, "list", x)})
      [] kind \in {"bookmarks", "favourites"} -> matching
      [] OTHER -> Collapse(matching)

\* matches.
Matches(ask, row) ==
    \E i \in DOMAIN ask.sources : \E scope \in Branches(ask.sources[i], row) :
        TruthOf(Eval(ask.expr, row, scope)) = "true"

-----------------------------------------------------------------------------
(***************************************************************************)
(* Requirements: what query_statuses loads beside the row and its          *)
(* hydration.                                                              *)
(***************************************************************************)

\* visit_fields.
RECURSIVE Words(_)
Words(e) ==
    CASE e[1] = "atom" -> {e[2]}
      [] e[1] = "un" -> Words(e[3])
      [] e[1] = "bin" -> Words(e[3]) \union Words(e[4])
      [] OTHER -> UNION {Words(e[2][k]) : k \in DOMAIN e[2]}

SourceKinds(ask) == {ask.sources[i][1] : i \in DOMAIN ask.sources}
ViewerKinds == {"bookmarks", "favourites"}
ViewerWords == {"favourited", "bookmarked"}

\* Mutant of Requirements: a viewer field alone asks for no viewer states.
RequirementsOfSources(ask) ==
    [quote |-> "quote_text" \in Words(ask.expr),
     memberships |-> \E kind \in SourceKinds(ask) : kind \notin {"local", "user", "conversation"},
     viewer |-> SourceKinds(ask) \intersect ViewerKinds # {},
     logins |-> SourceKinds(ask) \ {"local", "search", "track", "conversation", "user"} # {}
                \/ "we" \in Words(ask.expr),
     conversations |-> "conversation" \in SourceKinds(ask)]

\* query_requirements.  (The shown status is always loaded.)
Requirements(ask) ==
    [quote |-> "quote_text" \in Words(ask.expr),
     memberships |-> \/ \E kind \in SourceKinds(ask) : kind \notin {"local", "user", "conversation"}
                     \/ Words(ask.expr) \intersect ViewerWords # {},
     viewer |-> \/ SourceKinds(ask) \intersect ViewerKinds # {}
                \/ Words(ask.expr) \intersect ViewerWords # {},
     logins |-> SourceKinds(ask) \ {"local", "search", "track", "conversation", "user"} # {}
                \/ "we" \in Words(ask.expr),
     conversations |-> "conversation" \in SourceKinds(ask)]

NoStates == [x \in Logins |-> [f \in ViewerWords |-> "unknown"]]

\* load_viewer_states: the states of the accounts that are logged in.
\* The row as query_statuses hands it to the evaluator.
Loaded(ask, row) ==
    LET needs == Requirements(ask) IN
    [row EXCEPT
        !.quote = row.quote /\ needs.quote,
        !.logins = IF needs.logins \/ needs.viewer THEN row.logins ELSE {},
        !.members = IF needs.memberships \/ needs.viewer THEN row.members ELSE {},
        !.viewer = IF needs.viewer THEN row.viewer ELSE NoStates,
        !.conversation = row.conversation /\ needs.conversations]

-----------------------------------------------------------------------------
(***************************************************************************)
(* What is known about a row grows while the query is asked again.         *)
(***************************************************************************)

OriginalCached ==
    /\ ~EffectiveThere(kqRow)
    /\ kqRow' = [kqRow EXCEPT !.original = TRUE]
    /\ UNCHANGED kqAsk

QuoteCached ==
    /\ ~kqRow.quote
    /\ kqRow' = [kqRow EXCEPT !.quote = TRUE]
    /\ UNCHANGED kqAsk

ViewerStateKnown(x, f) ==
    /\ kqRow.viewer[x][f] = "unknown"
    /\ \E t \in {"true", "false"} : kqRow' = [kqRow EXCEPT !.viewer[x][f] = t]
    /\ UNCHANGED kqAsk

Joins(type, x) ==
    /\ kqRow' = [kqRow EXCEPT !.members = @ \union {<<type, x>>}]
    /\ UNCHANGED kqAsk

EvalInit ==
    /\ kqAsk \in KqAsks
    /\ \E boost \in BOOLEAN, content \in KqContents :
          kqRow = [boost |-> boost, original |-> FALSE, wrapper |-> "b", content |-> content,
                   quote |-> FALSE, logins |-> Logins, members |-> {}, viewer |-> NoStates,
                   conversation |-> boost]

EvalNext ==
    \/ OriginalCached
    \/ QuoteCached
    \/ ViewerStateKnown("a", "favourited")
    \/ ViewerStateKnown("b", "bookmarked")
    \/ \E x \in Logins : Joins("home", x)
    \/ Joins("tag", "b")
    \/ Joins("list", "a")

-----------------------------------------------------------------------------

RECURSIVE Nodes(_)
Nodes(e) ==
    {e} \union CASE e[1] = "atom" -> {}
                 [] e[1] = "un" -> Nodes(e[3])
                 [] e[1] = "bin" -> Nodes(e[3]) \union Nodes(e[4])
                 [] OTHER -> UNION {Nodes(e[2][k]) : k \in DOMAIN e[2]}

\* The checker predicts the evaluator: every part of a compiled query has the
\* type it was given or is unknown, in every scope, with overflow, division by zero and
\* missing data; and a set holds no two items that are equal.
TypesPredictValues ==
    KqType(kqAsk.expr) = "bool" =>
        \A e \in Nodes(kqAsk.expr), scope \in Logins \union {"none"} :
            LET v == Eval(e, kqRow, scope) IN
            /\ v.k \in {KqType(e), "unknown"}
            /\ \A i, j \in DOMAIN v.items : i # j => ~ScalarEqual(v.items[i], v.items[j])

\* What a compiled query declares to need is all its evaluation reads: loading no more
\* never changes whether a row matches.
RequirementsSuffice == Matches(kqAsk, Loaded(kqAsk, kqRow)) = Matches(kqAsk, kqRow)

\* "viewer state from two login accounts is never aggregated" (Evaluator::matches): a row
\* that matches does so with the state of one account alone.
ScopesNeverMix ==
    Matches(kqAsk, kqRow) =>
        \E x \in Logins :
            Matches(kqAsk, [kqRow EXCEPT !.viewer = [NoStates EXCEPT ![x] = kqRow.viewer[x]]])

\* Missing is no answer: a row that matches while its original, its quote or a viewer
\* flag is missing still matches when that becomes known.
KnowingMoreKeepsMatches ==
    (kqRow'.members = kqRow.members) => (Matches(kqAsk, kqRow) => Matches(kqAsk', kqRow'))
=============================================================================
