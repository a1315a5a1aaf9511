---------------------------- MODULE KqSourcePlan ----------------------------
(***************************************************************************)
(* The index plans of KQ's sources: services/kq_source_plan.rs, and the    *)
(* conversations services/kq_timeline.rs resolves for it.  A plan selects  *)
(* rows with SQL before the evaluator sees them; what the evaluator says   *)
(* of a source (services/kq_evaluator.rs) is the reference.                *)
(*                                                                         *)
(* The cache holds a post and a row beside it, which may be a boost of the *)
(* post.  A name is a local part, whose capital letters fold, and a host,  *)
(* "" when it is left out.                                                 *)
(***************************************************************************)
EXTENDS Integers, FiniteSets, FiniteSetsExt

CONSTANTS SortedCandidates,  \* MAX_SORTED_CANDIDATES
          ThreadCap,         \* MAX_CONVERSATION_STATUSES_PER_SOURCE
          SpAsks,            \* the sources asked for: [kind, arg]
          SpPosts,           \* contents of the post
          SpBesides,         \* the rows beside it
          SpMembers,         \* timeline_entries: <<row, type, acct of the login>>
          SpViewers,         \* status_viewer_state: <<row, column, acct of the login>>
          SpThreads          \* the rows of the conversation asked for

VARIABLES
    spAsk, spDb,
    spPlan  \* <<>> or the plan: [mode, rows]

spVars == <<spAsk, spDb, spPlan>>

Server == "s"

\* The two accounts logged in, with the names they are stored under.
SpLogins == {[acct |-> <<"a", "s">>, id |-> "1", server |-> "s"],
             [acct |-> <<"b", "t">>, id |-> "2", server |-> "t"]}

\* fold, and what SQLite's NOCASE and lower make of ASCII.
SpFold(letter) == IF letter = "A" THEN "a" ELSE letter

SameName(x, y) == SpFold(x[1]) = SpFold(y[1]) /\ x[2] = y[2]

\* status_scoped_acct: a name without a host belongs to the server that stored it.
Scoped(name) == IF name[2] = "" THEN <<name[1], Server>> ELSE name

\* selected_login_accounts.
SpSelected(arg) == {x \in SpLogins : arg = <<>> \/ SameName(arg, x.acct)}

Rows == {r \in {1, 2} : r \in DOMAIN spDb.row}
Row(r) == spDb.row[r]

\* The effective status: the post itself, or the post a boost wraps when it is cached.
Effective(r) == IF Row(r).boost THEN {1} \intersect Rows ELSE {r}

-----------------------------------------------------------------------------
(***************************************************************************)
(* The evaluator: whether a row has a branch of the source.                *)
(***************************************************************************)

\* load_timeline_memberships: keyed by the wrapper.
Memberships(r) == {<<m[2], m[3]>> : m \in {n \in spDb.members : n[1] = r}}

\* load_viewer_states: keyed by the effective status, for every login.
ViewerStates(e) == {<<v[2], v[3]>> : v \in {w \in spDb.viewers : w[1] = e}}

\* membership_matches.
InTimeline(r, type, x) == <<type, x.acct>> \in Memberships(r)

\* mentions_login_account.
SpMentions(r, x) ==
    \E e \in Effective(r) :
        \/ Row(e).replyTo = x.id /\ Server = x.server
        \/ \E n \in Row(e).mentions :
              \/ Server = x.server /\ n.id = x.id
              \/ SameName(Scoped(n.name), x.acct)

\* account_source_matches and the other branches of source_branches.
SourceMatches(ask, r) ==
    CASE ask.kind \in {"local", "search", "track"} -> TRUE
      [] ask.kind \in {"home", "public", "local_public", "list"} ->
            \E x \in SpSelected(ask.arg) : InTimeline(r, ask.kind, x)
      [] ask.kind = "hashtag" ->
            \E x \in SpLogins, tag \in {"tag", "TAG"} : InTimeline(r, tag, x)
      [] ask.kind = "user" ->
            LET author == Row(r).author
            IN \/ author.id = ask.arg[1]
               \/ SameName(ask.arg, Scoped(author.name))
               \/ SameName(ask.arg, <<author.name[1], "">>)
      [] ask.kind \in {"bookmarks", "favourites"} ->
            \E x \in SpSelected(ask.arg), e \in Effective(r) :
                <<ask.kind, x.acct>> \in ViewerStates(e)
      [] ask.kind = "mentions" -> \E x \in SpSelected(ask.arg) : SpMentions(r, x)
      [] ask.kind = "direct" ->
            \E x \in SpSelected(ask.arg), e \in Effective(r) :
                /\ Row(e).direct
                /\ \/ InTimeline(r, "home", x) \/ InTimeline(r, "direct", x)
                   \/ SameName(Scoped(Row(e).author.name), x.acct) \/ SpMentions(r, x)
      [] ask.kind = "conversation" -> ({r} \union Effective(r)) \intersect spDb.thread # {}

-----------------------------------------------------------------------------
(***************************************************************************)
(* The planner.                                                            *)
(***************************************************************************)

\* push_membership: nothing is pushed when no login is selected.
MembershipSource(types, accts) ==
    IF accts = {} THEN {} ELSE {[of |-> "members", types |-> types, accts |-> accts]}

\* resolve_author_keys: NOCASE, by id, by name with or without host, by username.
AuthorKeys(selector) ==
    {a \in {Row(r).author : r \in Rows} :
        \/ a.id = selector[1]
        \/ SameName(a.name, selector)
        \/ SameName(a.name, <<selector[1], "">>)
        \/ SameName(<<a.name[1], "">>, selector)}

RowSources(ask) ==
    CASE ask.kind \in {"home", "public", "local_public", "list"} ->
            MembershipSource({ask.kind}, {x.acct : x \in SpSelected(ask.arg)})
      [] ask.kind = "hashtag" ->
            MembershipSource({"tag", "TAG"}, {x.acct : x \in SpLogins})
      [] ask.kind = "user" ->
            IF AuthorKeys(ask.arg) = {} THEN {}
            ELSE {[of |-> "authors", keys |-> AuthorKeys(ask.arg)]}
      [] OTHER -> {}

\* Mutant of MentionNeedles: the whole name, which a mention of a neighbour does not store.
MentionNeedlesWhole(logins) == {<<SpFold(x.acct[1]), x.acct[2]>> : x \in logins}

\* mention_acct_needles: a mention stores the whole name or only its local part.
MentionNeedles(logins) == {<<SpFold(x.acct[1]), "">> : x \in logins}

\* A needle is found in the text of a name, lower-cased, that begins with it.
FoundIn(needle, name) ==
    SpFold(name[1]) = needle[1] /\ needle[2] \in {"", name[2]}

\* resolve_conversation_keys: the read model returns a bounded page, newest rows first;
\* a page that may have been cut is an error.
ThreadPage == {r \in spDb.thread : Cardinality({q \in spDb.thread : q > r}) < ThreadCap}

ThreadFits == Cardinality(ThreadPage) < ThreadCap

\* The keys of the effective sources.
EffectiveKeys(ask) ==
    LET logins == SpSelected(ask.arg) IN
    CASE ask.kind \in {"bookmarks", "favourites"} ->
            {v[1] : v \in {w \in spDb.viewers : /\ w[2] = ask.kind
                                                 /\ w[3] \in {x.acct : x \in logins}}}
      [] ask.kind = "direct" -> IF logins = {} THEN {} ELSE {r \in Rows : Row(r).direct}
      [] ask.kind = "mentions" ->
            {r \in Rows :
                \/ Row(r).replyTo \in {x.id : x \in logins}
                \/ \E n \in Row(r).mentions :
                      \/ n.id \in {x.id : x \in logins}
                      \/ \E needle \in MentionNeedles(logins) : FoundIn(needle, n.name)}
      [] ask.kind = "conversation" -> ThreadPage
      [] OTHER -> {}

\* push_keys and push_probe of a row source.
RowKeys(sources) ==
    {r \in Rows :
        \E s \in sources :
            \/ s.of = "members" /\ \E type \in s.types, acct \in s.accts :
                                      <<r, type, acct>> \in spDb.members
            \/ s.of = "authors" /\ Row(r).author \in s.keys}

\* Mutant of CandidateRows: boosts of a matched post are left out.
CandidateRowsOnly(sources, keys) == (RowKeys(sources) \union keys) \intersect Rows

\* candidate_plan: the keys, and the boosts of the effective ones.
CandidateRows(sources, keys) ==
    (RowKeys(sources) \union keys \union {r \in Rows : Row(r).boost /\ 1 \in keys})
        \intersect Rows

\* probe_plan: each row is asked for a membership, an author, its key and its original.
ProbeRows(sources, keys) ==
    {r \in Rows : \/ r \in RowKeys(sources) \/ r \in keys
                  \/ Row(r).boost /\ 1 \in keys}

\* estimate_source_rows counts with duplicates.
Estimate(sources, keys) ==
    Min({Cardinality(keys) + Cardinality(RowKeys(sources)), SortedCandidates + 1})

\* plan_source_scan_with_limit.
PlanOf(ask) ==
    LET sources == RowSources(ask)
        keys == EffectiveKeys(ask)
    IN
    CASE ask.kind \in {"local", "search", "track"} -> [mode |-> "full", rows |-> Rows]
      [] ask.kind = "conversation" /\ ~ThreadFits -> [mode |-> "error", rows |-> {}]
      [] OTHER ->
            IF sources = {} /\ keys = {} THEN [mode |-> "empty", rows |-> {}]
            ELSE IF Estimate(sources, keys) <= SortedCandidates
                 THEN [mode |-> "candidates", rows |-> CandidateRows(sources, keys)]
                 ELSE [mode |-> "probe", rows |-> ProbeRows(sources, keys)]

PlanSources ==
    /\ spPlan = <<>>
    /\ spPlan' = PlanOf(spAsk)
    /\ UNCHANGED <<spAsk, spDb>>

PlanInit ==
    /\ spAsk \in SpAsks
    /\ \E post \in SpPosts, beside \in SpBesides, gone \in BOOLEAN :
          \E members \in SpMembers, viewers \in SpViewers, thread \in SpThreads :
              spDb = [row |-> IF gone THEN [r \in {2} |-> beside]
                              ELSE [r \in {1, 2} |-> IF r = 1 THEN post ELSE beside],
                      members |-> members, viewers |-> viewers, thread |-> thread]
    /\ spPlan = <<>>

-----------------------------------------------------------------------------

\* Every plan selects a superset of the rows its source matches: a boost through its
\* original, a neighbour's mention without a host, a name in other case, a conversation
\* never cut short.
PlanIsASuperset ==
    spPlan # <<>> /\ spPlan.mode # "error" =>
        \A r \in Rows : SourceMatches(spAsk, r) => r \in spPlan.rows

\* Sparse or dense, the plan selects the same rows: a query answers the same when its
\* source outgrows the limit.
PlanModesAgree ==
    spPlan # <<>> =>
        LET sources == RowSources(spAsk)
            keys == EffectiveKeys(spAsk)
        IN CandidateRows(sources, keys) = ProbeRows(sources, keys)
=============================================================================
