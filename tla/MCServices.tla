---------------------------- MODULE MCServices ----------------------------
(***************************************************************************)
(* The services of the application that share no state: one run checks     *)
(* their safety side by side, and part is the one that moves.              *)
(***************************************************************************)
EXTENDS CollectionSync, SearchEngine, QuoteLookups, KqParse, KqEvaluate, PluginActor,
        PluginJobs, ProviderRequests, BlueskyPosts, SubjectCache, FrontendRecovery,
        WebviewHealth, BlueskyPolling, TimelinePages, KqSourcePlan, MisskeySocket, Logins,
        Migrations, MediaFiles, SearchTerms, Startup, SettingsPages, CacheNotices,
        TimelineViews, CustomSql, PostActions, NotificationSync, StreamView

VARIABLE part

MCIxDocs == {<<"status", 1>>, <<"status", 2>>}

MCSourceOf == [q \in QuoteKeys |-> "a1"]

\* Queries small enough to enumerate and deep enough to mix every level.
MCAtom(w) == <<"atom", w>>
MCBin(op, l, r) == <<"bin", op, MCAtom(l), MCAtom(r)>>

MCTrees1 ==
    {MCAtom("x"), MCAtom("-min"), <<"set", <<>>>>}
    \cup {<<"un", o, MCAtom("x")>> : o \in {"not", "-"}}
    \cup {MCBin(o, "x", "y") : o \in {"|", "&", "==", "<", "->", "+", "-", "*", "/"}}

MCTrees ==
    MCTrees1
    \cup {<<"un", o, t>> : o \in {"not", "-", "caseful"}, t \in MCTrees1}
    \cup {<<"set", <<t, u>>>> : t, u \in MCTrees1}
    \cup {<<"bin", o, t, u>> : o \in {"|", "&", "==", "<", "->", "+", "-", "*", "/"},
                               t, u \in MCTrees1}

MCSource ==
    [kind : {"local", "home", "bookmarks"}, form : {"plain"}, args : {<<>>}]
    \cup [kind : {"home", "list"}, form : {"colon"},
          args : {<<"a">>, <<"@a">>, <<"@a", ",", "@b">>, <<"a", ",", "*">>}]
    \cup [kind : {"home", "user"}, form : {"call"},
          args : {<<"a", ",", "b">>, <<"@a", ",", "a", ",">>}]

MCQueries ==
    {[sources |-> <<>>, comma |-> FALSE, expr |-> t] : t \in MCTrees}
    \cup {[sources |-> <<s>>, comma |-> c, expr |-> MCAtom("x")] : s \in MCSource, c \in BOOLEAN}
    \cup {[sources |-> <<s, t>>, comma |-> c, expr |-> MCAtom("x")] :
              s, t \in MCSource, c \in BOOLEAN}

MCExprs == {
    MCBin("&", "favourited", "bookmarked"),
    <<"un", "not", MCAtom("favourited")>>,
    <<"un", "not", MCBin("==", "text", "'a'")>>,
    MCBin("==", "quote_text", "'A'"),
    <<"bin", "&", <<"un", "not", MCAtom("boost")>>, MCBin("->", "we", "author")>>,
    <<"bin", "->", <<"set", <<MCAtom("'A'"), MCAtom("#a"), MCAtom("1"), MCAtom("id")>>>>,
                   MCAtom("author")>>,
    <<"bin", "|", MCBin("<", "favs", "1"),
        <<"bin", ">=", <<"bin", "*", <<"un", "-", MCAtom("-min")>>, MCAtom("favs")>>, MCAtom("0")>>>>,
    <<"bin", "!=", <<"bin", "/", MCAtom("2"), MCAtom("favs")>>,
                   <<"bin", "-", MCAtom("favs"), MCAtom("1")>>>>,
    <<"bin", "<-", <<"bin", "-", <<"bin", "+", MCAtom("tags"), MCAtom("we")>>,
                                <<"bin", "*", MCAtom("tags"), MCAtom("we")>>>>, MCAtom("we")>>,
    <<"bin", "startswith", <<"bin", "+", MCAtom("text"), <<"un", "caseful", MCAtom("'A'")>>>>,
                           MCAtom("booster")>>}

MCAsks ==
    {[sources |-> << <<"home", "a">>, <<"home", "b">> >>, expr |-> e] : e \in MCExprs}
    \cup {[sources |-> << <<"local", "">> >>, expr |-> MCBin("&", "favourited", "bookmarked")]}
    \cup {[sources |-> s, expr |-> MCBin("|", "favourited", "bookmarked")] : s \in {
        << <<"local", "">> >>,
        << <<"mentions", "">>, <<"bookmarks", "">> >>,
        << <<"direct", "">>, <<"hashtag", "t">> >>,
        << <<"list", "a">>, <<"search", "a">> >>,
        << <<"favourites", "a">>, <<"user", "b">>, <<"conversation", "1">> >>}}

MCContents == {
    [text |-> <<"A">>, id |-> <<"1">>, favs |-> 0, tags |-> "A", author |-> "a",
     direct |-> TRUE, mentions |-> {"a", "b"}],
    [text |-> <<"b", "a">>, id |-> <<"a">>, favs |-> 2, tags |-> "bad", author |-> "b",
     direct |-> FALSE, mentions |-> {"b"}]}

MCSpAsks ==
    [kind : {"local", "conversation"}, arg : {<<>>}]
    \cup [kind : {"home", "list", "hashtag", "bookmarks", "mentions", "direct"},
             arg : {<<>>, <<"A", "s">>}]
    \cup [kind : {"user"}, arg : {<<"A", "s">>, <<"a", "">>, <<"b", "t">>, <<"7", "">>}]

MCSpAuthor(name) == [id |-> IF name[1] = "b" THEN "7" ELSE "1", name |-> name]

MCSpPosts ==
    [boost : {FALSE}, author : {MCSpAuthor(<<"a", "">>)}, direct : BOOLEAN, replyTo : {"", "1"},
     mentions : {{}, {[id |-> "9", name |-> <<"A", "">>]}, {[id |-> "9", name |-> <<"b", "t">>]}}]

MCSpBesides ==
    [boost : BOOLEAN, author : {MCSpAuthor(<<"A", "">>), MCSpAuthor(<<"b", "t">>)},
     direct : {FALSE}, replyTo : {""}, mentions : {{}}]

MCSpMembers ==
    {{}, {<<2, "home", <<"a", "s">>>>, <<1, "TAG", <<"a", "s">>>>},
     {<<1, "home", <<"b", "t">>>>, <<2, "list", <<"a", "s">>>>}}

MCSpViewers == {{<<1, "bookmarks", <<"a", "s">>>>}}

MCSpThreads == {{1}, {1, 3}, {1, 3, 4}}

RqAnswer(status, declared, chunks, after) ==
    [status |-> status, declared |-> declared, chunks |-> chunks, json |-> TRUE, after |-> after]
MCRqAnswers == {RqAnswer("200", 0, <<1, 2>>, 0), RqAnswer("200", 2, <<1, 1>>, 0),
                RqAnswer("429", 0, <<>>, 3), RqAnswer("broken", 0, <<>>, 0)}
MCRqBackend == [s \in {1, 2} |-> IF s = 1 THEN "mastodon" ELSE "misskey"]

MCStContents ==
    SeqOf({"a", "A", "b", "-", "T", "P"}, 2) \cup {<<"E", "a">>, <<"b", "E">>}
    \cup {<<c, m, d>> : c \in {"a", "b", "-"}, m \in {"-", "T", "P"}, d \in {"a", "b", "-"}}
MCStNames == {<<>>, <<"-", "b">>}
MCStTerms == {<<"a">>, <<"A">>, <<"a", "b">>, <<"-">>, <<"-", "a">>, <<"a", "-">>, <<"-", "b">>,
              <<"<", "b">>, <<"&", "a">>, <<"a", "-", "b">>, <<"-", "a", "-">>}

MCUtAccts == <<"a1", "a2">>

\* Two notifications are about one post.
MCNsPostOf == <<1, 2, 2, 3>>


\* Columns of two panes, and the layouts of some of them.
MCClColumns ==
    [id : {1, 2}, type : {"home"}, param : {NoParam}, filter : {Unfiltered, "media"},
     pane : {0, 2}, pos : {0, 1}, acct : {NoSource}]
    \union [id : {2}, type : {"list"}, param : {NoParam, <<"text", "t">>, <<"wrap", "t", "media">>},
            filter : {Unfiltered}, pane : {0, 2}, pos : {0, 1}, acct : {NoSource, "m"}]
    \union [id : {3}, type : {"list"}, param : {<<"text", "t">>},
            filter : {"media"}, pane : {2, 5}, pos : {0, 1}, acct : {"m", "b"}]
    \union [id : {4}, type : {"feed"}, param : {<<"text", "t">>},
            filter : {Unfiltered}, pane : {2}, pos : {0}, acct : {"m", "b"}]
    \union [id : {5}, type : {"kq"}, param : {<<"text", "t">>, <<"text", "bad">>, <<"wrap", "t", "media">>},
            filter : {Unfiltered, "media"}, pane : {2}, pos : {0}, acct : {"m"}]
MCClLayouts == {<<>>} \union {<<c>> : c \in MCClColumns} \union {<<c, d>> : c, d \in MCClColumns}
  \union {<<c, d, e>> : c \in {x \in MCClColumns : x.id = 1},
                    d \in {x \in MCClColumns : x.id = 3}, e \in {x \in MCClColumns : x.id \in {4}}}


\* Two posts quote one post.
MCStqKeyOf == <<"a", "a", "b">>

Init ==
    /\ part \in {"sync", "search", "merge", "quotes", "parse", "evaluate", "plugins",
                "plugin_jobs",
                "toggles",
                "posts",
                "subjects",
                "recovery",
                "health",
                "polling",
                "notices",
                "scan",
                "plan",
                "gaps",
                "budget",
                "socket",
                "login",
                "requests",
                "migrations",
                "accounts",
                "uploads",
                "drops",
                "downloads",
                "terms",
                "startup",
                "settings",
                "cache_notices",
                "thread",
                "unified",
                "sql_text",
                "sql_connections",
                "actions",
                "air",
                "deletion",
                "notice_sync",
                "layout",
                "stream_quotes",
                "stream_view"}
    /\ SyncInit
    /\ SearchInit /\ (part # "search" => \A d \in IxDocs : srcText[d] = 0)
    /\ MergeInit /\ (part # "merge" => \A t \in Targets : segs[t] = 0)
    /\ QuoteInit
    /\ KqInit /\ (part # "parse" => kqQuery.sources = <<>> /\ kqQuery.expr = MCAtom("x"))
    /\ EvalInit /\ (part # "evaluate" => /\ kqAsk.expr = <<"un", "not", MCAtom("favourited")>>
                                         /\ ~kqRow.boost /\ kqRow.content.favs = 0)
    /\ PluginInit
    /\ JobsInit
    /\ ToggleInit /\ (part # "toggles" => togBackend = "bluesky")
    /\ RepoInit
    /\ SubjectInit
    /\ RecoveryInit
    /\ HealthInit
    /\ PollingInit
    /\ NoticesInit /\ (part # "notices" => npThere = 0)
    /\ ScanInit /\ (part # "scan" => /\ tsCached = ScanRows /\ tsMatch = ScanRows
                                     /\ tsAsk = CHOOSE ask \in ScanAsks : TRUE)
    /\ IF part = "plan" THEN PlanInit ELSE spAsk = <<>> /\ spDb = <<>> /\ spPlan = <<>>
    /\ GapsInit /\ (part # "gaps" => tgFilter = GapPosts)
    /\ BudgetInit
    /\ SocketInit
    /\ LoginInit /\ (part # "login" => lgKind = [f \in LgFlows |-> "misskey"])
    /\ RequestsInit
    /\ (IF part = "migrations" THEN MigrationsInit
        ELSE MigrationsInit /\ mgFound = [seen |-> 0, half |-> FALSE])
    /\ AccountSetInit /\ (part # "accounts" => acRows = {})
    /\ MediaUploadsInit
    /\ MediaDownloadsInit
    /\ (IF part = "terms" THEN SearchTermsInit
        ELSE stContent = <<>> /\ stName = <<>> /\ stTerms = {})
    /\ StartupInit /\ (part # "startup" => ~btCorrupt)
    /\ SettingsStoreInit /\ (part # "settings" => sgStored = SgDefault)
    /\ CacheNoticesInit
    /\ IF part = "thread" THEN ThreadViewInit
       ELSE /\ tvCached = {} /\ tvAsked = 1 /\ tvParent = [p \in TvIds |-> NoParent]
            /\ tvAnswer = [state |-> "none", posts |-> <<>>]
    /\ IF part = "unified"
       THEN UnifiedTimelineInit /\ \A r \in utServer : r.acct = "a2" => r.post # 3
       ELSE /\ utServer = {} /\ utCache = {} /\ utKind = "timeline"
            /\ utNext = 1 /\ utTold = {} /\ utAnswer = [state |-> "none", posts |-> <<>>]
    /\ IF part = "sql_text" THEN SqlTextInit
       ELSE sqText = <<>> /\ sqVerdict = [state |-> "none", own |-> FALSE]
    /\ SqlConnectionsInit
    /\ (part # "sql_connections" => \A r \in ScReqs : scReq[r].kind = "query")
    /\ StatusActionsInit
    /\ IF part = "air" THEN AirContextInit
       ELSE /\ axPosts = {} /\ axMoment = 0 /\ axTop = 0 /\ axTarget = 1 /\ axCached = {}
            /\ axState = "start" /\ axCursor = AxPosts + 2 /\ axLeft = AxPages
            /\ axFound = AxNone /\ axViews = {}
    /\ IF part = "deletion" THEN PostDeletionInit
       ELSE /\ pdServer = {} /\ pdLocal = FALSE /\ pdCache = {} /\ pdPages = {} /\ pdReads = 0
            /\ pdKnown = FALSE /\ pdState = "idle" /\ pdRemote = NoCopy /\ pdHook = NoCopy
            /\ pdHooks = {} /\ pdTargets = <<>> /\ pdFailed = FALSE /\ pdAsked = 0
            /\ pdSaved = {} /\ pdLost = {}
    /\ IF part = "notice_sync" THEN NotificationSyncInit
       ELSE /\ nsThere = 0 /\ nsOldestFirst = FALSE /\ nsStored = {} /\ nsPosts = {}
            /\ nsHigh = 0 /\ nsPage = <<>> /\ nsTodo = <<>> /\ nsStream = <<>>
            /\ nsStarts = 0 /\ nsBeyond = {}
    /\ IF part = "layout" THEN ColumnLayoutInit
       ELSE /\ clAsked = <<>> /\ clRows = <<>> /\ clSigned = {} /\ clStep = "sent"
            /\ clHanded = FALSE
    /\ StreamQuotesInit
    /\ StreamViewInit

\* The other parts stand still.
Only(p) ==
    /\ part = p /\ UNCHANGED part
    /\ IF p = "sync" THEN TRUE ELSE UNCHANGED syncVars
    /\ IF p = "search" THEN TRUE ELSE UNCHANGED ixVars
    /\ IF p = "merge" THEN TRUE ELSE UNCHANGED mergeVars
    /\ IF p = "quotes" THEN TRUE ELSE UNCHANGED quoteVars
    /\ IF p = "parse" THEN TRUE ELSE UNCHANGED kqQuery
    /\ IF p = "evaluate" THEN TRUE ELSE UNCHANGED kqVars
    /\ IF p = "plugins" THEN TRUE ELSE UNCHANGED plugVars
    /\ IF p = "plugin_jobs" THEN TRUE ELSE UNCHANGED jobVars
    /\ IF p = "toggles" THEN TRUE ELSE UNCHANGED togVars
    /\ IF p = "posts" THEN TRUE ELSE UNCHANGED repoVars
    /\ IF p = "subjects" THEN TRUE ELSE UNCHANGED subVars
    /\ IF p = "recovery" THEN TRUE ELSE UNCHANGED frVars
    /\ IF p = "health" THEN TRUE ELSE UNCHANGED hwVars
    /\ IF p = "polling" THEN TRUE ELSE UNCHANGED bpVars
    /\ IF p = "notices" THEN TRUE ELSE UNCHANGED npVars
    /\ IF p = "scan" THEN TRUE ELSE UNCHANGED tsVars
    /\ IF p = "plan" THEN TRUE ELSE UNCHANGED spVars
    /\ IF p = "gaps" THEN TRUE ELSE UNCHANGED tgVars
    /\ IF p = "budget" THEN TRUE ELSE UNCHANGED rbVars
    /\ IF p = "socket" THEN TRUE ELSE UNCHANGED mkVars
    /\ IF p = "login" THEN TRUE ELSE UNCHANGED lgVars
    /\ IF p = "requests" THEN TRUE ELSE UNCHANGED rqVars
    /\ IF p = "migrations" THEN TRUE ELSE UNCHANGED mgVars
    /\ IF p = "accounts" THEN TRUE ELSE UNCHANGED acVars
    /\ IF p \in {"uploads", "drops", "downloads"} THEN TRUE ELSE UNCHANGED <<upVars, dlVars>>
    /\ IF p = "terms" THEN TRUE ELSE UNCHANGED stVars
    /\ IF p = "startup" THEN TRUE ELSE UNCHANGED btVars
    /\ IF p = "settings" THEN TRUE ELSE UNCHANGED sgVars
    /\ IF p = "cache_notices" THEN TRUE ELSE UNCHANGED cnVars
    /\ IF p = "thread" THEN TRUE ELSE UNCHANGED tvVars
    /\ IF p = "unified" THEN TRUE ELSE UNCHANGED utVars
    /\ IF p = "sql_text" THEN TRUE ELSE UNCHANGED sqVars
    /\ IF p = "sql_connections" THEN TRUE ELSE UNCHANGED scVars
    /\ IF p = "actions" THEN TRUE ELSE UNCHANGED saVars
    /\ IF p = "air" THEN TRUE ELSE UNCHANGED axVars
    /\ IF p = "deletion" THEN TRUE ELSE UNCHANGED pdVars
    /\ IF p = "notice_sync" THEN TRUE ELSE UNCHANGED nsVars
    /\ IF p = "layout" THEN TRUE ELSE UNCHANGED clVars
    /\ IF p = "stream_quotes" THEN TRUE ELSE UNCHANGED stqVars
    /\ IF p = "stream_view" THEN TRUE ELSE UNCHANGED svVars

Next ==
    \/ Only("sync") /\ SyncNext
    \/ Only("search") /\ SearchNext
    \/ Only("merge") /\ MergeNext
    \/ Only("quotes") /\ QuoteNext
    \/ Only("evaluate") /\ EvalNext
    \/ Only("plugins") /\ PluginNext
    \/ Only("plugin_jobs") /\ JobsNext
    \/ Only("toggles") /\ ToggleNext
    \/ Only("posts") /\ RepoNext
    \/ Only("subjects") /\ SubjectNext
    \/ Only("recovery") /\ RecoveryNext
    \/ Only("health") /\ HealthNext
    \/ Only("polling") /\ PollingNext
    \/ Only("notices") /\ NoticesNext
    \/ Only("scan") /\ ScanNext
    \/ Only("plan") /\ PlanSources
    \/ Only("gaps") /\ GapsNext
    \/ Only("budget") /\ BudgetNext
    \/ Only("socket") /\ SocketNext
    \/ Only("login") /\ LoginNext
    \/ Only("requests") /\ RequestsNext
    \/ Only("migrations") /\ MigrationsNext
    \/ Only("accounts") /\ AccountSetNext
    \/ Only("uploads") /\ ((UploadsNext /\ UNCHANGED dlVars) \/ StopFiles)
    \/ Only("drops") /\ ((DropsNext /\ UNCHANGED dlVars) \/ StopFiles)
    \/ Only("downloads") /\ ((MediaDownloadsNext /\ UNCHANGED upVars) \/ StopFiles)
    \/ Only("startup") /\ StartupNext
    \/ Only("settings") /\ SettingsStoreNext
    \/ Only("cache_notices") /\ CacheNoticesNext
    \/ Only("thread") /\ ThreadViewNext
    \/ Only("unified") /\ UnifiedTimelineNext
    \/ Only("sql_text") /\ SqlTextNext
    \/ Only("sql_connections") /\ SqlConnectionsNext
    \/ Only("actions") /\ StatusActionsNext
    \/ Only("air") /\ AirContextNext
    \/ Only("deletion") /\ PostDeletionNext
    \/ Only("notice_sync") /\ NotificationSyncNext
    \/ Only("layout") /\ ColumnLayoutNext
    \/ Only("stream_quotes") /\ StreamQuotesNext
    \/ Only("stream_view") /\ StreamViewNext

vars == <<part, syncVars, ixVars, mergeVars, quoteVars, kqQuery, kqVars, plugVars,
          jobVars,
          togVars,
          repoVars,
          subVars,
          frVars,
          hwVars,
          bpVars,
          npVars,
          tsVars,
          spVars,
          tgVars,
          rbVars,
          mkVars,
          lgVars,
          rqVars,
          mgVars,
          acVars,
          upVars,
          dlVars,
          stVars,
          btVars,
          sgVars,
          cnVars,
          tvVars,
          utVars,
          sqVars,
          scVars,
          saVars,
          axVars,
          pdVars,
          nsVars,
          clVars,
          stqVars,
          svVars>>

Spec == Init /\ [][Next]_vars

\* Queries of columns and searches (kq_filter.rs, kq_evaluator.rs, kq_source_plan.rs,
\* custom_timeline.rs, icu_search.rs): the parser keeps their meaning, the types it infers are
\* those of the values, what it says the evaluator reads is enough, one viewer's flags never
\* stand for another's, the plan reads no less than the filter accepts, of SQL only code
\* decides, under the limits of its own request, and a search term finds the posts beside the
\* index and those in it alike.
QueriesMeanWhatTheySay ==
    /\ part = "parse" => QueryMeansWhatItSays
    /\ part = "evaluate" => TypesPredictValues /\ RequirementsSuffice /\ ScopesNeverMix
    /\ part = "plan" => PlanIsASuperset /\ PlanModesAgree
    /\ part = "sql_text" => OnlyCodeDecides /\ CustomPagesTile
    /\ part = "sql_connections" => LimitsStayWithTheirRequest
    /\ part = "terms" => AnswersSurviveIndexing /\ RecentPostsMatchAlike /\ LongTermsAreShown /\ EveryTermCounts

\* Pages of columns (timeline_service.rs, kq_timeline.rs, yq_timeline.rs, read_models.rs,
\* desktop.rs, timeline.rs): consecutive pages have neither holes nor repeats, a gap marker
\* leads to what is missing below it, a thread and a reaction's context are whole, the acting
\* account's copy of a post is the one shown, one failing source hides nothing of the others,
\* and a column that follows streams keeps what they told and what its page brought.
PagesTile ==
    /\ part = "scan" => PagesHaveNoHoles /\ PagesAreInOrder
    /\ part = "gaps" => MarkersLeadToHistory
    /\ part = "thread" => ThreadIsWhole /\ RepliesFollow
    /\ part = "unified" => UnitedPagesTile /\ OwnCopyIsShown /\ OneFailureHidesNothing
    /\ part = "air" => FirstPostAfterIsShown
    /\ part = "stream_view" => StreamedPostsStay /\ ShownPostsAreCurrent


\* What the user is told holds (api and provider endpoints, pool.rs, settings.rs, preferences.rs,
\* settingsMutations.ts): the answer to a favourite, boost or follow is what the provider holds,
\* a keyed post stands once and its thread has one root, no write is sent twice by the retries
\* and these keep their distance, a start cut off between migrations is resumed by the next one
\* and a repaired database is like a new one, what the settings page says is saved is stored,
\* and a layout that was accepted comes back and can be saved again.
WhatIsToldHolds ==
    /\ part = "toggles" => AnswerIsTrue /\ PersonAnswerIsTrue
    /\ part = "posts" => KeyedPostStandsOnce /\ ThreadsHaveOneRoot /\ ContextIsTheThread
    /\ part = "requests" => WritesAreSentOnce /\ RetriesAreSpaced /\ RetryAfterIsKept
    /\ part = "migrations" => InterruptedStartsResume /\ RepairedIsLikeNew
    /\ part = "settings" => SavedIsStored /\ DraftsAreSent /\ LoggingIsStored
    /\ part = "layout" => AcceptedLayoutComesBack /\ ShownLayoutIsSavable

\* Steps on data: a completed reconciliation leaves the provider's flags and entries, closing a
\* pane aborts no quote lookup somebody else waits for, a plugin's queued callback is lost by
\* no cut of its turn and fires in the order of the instants, no fetch outlives the deadline of
\* its callback, knowing more about a post ends no match, polling removes only posts the
\* provider deleted, a marker never stands for posts the column does not show, an expired drop
\* is not read, no file of the download folder is replaced, a query its user cancelled is not
\* called too expensive, a reserved draft is not overwritten, an answer of a document that was
\* replaced changes nothing, and only a page that was watched long enough is reloaded.
StepsLoseNothing ==
    [][/\ part = "sync" => ReconcileConverges
       /\ part = "quotes" => SharedJobSurvivesPane
       /\ part = "plugin_jobs" =>
             (JobsTypeOK /\ FetchEndsInTime)' /\ JobsRunOrStay /\ TimersInOrder
       /\ part = "evaluate" => KnowingMoreKeepsMatches
       /\ part = "polling" => OnlyDeletedPostsAreRemoved
       /\ part = "gaps" => MarkedPostsAreShown
       /\ part = "drops" => DropsExpire
       /\ part = "downloads" => NothingIsReplaced
       /\ part = "sql_connections" => StopReasonIsTold
       /\ part = "recovery" => ReservedDraftIsKept
       /\ part = "health" => StaleAnswersAreIgnored /\ OnlyWatchedPagesAreReloaded]_vars
=============================================================================
