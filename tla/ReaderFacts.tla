----------------------------- MODULE ReaderFacts -----------------------------
(* What the pure readers compute, decided by TLC over every small input: each assumption    *)
(* compares the operator that models a function with what its callers rely on.              *)
EXTENDS ModelRouting, WorkflowJournal, DiffView, LogReaders, SkillStore, Store, HttpApi

CONSTANTS MaxEdit, MaxText, MaxLog      \* bounds on the inputs

Upto(n, S) == UNION {[1..k -> S] : k \in 0..n}

Log(type, text) == [type |-> type, text |-> text, tool |-> "", name |-> <<>>, body |-> <<>>,
                    model |-> "", msgid |-> FALSE]

-----------------------------------------------------------------------------
(* The catalog of models *)

Families == {"opus", "haiku"}
Models == {[id |-> <<"claude", f, v>>, family |-> f] : f \in Families, v \in {"5", "4"}}
Edits(f) == {family_default_metrics(f), [family_default_metrics(f) EXCEPT !.enabled = FALSE]}
Natives ==
    {candidates_from(ms, [f \in {"opus"} |-> o]) :
        ms \in {m \in Upto(3, Models) : IsInjective(m)}, o \in Edits("opus")}
Registered ==
    [name : {<<"glm">>}, model : {<<"glm">>}, family : {""}, capability : {15}, cost : {4},
     priority : {10}, enabled : BOOLEAN, keyed : BOOLEAN, anthropic : BOOLEAN, router : BOOLEAN]

\* providers.rs:456, delegate.rs:884: a family is offered by its newest model only; a batch is
\* refused exactly if the user has switched off every model there is; else no task that
\* names no model runs on one that is switched off, nor on a provider that has no key, or
\* whose proxy is not there.
ASSUME CatalogHonest ==
    \A natives \in Natives, p \in Registered, proxy \in BOOLEAN :
        LET all == all_candidates(<<p>>, natives, proxy)
            worker == WorkerModel(<<NoModel>>, 1, all, 10, <<[task |-> 1, model |-> <<"glm">>]>>)
        IN  /\ IsInjective([i \in DOMAIN natives |-> natives[i].family])
            /\ Refused(all) <=> all # <<>> /\ \A i \in DOMAIN all : ~all[i].enabled
            /\ worker = <<>> <=> Refused(all) \/ all = <<>>
            /\ worker # <<>> => worker[1].enabled
            /\ env_overlay(worker) = "proxy" => proxy /\ p.keyed /\ ~p.anthropic
            /\ env_overlay(worker) = "endpoint" => p.keyed /\ p.anthropic

\* router.rs:37: the router's calls go to a provider that can answer them, flagged by the user
\* where one is flagged, and nowhere when routing is off.
ASSUME RouterIsEligible ==
    \A p, q \in Registered, off \in BOOLEAN, named \in {NoModel, <<"glm">>} :
        LET reg == <<p, q>>
            r == router_provider(reg, off, named)
        IN  IF off THEN r = 0
            ELSE r # 0 => /\ reg[r].enabled /\ reg[r].keyed /\ reg[r].anthropic
                          /\ (p.router \/ q.router) => reg[r].router

-----------------------------------------------------------------------------
(* Workers *)

Chats == Upto(3, [role : {"user", "assistant", "result"}, text : {"", "x", "y"}, error : BOOLEAN])

\* delegate.rs:274, workflows.rs:480: the summary of a worker is the last thing its page shows
\* it said; a worker that said something has a summary, and a failed result is not hidden by
\* what was said.
ASSUME SummaryIsLastWord ==
    \A chat \in Chats :
        LET sum == extract_summary(chat)
            page == read_workflow_agent(chat)
            said == \E i \in DOMAIN chat : chat[i].role = "assistant" /\ chat[i].text # ""
        IN  /\ said => sum.text # "" /\ sum.text = Last(page).text /\ Last(page).role = "assistant"
            /\ sum.failed <=> \E i \in DOMAIN chat : chat[i].role = "result" /\ chat[i].error

\* workflows.rs:61: the list of a session reads its own directory wherever it is, and those of
\* the sessions in the same project; never those of another project.
ASSUME ScopedToProject ==
    \A slugs \in [{"p", "q"} -> SUBSET {"s", "t", "u"}], s \in {"s", "t", "u"} :
        LET seen == project_dirs(slugs, s) IN
        /\ s \in project_dirs(slugs, "") => s \in seen
        /\ \A t \in seen : \E p \in {"p", "q"} : {s, t} \subseteq slugs[p]

-----------------------------------------------------------------------------
(* Diffs *)

\* structured_diff.rs:405: the line numbers of the review screen are those of the two files,
\* and a cut diff is a front part of the whole one (see DiffView).
ASSUME LineNumbersTrue == \A edit \in Upto(MaxEdit, {"=", "+", "-"}) : NumbersTrue(edit)

\* structured_diff.rs:562: a new file is shown the same before git knows it and after.
ASSUME UntrackedLikeAdded ==
    \A n \in 1..(MaxDiffLines - 4) :
        LET raw == <<[k |-> "added"]>> \o GitText([i \in 1..n |-> "+"])
        IN  commit_diff_for_repo("working", TRUE, n, FALSE, <<>>) = commit_diff_for_repo("c1", FALSE, n, FALSE, raw)

NameLines == [letter : {"M", "A", "D", "R", "X"}, paths : {<<"a">>, <<"a", "b">>}]
CountLines == [path : {"a", "b"}, binary : BOOLEAN, adds : {1}, dels : {2}]

\* structured_diff.rs:348: each file that one of the three listings of git has is shown once,
\* an untracked one only in the working tree; a rename is shown under its new name.
ASSUME FilesComplete ==
    \A names \in Upto(2, NameLines), counts \in Upto(2, CountLines), sha \in {"working", "c1"} :
        LET shown == commit_files_for_repo(sha, names, counts, {"a", "c"})
            good == {i \in DOMAIN names : names[i].letter # "X"}
        IN  /\ DOMAIN shown = {Last(names[i].paths) : i \in good} \cup {counts[i].path : i \in DOMAIN counts}
                              \cup (IF sha = "working" THEN {"a", "c"} ELSE {})
            /\ \A i \in good : names[i].letter = "R" /\ (\A j \in good : j > i => names[j].paths # names[i].paths)
                    /\ names[i].paths = <<"a", "b">> => shown["b"].status = "Renamed"

\* structured_diff.rs:152: the three counts of the uncommitted changes are those of all the
\* entries of git status, and a commit is marked exactly if base..HEAD holds it.
ASSUME GraphCounts ==
    \A codes \in Upto(2, {"??", "A", "AM", "AD", "D", "MD", "M", "R"}), since \in SUBSET {"c1"} :
        LET labels == <<<<"HEAD ->", "main">>, <<"tag:", "v1">>, <<"origin", "main">>, <<"main">>>>
            g == commit_graph_for_repo(<<[sha |-> "c1", parents |-> <<>>, refs |-> labels]>>, since, codes)
        IN  /\ codes # <<>> => /\ g.uncommitted[1] + g.uncommitted[2] + g.uncommitted[3] = Len(codes)
                                /\ \A i \in 1..3 : g.uncommitted[i] >= 0
            /\ g.commits[1].isSession <=> since = {"c1"}
            /\ g.commits[1].refs = <<"Head", "Tag", "Remote", "Branch">>

-----------------------------------------------------------------------------
(* Logs and messages *)

\* search.rs:514: the snippet of a match shows the match, in wide characters too.
ASSUME SnippetShowsMatch == \A text \in Upto(MaxText, {"a", "b", "wide"}) : SnippetShows(text, <<"a", "b">>)

\* title.rs:115: a title is made from the end of the conversation, as much as fits.
ASSUME TitleFromTheEnd ==
    \A log \in Upto(MaxLog, {Log(k, x) : k \in {"agentic_prompt", "assistant"},
                                        x \in {<<>>, <<"a">>, <<"wide">>, <<"a", "wide", "a">>}}) :
        RecentIsTail(log)

Texts == {<<>>, <<"a", "b">>, <<"b", "b">>}
Call(body) == [Log("assistant", <<>>) EXCEPT !.tool = "Bash", !.body = body]
SearchedLogs == Upto(2, {Log("agentic_prompt", x) : x \in Texts} \cup {Call(x) : x \in Texts})
Session(n, title, log) ==
    [id |-> n, at |-> n, log |-> log,
     meta |-> [f \in {"Title", "Repo", "Branch", "SessionId", "Status", "Error"} |->
                   IF f = "Title" THEN title ELSE <<>>]]

\* search.rs:393: of two sessions that both match the list shows the one whose title or prompt
\* matches first, though the log of the other has more matches; a session that is not in a
\* list that is not full does not match at all.
ASSUME SearchFindsBest ==
    \A t \in Texts, p, q \in SearchedLogs :
        LET s == {Session(1, t, p), Session(2, <<>>, q)}
            query == <<"a", "b">>
            AskedFor(x) == ToSet(Matches(x, query)) \cap {"Title", "Prompt"} # {}
            list == search(s, query, 2)
        IN  /\ ToSet(list) = {x \in s : Matches(x, query) # <<>>}
            /\ Len(list) = 2 => (AskedFor(list[1]) \/ ~AskedFor(list[2]))
            /\ search(s, query, 1) = SubSeq(list, 1, Min({1, Len(list)}))

Answered == Upto(TitleMax + 1, {"a", "wide", "newline", "#"})

\* title_client.rs:233, :260: no answer of the model makes a title that is not acceptable of one
\* that is; the first title is the prompt or acceptable.
ASSUME TitlesStayGood ==
    \A a \in Answered, change \in BOOLEAN :
        /\ generate(a, <<"p">>) = <<"p">> \/ is_accepted_generated_title(generate(a, <<"p">>))
        /\ is_accepted_generated_title(maybe_retitle([change |-> change, title |-> a], <<"wide">>))

\* title_client.rs:311: a call without a token of the environment is made with the login the
\* command line has by then, though it was rotated or began after the server started.
ASSUME TokenIsCurrent ==
    \A env \in [bearer : {"", "b"}, apikey : {"", "k"}], before, now \in {"", "old", "new"} :
        LET token == TokenOfCall(env, before, now) IN
        /\ env.bearer = "" /\ env.apikey = "" /\ now # "" => token = now
        /\ token = "" => env.bearer = "" /\ env.apikey = "" /\ before = ""

Spoken == [Log("assistant", <<"a">>) EXCEPT !.model = "claude"]
Conversation ==
    {Log("agentic_prompt", <<"a">>), Log("user", <<"wide", "a">>), Log("assistant", <<"wide">>), Spoken,
     [Spoken EXCEPT !.msgid = TRUE], [Spoken EXCEPT !.model = "glm"]}

\* resume_gate.rs:30: a session a server answered once can be resumed for good; one that only
\* failed to reach it cannot.
ASSUME ResumableForGood ==
    \A log \in Upto(3, Conversation), l \in Conversation :
        /\ (\E i \in DOMAIN log : log[i].msgid) => transcript_is_resumable(Append(log, l))
        /\ (\A i \in DOMAIN log : log[i].model \in {"", "claude"} /\ ~log[i].msgid)
              => ~transcript_is_resumable(log)

\* transcript_filter.rs:4: the seed of a fork is a front part of what was said, cut between two
\* characters, as long as the cap allows; and it says whether it was cut.
ASSUME SeedIsFront ==
    \A log \in Upto(MaxLog, Conversation) :
        LET seed == filter_log_to_transcript(log)
            said == SelectSeq(log, LAMBDA l : l.type \in {"user", "assistant"})
            all == FlattenSeq([i \in DOMAIN said |-> said[i].text])
        IN  /\ IsPrefix(seed.text, all) /\ Bytes(seed.text) <= SeedMax
            /\ seed.truncated <=> seed.text # all
            /\ seed.truncated => Bytes(SubSeq(all, 1, Len(seed.text) + 1)) > SeedMax
            /\ count_user_turns(log) + Len(said) = Len(log)

\* classify_error.rs:4: only the exhausted window of a plan is what auto-resume waits for; an
\* answer that asks to slow down is not, whatever else it says.
ASSUME OnlyUsageIsResumed ==
    \A hints \in SUBSET {"rate", "usage", "other"} :
        classify_claude_error(hints) = "usage_limit" <=> "usage" \in hints /\ "rate" \notin hints

Ids == {<<"a", "b", "c", "d", "e">>, <<"a", "b", "c", "d", "f">>, <<"x", "b", "c", "d", "e">>}
Tokens == [prefix : {<<"a", "b", "c">>, <<"a", "b", "c", "d">>, <<"x", "b", "c", "d">>, <<"a", "b", "c", "d", "e">>},
           free : BOOLEAN]

\* mentions.rs:66: a mention is expanded once, however often it is made, to the sessions its
\* prefix fits, and a word that only contains one is not.
ASSUME MentionsExpandOnce ==
    \A tokens \in Upto(3, Tokens) :
        LET blocks == expand_session_mentions(tokens, Ids)
            meant == {tokens[i].prefix : i \in {j \in DOMAIN tokens : tokens[j].free /\ Len(tokens[j].prefix) >= 4}}
        IN  /\ IsInjective([i \in DOMAIN blocks |-> blocks[i].prefix])
            /\ {blocks[i].prefix : i \in DOMAIN blocks} = meant
            /\ \A i \in DOMAIN blocks, s \in Ids : s \in blocks[i].of <=> IsPrefix(blocks[i].prefix, s)

-----------------------------------------------------------------------------
(* Skills and plugins *)

Sources ==
    [owner : {"o", "p"}, repo : {"r"}, url : BOOLEAN,
     rest : {<<>>, <<"tree">>, <<"tree", "x">>, <<"tree", "x", "y">>, <<"s", "y">>}]

FrontMatters == UNION {[1..n -> {<<"name", "x">>, <<"name", "">>, <<"description", "x">>}] : n \in 0..3}

\* skill_install.rs:369: an installed skill is listed under the name of its directory, the one
\* it is deleted by, whatever the file said.
ASSUME SkillsAreManageable ==
    \A fm \in FrontMatters : ListedName(normalize_skill_md(fm, "dir"), "dir") = "dir"

\* skill_install.rs:733, :750: a list never has a repository twice, and removing a source in
\* any spelling of it takes it off.
ASSUME SourcesAreOnce ==
    \A a, b, c \in Sources :
        LET file == add_source(add_source(<<"ok", <<>>>>, a, c), b, c)
            keys == [i \in DOMAIN file[2] |-> source_key(file[2][i])]
        IN  /\ IsInjective(keys)
            /\ source_key(c) # <<>> =>
                  \A i \in DOMAIN remove_source(file, c, c)[2] :
                      source_key(remove_source(file, c, c)[2][i]) # source_key(c)

Blob(path, size) == [kind |-> "blob", path |-> path, size |-> size, sha |-> 1]
Dir(path, sha) == [kind |-> "tree", path |-> path, size |-> 0, sha |-> sha]
Trees ==
    {[truncated |-> cut, sha |-> 7,
      entries |-> <<Dir(<<"d", "x">>, sha), Blob(<<"d", "x", "SKILL.md">>, 1), Blob(<<"d", "x", "f">>, size),
                    Blob(<<"SKILL.md">>, 1)>>] :
        cut \in BOOLEAN, sha \in {2, 3}, size \in 1..(MaxFileBytes + 1)}
Pinned == {[owner |-> "o", repo |-> "r", url |-> u, rest |-> <<>>] : u \in BOOLEAN}

\* skill_install.rs:165, :460, :835: what the catalog offers resolves to the directory it was
\* found in; the plan of it is all of that directory, within the caps, or nothing; once it is
\* installed no update is offered until the directory changes, and then one is; a skill of
\* the same name at another place is no update of it.
ASSUME CatalogInstallsWhatItShows ==
    \A src \in Pinned, tree, later \in Trees :
        LET ref == source_key(src)
            commit == [r \in {[owner |-> "o", repo |-> "r", branch |-> <<"HEAD">>, path |-> p] :
                                   p \in {<<>>, <<"d", "x">>}} |-> 1]
        IN  /\ {e.name : e \in scan_source(src, ref, tree)} = {"r", "x"}
            /\ \A e \in scan_source(src, ref, tree) :
                LET at == resolve(e.source, commit)
                    plan == plan_from_tree(tree, at[1], {"r", "x"})
                    meta == [n \in {"r", "x"} |-> <<[sha |-> e.sha, source |-> e.source]>>]
                    again == {f \in scan_source(src, ref, later) : f.name = e.name}
                IN  /\ at # <<>> /\ SkillName(at[1]) = e.name
                    /\ plan # <<>> =>
                        /\ plan[1].name = e.name /\ ~tree.truncated
                        /\ \A i \in DOMAIN tree.entries : tree.entries[i].kind = "blob"
                               /\ IsStrictPrefix(at[1].path, tree.entries[i].path)
                                  => tree.entries[i] \in ToSet(plan[1].files)
                    /\ e.name = "x" => \A f \in again :
                        /\ (update_available(f, meta) = "yes") <=> (tree.entries[1].sha # later.entries[1].sha)
                        /\ update_available([f EXCEPT !.source.rest = <<"x">>], meta) = "unknown"

Scans == {<<>>, <<{"k"}>>}

\* skill_install.rs:719, :778: what is known of a source is forgotten with it: removed in any
\* spelling and added again it is scanned again, whatever was in memory; and a source that cannot be
\* scanned takes nothing from the others.
ASSUME CatalogForgets ==
    \A a, b \in Sources, young \in BOOLEAN :
        LET cache == [s \in {a} |-> [young |-> young, entries |-> {"old"}]]
            file == remove_source(<<"ok", <<a, b>>>>, b, a)
            left == read_sources(file, a)
            scan == [s \in {a, b} |-> <<>>]
            shown == fetch_catalog(<<a>>, invalidate_source_cache(cache, b), FALSE, scan)
        IN  /\ source_key(a) = source_key(b) => left = <<>> /\ shown.entries = {}
            /\ source_key(a) # source_key(b) => shown.entries = (IF young THEN {"old"} ELSE {})
            /\ \A f \in [{a, b} -> Scans] :
                  LET c == fetch_catalog(<<a, b>>, <<>>, TRUE, f) IN
                  /\ c.errors = {s \in {a, b} : f[s] = <<>>}
                  /\ (c.entries = {}) <=> (c.errors = {a, b})

Plugins == SUBSET {"p", "q"}

\* plugins.rs:39, sessions.rs:265: a request that passes the check gets each plugin as it asked,
\* and as the settings have it where it did not ask; a skill written by hand is listed under
\* its directory, a server that is in both parts of the file once and on, and a command
\* repeated after its time was up ends as wanted.
ASSUME SwitchesAsAsked ==
    \A installed, hidden, forced, globally \in Plugins :
        LET on == resolve_enabled_plugins(installed, hidden, forced, globally)
            listed == list_components({}, {}, installed, hidden, globally)
        IN  /\ validate_disjoint(hidden, forced) =>
                 /\ \A p \in hidden : ~on[p]
                 /\ \A p \in forced : on[p]
                 /\ \A p \in installed \ (hidden \cup forced) : on[p] <=> p \in globally
            /\ \A c, d \in listed : c.id = d.id => c = d
            /\ ListedName(add_skill("dir", "x"), "dir") = "dir"
            /\ \A first \in run_plugin_command(installed, "p", TRUE, "timeout") :
                  run_plugin_command(first, "p", TRUE, "ok") = {installed \cup {"p"}}

-----------------------------------------------------------------------------
(* Rows and requests *)

Inputs ==
    [repos : {<<>>, <<"r">>, <<"r", "s">>}, repo : {NULL, "", "r"}, base_sha : {NULL, 1},
     base_shas : {<<>>} \cup [{"r"} -> {NULL, 2}] \cup [{"r", "s"} -> {NULL, 2}],
     mode : {NULL, "ultra", "plan"}, group : {NULL}, now : {7}]

\* store.rs:205, :720: a session that is read back is the one its creation returned, but for the
\* mode, which is made uniform on reading, and the switches a NULL column stands for.
ASSUME CreatedIsRead ==
    \A in \in Inputs :
        LET made == create(in) IN
        /\ row_to_session(made) = [made EXCEPT !.mode = normalize_mode(@), !.auto_resume = TRUE]
        /\ row_to_session([made EXCEPT !.base_shas = NULL, !.repos = NULL]).repo = made.repo

\* store.rs:494, :509: an acknowledgement of an event never hides a later one, and two of them
\* count the same in either order.
ASSUME AcksNeverHide ==
    \A row \in [unread : 0..3, acked : 0..3], m, n \in 0..3 :
        /\ ack_event(ack_event(row, m), n) = ack_event(ack_event(row, n), m)
        /\ row.acked <= row.unread /\ n <= row.unread =>
              LET later == ack_event(incr_unread_event_id(row), n) IN later.unread > later.acked

Patches ==
    {[model |-> m] : m \in {"", "x"}} \cup {[group |-> g] : g \in {"", "g"}}
    \cup {[auto_resume |-> b] : b \in BOOLEAN} \cup {[auto_resume |-> b, group |-> "g"] : b \in BOOLEAN}
PatchedRow ==
    [model : {"m"}, effort : {"e"}, mode : {NULL}, permission_mode : {NULL}, group : {NULL, "h"},
     auto_resume : {TRUE}, auto_resume_at : {NULL, 5}]

\* sessions.rs:435, store.rs:11: a patch changes what it names, in the row it names, and tells
\* what is stored; a session that is not to be resumed has no schedule.
ASSUME PatchTellsTheRow ==
    \A row \in PatchedRow, body \in Patches :
        LET rows == [i \in {"s", "t"} |-> row]
            patch == patch_session(body)
            after == apply_update(rows, "s", patch)
        IN  /\ after.rows["t"] = row
            /\ after.returned = NULL => after.rows = rows
            /\ after.returned # NULL => after.returned = after.rows["s"]
            /\ ~after.rows["s"].auto_resume => after.rows["s"].auto_resume_at = NULL
            /\ after.rows["s"].model \in {"m", "x"}
            /\ apply_update(rows, "gone", patch) = [rows |-> rows, returned |-> NULL]

\* sessions.rs:137, transcript.rs:369: paging back from the tail shows every event, or line, of
\* a log once and reaches its start. A log starts with the prompt of its session.
ASSUME PagesCoverLog ==
    \A rest \in Upto(MaxText, {"event", "delta"}) : PagesCover(<<"event">> \o rest)

Bodies == [prompt : {"", "p"},
           servers : {{}} \cup {{d} : d \in [name : {"", "agentic", "n"}, command : {"absent", "blank", "c"}, url : {"absent", "u"}]},
           hidden : [{"plugins", "skills", "mcp"} -> {{}, {"x"}}], forced : [{"plugins", "skills", "mcp"} -> {{}, {"x"}}]]

\* sessions.rs:283: a session that is created has a prompt, no switch that is both on and off,
\* and no server under the name of the bridge's own; and a session that is not there is
\* not found, whatever else is wrong with the request.
ASSUME RefusedFirst ==
    /\ \A b \in Bodies : create_session(b) = 200 =>
          /\ b.prompt # "" /\ \A k \in DOMAIN b.hidden : b.hidden[k] \cap b.forced[k] = {}
          /\ \A d \in b.servers : d.name = "n" /\ (d.command = "c") # (d.url = "u")
    /\ \A result \in {"ok", "NotFound", "SourceUnhealthy", "Store", "Internal", "Busy"} :
          /\ post_message(FALSE, "", result) = 404 /\ rewind_route(FALSE, "absent", result) = 404
          /\ permission_route(FALSE, "maybe") = 404 /\ permission_route(TRUE, "maybe") = 400
          /\ post_message(TRUE, "p", result) = 200 <=> result = "ok"
=============================================================================
