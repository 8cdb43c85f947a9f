----------------------------- MODULE SkillStore -----------------------------
(* Extensions of the agent: skills installed from GitHub or written by hand, plugins, MCP   *)
(* servers (engine/extensions). Sources and paths are sequences of segments, a SKILL.md is  *)
(* the sequence of its front-matter lines, a content is a fingerprint; GitHub and the       *)
(* claude CLI are external. The publish phase of an install is a step relation on the       *)
(* skills directory, so that concurrent calls can be interleaved.                           *)
EXTENDS Naturals, Sequences, SequencesExt, FiniteSets

CONSTANTS MaxFiles, MaxFileBytes, MaxTotalBytes     \* caps of a plan

LOCAL Last0(s) == s[Len(s)]

-----------------------------------------------------------------------------
(* Sources *)

\* A source: an owner, a repository, and what follows; "url" tells the two spellings apart.
\* Of the URL form every split of the rest into branch and path is a candidate, the longest
\* branch first; the short form has a path on the default branch.
parse_github_source(src) ==
    LET Ref(branch, path) ==
            [owner |-> src.owner, repo |-> src.repo, branch |-> branch, path |-> path]
        n == Len(src.rest)
    IN  IF n = 0 THEN <<Ref(<<"HEAD">>, <<>>)>>
        ELSE IF ~src.url THEN <<Ref(<<"HEAD">>, src.rest)>>
        ELSE IF Head(src.rest) \notin {"tree", "blob"} THEN <<>>
        ELSE [i \in 1..(n - 1) |-> Ref(SubSeq(src.rest, 2, n - i + 1), SubSeq(src.rest, n - i + 2, n))]

\* The identity of a source is its first candidate: two spellings of one repository agree.
source_key(src) == IF parse_github_source(src) = <<>> THEN <<>> ELSE Head(parse_github_source(src))

\* The branch does not count for the target of an install.
same_install_target(a, b) ==
    /\ <<>> \notin {source_key(a), source_key(b)}
    /\ \A f \in {"owner", "repo", "path"} : source_key(a)[f] = source_key(b)[f]

\* The configured list: <<"missing">> seeds the default, <<"corrupt">> reads as the default
\* and is never written over.
read_sources(file, default) == IF file[1] = "ok" THEN file[2] ELSE <<default>>

add_source(file, src, default) ==
    IF source_key(src) = <<>> \/ file[1] = "corrupt" THEN file
    ELSE LET list == read_sources(file, default)
         IN  IF \E i \in DOMAIN list : source_key(list[i]) = source_key(src) THEN file
             ELSE <<"ok", Append(list, src)>>

remove_source(file, src, default) ==
    IF file[1] = "corrupt" THEN file
    ELSE LET list == read_sources(file, default)
             kept == SelectSeq(list, LAMBDA s : s # src /\ source_key(s) # source_key(src))
         IN  IF kept = list THEN file ELSE <<"ok", kept>>

\* What a change of the list drops from the scans kept in memory.
invalidate_source_cache(cache, src) ==
    [s \in {k \in DOMAIN cache : k # src /\ source_key(k) # source_key(src)} |-> cache[s]]

-----------------------------------------------------------------------------
(* What is installed *)

\* The candidate that exists is pinned to its commit; commit[ref] is 0 where there is none.
resolve(src, commit) ==
    LET found == SelectSeq(parse_github_source(src), LAMBDA r : commit[r] # 0)
    IN  IF found = <<>> THEN <<>> ELSE <<[Head(found) EXCEPT !.branch = commit[Head(found)]]>>

Under(path, entries) == SelectSeq(entries, LAMBDA e : IsStrictPrefix(path, e.path) /\ e.kind # "tree")
SkillName(ref) == IF ref.path = <<>> THEN ref.repo ELSE Last0(ref.path)

PlanBytes(es) == FoldSeq(LAMBDA e, n : n + e.size, 0, es)

\* plan_from_tree: the files under the path, or no plan at all.
plan_from_tree(tree, ref, ValidName) ==
    LET es == Under(ref.path, tree.entries)
        ok == /\ ~tree.truncated
              /\ \A i \in DOMAIN es : es[i].kind = "blob" /\ es[i].size <= MaxFileBytes
              /\ \E i \in DOMAIN es : es[i].path = Append(ref.path, "SKILL.md")
              /\ Len(es) <= MaxFiles /\ PlanBytes(es) <= MaxTotalBytes
              /\ SkillName(ref) \in ValidName
    IN  IF ok THEN <<[name |-> SkillName(ref), files |-> es]>> ELSE <<>>

\* The fingerprint of every directory of a tree, the root's its own.
dir_tree_shas(tree) ==
    LET dirs == {tree.entries[i] : i \in {j \in DOMAIN tree.entries : tree.entries[j].kind = "tree"}}
    IN  [p \in {d.path : d \in dirs} \cup {<<>>} |->
            IF p = <<>> THEN tree.sha ELSE (CHOOSE d \in dirs : d.path = p).sha]

\* The first name line is made the name of the directory; a missing one is left missing.
FirstName(fm) == SelectInSeq(fm, LAMBDA l : l[1] = "name")
normalize_skill_md(fm, dir) == IF FirstName(fm) = 0 THEN fm ELSE [fm EXCEPT ![FirstName(fm)] = <<"name", dir>>]

\* list_skills: the first name line counts, else the name of the directory.
ListedName(fm, dir) ==
    IF FirstName(fm) = 0 \/ fm[FirstName(fm)][2] = "" THEN dir ELSE fm[FirstName(fm)][2]

\* add_skill: a directory of its own, a name line and a description.
add_skill(dir, description) == <<<<"name", dir>>, <<"description", description>>>>

\* One entry per directory with a SKILL.md at or under the source, to be installed by its path
\* on the default branch.
scan_source(src, ref, tree) ==
    LET shas == dir_tree_shas(tree)
        mds == {i \in DOMAIN tree.entries :
                    tree.entries[i].kind = "blob" /\ IsStrictPrefix(ref.path, tree.entries[i].path)
                    /\ Last0(tree.entries[i].path) = "SKILL.md"}
    IN  {LET dir == Front(tree.entries[i].path)
         IN  [name |-> SkillName([ref EXCEPT !.path = dir]), from |-> src,
              source |-> [owner |-> ref.owner, repo |-> ref.repo, rest |-> dir, url |-> FALSE],
              sha |-> IF dir \in DOMAIN shas THEN shas[dir] ELSE 0] : i \in mds}

\* fetch_catalog: a scan that fails is an error of its source only; one in memory and young
\* enough is not made again. scan[s] is <<>> on failure.
fetch_catalog(sources, cache, refresh, scan) ==
    LET list == {sources[i] : i \in DOMAIN sources}
        old == IF refresh THEN {} ELSE {s \in list \cap DOMAIN cache : cache[s].young}
        Found(s) == IF s \in old THEN <<cache[s].entries>> ELSE scan[s]
    IN  [entries |-> UNION {Found(s)[1] : s \in {t \in list : Found(t) # <<>>}},
         errors |-> {s \in list : Found(s) = <<>>}]

\* Whether the store has another version than the one installed from the same source;
\* installed[name] is <<>> where no metadata is.
update_available(e, installed) ==
    LET meta == installed[e.name]
    IN  IF e.sha = 0 \/ meta = <<>> \/ meta[1].sha = 0 \/ ~same_install_target(meta[1].source, e.source)
        THEN "unknown" ELSE IF meta[1].sha # e.sha THEN "yes" ELSE "no"

-----------------------------------------------------------------------------
(* Plugins and the list of components *)

\* The switches a session gets: forced on, else not hidden and on globally; a name that is
\* not installed is still passed on.
resolve_enabled_plugins(installed, hidden, forced, globally) ==
    [p \in installed \cup hidden \cup forced |->
        p \in forced \/ (p \in installed /\ p \in globally /\ p \notin hidden)]

\* A server that is in both parts of the file is an enabled one.
list_user_mcp_servers(enabled, disabled) ==
    {[kind |-> "mcp", id |-> n, on |-> n \in enabled] : n \in enabled \cup disabled}

list_components(skills, plugins, enabled, disabled, globally) ==
    {[kind |-> "skill", id |-> s, on |-> s \in globally] : s \in skills}
    \cup {[kind |-> "plugin", id |-> p, on |-> p \in globally] : p \in plugins}
    \cup list_user_mcp_servers(enabled, disabled)

\* The claude CLI is run with a time limit; what it did before the limit stays done.
run_plugin_command(installed, p, install, outcome) ==
    LET after == IF install THEN installed \cup {p} ELSE installed \ {p}
    IN  IF outcome = "ok" THEN {after} ELSE {installed, after}

-----------------------------------------------------------------------------
(* Calls on one name: write_skill_files, add_skill and delete_skill. A directory is named   *)
(* for the call that makes it, 0 is none; what it holds is "none" before it is made,        *)
(* "empty", "part" of its files, the "whole" skill, or "mixed" with a file of another call. *)
(* Every operation of the file system may fail; a removal that fails leaves part.           *)

StoreInit(Calls, kind, there) ==
    [kind |-> kind, pc |-> [c \in Calls |-> "start"], lock |-> 0, target |-> there, first |-> there,
     tmp |-> [c \in Calls |-> 0], old |-> [c \in Calls |-> 0],
     holds |-> [v \in Calls \cup {there} |-> IF v = there THEN "whole" ELSE "none"]]

At(d, c, pc) == [d EXCEPT !.pc[c] = pc]

\* rename puts a directory under the name if none is there, or one without files.
Free(d) == d.target = 0 \/ d.holds[d.target] = "empty"

\* A failed call removes its own directory, if it can, and gives the lock back.
Over(d, c, pc) ==
    {[At(d, c, pc) EXCEPT !.lock = 0, !.tmp[c] = left] : left \in {0, d.tmp[c]}}

\* The lock is taken; a name that is there is refused unless this is an update.
Enter(d, c) ==
    IF d.lock # 0 THEN {}
    ELSE IF d.target # 0 /\ d.kind[c] # "update" THEN {At(d, c, "refused")}
    ELSE {[At(d, c, "write") EXCEPT !.lock = c]}

\* The files go to a directory of the call's own.
WriteFiles(d, c) ==
    {[At(d, c, "park") EXCEPT !.tmp[c] = c, !.holds[c] = "whole"]}
    \cup Over([d EXCEPT !.tmp[c] = c, !.holds[c] = "part"], c, "failed")

\* An update puts the old version aside; without one it goes on.
Park(d, c) ==
    IF d.kind[c] = "update" /\ d.target # 0
    THEN {[At(d, c, "publish") EXCEPT !.old[c] = d.target, !.target = 0]} \cup Over(d, c, "failed")
    ELSE {At(d, c, "publish")}

\* One rename publishes the directory, and the old version is removed if it can be; where the
\* rename fails, the old version is to be put back.
Publish(d, c) ==
    (IF d.old[c] # 0 THEN {At(d, c, "restore")} ELSE Over(d, c, "failed"))
    \cup IF Free(d)
         THEN {[At(d, c, "done") EXCEPT !.target = c, !.lock = 0, !.tmp[c] = 0, !.old[c] = left] :
                  left \in {0, d.old[c]}}
         ELSE {}

\* An update that does not put the old version back.
RestoreDropped(d, c) == Over(d, c, "failed")

\* The old version is put back if that rename succeeds; the error of this one is ignored.
Restore(d, c) ==
    Over(d, c, "unrestored")
    \cup IF Free(d) THEN Over([d EXCEPT !.target = d.old[c], !.old[c] = 0], c, "failed") ELSE {}

\* add_skill takes no lock: it looks, makes the directory or finds one made meanwhile, and
\* writes its one file, over another's if there is one.
AddLook(d, c) == {At(d, c, IF d.target # 0 THEN "refused" ELSE "mkdir")}
AddMakeDir(d, c) ==
    {At(d, c, "failed"),
     IF d.target # 0 THEN At(d, c, "fill")
     ELSE [At(d, c, "fill") EXCEPT !.target = c, !.holds[c] = "empty"]}
AddWriteFile(d, c) ==
    {At(d, c, "failed")}
    \cup IF d.target = 0 THEN {}
         ELSE {[At(d, c, "failed") EXCEPT !.holds[d.target] = "part"],
               [At(d, c, "done") EXCEPT
                   !.holds[d.target] = IF d.holds[d.target] = "empty" THEN "whole" ELSE "mixed"]}

\* delete_skill takes no lock either: it looks, resolves the path, removes the files of the
\* directory it finds there, then the directory of that name if it has no files.
DeleteLook(d, c) == {At(d, c, IF d.target = 0 THEN "absent" ELSE "resolve")}
DeleteResolve(d, c) == {At(d, c, "failed")} \cup IF d.target = 0 THEN {} ELSE {At(d, c, "remove")}
DeleteFiles(d, c) ==
    {At(d, c, "failed")}
    \cup IF d.target = 0 THEN {}
         ELSE {[At(d, c, "failed") EXCEPT !.holds[d.target] = "part"],
               [At(d, c, "rmdir") EXCEPT !.holds[d.target] = "empty"]}
DeleteDir(d, c) ==
    {At(d, c, "failed")}
    \cup IF d.target = 0 THEN {At(d, c, "done")}
         ELSE IF d.holds[d.target] = "empty" THEN {[At(d, c, "done") EXCEPT !.target = 0]}
         ELSE {}

FirstStep(d, c) ==
    IF d.kind[c] = "delete" THEN DeleteLook(d, c)
    ELSE IF d.kind[c] = "add" THEN AddLook(d, c) ELSE Enter(d, c)

StoreSteps(d) ==
    UNION {CASE d.pc[c] = "start" -> FirstStep(d, c)
             [] d.pc[c] = "write" -> WriteFiles(d, c)
             [] d.pc[c] = "park" -> Park(d, c)
             [] d.pc[c] = "publish" -> Publish(d, c)
             [] d.pc[c] = "restore" -> Restore(d, c)
             [] d.pc[c] = "mkdir" -> AddMakeDir(d, c)
             [] d.pc[c] = "fill" -> AddWriteFile(d, c)
             [] d.pc[c] = "resolve" -> DeleteResolve(d, c)
             [] d.pc[c] = "remove" -> DeleteFiles(d, c)
             [] d.pc[c] = "rmdir" -> DeleteDir(d, c)
             [] OTHER -> {} : c \in DOMAIN d.pc}

\* Why a name may have no skill when no call holds the lock: a call deleted it; there was none
\* and no call brought one; an update could neither publish nor put back what it had put aside.
Missing(d) ==
    \/ \E c \in DOMAIN d.pc : d.kind[c] = "delete" /\ d.pc[c] = "done"
    \/ d.first = 0 /\ \A c \in DOMAIN d.pc : d.pc[c] # "done"
    \/ \E c \in DOMAIN d.pc : d.pc[c] = "unrestored" /\ d.old[c] # 0

\* The skill is there unless it may be missing; and as long as nobody adds or deletes it by
\* hand, what is there is one version with all its files.
StoreWhole(d) ==
    /\ d.lock = 0 /\ d.target = 0 => Missing(d)
    /\ d.target # 0 /\ d.holds[d.target] # "whole" =>
          \E c \in DOMAIN d.pc : d.kind[c] \in {"add", "delete"} /\ d.pc[c] # "start"

\* skill_install.rs:390, an update whose publication fails restores the old version: while no
\* call deletes it, a skill that was there is there whenever no call holds the lock.
NeverHalfUpdated(d) ==
    d.lock = 0 /\ d.first # 0 /\ (\A c \in DOMAIN d.pc : d.kind[c] # "delete") => d.target # 0

\* skills.rs:14, add_skill answers AlreadyExists if the directory exists: no skill gets a file
\* of another.
AddRefusesExisting(d) == \A v \in DOMAIN d.holds : d.holds[v] # "mixed"
=============================================================================
