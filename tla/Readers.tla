------------------------------- MODULE Readers -------------------------------
(* The readers whose input grows step by step, and the small stores of files and rows that  *)
(* several callers share: the catalog of models and the router's answer (ModelRouting), the *)
(* journal of workflow runs (WorkflowJournal), the skills directory (SkillStore), a file    *)
(* that is downloaded while it is rewritten (HttpApi), the groups (Store). A behaviour is   *)
(* of one of them (algo), which grows its input (inp) piece by piece, or steps its store.   *)
EXTENDS ModelRouting, WorkflowJournal, SkillStore, Store, HttpApi

CONSTANTS
    Offers,         \* of each place of the catalog, the entries it may have
    Tradeoffs,      \* the tradeoffs of cost and quality
    Answers,        \* what the router may answer
    WorkflowRun,    \* workflow runs
    Workers,        \* their agents
    Failures,       \* who of them may have failed
    MaxWrites,      \* bound on the writes to a journal
    SkillCall,      \* calls on one skill name
    Versions,       \* what may be there before them, 0 for nothing
    FileLengths,    \* the lengths of the versions of a file
    Adopter,        \* calls that adopt a session
    MaxEdits        \* bound on the edits of groups

\* The values of an entry are fractions, clamped to 0..Scale (misc.rs:490, routing_config.rs), and
\* a model has a name (misc.rs:512).
ASSUME OffersAssumption ==
    /\ Len(Offers) \in Nat /\ DOMAIN Offers = 1..Len(Offers)
    /\ \A i \in DOMAIN Offers : \A p \in Offers[i] :
           /\ p.capability \in Int /\ p.cost \in Int /\ p.priority \in Int
           /\ p.enabled \in BOOLEAN /\ p.model # NoModel
    /\ Tradeoffs \subseteq Int

ASSUME JournalAssumption ==
    MaxWrites \in Nat /\ IsFiniteSet(Workers) /\ "" \notin Workers /\ \A f \in Failures : DOMAIN f \subseteq Workers

\* A directory of a skill is named for the call that makes it.
ASSUME SkillAssumption == SkillCall \subseteq Nat \ {0} /\ Versions \subseteq Nat \ SkillCall

ASSUME FileAssumption == FileLengths \subseteq Seq(Nat) \ {<<>>}

VARIABLES algo, inp

readers_vars == <<algo, inp>>

\* Calls on one skill name, which may be there already.
StoreStarts ==
    {StoreInit(SkillCall, kind, there) :
        kind \in [SkillCall -> {"install", "update", "add", "delete"}], there \in Versions}

ReadersInit ==
    \/ algo \in {"routing", "journal"} /\ inp = <<>>
    \/ algo = "skills" /\ inp \in StoreStarts
    \/ algo = "downloads" /\ inp \in {DownloadInit(lens) : lens \in FileLengths}
    \/ algo = "groups" /\ inp = GroupsInit(Adopter)

\* A catalog, a tradeoff, an answer of the router.
RoutingStep ==
    /\ algo = "routing" /\ UNCHANGED algo
    /\ \/ Len(inp) < Len(Offers) /\ \E p \in Offers[Len(inp) + 1] : inp' = Append(inp, p)
       \/ Len(inp) = Len(Offers) /\ \E t \in Tradeoffs : inp' = Append(inp, t)
       \/ Len(inp) = Len(Offers) + 1 /\ \E r \in Answers : inp' = Append(inp, r)

\* What delegate.rs writes to the journal of a run, and what claude writes to those of its own:
\* files in any order, summaries that are not whole yet.
Writes(r) ==
    {mark_agent_done(r, w) : w \in Workers}
    \cup (UNION {{write_summary(r, s, failed) : failed \in Failures} : s \in {"done", "failed"}})
    \cup {<<JournalWrite("meta", r, w, "")>> : w \in Workers}
    \cup {<<JournalWrite("line", r, w, "started")>> : w \in Workers}
    \cup {<<JournalWrite("run", r, "", "")>>}
    \cup (IF Summary(inp, r) = <<>> THEN {<<JournalWrite("part", r, "", "")>>} ELSE {})
    \cup (IF r \notin Runs(inp)
          THEN {start_live_run(r, order) : order \in SetToSeqs(Workers)} ELSE {})

JournalStep ==
    /\ algo = "journal" /\ UNCHANGED algo
    /\ Len(inp) < MaxWrites
    /\ \E r \in WorkflowRun : \E writes \in Writes(r) : inp' = inp \o writes

SkillStep == algo = "skills" /\ inp' \in StoreSteps(inp) /\ UNCHANGED algo
DownloadStep == algo = "downloads" /\ inp' \in DownloadSteps(inp) /\ UNCHANGED algo
GroupStep == algo = "groups" /\ inp' \in GroupSteps(inp, MaxEdits) /\ UNCHANGED algo

ReadersNext == RoutingStep \/ JournalStep \/ SkillStep \/ DownloadStep \/ GroupStep

ReadersSpec == ReadersInit /\ [][ReadersNext]_readers_vars

-----------------------------------------------------------------------------
(* Properties. *)

\* router.rs:195, delegate.rs:985: a routed task gets an enabled model that is able enough, or
\* one of the same name, whatever the catalog is and the router answers (see ModelRouting).
RoutedWorker ==
    LET n == Len(Offers) IN
    algo = "routing" /\ Len(inp) = n + 2 =>
        RoutedWorkerIsCapable(SubSeq(inp, 1, n), inp[n + 1], inp[n + 2])

\* workflows.rs:91, delegate.rs:150: no write to the journal of a run takes it, or an agent
\* of it while it runs, off the list, nor brings back what is finished (see WorkflowJournal).
RunsStayListed == [][algo = "journal" => StillListed(inp, inp')]_readers_vars

\* skill_install.rs:388, skills.rs:58, 95: calls on one name do not lose the skill between
\* them, and a version that is published has all its files (see SkillStore).
SkillStoreWhole == algo = "skills" => StoreWhole(inp)

\* sessions.rs:899: a download that was broken off and resumed is one version of the file, if
\* no rewrite fell between a request's look at the size and tag and its opening of the file.
ResumedDownloadWhole == algo = "downloads" => OneVersionUnlessRaced(inp)

\* store.rs:633: adoptions that race find or create one group, and their sessions are in it.
AdoptedInOneGroup == algo = "groups" => AdoptedTogether(inp)

\* sessions.rs:854: a resume never stitches halves of two versions. It does (the file is opened
\* after its tag was compared).
DownloadNeverStitched == algo = "downloads" => OneVersion(inp)

\* router.rs:198: the winner is among the candidates at least as capable as the router's pick.
\* The choice is handed on by the name of its model, and another entry may have that name.
RoutedWorkerAble ==
    LET n == Len(Offers) IN
    algo = "routing" /\ Len(inp) = n + 2 =>
        RoutedWorkerIsAble(SubSeq(inp, 1, n), inp[n + 1], inp[n + 2])

\* skill_install.rs:390: if the publish rename fails the old version is restored. The restoring
\* rename may fail as well, and its error is ignored.
SkillNeverHalfUpdated == algo = "skills" => NeverHalfUpdated(inp)

\* skills.rs:14: add_skill answers AlreadyExists if the directory already exists. It looks before
\* it makes the directory, and writes into one that came between.
SkillNotOverwritten == algo = "skills" => AddRefusesExisting(inp)

\* store.rs:622: the group whose name matches is created if absent. It is not, once the group
\* with the id of that name has been renamed; the adoption fails then.
GroupIsEnsured == algo = "groups" => EnsureFinds(inp)

\* store.rs:705: deleting a group sets all sessions referencing it to NULL. A session that is
\* put into the group between the two statements keeps it.
NoSessionInDeletedGroup == algo = "groups" => NoOrphans(inp)
=============================================================================
