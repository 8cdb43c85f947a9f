-------------------------- MODULE SessionWorkspaces --------------------------
(* The files behind a session: the directory <worktrees_root>/<id>, one git worktree and    *)
(* one branch agentic/<id> per repository, the snapshot refs taken before each turn, and    *)
(* the row that says they are there (engine/vcs/worktree.rs, engine/session/{submit,admin,  *)
(* recover}.rs). Creating, forking, discarding and deleting are sagas over git, the file    *)
(* system and the store; each step may fail, those of a roll-back too, and the server may   *)
(* stop between two. One saga at a time is under way on a session.                          *)
(*                                                                                          *)
(* A file system state of a worktree is a number; every edit makes the next one. Commits,   *)
(* refs and snapshots are such numbers too.                                                 *)
EXTENDS Naturals, Sequences, FiniteSets

CONSTANTS
    Sessions,        \* ids of managed sessions, in use or still free
    Adopted,         \* sessions adopted in place (NativeSync): their directory is the user's own
    Repos,           \* <<repository, ...>>: the repositories of a session, in their order
    Tokens,          \* staged uploads
    MaxEdits, MaxTurns, MaxFaults, MaxCrashes, MaxAdmin,     \* bounds, of each kind of event
    MaxEvents                                                \* and of all together

ASSUME ConstantsAssumption ==
    /\ Sessions \cap Adopted = {} /\ Len(Repos) \in Nat
    /\ {MaxEdits, MaxTurns, MaxFaults, MaxCrashes, MaxAdmin, MaxEvents} \subseteq Nat

VARIABLES
    row,        \* row[s]: "none", or the status of the row: "pending", "running", "done"
    state,      \* state[s]: the column worktree_state, "live" or "discarded"
    pc,         \* pc[s]: where the saga on s stands, "idle" when nothing is under way
    dir,        \* the sessions whose directory exists
    tree,       \* tree[s]: the repositories that have a worktree of s on disk
    branch,     \* branch[s]: those that have a branch agentic/<s>
    base,       \* base[s][r]: the commit the branch starts from (base_shas)
    head,       \* head[s][r]: the commit the branch is at
    files,      \* files[s][r]: the tracked files of the worktree
    snap,       \* snap[s]: <<turn, repository>> -> files, the refs refs/agentic/snapshots/<s>/*
    sync,       \* sync[s]: a start() of s is under way, and has not read the row again yet
    prompts,    \* prompts[s]: agentic_prompt lines in the log
    staged,     \* uploads under <worktrees_root>/.staging
    before,     \* before[s][k]: what the files were as turn k was asked for (auxiliary)
    doomed,     \* sessions somebody asked to discard or delete (auxiliary)
    undone,     \* undone[s]: what the roll-back of s could not remove, of "row" and "dir" (auxiliary)
    used        \* [turns, edits, faults, crashes, admin |-> how often], for the bounds

vars == <<row, state, pc, dir, tree, branch, base, head, files, snap, sync, prompts, staged,
          before, doomed, undone, used>>
git == <<tree, branch, base, head, files, snap>>

All == Sessions \cup Adopted
RepoSet == {Repos[i] : i \in 1..Len(Repos)}

\* Adopted sessions have no repositories of their own (repos: vec![]).
ReposOf(s) == IF s \in Adopted THEN <<>> ELSE Repos
First(k) == {Repos[i] : i \in 1..k}

Use(f) == used' = [used EXCEPT ![f] = @ + 1]
Room(n) == used.turns + used.edits + used.faults + used.crashes + used.admin + n <= MaxEvents
CanTurn == used.turns < MaxTurns /\ Room(1)
CanEdit(n) == used.edits + n <= MaxEdits /\ Room(n)
CanFault == used.faults < MaxFaults /\ Room(1)
CanAdmin == used.admin < MaxAdmin /\ Room(1)

\* A step in which calls may fail, any of them: it is one fault, and some is that one fails.
Faulty(some) == IF some THEN CanFault /\ Use("faults") ELSE UNCHANGED used

\* Files that are partly one state and partly another.
Torn == 2 * MaxEdits + 1

Init ==
    /\ row = [s \in All |-> IF s \in Adopted THEN "done" ELSE "none"]
    /\ state = [s \in All |-> "live"]
    /\ pc = [s \in All |-> "idle"]
    /\ dir = Adopted
    /\ tree = [s \in All |-> {}]
    /\ branch = [s \in All |-> {}]
    /\ base = [s \in All |-> [r \in RepoSet |-> 0]]
    /\ head = base
    /\ files = base
    /\ snap = [s \in All |-> <<>>]
    /\ sync = [s \in All |-> FALSE]
    /\ prompts = [s \in All |-> 0]
    /\ staged = {}
    /\ before = [s \in All |-> <<>>]
    /\ doomed = {}
    /\ undone = [s \in All |-> {}]
    /\ used = [turns |-> 0, edits |-> 0, faults |-> 0, crashes |-> 0, admin |-> 0]

-----------------------------------------------------------------------------
(* Creating *)

\* A turn may be asked for more than once under one number: a prompt that is stopped in the
\* queue leaves no line in the log.
Asked(b, k, f) ==
    [i \in DOMAIN b \cup {k} |-> (IF i \in DOMAIN b THEN b[i] ELSE {}) \cup (IF i = k THEN {f} ELSE {})]

\* create_session_worktrees, create_fork_worktrees: the directory, then one worktree per
\* repository. All succeed, or git refuses the one after the first k: what was made so far
\* stays, the caller only returns the error.
create_worktrees(s, from, next, fail) ==
    /\ row[s] = "none" /\ pc[s] = "idle" /\ s \notin dir /\ s \in Sessions
    /\ dir' = dir \cup {s}
    /\ \E k \in 0..Len(Repos) :
        /\ tree' = [tree EXCEPT ![s] = First(k)]
        /\ branch' = [branch EXCEPT ![s] = First(k)]
        /\ base' = [base EXCEPT ![s] = from]
        /\ head' = [head EXCEPT ![s] = from]
        /\ files' = [files EXCEPT ![s] = from]
        /\ before' = [before EXCEPT ![s] = Asked(@, 0, from)]
        /\ \/ k = Len(Repos) /\ pc' = [pc EXCEPT ![s] = next] /\ UNCHANGED used
           \/ k < Len(Repos) /\ CanFault /\ Use("faults") /\ pc' = [pc EXCEPT ![s] = fail]
    /\ UNCHANGED snap

\* submit_session, up to store.create: a new directory takes the staged uploads of the
\* request (a file that is not there is skipped) and removes their tokens.
SubmitTrees(s) ==
    /\ create_worktrees(s, [r \in RepoSet |-> 0], "submit", "failed")
    /\ \E ts \in SUBSET Tokens :
        staged' = IF pc'[s] = "failed" THEN staged ELSE staged \ ts
    /\ UNCHANGED <<row, state, sync, prompts, doomed, undone>>

\* remove_worktrees_best_effort: the worktrees and the directory go, the branches stay. Each
\* failure is only logged; what git refuses goes with the directory, if that goes.
RemoveBestEffort(s, lost) ==
    /\ dir' = IF "dir" \in lost THEN dir ELSE dir \ {s}
    /\ \E kept \in SUBSET tree[s] :
        /\ "dir" \in lost \/ kept = {}
        /\ tree' = [tree EXCEPT ![s] = kept]
    /\ undone' = [undone EXCEPT ![s] = lost]
    /\ UNCHANGED <<branch, base, head, files, snap>>

\* Store::create makes a pending row; submit_session then queues it.
CreateRow(s, from, next) ==
    /\ pc[s] = from
    /\ \/ /\ row' = [row EXCEPT ![s] = "pending"]
          /\ pc' = [pc EXCEPT ![s] = next]
          /\ UNCHANGED <<git, dir, undone, used>>
       \/ /\ CanFault /\ Use("faults")
          /\ pc' = [pc EXCEPT ![s] = "refused"]
          /\ \E lost \in SUBSET {"dir"} : RemoveBestEffort(s, lost)
          /\ UNCHANGED row
    /\ UNCHANGED <<state, sync, prompts, staged, before, doomed>>

SubmitRow(s) == CreateRow(s, "submit", "idle")

\* fork_session: a worktree per repository at the HEAD the source's worktree has now.
ForkTrees(src, s) ==
    /\ row[src] # "none" /\ src \in Sessions /\ src # s
    /\ tree[src] = RepoSet                        \* SourceUnhealthy otherwise
    /\ create_worktrees(s, head[src], "fork", "fork_failed")
    /\ UNCHANGED <<row, state, sync, prompts, staged, doomed, undone>>

ForkRow(s) == CreateRow(s, "fork", "flip")

\* The fork is not queued: its row goes to done.
ForkFlip(s) ==
    /\ pc[s] = "flip"
    /\ \/ /\ row' = [row EXCEPT ![s] = "done"]
          /\ pc' = [pc EXCEPT ![s] = "idle"]
          /\ UNCHANGED used
       \/ /\ CanFault /\ Use("faults")
          /\ pc' = [pc EXCEPT ![s] = "undo"]
          /\ UNCHANGED row
    /\ UNCHANGED <<state, dir, git, sync, prompts, staged, before, doomed, undone>>

\* The roll-back without the removal of the row.
ForkUndoKeepsRow(s) ==
    /\ pc[s] = "undo"
    /\ pc' = [pc EXCEPT ![s] = "refused"]
    /\ \E lost \in SUBSET {"dir"} : RemoveBestEffort(s, lost)
    /\ UNCHANGED <<row, state, sync, prompts, staged, before, doomed, used>>

\* Where the flip fails the row is removed and everything rolled back. A row that cannot be
\* removed does not stop the removal of its files. (What fails in a roll-back counts as part of
\* the fault that called for it.)
ForkUndo(s) ==
    /\ pc[s] = "undo"
    /\ pc' = [pc EXCEPT ![s] = "refused"]
    /\ \E lost \in SUBSET {"row", "dir"} :
        /\ row' = IF "row" \in lost THEN row ELSE [row EXCEPT ![s] = "none"]
        /\ RemoveBestEffort(s, lost)
    /\ UNCHANGED <<state, sync, prompts, staged, before, doomed, used>>

-----------------------------------------------------------------------------
(* Turns *)

\* snapshot_worktree: a commit of the whole working tree, next to the branch.
snapshot_worktree(s, r) == files[s][r]

\* snapshot_worktrees: best effort, one ref per repository whose snapshot works. (The refs of
\* turn 0 are never read, a rewind takes the base there: they are left out.)
Snapshot(s, k, ok) ==
    snap' = [snap EXCEPT ![s] = [x \in DOMAIN @ \cup ({k} \X ok) |->
                IF x \in {k} \X ok THEN snapshot_worktree(s, x[2]) ELSE @[x]]]

\* follow_up on an idle row (not busy: nor is a start() of it under way): the snapshot carries
\* the number of prompts in the log. It does not look at worktree_state: a discarded session
\* is queued with no snapshot. (The turns of an adopted session touch nothing here.)
FollowUp(s) ==
    /\ s \in Sessions /\ row[s] = "done" /\ ~sync[s] /\ CanTurn
    /\ IF prompts[s] = 0 THEN UNCHANGED <<snap, used>>
       ELSE \E ok \in SUBSET tree[s] : Snapshot(s, prompts[s], ok) /\ Faulty(ok # tree[s])
    /\ before' = [before EXCEPT ![s] = Asked(@, prompts[s], files[s])]
    /\ row' = [row EXCEPT ![s] = "pending"]
    /\ UNCHANGED <<state, pc, dir, tree, branch, base, head, files, sync, prompts, staged, doomed, undone>>

\* A row of a fork is pending, but in no queue, until it is flipped (nor does anybody stop or
\* prompt it before fork_session has answered), or for good if it could not be removed.
Queued(s) == row[s] = "pending" /\ pc[s] \notin {"flip", "undo", "refused"}

\* sync_worktree on all worktrees. Without a remote, or when the rebase conflicts and is
\* aborted, nothing changes. Else the branch is moved, and the uncommitted changes are laid
\* over it again or stay in git's stash where they conflict. A git that is stopped at its
\* time limit leaves what it left.
sync_worktree(s, moved, laid, stopped) ==
    LET new == used.edits + 1
    IN  /\ head' = [head EXCEPT ![s] = [r \in RepoSet |-> IF r \in moved THEN new ELSE @[r]]]
        /\ files' = [files EXCEPT ![s] = [r \in RepoSet |->
                        IF r \in laid THEN new + MaxEdits
                        ELSE IF r \in moved \cup stopped THEN new ELSE @[r]]]

\* start() takes the item off the queue and brings the worktrees up to date, one after the
\* other. (The second start() of a session begins when the first is through: see
\* SessionEngine.)
StartBegin(s) ==
    /\ Queued(s) /\ ~sync[s] /\ CanTurn
    /\ sync' = [sync EXCEPT ![s] = TRUE]
    /\ before' = [before EXCEPT ![s] = IF prompts[s] \in DOMAIN @ THEN @
                                       ELSE Asked(@, prompts[s], files[s])]
    /\ \/ UNCHANGED <<head, files>> /\ Use("turns")
       \/ /\ CanEdit(1) /\ Room(2)
          /\ used' = [used EXCEPT !.turns = @ + 1, !.edits = @ + 1]
          /\ \E moved, stopped \in SUBSET tree[s] :
              \E laid \in SUBSET {r \in moved : files[s][r] # head[s][r]} :
                  moved \cup stopped # {} /\ sync_worktree(s, moved, laid, stopped)
    /\ UNCHANGED <<row, state, pc, dir, tree, branch, base, snap, prompts, staged, doomed, undone>>

\* After the last the row is read again: the prompt line is written and the process runs,
\* unless somebody stopped or deleted the session meanwhile.
StartTurn(s) ==
    /\ sync[s]
    /\ sync' = [sync EXCEPT ![s] = FALSE]
    /\ \/ /\ row[s] = "pending"
          /\ row' = [row EXCEPT ![s] = "running"]
          /\ prompts' = [prompts EXCEPT ![s] = @ + 1]
       \/ row[s] # "pending" /\ UNCHANGED <<row, prompts>>
    /\ UNCHANGED <<state, pc, dir, git, staged, before, doomed, undone, used>>

\* A prompt injected into a live turn is one more line in the log and no snapshot.
Inject(s) ==
    /\ row[s] = "running" /\ CanTurn /\ Use("turns")
    /\ prompts' = [prompts EXCEPT ![s] = @ + 1]
    /\ UNCHANGED <<row, state, pc, dir, git, sync, staged, before, doomed, undone>>

\* The agent edits one worktree, or commits what is there.
AgentWork(s) ==
    /\ row[s] = "running" /\ CanEdit(1) /\ Use("edits")
    /\ \E r \in tree[s] :
        \/ files' = [files EXCEPT ![s][r] = used.edits + 1] /\ UNCHANGED head
        \/ head[s][r] # files[s][r] /\ head' = [head EXCEPT ![s][r] = files[s][r]] /\ UNCHANGED files
    /\ UNCHANGED <<row, state, pc, dir, tree, branch, base, snap, sync, prompts, staged, before, doomed, undone>>

\* The turn ends, or somebody stops it, in the queue too. So ends the pending row that a
\* roll-back left.
EndTurn(s) ==
    /\ row[s] = "running" \/ (row[s] = "pending" /\ pc[s] \notin {"flip", "undo"})
    /\ row' = [row EXCEPT ![s] = "done"]
    /\ pc' = IF pc[s] = "refused" THEN [pc EXCEPT ![s] = "idle"] ELSE pc
    /\ UNCHANGED <<state, dir, git, sync, prompts, staged, before, doomed, undone, used>>

-----------------------------------------------------------------------------
(* Rewind, discard, delete *)

\* live_session: an idle row (not busy) whose worktrees are live. The caller goes on later.
LiveSession(s) == row[s] = "done" /\ ~sync[s] /\ state[s] = "live" /\ pc[s] = "idle"

RewindCheck(s) ==
    /\ LiveSession(s) /\ CanAdmin /\ Use("admin")
    /\ pc' = [pc EXCEPT ![s] = "rewind"]
    /\ UNCHANGED <<row, state, dir, git, sync, prompts, staged, before, doomed, undone>>

\* What turn k goes back to in repository r: the base for turn 0, else the snapshot ref.
Target(s, k, r) == IF k = 0 THEN {base[s][r]}
                   ELSE {snap[s][x] : x \in DOMAIN snap[s] \cap {<<k, r>>}}

\* restore_worktree: the files of the snapshot are written out; head and branch stay.
Restored(s, k) == [r \in RepoSet |-> CHOOSE f \in Target(s, k, r) : TRUE]

\* One pass: each repository is restored as soon as its own target is found.
RewindDoOnePass(s) ==
    /\ pc[s] = "rewind"
    /\ pc' = [pc EXCEPT ![s] = "idle"]
    /\ \E k \in 0..MaxTurns :
        files' = [files EXCEPT ![s] = [r \in RepoSet |->
                    IF r \in tree[s] /\ Target(s, k, r) # {} THEN CHOOSE f \in Target(s, k, r) : TRUE
                    ELSE @[r]]]
    /\ UNCHANGED <<row, state, dir, tree, branch, base, head, snap, sync, prompts, staged, before,
                   doomed, undone, used>>

\* The first n repositories are restored, and of the next one a part, or nothing.
RestoredUpTo(s, k, n) ==
    {[r \in RepoSet |-> IF r \in First(n) THEN Restored(s, k)[r]
                        ELSE IF n < Len(Repos) /\ r = Repos[n + 1] /\ torn THEN Torn ELSE files[s][r]] :
        torn \in BOOLEAN}

\* rewind, after the check: every target is verified before any repository is restored. A
\* restore that fails ends it there: the repositories before it are restored.
RewindDo(s) ==
    /\ pc[s] = "rewind"
    /\ pc' = [pc EXCEPT ![s] = "idle"]
    /\ \E k \in 0..MaxTurns :
        \/ /\ \E r \in RepoSet : r \notin tree[s] \/ Target(s, k, r) = {}
           /\ UNCHANGED <<files, used>>
        \/ /\ \A r \in RepoSet : r \in tree[s] /\ Target(s, k, r) # {}
           /\ \E n \in 0..Len(Repos) :
                /\ Faulty(n < Len(Repos))
                /\ \E fs \in RestoredUpTo(s, k, n) : files' = [files EXCEPT ![s] = fs]
    /\ UNCHANGED <<row, state, dir, tree, branch, base, head, snap, sync, prompts, staged, before,
                   doomed, undone>>

\* remove_dir_all without the test that the directory is one of ours.
RemoveDirAny(s, stays) == dir' = IF stays THEN dir ELSE dir \ {s}

\* within_worktrees_root: only a directory of ours is removed, if it can be.
RemoveDir(s, stays) == dir' = IF s \in Sessions /\ ~stays THEN dir \ {s} ELSE dir

\* discard_worktree per repository, worktree remove --force and then branch -D, and the
\* directory. Each failure is only logged; what git refused goes with the directory, if
\* that goes. (also: whether another call of the step fails.)
DiscardTrees(s, also) ==
    /\ \E refused \in SUBSET tree[s], left \in SUBSET branch[s], stays \in BOOLEAN :
        /\ refused \cap branch[s] \subseteq left
        /\ Faulty(refused # {} \/ left # {} \/ stays \/ also)
        /\ branch' = [branch EXCEPT ![s] = left]
        /\ RemoveDir(s, stays)
        /\ tree' = [tree EXCEPT ![s] = IF s \in dir' THEN refused ELSE {}]
    /\ UNCHANGED <<base, head, files>>

\* delete_snapshot_refs, per repository; failures are ignored and leave those of left.
DeleteSnapshots(s, left) ==
    snap' = [snap EXCEPT ![s] = [x \in {y \in DOMAIN @ : y[2] \in left} |-> @[x]]]

DiscardCheck(s) ==
    /\ LiveSession(s) /\ CanAdmin /\ Use("admin")
    /\ pc' = [pc EXCEPT ![s] = "discard"]
    /\ doomed' = doomed \cup {s}
    /\ UNCHANGED <<row, state, dir, git, sync, prompts, staged, before, undone>>

\* discard: the worktrees, the directory and the snapshot refs.
DiscardFiles(s) ==
    /\ pc[s] = "discard"
    /\ \E left \in SUBSET RepoSet : DiscardTrees(s, left # {}) /\ DeleteSnapshots(s, left)
    /\ pc' = [pc EXCEPT ![s] = "mark"]
    /\ UNCHANGED <<row, state, sync, prompts, staged, before, doomed, undone>>

DiscardMark(s) ==
    /\ pc[s] = "mark"
    /\ pc' = [pc EXCEPT ![s] = "idle"]
    /\ \/ state' = [state EXCEPT ![s] = "discarded"] /\ UNCHANGED used
       \/ CanFault /\ Use("faults") /\ UNCHANGED state
    /\ UNCHANGED <<row, dir, git, sync, prompts, staged, before, doomed, undone>>

\* delete_session: a busy one is stopped first (forced), then read again.
DeleteCheck(s) ==
    /\ row[s] # "none" /\ pc[s] \in {"idle", "refused"} /\ CanAdmin /\ Use("admin")
    /\ row' = [row EXCEPT ![s] = "done"]
    /\ pc' = [pc EXCEPT ![s] = "delete"]
    /\ doomed' = doomed \cup {s}
    /\ UNCHANGED <<state, dir, git, sync, prompts, staged, before, undone>>

\* Its worktrees and directory go if the row says they are live; the snapshot refs stay.
DeleteFiles(s) ==
    /\ pc[s] = "delete"
    /\ pc' = [pc EXCEPT ![s] = "remove"]
    /\ \/ state[s] = "live" /\ DiscardTrees(s, FALSE) /\ UNCHANGED snap
       \/ state[s] # "live" /\ UNCHANGED <<git, dir, used>>
    /\ UNCHANGED <<row, state, sync, prompts, staged, before, doomed, undone>>

DeleteRow(s) ==
    /\ pc[s] = "remove"
    /\ \/ /\ row' = [row EXCEPT ![s] = "none"]
          /\ pc' = [pc EXCEPT ![s] = "gone"]
          /\ UNCHANGED used
       \/ /\ CanFault /\ Use("faults")
          /\ pc' = [pc EXCEPT ![s] = "idle"]
          /\ UNCHANGED row
    /\ UNCHANGED <<state, dir, git, sync, prompts, staged, before, doomed, undone>>

-----------------------------------------------------------------------------
(* Staged uploads, crashes, boot *)

\* sweep_stale_staging: tokens that are old enough (any of them, here) go.
Swept == SUBSET staged

\* upload_staging_route: a file under .staging, ahead of the session it is for.
Stage(t) ==
    /\ t \notin staged /\ CanAdmin /\ Use("admin")
    /\ \E old \in Swept : staged' = (staged \ old) \cup {t}
    /\ UNCHANGED <<row, state, pc, dir, git, sync, prompts, before, doomed, undone>>

Over == {"idle", "gone", "refused", "failed", "fork_failed", "lost"}

\* reconcile_worktrees that takes a list it could not read for an empty one.
ReconcileUnguarded(listed, left) == dir' = dir \ (Sessions \ (listed \cup left))

\* Every directory that no row is about is removed, unless no row is known at all; left are
\* those that cannot be. The user's directories are not under this root.
Reconcile(listed, left) == dir' = IF listed = {} THEN dir ELSE dir \ (Sessions \ (listed \cup left))

\* The server stops, and what was under way is lost; what is on disk stays. At the next boot
\* recover() ends what ran and queues again what waited (its own reading of the list is in
\* SessionTurns), then the directories are reconciled with a list that may be unreadable.
\* What is called .staging is no row's either.
Restart ==
    /\ used.crashes < MaxCrashes /\ Room(1)
    /\ pc' = [s \in All |-> IF row[s] # "none" THEN "idle" ELSE IF pc[s] \in Over THEN pc[s] ELSE "lost"]
    /\ sync' = [s \in All |-> FALSE]
    /\ LET rows == {s \in All : row[s] # "none"}
       IN  \E listed \in {rows, {}}, left \in SUBSET (dir \ rows), uploads \in {{}, staged} :
            /\ (listed = rows /\ left = {} /\ uploads = {}) \/ (CanFault /\ Room(2))
            /\ used' = [used EXCEPT !.crashes = @ + 1,
                            !.faults = IF listed = rows /\ left = {} /\ uploads = {} THEN @ ELSE @ + 1]
            /\ Reconcile(listed, left)
            /\ staged' = IF listed = {} THEN staged ELSE uploads
    /\ row' = [s \in All |-> IF row[s] = "running" THEN "done" ELSE row[s]]
    /\ tree' = [s \in All |-> IF s \in dir \ dir' THEN {} ELSE tree[s]]
    /\ UNCHANGED <<state, branch, base, head, files, snap, prompts, before, doomed, undone>>

SessionStep(s) ==
    \/ SubmitTrees(s) \/ SubmitRow(s) \/ ForkRow(s) \/ ForkFlip(s) \/ ForkUndo(s)
    \/ \E src \in All : ForkTrees(src, s)
    \/ FollowUp(s) \/ StartBegin(s) \/ StartTurn(s) \/ Inject(s) \/ AgentWork(s) \/ EndTurn(s)
    \/ RewindCheck(s) \/ RewindDo(s)
    \/ DiscardCheck(s) \/ DiscardFiles(s) \/ DiscardMark(s)
    \/ DeleteCheck(s) \/ DeleteFiles(s) \/ DeleteRow(s)

Next ==
    \/ \E s \in All : SessionStep(s)
    \/ \E t \in Tokens : Stage(t)
    \/ Restart

Spec == Init /\ [][Next]_vars

-----------------------------------------------------------------------------
(* What must hold *)

Stages == Over \cup {"submit", "fork", "flip", "undo", "rewind", "discard", "mark", "delete", "remove"}

\* A row that nobody asked to discard or delete has its files: its directory, one worktree
\* and one branch per repository. No boot that cannot read the list of sessions takes them
\* away (recover.rs:161), nor a start that is given up, nor the removal of another session's
\* files, nor a roll-back, unless it could not remove the row itself (submit.rs:819); the
\* directory of an adopted session is never removed, it is the user's (admin.rs:35).
RowHasWorkspace ==
    /\ \A s \in Sessions : row[s] # "none" /\ s \notin doomed /\ "row" \notin undone[s] =>
            s \in dir /\ tree[s] = RepoSet /\ branch[s] = RepoSet
    /\ Adopted \subseteq dir

\* A session the store refused leaves no row, no worktree and no directory, but for what a
\* call of the roll-back itself could not remove (submit.rs:185, 786 and 815-820): a row that
\* stays does not keep the files, nor the files the row.
RefusedLeavesNothing ==
    \A s \in Sessions : pc[s] = "refused" =>
        /\ row[s] # "none" => "row" \in undone[s]
        /\ s \in dir \/ tree[s] # {} => "dir" \in undone[s]

\* The repositories of R are in f what they were when turn k was asked for (at one of the
\* attempts at it: see RewindIsExact).
AsOfTurn(s, k, R, f) == \A r \in R : \E b \in before[s][k] : f[r] = b[r]

\* In this step a call of git, of the file system or of the store failed.
CallFailed == used'.faults # used.faults

\* A rewind puts all repositories back to what they were as one and the same turn was asked
\* for, or changes none; only where a restore fails (admin.rs:150) are those before it put
\* back, in their order, all to that turn, and those after it untouched.
RewoundWhole ==
    \A s \in Sessions : pc[s] = "rewind" /\ pc'[s] = "idle" /\ files'[s] # files[s] =>
        \E n \in 0..Len(Repos) :
            /\ n = Len(Repos) \/ CallFailed
            /\ \A r \in RepoSet \ First(n) :
                   r = Repos[n + 1] \/ files'[s][r] = files[s][r]
            /\ \E k \in DOMAIN before[s] : AsOfTurn(s, k, First(n), files'[s])

RewindRestores == [][RewoundWhole]_vars

\* submit.rs:613: "On any failure after partial work (some worktrees created) the worktrees
\* are removed and the row is deleted before returning the error". They are not when git
\* refuses the second repository.
ForkIsAllOrNothing ==
    \A s \in Sessions : pc[s] = "fork_failed" => tree[s] = {} /\ s \notin dir

\* submit.rs:818: "Delete the row AND its worktrees so fork stays atomic: success or nothing".
\* The removal of the row may fail as the flip before it did; its files go all the same.
ForkStaysAtomic ==
    \A s \in Sessions : pc[s] = "refused" => row[s] = "none" /\ tree[s] = {} /\ s \notin dir

\* RewoundWhole where no call fails, all repositories as of one attempt at the turn: "restore
\* the code state just before it ran". A snapshot that fails for one repository leaves the ref
\* of an earlier attempt at the same turn.
RewindIsExact ==
    [][\A s \in Sessions : pc[s] = "rewind" /\ pc'[s] = "idle" /\ files'[s] # files[s] /\ ~CallFailed =>
          \E k \in DOMAIN before[s] : files'[s] \in before[s][k]]_vars

\* admin.rs:114: "Requires an idle session (a live turn is mid-write - restoring under it
\* would corrupt its work)". A follow_up between the check and the restore is not seen.
RewindOnIdle ==
    [][\A s \in Sessions : row[s] = "running" /\ pc[s] = "rewind" => files'[s] = files[s]]_vars
=============================================================================
