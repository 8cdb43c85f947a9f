-------------------------------- MODULE Store --------------------------------
(* The session store (engine/persistence/store.rs): what a row is made of, what a patch     *)
(* changes and what is read back, and the groups of sessions, whose statements of several   *)
(* callers interleave: SQLite makes each statement atomic and none of these a transaction.  *)
EXTENDS Naturals, Sequences, FiniteSets, TLC

CONSTANT NULL     \* the NULL of SQL

\* Fields of a patch over a row; the ones a patch leaves out stay.
Over2(patch, row) == [f \in DOMAIN row |-> IF f \in DOMAIN patch THEN patch[f] ELSE row[f]]

\* update, apply_update: an empty patch writes nothing and returns nothing.
update(rows, id, patch) ==
    IF DOMAIN patch = {} \/ id \notin DOMAIN rows THEN rows
    ELSE [rows EXCEPT ![id] = Over2(patch, @)]

apply_update(rows, id, patch) ==
    LET after == update(rows, id, patch)
    IN  [rows |-> after,
         returned |-> IF DOMAIN patch = {} \/ id \notin DOMAIN after THEN NULL ELSE after[id]]

\* The patch of a PATCH request: an empty text is no value, the empty group is no group, and
\* switching auto-resume off takes its schedule with it.
patch_session(body) ==
    LET texts == {f \in DOMAIN body \cap {"model", "effort", "mode", "permission_mode"} : body[f] # ""}
        group == IF "group" \in DOMAIN body
                 THEN [group |-> IF body.group = "" THEN NULL ELSE body.group] ELSE <<>>
        resume == IF "auto_resume" \in DOMAIN body THEN [auto_resume |-> body.auto_resume] ELSE <<>>
        at == IF "auto_resume" \in DOMAIN body /\ ~body.auto_resume
              THEN [auto_resume_at |-> NULL] ELSE <<>>
    IN  [f \in texts |-> body[f]] @@ group @@ resume @@ at

\* A row as it is inserted: repositories and base commits from either form of the input.
\* base_shas maps repositories to a commit or NULL.
create(in) ==
    LET repos == IF in.repos # <<>> THEN in.repos
                 ELSE IF in.repo \in {NULL, ""} THEN <<>> ELSE <<in.repo>>
        repo == IF repos = <<>> THEN "" ELSE repos[1]
        shas == IF DOMAIN in.base_shas # {} THEN in.base_shas
                ELSE IF in.repo \in {NULL, ""} THEN <<>> ELSE in.repo :> in.base_sha
    IN  [repo |-> repo, repos |-> repos, base_shas |-> shas,
         base_sha |-> IF repo \in DOMAIN shas THEN shas[repo] ELSE in.base_sha,
         mode |-> in.mode, group |-> in.group, status |-> "pending", worktree_state |-> "live",
         title_pinned |-> FALSE, auto_resume |-> NULL, auto_resume_at |-> NULL,
         last_user_message_at |-> in.now, created_at |-> in.now]

normalize_mode(mode) == IF mode \in {"ultracode", "ultra"} THEN "ultracode" ELSE NULL

\* What is read of a row: NULL columns of older rows have a value all the same.
row_to_session(row) ==
    LET Or(v, default) == IF v = NULL THEN default ELSE v
        shas == IF row.base_shas # NULL THEN row.base_shas
                ELSE IF row.repo # "" /\ row.base_sha # NULL THEN row.repo :> row.base_sha ELSE <<>>
        repos == Or(row.repos, IF row.repo = "" THEN <<>> ELSE <<row.repo>>)
    IN  [row EXCEPT !.base_shas = shas, !.repos = repos, !.mode = normalize_mode(@),
             !.worktree_state = Or(@, "live"), !.title_pinned = Or(@, FALSE),
             !.auto_resume = Or(@, TRUE), !.last_user_message_at = Or(@, row.created_at),
             !.base_sha = IF @ # NULL \/ repos = <<>> \/ repos[1] \notin DOMAIN shas THEN @
                          ELSE shas[repos[1]]]

\* The event counters of a row, whose comparison is the unread mark.
incr_unread_event_id(row) == [row EXCEPT !.unread = @ + 1]
ack_event(row, n) == [row EXCEPT !.acked = IF n > @ THEN n ELSE @]

-----------------------------------------------------------------------------
(* Groups. Calls adopt a session each: they look for the group of adopted sessions by its   *)
(* name, insert it where it is absent, look again and create a row in what they found. A    *)
(* user edits the groups meanwhile.                                                         *)

Adopted == "Claude Code Adopted"

GroupsInit(Calls) ==
    [groups |-> {}, pc |-> [c \in Calls |-> "select"], found |-> [c \in Calls |-> NULL],
     row |-> [c \in Calls |-> NULL], deleting |-> NULL, edits |-> 0]

Named(g, name) == {x \in g.groups : x.name = name}
HasGroup(g, id) == \E x \in g.groups : x.id = id

\* An id of its own for every insert.
GroupIdFresh(c, name) == <<name, c>>

\* The id is a function of the name, so that two inserts of one name collide.
GroupId(c, name) == <<name, 0>>

\* ensure_group: the lookup, the insert that is ignored where the id is taken, the lookup.
Select(g, c) ==
    IF Named(g, Adopted) = {} THEN {[g EXCEPT !.pc[c] = "insert"]}
    ELSE {[g EXCEPT !.pc[c] = "create", !.found[c] = x.id] : x \in Named(g, Adopted)}

Insert(g, c) ==
    LET id == GroupId(c, Adopted)
    IN  {[g EXCEPT !.pc[c] = "again",
             !.groups = @ \cup (IF HasGroup(g, id) THEN {} ELSE {[id |-> id, name |-> Adopted]})]}

SelectAgain(g, c) ==
    IF Named(g, Adopted) = {} THEN {[g EXCEPT !.pc[c] = "failed"]}
    ELSE {[g EXCEPT !.pc[c] = "create", !.found[c] = x.id] : x \in Named(g, Adopted)}

\* adopt_session: the row is in the group that was found.
CreateRow(g, c) == {[g EXCEPT !.pc[c] = "done", !.row[c] = g.found[c]]}

\* The user's edits: a new group, another name, a session put into a group.
create_group(g) == {[g EXCEPT !.groups = @ \cup {[id |-> <<"user", g.edits>>, name |-> "other"]}]}
update_group(g) ==
    {[g EXCEPT !.groups = (@ \ {x}) \cup {[x EXCEPT !.name = "renamed"]}] : x \in g.groups}
PutInGroup(g) ==
    UNION {{[g EXCEPT !.row[c] = patch_session([group |-> x.id]).group] : x \in g.groups} :
               c \in {d \in DOMAIN g.pc : g.pc[d] = "done"}}
UserEdits(g, MaxEdits) ==
    IF g.edits = MaxEdits THEN {}
    ELSE {[e EXCEPT !.edits = @ + 1] : e \in
            create_group(g) \cup update_group(g) \cup PutInGroup(g)
            \cup (IF g.deleting # NULL THEN {} ELSE {[g EXCEPT !.deleting = x.id,
                     !.row = [c \in DOMAIN @ |-> IF @[c] = x.id THEN NULL ELSE @[c]]] : x \in g.groups})}

\* delete_group clears the sessions of the group first (above) and deletes its row then.
delete_group(g) ==
    IF g.deleting = NULL THEN {}
    ELSE {[g EXCEPT !.deleting = NULL, !.groups = {x \in @ : x.id # g.deleting}]}

GroupSteps(g, MaxEdits) ==
    UserEdits(g, MaxEdits) \cup delete_group(g) \cup
    UNION {CASE g.pc[c] = "select" -> Select(g, c)
             [] g.pc[c] = "insert" -> Insert(g, c)
             [] g.pc[c] = "again" -> SelectAgain(g, c)
             [] g.pc[c] = "create" -> CreateRow(g, c)
             [] OTHER -> {} : c \in DOMAIN g.pc}

\* Calls that race end in one group, which is there.
AdoptedTogether(g) ==
    g.edits = 0 =>
        /\ Cardinality(Named(g, Adopted)) <= 1
        /\ \A c \in DOMAIN g.pc : g.pc[c] # "failed" /\ (g.pc[c] = "done" => HasGroup(g, g.row[c]))

\* The group is created where it is absent: the call does not fail.
EnsureFinds(g) == \A c \in DOMAIN g.pc : g.pc[c] # "failed"

\* A deleted group has no sessions.
NoOrphans(g) == \A c \in DOMAIN g.pc : g.row[c] = NULL \/ HasGroup(g, g.row[c])
=============================================================================
