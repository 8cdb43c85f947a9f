----------------------- MODULE SessionWorkspaces_proofs -----------------------
(* Theorems about SessionWorkspaces: for every set of sessions, every number of repositories *)
(* and every number of faults and crashes, no row loses its files, what the store refused    *)
(* leaves only what a roll-back could not remove, and a rewind goes to one turn.             *)
EXTENDS SessionWorkspaces, TLAPS

Counters == {"turns", "edits", "faults", "crashes", "admin"}

Types ==
    /\ row \in [All -> {"none", "pending", "running", "done"}]
    /\ state \in [All -> {"live", "discarded"}]
    /\ pc \in [All -> Stages]
    /\ dir \subseteq All
    /\ tree \in [All -> SUBSET RepoSet] /\ branch \in [All -> SUBSET RepoSet]
    /\ base \in [All -> [RepoSet -> Nat]] /\ head \in [All -> [RepoSet -> Nat]]
    /\ files \in [All -> [RepoSet -> Nat]]
    /\ DOMAIN snap = All /\ \A s \in All : \A x \in DOMAIN snap[s] : snap[s][x] \in Nat
    /\ DOMAIN before = All
    /\ sync \in [All -> BOOLEAN]
    /\ prompts \in [All -> Nat]
    /\ doomed \subseteq All
    /\ DOMAIN undone = All
    /\ used \in [Counters -> Nat]

\* The files of a session are there.
Whole(s) == s \in dir /\ tree[s] = RepoSet /\ branch[s] = RepoSet

\* What each stage of a saga has made so far; whoever removes files was asked to, or rolls
\* back and says what it left.
Staged(s) ==
    /\ s \in Sessions /\ row[s] # "none" /\ s \notin doomed /\ "row" \notin undone[s] => Whole(s)
    /\ pc[s] \in {"submit", "fork"} => row[s] = "none" /\ Whole(s)
    /\ pc[s] \in {"flip", "undo"} => row[s] = "pending"
    /\ pc[s] \in {"submit", "fork", "flip", "undo", "refused"} => s \in Sessions
    /\ pc[s] \in {"discard", "mark", "delete", "remove"} => s \in doomed
    /\ pc[s] \in {"rewind", "discard", "mark", "delete", "remove"} => row[s] # "none"
    /\ pc[s] = "refused" =>
          /\ row[s] \in {"none", "pending"}
          /\ row[s] # "none" => "row" \in undone[s]
          /\ s \in dir \/ tree[s] # {} => "dir" \in undone[s]
    /\ pc[s] \in {"submit", "fork", "flip", "undo", "refused"} => ~sync[s]
    /\ row[s] = "none" /\ pc[s] = "idle" => ~sync[s]

\* A ref holds the files as they were when the turn of its number was asked for.
RefsKnown(s) ==
    \A x \in DOMAIN snap[s] :
        x[1] \in DOMAIN before[s] /\ \E f \in before[s][x[1]] : snap[s][x] = f[x[2]]

\* The files of a new session are those of the base, which is where turn 0 goes back to.
BaseKnown(s) ==
    s \in Sessions /\ (row[s] # "none" \/ pc[s] # "idle") => 0 \in DOMAIN before[s] /\ base[s] \in before[s][0]

Inv ==
    /\ Types
    /\ \A s \in All : Staged(s) /\ RefsKnown(s) /\ BaseKnown(s)
    /\ Adopted \subseteq dir

-----------------------------------------------------------------------------
(* Where a rewind goes to. *)

LEMMA ChooseOnly == \A e : (CHOOSE f \in {e} : TRUE) = e
OBVIOUS

\* What turn k goes back to: the base, or the ref of turn k.
LEMMA TargetIs ==
    ASSUME NEW s, NEW k \in Nat, NEW r \in RepoSet, Target(s, k, r) # {}
    PROVE  /\ k = 0 => (CHOOSE f \in Target(s, k, r) : TRUE) = base[s][r]
           /\ k # 0 => /\ <<k, r>> \in DOMAIN snap[s]
                       /\ (CHOOSE f \in Target(s, k, r) : TRUE) = snap[s][<<k, r>>]
<1>1. CASE k = 0
  <2>1. Target(s, k, r) = {base[s][r]}
    BY <1>1 DEF Target
  <2> QED BY <1>1, <2>1, ChooseOnly
<1>2. CASE k # 0
  <2>1. Target(s, k, r) = {snap[s][x] : x \in DOMAIN snap[s] \cap {<<k, r>>}}
    BY <1>2 DEF Target
  <2>2. <<k, r>> \in DOMAIN snap[s]
    BY <2>1
  <2>3. Target(s, k, r) = {snap[s][<<k, r>>]}
    BY <2>1, <2>2
  <2> QED BY <1>2, <2>2, <2>3, ChooseOnly
<1> QED BY <1>1, <1>2

\* A rewind leaves the files, or puts the first n repositories back to one turn k, all of them
\* unless a call failed; the next one may be torn, those after it are left.
LEMMA Rewound ==
    ASSUME Types, NEW s \in All, RewindDo(s), files' # files
    PROVE  \E k \in Nat, n \in 0..Len(Repos), f \in [RepoSet -> Nat] :
               /\ files' = [files EXCEPT ![s] = f]
               /\ n = Len(Repos) \/ CallFailed
               /\ \A r \in RepoSet \ First(n) : r = Repos[n + 1] \/ f[r] = files[s][r]
               /\ \A r \in RepoSet : k # 0 => <<k, r>> \in DOMAIN snap[s]
               /\ \A r \in First(n) : f[r] = IF k = 0 THEN base[s][r] ELSE snap[s][<<k, r>>]
<1>1. PICK k \in 0..MaxTurns :
          /\ \A r \in RepoSet : Target(s, k, r) # {}
          /\ \E n \in 0..Len(Repos) :
                /\ Faulty(n < Len(Repos))
                /\ \E fs \in RestoredUpTo(s, k, n) : files' = [files EXCEPT ![s] = fs]
  BY DEF RewindDo
<1>2. PICK n \in 0..Len(Repos) :
          /\ Faulty(n < Len(Repos))
          /\ \E fs \in RestoredUpTo(s, k, n) : files' = [files EXCEPT ![s] = fs]
  BY <1>1
<1>3. PICK f : f \in RestoredUpTo(s, k, n) /\ files' = [files EXCEPT ![s] = f]
  BY <1>2
<1>4. PICK torn \in BOOLEAN :
          f = [r \in RepoSet |-> IF r \in First(n) THEN Restored(s, k)[r]
                                 ELSE IF n < Len(Repos) /\ r = Repos[n + 1] /\ torn THEN Torn
                                 ELSE files[s][r]]
  BY <1>3 DEF RestoredUpTo
<1>5. k \in Nat /\ Len(Repos) \in Nat /\ Torn \in Nat
  BY ConstantsAssumption DEF Torn
<1>6. n = Len(Repos) \/ CallFailed
  <2>1. ASSUME n < Len(Repos) PROVE CallFailed
    <3>1. used' = [used EXCEPT !["faults"] = @ + 1] /\ used \in [Counters -> Nat]
      BY <1>2, <2>1 DEF Faulty, Use, Types
    <3>2. used'.faults = used.faults + 1 /\ used.faults \in Nat
      BY ONLY <3>1 DEF Counters
    <3> QED BY <3>2 DEF CallFailed
  <2> QED BY <1>5, <2>1
<1>7. ASSUME NEW r \in RepoSet
      PROVE  /\ k # 0 => <<k, r>> \in DOMAIN snap[s]
             /\ Restored(s, k)[r] = IF k = 0 THEN base[s][r] ELSE snap[s][<<k, r>>]
  <2>1. Restored(s, k)[r] = (CHOOSE e \in Target(s, k, r) : TRUE)
    BY DEF Restored
  <2> QED BY <1>1, <1>5, <2>1, TargetIs
<1>8. ASSUME NEW r \in RepoSet PROVE f[r] \in Nat
  <2>1. base[s][r] \in Nat /\ files[s][r] \in Nat
    BY DEF Types
  <2>2. k # 0 => snap[s][<<k, r>>] \in Nat
    BY <1>7 DEF Types
  <2> QED BY <1>4, <1>5, <1>7, <2>1, <2>2
<1>9. f \in [RepoSet -> Nat]
  BY <1>4, <1>8
<1>10. \A r \in First(n) : r \in RepoSet
  BY <1>5 DEF First, RepoSet
<1>11. /\ \A r \in RepoSet \ First(n) : r = Repos[n + 1] \/ f[r] = files[s][r]
       /\ \A r \in First(n) : f[r] = IF k = 0 THEN base[s][r] ELSE snap[s][<<k, r>>]
  BY <1>4, <1>7, <1>10
<1>12. \A r \in RepoSet : k # 0 => <<k, r>> \in DOMAIN snap[s]
  BY <1>7
<1> QED BY <1>3, <1>5, <1>6, <1>9, <1>11, <1>12

-----------------------------------------------------------------------------
LEMMA Prefixes == \A k \in 0..Len(Repos) : First(k) \subseteq RepoSet
BY ConstantsAssumption DEF First, RepoSet

LEMMA UseTypes ==
    ASSUME used \in [Counters -> Nat], NEW f \in Counters, Use(f)
    PROVE  used' \in [Counters -> Nat]
<1>1. used' = [used EXCEPT ![f] = @ + 1]
  BY DEF Use
<1> QED BY ONLY used \in [Counters -> Nat], f \in Counters, <1>1

\* Two counters at once.
LEMMA UseTwo ==
    ASSUME NEW u \in [Counters -> Nat], NEW f \in Counters, NEW g \in Counters, f # g
    PROVE  [u EXCEPT ![f] = @ + 1, ![g] = @ + 1] \in [Counters -> Nat]
<1>1. u[f] + 1 \in Nat /\ u[g] + 1 \in Nat
  OBVIOUS
<1> QED BY <1>1

\* Every step keeps the types.
LEMMA TypesNext ==
    ASSUME Inv, [Next]_vars
    PROVE  Types'
<1> USE DEF Types, git
<1>0. Types
  BY DEF Inv
<1>a. \A f \in Counters : Use(f) => used' \in [Counters -> Nat]
  BY <1>0, UseTypes
<1>b. UNCHANGED used \/ Use("turns") \/ Use("faults") \/ Use("admin") \/ Use("edits")
          => used' \in [Counters -> Nat]
  BY <1>0, <1>a DEF Counters
<1>c. \A b : Faulty(b) => UNCHANGED used \/ Use("faults")
  BY DEF Faulty
<1>1. ASSUME NEW s \in All, NEW from \in [RepoSet -> Nat], NEW next \in Stages, NEW fail \in Stages,
             create_worktrees(s, from, next, fail), UNCHANGED <<row, state, sync, prompts, doomed, undone>>
      PROVE  Types'
  <2>1. PICK k \in 0..Len(Repos) :
            /\ tree' = [tree EXCEPT ![s] = First(k)]
            /\ branch' = [branch EXCEPT ![s] = First(k)]
            /\ base' = [base EXCEPT ![s] = from]
            /\ head' = [head EXCEPT ![s] = from]
            /\ files' = [files EXCEPT ![s] = from]
            /\ before' = [before EXCEPT ![s] = Asked(@, 0, from)]
            /\ \/ pc' = [pc EXCEPT ![s] = next] /\ UNCHANGED used
               \/ Use("faults") /\ pc' = [pc EXCEPT ![s] = fail]
    BY <1>1 DEF create_worktrees
  <2>2. dir' = dir \cup {s} /\ UNCHANGED snap
    BY <1>1 DEF create_worktrees
  <2>3. First(k) \in SUBSET RepoSet
    BY Prefixes
  <2>4. tree' \in [All -> SUBSET RepoSet] /\ branch' \in [All -> SUBSET RepoSet]
    BY <1>0, <2>1, <2>3
  <2>5. /\ base' \in [All -> [RepoSet -> Nat]] /\ head' \in [All -> [RepoSet -> Nat]]
        /\ files' \in [All -> [RepoSet -> Nat]]
    <3>1. /\ base \in [All -> [RepoSet -> Nat]] /\ head \in [All -> [RepoSet -> Nat]]
          /\ files \in [All -> [RepoSet -> Nat]]
      BY <1>0
    <3>2. from \in [RepoSet -> Nat] /\ s \in All
      OBVIOUS
    <3>3. base' \in [All -> [RepoSet -> Nat]]
      BY ONLY <2>1, <3>1, <3>2
    <3>4. head' \in [All -> [RepoSet -> Nat]]
      BY ONLY <2>1, <3>1, <3>2
    <3>5. files' \in [All -> [RepoSet -> Nat]]
      BY ONLY <2>1, <3>1, <3>2
    <3> QED BY <3>3, <3>4, <3>5
  <2>8. DOMAIN before' = All
    <3>1. \E e : before' = [before EXCEPT ![s] = e]
      BY <2>1
    <3> QED BY <1>0, <3>1
  <2>6. pc' \in [All -> Stages]
    <3>1. pc \in [All -> Stages] /\ s \in All /\ next \in Stages /\ fail \in Stages
      BY <1>0
    <3>2. pc' = [pc EXCEPT ![s] = next] \/ pc' = [pc EXCEPT ![s] = fail]
      BY <2>1
    <3> QED BY ONLY <3>1, <3>2
  <2>7. used' \in [Counters -> Nat]
    BY <1>b, <2>1
  <2> QED BY <1>0, <1>1, <2>2, <2>4, <2>5, <2>6, <2>7, <2>8
<1>2. ASSUME NEW s \in All, SubmitTrees(s) PROVE Types'
  <2>1. [r \in RepoSet |-> 0] \in [RepoSet -> Nat]
    OBVIOUS
  <2>2. create_worktrees(s, [r \in RepoSet |-> 0], "submit", "failed")
    BY <1>2 DEF SubmitTrees
  <2>3. UNCHANGED <<row, state, sync, prompts, doomed, undone>>
    BY <1>2 DEF SubmitTrees
  <2> QED BY <1>1, <2>1, <2>2, <2>3 DEF Stages, Over
<1>3. ASSUME NEW s \in All, NEW src \in All, ForkTrees(src, s) PROVE Types'
  <2>1. head[src] \in [RepoSet -> Nat]
    BY <1>0
  <2>2. create_worktrees(s, head[src], "fork", "fork_failed")
    BY <1>3 DEF ForkTrees
  <2>3. UNCHANGED <<row, state, sync, prompts, doomed, undone>>
    BY <1>3 DEF ForkTrees
  <2> QED BY <1>1, <2>1, <2>2, <2>3 DEF Stages, Over
<1>4. ASSUME NEW s \in All, SubmitRow(s) \/ ForkRow(s) \/ ForkFlip(s) \/ ForkUndo(s) PROVE Types'
  <2>1. /\ \/ row' = [row EXCEPT ![s] = "pending"]
           \/ row' = [row EXCEPT ![s] = "done"]
           \/ row' = [row EXCEPT ![s] = "none"]
           \/ UNCHANGED row
        /\ \/ pc' = [pc EXCEPT ![s] = "idle"]
           \/ pc' = [pc EXCEPT ![s] = "flip"]
           \/ pc' = [pc EXCEPT ![s] = "undo"]
           \/ pc' = [pc EXCEPT ![s] = "refused"]
        /\ dir' = dir \/ dir' = dir \ {s}
        /\ UNCHANGED tree \/ \E kept \in SUBSET tree[s] : tree' = [tree EXCEPT ![s] = kept]
        /\ UNCHANGED undone \/ \E lost : undone' = [undone EXCEPT ![s] = lost]
        /\ UNCHANGED <<branch, base, head, files, snap, state, sync, prompts, before, doomed>>
        /\ UNCHANGED used \/ Use("faults")
    <3>1. CASE SubmitRow(s) \/ ForkRow(s)
      BY <3>1 DEF SubmitRow, ForkRow, CreateRow, RemoveBestEffort
    <3>2. CASE ForkFlip(s)
      BY <3>2 DEF ForkFlip
    <3>3. CASE ForkUndo(s)
      BY <3>3 DEF ForkUndo, RemoveBestEffort
    <3> QED BY <1>4, <3>1, <3>2, <3>3
  <2>2. row' \in [All -> {"none", "pending", "running", "done"}]
    BY <1>0, <2>1
  <2>3. pc' \in [All -> Stages]
    BY <1>0, <2>1 DEF Stages, Over
  <2>4. tree' \in [All -> SUBSET RepoSet]
    <3>1. tree \in [All -> SUBSET RepoSet] /\ tree[s] \in SUBSET RepoSet
      BY <1>0
    <3>2. ASSUME NEW kept \in SUBSET tree[s], tree' = [tree EXCEPT ![s] = kept]
          PROVE  tree' \in [All -> SUBSET RepoSet]
      BY ONLY <3>1, <3>2
    <3> QED BY <2>1, <3>1, <3>2
  <2>5. dir' \subseteq All /\ DOMAIN undone' = All
    BY <1>0, <2>1
  <2> QED BY <1>0, <1>b, <2>1, <2>2, <2>3, <2>4, <2>5
<1>5. ASSUME NEW s \in All, FollowUp(s) PROVE Types'
  <2>1. /\ row' = [row EXCEPT ![s] = "pending"]
        /\ UNCHANGED <<state, pc, dir, tree, branch, base, head, files, sync, prompts, doomed, undone>>
        /\ UNCHANGED used \/ Use("faults")
    BY <1>5, <1>c DEF FollowUp
  <2>2. DOMAIN snap' = All /\ \A d \in All : \A x \in DOMAIN snap'[d] : snap'[d][x] \in Nat
    <3>1. CASE UNCHANGED snap
      BY <1>0, <3>1
    <3>2. ASSUME NEW ok \in SUBSET tree[s], Snapshot(s, prompts[s], ok)
          PROVE  DOMAIN snap' = All /\ \A d \in All : \A x \in DOMAIN snap'[d] : snap'[d][x] \in Nat
      <4>1. snap' = [snap EXCEPT ![s] = [x \in DOMAIN snap[s] \cup ({prompts[s]} \X ok) |->
                        IF x \in {prompts[s]} \X ok THEN files[s][x[2]] ELSE snap[s][x]]]
        BY <3>2 DEF Snapshot, snapshot_worktree
      <4>2. ok \subseteq RepoSet /\ files[s] \in [RepoSet -> Nat]
        BY <1>0
      <4>3. \A x \in {prompts[s]} \X ok : files[s][x[2]] \in Nat
        BY <4>2
      <4>4. \A x \in DOMAIN snap'[s] : snap'[s][x] \in Nat
        BY <1>0, <4>1, <4>3
      <4>5. \A d \in All \ {s} : snap'[d] = snap[d]
        BY <1>0, <4>1
      <4> QED BY <1>0, <4>1, <4>4, <4>5
    <3> QED BY <1>5, <3>1, <3>2 DEF FollowUp
  <2>3. DOMAIN before' = All
    <3>1. \E e : before' = [before EXCEPT ![s] = e]
      BY <1>5 DEF FollowUp
    <3> QED BY <1>0, <3>1
  <2> QED BY <1>0, <1>b, <2>1, <2>2, <2>3
<1>6. ASSUME NEW s \in All, StartBegin(s) PROVE Types'
  <2>1. /\ sync' = [sync EXCEPT ![s] = TRUE]
        /\ UNCHANGED <<row, state, pc, dir, tree, branch, base, snap, prompts, doomed, undone>>
    BY <1>6 DEF StartBegin
  <2>2. DOMAIN before' = All
    <3>1. \E e : before' = [before EXCEPT ![s] = e]
      BY <1>6 DEF StartBegin
    <3> QED BY <1>0, <3>1
  <2>3. \/ UNCHANGED <<head, files>> /\ Use("turns")
        \/ /\ used' = [used EXCEPT !["turns"] = @ + 1, !["edits"] = @ + 1]
           /\ \E moved, laid, stopped : sync_worktree(s, moved, laid, stopped)
    BY <1>6 DEF StartBegin
  <2>4. used' \in [Counters -> Nat]
    <3>1. [used EXCEPT !["turns"] = @ + 1, !["edits"] = @ + 1] \in [Counters -> Nat]
      BY <1>0, UseTwo DEF Counters
    <3> QED BY <1>b, <2>3, <3>1
  <2>5. head' \in [All -> [RepoSet -> Nat]] /\ files' \in [All -> [RepoSet -> Nat]]
    <3>1. ASSUME NEW moved, NEW laid, NEW stopped, sync_worktree(s, moved, laid, stopped)
          PROVE  head' \in [All -> [RepoSet -> Nat]] /\ files' \in [All -> [RepoSet -> Nat]]
      <4>1. /\ used.edits + 1 \in Nat /\ used.edits + 1 + MaxEdits \in Nat
        <5>1. used.edits \in Nat /\ MaxEdits \in Nat
          BY <1>0, ConstantsAssumption DEF Counters
        <5> QED BY <5>1
      <4>2. head[s] \in [RepoSet -> Nat] /\ files[s] \in [RepoSet -> Nat]
        BY <1>0
      <4>3. PICK h : h = [r \in RepoSet |-> IF r \in moved THEN used.edits + 1 ELSE head[s][r]]
        OBVIOUS
      <4>4. PICK f : f = [r \in RepoSet |-> IF r \in laid THEN used.edits + 1 + MaxEdits
                             ELSE IF r \in moved \cup stopped THEN used.edits + 1 ELSE files[s][r]]
        OBVIOUS
      <4>5. h \in [RepoSet -> Nat] /\ f \in [RepoSet -> Nat]
        BY <4>1, <4>2, <4>3, <4>4
      <4>6. head' = [head EXCEPT ![s] = h] /\ files' = [files EXCEPT ![s] = f]
        BY <3>1, <4>3, <4>4 DEF sync_worktree
      <4> QED BY <1>0, <4>5, <4>6
    <3> QED BY <1>0, <2>3, <3>1
  <2>6. sync' \in [All -> BOOLEAN]
    BY <1>0, <2>1
  <2> QED BY <1>0, <2>1, <2>2, <2>4, <2>5, <2>6
<1>7. ASSUME NEW s \in All, StartTurn(s) \/ Inject(s) PROVE Types'
  <2>1. /\ UNCHANGED row \/ row' = [row EXCEPT ![s] = "running"]
        /\ UNCHANGED prompts \/ prompts' = [prompts EXCEPT ![s] = @ + 1]
        /\ UNCHANGED sync \/ sync' = [sync EXCEPT ![s] = FALSE]
        /\ UNCHANGED <<state, pc, dir, git, before, doomed, undone>>
        /\ UNCHANGED used \/ Use("turns")
    BY <1>7 DEF StartTurn, Inject
  <2>2. prompts' \in [All -> Nat]
    <3>1. prompts \in [All -> Nat]
      BY <1>0
    <3> QED BY ONLY <2>1, <3>1
  <2>3. row' \in [All -> {"none", "pending", "running", "done"}] /\ sync' \in [All -> BOOLEAN]
    BY <1>0, <2>1
  <2> QED BY <1>0, <1>b, <2>1, <2>2, <2>3
<1>8. ASSUME NEW s \in All, AgentWork(s) PROVE Types'
  <2>1. PICK r \in tree[s] :
            \/ files' = [files EXCEPT ![s][r] = used.edits + 1] /\ UNCHANGED head
            \/ head' = [head EXCEPT ![s][r] = files[s][r]] /\ UNCHANGED files
    BY <1>8 DEF AgentWork
  <2>2. /\ used.edits + 1 \in Nat /\ files[s][r] \in Nat /\ r \in RepoSet
        /\ files[s] \in [RepoSet -> Nat] /\ head[s] \in [RepoSet -> Nat]
    BY <1>0 DEF Counters
  <2>3. files' \in [All -> [RepoSet -> Nat]]
    <3>1. CASE files' = [files EXCEPT ![s][r] = used.edits + 1]
      <4>1. [files[s] EXCEPT ![r] = used.edits + 1] \in [RepoSet -> Nat]
        BY ONLY <2>2
      <4> QED BY <1>0, <3>1, <4>1
    <3> QED BY <1>0, <2>1, <3>1
  <2>4. head' \in [All -> [RepoSet -> Nat]]
    <3>1. CASE head' = [head EXCEPT ![s][r] = files[s][r]]
      <4>1. [head[s] EXCEPT ![r] = files[s][r]] \in [RepoSet -> Nat]
        BY ONLY <2>2
      <4> QED BY <1>0, <3>1, <4>1
    <3> QED BY <1>0, <2>1, <3>1
  <2>5. Use("edits") /\ UNCHANGED <<row, state, pc, dir, tree, branch, base, snap, sync, prompts, before, doomed, undone>>
    BY <1>8 DEF AgentWork
  <2> QED BY <1>0, <1>b, <2>3, <2>4, <2>5
<1>10. ASSUME NEW s \in All,
              \/ EndTurn(s) \/ RewindCheck(s) \/ DiscardCheck(s) \/ DiscardMark(s)
              \/ DeleteCheck(s) \/ DeleteRow(s)
       PROVE Types'
  <2>1. /\ UNCHANGED row \/ row' = [row EXCEPT ![s] = "done"] \/ row' = [row EXCEPT ![s] = "none"]
        /\ \/ UNCHANGED pc
           \/ pc' = [pc EXCEPT ![s] = "rewind"] \/ pc' = [pc EXCEPT ![s] = "discard"]
           \/ pc' = [pc EXCEPT ![s] = "delete"] \/ pc' = [pc EXCEPT ![s] = "idle"]
           \/ pc' = [pc EXCEPT ![s] = "gone"]
        /\ UNCHANGED state \/ state' = [state EXCEPT ![s] = "discarded"]
        /\ doomed' \subseteq doomed \cup {s}
        /\ UNCHANGED <<dir, git, sync, prompts, before, undone>>
        /\ UNCHANGED used \/ Use("admin") \/ Use("faults")
    BY <1>10 DEF EndTurn, RewindCheck, DiscardCheck, DiscardMark, DeleteCheck, DeleteRow
  <2>2. row' \in [All -> {"none", "pending", "running", "done"}]
    BY <1>0, <2>1
  <2>3. pc' \in [All -> Stages]
    BY <1>0, <2>1 DEF Stages, Over
  <2>4. state' \in [All -> {"live", "discarded"}]
    BY <1>0, <2>1
  <2> QED BY <1>0, <1>b, <2>1, <2>2, <2>3, <2>4
<1>11. ASSUME NEW s \in All, RewindDo(s) PROVE Types'
  <2>1. /\ pc' = [pc EXCEPT ![s] = "idle"]
        /\ UNCHANGED <<row, state, dir, tree, branch, base, head, snap, sync, prompts, before, doomed, undone>>
        /\ UNCHANGED used \/ Use("faults")
    BY <1>11, <1>c DEF RewindDo
  <2>2. files' \in [All -> [RepoSet -> Nat]]
    <3>1. CASE files' # files
      <4>1. PICK f \in [RepoSet -> Nat] : files' = [files EXCEPT ![s] = f]
        BY <1>0, <1>11, <3>1, Rewound
      <4> QED BY <1>0, <4>1
    <3> QED BY <1>0, <3>1
  <2> QED BY <1>0, <1>b, <2>1, <2>2 DEF Stages, Over
<1>12. ASSUME NEW s \in All, DiscardFiles(s) \/ DeleteFiles(s) PROVE Types'
  <2>1. /\ UNCHANGED <<row, state, sync, prompts, before, doomed, undone, base, head, files>>
        /\ pc' = [pc EXCEPT ![s] = "mark"] \/ pc' = [pc EXCEPT ![s] = "remove"]
        /\ UNCHANGED snap \/ \E left : DeleteSnapshots(s, left)
        /\ UNCHANGED dir \/ \E stays : RemoveDir(s, stays)
        /\ UNCHANGED used \/ Use("faults")
    BY <1>12, <1>c DEF DiscardFiles, DeleteFiles, DiscardTrees
  <2>2. \/ UNCHANGED <<tree, branch>>
        \/ \E refused \in SUBSET tree[s], left \in SUBSET branch[s] :
              /\ branch' = [branch EXCEPT ![s] = left]
              /\ tree' = [tree EXCEPT ![s] = IF s \in dir' THEN refused ELSE {}]
    BY <1>12 DEF DiscardFiles, DeleteFiles, DiscardTrees
  <2>3. tree' \in [All -> SUBSET RepoSet] /\ branch' \in [All -> SUBSET RepoSet]
    <3>1. /\ tree \in [All -> SUBSET RepoSet] /\ branch \in [All -> SUBSET RepoSet]
          /\ tree[s] \in SUBSET RepoSet /\ branch[s] \in SUBSET RepoSet
      BY <1>0
    <3>2. ASSUME NEW refused \in SUBSET tree[s], NEW left \in SUBSET branch[s],
                 branch' = [branch EXCEPT ![s] = left],
                 tree' = [tree EXCEPT ![s] = IF s \in dir' THEN refused ELSE {}]
          PROVE  tree' \in [All -> SUBSET RepoSet] /\ branch' \in [All -> SUBSET RepoSet]
      BY ONLY <3>1, <3>2
    <3> QED BY <2>2, <3>1, <3>2
  <2>4. pc' \in [All -> Stages]
    BY <1>0, <2>1 DEF Stages, Over
  <2>5. DOMAIN snap' = All /\ \A d \in All : \A x \in DOMAIN snap'[d] : snap'[d][x] \in Nat
    <3>1. ASSUME NEW left, DeleteSnapshots(s, left)
          PROVE  DOMAIN snap' = All /\ \A d \in All : \A x \in DOMAIN snap'[d] : snap'[d][x] \in Nat
      <4>1. snap' = [snap EXCEPT ![s] = [x \in {y \in DOMAIN snap[s] : y[2] \in left} |-> snap[s][x]]]
        BY <3>1 DEF DeleteSnapshots
      <4>2. \A x \in DOMAIN snap'[s] : snap'[s][x] \in Nat
        BY <1>0, <4>1
      <4>3. \A d \in All \ {s} : snap'[d] = snap[d]
        BY <1>0, <4>1
      <4> QED BY <1>0, <4>1, <4>2, <4>3
    <3> QED BY <1>0, <2>1, <3>1
  <2>6. dir' \subseteq All
    BY <1>0, <2>1 DEF RemoveDir
  <2> QED BY <1>0, <1>b, <2>1, <2>3, <2>4, <2>5, <2>6
<1>13. ASSUME NEW t \in Tokens, Stage(t) PROVE Types'
  BY <1>0, <1>b, <1>13 DEF Stage
<1>14. CASE Restart
  <2>1. \/ used' = [used EXCEPT !["crashes"] = @ + 1]
        \/ used' = [used EXCEPT !["crashes"] = @ + 1, !["faults"] = @ + 1]
    <3>1. \E b : used' = [used EXCEPT !.crashes = @ + 1, !.faults = IF b THEN @ ELSE @ + 1]
      BY <1>14 DEF Restart
    <3>2. used \in [Counters -> Nat]
      BY <1>0
    <3> QED BY ONLY <3>1, <3>2 DEF Counters
  <2>2. used' \in [Counters -> Nat]
    <3>1. used \in [Counters -> Nat]
      BY <1>0
    <3>2. CASE used' = [used EXCEPT !["crashes"] = @ + 1]
      BY ONLY <3>1, <3>2 DEF Counters
    <3>3. CASE used' = [used EXCEPT !["crashes"] = @ + 1, !["faults"] = @ + 1]
      BY <3>1, <3>3, UseTwo DEF Counters
    <3> QED BY <2>1, <3>2, <3>3
  <2>3. dir' \subseteq All
    <3>1. \E listed, left : Reconcile(listed, left)
      BY <1>14 DEF Restart
    <3> QED BY <1>0, <3>1 DEF Reconcile
  <2>4. pc' \in [All -> Stages]
    BY <1>0, <1>14 DEF Restart, Stages, Over
  <2>5. /\ row' \in [All -> {"none", "pending", "running", "done"}]
        /\ tree' \in [All -> SUBSET RepoSet] /\ sync' \in [All -> BOOLEAN]
    BY <1>0, <1>14 DEF Restart
  <2>6. UNCHANGED <<state, branch, base, head, files, snap, prompts, before, doomed, undone>>
    BY <1>14 DEF Restart
  <2> QED BY <1>0, <2>2, <2>3, <2>4, <2>5, <2>6
<1>15. CASE UNCHANGED vars
  BY <1>0, <1>15 DEF vars
<1> QED BY <1>2, <1>3, <1>4, <1>5, <1>6, <1>7, <1>8, <1>10, <1>11, <1>12, <1>13, <1>14, <1>15
        DEF Next, SessionStep

-----------------------------------------------------------------------------
(* The files. *)

\* A step on session s leaves the files of another session alone.
LEMMA OthersStaged ==
    ASSUME Types, NEW s \in All, \A d \in All : Staged(d),
           \A d \in All \ {s} :
               /\ row'[d] = row[d] /\ pc'[d] = pc[d] /\ tree'[d] = tree[d] /\ branch'[d] = branch[d]
               /\ d \in dir' <=> d \in dir
               /\ d \in doomed' <=> d \in doomed
               /\ undone'[d] = undone[d] /\ sync'[d] = sync[d],
           Staged(s)'
    PROVE  \A d \in All : Staged(d)'
<1>1. ASSUME NEW d \in All \ {s} PROVE Staged(d)'
  <2>1. Staged(d)
    OBVIOUS
  <2> QED BY <1>1, <2>1 DEF Staged, Whole
<1> QED BY <1>1

\* Every step keeps the files a row stands for, and those of the user.
LEMMA StagedNext ==
    ASSUME Inv, [Next]_vars
    PROVE  (\A s \in All : Staged(s)') /\ Adopted \subseteq dir'
<1> USE DEF git
<1>0. Types /\ (\A s \in All : Staged(s)) /\ Adopted \subseteq dir
  BY DEF Inv
<1>a. Sessions \cap Adopted = {} /\ Len(Repos) \in Nat /\ Sessions \subseteq All /\ Adopted \subseteq All
  BY ConstantsAssumption DEF All
<1>1. ASSUME NEW s \in All, NEW from, NEW next \in {"submit", "fork"}, NEW fail \in {"failed", "fork_failed"},
             create_worktrees(s, from, next, fail), UNCHANGED <<row, sync, doomed, undone>>
      PROVE  (\A d \in All : Staged(d)') /\ Adopted \subseteq dir'
  <2>1. PICK k \in 0..Len(Repos) :
            /\ tree' = [tree EXCEPT ![s] = First(k)]
            /\ branch' = [branch EXCEPT ![s] = First(k)]
            /\ \/ k = Len(Repos) /\ pc' = [pc EXCEPT ![s] = next]
               \/ pc' = [pc EXCEPT ![s] = fail]
    BY <1>1 DEF create_worktrees
  <2>2. dir' = dir \cup {s} /\ row[s] = "none" /\ s \in Sessions /\ ~sync[s]
    BY <1>0, <1>1 DEF create_worktrees, Staged
  <2>3. First(Len(Repos)) = RepoSet
    BY DEF First, RepoSet
  <2>4. /\ tree'[s] = First(k) /\ branch'[s] = First(k) /\ row'[s] = "none" /\ s \in dir'
        /\ (k = Len(Repos) /\ pc'[s] = next) \/ pc'[s] = fail
    BY <1>0, <1>1, <2>1, <2>2 DEF Types
  <2>5. Staged(s)'
    <3>1. CASE k = Len(Repos) /\ pc'[s] = next
      BY <1>1, <2>2, <2>3, <2>4, <3>1 DEF Staged, Whole
    <3>2. CASE pc'[s] = fail
      BY <1>1, <2>2, <2>4, <3>2 DEF Staged
    <3> QED BY <2>4, <3>1, <3>2
  <2>6. \A d \in All \ {s} :
            /\ row'[d] = row[d] /\ pc'[d] = pc[d] /\ tree'[d] = tree[d] /\ branch'[d] = branch[d]
            /\ d \in dir' <=> d \in dir
            /\ d \in doomed' <=> d \in doomed
            /\ undone'[d] = undone[d] /\ sync'[d] = sync[d]
    BY <1>0, <1>1, <2>1, <2>2 DEF Types
  <2> QED BY <1>0, <2>2, <2>5, <2>6, OthersStaged
<1>2. ASSUME NEW s \in All, SubmitTrees(s) PROVE (\A d \in All : Staged(d)') /\ Adopted \subseteq dir'
  <2>1. create_worktrees(s, [r \in RepoSet |-> 0], "submit", "failed") /\ UNCHANGED <<row, sync, doomed, undone>>
    BY <1>2 DEF SubmitTrees
  <2> QED BY <1>1, <2>1
<1>3. ASSUME NEW s \in All, NEW src \in All, ForkTrees(src, s)
      PROVE  (\A d \in All : Staged(d)') /\ Adopted \subseteq dir'
  <2>1. create_worktrees(s, head[src], "fork", "fork_failed") /\ UNCHANGED <<row, sync, doomed, undone>>
    BY <1>3 DEF ForkTrees
  <2> QED BY <1>1, <2>1
\* The row is made, and the flip goes on, with all files in place.
<1>4. ASSUME NEW s \in All, UNCHANGED <<dir, git, sync, doomed, undone>>,
             \/ pc[s] = "submit" /\ row' = [row EXCEPT ![s] = "pending"] /\ pc' = [pc EXCEPT ![s] = "idle"]
             \/ pc[s] = "fork" /\ row' = [row EXCEPT ![s] = "pending"] /\ pc' = [pc EXCEPT ![s] = "flip"]
             \/ pc[s] = "flip" /\ row' = [row EXCEPT ![s] = "done"] /\ pc' = [pc EXCEPT ![s] = "idle"]
             \/ pc[s] = "flip" /\ UNCHANGED row /\ pc' = [pc EXCEPT ![s] = "undo"]
      PROVE  (\A d \in All : Staged(d)') /\ Adopted \subseteq dir'
  <2>1. /\ Staged(s)
        /\ row \in [All -> {"none", "pending", "running", "done"}] /\ pc \in [All -> Stages]
    BY <1>0 DEF Types
  <2>2. s \in Sessions /\ ~sync'[s] /\ row'[s] # "none" /\ (s \notin doomed /\ "row" \notin undone[s] => Whole(s))
    BY <1>4, <2>1 DEF Staged
  <2>3. Whole(s)' <=> Whole(s)
    BY <1>4 DEF Whole
  <2>4. pc'[s] = "idle" \/ (pc'[s] \in {"flip", "undo"} /\ row'[s] = "pending")
    BY <1>4, <2>1 DEF Staged
  <2>5. Staged(s)'
    BY <1>4, <2>2, <2>3, <2>4 DEF Staged
  <2>6. \A d \in All \ {s} : row'[d] = row[d] /\ pc'[d] = pc[d]
    BY <1>4, <2>1
  <2> QED BY <1>0, <1>4, <2>5, <2>6, OthersStaged
\* A roll-back says what it leaves.
<1>5. ASSUME NEW s \in All, NEW lost, RemoveBestEffort(s, lost), UNCHANGED <<sync, doomed>>,
             pc' = [pc EXCEPT ![s] = "refused"],
             \/ pc[s] \in {"submit", "fork"} /\ UNCHANGED row
             \/ pc[s] = "undo" /\ row' = IF "row" \in lost THEN row ELSE [row EXCEPT ![s] = "none"]
      PROVE  (\A d \in All : Staged(d)') /\ Adopted \subseteq dir'
  <2>1. Staged(s) /\ s \in Sessions /\ s \notin Adopted
    BY <1>0, <1>5, <1>a DEF Staged
  <2>2. PICK kept \in SUBSET tree[s] :
            ("dir" \in lost \/ kept = {}) /\ tree' = [tree EXCEPT ![s] = kept]
    BY <1>5 DEF RemoveBestEffort
  <2>3. /\ dir' = (IF "dir" \in lost THEN dir ELSE dir \ {s})
        /\ undone' = [undone EXCEPT ![s] = lost] /\ UNCHANGED branch
    BY <1>5 DEF RemoveBestEffort
  <2>4. row'[s] \in {"none", "pending"} /\ (row'[s] # "none" => "row" \in lost)
    BY <1>0, <1>5, <2>1 DEF Types, Staged
  <2>5. pc'[s] = "refused" /\ undone'[s] = lost /\ tree'[s] = kept
    BY <1>0, <1>5, <2>2, <2>3 DEF Types
  <2>6. s \in dir' \/ tree'[s] # {} => "dir" \in lost
    BY <2>2, <2>3, <2>5
  <2>10. ~sync'[s]
    BY <1>5, <2>1 DEF Staged
  <2>7. Staged(s)'
    BY <2>1, <2>4, <2>5, <2>6, <2>10 DEF Staged
  <2>8. \A d \in All \ {s} :
            /\ row'[d] = row[d] /\ pc'[d] = pc[d] /\ tree'[d] = tree[d] /\ branch'[d] = branch[d]
            /\ d \in dir' <=> d \in dir
            /\ d \in doomed' <=> d \in doomed
            /\ undone'[d] = undone[d] /\ sync'[d] = sync[d]
    BY <1>0, <1>5, <2>2, <2>3 DEF Types
  <2>9. Adopted \subseteq dir'
    BY <1>0, <2>1, <2>3
  <2> QED BY <1>0, <2>7, <2>8, <2>9, OthersStaged
<1>6. ASSUME NEW s \in All, SubmitRow(s) \/ ForkRow(s) \/ ForkFlip(s) \/ ForkUndo(s)
      PROVE  (\A d \in All : Staged(d)') /\ Adopted \subseteq dir'
  <2>1. CASE ForkFlip(s)
    BY <1>4, <2>1 DEF ForkFlip
  <2>2. CASE ForkUndo(s)
    BY <1>5, <2>2 DEF ForkUndo
  <2>3. CASE SubmitRow(s)
    BY <1>4, <1>5, <2>3 DEF SubmitRow, CreateRow
  <2>4. CASE ForkRow(s)
    BY <1>4, <1>5, <2>4 DEF ForkRow, CreateRow
  <2> QED BY <1>6, <2>1, <2>2, <2>3, <2>4
\* What neither makes nor removes a row or a file.
<1>7. ASSUME NEW s \in All,
             \/ FollowUp(s) \/ StartBegin(s) \/ StartTurn(s) \/ Inject(s) \/ AgentWork(s) \/ EndTurn(s)
             \/ RewindCheck(s) \/ RewindDo(s) \/ DiscardMark(s)
      PROVE  (\A d \in All : Staged(d)') /\ Adopted \subseteq dir'
  <2> USE DEF FollowUp, StartBegin, StartTurn, Inject, AgentWork, EndTurn, RewindCheck, RewindDo,
              DiscardMark, LiveSession
  <2>1. UNCHANGED <<dir, tree, branch, doomed, undone>>
    BY <1>7
  <2>2. \/ UNCHANGED row
        \/ row[s] = "done" /\ row' = [row EXCEPT ![s] = "pending"] /\ UNCHANGED pc
        \/ row[s] = "pending" /\ row' = [row EXCEPT ![s] = "running"] /\ UNCHANGED pc /\ sync[s]
        \/ /\ row[s] \in {"pending", "running"} /\ (row[s] = "pending" => pc[s] \notin {"flip", "undo"})
           /\ row' = [row EXCEPT ![s] = "done"]
           /\ pc' = IF pc[s] = "refused" THEN [pc EXCEPT ![s] = "idle"] ELSE pc
    BY <1>7
  <2>3. \/ UNCHANGED pc
        \/ pc' = [pc EXCEPT ![s] = "idle"] /\ (pc[s] \in {"rewind", "mark"} \/ row' # row)
        \/ pc' = [pc EXCEPT ![s] = "rewind"] /\ row[s] = "done" /\ UNCHANGED row
    <3>1. CASE EndTurn(s)
      BY <1>0, <3>1 DEF Types
    <3> QED BY <1>7, <3>1
  <2>4. \/ UNCHANGED sync
        \/ sync' = [sync EXCEPT ![s] = FALSE]
        \/ /\ sync' = [sync EXCEPT ![s] = TRUE] /\ row[s] = "pending" /\ UNCHANGED <<row, pc>>
           /\ pc[s] \notin {"flip", "undo", "refused"}
    BY <1>7 DEF Queued
  <2>5. \A d \in All \ {s} : row'[d] = row[d] /\ pc'[d] = pc[d] /\ sync'[d] = sync[d]
    BY <1>0, <2>2, <2>3, <2>4 DEF Types
  <2>6. Staged(s) /\ sync[s] \in BOOLEAN
    BY <1>0 DEF Types
  <2> HIDE DEF FollowUp, StartBegin, StartTurn, Inject, AgentWork, EndTurn, RewindCheck, RewindDo,
              DiscardMark, LiveSession
  <2>7. /\ row'[s] # "none" <=> row[s] # "none"
        /\ \/ pc'[s] = pc[s]
           \/ pc'[s] = "idle" /\ row[s] # "none"
           \/ pc'[s] = "rewind" /\ row[s] # "none"
        /\ pc'[s] \in {"flip", "undo"} => row'[s] = row[s]
        /\ pc'[s] = "refused" => row'[s] = row[s]
    <3>1. row \in [All -> {"none", "pending", "running", "done"}] /\ pc \in [All -> Stages]
      BY <1>0 DEF Types
    <3>2. pc[s] \in {"flip", "undo"} => row[s] = "pending" /\ ~sync[s]
      BY <2>6 DEF Staged
    <3>3. pc[s] = "refused" => row[s] \in {"none", "pending"} /\ ~sync[s]
      BY <2>6 DEF Staged
    <3>4. pc[s] \in {"rewind", "mark"} => row[s] # "none"
      BY <2>6 DEF Staged
    <3> QED BY <2>2, <2>3, <3>1, <3>2, <3>3, <3>4
  <2>8. sync'[s] => sync[s] \/ (row'[s] = "pending" /\ pc'[s] \notin {"submit", "fork", "flip", "undo", "refused"})
    <3>1. pc[s] \in {"submit", "fork"} => row[s] = "none"
      BY <2>6 DEF Staged
    <3> QED BY <1>0, <2>4, <3>1 DEF Types
  <2>9. Staged(s)'
    BY <2>1, <2>6, <2>7, <2>8 DEF Staged, Whole
  <2> QED BY <1>0, <2>1, <2>5, <2>9, OthersStaged
<1>8. ASSUME NEW s \in All, DiscardCheck(s) \/ DeleteCheck(s)
      PROVE  (\A d \in All : Staged(d)') /\ Adopted \subseteq dir'
  <2>1. /\ UNCHANGED <<dir, tree, branch, sync, undone>> /\ doomed' = doomed \cup {s}
        /\ UNCHANGED row \/ row' = [row EXCEPT ![s] = "done"]
        /\ pc' = [pc EXCEPT ![s] = "discard"] \/ pc' = [pc EXCEPT ![s] = "delete"]
    BY <1>8 DEF DiscardCheck, DeleteCheck
  <2>5. row'[s] = "done"
    BY <1>0, <1>8 DEF DiscardCheck, DeleteCheck, LiveSession, Types
  <2>2. \A d \in All \ {s} : row'[d] = row[d] /\ pc'[d] = pc[d] /\ (d \in doomed' <=> d \in doomed)
    BY <1>0, <2>1 DEF Types
  <2>3. pc'[s] \in {"discard", "delete"} /\ s \in doomed'
    BY <1>0, <2>1 DEF Types
  <2>4. Staged(s)'
    BY <2>3, <2>5 DEF Staged
  <2> QED BY <1>0, <2>1, <2>2, <2>4, OthersStaged
<1>9. ASSUME NEW s \in All, DiscardFiles(s) \/ DeleteFiles(s)
      PROVE  (\A d \in All : Staged(d)') /\ Adopted \subseteq dir'
  <2>1. /\ pc[s] \in {"discard", "delete"} /\ UNCHANGED <<row, sync, doomed, undone>>
        /\ pc' = [pc EXCEPT ![s] = "mark"] \/ pc' = [pc EXCEPT ![s] = "remove"]
    BY <1>9 DEF DiscardFiles, DeleteFiles
  <2>2. dir' = dir \/ (s \in Sessions /\ dir' = dir \ {s})
    <3>1. (\E stays : RemoveDir(s, stays)) \/ UNCHANGED dir
      BY <1>9 DEF DiscardFiles, DeleteFiles, DiscardTrees
    <3> QED BY <3>1 DEF RemoveDir
  <2>3. \/ UNCHANGED <<tree, branch>>
        \/ \E e, l : branch' = [branch EXCEPT ![s] = l] /\ tree' = [tree EXCEPT ![s] = e]
    <3>1. CASE \E also : DiscardTrees(s, also)
      BY <3>1 DEF DiscardTrees
    <3> QED BY <1>9, <3>1 DEF DiscardFiles, DeleteFiles
  <2>4. \A d \in All \ {s} :
            /\ row'[d] = row[d] /\ pc'[d] = pc[d] /\ tree'[d] = tree[d] /\ branch'[d] = branch[d]
            /\ d \in dir' <=> d \in dir
            /\ d \in doomed' <=> d \in doomed
            /\ undone'[d] = undone[d] /\ sync'[d] = sync[d]
    BY <1>0, <2>1, <2>2, <2>3 DEF Types
  <2>5. pc'[s] \in {"mark", "remove"} /\ s \in doomed' /\ row'[s] # "none"
    BY <1>0, <2>1 DEF Types, Staged
  <2>6. Staged(s)'
    BY <2>5 DEF Staged
  <2>7. Adopted \subseteq dir'
    BY <1>0, <1>a, <2>2
  <2> QED BY <1>0, <2>4, <2>6, <2>7, OthersStaged
<1>10. ASSUME NEW s \in All, DeleteRow(s) PROVE (\A d \in All : Staged(d)') /\ Adopted \subseteq dir'
  <2>1. /\ pc[s] = "remove" /\ UNCHANGED <<dir, tree, branch, sync, doomed, undone>>
        /\ \/ row' = [row EXCEPT ![s] = "none"] /\ pc' = [pc EXCEPT ![s] = "gone"]
           \/ UNCHANGED row /\ pc' = [pc EXCEPT ![s] = "idle"]
    BY <1>10 DEF DeleteRow
  <2>2. \A d \in All \ {s} : row'[d] = row[d] /\ pc'[d] = pc[d]
    BY <1>0, <2>1 DEF Types
  <2>3. (pc'[s] = "gone" \/ (pc'[s] = "idle" /\ row'[s] # "none")) /\ s \in doomed'
    BY <1>0, <2>1 DEF Types, Staged
  <2>4. Staged(s)'
    BY <2>3 DEF Staged
  <2> QED BY <1>0, <2>1, <2>2, <2>4, OthersStaged
<1>11. CASE Restart
  <2>1. PICK listed, left :
            /\ listed \in {{s \in All : row[s] # "none"}, {}}
            /\ Reconcile(listed, left)
    BY <1>11 DEF Restart
  <2>2. dir' \subseteq dir /\ Adopted \subseteq dir'
    BY <1>0, <1>a, <2>1 DEF Reconcile
  <2>3. \A s \in All : row[s] # "none" /\ s \in dir => s \in dir'
    BY <2>1 DEF Reconcile
  <2>4. /\ pc' = [s \in All |-> IF row[s] # "none" THEN "idle"
                                ELSE IF pc[s] \in Over THEN pc[s] ELSE "lost"]
        /\ row' = [s \in All |-> IF row[s] = "running" THEN "done" ELSE row[s]]
        /\ tree' = [s \in All |-> IF s \in dir \ dir' THEN {} ELSE tree[s]]
        /\ sync' = [s \in All |-> FALSE]
        /\ UNCHANGED <<branch, doomed, undone>>
    BY <1>11 DEF Restart
  <2>5. ASSUME NEW s \in All PROVE Staged(s)'
    <3>1. Staged(s)
      BY <1>0
    <3>2. /\ row'[s] = "none" <=> row[s] = "none"
          /\ \/ pc'[s] = "idle" /\ row[s] # "none"
             \/ pc'[s] = pc[s] /\ pc[s] \in Over /\ row[s] = "none"
             \/ pc'[s] = "lost"
          /\ tree'[s] = IF s \in dir \ dir' THEN {} ELSE tree[s]
          /\ ~sync'[s]
      BY <2>4
    <3>3. row[s] # "none" /\ Whole(s) => Whole(s)'
      BY <2>2, <2>3, <2>4, <3>2 DEF Whole
    <3>4. tree'[s] # {} => tree[s] # {}
      BY <3>2
    <3>5. pc'[s] = "refused" =>
              /\ row'[s] = "none"
              /\ s \in dir' \/ tree'[s] # {} => "dir" \in undone'[s]
      BY <2>2, <2>4, <3>1, <3>2, <3>4 DEF Staged
    <3> QED BY <2>2, <2>4, <3>1, <3>2, <3>3, <3>5 DEF Staged, Over
  <2> QED BY <2>2, <2>5
<1>12. CASE (\E t \in Tokens : Stage(t)) \/ UNCHANGED vars
  <2>1. UNCHANGED <<row, pc, dir, tree, branch, sync, doomed, undone>>
    BY <1>12 DEF Stage, vars
  <2> QED BY <1>0, <2>1 DEF Staged, Whole
<1> QED BY <1>2, <1>3, <1>6, <1>7, <1>8, <1>9, <1>10, <1>11, <1>12 DEF Next, SessionStep

-----------------------------------------------------------------------------
(* What a rewind can go back to. *)

\* What is remembered of a session stays while more is remembered and no ref is made.
LEMMA SameMemory ==
    ASSUME NEW d, RefsKnown(d), BaseKnown(d),
           DOMAIN before[d] \subseteq DOMAIN before'[d],
           \A k \in DOMAIN before[d] : before[d][k] \subseteq before'[d][k],
           \A x \in DOMAIN snap'[d] : x \in DOMAIN snap[d] /\ snap'[d][x] = snap[d][x],
           base'[d] = base[d],
           row'[d] # "none" \/ pc'[d] # "idle" => row[d] # "none" \/ pc[d] # "idle"
    PROVE  RefsKnown(d)' /\ BaseKnown(d)'
<1>1. RefsKnown(d)'
  <2>1. ASSUME NEW x \in DOMAIN snap'[d]
        PROVE  x[1] \in DOMAIN before'[d] /\ \E f \in before'[d][x[1]] : snap'[d][x] = f[x[2]]
    <3>1. x[1] \in DOMAIN before[d] /\ \E f \in before[d][x[1]] : snap[d][x] = f[x[2]]
      BY DEF RefsKnown
    <3> QED BY <3>1
  <2> QED BY <2>1 DEF RefsKnown
<1>2. BaseKnown(d)'
  BY DEF BaseKnown
<1> QED BY <1>1, <1>2

\* One more request for a turn.
LEMMA AskedGrows ==
    ASSUME NEW b, NEW k, NEW f
    PROVE  /\ k \in DOMAIN Asked(b, k, f) /\ f \in Asked(b, k, f)[k]
           /\ DOMAIN b \subseteq DOMAIN Asked(b, k, f)
           /\ \A i \in DOMAIN b : b[i] \subseteq Asked(b, k, f)[i]
BY DEF Asked

LEMMA MemoryNext ==
    ASSUME Inv, [Next]_vars
    PROVE  \A s \in All : RefsKnown(s)' /\ BaseKnown(s)'
<1> USE DEF git
<1>0. Types /\ (\A s \in All : Staged(s) /\ RefsKnown(s) /\ BaseKnown(s))
  BY DEF Inv
<1>1. ASSUME NEW s \in All, NEW from, NEW next, NEW fail,
             create_worktrees(s, from, next, fail), UNCHANGED row
      PROVE  \A d \in All : RefsKnown(d)' /\ BaseKnown(d)'
  <2>1. /\ base' = [base EXCEPT ![s] = from] /\ before' = [before EXCEPT ![s] = Asked(before[s], 0, from)]
        /\ pc' = [pc EXCEPT ![s] = next] \/ pc' = [pc EXCEPT ![s] = fail]
        /\ UNCHANGED snap
    BY <1>1 DEF create_worktrees
  <2>2. before'[s] = Asked(before[s], 0, from) /\ base'[s] = from
    BY <1>0, <2>1 DEF Types
  <2>3. BaseKnown(s)'
    BY <2>2, AskedGrows DEF BaseKnown
  <2>4. RefsKnown(s)'
    <3>1. ASSUME NEW x \in DOMAIN snap'[s]
          PROVE  x[1] \in DOMAIN before'[s] /\ \E f \in before'[s][x[1]] : snap'[s][x] = f[x[2]]
      <4>1. x[1] \in DOMAIN before[s] /\ \E f \in before[s][x[1]] : snap[s][x] = f[x[2]]
        BY <1>0, <2>1 DEF RefsKnown
      <4>2. before[s][x[1]] \subseteq before'[s][x[1]] /\ x[1] \in DOMAIN before'[s]
        BY <2>2, <4>1, AskedGrows
      <4> QED BY <2>1, <4>1, <4>2
    <3> QED BY <3>1 DEF RefsKnown
  <2>5. ASSUME NEW d \in All \ {s} PROVE RefsKnown(d)' /\ BaseKnown(d)'
    <3>1. base'[d] = base[d] /\ before'[d] = before[d] /\ pc'[d] = pc[d] /\ snap'[d] = snap[d] /\ row'[d] = row[d]
      BY <1>0, <1>1, <2>1 DEF Types
    <3>2. RefsKnown(d) /\ BaseKnown(d)
      BY <1>0
    <3> QED BY <3>1, <3>2, SameMemory
  <2> QED BY <2>3, <2>4, <2>5
<1>2. ASSUME NEW s \in All, SubmitTrees(s) \/ \E src \in All : ForkTrees(src, s)
      PROVE \A d \in All : RefsKnown(d)' /\ BaseKnown(d)'
  BY <1>1, <1>2 DEF SubmitTrees, ForkTrees
\* What makes no ref and remembers nothing.
<1>3. ASSUME NEW s \in All, UNCHANGED <<before, base>>,
             \A d \in All : \A x \in DOMAIN snap'[d] : x \in DOMAIN snap[d] /\ snap'[d][x] = snap[d][x],
             \A d \in All \ {s} : row'[d] = row[d] /\ pc'[d] = pc[d],
             row'[s] # "none" \/ pc'[s] # "idle" => row[s] # "none" \/ pc[s] # "idle"
      PROVE  \A d \in All : RefsKnown(d)' /\ BaseKnown(d)'
  <2>1. ASSUME NEW d \in All PROVE RefsKnown(d)' /\ BaseKnown(d)'
    <3>1. row'[d] # "none" \/ pc'[d] # "idle" => row[d] # "none" \/ pc[d] # "idle"
      BY <1>3
    <3>2. \A x \in DOMAIN snap'[d] : x \in DOMAIN snap[d] /\ snap'[d][x] = snap[d][x]
      BY <1>3
    <3>3. RefsKnown(d) /\ BaseKnown(d)
      BY <1>0
    <3> QED BY <1>3, <3>1, <3>2, <3>3, SameMemory
  <2> QED BY <2>1
<1>4. ASSUME NEW s \in All,
             \/ SubmitRow(s) \/ ForkRow(s) \/ ForkFlip(s) \/ ForkUndo(s)
             \/ StartTurn(s) \/ Inject(s) \/ AgentWork(s) \/ EndTurn(s) \/ RewindCheck(s) \/ RewindDo(s)
             \/ DiscardCheck(s) \/ DiscardMark(s) \/ DeleteCheck(s) \/ DeleteFiles(s) \/ DeleteRow(s)
      PROVE  \A d \in All : RefsKnown(d)' /\ BaseKnown(d)'
  <2>1. UNCHANGED <<before, base, snap>>
    <3>1. CASE SubmitRow(s) \/ ForkRow(s) \/ ForkFlip(s) \/ ForkUndo(s)
      BY <3>1 DEF SubmitRow, ForkRow, ForkFlip, ForkUndo, CreateRow, RemoveBestEffort
    <3>2. CASE StartTurn(s) \/ Inject(s) \/ AgentWork(s) \/ EndTurn(s) \/ RewindCheck(s) \/ RewindDo(s)
      BY <3>2 DEF StartTurn, Inject, AgentWork, EndTurn, RewindCheck, RewindDo
    <3>3. CASE DiscardCheck(s) \/ DiscardMark(s) \/ DeleteCheck(s) \/ DeleteFiles(s) \/ DeleteRow(s)
      BY <3>3 DEF DiscardCheck, DiscardMark, DeleteCheck, DeleteFiles, DeleteRow, DiscardTrees
    <3> QED BY <1>4, <3>1, <3>2, <3>3
  <2>2. (UNCHANGED row \/ \E e : row' = [row EXCEPT ![s] = e]) /\ (UNCHANGED pc \/ \E e : pc' = [pc EXCEPT ![s] = e])
    <3>1. CASE SubmitRow(s) \/ ForkRow(s) \/ ForkFlip(s) \/ ForkUndo(s)
      BY <3>1 DEF SubmitRow, ForkRow, ForkFlip, ForkUndo, CreateRow
    <3>2. CASE StartTurn(s) \/ Inject(s) \/ AgentWork(s) \/ EndTurn(s) \/ RewindCheck(s) \/ RewindDo(s)
      BY <3>2 DEF StartTurn, Inject, AgentWork, EndTurn, RewindCheck, RewindDo
    <3>3. CASE DiscardCheck(s) \/ DiscardMark(s) \/ DeleteCheck(s) \/ DeleteFiles(s) \/ DeleteRow(s)
      BY <3>3 DEF DiscardCheck, DiscardMark, DeleteCheck, DeleteFiles, DeleteRow
    <3> QED BY <1>4, <3>1, <3>2, <3>3
  <2>3. \A d \in All \ {s} : row'[d] = row[d] /\ pc'[d] = pc[d]
    BY <1>0, <2>2 DEF Types
  <2>4. row[s] # "none" \/ pc[s] # "idle"
    <3>1. CASE SubmitRow(s) \/ ForkRow(s) \/ ForkFlip(s) \/ ForkUndo(s)
      BY <3>1 DEF SubmitRow, ForkRow, ForkFlip, ForkUndo, CreateRow
    <3>2. CASE StartTurn(s)
      BY <1>0, <3>2 DEF StartTurn, Staged
    <3>3. CASE Inject(s) \/ AgentWork(s) \/ EndTurn(s) \/ RewindCheck(s) \/ RewindDo(s)
      BY <3>3 DEF Inject, AgentWork, EndTurn, RewindCheck, LiveSession, RewindDo
    <3>4. CASE DiscardCheck(s) \/ DiscardMark(s) \/ DeleteCheck(s) \/ DeleteFiles(s) \/ DeleteRow(s)
      BY <3>4 DEF DiscardCheck, LiveSession, DiscardMark, DeleteCheck, DeleteFiles, DeleteRow
    <3> QED BY <1>4, <3>1, <3>2, <3>3, <3>4
  <2>5. \A d \in All : \A x \in DOMAIN snap'[d] : x \in DOMAIN snap[d] /\ snap'[d][x] = snap[d][x]
    BY <2>1
  <2> QED BY <1>3, <2>1, <2>3, <2>4, <2>5
<1>5. ASSUME NEW s \in All, DiscardFiles(s) PROVE \A d \in All : RefsKnown(d)' /\ BaseKnown(d)'
  <2>1. /\ pc[s] = "discard" /\ pc' = [pc EXCEPT ![s] = "mark"] /\ UNCHANGED <<row, before, base>>
    BY <1>5 DEF DiscardFiles, DiscardTrees
  <2>2. PICK left : snap' = [snap EXCEPT ![s] = [x \in {y \in DOMAIN snap[s] : y[2] \in left} |-> snap[s][x]]]
    BY <1>5 DEF DiscardFiles, DeleteSnapshots
  <2>3. ASSUME NEW d \in All, NEW x \in DOMAIN snap'[d] PROVE x \in DOMAIN snap[d] /\ snap'[d][x] = snap[d][x]
    <3>1. CASE d = s
      BY <1>0, <2>2, <2>3, <3>1 DEF Types
    <3>2. CASE d # s
      BY <1>0, <2>2, <2>3, <3>2 DEF Types
    <3> QED BY <3>1, <3>2
  <2>4. \A d \in All \ {s} : row'[d] = row[d] /\ pc'[d] = pc[d]
    BY <1>0, <2>1 DEF Types
  <2>5. row'[s] # "none" \/ pc'[s] # "idle" => row[s] # "none" \/ pc[s] # "idle"
    BY <2>1
  <2> QED BY <1>3, <2>1, <2>3, <2>4, <2>5
<1>6. ASSUME NEW s \in All, FollowUp(s) PROVE \A d \in All : RefsKnown(d)' /\ BaseKnown(d)'
  <2>1. /\ before' = [before EXCEPT ![s] = Asked(before[s], prompts[s], files[s])]
        /\ row[s] = "done" /\ row' = [row EXCEPT ![s] = "pending"] /\ UNCHANGED <<pc, base>>
    BY <1>6 DEF FollowUp
  <2>2. PICK ok :
            \/ UNCHANGED snap
            \/ snap' = [snap EXCEPT ![s] = [x \in DOMAIN snap[s] \cup ({prompts[s]} \X ok) |->
                            IF x \in {prompts[s]} \X ok THEN files[s][x[2]] ELSE snap[s][x]]]
    BY <1>6 DEF FollowUp, Snapshot, snapshot_worktree
  <2>3. before'[s] = Asked(before[s], prompts[s], files[s])
    BY <1>0, <2>1 DEF Types
  <2>4. BaseKnown(s)'
    <3>1. BaseKnown(s) /\ base'[s] = base[s]
      BY <1>0, <2>1
    <3> QED BY <2>1, <2>3, <3>1, AskedGrows DEF BaseKnown
  <2>5. RefsKnown(s)'
    <3>1. ASSUME NEW x \in DOMAIN snap[s], snap'[s][x] = snap[s][x]
          PROVE  x[1] \in DOMAIN before'[s] /\ \E f \in before'[s][x[1]] : snap'[s][x] = f[x[2]]
      <4>1. x[1] \in DOMAIN before[s] /\ \E f \in before[s][x[1]] : snap[s][x] = f[x[2]]
        BY <1>0 DEF RefsKnown
      <4>2. before[s][x[1]] \subseteq before'[s][x[1]] /\ x[1] \in DOMAIN before'[s]
        BY <2>3, <4>1, AskedGrows
      <4> QED BY <3>1, <4>1, <4>2
    <3>2. ASSUME NEW x \in {prompts[s]} \X ok, snap'[s][x] = files[s][x[2]]
          PROVE  x[1] \in DOMAIN before'[s] /\ \E f \in before'[s][x[1]] : snap'[s][x] = f[x[2]]
      <4>1. x[1] = prompts[s]
        OBVIOUS
      <4> QED BY <2>3, <3>2, <4>1, AskedGrows
    <3>3. CASE UNCHANGED snap
      BY <3>1, <3>3 DEF RefsKnown
    <3>4. CASE snap' = [snap EXCEPT ![s] = [x \in DOMAIN snap[s] \cup ({prompts[s]} \X ok) |->
                            IF x \in {prompts[s]} \X ok THEN files[s][x[2]] ELSE snap[s][x]]]
      <4>1. snap'[s] = [x \in DOMAIN snap[s] \cup ({prompts[s]} \X ok) |->
                            IF x \in {prompts[s]} \X ok THEN files[s][x[2]] ELSE snap[s][x]]
        BY <1>0, <3>4 DEF Types
      <4> QED BY <3>1, <3>2, <4>1 DEF RefsKnown
    <3> QED BY <2>2, <3>3, <3>4
  <2>6. ASSUME NEW d \in All \ {s} PROVE RefsKnown(d)' /\ BaseKnown(d)'
    <3>1. before'[d] = before[d] /\ snap'[d] = snap[d] /\ row'[d] = row[d]
      BY <1>0, <2>1, <2>2 DEF Types
    <3>2. RefsKnown(d) /\ BaseKnown(d)
      BY <1>0
    <3> QED BY <2>1, <3>1, <3>2, SameMemory
  <2> QED BY <2>4, <2>5, <2>6
<1>7. ASSUME NEW s \in All, StartBegin(s) PROVE \A d \in All : RefsKnown(d)' /\ BaseKnown(d)'
  <2>1. /\ before' = [before EXCEPT ![s] = IF prompts[s] \in DOMAIN before[s] THEN before[s]
                                           ELSE Asked(before[s], prompts[s], files[s])]
        /\ UNCHANGED <<row, pc, base, snap>>
    BY <1>7 DEF StartBegin
  <2>2. before'[s] = before[s] \/ before'[s] = Asked(before[s], prompts[s], files[s])
    BY <1>0, <2>1 DEF Types
  <2>3. \A d \in All \ {s} : before'[d] = before[d]
    BY <1>0, <2>1 DEF Types
  <2>4. ASSUME NEW d \in All PROVE RefsKnown(d)' /\ BaseKnown(d)'
    <3>1. DOMAIN before[d] \subseteq DOMAIN before'[d] /\ \A k \in DOMAIN before[d] : before[d][k] \subseteq before'[d][k]
      BY <2>2, <2>3, AskedGrows
    <3>2. RefsKnown(d) /\ BaseKnown(d)
      BY <1>0
    <3> QED BY <2>1, <3>1, <3>2, SameMemory
  <2> QED BY <2>4
<1>8. CASE Restart
  <2>1. /\ pc' = [s \in All |-> IF row[s] # "none" THEN "idle"
                                ELSE IF pc[s] \in Over THEN pc[s] ELSE "lost"]
        /\ row' = [s \in All |-> IF row[s] = "running" THEN "done" ELSE row[s]]
        /\ UNCHANGED <<before, snap, base>>
    BY <1>8 DEF Restart
  <2>2. ASSUME NEW d \in All PROVE RefsKnown(d)' /\ BaseKnown(d)'
    <3>1. row'[d] # "none" \/ pc'[d] # "idle" => row[d] # "none" \/ pc[d] # "idle"
      BY <2>1 DEF Over
    <3>2. RefsKnown(d) /\ BaseKnown(d)
      BY <1>0
    <3> QED BY <2>1, <3>1, <3>2, SameMemory
  <2> QED BY <2>2
<1>9. CASE (\E t \in Tokens : Stage(t)) \/ UNCHANGED vars
  <2>1. UNCHANGED <<row, pc, before, snap, base>>
    BY <1>9 DEF Stage, vars
  <2>2. ASSUME NEW d \in All PROVE RefsKnown(d)' /\ BaseKnown(d)'
    <3>1. RefsKnown(d) /\ BaseKnown(d)
      BY <1>0
    <3> QED BY <2>1, <3>1, SameMemory
  <2> QED BY <2>2
<1> QED BY <1>2, <1>4, <1>5, <1>6, <1>7, <1>8, <1>9 DEF Next, SessionStep

-----------------------------------------------------------------------------
(* The theorems. *)

LEMMA InvInit == Init => Inv
<1> SUFFICES ASSUME Init PROVE Inv
  OBVIOUS
<1>1. Types
  <2>1. base \in [All -> [RepoSet -> Nat]]
    BY DEF Init
  <2>2. used \in [Counters -> Nat]
    <3>1. used = [turns |-> 0, edits |-> 0, faults |-> 0, crashes |-> 0, admin |-> 0]
      BY DEF Init
    <3> QED BY <3>1 DEF Counters
  <2>3. DOMAIN snap = All /\ \A s \in All : DOMAIN snap[s] = {}
    BY DEF Init
  <2> QED BY <2>1, <2>2, <2>3 DEF Init, Types, Stages, Over, All
<1>2. Adopted \subseteq dir
  BY DEF Init
<1>3. ASSUME NEW s \in All PROVE Staged(s)
  <2>1. pc[s] = "idle" /\ (s \in Sessions => row[s] = "none") /\ ~sync[s]
    BY ConstantsAssumption DEF Init
  <2> QED BY <2>1 DEF Staged
<1>4. ASSUME NEW s \in All PROVE RefsKnown(s) /\ BaseKnown(s)
  <2>1. snap[s] = <<>> /\ pc[s] = "idle" /\ (s \in Sessions => row[s] = "none")
    BY ConstantsAssumption DEF Init
  <2>2. DOMAIN snap[s] = {}
    BY <2>1
  <2> QED BY <2>1, <2>2 DEF RefsKnown, BaseKnown
<1> QED BY <1>1, <1>2, <1>3, <1>4 DEF Inv

LEMMA Invariance == Spec => []Inv
<1>1. Inv /\ [Next]_vars => Inv'
  <2> SUFFICES ASSUME Inv, [Next]_vars PROVE Inv'
    OBVIOUS
  <2>1. Types'
    BY TypesNext
  <2>2. \A s \in All : Staged(s)' /\ RefsKnown(s)' /\ BaseKnown(s)'
    BY StagedNext, MemoryNext
  <2>3. Adopted \subseteq dir'
    BY StagedNext
  <2> QED BY <2>1, <2>2, <2>3 DEF Inv, All
<1> QED BY <1>1, InvInit, PTL DEF Spec

\* submit.rs:786, admin.rs:35, recover.rs:161: a row nobody asked to discard or delete has its
\* directory, its worktrees and its branches, through faults, crashes and boots, unless a
\* roll-back could not remove the row itself; the directory of an adopted session is never
\* removed.
THEOREM RowsKeepTheirFiles == Spec => []RowHasWorkspace
<1>1. Inv => RowHasWorkspace
  BY DEF Inv, Staged, Whole, RowHasWorkspace, All
<1> QED BY <1>1, Invariance, PTL

\* submit.rs:185, 786, 815: a session the store refused leaves a row only where the roll-back
\* could not remove the row, and worktrees or a directory only where it could not remove those.
THEOREM RefusalsLeaveNothing == Spec => []RefusedLeavesNothing
<1>1. Inv => RefusedLeavesNothing
  BY DEF Inv, Staged, RefusedLeavesNothing, All
<1> QED BY <1>1, Invariance, PTL

\* Only a rewind changes files under a rewind that ends.
LEMMA RewindIsMeant ==
    ASSUME Types, [Next]_vars, NEW s \in All, pc[s] = "rewind", pc'[s] = "idle", files'[s] # files[s]
    PROVE  RewindDo(s)
<1>1. ASSUME NEW t \in All, SubmitTrees(t) \/ \E src \in All : ForkTrees(src, t) PROVE FALSE
  <2>1. pc[t] = "idle" /\ \E from : files' = [files EXCEPT ![t] = from]
    BY <1>1 DEF SubmitTrees, ForkTrees, create_worktrees
  <2> QED BY <2>1 DEF Types
<1>2. ASSUME NEW t \in All, AgentWork(t) \/ StartBegin(t) PROVE FALSE
  BY <1>2 DEF AgentWork, StartBegin
<1>3. ASSUME NEW t \in All, RewindDo(t) PROVE t = s
  <2>1. UNCHANGED files \/ \E e : files' = [files EXCEPT ![t] = e]
    BY <1>3 DEF RewindDo
  <2> QED BY <2>1 DEF Types
<1>4. ASSUME NEW t \in All,
             \/ SubmitRow(t) \/ ForkRow(t) \/ ForkFlip(t) \/ ForkUndo(t) \/ FollowUp(t) \/ StartTurn(t)
             \/ Inject(t) \/ EndTurn(t) \/ RewindCheck(t) \/ DiscardCheck(t) \/ DiscardFiles(t)
             \/ DiscardMark(t) \/ DeleteCheck(t) \/ DeleteFiles(t) \/ DeleteRow(t)
      PROVE  FALSE
  <2>1. UNCHANGED files
    BY <1>4 DEF SubmitRow, ForkRow, ForkFlip, ForkUndo, CreateRow, RemoveBestEffort, FollowUp, StartTurn,
                Inject, EndTurn, RewindCheck, DiscardCheck, DiscardFiles, DiscardMark, DeleteCheck,
                DeleteFiles, DeleteRow, DiscardTrees, git
  <2> QED BY <2>1
<1>5. CASE (\E t \in Tokens : Stage(t)) \/ Restart \/ UNCHANGED vars
  BY <1>5 DEF Stage, Restart, vars, git
<1> QED BY <1>1, <1>2, <1>3, <1>4, <1>5 DEF Next, SessionStep

\* admin.rs:119, 150: a rewind writes the files of one and the same turn in all repositories,
\* as they were when that turn was asked for; where a restore fails, in those before it.
THEOREM RewindsAreWhole == Spec => RewindRestores
<1>1. ASSUME Inv, [Next]_vars
      PROVE  [RewoundWhole]_vars
  <2> SUFFICES ASSUME NEW s \in Sessions, pc[s] = "rewind", pc'[s] = "idle", files'[s] # files[s]
               PROVE  \E n \in 0..Len(Repos) :
                          /\ n = Len(Repos) \/ CallFailed
                          /\ \A r \in RepoSet \ First(n) : r = Repos[n + 1] \/ files'[s][r] = files[s][r]
                          /\ \E k \in DOMAIN before[s] : AsOfTurn(s, k, First(n), files'[s])
    BY DEF RewoundWhole
  <2>1. s \in All /\ Types /\ RefsKnown(s) /\ BaseKnown(s) /\ RewindDo(s)
    BY <1>1, RewindIsMeant DEF Inv, All
  <2>2. PICK k \in Nat, n \in 0..Len(Repos), f \in [RepoSet -> Nat] :
            /\ files' = [files EXCEPT ![s] = f]
            /\ n = Len(Repos) \/ CallFailed
            /\ \A r \in RepoSet \ First(n) : r = Repos[n + 1] \/ f[r] = files[s][r]
            /\ \A r \in RepoSet : k # 0 => <<k, r>> \in DOMAIN snap[s]
            /\ \A r \in First(n) : f[r] = IF k = 0 THEN base[s][r] ELSE snap[s][<<k, r>>]
    BY <2>1, Rewound
  <2>3. files'[s] = f /\ files[s] \in [RepoSet -> Nat]
    BY <2>1, <2>2 DEF Types
  <2>4. First(n) \subseteq RepoSet
    BY Prefixes
  <2>5. \E i \in DOMAIN before[s] : AsOfTurn(s, i, First(n), f)
    <3>1. CASE k = 0
      <4>1. 0 \in DOMAIN before[s] /\ base[s] \in before[s][0]
        BY <2>1 DEF BaseKnown
      <4>2. AsOfTurn(s, 0, First(n), f)
        BY <2>2, <3>1, <4>1 DEF AsOfTurn
      <4> QED BY <4>1, <4>2
    <3>2. CASE k # 0
      <4>1. PICK q \in RepoSet : TRUE
        BY <2>3
      <4>2. \A r \in RepoSet :
                k \in DOMAIN before[s] /\ \E g \in before[s][k] : snap[s][<<k, r>>] = g[r]
        BY <2>1, <2>2, <3>2 DEF RefsKnown
      <4>3. AsOfTurn(s, k, First(n), f)
        BY <2>2, <2>4, <3>2, <4>2 DEF AsOfTurn
      <4> QED BY <4>1, <4>2, <4>3
    <3> QED BY <3>1, <3>2
  <2> QED BY <2>2, <2>3, <2>5
<1>2. Inv /\ [Next]_vars => [RewoundWhole]_vars
  BY <1>1
<1> QED BY <1>2, Invariance, PTL DEF Spec, RewindRestores
=============================================================================
