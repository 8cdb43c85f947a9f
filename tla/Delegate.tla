------------------------------ MODULE Delegate ------------------------------
(***************************************************************************)
(* The delegate fan-out (workflow/delegate.rs): a session's `delegate`     *)
(* tool asks for a run of workers; the server snapshots the repositories,  *)
(* gives every writing worker worktrees of its own, starts the workers,    *)
(* waits for them under one deadline, removes what it made, writes the     *)
(* summary of the run and answers the tool.  The journal on disk and the   *)
(* scratch in the repositories outlive a crash; the task does not.         *)
(*                                                                         *)
(* One session, whose process may end and be started again, and several    *)
(* runs.  Any write to disk may fail, at most MaxFaults times.             *)
(***************************************************************************)
EXTENDS Integers, Sequences, FiniteSets

CONSTANTS
    Run,        \* delegate requests
    Workers,    \* bound on the tasks of a run
    Tasks,      \* Tasks[r]: its tasks, numbered in order; a worker each
    Writer,     \* Writer[r]: those with write set
    Repos,      \* repositories of the session, in order
    MaxProcs,   \* bound on the session's processes
    MaxFaults,  \* bound on failed writes
    MaxCrashes  \* bound on restarts of the server

Worker == 1..Workers
Repo == 1..Repos

ASSUME DelegateAssumption ==
    /\ Workers \in Nat \ {0} /\ Repos \in Nat \ {0}
    /\ Tasks \in [Run -> (SUBSET Worker) \ {{}}]
    /\ \A r \in Run : Writer[r] \subseteq Tasks[r]
    /\ MaxProcs \in Nat \ {0} /\ MaxFaults \in Nat /\ MaxCrashes \in Nat

VARIABLES
    up,         \* the server runs
    proc,       \* number of the session's process, 0 when it has none
    pending,    \* the session is in pending_delegate
    pc, asker,  \* of a run: where its task is, the process that asked
    failed,     \* the result of the task is an error
    worker,     \* of a run: state of its worker processes
    late,       \* the deadline of the run has passed
    awaited,    \* its workers the task has waited for
    cut,        \* of those, the ones stopped at the deadline
    refs, trees, provisioned, scratch,  \* in the repositories: snapshot refs, worktrees with
                                        \* their branches; write_provisions; the scratch dir
    metas, results, summary,            \* the journal: agent-*.meta.json, result lines, summary
    procs, faults, crashes,
    spoiled,    \* a write of the journal of the run failed
    leaked,     \* a best-effort removal failed
    shared,     \* another run was in flight during the run
    missed      \* writers that still ran when their patch was collected

task_vars == <<pc, asker, failed, worker, late, awaited, cut>>
repo_vars == <<refs, trees, provisioned, scratch>>
journal_vars == <<metas, results, summary>>
bound_vars == <<procs, faults, crashes>>
history == <<spoiled, leaked, shared, missed>>
vars == <<up, proc, pending, task_vars, repo_vars, journal_vars, bound_vars, history>>

Place == {"none", "get", "snap", "prov", "route", "live", "wait", "patch", "tear", "sum",
          "abort", "reply", "end", "lost"}

TypeOK ==
    /\ up \in BOOLEAN /\ proc \in 0..MaxProcs /\ pending \in BOOLEAN
    /\ pc \in [Run -> Place] /\ asker \in [Run -> 0..MaxProcs] /\ failed \in [Run -> BOOLEAN]
    /\ worker \in [Run -> [Worker -> {"none", "run", "dying", "gone"}]]
    /\ late \in [Run -> BOOLEAN]
    /\ awaited \in [Run -> SUBSET Worker] /\ cut \in [Run -> SUBSET Worker]
    /\ refs \in [Run -> SUBSET Repo] /\ trees \in [Run -> SUBSET (Worker \X Repo)]
    /\ provisioned \in [Run -> SUBSET Worker] /\ scratch \in [Run -> BOOLEAN]
    /\ metas \in [Run -> SUBSET Worker] /\ results \in [Run -> SUBSET Worker]
    /\ summary \in [Run -> {"none", "done", "failed"}]
    /\ procs \in 0..MaxProcs /\ faults \in 0..MaxFaults /\ crashes \in 0..MaxCrashes
    /\ spoiled \subseteq Run /\ leaked \subseteq Run /\ shared \subseteq Run
    /\ missed \in [Run -> SUBSET Worker]

Init ==
    /\ up = TRUE /\ proc = 1 /\ pending = FALSE
    /\ pc = [r \in Run |-> "none"] /\ asker = [r \in Run |-> 0]
    /\ failed = [r \in Run |-> FALSE] /\ worker = [r \in Run |-> [w \in Worker |-> "none"]]
    /\ late = [r \in Run |-> FALSE]
    /\ awaited = [r \in Run |-> {}] /\ cut = [r \in Run |-> {}]
    /\ refs = [r \in Run |-> {}] /\ trees = [r \in Run |-> {}]
    /\ provisioned = [r \in Run |-> {}] /\ scratch = [r \in Run |-> FALSE]
    /\ metas = [r \in Run |-> {}] /\ results = [r \in Run |-> {}]
    /\ summary = [r \in Run |-> "none"]
    /\ procs = 1 /\ faults = 0 /\ crashes = 0
    /\ spoiled = {} /\ leaked = {} /\ shared = {} /\ missed = [r \in Run |-> {}]

At(r, p) == up /\ pc[r] = p
Goto(r, p) == pc' = [pc EXCEPT ![r] = p]
InFlight(r) == pc[r] \notin {"none", "end", "lost"}
Marked(r) == pc[r] \in {"snap", "prov", "route", "live", "wait", "patch", "tear", "sum", "abort"}
FirstRepos(k) == {p \in Repo : p <= k}
NoFault == UNCHANGED faults
Fault == faults < MaxFaults /\ faults' = faults + 1

-----------------------------------------------------------------------------
(* The request, and what is set up before a worker starts. *)

\* on_event(DelegateRequest): the fan-out runs in a task of its own.
Ask(r) ==
    /\ At(r, "none") /\ proc # 0 /\ Goto(r, "get")
    /\ asker' = [asker EXCEPT ![r] = proc]
    /\ shared' = shared \cup (IF \E s \in Run : InFlight(s)
                              THEN {r} \cup {s \in Run : InFlight(s)} ELSE {})
    /\ UNCHANGED <<up, proc, pending, failed, worker, late, awaited, cut, repo_vars,
                   journal_vars, bound_vars, spoiled, leaked, missed>>

\* The row, the journal directory and the catalogs: a run that cannot work is refused
\* before anything is marked.
Refuse(r) ==
    /\ At(r, "get") /\ Goto(r, "reply")
    /\ failed' = [failed EXCEPT ![r] = TRUE]
    /\ UNCHANGED <<up, proc, pending, asker, worker, late, awaited, cut, repo_vars,
                   journal_vars, bound_vars, history>>

\* An exemption for the runs that write only.
MarkWriters(r) ==
    /\ At(r, "get") /\ Goto(r, IF Writer[r] = {} THEN "route" ELSE "snap")
    /\ pending' = (pending \/ Writer[r] # {})
    /\ UNCHANGED <<up, proc, asker, failed, worker, late, awaited, cut, repo_vars,
                   journal_vars, bound_vars, history>>

\* The session is exempted from the watchdog before the slow work begins.
Mark(r) ==
    /\ At(r, "get") /\ Goto(r, IF Writer[r] = {} THEN "route" ELSE "snap")
    /\ pending' = TRUE
    /\ UNCHANGED <<up, proc, asker, failed, worker, late, awaited, cut, repo_vars,
                   journal_vars, bound_vars, history>>

\* snapshot_session_repos(): a ref per repository, up to the one git fails on.
Snapshot(r) ==
    /\ At(r, "snap")
    /\ \E k \in 0..Repos :
        /\ refs' = [refs EXCEPT ![r] = FirstRepos(k)]
        /\ \/ FirstRepos(k) = Repo /\ NoFault /\ Goto(r, "prov")
           \/ FirstRepos(k) # Repo /\ Fault /\ Goto(r, "abort")
    /\ UNCHANGED <<up, proc, pending, asker, failed, worker, late, awaited, cut, trees,
                   provisioned, scratch, journal_vars, procs, crashes, history>>

\* provision_write_worktree() of the next writer: the repositories in order, recorded
\* in write_provisions only when all have a worktree.
Provision(r) ==
    /\ At(r, "prov")
    /\ LET left == Writer[r] \ provisioned[r] IN
       IF left = {}
       THEN Goto(r, "route") /\ NoFault /\ UNCHANGED <<trees, provisioned, scratch>>
       ELSE LET w == CHOOSE x \in left : \A y \in left : x <= y IN
            \E k \in 0..Repos :
                /\ trees' = [trees EXCEPT ![r] = @ \cup ({w} \X FirstRepos(k))]
                /\ scratch' = [scratch EXCEPT ![r] = TRUE]
                /\ \/ /\ FirstRepos(k) = Repo /\ NoFault /\ UNCHANGED pc
                      /\ provisioned' = [provisioned EXCEPT ![r] = @ \cup {w}]
                   \/ FirstRepos(k) # Repo /\ Fault /\ Goto(r, "abort") /\ UNCHANGED provisioned
    /\ UNCHANGED <<up, proc, pending, asker, failed, worker, late, awaited, cut, refs,
                   journal_vars, procs, crashes, history>>

\* A teardown that forgets the worktrees of the writers.
RemoveNoTrees(r) ==
    /\ refs' = [refs EXCEPT ![r] = {}] /\ scratch' = [scratch EXCEPT ![r] = FALSE]
    /\ NoFault /\ UNCHANGED <<trees, leaked>>

\* teardown_write_worktrees() of the recorded provisions, then cleanup_write_batch(): the
\* snapshot refs and the scratch dir.  What git or the disk refuses is left behind.
Remove(r) ==
    \/ /\ trees' = [trees EXCEPT ![r] = @ \ (provisioned[r] \X Repo)]
       /\ refs' = [refs EXCEPT ![r] = {}] /\ scratch' = [scratch EXCEPT ![r] = FALSE]
       /\ NoFault /\ UNCHANGED leaked
    \/ Fault /\ leaked' = leaked \cup {r} /\ UNCHANGED <<trees, refs, scratch>>

Abort(r) ==
    /\ At(r, "abort") /\ Remove(r) /\ pending' = FALSE
    /\ failed' = [failed EXCEPT ![r] = TRUE] /\ Goto(r, "reply")
    /\ UNCHANGED <<up, proc, asker, worker, late, awaited, cut, provisioned,
                   journal_vars, procs, crashes, spoiled, shared, missed>>

\* The router's answer, or its timeout, after which the tasks run on the default.
Route(r) ==
    /\ At(r, "route") /\ Goto(r, "live")
    /\ UNCHANGED <<up, proc, pending, asker, failed, worker, late, awaited, cut,
                   repo_vars, journal_vars, bound_vars, history>>

-----------------------------------------------------------------------------
(* The workers. *)

\* start_live_run() writes the meta of every worker, then all workers are spawned and
\* given their prompt; a failed write ends the run in an error.
Start(r) ==
    /\ At(r, "live")
    /\ \/ /\ metas' = [metas EXCEPT ![r] = Tasks[r]] /\ NoFault /\ Goto(r, "wait")
          /\ worker' = [worker EXCEPT ![r] = [w \in Worker |-> IF w \in Tasks[r] THEN "run" ELSE "none"]]
          /\ UNCHANGED <<failed, spoiled>>
       \/ /\ \E k \in 0..Workers :
                metas' = [metas EXCEPT ![r] = {w \in Tasks[r] : w <= k}]
          /\ Fault /\ Goto(r, "tear")
          /\ failed' = [failed EXCEPT ![r] = TRUE] /\ spoiled' = spoiled \cup {r}
          /\ UNCHANGED worker
    /\ UNCHANGED <<up, proc, pending, asker, late, awaited, cut, repo_vars, results,
                   summary, procs, crashes, leaked, shared, missed>>

\* A worker process ends by itself, or of the SIGTERM or SIGKILL of stop().  What becomes
\* of it after its run is of no consequence here.
WorkerExit(r, w) ==
    /\ InFlight(r) /\ worker[r][w] \in {"run", "dying"}
    /\ worker' = [worker EXCEPT ![r][w] = "gone"]
    /\ UNCHANGED <<up, proc, pending, pc, asker, failed, late, awaited, cut, repo_vars,
                   journal_vars, bound_vars, history>>

\* WORKER_TIMEOUT after the workers were started.
Deadline(r) ==
    /\ At(r, "wait") /\ ~late[r] /\ late' = [late EXCEPT ![r] = TRUE]
    /\ UNCHANGED <<up, proc, pending, pc, asker, failed, worker, awaited, cut,
                   repo_vars, journal_vars, bound_vars, history>>

\* The worker the task waits for: they are awaited in order.
Next1(r) == CHOOSE w \in Tasks[r] \ awaited[r] : \A x \in Tasks[r] \ awaited[r] : w <= x

\* A wait that ends only with the worker.
AwaitForever(r) ==
    /\ At(r, "wait") /\ awaited[r] # Tasks[r] /\ worker[r][Next1(r)] = "gone"
    /\ awaited' = [awaited EXCEPT ![r] = @ \cup {Next1(r)}]
    /\ results' = [results EXCEPT ![r] = @ \cup {Next1(r)}] /\ NoFault
    /\ UNCHANGED <<up, proc, pending, pc, asker, failed, worker, late, cut, repo_vars,
                   metas, summary, procs, crashes, history>>

\* A task that collects the results after the first of its workers.
AwaitOne(r) ==
    /\ At(r, "wait") /\ awaited[r] = {} /\ worker[r][Next1(r)] = "gone"
    /\ awaited' = [awaited EXCEPT ![r] = Tasks[r]]
    /\ results' = [results EXCEPT ![r] = Tasks[r]] /\ NoFault
    /\ UNCHANGED <<up, proc, pending, pc, asker, failed, worker, late, cut, repo_vars,
                   metas, summary, procs, crashes, history>>

\* timeout_at(deadline, exit): the worker ended, or it is stopped at the deadline and not
\* waited for; mark_agent_done() appends its result line, best effort.
Await(r) ==
    /\ At(r, "wait") /\ awaited[r] # Tasks[r]
    /\ \/ worker[r][Next1(r)] = "gone" /\ UNCHANGED <<worker, cut>>
       \/ /\ late[r] /\ worker[r][Next1(r)] = "run"
          /\ worker' = [worker EXCEPT ![r][Next1(r)] = "dying"]
          /\ cut' = [cut EXCEPT ![r] = @ \cup {Next1(r)}]
    /\ awaited' = [awaited EXCEPT ![r] = @ \cup {Next1(r)}]
    /\ \/ results' = [results EXCEPT ![r] = @ \cup {Next1(r)}] /\ NoFault
       \/ Fault /\ UNCHANGED results
    /\ UNCHANGED <<up, proc, pending, pc, asker, failed, late, repo_vars, metas,
                   summary, procs, crashes, history>>

AllAwaited(r) ==
    /\ At(r, "wait") /\ awaited[r] = Tasks[r] /\ Goto(r, IF Writer[r] = {} THEN "sum" ELSE "patch")
    /\ UNCHANGED <<up, proc, pending, asker, failed, worker, late, awaited, cut,
                   repo_vars, journal_vars, bound_vars, history>>

\* collect_write_patch() of every writer.
Collect(r) ==
    /\ At(r, "patch") /\ Goto(r, "tear")
    /\ missed' = [missed EXCEPT ![r] = {w \in Writer[r] : worker[r][w] # "gone"}]
    /\ UNCHANGED <<up, proc, pending, asker, failed, worker, late, awaited, cut,
                   repo_vars, journal_vars, bound_vars, spoiled, leaked, shared>>

Teardown(r) ==
    /\ At(r, "tear") /\ Goto(r, "sum")
    /\ IF provisioned[r] = {} THEN UNCHANGED <<trees, refs, scratch, leaked, faults>> ELSE Remove(r)
    /\ UNCHANGED <<up, proc, pending, asker, failed, worker, late, awaited, cut,
                   provisioned, journal_vars, procs, crashes, spoiled, shared, missed>>

\* write_summary() of a run that worked, by a rename; the exemption is lifted.
Summarise(r) ==
    /\ At(r, "sum") /\ Goto(r, "reply") /\ pending' = FALSE
    /\ \/ failed[r] /\ NoFault /\ UNCHANGED <<summary, spoiled>>
       \/ ~failed[r] /\ summary' = [summary EXCEPT ![r] = "done"] /\ NoFault /\ UNCHANGED spoiled
       \/ ~failed[r] /\ Fault /\ spoiled' = spoiled \cup {r} /\ UNCHANGED summary
    /\ UNCHANGED <<up, proc, asker, failed, worker, late, awaited, cut, repo_vars,
                   metas, results, procs, crashes, leaked, shared, missed>>

\* The answer is written to the session's process of that moment, if it has one; nothing
\* of the task is left.
Reply(r) ==
    /\ At(r, "reply") /\ Goto(r, "end")
    /\ worker' = [worker EXCEPT ![r] = [w \in Worker |-> "none"]]
    /\ late' = [late EXCEPT ![r] = FALSE]
    /\ UNCHANGED <<up, proc, pending, asker, failed, awaited, cut, repo_vars,
                   journal_vars, bound_vars, history>>

-----------------------------------------------------------------------------
(* The session's process and the server. *)

\* on_exit(): the session loses its exemption with its process.
ProcExit ==
    /\ up /\ proc # 0 /\ proc' = 0 /\ pending' = FALSE
    /\ UNCHANGED <<up, task_vars, repo_vars, journal_vars, bound_vars, history>>

\* A follow-up starts the session again.
ProcStart ==
    /\ up /\ proc = 0 /\ procs < MaxProcs
    /\ procs' = procs + 1 /\ proc' = procs + 1
    /\ UNCHANGED <<up, pending, task_vars, repo_vars, journal_vars, faults, crashes, history>>

\* The tasks and the sets in memory are gone; the worker processes run on, and nothing
\* waits for them or looks at them again.
Crash ==
    /\ up /\ crashes < MaxCrashes /\ crashes' = crashes + 1
    /\ up' = FALSE /\ proc' = 0 /\ pending' = FALSE
    /\ pc' = [r \in Run |-> IF InFlight(r) THEN "lost" ELSE pc[r]]
    /\ worker' = [r \in Run |-> IF InFlight(r) THEN [w \in Worker |-> "none"] ELSE worker[r]]
    /\ late' = [r \in Run |-> late[r] /\ ~InFlight(r)]
    /\ awaited' = [r \in Run |-> IF InFlight(r) THEN {} ELSE awaited[r]]
    /\ cut' = [r \in Run |-> IF InFlight(r) THEN {} ELSE cut[r]]
    /\ missed' = [r \in Run |-> IF InFlight(r) THEN {} ELSE missed[r]]
    /\ UNCHANGED <<asker, failed, repo_vars, journal_vars, procs, faults, spoiled,
                   leaked, shared>>

\* read_running_run(): the workers that have a meta or a result line.
Shown(r) == metas[r] \cup results[r]

\* A recovery that leaves the runs with a result in place.
OrphanedUntouched(r) == results[r] = {} /\ Shown(r) # {} /\ summary[r] = "none"

\* finalize_orphaned_runs(): a run that has workers and no summary.
Orphaned(r) == Shown(r) # {} /\ summary[r] = "none"

\* Boot: the summary of every orphaned run, done if all its workers had a result.
Boot ==
    /\ ~up /\ up' = TRUE
    /\ \E bad \in SUBSET {r \in Run : Orphaned(r)} :
        /\ IF bad = {} THEN NoFault ELSE Fault
        /\ spoiled' = spoiled \cup bad
        /\ summary' = [r \in Run |->
                          IF ~Orphaned(r) \/ r \in bad THEN summary[r]
                          ELSE IF Shown(r) \subseteq results[r] THEN "done" ELSE "failed"]
    /\ UNCHANGED <<proc, pending, task_vars, repo_vars, metas, results, procs, crashes, leaked,
                   shared, missed>>

TaskStep(r) ==
    \/ Refuse(r) \/ Mark(r) \/ Snapshot(r) \/ Provision(r) \/ Abort(r) \/ Route(r)
    \/ Start(r) \/ Await(r) \/ AllAwaited(r) \/ Collect(r) \/ Teardown(r)
    \/ Summarise(r) \/ Reply(r)

Next ==
    \/ \E r \in Run : Ask(r) \/ TaskStep(r) \/ Deadline(r) \/ \E w \in Worker : WorkerExit(r, w)
    \/ ProcExit \/ ProcStart \/ Crash \/ Boot

\* The runtime polls a task that is ready, the timer of the deadline fires; nothing
\* makes a worker, the session's process or a tool call do anything.
Fairness == \A r \in Run : WF_vars(TaskStep(r)) /\ WF_vars(Deadline(r))

Spec == Init /\ [][Next]_vars /\ Fairness

-----------------------------------------------------------------------------
(* Properties. *)

\* delegate.rs:469: with the server up, a run nobody works on any more is never shown as
\* running for ever: it has its summary, after an interrupted run as after a finished one.
\* A write of its journal that failed is the exception.
NoPhantomRun ==
    \A r \in Run : (up /\ ~InFlight(r) /\ Shown(r) # {} /\ r \notin spoiled) => summary[r] # "none"

\* delegate.rs:765: a run that returned leaves no snapshot ref, no scratch dir and no
\* worktree or branch of a writer that was set up, whatever ended it; only a writer whose
\* set up broke off half-way, or a removal git refused, leaves some.
ScratchRemoved ==
    \A r \in Run : (pc[r] \in {"reply", "end"} /\ r \notin leaked) =>
        /\ refs[r] = {} /\ ~scratch[r]
        /\ trees[r] \cap (provisioned[r] \X Repo) = {}

\* delegate.rs:739: the patch of a writer is collected after its process ended; only the
\* patch of a worker stopped at the deadline may miss what the process still writes.
PatchesComplete == \A r \in Run : missed[r] \subseteq cut[r]

\* delegate.rs:873: while the only fan-out of a session works, and the process that asked
\* for it runs, the watchdog leaves the session alone.
ExemptWhileAlone ==
    \A r \in Run : (Marked(r) /\ asker[r] = proc /\ r \notin shared) => pending

\* delegate.rs:399: a run that was accepted ends whatever its workers do: the deadline
\* bounds the wait for all of them together.
EveryRunReturns == \A r \in Run : pc[r] = "get" ~> ~InFlight(r)

\* delegate.rs:1163: "Park the watchdog for `id` while a `delegate` fan-out is in flight",
\* said of every fan-out.
ExemptWholeFanOut == \A r \in Run : (Marked(r) /\ asker[r] = proc) => pending

\* delegate.rs:876: "Up front so a setup failure aborts the batch cleanly before any worker
\* spawns", said of every set up.
AbortIsClean ==
    \A r \in Run : (pc[r] = "end" /\ r \notin leaked) => trees[r] = {}
=============================================================================
