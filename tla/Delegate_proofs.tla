-------------------------- MODULE Delegate_proofs --------------------------
(***************************************************************************)
(* Theorems about Delegate, for every number of runs, tasks, writers,      *)
(* repositories, processes of the session, failed writes and crashes.      *)
(***************************************************************************)
EXTENDS Delegate, WellFoundedInduction, TLAPS

\* The places before a worker is started.
Early == {"none", "get", "snap", "prov", "route", "live", "abort"}

\* No worker is known to a run that has not begun to start them.
NotBegun ==
    \A r \in Run : pc[r] \in Early =>
        /\ awaited[r] = {} /\ metas[r] = {} /\ results[r] = {} /\ ~failed[r]

\* A worker the task has waited for ended, or was stopped at the deadline.
WaitedFor ==
    \A r \in Run :
        /\ awaited[r] \subseteq Tasks[r]
        /\ pc[r] \in {"wait", "patch"} =>
               \A w \in awaited[r] : worker[r][w] = "gone" \/ w \in cut[r]
        /\ pc[r] = "patch" => awaited[r] = Tasks[r]

\* A run has something in the repositories only after its snapshot, and only one that has a
\* writer takes a snapshot; from the first worker on it has a writer that was set up.
Clean(r) == refs[r] = {} /\ ~scratch[r] /\ trees[r] = {} /\ provisioned[r] = {}
WritersOnly ==
    \A r \in Run :
        /\ pc[r] \in {"none", "get"} => Clean(r)
        /\ pc[r] \in {"snap", "prov", "abort", "patch"} => Writer[r] # {}
        /\ pc[r] \in {"route", "live", "wait", "tear"} /\ Writer[r] = {} => Clean(r)
        /\ pc[r] \in {"route", "live", "wait", "patch", "tear"} /\ Writer[r] # {} => provisioned[r] # {}

\* Stronger than ScratchRemoved: from the end of the teardown on.
Removed ==
    \A r \in Run : pc[r] \in {"sum", "reply", "end"} /\ r \notin leaked =>
        /\ refs[r] = {} /\ ~scratch[r]
        /\ trees[r] \cap (provisioned[r] \X Repo) = {}

\* A run whose workers were to start fails only of a write of its journal.
FailureSpoils ==
    \A r \in Run : pc[r] \in {"wait", "patch", "tear", "sum"} /\ failed[r] => r \in spoiled

\* A run that is over is not shown as running, and while the server is down every run is over.
Summarised ==
    \A r \in Run :
        /\ pc[r] \in {"reply", "end"} \/ (up /\ pc[r] = "lost") =>
               Shown(r) = {} \/ summary[r] # "none" \/ r \in spoiled
        /\ ~up => pc[r] \in {"none", "end", "lost"}

\* The process that asked for a run was one the session had, and of two runs in flight each
\* knows of the other.
Askers ==
    /\ proc <= procs
    /\ \A r \in Run : InFlight(r) => asker[r] \in 1..procs
    /\ \A r, s \in Run : (InFlight(r) /\ InFlight(s) /\ r # s) => r \in shared

Inv == TypeOK /\ NotBegun /\ WaitedFor /\ WritersOnly /\ Removed /\ FailureSpoils /\ Summarised
       /\ Askers /\ PatchesComplete /\ ExemptWhileAlone

-----------------------------------------------------------------------------
(* Operators. *)

\* A set of workers that is not empty has a least one, which is what CHOOSE takes.
LEMMA LeastWorker ==
    ASSUME NEW S \in SUBSET Worker, S # {}
    PROVE  (CHOOSE x \in S : \A y \in S : x <= y) \in S
<1>1. S \subseteq Nat
  BY DelegateAssumption DEF Worker, DelegateAssumption
<1>2. PICK x \in S : \A y \in S : ~ (<<y, x>> \in OpToRel(<, Nat))
  BY <1>1, NatLessThanWellFounded, WFMin
<1>3. \A y \in S : ~ (y < x)
  BY <1>1, <1>2 DEF OpToRel
<1>4. \A y \in S : x <= y
  BY <1>1, <1>3
<1> QED BY <1>4

\* The worker a task waits for is one it has not waited for.
LEMMA NextIsATask ==
    ASSUME TypeOK, NEW r \in Run, awaited[r] \subseteq Tasks[r], awaited[r] # Tasks[r]
    PROVE  Next1(r) \in Tasks[r] \ awaited[r]
<1>1. Tasks[r] \ awaited[r] \in SUBSET Worker
  BY DelegateAssumption DEF DelegateAssumption
<1>2. Tasks[r] \ awaited[r] # {}
  OBVIOUS
<1> QED BY <1>1, <1>2, LeastWorker DEF Next1

-----------------------------------------------------------------------------
(* Types. *)

LEMMA TypeInit == Init => TypeOK
<1> SUFFICES ASSUME Init PROVE TypeOK
  OBVIOUS
<1> USE DelegateAssumption DEF DelegateAssumption
<1>1. up \in BOOLEAN /\ pending \in BOOLEAN
  BY Zenon DEF Init
<1>10. proc \in 0..MaxProcs
  BY DEF Init
<1>2. pc \in [Run -> Place] /\ asker \in [Run -> 0..MaxProcs]
  BY DEF Init, Place
<1>3. failed \in [Run -> BOOLEAN] /\ late \in [Run -> BOOLEAN] /\ scratch \in [Run -> BOOLEAN]
  <2>1. /\ failed = [r \in Run |-> FALSE] /\ late = [r \in Run |-> FALSE]
        /\ scratch = [r \in Run |-> FALSE]
    BY DEF Init
  <2> QED BY <2>1, Zenon
<1>4. worker \in [Run -> [Worker -> {"none", "run", "dying", "gone"}]]
  BY DEF Init
<1>5. /\ awaited \in [Run -> SUBSET Worker] /\ cut \in [Run -> SUBSET Worker]
      /\ provisioned \in [Run -> SUBSET Worker] /\ metas \in [Run -> SUBSET Worker]
      /\ results \in [Run -> SUBSET Worker] /\ missed \in [Run -> SUBSET Worker]
  BY DEF Init
<1>6. refs \in [Run -> SUBSET Repo] /\ trees \in [Run -> SUBSET (Worker \X Repo)]
  BY DEF Init
<1>7. summary \in [Run -> {"none", "done", "failed"}]
  BY DEF Init
<1>8. procs \in 0..MaxProcs /\ faults \in 0..MaxFaults /\ crashes \in 0..MaxCrashes
  BY DEF Init
<1>9. spoiled \subseteq Run /\ leaked \subseteq Run /\ shared \subseteq Run
  BY DEF Init
<1> QED BY <1>1, <1>2, <1>3, <1>4, <1>5, <1>6, <1>7, <1>8, <1>9, <1>10 DEF TypeOK

LEMMA TypeNext ==
    ASSUME TypeOK, WaitedFor, [Next]_vars
    PROVE  TypeOK'
<1> USE DelegateAssumption DEF DelegateAssumption, TypeOK, task_vars, repo_vars, journal_vars,
        bound_vars, history
<1>b. ASSUME Fault \/ NoFault PROVE faults' \in 0..MaxFaults
  BY <1>b DEF Fault, NoFault
<1>1. ASSUME NEW r \in Run, Ask(r) PROVE TypeOK'
  BY <1>1 DEF Ask, Goto, Place
<1>2. ASSUME NEW r \in Run, Refuse(r) PROVE TypeOK'
  BY <1>2 DEF Refuse, Goto, Place
<1>3. ASSUME NEW r \in Run, Mark(r) PROVE TypeOK'
  BY <1>3 DEF Mark, Goto, Place
<1>4. ASSUME NEW r \in Run, Snapshot(r) PROVE TypeOK'
  <2>1. faults' \in 0..MaxFaults
    BY <1>4, <1>b DEF Snapshot
  <2>2. PICK k \in 0..Repos : refs' = [refs EXCEPT ![r] = FirstRepos(k)]
    BY <1>4 DEF Snapshot
  <2>3. refs' \in [Run -> SUBSET Repo]
    BY <2>2 DEF FirstRepos
  <2>4. pc' \in [Run -> Place]
    BY <1>4 DEF Snapshot, Goto, Place
  <2> QED BY <1>4, <2>1, <2>3, <2>4 DEF Snapshot
<1>5. ASSUME NEW r \in Run, Provision(r) PROVE TypeOK'
  <2>1. faults' \in 0..MaxFaults
    BY <1>5, <1>b DEF Provision
  <2>2. CASE Writer[r] \ provisioned[r] = {}
    BY <1>5, <2>1, <2>2 DEF Provision, Goto, Place
  <2>3. CASE Writer[r] \ provisioned[r] # {}
    <3> DEFINE left == Writer[r] \ provisioned[r]
    <3> DEFINE w == CHOOSE x \in left : \A y \in left : x <= y
    <3>1. left \in SUBSET Worker
      OBVIOUS
    <3>2. w \in Worker
      BY <2>3, <3>1, LeastWorker
    <3> HIDE DEF w, left
    <3>3. PICK k \in 0..Repos :
            /\ trees' = [trees EXCEPT ![r] = @ \cup ({w} \X FirstRepos(k))]
            /\ scratch' = [scratch EXCEPT ![r] = TRUE]
            /\ \/ UNCHANGED pc /\ provisioned' = [provisioned EXCEPT ![r] = @ \cup {w}]
               \/ Goto(r, "abort") /\ UNCHANGED provisioned
      BY <1>5, <2>3 DEF Provision, w, left
    <3>7. {w} \X FirstRepos(k) \subseteq Worker \X Repo
      BY <3>2 DEF FirstRepos
    <3>4. trees' \in [Run -> SUBSET (Worker \X Repo)]
      BY <3>3, <3>7
    <3>9. provisioned \in [Run -> SUBSET Worker]
      OBVIOUS
    <3>8. provisioned' \in [Run -> SUBSET Worker]
      <4>1. CASE provisioned' = [provisioned EXCEPT ![r] = @ \cup {w}]
        BY ONLY <4>1, <3>2, <3>9
      <4> QED BY <3>3, <3>9, <4>1
    <3>5. scratch' \in [Run -> BOOLEAN]
      BY <3>3
    <3>6. pc' \in [Run -> Place]
      BY <3>3 DEF Goto, Place
    <3> QED BY <1>5, <2>1, <3>4, <3>5, <3>6, <3>8 DEF Provision
  <2> QED BY <2>2, <2>3
<1>6. ASSUME NEW r \in Run, Remove(r)
      PROVE  /\ trees' \in [Run -> SUBSET (Worker \X Repo)] /\ refs' \in [Run -> SUBSET Repo]
             /\ scratch' \in [Run -> BOOLEAN] /\ leaked' \subseteq Run
             /\ faults' \in 0..MaxFaults
  <2>1. faults' \in 0..MaxFaults
    BY <1>6, <1>b DEF Remove
  <2>2. CASE /\ trees' = [trees EXCEPT ![r] = @ \ (provisioned[r] \X Repo)]
             /\ refs' = [refs EXCEPT ![r] = {}] /\ scratch' = [scratch EXCEPT ![r] = FALSE]
             /\ UNCHANGED leaked
    <3>1. trees' \in [Run -> SUBSET (Worker \X Repo)]
      BY <2>2
    <3>2. refs' \in [Run -> SUBSET Repo] /\ scratch' \in [Run -> BOOLEAN] /\ leaked' \subseteq Run
      BY <2>2
    <3> QED BY <2>1, <3>1, <3>2
  <2>3. CASE leaked' = leaked \cup {r} /\ UNCHANGED <<trees, refs, scratch>>
    BY <2>1, <2>3
  <2> QED BY <1>6, <2>2, <2>3 DEF Remove
<1>7. ASSUME NEW r \in Run, Abort(r) PROVE TypeOK'
  BY <1>6, <1>7 DEF Abort, Goto, Place
<1>8. ASSUME NEW r \in Run, Route(r) PROVE TypeOK'
  BY <1>8 DEF Route, Goto, Place
<1>9. ASSUME NEW r \in Run, Start(r) PROVE TypeOK'
  <2>1. faults' \in 0..MaxFaults
    BY <1>9, <1>b DEF Start
  <2>2. metas' \in [Run -> SUBSET Worker]
    <3>1. Tasks[r] \in SUBSET Worker
      OBVIOUS
    <3>2. PICK m \in SUBSET Tasks[r] : metas' = [metas EXCEPT ![r] = m]
      BY <1>9 DEF Start
    <3> QED BY <3>1, <3>2
  <2>3. worker' \in [Run -> [Worker -> {"none", "run", "dying", "gone"}]]
    <3> DEFINE started == [w \in Worker |-> IF w \in Tasks[r] THEN "run" ELSE "none"]
    <3>1. started \in [Worker -> {"none", "run", "dying", "gone"}]
      OBVIOUS
    <3>2. worker' = [worker EXCEPT ![r] = started] \/ worker' = worker
      BY <1>9 DEF Start
    <3> HIDE DEF started
    <3> QED BY <3>1, <3>2
  <2>4. pc' \in [Run -> Place] /\ failed' \in [Run -> BOOLEAN] /\ spoiled' \subseteq Run
    BY <1>9 DEF Start, Goto, Place
  <2> QED BY <1>9, <2>1, <2>2, <2>3, <2>4 DEF Start
<1>10. ASSUME NEW r \in Run, Await(r) PROVE TypeOK'
  <2>1. Next1(r) \in Worker
    BY <1>10, NextIsATask DEF Await, WaitedFor
  <2>2. faults' \in 0..MaxFaults
    BY <1>10, <1>b DEF Await
  <2> DEFINE w == Next1(r)
  <2>3. /\ worker' = worker \/ worker' = [worker EXCEPT ![r][w] = "dying"]
        /\ cut' = cut \/ cut' = [cut EXCEPT ![r] = @ \cup {w}]
        /\ awaited' = [awaited EXCEPT ![r] = @ \cup {w}]
        /\ results' = results \/ results' = [results EXCEPT ![r] = @ \cup {w}]
    BY <1>10 DEF Await
  <2> HIDE DEF w
  <2>5. w \in Worker
    BY <2>1 DEF w
  <2>4. worker' \in [Run -> [Worker -> {"none", "run", "dying", "gone"}]]
    <3>1. CASE worker' = [worker EXCEPT ![r][w] = "dying"]
      BY <2>5, <3>1
    <3> QED BY <2>3, <3>1
  <2>6. /\ awaited' \in [Run -> SUBSET Worker] /\ cut' \in [Run -> SUBSET Worker]
        /\ results' \in [Run -> SUBSET Worker]
    <3>1. /\ awaited \in [Run -> SUBSET Worker] /\ cut \in [Run -> SUBSET Worker]
          /\ results \in [Run -> SUBSET Worker]
      OBVIOUS
    <3>2. ASSUME cut' = [cut EXCEPT ![r] = @ \cup {w}] PROVE cut' \in [Run -> SUBSET Worker]
      BY ONLY <2>5, <3>1, <3>2
    <3>3. ASSUME results' = [results EXCEPT ![r] = @ \cup {w}]
          PROVE  results' \in [Run -> SUBSET Worker]
      BY ONLY <2>5, <3>1, <3>3
    <3>4. awaited' \in [Run -> SUBSET Worker]
      BY <2>3, <2>5
    <3> QED BY <2>3, <3>1, <3>2, <3>3, <3>4
  <2> QED BY <1>10, <2>2, <2>4, <2>6 DEF Await
<1>11. ASSUME NEW r \in Run, AllAwaited(r) PROVE TypeOK'
  BY <1>11 DEF AllAwaited, Goto, Place
<1>12. ASSUME NEW r \in Run, Collect(r) PROVE TypeOK'
  BY <1>12 DEF Collect, Goto, Place
<1>13. ASSUME NEW r \in Run, Teardown(r) PROVE TypeOK'
  <2>1. /\ trees' \in [Run -> SUBSET (Worker \X Repo)] /\ refs' \in [Run -> SUBSET Repo]
        /\ scratch' \in [Run -> BOOLEAN] /\ leaked' \subseteq Run
        /\ faults' \in 0..MaxFaults
    BY <1>6, <1>13 DEF Teardown
  <2> QED BY <1>13, <2>1 DEF Teardown, Goto, Place
<1>14. ASSUME NEW r \in Run, Summarise(r) PROVE TypeOK'
  <2>1. faults' \in 0..MaxFaults
    BY <1>14, <1>b DEF Summarise
  <2> QED BY <1>14, <2>1 DEF Summarise, Goto, Place
<1>15. ASSUME NEW r \in Run, Reply(r) PROVE TypeOK'
  BY <1>15 DEF Reply, Goto, Place
<1>16. ASSUME NEW r \in Run, Deadline(r) PROVE TypeOK'
  BY <1>16 DEF Deadline
<1>17. ASSUME NEW r \in Run, NEW w \in Worker, WorkerExit(r, w) PROVE TypeOK'
  BY <1>17 DEF WorkerExit
<1>18. CASE ProcExit
  <2>1. proc' \in 0..MaxProcs
    BY <1>18 DEF ProcExit
  <2>2. pending' \in BOOLEAN
    BY <1>18, Zenon DEF ProcExit
  <2> QED BY <1>18, <2>1, <2>2 DEF ProcExit
<1>22. CASE ProcStart
  BY <1>22 DEF ProcStart
<1>19. CASE Crash
  <2>1. pc' \in [Run -> Place] /\ worker' \in [Run -> [Worker -> {"none", "run", "dying", "gone"}]]
    BY <1>19 DEF Crash, Place
  <2>2. late' \in [Run -> BOOLEAN]
    <3>1. late' = [r \in Run |-> late[r] /\ ~InFlight(r)]
      BY <1>19 DEF Crash
    <3>2. \A r \in Run : (late[r] /\ ~InFlight(r)) \in BOOLEAN
      BY Zenon
    <3> QED BY <3>1, <3>2, Zenon
  <2>3. /\ awaited' \in [Run -> SUBSET Worker] /\ cut' \in [Run -> SUBSET Worker]
        /\ missed' \in [Run -> SUBSET Worker]
    BY <1>19 DEF Crash
  <2>4. crashes' \in 0..MaxCrashes /\ proc' \in 0..MaxProcs
    BY <1>19 DEF Crash
  <2>5. up' \in BOOLEAN /\ pending' \in BOOLEAN
    BY <1>19, Zenon DEF Crash
  <2> QED BY <1>19, <2>1, <2>2, <2>3, <2>4, <2>5 DEF Crash
<1>20. CASE Boot
  <2>1. faults' \in 0..MaxFaults
    BY <1>20, <1>b DEF Boot
  <2>2. summary' \in [Run -> {"none", "done", "failed"}] /\ spoiled' \subseteq Run
    BY <1>20 DEF Boot
  <2> QED BY <1>20, <2>1, <2>2 DEF Boot
<1>21. CASE UNCHANGED vars
  BY <1>21 DEF vars
<1> QED BY <1>1, <1>2, <1>3, <1>4, <1>5, <1>7, <1>8, <1>9, <1>10, <1>11, <1>12, <1>13, <1>14,
           <1>15, <1>16, <1>17, <1>18, <1>19, <1>20, <1>21, <1>22 DEF Next, TaskStep

-----------------------------------------------------------------------------
(* The parts of the invariant. *)

\* What is known of the workers begins with their start.
LEMMA NotBegunNext ==
    ASSUME TypeOK, NotBegun, [Next]_vars
    PROVE  NotBegun'
<1> USE DelegateAssumption DEF TypeOK, NotBegun, Early, Place, task_vars, repo_vars,
        journal_vars, bound_vars, history, Goto, At
<1>1. ASSUME NEW r \in Run, Ask(r) PROVE NotBegun'
  BY <1>1 DEF Ask
<1>2. ASSUME NEW r \in Run, Refuse(r) PROVE NotBegun'
  BY <1>2 DEF Refuse
<1>3. ASSUME NEW r \in Run, Mark(r) PROVE NotBegun'
  BY <1>3 DEF Mark
<1>4. ASSUME NEW r \in Run, Snapshot(r) PROVE NotBegun'
  BY <1>4 DEF Snapshot
<1>5. ASSUME NEW r \in Run, Provision(r) PROVE NotBegun'
  BY <1>5 DEF Provision
<1>6. ASSUME NEW r \in Run, Abort(r) PROVE NotBegun'
  BY <1>6 DEF Abort
<1>7. ASSUME NEW r \in Run, Route(r) PROVE NotBegun'
  BY <1>7 DEF Route
<1>8. ASSUME NEW r \in Run, Start(r) PROVE NotBegun'
  BY <1>8 DEF Start
<1>9. ASSUME NEW r \in Run, Await(r) PROVE NotBegun'
  BY <1>9 DEF Await
<1>10. ASSUME NEW r \in Run, AllAwaited(r) PROVE NotBegun'
  BY <1>10 DEF AllAwaited
<1>11. ASSUME NEW r \in Run, Collect(r) PROVE NotBegun'
  BY <1>11 DEF Collect
<1>12. ASSUME NEW r \in Run, Teardown(r) PROVE NotBegun'
  BY <1>12 DEF Teardown
<1>13. ASSUME NEW r \in Run, Summarise(r) PROVE NotBegun'
  BY <1>13 DEF Summarise
<1>14. ASSUME NEW r \in Run, Reply(r) PROVE NotBegun'
  BY <1>14 DEF Reply
<1>15. ASSUME NEW r \in Run, Deadline(r) PROVE NotBegun'
  BY <1>15 DEF Deadline
<1>16. ASSUME NEW r \in Run, NEW w \in Worker, WorkerExit(r, w) PROVE NotBegun'
  BY <1>16 DEF WorkerExit
<1>17. CASE ProcExit
  BY <1>17 DEF ProcExit
<1>18. CASE ProcStart
  BY <1>18 DEF ProcStart
<1>19. CASE Crash
  BY <1>19 DEF Crash
<1>20. CASE Boot
  BY <1>20 DEF Boot
<1>21. CASE UNCHANGED vars
  BY <1>21 DEF vars
<1> QED BY <1>1, <1>2, <1>3, <1>4, <1>5, <1>6, <1>7, <1>8, <1>9, <1>10, <1>11, <1>12, <1>13,
           <1>14, <1>15, <1>16, <1>17, <1>18, <1>19, <1>20, <1>21 DEF Next, TaskStep

\* A worker is waited for once, to its end or to the deadline.
LEMMA WaitedForNext ==
    ASSUME TypeOK, NotBegun, WaitedFor, [Next]_vars
    PROVE  WaitedFor'
<1> USE DelegateAssumption DEF TypeOK, WaitedFor, NotBegun, Early, Place, task_vars,
        repo_vars, journal_vars, bound_vars, history, Goto, At
<1>1. ASSUME NEW r \in Run, Ask(r) PROVE WaitedFor'
  BY <1>1 DEF Ask
<1>2. ASSUME NEW r \in Run, Refuse(r) PROVE WaitedFor'
  BY <1>2 DEF Refuse
<1>3. ASSUME NEW r \in Run, Mark(r) PROVE WaitedFor'
  BY <1>3 DEF Mark
<1>4. ASSUME NEW r \in Run, Snapshot(r) PROVE WaitedFor'
  BY <1>4 DEF Snapshot
<1>5. ASSUME NEW r \in Run, Provision(r) PROVE WaitedFor'
  BY <1>5 DEF Provision
<1>6. ASSUME NEW r \in Run, Abort(r) PROVE WaitedFor'
  BY <1>6 DEF Abort
<1>7. ASSUME NEW r \in Run, Route(r) PROVE WaitedFor'
  BY <1>7 DEF Route
<1>8. ASSUME NEW r \in Run, Start(r) PROVE WaitedFor'
  BY <1>8 DEF Start
<1>9. ASSUME NEW r \in Run, Await(r) PROVE WaitedFor'
  <2> DEFINE w == Next1(r)
  <2>1. w \in Tasks[r] \ awaited[r]
    BY <1>9, NextIsATask DEF Await, WaitedFor
  <2>2. /\ awaited' = [awaited EXCEPT ![r] = @ \cup {w}]
        /\ \/ worker[r][w] = "gone" /\ UNCHANGED <<worker, cut>>
           \/ /\ worker' = [worker EXCEPT ![r][w] = "dying"]
              /\ cut' = [cut EXCEPT ![r] = @ \cup {w}]
        /\ results' = results \/ results' = [results EXCEPT ![r] = @ \cup {w}]
        /\ pc[r] = "wait"
        /\ UNCHANGED <<up, proc, pending, pc, asker, failed, repo_vars, metas, summary, history>>
    BY <1>9 DEF Await
  <2> HIDE DEF w
  <2>3. awaited'[r] \subseteq Tasks[r]
    BY <2>1, <2>2
  <2>4. \A x \in awaited'[r] : worker'[r][x] = "gone" \/ x \in cut'[r]
    <3>1. w \in Worker
      BY <2>1
    <3>2. ASSUME NEW x \in awaited[r], x # w
          PROVE  worker'[r][x] = "gone" \/ x \in cut'[r]
      <4>1. worker'[r][x] = worker[r][x] /\ cut[r] \subseteq cut'[r]
        BY <2>2, <3>1, <3>2
      <4> QED BY <2>2, <4>1
    <3>3. worker'[r][w] = "gone" \/ w \in cut'[r]
      BY <2>2
    <3>4. awaited'[r] = awaited[r] \cup {w}
      BY <2>2
    <3> QED BY <3>2, <3>3, <3>4
  <2>5. \A s \in Run \ {r} : awaited'[s] = awaited[s] /\ cut'[s] = cut[s] /\ worker'[s] = worker[s]
    BY <2>2
  <2> QED BY <2>2, <2>3, <2>4, <2>5
<1>10. ASSUME NEW r \in Run, AllAwaited(r) PROVE WaitedFor'
  BY <1>10 DEF AllAwaited
<1>11. ASSUME NEW r \in Run, Collect(r) PROVE WaitedFor'
  BY <1>11 DEF Collect
<1>12. ASSUME NEW r \in Run, Teardown(r) PROVE WaitedFor'
  BY <1>12 DEF Teardown
<1>13. ASSUME NEW r \in Run, Summarise(r) PROVE WaitedFor'
  BY <1>13 DEF Summarise
<1>14. ASSUME NEW r \in Run, Reply(r) PROVE WaitedFor'
  BY <1>14 DEF Reply
<1>15. ASSUME NEW r \in Run, Deadline(r) PROVE WaitedFor'
  BY <1>15 DEF Deadline
<1>16. ASSUME NEW r \in Run, NEW w \in Worker, WorkerExit(r, w) PROVE WaitedFor'
  BY <1>16 DEF WorkerExit
<1>17. CASE ProcExit
  BY <1>17 DEF ProcExit
<1>18. CASE ProcStart
  BY <1>18 DEF ProcStart
<1>19. CASE Crash
  BY <1>19 DEF Crash
<1>20. CASE Boot
  BY <1>20 DEF Boot
<1>21. CASE UNCHANGED vars
  BY <1>21 DEF vars
<1> QED BY <1>1, <1>2, <1>3, <1>4, <1>5, <1>6, <1>7, <1>8, <1>9, <1>10, <1>11, <1>12, <1>13,
           <1>14, <1>15, <1>16, <1>17, <1>18, <1>19, <1>20, <1>21 DEF Next, TaskStep

\* Only a run with a writer touches the repositories.
LEMMA WritersOnlyNext ==
    ASSUME TypeOK, WritersOnly, [Next]_vars
    PROVE  WritersOnly'
<1> USE DelegateAssumption DEF TypeOK, WritersOnly, Clean, Place, task_vars, repo_vars,
        journal_vars, bound_vars, history, Goto, At
<1>1. ASSUME NEW r \in Run, Ask(r) PROVE WritersOnly'
  BY <1>1 DEF Ask
<1>2. ASSUME NEW r \in Run, Refuse(r) PROVE WritersOnly'
  BY <1>2 DEF Refuse
<1>3. ASSUME NEW r \in Run, Mark(r) PROVE WritersOnly'
  BY <1>3 DEF Mark
<1>4. ASSUME NEW r \in Run, Snapshot(r) PROVE WritersOnly'
  <2>1. pc'[r] \in {"prov", "abort"} /\ \A s \in Run \ {r} : pc'[s] = pc[s] /\ refs'[s] = refs[s]
    BY <1>4 DEF Snapshot
  <2> QED BY <1>4, <2>1 DEF Snapshot
<1>5. ASSUME NEW r \in Run, Provision(r) PROVE WritersOnly'
  <2>1. /\ \A s \in Run \ {r} : /\ pc'[s] = pc[s] /\ trees'[s] = trees[s]
                              /\ scratch'[s] = scratch[s] /\ provisioned'[s] = provisioned[s]
        /\ UNCHANGED <<refs>>
    BY <1>5 DEF Provision
  <2>2. \/ Writer[r] \subseteq provisioned[r] /\ pc'[r] = "route" /\ UNCHANGED provisioned
        \/ pc'[r] \in {"prov", "abort"}
    BY <1>5 DEF Provision
  <2> QED BY <1>5, <2>1, <2>2 DEF Provision
<1>6. ASSUME NEW r \in Run, Abort(r) PROVE WritersOnly'
  <2>1. pc'[r] = "reply" /\ UNCHANGED provisioned
    BY <1>6 DEF Abort
  <2>2. \A s \in Run \ {r} : /\ pc'[s] = pc[s] /\ trees'[s] = trees[s]
                           /\ scratch'[s] = scratch[s] /\ refs'[s] = refs[s]
    BY <1>6 DEF Abort, Remove
  <2> QED BY <2>1, <2>2
<1>7. ASSUME NEW r \in Run, Route(r) PROVE WritersOnly'
  BY <1>7 DEF Route
<1>8. ASSUME NEW r \in Run, Start(r) PROVE WritersOnly'
  <2>1. pc'[r] \in {"wait", "tear"} /\ pc[r] = "live" /\ \A s \in Run \ {r} : pc'[s] = pc[s]
    BY <1>8 DEF Start
  <2> QED BY <1>8, <2>1 DEF Start
<1>9. ASSUME NEW r \in Run, Await(r) PROVE WritersOnly'
  BY <1>9 DEF Await
<1>10. ASSUME NEW r \in Run, AllAwaited(r) PROVE WritersOnly'
  BY <1>10 DEF AllAwaited
<1>11. ASSUME NEW r \in Run, Collect(r) PROVE WritersOnly'
  BY <1>11 DEF Collect
<1>12. ASSUME NEW r \in Run, Teardown(r) PROVE WritersOnly'
  <2>1. pc'[r] = "sum" /\ UNCHANGED provisioned
    BY <1>12 DEF Teardown
  <2>2. \A s \in Run \ {r} : /\ pc'[s] = pc[s] /\ trees'[s] = trees[s]
                           /\ scratch'[s] = scratch[s] /\ refs'[s] = refs[s]
    BY <1>12 DEF Teardown, Remove
  <2> QED BY <2>1, <2>2
<1>13. ASSUME NEW r \in Run, Summarise(r) PROVE WritersOnly'
  BY <1>13 DEF Summarise
<1>14. ASSUME NEW r \in Run, Reply(r) PROVE WritersOnly'
  BY <1>14 DEF Reply
<1>15. ASSUME NEW r \in Run, Deadline(r) PROVE WritersOnly'
  BY <1>15 DEF Deadline
<1>16. ASSUME NEW r \in Run, NEW w \in Worker, WorkerExit(r, w) PROVE WritersOnly'
  BY <1>16 DEF WorkerExit
<1>17. CASE ProcExit
  BY <1>17 DEF ProcExit
<1>18. CASE ProcStart
  BY <1>18 DEF ProcStart
<1>19. CASE Crash
  BY <1>19 DEF Crash
<1>20. CASE Boot
  BY <1>20 DEF Boot
<1>21. CASE UNCHANGED vars
  BY <1>21 DEF vars
<1> QED BY <1>1, <1>2, <1>3, <1>4, <1>5, <1>6, <1>7, <1>8, <1>9, <1>10, <1>11, <1>12, <1>13,
           <1>14, <1>15, <1>16, <1>17, <1>18, <1>19, <1>20, <1>21 DEF Next, TaskStep

\* What a run has made is removed before it is summed up, or left behind by a failed removal.
LEMMA RemovedNext ==
    ASSUME TypeOK, WritersOnly, Removed, [Next]_vars
    PROVE  Removed'
<1> USE DelegateAssumption DEF TypeOK, WritersOnly, Clean, Removed, Place, task_vars,
        repo_vars, journal_vars, bound_vars, history, Goto, At
<1>1. ASSUME NEW r \in Run, Ask(r) PROVE Removed'
  BY <1>1 DEF Ask
<1>2. ASSUME NEW r \in Run, Refuse(r) PROVE Removed'
  BY <1>2 DEF Refuse
<1>3. ASSUME NEW r \in Run, Mark(r) PROVE Removed'
  BY <1>3 DEF Mark
<1>4. ASSUME NEW r \in Run, Snapshot(r) PROVE Removed'
  BY <1>4 DEF Snapshot
<1>5. ASSUME NEW r \in Run, Provision(r) PROVE Removed'
  BY <1>5 DEF Provision
<1>6. ASSUME NEW r \in Run, Abort(r) PROVE Removed'
  <2>1. ASSUME Remove(r), UNCHANGED provisioned
        PROVE  /\ r \in leaked' \/ (/\ refs'[r] = {} /\ ~scratch'[r]
                                 /\ trees'[r] \cap (provisioned'[r] \X Repo) = {})
               /\ leaked \subseteq leaked'
               /\ \A s \in Run \ {r} : /\ trees'[s] = trees[s] /\ scratch'[s] = scratch[s]
                                     /\ refs'[s] = refs[s] /\ provisioned'[s] = provisioned[s]
    <3>1. CASE /\ trees' = [trees EXCEPT ![r] = @ \ (provisioned[r] \X Repo)]
               /\ refs' = [refs EXCEPT ![r] = {}] /\ scratch' = [scratch EXCEPT ![r] = FALSE]
               /\ UNCHANGED leaked
      <4>1. trees'[r] = trees[r] \ (provisioned[r] \X Repo) /\ refs'[r] = {} /\ ~scratch'[r]
        BY <3>1
      <4>2. \A s \in Run \ {r} : trees'[s] = trees[s] /\ scratch'[s] = scratch[s] /\ refs'[s] = refs[s]
        BY <3>1
      <4> QED BY <2>1, <3>1, <4>1, <4>2
    <3>2. CASE leaked' = leaked \cup {r} /\ UNCHANGED <<trees, refs, scratch>>
      BY <2>1, <3>2
    <3> QED BY <2>1, <3>1, <3>2 DEF Remove
  <2>2. Remove(r) /\ UNCHANGED provisioned /\ pc' = [pc EXCEPT ![r] = "reply"]
    BY <1>6 DEF Abort
  <2> QED BY <2>1, <2>2
<1>7. ASSUME NEW r \in Run, Route(r) PROVE Removed'
  BY <1>7 DEF Route
<1>8. ASSUME NEW r \in Run, Start(r) PROVE Removed'
  BY <1>8 DEF Start
<1>9. ASSUME NEW r \in Run, Await(r) PROVE Removed'
  BY <1>9 DEF Await
<1>10. ASSUME NEW r \in Run, AllAwaited(r) PROVE Removed'
  BY <1>10 DEF AllAwaited
<1>11. ASSUME NEW r \in Run, Collect(r) PROVE Removed'
  BY <1>11 DEF Collect
<1>12. ASSUME NEW r \in Run, Teardown(r) PROVE Removed'
  <2>1. ASSUME Remove(r), UNCHANGED provisioned
        PROVE  /\ r \in leaked' \/ (/\ refs'[r] = {} /\ ~scratch'[r]
                                 /\ trees'[r] \cap (provisioned'[r] \X Repo) = {})
               /\ leaked \subseteq leaked'
               /\ \A s \in Run \ {r} : /\ trees'[s] = trees[s] /\ scratch'[s] = scratch[s]
                                     /\ refs'[s] = refs[s] /\ provisioned'[s] = provisioned[s]
    <3>1. CASE /\ trees' = [trees EXCEPT ![r] = @ \ (provisioned[r] \X Repo)]
               /\ refs' = [refs EXCEPT ![r] = {}] /\ scratch' = [scratch EXCEPT ![r] = FALSE]
               /\ UNCHANGED leaked
      <4>1. trees'[r] = trees[r] \ (provisioned[r] \X Repo) /\ refs'[r] = {} /\ ~scratch'[r]
        BY <3>1
      <4>2. \A s \in Run \ {r} : trees'[s] = trees[s] /\ scratch'[s] = scratch[s] /\ refs'[s] = refs[s]
        BY <3>1
      <4> QED BY <2>1, <3>1, <4>1, <4>2
    <3>2. CASE leaked' = leaked \cup {r} /\ UNCHANGED <<trees, refs, scratch>>
      BY <2>1, <3>2
    <3> QED BY <2>1, <3>1, <3>2 DEF Remove
  <2>2. pc' = [pc EXCEPT ![r] = "sum"] /\ UNCHANGED provisioned
    BY <1>12 DEF Teardown
  <2>3. CASE provisioned[r] = {}
    <3>1. Clean(r) /\ UNCHANGED <<trees, refs, scratch, leaked>>
      BY <1>12, <2>3 DEF Teardown
    <3> QED BY <2>2, <3>1
  <2>4. CASE provisioned[r] # {}
    <3>1. Remove(r)
      BY <1>12, <2>4 DEF Teardown
    <3> QED BY <2>1, <2>2, <3>1
  <2> QED BY <2>3, <2>4
<1>13. ASSUME NEW r \in Run, Summarise(r) PROVE Removed'
  BY <1>13 DEF Summarise
<1>14. ASSUME NEW r \in Run, Reply(r) PROVE Removed'
  BY <1>14 DEF Reply
<1>15. ASSUME NEW r \in Run, Deadline(r) PROVE Removed'
  BY <1>15 DEF Deadline
<1>16. ASSUME NEW r \in Run, NEW w \in Worker, WorkerExit(r, w) PROVE Removed'
  BY <1>16 DEF WorkerExit
<1>17. CASE ProcExit
  BY <1>17 DEF ProcExit
<1>18. CASE ProcStart
  BY <1>18 DEF ProcStart
<1>19. CASE Crash
  BY <1>19 DEF Crash
<1>20. CASE Boot
  BY <1>20 DEF Boot
<1>21. CASE UNCHANGED vars
  BY <1>21 DEF vars
<1> QED BY <1>1, <1>2, <1>3, <1>4, <1>5, <1>6, <1>7, <1>8, <1>9, <1>10, <1>11, <1>12, <1>13,
           <1>14, <1>15, <1>16, <1>17, <1>18, <1>19, <1>20, <1>21 DEF Next, TaskStep

\* Once the workers may start only a failed write of the journal fails the run.
LEMMA FailureSpoilsNext ==
    ASSUME TypeOK, NotBegun, FailureSpoils, [Next]_vars
    PROVE  FailureSpoils'
<1> USE DelegateAssumption DEF TypeOK, NotBegun, Early, FailureSpoils, Place, task_vars,
        repo_vars, journal_vars, bound_vars, history, Goto, At
<1>1. ASSUME NEW r \in Run, Ask(r) PROVE FailureSpoils'
  BY <1>1 DEF Ask
<1>2. ASSUME NEW r \in Run, Refuse(r) PROVE FailureSpoils'
  BY <1>2 DEF Refuse
<1>3. ASSUME NEW r \in Run, Mark(r) PROVE FailureSpoils'
  BY <1>3 DEF Mark
<1>4. ASSUME NEW r \in Run, Snapshot(r) PROVE FailureSpoils'
  BY <1>4 DEF Snapshot
<1>5. ASSUME NEW r \in Run, Provision(r) PROVE FailureSpoils'
  BY <1>5 DEF Provision
<1>6. ASSUME NEW r \in Run, Abort(r) PROVE FailureSpoils'
  BY <1>6 DEF Abort
<1>7. ASSUME NEW r \in Run, Route(r) PROVE FailureSpoils'
  BY <1>7 DEF Route
<1>8. ASSUME NEW r \in Run, Start(r) PROVE FailureSpoils'
  BY <1>8 DEF Start
<1>9. ASSUME NEW r \in Run, Await(r) PROVE FailureSpoils'
  BY <1>9 DEF Await
<1>10. ASSUME NEW r \in Run, AllAwaited(r) PROVE FailureSpoils'
  BY <1>10 DEF AllAwaited
<1>11. ASSUME NEW r \in Run, Collect(r) PROVE FailureSpoils'
  BY <1>11 DEF Collect
<1>12. ASSUME NEW r \in Run, Teardown(r) PROVE FailureSpoils'
  BY <1>12 DEF Teardown
<1>13. ASSUME NEW r \in Run, Summarise(r) PROVE FailureSpoils'
  BY <1>13 DEF Summarise
<1>14. ASSUME NEW r \in Run, Reply(r) PROVE FailureSpoils'
  BY <1>14 DEF Reply
<1>15. ASSUME NEW r \in Run, Deadline(r) PROVE FailureSpoils'
  BY <1>15 DEF Deadline
<1>16. ASSUME NEW r \in Run, NEW w \in Worker, WorkerExit(r, w) PROVE FailureSpoils'
  BY <1>16 DEF WorkerExit
<1>17. CASE ProcExit
  BY <1>17 DEF ProcExit
<1>18. CASE ProcStart
  BY <1>18 DEF ProcStart
<1>19. CASE Crash
  BY <1>19 DEF Crash
<1>20. CASE Boot
  BY <1>20 DEF Boot
<1>21. CASE UNCHANGED vars
  BY <1>21 DEF vars
<1> QED BY <1>1, <1>2, <1>3, <1>4, <1>5, <1>6, <1>7, <1>8, <1>9, <1>10, <1>11, <1>12, <1>13,
           <1>14, <1>15, <1>16, <1>17, <1>18, <1>19, <1>20, <1>21 DEF Next, TaskStep

\* A run that ends, and at boot a run that was lost, has its summary.
LEMMA SummarisedNext ==
    ASSUME TypeOK, NotBegun, WaitedFor, FailureSpoils, Summarised, [Next]_vars
    PROVE  Summarised'
<1> USE DelegateAssumption DEF TypeOK, NotBegun, Early, FailureSpoils, Summarised, Shown,
        Place, task_vars, repo_vars, journal_vars, bound_vars, history, Goto, At
<1>1. ASSUME NEW r \in Run, Ask(r) PROVE Summarised'
  BY <1>1 DEF Ask
<1>2. ASSUME NEW r \in Run, Refuse(r) PROVE Summarised'
  BY <1>2 DEF Refuse
<1>3. ASSUME NEW r \in Run, Mark(r) PROVE Summarised'
  BY <1>3 DEF Mark
<1>4. ASSUME NEW r \in Run, Snapshot(r) PROVE Summarised'
  BY <1>4 DEF Snapshot
<1>5. ASSUME NEW r \in Run, Provision(r) PROVE Summarised'
  BY <1>5 DEF Provision
<1>6. ASSUME NEW r \in Run, Abort(r) PROVE Summarised'
  BY <1>6 DEF Abort
<1>7. ASSUME NEW r \in Run, Route(r) PROVE Summarised'
  BY <1>7 DEF Route
<1>8. ASSUME NEW r \in Run, Start(r) PROVE Summarised'
  <2>1. /\ up' /\ pc'[r] \in {"wait", "tear"} /\ spoiled \subseteq spoiled'
        /\ \A s \in Run \ {r} : pc'[s] = pc[s] /\ metas'[s] = metas[s]
        /\ UNCHANGED <<results, summary>>
    BY <1>8 DEF Start
  <2> QED BY <1>8, <2>1 DEF Start
<1>9. ASSUME NEW r \in Run, Await(r) PROVE Summarised'
  <2> DEFINE w == Next1(r)
  <2>1. w \in Tasks[r] \ awaited[r]
    BY <1>9, NextIsATask DEF Await, WaitedFor
  <2>2. /\ awaited' = [awaited EXCEPT ![r] = @ \cup {w}]
        /\ \/ worker[r][w] = "gone" /\ UNCHANGED <<worker, cut>>
           \/ /\ worker' = [worker EXCEPT ![r][w] = "dying"]
              /\ cut' = [cut EXCEPT ![r] = @ \cup {w}]
        /\ results' = results \/ results' = [results EXCEPT ![r] = @ \cup {w}]
        /\ pc[r] = "wait"
        /\ UNCHANGED <<up, proc, pending, pc, asker, failed, repo_vars, metas, summary, history>>
    BY <1>9 DEF Await
  <2> HIDE DEF w
  <2>3. up' /\ pc'[r] = "wait" /\ \A s \in Run \ {r} : results'[s] = results[s]
    BY <1>9, <2>2 DEF Await
  <2> QED BY <2>2, <2>3
<1>10. ASSUME NEW r \in Run, AllAwaited(r) PROVE Summarised'
  BY <1>10 DEF AllAwaited
<1>11. ASSUME NEW r \in Run, Collect(r) PROVE Summarised'
  BY <1>11 DEF Collect
<1>12. ASSUME NEW r \in Run, Teardown(r) PROVE Summarised'
  BY <1>12 DEF Teardown
<1>13. ASSUME NEW r \in Run, Summarise(r) PROVE Summarised'
  BY <1>13 DEF Summarise
<1>14. ASSUME NEW r \in Run, Reply(r) PROVE Summarised'
  BY <1>14 DEF Reply
<1>15. ASSUME NEW r \in Run, Deadline(r) PROVE Summarised'
  BY <1>15 DEF Deadline
<1>16. ASSUME NEW r \in Run, NEW w \in Worker, WorkerExit(r, w) PROVE Summarised'
  BY <1>16 DEF WorkerExit
<1>17. CASE ProcExit
  BY <1>17 DEF ProcExit
<1>18. CASE ProcStart
  BY <1>18 DEF ProcStart
<1>19. CASE Crash
  <2>1. ~up' /\ UNCHANGED <<metas, results, summary, spoiled>>
    BY <1>19 DEF Crash
  <2>2. \A s \in Run : pc'[s] = IF InFlight(s) THEN "lost" ELSE pc[s]
    BY <1>19 DEF Crash
  <2>3. \A s \in Run : pc'[s] \in {"none", "end", "lost"} /\ (pc'[s] = "end" => pc[s] = "end")
    BY <2>2 DEF InFlight
  <2> QED BY <2>1, <2>3
<1>20. CASE Boot
  <2>1. UNCHANGED <<pc, metas, results>> /\ up'
    BY <1>20 DEF Boot
  <2>2. PICK bad \in SUBSET {s \in Run : Orphaned(s)} :
            /\ spoiled' = spoiled \cup bad
            /\ summary' = [s \in Run |->
                    IF ~Orphaned(s) \/ s \in bad THEN summary[s]
                    ELSE IF Shown(s) \subseteq results[s] THEN "done" ELSE "failed"]
    BY <1>20 DEF Boot, Shown
  <2>3. \A s \in Run : Shown(s) = {} \/ summary'[s] # "none" \/ s \in spoiled'
    BY <2>2 DEF Orphaned
  <2> QED BY <2>1, <2>3
<1>21. CASE UNCHANGED vars
  BY <1>21 DEF vars
<1> QED BY <1>1, <1>2, <1>3, <1>4, <1>5, <1>6, <1>7, <1>8, <1>9, <1>10, <1>11, <1>12, <1>13,
           <1>14, <1>15, <1>16, <1>17, <1>18, <1>19, <1>20, <1>21 DEF Next, TaskStep

\* Who asked is known, and who is not alone.
LEMMA AskersNext ==
    ASSUME TypeOK, Askers, [Next]_vars
    PROVE  Askers'
<1> USE DelegateAssumption DEF TypeOK, Askers, InFlight, Place, task_vars, repo_vars,
        journal_vars, bound_vars, history, Goto, At
<1>1. ASSUME NEW r \in Run, Ask(r) PROVE Askers'
  BY <1>1 DEF Ask
<1>2. ASSUME NEW r \in Run, Refuse(r) PROVE Askers'
  BY <1>2 DEF Refuse
<1>3. ASSUME NEW r \in Run, Mark(r) PROVE Askers'
  BY <1>3 DEF Mark
<1>4. ASSUME NEW r \in Run, Snapshot(r) PROVE Askers'
  <2>1. /\ pc[r] \in {"snap"} /\ pc'[r] \in {"prov", "abort"}
        /\ \A s \in Run \ {r} : pc'[s] = pc[s]
        /\ UNCHANGED <<proc, asker, procs, shared>>
    BY <1>4 DEF Snapshot
  <2>2. \A s \in Run : InFlight(s)' => InFlight(s)
    BY <2>1
  <2> QED BY <2>1, <2>2
<1>5. ASSUME NEW r \in Run, Provision(r) PROVE Askers'
  <2>1. /\ pc[r] \in {"prov"} /\ pc'[r] \in {"prov", "route", "abort"}
        /\ \A s \in Run \ {r} : pc'[s] = pc[s]
        /\ UNCHANGED <<proc, asker, procs, shared>>
    BY <1>5 DEF Provision
  <2>2. \A s \in Run : InFlight(s)' => InFlight(s)
    BY <2>1
  <2> QED BY <2>1, <2>2
<1>6. ASSUME NEW r \in Run, Abort(r) PROVE Askers'
  BY <1>6 DEF Abort
<1>7. ASSUME NEW r \in Run, Route(r) PROVE Askers'
  BY <1>7 DEF Route
<1>8. ASSUME NEW r \in Run, Start(r) PROVE Askers'
  <2>1. /\ pc[r] \in {"live"} /\ pc'[r] \in {"wait", "tear"}
        /\ \A s \in Run \ {r} : pc'[s] = pc[s]
        /\ UNCHANGED <<proc, asker, procs, shared>>
    BY <1>8 DEF Start
  <2>2. \A s \in Run : InFlight(s)' => InFlight(s)
    BY <2>1
  <2> QED BY <2>1, <2>2
<1>9. ASSUME NEW r \in Run, Await(r) PROVE Askers'
  BY <1>9 DEF Await
<1>10. ASSUME NEW r \in Run, AllAwaited(r) PROVE Askers'
  BY <1>10 DEF AllAwaited
<1>11. ASSUME NEW r \in Run, Collect(r) PROVE Askers'
  BY <1>11 DEF Collect
<1>12. ASSUME NEW r \in Run, Teardown(r) PROVE Askers'
  BY <1>12 DEF Teardown
<1>13. ASSUME NEW r \in Run, Summarise(r) PROVE Askers'
  BY <1>13 DEF Summarise
<1>14. ASSUME NEW r \in Run, Reply(r) PROVE Askers'
  BY <1>14 DEF Reply
<1>15. ASSUME NEW r \in Run, Deadline(r) PROVE Askers'
  BY <1>15 DEF Deadline
<1>16. ASSUME NEW r \in Run, NEW w \in Worker, WorkerExit(r, w) PROVE Askers'
  BY <1>16 DEF WorkerExit
<1>17. CASE ProcExit
  BY <1>17 DEF ProcExit
<1>18. CASE ProcStart
  BY <1>18 DEF ProcStart
<1>19. CASE Crash
  BY <1>19 DEF Crash
<1>20. CASE Boot
  BY <1>20 DEF Boot
<1>21. CASE UNCHANGED vars
  BY <1>21 DEF vars
<1> QED BY <1>1, <1>2, <1>3, <1>4, <1>5, <1>6, <1>7, <1>8, <1>9, <1>10, <1>11, <1>12, <1>13,
           <1>14, <1>15, <1>16, <1>17, <1>18, <1>19, <1>20, <1>21 DEF Next, TaskStep

\* A patch is collected of workers that ended or were stopped at the deadline.
LEMMA PatchesCompleteNext ==
    ASSUME TypeOK, WaitedFor, PatchesComplete, [Next]_vars
    PROVE  PatchesComplete'
<1> USE DelegateAssumption DEF TypeOK, WaitedFor, PatchesComplete, task_vars, repo_vars,
        journal_vars, bound_vars, history, Goto, At
<1>1. ASSUME NEW r \in Run, Ask(r) PROVE PatchesComplete'
  BY <1>1 DEF Ask
<1>2. ASSUME NEW r \in Run, Refuse(r) PROVE PatchesComplete'
  BY <1>2 DEF Refuse
<1>3. ASSUME NEW r \in Run, Mark(r) PROVE PatchesComplete'
  BY <1>3 DEF Mark
<1>4. ASSUME NEW r \in Run, Snapshot(r) PROVE PatchesComplete'
  BY <1>4 DEF Snapshot
<1>5. ASSUME NEW r \in Run, Provision(r) PROVE PatchesComplete'
  BY <1>5 DEF Provision
<1>6. ASSUME NEW r \in Run, Abort(r) PROVE PatchesComplete'
  BY <1>6 DEF Abort
<1>7. ASSUME NEW r \in Run, Route(r) PROVE PatchesComplete'
  BY <1>7 DEF Route
<1>8. ASSUME NEW r \in Run, Start(r) PROVE PatchesComplete'
  BY <1>8 DEF Start
<1>9. ASSUME NEW r \in Run, Await(r) PROVE PatchesComplete'
  <2> DEFINE w == Next1(r)
  <2>1. w \in Tasks[r] \ awaited[r]
    BY <1>9, NextIsATask DEF Await, WaitedFor
  <2>2. /\ awaited' = [awaited EXCEPT ![r] = @ \cup {w}]
        /\ \/ worker[r][w] = "gone" /\ UNCHANGED <<worker, cut>>
           \/ /\ worker' = [worker EXCEPT ![r][w] = "dying"]
              /\ cut' = [cut EXCEPT ![r] = @ \cup {w}]
        /\ results' = results \/ results' = [results EXCEPT ![r] = @ \cup {w}]
        /\ pc[r] = "wait"
        /\ UNCHANGED <<up, proc, pending, pc, asker, failed, repo_vars, metas, summary, history>>
    BY <1>9 DEF Await
  <2> HIDE DEF w
  <2>3. \A s \in Run : cut[s] \subseteq cut'[s]
    <3>1. CASE cut' = [cut EXCEPT ![r] = @ \cup {w}]
      BY <3>1
    <3> QED BY <2>2, <3>1
  <2> QED BY <2>2, <2>3
<1>10. ASSUME NEW r \in Run, AllAwaited(r) PROVE PatchesComplete'
  BY <1>10 DEF AllAwaited
<1>11. ASSUME NEW r \in Run, Collect(r) PROVE PatchesComplete'
  BY <1>11 DEF Collect
<1>12. ASSUME NEW r \in Run, Teardown(r) PROVE PatchesComplete'
  BY <1>12 DEF Teardown
<1>13. ASSUME NEW r \in Run, Summarise(r) PROVE PatchesComplete'
  BY <1>13 DEF Summarise
<1>14. ASSUME NEW r \in Run, Reply(r) PROVE PatchesComplete'
  BY <1>14 DEF Reply
<1>15. ASSUME NEW r \in Run, Deadline(r) PROVE PatchesComplete'
  BY <1>15 DEF Deadline
<1>16. ASSUME NEW r \in Run, NEW w \in Worker, WorkerExit(r, w) PROVE PatchesComplete'
  BY <1>16 DEF WorkerExit
<1>17. CASE ProcExit
  BY <1>17 DEF ProcExit
<1>18. CASE ProcStart
  BY <1>18 DEF ProcStart
<1>19. CASE Crash
  BY <1>19 DEF Crash
<1>20. CASE Boot
  BY <1>20 DEF Boot
<1>21. CASE UNCHANGED vars
  BY <1>21 DEF vars
<1> QED BY <1>1, <1>2, <1>3, <1>4, <1>5, <1>6, <1>7, <1>8, <1>9, <1>10, <1>11, <1>12, <1>13,
           <1>14, <1>15, <1>16, <1>17, <1>18, <1>19, <1>20, <1>21 DEF Next, TaskStep

\* The exemption of a run that is alone is lifted by the run itself or with the process.
LEMMA ExemptNext ==
    ASSUME TypeOK, Askers, ExemptWhileAlone, [Next]_vars
    PROVE  ExemptWhileAlone'
<1> USE DelegateAssumption DEF TypeOK, Askers, InFlight, Marked, ExemptWhileAlone, Place,
        task_vars, repo_vars, journal_vars, bound_vars, history, Goto, At
<1>1. ASSUME NEW r \in Run, Ask(r) PROVE ExemptWhileAlone'
  BY <1>1 DEF Ask
<1>2. ASSUME NEW r \in Run, Refuse(r) PROVE ExemptWhileAlone'
  BY <1>2 DEF Refuse
<1>3. ASSUME NEW r \in Run, Mark(r) PROVE ExemptWhileAlone'
  BY <1>3 DEF Mark
<1>4. ASSUME NEW r \in Run, Snapshot(r) PROVE ExemptWhileAlone'
  BY <1>4 DEF Snapshot
<1>5. ASSUME NEW r \in Run, Provision(r) PROVE ExemptWhileAlone'
  BY <1>5 DEF Provision
<1>6. ASSUME NEW r \in Run, Abort(r) PROVE ExemptWhileAlone'
  BY <1>6 DEF Abort
<1>7. ASSUME NEW r \in Run, Route(r) PROVE ExemptWhileAlone'
  BY <1>7 DEF Route
<1>8. ASSUME NEW r \in Run, Start(r) PROVE ExemptWhileAlone'
  BY <1>8 DEF Start
<1>9. ASSUME NEW r \in Run, Await(r) PROVE ExemptWhileAlone'
  BY <1>9 DEF Await
<1>10. ASSUME NEW r \in Run, AllAwaited(r) PROVE ExemptWhileAlone'
  BY <1>10 DEF AllAwaited
<1>11. ASSUME NEW r \in Run, Collect(r) PROVE ExemptWhileAlone'
  BY <1>11 DEF Collect
<1>12. ASSUME NEW r \in Run, Teardown(r) PROVE ExemptWhileAlone'
  BY <1>12 DEF Teardown
<1>13. ASSUME NEW r \in Run, Summarise(r) PROVE ExemptWhileAlone'
  BY <1>13 DEF Summarise
<1>14. ASSUME NEW r \in Run, Reply(r) PROVE ExemptWhileAlone'
  BY <1>14 DEF Reply
<1>15. ASSUME NEW r \in Run, Deadline(r) PROVE ExemptWhileAlone'
  BY <1>15 DEF Deadline
<1>16. ASSUME NEW r \in Run, NEW w \in Worker, WorkerExit(r, w) PROVE ExemptWhileAlone'
  BY <1>16 DEF WorkerExit
<1>17. CASE ProcExit
  <2>1. proc' = 0 /\ UNCHANGED <<pc, asker>>
    BY <1>17 DEF ProcExit
  <2>2. \A s \in Run : Marked(s) => asker[s] \in 1..procs
    OBVIOUS
  <2>3. procs \in Nat
    OBVIOUS
  <2>4. ASSUME NEW s \in Run, Marked(s)' PROVE asker'[s] # proc'
    <3>1. asker[s] \in 1..procs
      BY <2>1, <2>2, <2>4
    <3> QED BY ONLY <2>1, <2>3, <3>1
  <2> QED BY <2>4
<1>18. CASE ProcStart
  <2>1. proc' = procs + 1 /\ UNCHANGED <<pc, asker>>
    BY <1>18 DEF ProcStart
  <2>2. \A s \in Run : Marked(s) => asker[s] \in 1..procs
    OBVIOUS
  <2>3. procs \in Nat
    OBVIOUS
  <2>4. ASSUME NEW s \in Run, Marked(s)' PROVE asker'[s] # proc'
    <3>1. asker[s] \in 1..procs
      BY <2>1, <2>2, <2>4
    <3> QED BY ONLY <2>1, <2>3, <3>1
  <2> QED BY <2>4
<1>19. CASE Crash
  BY <1>19 DEF Crash
<1>20. CASE Boot
  BY <1>20 DEF Boot
<1>21. CASE UNCHANGED vars
  BY <1>21 DEF vars
<1> QED BY <1>1, <1>2, <1>3, <1>4, <1>5, <1>6, <1>7, <1>8, <1>9, <1>10, <1>11, <1>12, <1>13,
           <1>14, <1>15, <1>16, <1>17, <1>18, <1>19, <1>20, <1>21 DEF Next, TaskStep

-----------------------------------------------------------------------------
(* The invariant, and the theorems. *)

LEMMA InvInit == Init => Inv
<1> SUFFICES ASSUME Init PROVE Inv
  OBVIOUS
<1>1. TypeOK
  BY TypeInit
<1>2. /\ \A r \in Run : /\ pc[r] = "none" /\ ~failed[r] /\ ~scratch[r] /\ awaited[r] = {}
                        /\ metas[r] = {} /\ results[r] = {} /\ refs[r] = {} /\ trees[r] = {}
                        /\ provisioned[r] = {} /\ missed[r] = {}
      /\ up /\ proc = 1 /\ procs = 1
  BY DEF Init
<1>3. NotBegun /\ WaitedFor /\ WritersOnly /\ PatchesComplete
  BY <1>2 DEF NotBegun, WaitedFor, WritersOnly, Clean, PatchesComplete
<1>4. Removed /\ FailureSpoils /\ Summarised
  BY <1>2 DEF Removed, FailureSpoils, Summarised
<1>5. Askers /\ ExemptWhileAlone
  BY <1>2 DEF Askers, ExemptWhileAlone, InFlight, Marked
<1> QED BY <1>1, <1>3, <1>4, <1>5 DEF Inv

LEMMA InvNext == Inv /\ [Next]_vars => Inv'
BY TypeNext, NotBegunNext, WaitedForNext, WritersOnlyNext, RemovedNext, FailureSpoilsNext,
   SummarisedNext, AskersNext, PatchesCompleteNext, ExemptNext DEF Inv

LEMMA Invariance == Spec => []Inv
BY InvInit, InvNext, PTL DEF Spec

\* TypeOK: every variable of the fan-out keeps its type.
THEOREM DelegateTypes == Spec => []TypeOK
<1>1. Inv => TypeOK
  BY DEF Inv
<1> QED BY <1>1, Invariance, PTL

\* delegate.rs:739: no patch is collected of a writer that still runs, but of one stopped at
\* the deadline.
THEOREM PatchesAreComplete == Spec => []PatchesComplete
<1>1. Inv => PatchesComplete
  BY DEF Inv
<1> QED BY <1>1, Invariance, PTL

\* delegate.rs:765: a run that returned has removed what it made in the repositories, unless
\* a removal failed or a writer's set up broke off half-way.
THEOREM ScratchIsRemoved == Spec => []ScratchRemoved
<1>1. Inv => ScratchRemoved
  BY DEF Inv, Removed, ScratchRemoved
<1> QED BY <1>1, Invariance, PTL

\* delegate.rs:469: no run is shown as running that nobody works on, after a crash as after
\* an answer.
THEOREM NoRunIsAPhantom == Spec => []NoPhantomRun
<1>1. Inv => NoPhantomRun
  <2> SUFFICES ASSUME Inv, NEW r \in Run, up, ~InFlight(r), Shown(r) # {}, r \notin spoiled
               PROVE  summary[r] # "none"
    BY DEF NoPhantomRun
  <2>1. pc[r] \in {"none", "end", "lost"}
    BY DEF InFlight
  <2>2. pc[r] # "none"
    BY DEF Inv, NotBegun, Early, Shown
  <2> QED BY <2>1, <2>2 DEF Inv, Summarised
<1> QED BY <1>1, Invariance, PTL

\* delegate.rs:873: the only fan-out of a session keeps the watchdog off the session while it
\* works and the process that asked for it lives.
THEOREM ExemptWhileItIsAlone == Spec => []ExemptWhileAlone
<1>1. Inv => ExemptWhileAlone
  BY DEF Inv
<1> QED BY <1>1, Invariance, PTL
=============================================================================
