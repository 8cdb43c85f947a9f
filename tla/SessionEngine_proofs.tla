------------------------ MODULE SessionEngine_proofs ------------------------
(***************************************************************************)
(* Theorems about SessionEngine, for every number of sessions, clients and *)
(* slots, every cap and every number of calls.                             *)
(***************************************************************************)
EXTENDS SessionEngine, FiniteSetTheorems, TLAPS

\* The tuples of variables, as every step uses them.
LEMMA TypeInit == Init => TypeOK
<1> SUFFICES ASSUME Init PROVE TypeOK
  OBVIOUS
<1>1. err \in [Session -> BOOLEAN]
  <2>1. err = [s \in Session |-> status[s] = "failed"]
    BY DEF Init
  <2> QED BY <2>1, Zenon
<1>2. status \in [Session -> Row]
  BY DEF Init, Row, NoRow, Status, Terminal
<1>3. Absent \in Row
  BY DEF Row, NoRow
<1>4. RowType
  BY <1>1, <1>2 DEF RowType
<1>5. SchedType
  BY DEF Init, SchedType
<1>6. TurnType
  BY <1>3 DEF Init, TurnType
<1>7. CallType
  BY <1>3, EngineAssumption DEF EngineAssumption, Init, CallType
<1> QED BY <1>4, <1>5, <1>6, <1>7 DEF TypeOK

LEMMA TypeStart ==
    ASSUME TypeOK, NEW t \in Turn, StartStep(t)
    PROVE  TypeOK'
<1> USE EngineAssumption
<1> USE DEF TypeOK, RowType, SchedType, TurnType, CallType, Goto, rowVars, schedVars, callVars
<1>1. CASE StartCheck(t)
  BY <1>1 DEF StartCheck
<1>2. CASE StartSpawn(t)
  BY <1>2 DEF StartSpawn
<1>3. CASE StartRegister(t)
  BY <1>3 DEF StartRegister
<1>4. CASE StartPublish(t)
  BY <1>4 DEF StartPublish
<1>5. CASE StartRunGet(t)
  BY <1>5 DEF StartRunGet
<1>6. CASE StartRunApply(t)
  BY <1>6 DEF StartRunApply, Row, Status
<1>7. CASE StartFailGet(t)
  BY <1>7 DEF StartFailGet, Forget
<1>8. CASE StartFailApply(t)
  BY <1>8 DEF StartFailApply, Forget, Row, Status
<1>9. CASE StartFinally(t)
  BY <1>9 DEF StartFinally
<1> QED BY <1>1, <1>2, <1>3, <1>4, <1>5, <1>6, <1>7, <1>8, <1>9 DEF StartStep

LEMMA TypeHandler ==
    ASSUME TypeOK, NEW t \in Turn, HandlerStep(t)
    PROVE  TypeOK'
<1> USE DEF TypeOK, RowType, SchedType, TurnType, CallType, EndHandler, rowVars, schedVars, callVars, turnVars
<1>1. CASE EventInit(t)
  BY <1>1 DEF EventInit
<1>2. CASE EventResultGet(t)
  <2>1. AfterResult(proc[t]) \in {"idle", "busy", "ending"}
    BY DEF AfterResult
  <2> QED BY <1>2, <2>1 DEF EventResultGet
<1>3. CASE EventResultApply(t)
  BY <1>3 DEF EventResultApply
<1>4. CASE ExitBegin(t)
  BY <1>4 DEF ExitBegin, Row, NoRow
<1>5. CASE ExitGet(t)
  <2>1. Absent \in Row
    BY DEF Row, NoRow
  <2>2. CASE status[tsid[t]] = Absent
    BY <1>5, <2>1, <2>2 DEF ExitGet
  <2>3. CASE status[tsid[t]] # Absent
    BY <1>5, <2>3 DEF ExitGet
  <2> QED BY <2>2, <2>3
<1>6. CASE ExitApply(t)
  <2>2. Absent \in Row
    BY DEF Row, NoRow
  <2>3. RowType'
    <3>1. CASE status[tsid[t]] = Absent
      BY <1>6, <3>1 DEF ExitApply
    <3>2. CASE status[tsid[t]] # Absent
      <4>1. PICK ok \in BOOLEAN :
              LET final == ExitStatus(hseen[t], hflag[t], ok) IN
              /\ status' = [status EXCEPT ![tsid[t]] = final]
              /\ err' = [err EXCEPT ![tsid[t]] = ExitError(final, hflag[t], @)]
        BY <1>6, <3>2 DEF ExitApply
      <4>2. ExitStatus(hseen[t], hflag[t], ok) \in Row
        BY DEF ExitStatus, Row, Status, Terminal
      <4>3. \A final, old : old \in BOOLEAN => ExitError(final, hflag[t], old) \in BOOLEAN
        BY DEF ExitError
      <4>4. tsid[t] \in Session
        BY <1>6 DEF ExitApply
      <4>5. err' \in [Session -> BOOLEAN]
        BY <4>1, <4>3, <4>4
      <4> QED BY <4>1, <4>2, <4>5
    <3> QED BY <3>1, <3>2
  <2> QED BY <1>6, <2>2, <2>3 DEF ExitApply
<1> QED BY <1>1, <1>2, <1>3, <1>4, <1>5, <1>6 DEF HandlerStep

LEMMA TypeCall ==
    ASSUME TypeOK, NEW c \in Task, CallStep(c)
    PROVE  TypeOK'
<1> USE EngineAssumption DEF EngineAssumption
<1> USE DEF TypeOK, RowType, SchedType, TurnType, CallType, To, Stay, Finish, rowVars, schedVars, turnVars, callVars
<1>0. Absent \in Row /\ Status \subseteq Row
  BY DEF Row, NoRow
<1>1. CASE Enqueue(c)
  BY <1>0, <1>1 DEF Enqueue, PushBack
<1>2. CASE FollowCheck(c)
  BY <1>0, <1>2 DEF FollowCheck
<1>3. CASE LivePatch(c)
  BY <1>3 DEF LivePatch
<1>4. CASE LiveState(c)
  BY <1>4 DEF LiveState
<1>5. CASE LiveWrite(c)
  BY <1>0, <1>5 DEF LiveWrite
<1>6. CASE FollowPatch(c)
  BY <1>6 DEF FollowPatch
<1>7. CASE KillGet(c)
  BY <1>0, <1>7 DEF KillGet
<1>8. CASE DeleteCheck(c)
  BY <1>0, <1>8 DEF DeleteCheck, Without
<1>9. CASE DeleteRemove(c)
  <2>1. CASE status[csid[c]] = Absent
    BY <1>0, <1>9, <2>1 DEF DeleteRemove
  <2>2. CASE status[csid[c]] # Absent
    <3>0. /\ status' = [status EXCEPT ![csid[c]] = Absent]
          /\ err' = [err EXCEPT ![csid[c]] = FALSE]
      BY <1>9, <2>2 DEF DeleteRemove
    <3>1. RowType'
      BY <1>0, <3>0
    <3>2. SchedType' /\ TurnType'
      BY <1>9 DEF DeleteRemove
    <3>3. CallType'
      BY <1>9, <2>2 DEF DeleteRemove
    <3> QED BY <3>1, <3>2, <3>3
  <2> QED BY <2>1, <2>2
<1>10. CASE DeleteForget(c)
  BY <1>0, <1>10 DEF DeleteForget, Forget
<1>11. CASE ReapGet(c)
  BY <1>11 DEF ReapGet
<1>12. CASE TransitionGet(c)
  BY <1>0, <1>12 DEF TransitionGet, AfterTransition
<1>13. CASE TransitionApply(c)
  <2>1. Target(cop[c]) \in Row
    BY DEF Target, Row, Status
  <2>2. \A old \in BOOLEAN : ErrorAfter(cop[c], old) \in BOOLEAN
    BY DEF ErrorAfter
  <2>3. RowType'
    BY <1>13, <2>1, <2>2 DEF TransitionApply
  <2> QED BY <1>0, <1>13, <2>3 DEF TransitionApply, AfterTransition
<1>14. CASE StopTurn(c)
  BY <1>0, <1>14 DEF StopTurn, StopEffect
<1> QED BY <1>1, <1>2, <1>3, <1>4, <1>5, <1>6, <1>7, <1>8, <1>9, <1>10,
           <1>11, <1>12, <1>13, <1>14 DEF CallStep

LEMMA TypeNext == TypeOK /\ [Next]_vars => TypeOK'
<1> SUFFICES ASSUME TypeOK, [Next]_vars PROVE TypeOK'
  OBVIOUS
<1> USE EngineAssumption DEF EngineAssumption
<1>0. Status \subseteq Row
  BY DEF Row
<1>1. CASE \E t \in Turn : PumpPop(t)
  BY <1>1 DEF PumpPop, TypeOK, RowType, SchedType, TurnType, CallType, rowVars, callVars
<1>2. CASE \E t \in Turn : StartStep(t)
  BY <1>2, TypeStart
<1>3. CASE \E t \in Turn : ProcExit(t)
  BY <1>3 DEF ProcExit, TypeOK, RowType, SchedType, TurnType, CallType, rowVars, schedVars, callVars
<1>4. CASE \E t \in Turn : HandlerStep(t)
  BY <1>4, TypeHandler
<1>5. CASE PumpBreak
  BY <1>5 DEF PumpBreak, TypeOK, RowType, SchedType, TurnType, CallType, rowVars, turnVars, callVars
<1>6. CASE \E c \in Client, s \in Session : Submit(c, s)
  BY <1>0, <1>6 DEF Submit, Begin, To, Status, Task,
     TypeOK, RowType, SchedType, TurnType, CallType, schedVars, turnVars
<1>7. CASE \E c \in Client, s \in Session : Kill(c, s)
  BY <1>7 DEF Kill, Begin, To, Without, Task,
     TypeOK, RowType, SchedType, TurnType, CallType, rowVars, turnVars
<1>8. CASE \E c \in Client, s \in Session, op \in {"follow", "delete"} : ReadRow(c, s, op)
  BY <1>0, <1>8 DEF ReadRow, Begin, To, Task,
     TypeOK, RowType, SchedType, TurnType, CallType, rowVars, schedVars, turnVars
<1>9. CASE \E s \in Session : WatchdogTick(s)
  BY <1>9 DEF WatchdogTick, To, Task,
     TypeOK, RowType, SchedType, TurnType, CallType, rowVars, schedVars, turnVars
<1>10. CASE \E c \in Task : CallStep(c)
  BY <1>10, TypeCall
<1>11. CASE Close
  BY <1>11 DEF Close, TypeOK, RowType, SchedType, TurnType, CallType, rowVars, schedVars, callVars
<1>12. CASE UNCHANGED vars
  BY <1>12 DEF vars, rowVars, schedVars, turnVars, callVars,
     TypeOK, RowType, SchedType, TurnType, CallType
<1> QED BY <1>1, <1>2, <1>3, <1>4, <1>5, <1>6, <1>7, <1>8, <1>9, <1>10, <1>11, <1>12 DEF Next

\* Every variable of the scheduler keeps its type.
THEOREM TypeCorrect == Spec => []TypeOK
  BY TypeInit, TypeNext, PTL DEF Spec

----------------------------------------------------------------------------
(* StartingOwned: an id leaves `starting` when its start task ends.         *)

LEMMA StartingInit == Init => StartingOwned
  BY DEF Init, StartingOwned

\* A step that adds nothing to `starting` and ends no start task.
LEMMA StartingKept ==
    ASSUME StartingOwned, starting' \subseteq starting,
           \A t \in Turn : spc[t] # "free" => spc'[t] # "free" /\ tsid'[t] = tsid[t]
    PROVE  StartingOwned'
  BY DEF StartingOwned, StartInFlight

LEMMA StartingStart ==
    ASSUME TypeOK, StartingOwned, NEW t \in Turn, StartStep(t)
    PROVE  StartingOwned'
<1> USE DEF TypeOK, TurnType, Goto, schedVars
<1>1. CASE StartFinally(t)
  <2>1. \A s \in starting' : s \in starting /\ s # tsid[t]
    BY <1>1 DEF StartFinally
  <2>2. \A u \in Turn : u # t => spc'[u] = spc[u] /\ tsid'[u] = tsid[u]
    BY <1>1 DEF StartFinally
  <2> QED BY <2>1, <2>2 DEF StartingOwned, StartInFlight
<1>2. CASE ~StartFinally(t)
  <2>1. tsid' = tsid /\ \E pc : pc # "free" /\ spc' = [spc EXCEPT ![t] = pc]
    BY <1>2 DEF StartStep, StartCheck, StartSpawn, StartRegister, StartPublish,
       StartRunGet, StartRunApply, StartFailGet, StartFailApply
  <2>2. starting' \subseteq starting
    BY <1>2 DEF StartStep, StartCheck, StartSpawn, StartRegister, StartPublish,
       StartRunGet, StartRunApply, StartFailGet, StartFailApply, Forget
  <2> QED BY <2>1, <2>2, StartingKept
<1> QED BY <1>1, <1>2

LEMMA StartingNext == TypeOK /\ StartingOwned /\ [Next]_vars => StartingOwned'
<1> SUFFICES ASSUME TypeOK, StartingOwned, [Next]_vars PROVE StartingOwned'
  OBVIOUS
<1> USE DEF TypeOK, TurnType
<1>1. CASE \E t \in Turn : PumpPop(t)
  <2>1. PICK t \in Turn : PumpPop(t)
    BY <1>1
  <2>2. PICK front \in queue :
           starting' = starting \cup {front[2]} /\ tsid' = [tsid EXCEPT ![t] = front[2]]
    BY <2>1 DEF PumpPop
  <2>3. spc[t] = "free" /\ spc' = [spc EXCEPT ![t] = "check"]
    BY <2>1 DEF PumpPop, FreeSlot
  <2> QED BY <2>2, <2>3 DEF StartingOwned, StartInFlight
<1>2. CASE \E t \in Turn : StartStep(t)
  BY <1>2, StartingStart
<1>3. CASE \E t \in Turn : ProcExit(t)
  BY <1>3, StartingKept DEF ProcExit, schedVars
<1>4. CASE \E t \in Turn : HandlerStep(t)
  <2>1. PICK t \in Turn : HandlerStep(t)
    BY <1>4
  <2>2. starting' = starting /\ spc' = spc
    BY <2>1 DEF HandlerStep, EventInit, EventResultGet, EventResultApply, ExitBegin, ExitGet,
       ExitApply, schedVars, turnVars
  <2>3. tsid' = tsid \/ tsid' = [tsid EXCEPT ![t] = IF spc[t] = "free" THEN NoSession ELSE @]
    BY <2>1 DEF HandlerStep, EventInit, EventResultGet, EventResultApply, ExitBegin, ExitGet,
       ExitApply, EndHandler, turnVars
  <2> QED BY <2>2, <2>3, StartingKept
<1>5. CASE PumpBreak
  BY <1>5, StartingKept DEF PumpBreak, turnVars
<1>6. CASE \E c \in Client, s \in Session : Submit(c, s)
  BY <1>6, StartingKept DEF Submit, schedVars, turnVars
<1>7. CASE \E c \in Client, s \in Session : Kill(c, s)
  BY <1>7, StartingKept DEF Kill, turnVars
<1>8. CASE \E c \in Client, s \in Session, op \in {"follow", "delete"} : ReadRow(c, s, op)
  BY <1>8, StartingKept DEF ReadRow, schedVars, turnVars
<1>9. CASE \E s \in Session : WatchdogTick(s)
  BY <1>9, StartingKept DEF WatchdogTick, schedVars, turnVars
<1>10. CASE \E c \in Task : CallStep(c)
  <2>1. PICK c \in Task : CallStep(c)
    BY <1>10
  <2>2. spc' = spc /\ tsid' = tsid /\ starting' \subseteq starting
    BY <2>1 DEF CallStep, Enqueue, FollowCheck, LivePatch, LiveState, LiveWrite, FollowPatch,
       KillGet, DeleteCheck, DeleteRemove, DeleteForget, Forget, ReapGet, TransitionGet,
       TransitionApply, StopTurn, schedVars, turnVars
  <2> QED BY <2>2, StartingKept
<1>11. CASE Close
  BY <1>11, StartingKept DEF Close, schedVars
<1>12. CASE UNCHANGED vars
  BY <1>12, StartingKept DEF vars, schedVars, turnVars
<1> QED BY <1>1, <1>2, <1>3, <1>4, <1>5, <1>6, <1>7, <1>8, <1>9, <1>10, <1>11, <1>12 DEF Next

\* A concurrency slot cannot leak in `starting`: each id there has a start
\* task that ends by removing it.
THEOREM StartingSafe == Spec => []StartingOwned
<1>1. TypeOK /\ StartingOwned /\ [Next]_vars => TypeOK' /\ StartingOwned'
  BY TypeNext, StartingNext
<1> QED BY TypeInit, StartingInit, <1>1, PTL DEF Spec

----------------------------------------------------------------------------
(* NoLostWakeup: a step either leaves a promise to pump behind, or frees no *)
(* slot and queues nothing.                                                 *)

\* Fewer parked turns, the same ids starting: no slot was freed.
LEMMA ActiveCountGrows ==
    ASSUME TypeOK, starting' = starting, reg' = reg, parked' \subseteq parked
    PROVE  ActiveCount' >= ActiveCount /\ ActiveCount \in Nat
<1>1. BusyTurns \subseteq BusyTurns'
  BY DEF BusyTurns
<1>2. BusyTurns' \subseteq Session /\ starting \subseteq Session
  BY DEF BusyTurns, TypeOK, SchedType
<1>3. IsFiniteSet(BusyTurns') /\ IsFiniteSet(starting)
  BY <1>2, EngineAssumption, FS_Subset DEF EngineAssumption
<1>4. /\ IsFiniteSet(BusyTurns)
      /\ Cardinality(BusyTurns) <= Cardinality(BusyTurns')
  BY <1>1, <1>3, FS_Subset
<1>5. /\ Cardinality(BusyTurns) \in Nat
      /\ Cardinality(BusyTurns') \in Nat
      /\ Cardinality(starting) \in Nat
  BY <1>3, <1>4, FS_CardinalityType
<1>6. ActiveCount' = Cardinality(starting) + Cardinality(BusyTurns')
  BY DEF ActiveCount
<1> QED BY <1>4, <1>5, <1>6 DEF ActiveCount

LEMMA WakeupKept ==
    ASSUME TypeOK, NoLostWakeup,
           queue' \subseteq queue, starting' = starting, reg' = reg, parked' \subseteq parked,
           closed' = closed, pumpDue' = pumpDue, spc' = spc,
           \A t \in Turn : hpc[t] \in {"result", "exit_get", "exit_apply"} => hpc'[t] = hpc[t]
    PROVE  NoLostWakeup'
<1> SUFFICES ASSUME ~closed', queue' # {}, ActiveCount' < MaxConcurrent PROVE PumpPromised'
  BY DEF NoLostWakeup
<1>1. ActiveCount' \in Nat
  <2>1. BusyTurns' \subseteq Session /\ starting' \subseteq Session
    BY DEF BusyTurns, TypeOK, SchedType
  <2>2. Cardinality(BusyTurns') \in Nat /\ Cardinality(starting') \in Nat
    BY <2>1, EngineAssumption, FS_Subset, FS_CardinalityType DEF EngineAssumption
  <2> QED BY <2>2 DEF ActiveCount
<1>2. ActiveCount < MaxConcurrent
  BY <1>1, ActiveCountGrows, EngineAssumption DEF EngineAssumption
<1>3. PumpPromised
  BY <1>2 DEF NoLostWakeup
<1> QED BY <1>3 DEF PumpPromised

LEMMA WakeupStart ==
    ASSUME TypeOK, NEW t \in Turn, StartStep(t)
    PROVE  NoLostWakeup'
<1> USE DEF TypeOK, TurnType, Goto
<1>1. CASE StartFinally(t)
  BY <1>1 DEF StartFinally, NoLostWakeup, PumpPromised
<1>2. CASE ~StartFinally(t)
  <2>1. \E pc : pc # "free" /\ spc' = [spc EXCEPT ![t] = pc]
    BY <1>2 DEF StartStep, StartCheck, StartSpawn, StartRegister, StartPublish,
       StartRunGet, StartRunApply, StartFailGet, StartFailApply
  <2>2. spc'[t] # "free"
    BY <2>1
  <2> QED BY <2>2 DEF NoLostWakeup, PumpPromised
<1> QED BY <1>1, <1>2

LEMMA WakeupHandler ==
    ASSUME TypeOK, NoLostWakeup, NEW t \in Turn, HandlerStep(t)
    PROVE  NoLostWakeup'
<1> USE DEF TypeOK, TurnType
<1>1. CASE EventInit(t)
  BY <1>1, WakeupKept DEF EventInit, schedVars, turnVars
<1>2. CASE EventResultGet(t)
  <2>1. hpc'[t] = "result"
    BY <1>2 DEF EventResultGet
  <2> QED BY <2>1 DEF NoLostWakeup, PumpPromised
<1>3. CASE EventResultApply(t)
  BY <1>3 DEF EventResultApply, NoLostWakeup, PumpPromised
<1>4. CASE ExitBegin(t)
  <2>1. closed' \/ hpc'[t] = "exit_get"
    BY <1>4 DEF ExitBegin
  <2> QED BY <2>1 DEF NoLostWakeup, PumpPromised
<1>5. CASE ExitGet(t)
  <2>1. pumpDue' \/ hpc'[t] = "exit_apply"
    BY <1>5 DEF ExitGet
  <2> QED BY <2>1 DEF NoLostWakeup, PumpPromised
<1>6. CASE ExitApply(t)
  BY <1>6 DEF ExitApply, NoLostWakeup, PumpPromised
<1> QED BY <1>1, <1>2, <1>3, <1>4, <1>5, <1>6 DEF HandlerStep

LEMMA WakeupCall ==
    ASSUME TypeOK, StartingOwned, NoLostWakeup, NEW c \in Task, CallStep(c)
    PROVE  NoLostWakeup'
<1>1. CASE Enqueue(c)
  BY <1>1 DEF Enqueue, NoLostWakeup, PumpPromised
<1>2. CASE LiveState(c)
  BY <1>2, WakeupKept DEF LiveState, schedVars, turnVars
<1>3. CASE DeleteCheck(c)
  BY <1>3, WakeupKept DEF DeleteCheck, Without, turnVars
<1>4. CASE DeleteForget(c)
  <2>1. CASE csid[c] \in starting
    <3>1. spc' = spc
      BY <1>4 DEF DeleteForget, turnVars
    <3>2. \E t \in Turn : spc'[t] # "free"
      BY <2>1, <3>1 DEF StartingOwned, StartInFlight
    <3> QED BY <3>2 DEF NoLostWakeup, PumpPromised
  <2>2. CASE csid[c] \notin starting
    BY <1>4, <2>2, WakeupKept DEF DeleteForget, Forget, turnVars
  <2> QED BY <2>1, <2>2
<1>5. CASE ~(Enqueue(c) \/ LiveState(c) \/ DeleteCheck(c) \/ DeleteForget(c))
  <2>1. /\ UNCHANGED schedVars /\ UNCHANGED <<reg, parked, closed>>
        /\ spc' = spc /\ hpc' = hpc
    BY <1>5 DEF CallStep, FollowCheck, LivePatch, LiveWrite, FollowPatch, KillGet, DeleteRemove,
       ReapGet, TransitionGet, TransitionApply, StopTurn, turnVars
  <2> QED BY <2>1, WakeupKept DEF schedVars
<1> QED BY <1>1, <1>2, <1>3, <1>4, <1>5

LEMMA WakeupNext == TypeOK /\ StartingOwned /\ NoLostWakeup /\ [Next]_vars => NoLostWakeup'
<1> SUFFICES ASSUME TypeOK, StartingOwned, NoLostWakeup, [Next]_vars PROVE NoLostWakeup'
  OBVIOUS
<1>1. CASE \E t \in Turn : PumpPop(t)
  <2>1. PICK t \in Turn : spc' = [spc EXCEPT ![t] = "check"]
    BY <1>1 DEF PumpPop
  <2> QED BY <2>1 DEF TypeOK, TurnType, NoLostWakeup, PumpPromised
<1>2. CASE \E t \in Turn : StartStep(t)
  BY <1>2, WakeupStart
<1>3. CASE \E t \in Turn : ProcExit(t)
  BY <1>3, WakeupKept DEF ProcExit, schedVars
<1>4. CASE \E t \in Turn : HandlerStep(t)
  BY <1>4, WakeupHandler
<1>5. CASE PumpBreak
  <2>1. BusyTurns' = BusyTurns
    BY <1>5 DEF PumpBreak, BusyTurns
  <2>2. ActiveCount' = ActiveCount /\ ActiveCount \in Nat
    BY <1>5, <2>1, ActiveCountGrows DEF PumpBreak, ActiveCount
  <2>3. closed' \/ queue' = {} \/ ~(ActiveCount' < MaxConcurrent)
    BY <1>5, <2>2, EngineAssumption DEF PumpBreak, EngineAssumption
  <2> QED BY <2>3 DEF NoLostWakeup
<1>6. CASE \E c \in Client, s \in Session : Submit(c, s)
  BY <1>6, WakeupKept DEF Submit, schedVars, turnVars
<1>7. CASE \E c \in Client, s \in Session : Kill(c, s)
  BY <1>7, WakeupKept DEF Kill, Without, turnVars
<1>8. CASE \E c \in Client, s \in Session, op \in {"follow", "delete"} : ReadRow(c, s, op)
  BY <1>8, WakeupKept DEF ReadRow, schedVars, turnVars
<1>9. CASE \E s \in Session : WatchdogTick(s)
  BY <1>9, WakeupKept DEF WatchdogTick, schedVars, turnVars
<1>10. CASE \E c \in Task : CallStep(c)
  BY <1>10, WakeupCall
<1>11. CASE Close
  BY <1>11 DEF Close, NoLostWakeup
<1>12. CASE UNCHANGED vars
  BY <1>12, WakeupKept DEF vars, schedVars, turnVars
<1> QED BY <1>1, <1>2, <1>3, <1>4, <1>5, <1>6, <1>7, <1>8, <1>9, <1>10, <1>11, <1>12 DEF Next

\* While an item waits and a slot is free, somebody is about to pump: the
\* re-pumps at turn end, at exit and at the end of a start are enough.
THEOREM WakeupSafe == Spec => []NoLostWakeup
<1> DEFINE Inv == TypeOK /\ StartingOwned /\ NoLostWakeup
<1>1. Init => Inv
  BY TypeInit, StartingInit DEF Init, NoLostWakeup
<1>2. Inv /\ [Next]_vars => Inv'
  BY TypeNext, StartingNext, WakeupNext
<1> QED BY <1>1, <1>2, PTL DEF Spec

----------------------------------------------------------------------------
(* PendingOwned: whoever makes a row pending, or takes a pending row over,  *)
(* keeps owning it until the row leaves pending.                            *)

StartOwns(t, s) == tsid[t] = s /\ spc[t] \notin {"free", "finally"}

CallOwns(c, s) ==
    /\ csid[c] = s
    /\ \/ cop[c] \in {"submit", "follow"} /\ cpc[c] \in {"patch", "enqueue"}
       \/ cop[c] = "kill" /\ cpc[c] \in {"kill_get", "t_get", "t_apply"}
       \/ cop[c] = "delete" /\ cpc[c] \in {"t_get", "t_apply"}

LEMMA OwnerIs ==
    ASSUME NEW s
    PROVE  PendingOwner(s) <=> \/ Queued(s)
                               \/ \E t \in Turn : StartOwns(t, s)
                               \/ \E c \in Task : CallOwns(c, s)
  BY DEF PendingOwner, StartOwns, CallOwns

\* A step that makes no row pending and dispossesses nobody.
LEMMA PendingKept ==
    ASSUME PendingOwned, ~closed' => ~closed,
           \A s \in Session : status'[s] = "pending" =>
              /\ status[s] = "pending"
              /\ Queued(s) => PendingOwner(s)'
              /\ \A t \in Turn : StartOwns(t, s) => PendingOwner(s)'
              /\ \A c \in Task : CallOwns(c, s) => PendingOwner(s)'
    PROVE  PendingOwned'
  BY OwnerIs DEF PendingOwned

LEMMA PendingPop ==
    ASSUME TypeOK, PendingOwned, NEW t \in Turn, PumpPop(t)
    PROVE  PendingOwned'
<1> USE DEF TypeOK, TurnType
<1>1. PICK front \in queue :
         queue' = queue \ {front} /\ tsid' = [tsid EXCEPT ![t] = front[2]]
  BY DEF PumpPop
<1>2. spc[t] = "free" /\ spc' = [spc EXCEPT ![t] = "check"]
  BY DEF PumpPop, FreeSlot
<1>3. StartOwns(t, front[2])'
  BY <1>1, <1>2 DEF StartOwns
<1>4. ASSUME NEW s \in Session PROVE Queued(s) => PendingOwner(s)'
  BY <1>1, <1>3, OwnerIs DEF Queued, PendingOwner, StartOwns
<1>5. ASSUME NEW s \in Session, NEW u \in Turn PROVE StartOwns(u, s) => StartOwns(u, s)'
  BY <1>1, <1>2 DEF StartOwns
<1>6. ASSUME NEW s \in Session, NEW c \in Task PROVE CallOwns(c, s) => CallOwns(c, s)'
  BY DEF PumpPop, callVars, CallOwns
<1>7. UNCHANGED <<status, closed>>
  BY DEF PumpPop, rowVars
<1> QED
  <2>1. \A s \in Session : \A u \in Turn : StartOwns(u, s) => PendingOwner(s)'
    BY <1>5 DEF PendingOwner, StartOwns
  <2>2. \A s \in Session : \A c \in Task : CallOwns(c, s) => PendingOwner(s)'
    BY <1>6 DEF PendingOwner, CallOwns
  <2> QED BY <1>4, <1>7, <2>1, <2>2, PendingKept

LEMMA PendingStart ==
    ASSUME TypeOK, PendingOwned, NEW t \in Turn, StartStep(t)
    PROVE  PendingOwned'
<1> USE DEF TypeOK, RowType, TurnType, Goto
<1>1. queue' = queue /\ closed' = closed
  BY DEF StartStep, StartCheck, StartSpawn, StartRegister, StartPublish, StartRunGet,
     StartRunApply, StartFailGet, StartFailApply, StartFinally, schedVars
<1>2. UNCHANGED callVars
  BY DEF StartStep, StartCheck, StartSpawn, StartRegister, StartPublish, StartRunGet,
     StartRunApply, StartFailGet, StartFailApply, StartFinally
<1>3. ASSUME NEW s \in Session, status'[s] = "pending" PROVE status[s] = "pending"
  BY <1>3 DEF StartStep, StartCheck, StartSpawn, StartRegister, StartPublish, StartRunGet,
     StartRunApply, StartFailGet, StartFailApply, StartFinally, rowVars
<1>4. ASSUME NEW u \in Turn, u # t PROVE spc'[u] = spc[u] /\ tsid'[u] = tsid[u]
  BY <1>4 DEF StartStep, StartCheck, StartSpawn, StartRegister, StartPublish, StartRunGet,
     StartRunApply, StartFailGet, StartFailApply, StartFinally
<1>5. ASSUME NEW s \in Session, ~closed, status'[s] = "pending", StartOwns(t, s)
      PROVE  StartOwns(t, s)'
  <2>1. tsid[t] = s /\ spc[t] \notin {"free", "finally"} /\ status[s] = "pending"
    BY <1>3, <1>5 DEF StartOwns
  <2>2. tsid' = tsid
    BY <2>1 DEF StartStep, StartCheck, StartSpawn, StartRegister, StartPublish, StartRunGet,
       StartRunApply, StartFailGet, StartFailApply, StartFinally
  <2>3. spc'[t] \notin {"free", "finally"}
    <3>1. CASE StartCheck(t)
      BY <1>5, <2>1, <3>1 DEF StartCheck, Absent
    <3>2. CASE StartSpawn(t) \/ StartRegister(t)
      BY <3>2 DEF StartSpawn, StartRegister
    <3>3. CASE StartPublish(t)
      BY <2>1, <3>3 DEF StartPublish, Terminal
    <3>4. CASE StartRunGet(t)
      BY <2>1, <3>4 DEF StartRunGet
    <3>5. CASE StartRunApply(t)
      <4>1. status[s] # Absent
        BY <2>1 DEF Absent
      <4>2. status' = [status EXCEPT ![s] = "running"]
        BY <2>1, <3>5, <4>1 DEF StartRunApply
      <4> QED BY <1>5, <4>2
    <3>6. CASE StartFailGet(t)
      <4>1. status[s] # Absent /\ Legal(status[s], "failed")
        BY <2>1 DEF Absent, Legal
      <4> QED BY <1>5, <2>1, <3>6, <4>1 DEF StartFailGet
    <3>7. CASE StartFailApply(t)
      <4>1. status[s] # Absent
        BY <2>1 DEF Absent
      <4>2. status' = [status EXCEPT ![s] = "failed"]
        BY <2>1, <3>7, <4>1 DEF StartFailApply
      <4> QED BY <1>5, <4>2
    <3>8. CASE StartFinally(t)
      BY <2>1, <3>8 DEF StartFinally
    <3> QED BY <3>1, <3>2, <3>3, <3>4, <3>5, <3>6, <3>7, <3>8 DEF StartStep
  <2> QED BY <2>1, <2>2, <2>3 DEF StartOwns
<1>6. CASE closed
  BY <1>1, <1>6 DEF PendingOwned
<1>7. CASE ~closed
  <2>1. ASSUME NEW s \in Session, status'[s] = "pending", NEW u \in Turn, StartOwns(u, s)
        PROVE  PendingOwner(s)'
    <3>1. StartOwns(u, s)'
      BY <1>4, <1>5, <1>7, <2>1 DEF StartOwns
    <3> QED BY <3>1 DEF PendingOwner, StartOwns
  <2>2. ASSUME NEW s \in Session, NEW c \in Task, CallOwns(c, s)
        PROVE  PendingOwner(s)'
    BY <1>2, <2>2 DEF PendingOwner, CallOwns, callVars
  <2>3. ASSUME NEW s \in Session, Queued(s) PROVE PendingOwner(s)'
    BY <1>1, <2>3 DEF PendingOwner, Queued
  <2> QED BY <1>1, <1>3, <2>1, <2>2, <2>3, PendingKept
<1> QED BY <1>6, <1>7

\* A step that leaves the queue, the start tasks and the calls alone and makes
\* no row pending.
LEMMA PendingUntouched ==
    ASSUME PendingOwned, ~closed' => ~closed, UNCHANGED <<queue, spc, callVars>>,
           \A t \in Turn : spc[t] # "free" => tsid'[t] = tsid[t],
           \A s \in Session : status'[s] = "pending" => status[s] = "pending"
    PROVE  PendingOwned'
<1>1. ASSUME NEW s PROVE Queued(s)' = Queued(s)
  BY DEF Queued
<1>2. ASSUME NEW s, NEW c \in Task PROVE CallOwns(c, s) => CallOwns(c, s)'
  BY DEF CallOwns, callVars
<1>3. ASSUME NEW s, NEW t \in Turn PROVE StartOwns(t, s) => StartOwns(t, s)'
  BY DEF StartOwns
<1> QED
  <2>1. \A s \in Session : \A t \in Turn : StartOwns(t, s) => PendingOwner(s)'
    BY <1>3 DEF PendingOwner, StartOwns
  <2>2. \A s \in Session : \A c \in Task : CallOwns(c, s) => PendingOwner(s)'
    BY <1>2 DEF PendingOwner, CallOwns
  <2>3. \A s \in Session : Queued(s) => PendingOwner(s)'
    BY <1>1 DEF PendingOwner
  <2> QED BY <2>1, <2>2, <2>3, PendingKept

LEMMA PendingHandler ==
    ASSUME TypeOK, PendingOwned, NEW t \in Turn, HandlerStep(t)
    PROVE  PendingOwned'
<1> USE DEF TypeOK, RowType, TurnType
<1>1. UNCHANGED <<queue, spc, closed, callVars>>
  BY DEF HandlerStep, EventInit, EventResultGet, EventResultApply, ExitBegin, ExitGet, ExitApply,
     schedVars, turnVars
<1>2. tsid' = tsid \/ tsid' = [tsid EXCEPT ![t] = IF spc[t] = "free" THEN NoSession ELSE @]
  BY DEF HandlerStep, EventInit, EventResultGet, EventResultApply, ExitBegin, ExitGet, ExitApply,
     EndHandler, turnVars
<1>3. CASE ExitApply(t)
  <2>1. status' = status \/ \E final : final # "pending" /\ status' = [status EXCEPT ![tsid[t]] = final]
    BY <1>3 DEF ExitApply, ExitStatus, Terminal, rowVars
  <2> QED BY <1>1, <1>2, <2>1, PendingUntouched
<1>4. CASE ~ExitApply(t)
  <2>1. status' = status
    BY <1>4 DEF HandlerStep, EventInit, EventResultGet, EventResultApply, ExitBegin, ExitGet, rowVars
  <2> QED BY <1>1, <1>2, <2>1, PendingUntouched
<1> QED BY <1>3, <1>4

\* A step of call c on its session: other calls and all start tasks stay.
LEMMA PendingCallKept ==
    ASSUME PendingOwned, UNCHANGED <<closed, spc, tsid>>, NEW c \in Task,
           \A d \in Task \ {c} : cpc'[d] = cpc[d] /\ cop'[d] = cop[d] /\ csid'[d] = csid[d],
           \A s \in Session : status'[s] = "pending" =>
              \/ CallOwns(c, s)'
              \/ Queued(s)'
              \/ status[s] = "pending" /\ ~CallOwns(c, s) /\ ~Queued(s)
    PROVE  PendingOwned'
<1> SUFFICES ASSUME ~closed, NEW s \in Session, status'[s] = "pending" PROVE PendingOwner(s)'
  BY DEF PendingOwned
<1>1. CASE CallOwns(c, s)' \/ Queued(s)'
  BY <1>1 DEF PendingOwner, CallOwns
<1>2. CASE ~CallOwns(c, s)' /\ ~Queued(s)'
  <2>1. status[s] = "pending" /\ ~CallOwns(c, s) /\ ~Queued(s)
    BY <1>2
  <2>2. \/ \E t \in Turn : StartOwns(t, s)
        \/ \E d \in Task \ {c} : CallOwns(d, s)
    BY <2>1, OwnerIs DEF PendingOwned
  <2>3. \/ \E t \in Turn : StartOwns(t, s)'
        \/ \E d \in Task : CallOwns(d, s)'
    BY <2>2 DEF StartOwns, CallOwns
  <2> QED BY <2>3 DEF PendingOwner, StartOwns, CallOwns
<1> QED BY <1>1, <1>2

LEMMA PendingCall ==
    ASSUME TypeOK, PendingOwned, NEW c \in Task, CallStep(c)
    PROVE  PendingOwned'
<1> USE DEF TypeOK, RowType, CallType, To, Finish, Stay
<1>0. UNCHANGED <<closed, spc, tsid>>
  BY DEF CallStep, Enqueue, FollowCheck, LivePatch, LiveState, LiveWrite, FollowPatch, KillGet,
     DeleteCheck, DeleteRemove, DeleteForget, Forget, ReapGet, TransitionGet, TransitionApply,
     StopTurn, turnVars
<1>a. \A d \in Task \ {c} : cpc'[d] = cpc[d] /\ cop'[d] = cop[d] /\ csid'[d] = csid[d]
  BY DEF CallStep, Enqueue, FollowCheck, LivePatch, LiveState, LiveWrite, FollowPatch, KillGet,
     DeleteCheck, DeleteRemove, DeleteForget, Forget, ReapGet, TransitionGet, TransitionApply,
     AfterTransition, StopTurn
<1>b. csid[c] \in Session \/ cpc[c] = "idle"
  OBVIOUS
<1>1. CASE Enqueue(c)
  <2>1. \A s \in Session : status'[s] = status[s] /\ (Queued(s) => Queued(s)')
    BY <1>1 DEF Enqueue, PushBack, Queued, rowVars
  <2>2. \A s \in Session : CallOwns(c, s) => Queued(s)'
    <3>1. PICK n \in 0..MaxCalls : queue' = queue \cup {<<n, csid[c]>>}
      BY <1>1 DEF Enqueue, PushBack
    <3>2. <<n, csid[c]>> \in queue' /\ <<n, csid[c]>>[2] = csid[c]
      BY <3>1
    <3> QED BY <3>2 DEF Queued, CallOwns
  <2> QED BY <1>0, <1>a, <2>1, <2>2, PendingCallKept
<1>2. CASE FollowCheck(c) \/ LivePatch(c) \/ LiveState(c) \/ LiveWrite(c) \/ ReapGet(c)
           \/ StopTurn(c) \/ DeleteForget(c)
  <2>1. queue' = queue /\ status' = status
    BY <1>2 DEF FollowCheck, LivePatch, LiveState, LiveWrite, ReapGet, StopTurn, DeleteForget,
       Forget, rowVars, schedVars
  <2>2. \A s \in Session : ~CallOwns(c, s)
    BY <1>2 DEF FollowCheck, LivePatch, LiveState, LiveWrite, ReapGet, StopTurn, DeleteForget,
       CallOwns
  <2>3. \A s \in Session : Queued(s) => Queued(s)'
    BY <2>1 DEF Queued
  <2> QED BY <1>0, <1>a, <2>1, <2>2, <2>3, PendingCallKept
<1>3. CASE FollowPatch(c)
  <2>1. queue' = queue /\ status' = status
    BY <1>3 DEF FollowPatch, schedVars
  <2>2. \A s \in Session : CallOwns(c, s) => CallOwns(c, s)'
    BY <1>3 DEF FollowPatch, CallOwns
  <2>3. \A s \in Session : Queued(s) => Queued(s)'
    BY <2>1 DEF Queued
  <2> QED BY <1>0, <1>a, <2>1, <2>2, <2>3, PendingCallKept
<1>4. CASE KillGet(c)
  <2>1. queue' = queue /\ status' = status
    BY <1>4 DEF KillGet, rowVars, schedVars
  <2>2. \A s \in Session : status[s] = "pending" /\ CallOwns(c, s) => CallOwns(c, s)'
    BY <1>4 DEF KillGet, CallOwns
  <2>3. \A s \in Session : Queued(s) => Queued(s)'
    BY <2>1 DEF Queued
  <2> QED BY <1>0, <1>a, <2>1, <2>2, <2>3, PendingCallKept
<1>5. CASE DeleteCheck(c)
  <2>1. status' = status /\ \A s \in Session : ~CallOwns(c, s)
    BY <1>5 DEF DeleteCheck, CallOwns, rowVars
  <2>2. CASE queue' = queue
    <3>1. \A s \in Session : Queued(s) => Queued(s)'
      BY <2>2 DEF Queued
    <3> QED BY <1>0, <1>a, <2>1, <3>1, PendingCallKept
  <2>3. CASE queue' # queue
    <3>1. queue' = Without(csid[c]) /\ cpc' = [cpc EXCEPT ![c] = "t_get"]
          /\ cop' = cop /\ csid' = csid /\ cop[c] = "delete"
      BY <1>5, <2>3 DEF DeleteCheck
    <3>2. ASSUME NEW s \in Session, s = csid[c] PROVE CallOwns(c, s)'
      BY <3>1, <3>2 DEF CallOwns
    <3>3. \A s \in Session : s # csid[c] => (Queued(s) => Queued(s)')
      BY <3>1 DEF Queued, Without
    <3> QED BY <1>0, <1>a, <2>1, <3>2, <3>3, PendingCallKept
  <2> QED BY <2>2, <2>3
<1>6. CASE DeleteRemove(c)
  <2>1. queue' = queue /\ \A s \in Session : ~CallOwns(c, s)
    BY <1>6 DEF DeleteRemove, CallOwns, schedVars
  <2>2. \A s \in Session : status'[s] = "pending" => status[s] = "pending"
    BY <1>6 DEF DeleteRemove, rowVars, Absent
  <2>3. \A s \in Session : Queued(s) => Queued(s)'
    BY <2>1 DEF Queued
  <2> QED BY <1>0, <1>a, <2>1, <2>2, <2>3, PendingCallKept
<1>7. CASE TransitionGet(c)
  <2>1. queue' = queue /\ status' = status
    BY <1>7 DEF TransitionGet, rowVars, schedVars
  <2>2. ASSUME NEW s \in Session, status[s] = "pending", CallOwns(c, s) PROVE CallOwns(c, s)'
    <3>1. csid[c] = s /\ cop[c] \in {"kill", "delete"} /\ Target(cop[c]) = "killed"
      BY <1>7, <2>2 DEF CallOwns, TransitionGet, Target
    <3>2. status[s] \in Status /\ Legal(status[s], "killed") /\ status[s] # "killed"
      BY <2>2 DEF Legal, Status
    <3>3. cpc' = [cpc EXCEPT ![c] = "t_apply"] /\ cop'[c] = cop[c] /\ csid' = csid
      BY <1>7, <3>1, <3>2 DEF TransitionGet
    <3> QED BY <3>1, <3>3 DEF CallOwns
  <2>3. \A s \in Session : Queued(s) => Queued(s)'
    BY <2>1 DEF Queued
  <2> QED BY <1>0, <1>a, <2>1, <2>2, <2>3, PendingCallKept
<1>8. CASE TransitionApply(c)
  <2>1. queue' = queue
    BY <1>8 DEF TransitionApply, schedVars
  <2>2. \A s \in Session : Queued(s) => Queued(s)'
    BY <2>1 DEF Queued
  <2>3. csid[c] \in Session
    BY <1>8, <1>b DEF TransitionApply
  <2>4. ASSUME NEW s \in Session, s # csid[c] PROVE status'[s] = status[s] /\ ~CallOwns(c, s)
    BY <1>8, <2>4 DEF TransitionApply, rowVars, CallOwns
  <2>5. ASSUME NEW s \in Session, s = csid[c], status'[s] = "pending" PROVE CallOwns(c, s)'
    <3>1. status[csid[c]] # Absent /\ Target(cop[c]) = "pending"
      BY <1>8, <2>3, <2>5 DEF TransitionApply, rowVars, Absent
    <3>2. cop[c] = "follow"
      BY <3>1 DEF Target
    <3>3. cpc' = [cpc EXCEPT ![c] = "patch"] /\ cop' = cop /\ csid' = csid
      BY <1>8, <3>2 DEF TransitionApply, AfterTransition
    <3> QED BY <2>5, <3>2, <3>3 DEF CallOwns
  <2> QED BY <1>0, <1>a, <2>2, <2>4, <2>5, PendingCallKept
<1> QED BY <1>1, <1>2, <1>3, <1>4, <1>5, <1>6, <1>7, <1>8 DEF CallStep

LEMMA PendingNext == TypeOK /\ PendingOwned /\ [Next]_vars => PendingOwned'
<1> SUFFICES ASSUME TypeOK, PendingOwned, [Next]_vars PROVE PendingOwned'
  OBVIOUS
<1> USE DEF TypeOK, RowType, CallType, To, Begin
<1>1. CASE \E t \in Turn : PumpPop(t)
  BY <1>1, PendingPop
<1>2. CASE \E t \in Turn : StartStep(t)
  BY <1>2, PendingStart
<1>3. CASE \E t \in Turn : ProcExit(t)
  BY <1>3, PendingUntouched DEF ProcExit, rowVars, schedVars
<1>4. CASE \E t \in Turn : HandlerStep(t)
  BY <1>4, PendingHandler
<1>5. CASE PumpBreak
  BY <1>5, PendingUntouched DEF PumpBreak, rowVars, turnVars
<1>6. CASE \E c \in Client, s \in Session : Submit(c, s)
  <2>1. PICK c \in Client, r \in Session : Submit(c, r)
    BY <1>6
  <2>2. UNCHANGED <<closed, spc, tsid, queue>> /\ c \in Task /\ cpc[c] = "idle"
    BY <2>1 DEF Submit, schedVars, turnVars, Task
  <2>3. \A d \in Task \ {c} : cpc'[d] = cpc[d] /\ cop'[d] = cop[d] /\ csid'[d] = csid[d]
    BY <2>1 DEF Submit
  <2>4. \A s \in Session : s # r => status'[s] = status[s] /\ ~CallOwns(c, s)
    BY <2>1, <2>2 DEF Submit, CallOwns
  <2>5. CallOwns(c, r)'
    BY <2>1, <2>2 DEF Submit, CallOwns
  <2>6. \A s \in Session : Queued(s) => Queued(s)'
    BY <2>2 DEF Queued
  <2> QED BY <2>2, <2>3, <2>4, <2>5, <2>6, PendingCallKept
<1>7. CASE \E c \in Client, s \in Session : Kill(c, s)
  <2>1. PICK c \in Client, r \in Session : Kill(c, r)
    BY <1>7
  <2>2. UNCHANGED <<closed, spc, tsid, status>> /\ c \in Task /\ cpc[c] = "idle"
    BY <2>1 DEF Kill, rowVars, turnVars, Task
  <2>3. \A d \in Task \ {c} : cpc'[d] = cpc[d] /\ cop'[d] = cop[d] /\ csid'[d] = csid[d]
    BY <2>1 DEF Kill
  <2>4. \A s \in Session : ~CallOwns(c, s)
    BY <2>2 DEF CallOwns
  <2>5. CallOwns(c, r)'
    BY <2>1, <2>2 DEF Kill, CallOwns
  <2>6. \A s \in Session : s # r => (Queued(s) => Queued(s)')
    BY <2>1 DEF Kill, Queued, Without
  <2> QED BY <2>2, <2>3, <2>4, <2>5, <2>6, PendingCallKept
<1>8. CASE \E c \in Client, s \in Session, op \in {"follow", "delete"} : ReadRow(c, s, op)
  <2>1. PICK c \in Client, r \in Session, op \in {"follow", "delete"} : ReadRow(c, r, op)
    BY <1>8
  <2>2. UNCHANGED <<closed, spc, tsid, queue, status>> /\ c \in Task /\ cpc[c] = "idle"
    BY <2>1 DEF ReadRow, rowVars, schedVars, turnVars, Task
  <2>3. \A d \in Task \ {c} : cpc'[d] = cpc[d] /\ cop'[d] = cop[d] /\ csid'[d] = csid[d]
    BY <2>1 DEF ReadRow
  <2>4. \A s \in Session : ~CallOwns(c, s) /\ (Queued(s) => Queued(s)')
    BY <2>2 DEF CallOwns, Queued
  <2> QED BY <2>2, <2>3, <2>4, PendingCallKept
<1>9. CASE \E s \in Session : WatchdogTick(s)
  <2> DEFINE w == Watchdog
  <2>2. UNCHANGED <<closed, spc, tsid, queue, status>> /\ w \in Task /\ cpc[w] = "idle"
    BY <1>9 DEF WatchdogTick, rowVars, schedVars, turnVars, Task
  <2>3. \A d \in Task \ {w} : cpc'[d] = cpc[d] /\ cop'[d] = cop[d] /\ csid'[d] = csid[d]
    BY <1>9 DEF WatchdogTick
  <2>4. \A s \in Session : ~CallOwns(w, s) /\ (Queued(s) => Queued(s)')
    BY <2>2 DEF CallOwns, Queued
  <2> HIDE DEF w
  <2> QED BY <2>2, <2>3, <2>4, PendingCallKept
<1>10. CASE \E c \in Task : CallStep(c)
  BY <1>10, PendingCall
<1>11. CASE Close
  BY <1>11 DEF Close, PendingOwned
<1>12. CASE UNCHANGED vars
  BY <1>12, PendingUntouched DEF vars, rowVars, schedVars, turnVars
<1> QED BY <1>1, <1>2, <1>3, <1>4, <1>5, <1>6, <1>7, <1>8, <1>9, <1>10, <1>11, <1>12 DEF Next

\* A pending row is never stranded, however calls, starts, exits and the
\* watchdog interleave: somebody still has to start it or end it.
THEOREM PendingSafe == Spec => []PendingOwned
<1>1. Init => PendingOwned
  BY DEF Init, PendingOwned, Terminal, Unborn
<1>2. TypeOK /\ PendingOwned /\ [Next]_vars => TypeOK' /\ PendingOwned'
  BY TypeNext, PendingNext
<1> QED BY TypeInit, <1>1, <1>2, PTL DEF Spec

----------------------------------------------------------------------------
(* StopIsNotAnError: the last patch of an exit clears the error of a stop.  *)

\* A step that makes no row a killed row with an error and ends no pump task.
LEMMA StopKept ==
    ASSUME StopIsNotAnError, ~closed' => ~closed,
           \A s \in Session : status'[s] = "killed" /\ err'[s] => status[s] = "killed" /\ err[s],
           \A t \in Turn : hpc[t] # "free" => hpc'[t] # "free" /\ tsid'[t] = tsid[t]
    PROVE  StopIsNotAnError'
  BY DEF StopIsNotAnError

LEMMA StopHandler ==
    ASSUME TypeOK, StopIsNotAnError, NEW t \in Turn, HandlerStep(t)
    PROVE  StopIsNotAnError'
<1> USE DEF TypeOK, RowType, TurnType
<1>1. CASE EventInit(t)
  BY <1>1, StopKept DEF EventInit, rowVars, turnVars
<1>2. CASE EventResultGet(t)
  BY <1>2, StopKept DEF EventResultGet, rowVars
<1>3. CASE EventResultApply(t)
  <2>1. hpc' = [hpc EXCEPT ![t] = "listen"] /\ tsid' = tsid /\ status' = status /\ closed' = closed
    BY <1>3 DEF EventResultApply
  <2>2. \A s \in Session : s # tsid[t] => err'[s] = err[s]
    BY <1>3 DEF EventResultApply
  <2> QED BY <2>1, <2>2 DEF StopIsNotAnError
<1>4. CASE ExitBegin(t)
  <2>1. CASE closed
    BY <1>4, <2>1 DEF ExitBegin, StopIsNotAnError
  <2>2. CASE ~closed
    BY <1>4, <2>2, StopKept DEF ExitBegin, rowVars
  <2> QED BY <2>1, <2>2
<1>5. CASE ExitGet(t)
  <2>1. status' = status /\ err' = err /\ closed' = closed
    BY <1>5 DEF ExitGet, rowVars
  <2>2. \A u \in Turn : u # t => hpc'[u] = hpc[u] /\ tsid'[u] = tsid[u]
    BY <1>5 DEF ExitGet, EndHandler
  <2>3. status[tsid[t]] = "killed" => hpc'[t] # "free" /\ tsid'[t] = tsid[t]
    BY <1>5 DEF ExitGet, Absent
  <2> QED BY <2>1, <2>2, <2>3 DEF StopIsNotAnError
<1>6. CASE ExitApply(t)
  <2>1. closed' = closed
    BY <1>6 DEF ExitApply
  <2>2. \A u \in Turn : u # t => hpc'[u] = hpc[u] /\ tsid'[u] = tsid[u]
    BY <1>6 DEF ExitApply, EndHandler
  <2>3. tsid[t] \in Session
    BY <1>6 DEF ExitApply
  <2>4. ~(status'[tsid[t]] = "killed" /\ err'[tsid[t]])
    <3>1. CASE status[tsid[t]] = Absent
      BY <1>6, <3>1 DEF ExitApply, rowVars, Absent
    <3>2. CASE status[tsid[t]] # Absent
      <4>1. PICK final : /\ status' = [status EXCEPT ![tsid[t]] = final]
                         /\ err' = [err EXCEPT ![tsid[t]] = ExitError(final, hflag[t], @)]
        BY <1>6, <3>2 DEF ExitApply
      <4>2. final = "killed" => ~ExitError(final, hflag[t], err[tsid[t]])
        BY DEF ExitError
      <4> QED BY <2>3, <4>1, <4>2
    <3> QED BY <3>1, <3>2
  <2>5. \A s \in Session : s # tsid[t] => status'[s] = status[s] /\ err'[s] = err[s]
    BY <1>6, <2>3 DEF ExitApply, rowVars
  <2> QED BY <2>1, <2>2, <2>4, <2>5 DEF StopIsNotAnError
<1> QED BY <1>1, <1>2, <1>3, <1>4, <1>5, <1>6 DEF HandlerStep

LEMMA StopStart ==
    ASSUME TypeOK, StopIsNotAnError, NEW t \in Turn, StartStep(t)
    PROVE  StopIsNotAnError'
<1> USE DEF TypeOK, RowType, TurnType
<1>1. closed' = closed
  BY DEF StartStep, StartCheck, StartSpawn, StartRegister, StartPublish, StartRunGet,
     StartRunApply, StartFailGet, StartFailApply, StartFinally
<1>2. \A s \in Session : status'[s] = "killed" /\ err'[s] => status[s] = "killed" /\ err[s]
  <2>1. CASE StartRunApply(t) \/ StartFailApply(t)
    BY <2>1 DEF StartRunApply, StartFailApply, rowVars
  <2>2. CASE ~(StartRunApply(t) \/ StartFailApply(t))
    BY <2>2 DEF StartStep, StartCheck, StartSpawn, StartRegister, StartPublish, StartRunGet,
       StartFailGet, StartFinally, rowVars
  <2> QED BY <2>1, <2>2
<1>3. \A u \in Turn : hpc[u] # "free" => hpc'[u] # "free" /\ tsid'[u] = tsid[u]
  BY DEF StartStep, StartCheck, StartSpawn, StartRegister, StartPublish, StartRunGet,
     StartRunApply, StartFailGet, StartFailApply, StartFinally
<1> QED BY <1>1, <1>2, <1>3, StopKept

LEMMA StopCall ==
    ASSUME TypeOK, StopIsNotAnError, NEW c \in Task, CallStep(c)
    PROVE  StopIsNotAnError'
<1> USE DEF TypeOK, RowType
<1>1. UNCHANGED <<closed, hpc, tsid>>
  BY DEF CallStep, Enqueue, FollowCheck, LivePatch, LiveState, LiveWrite, FollowPatch, KillGet,
     DeleteCheck, DeleteRemove, DeleteForget, Forget, ReapGet, TransitionGet, TransitionApply,
     StopTurn, turnVars
<1>2. \A s \in Session : status'[s] = "killed" /\ err'[s] => status[s] = "killed" /\ err[s]
  <2>1. CASE TransitionApply(c)
    <3>1. CASE status[csid[c]] = Absent
      BY <2>1, <3>1 DEF TransitionApply, rowVars
    <3>2. CASE status[csid[c]] # Absent
      <4>1. /\ status' = [status EXCEPT ![csid[c]] = Target(cop[c])]
            /\ err' = [err EXCEPT ![csid[c]] = ErrorAfter(cop[c], @)]
        BY <2>1, <3>2 DEF TransitionApply
      <4>2. Target(cop[c]) = "killed" => \A old : ~ErrorAfter(cop[c], old)
        BY DEF Target, ErrorAfter
      <4> QED BY <4>1, <4>2
    <3> QED BY <3>1, <3>2
  <2>2. CASE LivePatch(c) \/ FollowPatch(c)
    BY <2>2 DEF LivePatch, FollowPatch
  <2>3. CASE DeleteRemove(c)
    BY <2>3 DEF DeleteRemove, rowVars, Absent
  <2>4. CASE ~(TransitionApply(c) \/ LivePatch(c) \/ FollowPatch(c) \/ DeleteRemove(c))
    BY <2>4 DEF CallStep, Enqueue, FollowCheck, LiveState, LiveWrite, KillGet, DeleteCheck,
       DeleteForget, ReapGet, TransitionGet, StopTurn, rowVars
  <2> QED BY <2>1, <2>2, <2>3, <2>4
<1> QED BY <1>1, <1>2, StopKept

LEMMA StopNext == TypeOK /\ StopIsNotAnError /\ [Next]_vars => StopIsNotAnError'
<1> SUFFICES ASSUME TypeOK, StopIsNotAnError, [Next]_vars PROVE StopIsNotAnError'
  OBVIOUS
<1>1. CASE \E t \in Turn : PumpPop(t)
  <2>1. PICK t \in Turn : PumpPop(t)
    BY <1>1
  <2>2. UNCHANGED <<status, err, closed, hpc>> /\ hpc[t] = "free"
    BY <2>1 DEF PumpPop, FreeSlot, rowVars
  <2>3. \A u \in Turn : u # t => tsid'[u] = tsid[u]
    BY <2>1 DEF PumpPop, TypeOK, TurnType
  <2> QED BY <2>2, <2>3, StopKept
<1>2. CASE \E t \in Turn : StartStep(t)
  BY <1>2, StopStart
<1>3. CASE \E t \in Turn : ProcExit(t)
  BY <1>3, StopKept DEF ProcExit, rowVars
<1>4. CASE \E t \in Turn : HandlerStep(t)
  BY <1>4, StopHandler
<1>5. CASE PumpBreak
  BY <1>5, StopKept DEF PumpBreak, rowVars, turnVars
<1>6. CASE \E c \in Client, s \in Session : Submit(c, s)
  BY <1>6, StopKept DEF Submit, TypeOK, RowType, turnVars
<1>7. CASE \E c \in Client, s \in Session : Kill(c, s)
  BY <1>7, StopKept DEF Kill, rowVars, turnVars
<1>8. CASE \E c \in Client, s \in Session, op \in {"follow", "delete"} : ReadRow(c, s, op)
  BY <1>8, StopKept DEF ReadRow, rowVars, turnVars
<1>9. CASE \E s \in Session : WatchdogTick(s)
  BY <1>9, StopKept DEF WatchdogTick, rowVars, turnVars
<1>10. CASE \E c \in Task : CallStep(c)
  BY <1>10, StopCall
<1>11. CASE Close
  BY <1>11 DEF Close, StopIsNotAnError
<1>12. CASE UNCHANGED vars
  BY <1>12, StopKept DEF vars, rowVars, turnVars
<1> QED BY <1>1, <1>2, <1>3, <1>4, <1>5, <1>6, <1>7, <1>8, <1>9, <1>10, <1>11, <1>12 DEF Next

\* A deliberate Stop never stays shown as an error: an error under a killed
\* row is only ever there while an exit that clears it is to come.
THEOREM StopSafe == Spec => []StopIsNotAnError
<1>1. Init => StopIsNotAnError
  BY DEF Init, StopIsNotAnError
<1>2. TypeOK /\ StopIsNotAnError /\ [Next]_vars => TypeOK' /\ StopIsNotAnError'
  BY TypeNext, StopNext
<1> QED BY TypeInit, <1>1, <1>2, PTL DEF Spec

=============================================================================
