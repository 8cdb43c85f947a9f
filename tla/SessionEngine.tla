--------------------------- MODULE SessionEngine ---------------------------
(***************************************************************************)
(* The session scheduler of engine/: the rows of the store, the in-memory  *)
(* EngineState, the start task pump() spawns for every popped queue item,  *)
(* the claude process with its pump task (on_event, on_exit), and the      *)
(* calls that race with them: submit, follow_up, kill, delete and the      *)
(* watchdog. Every await of the code is a step boundary here; what runs    *)
(* under one state lock is one step.                                       *)
(***************************************************************************)
EXTENDS Naturals, FiniteSets, SessionStatus

CONSTANTS
    Session,        \* session ids
    Client,         \* concurrent API calls
    Watchdog,       \* the watchdog task
    Turn,           \* slots for a start task, its process and its pump task
    NoTurn,         \* no RunningTurn
    NoSession,      \* an idle slot or call has no session
    MaxConcurrent,  \* EngineConfig::max_concurrent
    MaxCalls        \* bound: how many API calls and watchdog ticks a behaviour makes

Task == Client \cup {Watchdog}

ASSUME EngineAssumption ==
    /\ IsFiniteSet(Session)
    /\ MaxConcurrent \in Nat \ {0}
    /\ MaxCalls \in Nat
    /\ NoTurn \notin Turn
    /\ NoSession \notin Session
    /\ Watchdog \notin Client

VARIABLES
    status,    \* the status column of each row, or Absent
    err,       \* the error column is non-null
    queue,     \* EngineState.queue: <<ticket, id>> of each queued item; the
               \* least ticket is the front of the VecDeque
    starting,  \* EngineState.starting
    reg,       \* EngineState.running: the registered turn of each session
    parked,    \* EngineState.awaiting[id] == true
    pumpDue,   \* a pump() is scheduled or running
    closed,    \* EngineState.closed
    spc,       \* where the start task of a slot is
    tsid,      \* the session of a slot
    proc,      \* the claude process of a slot
    hpc,       \* where the pump task of a slot is
    hseen,     \* the status on_exit read
    hflag,     \* Result: an error to record; on_exit: the row carried an error
    cpc,       \* where a call is
    cop,       \* which call it is
    csid,      \* its session
    cseen,     \* the status it read
    cturn,     \* the RunHandle it captured
    calls      \* how many API calls and watchdog ticks were made

rowVars   == <<status, err>>
schedVars == <<queue, starting, pumpDue>>
turnVars  == <<spc, tsid, proc, hpc, hseen, hflag>>
callVars  == <<cpc, cop, csid, cseen, cturn, calls>>
vars == <<rowVars, schedVars, reg, parked, closed, turnVars, callVars>>

----------------------------------------------------------------------------
(* EngineState helpers *)

\* Engine::active_count: starting plus registered turns that are not parked.
BusyTurns == {s \in Session : reg[s] # NoTurn /\ s \notin parked}
ActiveCount == Cardinality(starting) + Cardinality(BusyTurns)

Queued(s) == \E item \in queue : item[2] = s

\* Engine::is_busy, with the status the caller read earlier.
IsBusy(s, seen) ==
    \/ reg[s] # NoTurn
    \/ s \in starting
    \/ Queued(s)
    \/ seen \in {"pending", "running"}

\* queue.push_back: a ticket behind all others, the next one free.
PushBack(s) ==
    \E n \in 0..MaxCalls :
        /\ \A item \in queue : item[1] < n
        /\ n > 0 => \E item \in queue : item[1] = n - 1
        /\ queue' = queue \cup {<<n, s>>}

\* queue.retain(|q| q.id != id)
Without(s) == {item \in queue : item[2] # s}

StartInFlight(s) == \E t \in Turn : tsid[t] = s /\ spc[t] # "free"

\* A slot is reused only when its task and its process are gone and no call
\* still holds the handle.
FreeSlot(t) ==
    /\ spc[t] = "free" /\ hpc[t] = "free"
    /\ \A c \in Task : cturn[c] # t

\* RunHandle::stop: SIGTERM, later SIGKILL; the process can still emit the
\* result line of the abort before it exits.
StopEffect(t) ==
    IF t # NoTurn /\ proc[t] \in {"busy", "queued", "idle"}
    THEN proc' = [proc EXCEPT ![t] = IF @ = "idle" THEN "ending" ELSE "dying"]
    ELSE UNCHANGED proc

----------------------------------------------------------------------------
Init ==
    /\ status \in [Session -> {Unborn} \cup Terminal]
    /\ err = [s \in Session |-> status[s] = "failed"]
    /\ queue = {} /\ starting = {} /\ pumpDue = FALSE /\ closed = FALSE
    /\ reg = [s \in Session |-> NoTurn]
    /\ parked = {}
    /\ spc = [t \in Turn |-> "free"]
    /\ tsid = [t \in Turn |-> NoSession]
    /\ proc = [t \in Turn |-> "none"]
    /\ hpc = [t \in Turn |-> "free"]
    /\ hseen = [t \in Turn |-> Absent]
    /\ hflag = [t \in Turn |-> FALSE]
    /\ cpc = [c \in Task |-> "idle"]
    /\ cop = [c \in Task |-> "none"]
    /\ csid = [c \in Task |-> NoSession]
    /\ cseen = [c \in Task |-> Absent]
    /\ cturn = [c \in Task |-> NoTurn]
    /\ calls = 0

----------------------------------------------------------------------------
(* pump(): one iteration of its loop, under one lock. *)

PumpPop(t) ==
    /\ pumpDue /\ ~closed
    /\ ActiveCount < MaxConcurrent
    /\ FreeSlot(t)
    /\ \E front \in queue :
         /\ \A item \in queue : front[1] <= item[1]
         /\ queue' = queue \ {front}
         /\ starting' = starting \cup {front[2]}
         /\ tsid' = [tsid EXCEPT ![t] = front[2]]
    /\ spc' = [spc EXCEPT ![t] = "check"]
    /\ UNCHANGED <<rowVars, pumpDue, reg, parked, closed, proc, hpc, hseen, hflag, callVars>>

PumpBreak ==
    /\ pumpDue
    /\ closed \/ ActiveCount >= MaxConcurrent \/ queue = {}
    /\ pumpDue' = FALSE
    /\ UNCHANGED <<rowVars, queue, starting, reg, parked, closed, turnVars, callVars>>

----------------------------------------------------------------------------
(* start(item): the task of a popped queue item. *)

Goto(t, pc) == spc' = [spc EXCEPT ![t] = pc]

\* After the worktree sync: honour a shutdown, a delete or a kill; otherwise
\* append the prompt marker, whose I/O error is the start error.
StartCheck(t) ==
    /\ spc[t] = "check"
    /\ IF closed \/ status[tsid[t]] \in {Absent, "killed"}
       THEN Goto(t, "finally")
       ELSE Goto(t, "spawn") \/ Goto(t, "fail_get")
    /\ UNCHANGED <<rowVars, schedVars, reg, parked, closed, tsid, proc, hpc, hseen, hflag, callVars>>

\* spawn_claude, awaiting = false, the first user message and, in attach(), the
\* pump task. An unspawnable binary yields a handle that is already inactive.
StartSpawn(t) ==
    /\ spc[t] = "spawn"
    /\ \E p \in {"busy", "exited"} : proc' = [proc EXCEPT ![t] = p]
    /\ parked' = parked \ {tsid[t]}
    /\ hpc' = [hpc EXCEPT ![t] = "listen"]
    /\ Goto(t, "register")
    /\ UNCHANGED <<rowVars, schedVars, reg, closed, tsid, hseen, hflag, callVars>>

\* attach() goes on: take the lock and insert the RunningTurn.
StartRegister(t) ==
    /\ spc[t] = "register"
    /\ reg' = [reg EXCEPT ![tsid[t]] = t]
    /\ Goto(t, "publish")
    /\ UNCHANGED <<rowVars, schedVars, parked, closed, tsid, proc, hpc, hseen, hflag, callVars>>

\* already_terminal?
StartPublish(t) ==
    /\ spc[t] = "publish"
    /\ IF status[tsid[t]] \in Terminal THEN Goto(t, "finally") ELSE Goto(t, "run_get")
    /\ UNCHANGED <<rowVars, schedVars, reg, parked, closed, tsid, proc, hpc, hseen, hflag, callVars>>

\* transition(id, Running, Start): read and legality check.
StartRunGet(t) ==
    LET from == status[tsid[t]] IN
    /\ spc[t] = "run_get"
    /\ CASE from = "running" -> Goto(t, "finally")
         [] from = "pending" -> Goto(t, "run_apply")
         [] OTHER -> Goto(t, "fail_get")
    /\ UNCHANGED <<rowVars, schedVars, reg, parked, closed, tsid, proc, hpc, hseen, hflag, callVars>>

\* ... and the write, which does not look at the row again.
StartRunApply(t) ==
    LET s == tsid[t] IN
    /\ spc[t] = "run_apply"
    /\ IF status[s] = Absent
       THEN Goto(t, "fail_get") /\ UNCHANGED rowVars
       ELSE /\ status' = [status EXCEPT ![s] = "running"]
            /\ err' = [err EXCEPT ![s] = FALSE]
            /\ Goto(t, "finally")
    /\ UNCHANGED <<schedVars, reg, parked, closed, tsid, proc, hpc, hseen, hflag, callVars>>

\* forget_session, as far as the scheduler state goes.
Forget(s) ==
    /\ parked' = parked \ {s}
    /\ starting' = starting \ {s}

\* pump()'s error arm: transition(id, Failed, StartFailed) then forget_session.
StartFailGet(t) ==
    LET s == tsid[t] IN
    /\ spc[t] = "fail_get"
    /\ IF ~closed /\ status[s] # Absent /\ Legal(status[s], "failed")
       THEN Goto(t, "fail_apply") /\ UNCHANGED <<parked, starting>>
       ELSE /\ Goto(t, "finally")
            /\ IF closed THEN UNCHANGED <<parked, starting>> ELSE Forget(s)
    /\ UNCHANGED <<rowVars, queue, pumpDue, reg, closed, tsid, proc, hpc, hseen, hflag, callVars>>

StartFailApply(t) ==
    LET s == tsid[t] IN
    /\ spc[t] = "fail_apply"
    /\ IF status[s] = Absent THEN UNCHANGED rowVars
       ELSE /\ status' = [status EXCEPT ![s] = "failed"]
            /\ err' = [err EXCEPT ![s] = TRUE]
    /\ Forget(s)
    /\ Goto(t, "finally")
    /\ UNCHANGED <<queue, pumpDue, reg, closed, tsid, proc, hpc, hseen, hflag, callVars>>

\* A finally block that forgets the `starting` entry.
StartFinallyLeak(t) ==
    /\ spc[t] = "finally"
    /\ pumpDue' = (pumpDue \/ ~closed)
    /\ Goto(t, "free")
    /\ tsid' = [tsid EXCEPT ![t] = IF hpc[t] = "free" THEN NoSession ELSE @]
    /\ UNCHANGED <<rowVars, queue, starting, reg, parked, closed, proc, hpc, hseen, hflag, callVars>>

\* finally: give the slot back and pump.
StartFinally(t) ==
    /\ spc[t] = "finally"
    /\ starting' = starting \ {tsid[t]}
    /\ pumpDue' = (pumpDue \/ ~closed)
    /\ Goto(t, "free")
    /\ tsid' = [tsid EXCEPT ![t] = IF hpc[t] = "free" THEN NoSession ELSE @]
    /\ UNCHANGED <<rowVars, queue, reg, parked, closed, proc, hpc, hseen, hflag, callVars>>

StartStep(t) ==
    \/ StartCheck(t) \/ StartSpawn(t) \/ StartRegister(t)
    \/ StartPublish(t) \/ StartRunGet(t) \/ StartRunApply(t)
    \/ StartFailGet(t) \/ StartFailApply(t) \/ StartFinally(t)

----------------------------------------------------------------------------
(* The claude process of a slot: busy with a message, busy with another one  *)
(* queued on its stdin, idle after a result, or told to stop while busy      *)
(* (dying: a result of the abort may still come) or idle (ending).           *)

\* It ends by itself, crashes, or obeys a stop.
ProcExit(t) ==
    /\ proc[t] \in {"busy", "queued", "idle", "dying", "ending"}
    /\ proc' = [proc EXCEPT ![t] = "exited"]
    /\ UNCHANGED <<rowVars, schedVars, reg, parked, closed, spc, tsid, hpc, hseen, hflag, callVars>>

(* Its pump task: on_event. *)

\* Init: the session is not awaiting input.
EventInit(t) ==
    /\ hpc[t] = "listen" /\ proc[t] \in {"busy", "queued"} /\ ~closed
    /\ tsid[t] \in parked
    /\ parked' = parked \ {tsid[t]}
    /\ UNCHANGED <<rowVars, schedVars, reg, closed, turnVars, callVars>>

AfterResult(p) == CASE p = "busy" -> "idle" [] p = "queued" -> "busy" [] OTHER -> "ending"

\* Result: the turn ended; the row is read once to learn whether the user
\* stopped it. A stopped turn records no error.
EventResultGet(t) ==
    /\ hpc[t] = "listen" /\ proc[t] \in {"busy", "queued", "dying"} /\ ~closed
    /\ \E isError \in BOOLEAN :
         hflag' = [hflag EXCEPT ![t] = isError /\ status[tsid[t]] # "killed"]
    /\ proc' = [proc EXCEPT ![t] = AfterResult(@)]
    /\ hpc' = [hpc EXCEPT ![t] = "result"]
    /\ UNCHANGED <<rowVars, schedVars, reg, parked, closed, spc, tsid, hseen, callVars>>

\* A refactor that forgets the re-pump at turn end.
EventResultApplyNoPump(t) ==
    LET s == tsid[t] IN
    /\ hpc[t] = "result"
    /\ err' = IF hflag[t] /\ status[s] # Absent THEN [err EXCEPT ![s] = TRUE] ELSE err
    /\ parked' = parked \cup {s}
    /\ hpc' = [hpc EXCEPT ![t] = "listen"]
    /\ hflag' = [hflag EXCEPT ![t] = FALSE]
    /\ UNCHANGED <<status, schedVars, reg, closed, spc, tsid, proc, hseen, callVars>>

\* ... the error is recorded, the session parks, a slot is free: pump().
EventResultApply(t) ==
    LET s == tsid[t] IN
    /\ hpc[t] = "result"
    /\ err' = IF hflag[t] /\ status[s] # Absent THEN [err EXCEPT ![s] = TRUE] ELSE err
    /\ parked' = parked \cup {s}
    /\ pumpDue' = TRUE
    /\ hpc' = [hpc EXCEPT ![t] = "listen"]
    /\ hflag' = [hflag EXCEPT ![t] = FALSE]
    /\ UNCHANGED <<status, queue, starting, reg, closed, spc, tsid, proc, hseen, callVars>>

(* on_exit *)

\* An exit that releases the slot although its start task still runs.
EndHandlerDropsSlot(t) ==
    /\ hpc' = [hpc EXCEPT ![t] = "free"]
    /\ proc' = [proc EXCEPT ![t] = "none"]
    /\ hseen' = [hseen EXCEPT ![t] = Absent]
    /\ hflag' = [hflag EXCEPT ![t] = FALSE]
    /\ tsid' = [tsid EXCEPT ![t] = NoSession]

\* The pump task ends; its slot is free once the start task is over too.
EndHandler(t) ==
    /\ hpc' = [hpc EXCEPT ![t] = "free"]
    /\ proc' = [proc EXCEPT ![t] = "none"]
    /\ hseen' = [hseen EXCEPT ![t] = Absent]
    /\ hflag' = [hflag EXCEPT ![t] = FALSE]
    /\ tsid' = [tsid EXCEPT ![t] = IF spc[t] = "free" THEN NoSession ELSE @]

\* Wipe the runtime state of the id, whichever turn is registered under it.
ExitBegin(t) ==
    LET s == tsid[t] IN
    /\ hpc[t] = "listen" /\ proc[t] = "exited"
    /\ IF closed
       THEN EndHandler(t) /\ UNCHANGED <<reg, parked>>
       ELSE /\ hpc' = [hpc EXCEPT ![t] = "exit_get"]
            /\ reg' = [reg EXCEPT ![s] = NoTurn]
            /\ parked' = parked \ {s}
            /\ UNCHANGED <<proc, tsid, hseen, hflag>>
    /\ UNCHANGED <<rowVars, schedVars, closed, spc, callVars>>

\* Read the row; a deleted session is just re-pumped.
ExitGet(t) ==
    LET s == tsid[t] IN
    /\ hpc[t] = "exit_get"
    /\ IF status[s] = Absent
       THEN EndHandler(t) /\ pumpDue' = TRUE
       ELSE /\ hpc' = [hpc EXCEPT ![t] = "exit_apply"]
            /\ hseen' = [hseen EXCEPT ![t] = status[s]]
            /\ hflag' = [hflag EXCEPT ![t] = err[s]]
            /\ UNCHANGED <<proc, pumpDue, tsid>>
    /\ UNCHANGED <<rowVars, queue, starting, reg, parked, closed, spc, callVars>>

\* A final patch that leaves the error column of a stopped session alone.
ExitApplyKeepError(t) ==
    LET s == tsid[t] IN
    /\ hpc[t] = "exit_apply"
    /\ \E ok \in BOOLEAN :
         LET final == ExitStatus(hseen[t], hflag[t], ok) IN
         IF status[s] = Absent THEN UNCHANGED rowVars
         ELSE /\ status' = [status EXCEPT ![s] = final]
              /\ err' = [err EXCEPT ![s] = IF final = "failed" /\ ~hflag[t] THEN TRUE ELSE @]
    /\ pumpDue' = TRUE
    /\ EndHandler(t)
    /\ UNCHANGED <<queue, starting, reg, parked, closed, spc, callVars>>

\* Write the final status directly, not through transition(); re-pump.
ExitApply(t) ==
    LET s == tsid[t] IN
    /\ hpc[t] = "exit_apply"
    /\ \E ok \in BOOLEAN :
         LET final == ExitStatus(hseen[t], hflag[t], ok) IN
         IF status[s] = Absent THEN UNCHANGED rowVars
         ELSE /\ status' = [status EXCEPT ![s] = final]
              /\ err' = [err EXCEPT ![s] = ExitError(final, hflag[t], @)]
    /\ pumpDue' = TRUE
    /\ EndHandler(t)
    /\ UNCHANGED <<queue, starting, reg, parked, closed, spc, callVars>>

HandlerStep(t) ==
    \/ EventInit(t) \/ EventResultGet(t) \/ EventResultApply(t)
    \/ ExitBegin(t) \/ ExitGet(t) \/ ExitApply(t)

----------------------------------------------------------------------------
(* API calls and the watchdog. A call reads, decides and acts in separate   *)
(* steps; it keeps the status it read and the handle it captured.           *)

Begin(c, s, op) ==
    /\ c \in Client /\ cpc[c] = "idle" /\ calls < MaxCalls
    /\ calls' = calls + 1
    /\ cop' = [cop EXCEPT ![c] = op]
    /\ csid' = [csid EXCEPT ![c] = s]

To(c, pc) == cpc' = [cpc EXCEPT ![c] = pc]

Finish(c) ==
    /\ To(c, "idle")
    /\ cop' = [cop EXCEPT ![c] = "none"]
    /\ csid' = [csid EXCEPT ![c] = NoSession]
    /\ cseen' = [cseen EXCEPT ![c] = Absent]
    /\ cturn' = [cturn EXCEPT ![c] = NoTurn]
    /\ UNCHANGED calls

Stay == UNCHANGED <<cop, csid, cseen, cturn, calls>>

\* submit_session: the row is created ...
Submit(c, s) ==
    /\ Begin(c, s, "submit")
    /\ status[s] = Unborn
    /\ status' = [status EXCEPT ![s] = "pending"]
    /\ err' = [err EXCEPT ![s] = FALSE]
    /\ To(c, "enqueue")
    /\ UNCHANGED <<schedVars, reg, parked, closed, turnVars, cseen, cturn>>

\* ... or a follow_up or a delete reads the row it is about.
ReadRow(c, s, op) ==
    /\ op \in {"follow", "delete"}
    /\ Begin(c, s, op)
    /\ status[s] \in Status
    /\ cseen' = [cseen EXCEPT ![c] = status[s]]
    /\ To(c, "check")
    /\ UNCHANGED <<rowVars, schedVars, reg, parked, closed, turnVars, cturn>>

\* A push that forgets defer_pump().
EnqueueNoPump(c) ==
    /\ cpc[c] = "enqueue"
    /\ PushBack(csid[c])
    /\ Finish(c)
    /\ UNCHANGED <<rowVars, starting, pumpDue, reg, parked, closed, turnVars>>

\* queue.push_back and defer_pump(), of submit_session and of follow_up.
Enqueue(c) ==
    /\ cpc[c] = "enqueue"
    /\ PushBack(csid[c])
    /\ pumpDue' = TRUE
    /\ Finish(c)
    /\ UNCHANGED <<rowVars, starting, reg, parked, closed, turnVars>>

\* follow_up: a registered turn takes the message over stdin; a session that
\* is busy otherwise refuses it; an idle one is queued again.
FollowCheck(c) ==
    LET s == csid[c] IN
    /\ cpc[c] = "check" /\ cop[c] = "follow"
    /\ IF reg[s] # NoTurn
       THEN /\ cturn' = [cturn EXCEPT ![c] = reg[s]]
            /\ To(c, "live_patch")
            /\ UNCHANGED <<cop, csid, cseen, calls>>
       ELSE IF IsBusy(s, cseen[c]) THEN Finish(c) ELSE To(c, "t_get") /\ Stay
    /\ UNCHANGED <<rowVars, schedVars, reg, parked, closed, turnVars>>

\* The live branch: clear the error ...
LivePatch(c) ==
    LET s == csid[c] IN
    /\ cpc[c] = "live_patch"
    /\ err' = [err EXCEPT ![s] = FALSE]
    /\ To(c, "live_state") /\ Stay
    /\ UNCHANGED <<status, schedVars, reg, parked, closed, turnVars>>

\* ... awaiting = false ...
LiveState(c) ==
    /\ cpc[c] = "live_state"
    /\ parked' = parked \ {csid[c]}
    /\ To(c, "live_write") /\ Stay
    /\ UNCHANGED <<rowVars, schedVars, reg, closed, turnVars>>

\* ... and write to the captured handle, whether or not it still lives.
LiveWrite(c) ==
    LET t == cturn[c] IN
    /\ cpc[c] = "live_write"
    /\ proc' = [proc EXCEPT ![t] = CASE @ = "idle" -> "busy"
                                     [] @ = "busy" -> "queued"
                                     [] OTHER -> @]
    /\ Finish(c)
    /\ UNCHANGED <<rowVars, schedVars, reg, parked, closed, spc, tsid, hpc, hseen, hflag>>

\* follow_up's second patch, after the transition.
FollowPatch(c) ==
    LET s == csid[c] IN
    /\ cpc[c] = "patch"
    /\ err' = [err EXCEPT ![s] = FALSE]
    /\ To(c, "enqueue") /\ Stay
    /\ UNCHANGED <<status, schedVars, reg, parked, closed, turnVars>>

\* kill: a registered turn is marked and stopped; otherwise the session is
\* dropped from the queue ...
Kill(c, s) ==
    /\ Begin(c, s, "kill")
    /\ status[s] # Unborn
    /\ IF reg[s] # NoTurn
       THEN /\ cturn' = [cturn EXCEPT ![c] = reg[s]]
            /\ To(c, "t_get")
            /\ UNCHANGED queue
       ELSE /\ queue' = Without(s)
            /\ To(c, "kill_get")
            /\ UNCHANGED cturn
    /\ UNCHANGED <<rowVars, starting, pumpDue, reg, parked, closed, turnVars, cseen>>

\* A kill that is content with dropping the item from the queue.
KillGetNoMark(c) ==
    /\ cpc[c] = "kill_get"
    /\ Finish(c)
    /\ UNCHANGED <<rowVars, schedVars, reg, parked, closed, turnVars>>

\* ... and a pending row is marked.
KillGet(c) ==
    /\ cpc[c] = "kill_get"
    /\ IF status[csid[c]] = "pending" THEN To(c, "t_get") /\ Stay ELSE Finish(c)
    /\ UNCHANGED <<rowVars, schedVars, reg, parked, closed, turnVars>>

\* delete_session: refuse a busy session unless forced; drop it from the
\* queue, mark it and stop the turn found in `running`.
DeleteCheck(c) ==
    LET s == csid[c] IN
    /\ cpc[c] = "check" /\ cop[c] = "delete"
    /\ \/ /\ IsBusy(s, cseen[c])              \* not forced: Busy
          /\ Finish(c)
          /\ UNCHANGED queue
       \/ /\ IsBusy(s, cseen[c])              \* forced
          /\ queue' = Without(s)
          /\ cturn' = [cturn EXCEPT ![c] = reg[s]]
          /\ To(c, "t_get")
          /\ UNCHANGED <<cop, csid, cseen, calls>>
       \/ /\ ~IsBusy(s, cseen[c])
          /\ To(c, "remove") /\ Stay
          /\ UNCHANGED queue
    /\ UNCHANGED <<rowVars, starting, pumpDue, reg, parked, closed, turnVars>>

\* Its end, reached once wait_for_exit saw the turn gone or gave up after 5 s:
\* the row is removed ...
DeleteRemove(c) ==
    LET s == csid[c] IN
    /\ cpc[c] = "remove"
    /\ IF status[s] = Absent
       THEN Finish(c) /\ UNCHANGED rowVars
       ELSE /\ status' = [status EXCEPT ![s] = Absent]
            /\ err' = [err EXCEPT ![s] = FALSE]
            /\ To(c, "forget") /\ Stay
    /\ UNCHANGED <<schedVars, reg, parked, closed, turnVars>>

\* ... and the runtime state forgotten.
DeleteForget(c) ==
    /\ cpc[c] = "forget"
    /\ Forget(csid[c])
    /\ Finish(c)
    /\ UNCHANGED <<rowVars, queue, pumpDue, reg, closed, turnVars>>

\* tick_watchdog: a registered turn that was silent for too long (not parked)
\* is cancelled; a parked one past the opt-in idle TTL is reaped.
WatchdogTick(s) ==
    LET w == Watchdog IN
    /\ cpc[w] = "idle" /\ ~closed /\ calls < MaxCalls
    /\ calls' = calls + 1
    /\ reg[s] # NoTurn
    /\ csid' = [csid EXCEPT ![w] = s]
    /\ cturn' = [cturn EXCEPT ![w] = reg[s]]
    /\ IF s \in parked
       THEN To(w, "reap_get") /\ UNCHANGED cop
       ELSE To(w, "t_get") /\ cop' = [cop EXCEPT ![w] = "cancel"]
    /\ UNCHANGED <<rowVars, schedVars, reg, parked, closed, turnVars, cseen>>

\* The reap's final status: failed when the row already carries an error.
ReapGet(c) ==
    LET s == csid[c] IN
    /\ cpc[c] = "reap_get"
    /\ cop' = [cop EXCEPT ![c] = IF status[s] # Absent /\ err[s]
                                 THEN "reap_failed" ELSE "reap_done"]
    /\ To(c, "t_get")
    /\ UNCHANGED <<rowVars, schedVars, reg, parked, closed, turnVars, csid, cseen, cturn, calls>>

(* transition(id, to, reason) as these callers use it. *)

Target(op) ==
    CASE op = "follow" -> "pending"
      [] op \in {"kill", "delete"} -> "killed"
      [] op \in {"reap_failed", "reap_kept"} -> "failed"
      [] OTHER -> "done"

\* The error column its patch leaves.
ErrorAfter(op, old) ==
    CASE op \in {"follow", "kill", "delete"} -> FALSE
      [] op = "reap_failed" -> TRUE
      [] OTHER -> old

\* What the caller does when transition() returned, whatever it returned.
AfterTransition(c) ==
    CASE cop[c] = "follow" -> To(c, "patch") /\ Stay
      [] cop[c] # "follow" /\ cturn[c] # NoTurn -> To(c, "stop") /\ Stay
      [] cop[c] = "delete" /\ cturn[c] = NoTurn -> To(c, "remove") /\ Stay
      [] OTHER -> Finish(c)

\* Read the row and check the edge; a self-transition is a no-op. A failed
\* reap sets an error text only when it finds none.
TransitionGet(c) ==
    LET from == status[csid[c]]
        to == Target(cop[c]) IN
    /\ cpc[c] = "t_get"
    /\ IF from \in Status /\ Legal(from, to) /\ from # to
       THEN /\ To(c, "t_apply")
            /\ cop' = [cop EXCEPT ![c] = IF @ = "reap_failed" /\ err[csid[c]]
                                         THEN "reap_kept" ELSE @]
            /\ UNCHANGED <<csid, cseen, cturn, calls>>
       ELSE AfterTransition(c)
    /\ UNCHANGED <<rowVars, schedVars, reg, parked, closed, turnVars>>

\* Write the target status. The row is not looked at again, except that an
\* update of a removed row changes nothing.
TransitionApply(c) ==
    LET s == csid[c] IN
    /\ cpc[c] = "t_apply"
    /\ IF status[s] = Absent
       THEN UNCHANGED rowVars
       ELSE /\ status' = [status EXCEPT ![s] = Target(cop[c])]
            /\ err' = [err EXCEPT ![s] = ErrorAfter(cop[c], @)]
    /\ AfterTransition(c)
    /\ UNCHANGED <<schedVars, reg, parked, closed, turnVars>>

\* run.stop() on the captured handle.
StopTurn(c) ==
    /\ cpc[c] = "stop"
    /\ StopEffect(cturn[c])
    /\ IF cop[c] = "delete" THEN To(c, "remove") /\ Stay ELSE Finish(c)
    /\ UNCHANGED <<rowVars, schedVars, reg, parked, closed, spc, tsid, hpc, hseen, hflag>>

CallStep(c) ==
    \/ Enqueue(c)
    \/ FollowCheck(c) \/ LivePatch(c) \/ LiveState(c) \/ LiveWrite(c) \/ FollowPatch(c)
    \/ KillGet(c)
    \/ DeleteCheck(c) \/ DeleteRemove(c) \/ DeleteForget(c)
    \/ ReapGet(c)
    \/ TransitionGet(c) \/ TransitionApply(c) \/ StopTurn(c)

----------------------------------------------------------------------------
\* close_with(kill_running): every registered turn is stopped or detached and
\* its pump task aborted.
Close ==
    LET registered == {reg[s] : s \in {x \in Session : reg[x] # NoTurn}} IN
    /\ ~closed
    /\ closed' = TRUE
    /\ reg' = [s \in Session |-> NoTurn]
    /\ hpc' = [t \in Turn |-> IF t \in registered THEN "free" ELSE hpc[t]]
    /\ \E killRunning \in BOOLEAN :
         proc' = [t \in Turn |->
                    IF killRunning /\ t \in registered /\ proc[t] \in {"busy", "queued", "idle"}
                    THEN "dying" ELSE proc[t]]
    /\ UNCHANGED <<rowVars, schedVars, parked, spc, tsid, hseen, hflag, callVars>>

Next ==
    \/ \E t \in Turn : PumpPop(t) \/ StartStep(t) \/ ProcExit(t) \/ HandlerStep(t)
    \/ PumpBreak
    \/ \E c \in Client, s \in Session :
         \/ Submit(c, s) \/ Kill(c, s)
         \/ \E op \in {"follow", "delete"} : ReadRow(c, s, op)
    \/ \E s \in Session : WatchdogTick(s)
    \/ \E c \in Task : CallStep(c)
    \/ Close

Spec == Init /\ [][Next]_vars

\* Tokio runs every spawned task that can run; a process told to stop exits
\* (SIGKILL follows SIGTERM) and its exit is seen by the pump task.
Fairness ==
    /\ WF_vars(PumpBreak \/ \E t \in Turn : PumpPop(t))
    /\ \A t \in Turn :
         /\ WF_vars(StartStep(t))
         /\ WF_vars(HandlerStep(t))
         /\ WF_vars(proc[t] \in {"dying", "ending"} /\ ProcExit(t))
    /\ \A c \in Task : WF_vars(CallStep(c))

FairSpec == Spec /\ Fairness

----------------------------------------------------------------------------
(* Properties *)

RowType == status \in [Session -> Row] /\ err \in [Session -> BOOLEAN]

SchedType ==
    /\ queue \subseteq (0..MaxCalls) \X Session
    /\ starting \subseteq Session
    /\ parked \subseteq Session
    /\ reg \in [Session -> Turn \cup {NoTurn}]
    /\ pumpDue \in BOOLEAN
    /\ closed \in BOOLEAN

TurnType ==
    /\ spc \in [Turn -> {"free", "check", "spawn", "register", "publish",
                         "run_get", "run_apply", "fail_get", "fail_apply", "finally"}]
    /\ tsid \in [Turn -> Session \cup {NoSession}]
    /\ proc \in [Turn -> {"none", "busy", "queued", "idle", "dying", "ending", "exited"}]
    /\ hpc \in [Turn -> {"free", "listen", "result", "exit_get", "exit_apply"}]
    /\ hseen \in [Turn -> Row]
    /\ hflag \in [Turn -> BOOLEAN]
    /\ \A t \in Turn : spc[t] # "free" \/ hpc[t] # "free" => tsid[t] \in Session

CallType ==
    /\ cpc \in [Task -> {"idle", "enqueue", "check", "live_patch", "live_state", "live_write",
                         "patch", "kill_get", "reap_get", "t_get", "t_apply", "stop",
                         "remove", "forget"}]
    /\ cop \in [Task -> {"none", "submit", "follow", "kill", "delete", "cancel",
                         "reap_done", "reap_failed", "reap_kept"}]
    /\ csid \in [Task -> Session \cup {NoSession}]
    /\ cseen \in [Task -> Row]
    /\ cturn \in [Task -> Turn \cup {NoTurn}]
    /\ calls \in 0..MaxCalls
    /\ \A c \in Task : cpc[c] # "idle" => csid[c] \in Session

\* Every variable stays in its range; a slot and a call at work have a session.
TypeOK == RowType /\ SchedType /\ TurnType /\ CallType

\* A task that will pump, or re-pump, is still on its way.
PumpPromised ==
    \/ pumpDue
    \/ \E t \in Turn : spc[t] # "free" \/ hpc[t] \in {"result", "exit_get", "exit_apply"}

\* pump() is called from four places; none of them is missing: while a queued
\* item could start, somebody is going to look at the queue.
\* (Deleting or re-waking a session changes the count without pumping.)
NoLostWakeup ==
    ~closed /\ queue # {} /\ ActiveCount < MaxConcurrent => PumpPromised

\* Every id in `starting` belongs to a start task that will remove it: a slot
\* of the concurrency cap cannot leak there.
StartingOwned == \A s \in starting : StartInFlight(s)

\* Who still has to do something about a pending row.
PendingOwner(s) ==
    \/ Queued(s)
    \/ \E t \in Turn : tsid[t] = s /\ spc[t] \notin {"free", "finally"}
    \/ \E c \in Task :
         /\ csid[c] = s
         /\ \/ cop[c] \in {"submit", "follow"} /\ cpc[c] \in {"patch", "enqueue"}
            \/ cop[c] = "kill" /\ cpc[c] \in {"kill_get", "t_get", "t_apply"}
            \/ cop[c] = "delete" /\ cpc[c] \in {"t_get", "t_apply"}

\* A pending row is never stranded: it is queued, being started, about to be
\* queued by the call that made it pending, or being killed by the call that
\* took it off the queue.
PendingOwned == ~closed => \A s \in Session : status[s] = "pending" => PendingOwner(s)

\* A deliberate Stop is not an error: when a killed row still shows one, the
\* exit of one of its turns, which clears it, is yet to come.
StopIsNotAnError ==
    ~closed => \A s \in Session :
        status[s] = "killed" /\ err[s] => \E t \in Turn : tsid[t] = s /\ hpc[t] # "free"

\* Every accepted prompt gets its turn: with a free slot per session a pending
\* row does not stay pending, unless the server shuts down.
PendingLeaves ==
    \A s \in Session : (status[s] = "pending" /\ ~closed) ~> (status[s] # "pending" \/ closed)

----------------------------------------------------------------------------
(* What the comments and documents promise and the interleavings break.     *)

Alive(t) == proc[t] \in {"busy", "queued", "idle"}

\* Nothing is under way for s any more: no call, no start task.
Settled(s) ==
    /\ \A c \in Task : csid[c] # s
    /\ \A t \in Turn : tsid[t] = s => spc[t] = "free"

\* docs/internals.md: each session is one persistent claude process.
OneProcessPerSession ==
    \A t, u \in Turn : Alive(t) /\ Alive(u) /\ tsid[t] = tsid[u] => t = u

\* attach() and on_exit(): an entry of `running` has a pump task that will
\* remove it.
RegisteredTurnIsLive ==
    ~closed => \A s \in Session : reg[s] # NoTurn => tsid[reg[s]] = s /\ hpc[reg[s]] # "free"

\* start(): a terminal status is never resurrected to running.
NeverResurrect ==
    [][\A s \in Session : status[s] \in Terminal => status'[s] # "running"]_vars

\* start(): registering the turn before publishing it closes the race with a
\* kill: once everything settled, a killed session has no process at work.
KillIsNotLost ==
    ~closed => \A s \in Session :
        status[s] = "killed" /\ Settled(s) => \A t \in Turn : tsid[t] = s => ~Alive(t)

=============================================================================
