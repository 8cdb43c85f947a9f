---------------------------- MODULE SessionTurns ----------------------------
(***************************************************************************)
(* What becomes of a turn. One session: the prompt markers and results in  *)
(* its log, the bridge process that writes them, the tailer and its        *)
(* saw_result flag, the pump task that turns events and the exit code into *)
(* a status, an error, a cost and a finish-line push, the lifecycle        *)
(* sidecar, and a server that stops and recovers at boot. The scheduling   *)
(* of several sessions and the races of several callers are SessionEngine. *)
(***************************************************************************)
EXTENDS Naturals, Sequences, FiniteSets, SessionStatus

CONSTANTS
    MaxMsgs,    \* bound: messages the user sends
    MaxStops    \* bound: how often the server stops

ASSUME TurnsAssumption == MaxMsgs \in Nat \ {0} /\ MaxStops \in Nat

VARIABLES
    up,         \* the server runs
    status, err, code, cost,    \* columns of the row
    msgs,       \* how many messages the user sent
    turns,      \* how many turns were begun: the prompt markers of the log
    queued,     \* the session has a QueueItem
    spc,        \* where start() is
    sturn,      \* the turn it starts
    ipc,        \* where follow_up's live branch is
    proc,       \* the bridge process
    stdin,      \* the turns it was given and did not answer, the first in progress
    begun,      \* it logged the init line of the first
    orphan,     \* the same for a bridge that outlived a stop of the server
    log,        \* prompt markers, init lines and results, each with its turn
    read,       \* EventTailer::offset
    saw,        \* saw_result
    chan,       \* events not handled yet, by their positions in the log
    exit,       \* the exit code, once the poll loop sent it
    reg,        \* the session has a RunningTurn
    parked,     \* awaiting[id] == true
    hpc,        \* where the pump task is
    hkill,      \* the Result branch read a killed row
    hparked,    \* was_parked
    startedAt,  \* the turn of the last TurnStarted of the sidecar, or 0
    pushes,     \* the turns announced to the user, in order
    recovered,  \* the status was decided at boot
    raced,      \* history, of the last start: an orphan was there or wrote, the turn
                \* started with an old error, its error came before `running` and was
                \* cleared by it, or a message was injected into a turn or while the
                \* process died
    stops       \* how often the server stopped

rowVars  == <<status, err, code, cost>>
userVars == <<msgs, turns>>
engVars  == <<queued, spc, sturn, ipc, reg, parked>>
procVars == <<proc, stdin, begun, orphan>>
tailVars == <<read, saw, chan, exit>>
pumpVars == <<hpc, hkill, hparked>>
bootVars == <<up, startedAt, recovered, stops>>
vars == <<rowVars, userVars, engVars, procVars, log, tailVars, pumpVars, bootVars, pushes, raced>>

----------------------------------------------------------------------------
Line(kind, t) == [kind |-> kind, turn |-> t]

IsResult(l) == l.kind \in {"ok", "bad"}
IsEvent(l)  == l.kind # "prompt"

First(S) == CHOOSE i \in S : \A j \in S : i <= j
Last(S)  == CHOOSE i \in S : \A j \in S : j <= i

\* The log only grows and is read in order: what is queued of it is a set of positions.
Results == {i \in 1..Len(log) : IsResult(log[i])}
Event   == log[First(chan)]

\* The last word of the bridge on turn t is a success.
Answered(t) ==
    \E i \in 1..Len(log) :
        /\ log[i] = Line("ok", t)
        /\ \A j \in i + 1 .. Len(log) : ~(IsResult(log[j]) /\ log[j].turn = t)

\* submit_session created the row and queued its first message.
Init ==
    /\ up = TRUE /\ status = "pending" /\ err = "none" /\ code = "none"
    /\ cost = 0 /\ msgs = 1 /\ turns = 0 /\ queued = TRUE
    /\ spc = "off" /\ sturn = 0 /\ ipc = "off"
    /\ proc = "none" /\ stdin = <<>> /\ begun = FALSE /\ orphan = <<>>
    /\ log = <<>> /\ read = 0 /\ saw = FALSE /\ chan = {} /\ exit = "none"
    /\ reg = FALSE /\ parked = FALSE
    /\ hpc = "off" /\ hkill = FALSE /\ hparked = FALSE
    /\ startedAt = 0 /\ pushes = <<>> /\ recovered = FALSE
    /\ raced = FALSE /\ stops = 0

----------------------------------------------------------------------------
(* The user *)

\* follow_up of a session that is not live and not busy.
FollowUpQueued ==
    /\ up /\ msgs < MaxMsgs /\ turns < MaxMsgs /\ ipc = "off" /\ hpc = "off"
    /\ ~reg /\ spc = "off" /\ ~queued /\ status \in Terminal
    /\ msgs' = msgs + 1
    /\ queued' = TRUE
    /\ status' = "pending" /\ err' = "none" /\ code' = "none"
    /\ recovered' = FALSE
    /\ UNCHANGED <<cost, turns, spc, sturn, ipc, reg, parked, procVars, log, tailVars,
                   pumpVars, up, startedAt, stops, pushes, raced>>

\* The process waits for a message and everything it wrote was handled.
Quiet == proc = "alive" /\ stdin = <<>> /\ read = Len(log) /\ chan = {} /\ hpc = "listen"

\* follow_up of a live session: clear the error ...
InjectBegin ==
    /\ up /\ msgs < MaxMsgs /\ turns < MaxMsgs /\ ipc = "off" /\ reg
    /\ msgs' = msgs + 1
    /\ err' = "none" /\ code' = "none"
    /\ ipc' = "log"
    /\ raced' = (raced \/ ~Quiet)
    /\ UNCHANGED <<status, cost, turns, queued, spc, sturn, reg, parked, procVars, log,
                   tailVars, pumpVars, bootVars, pushes>>

\* ... log the prompt marker ...
InjectLog ==
    /\ ipc = "log"
    /\ turns' = turns + 1
    /\ log' = Append(log, Line("prompt", turns + 1))
    /\ ipc' = "state"
    /\ UNCHANGED <<rowVars, msgs, queued, spc, sturn, reg, parked, procVars, tailVars,
                   pumpVars, bootVars, pushes, raced>>

\* ... no longer awaiting ...
InjectState ==
    /\ ipc = "state"
    /\ parked' = FALSE
    /\ ipc' = "write"
    /\ UNCHANGED <<rowVars, userVars, queued, spc, sturn, reg, procVars, log, tailVars,
                   pumpVars, bootVars, pushes, raced>>

\* A write that leaves the saw_result of the turn before.
InjectWriteKeepSaw ==
    /\ ipc = "write"
    /\ stdin' = IF proc = "alive" THEN Append(stdin, turns) ELSE stdin
    /\ ipc' = "off"
    /\ UNCHANGED <<rowVars, userVars, queued, spc, sturn, reg, parked, proc, begun, orphan,
                   log, tailVars, pumpVars, bootVars, pushes, raced>>

\* ... reset saw_result and write to the bridge's stdin; a write to a process
\* that is gone is only logged.
InjectWrite ==
    /\ ipc = "write"
    /\ saw' = FALSE
    /\ stdin' = IF proc = "alive" THEN Append(stdin, turns) ELSE stdin
    /\ ipc' = "off"
    /\ UNCHANGED <<rowVars, userVars, queued, spc, sturn, reg, parked, proc, begun, orphan,
                   log, read, chan, exit, pumpVars, bootVars, pushes, raced>>

\* kill: a live turn is marked and stopped, a queued one dropped and marked.
Kill ==
    /\ up
    /\ status \in {"pending", "running"} \/ reg
    /\ \/ /\ reg
          /\ proc' = IF proc = "alive" THEN "stopping" ELSE proc
          /\ UNCHANGED queued
          /\ IF Legal(status, "killed") /\ status # "killed"
             THEN status' = "killed" /\ err' = "none"
             ELSE UNCHANGED <<status, err>>
       \/ /\ ~reg
          /\ queued' = FALSE
          /\ IF status = "pending"
             THEN status' = "killed" /\ err' = "none"
             ELSE UNCHANGED <<status, err>>
          /\ UNCHANGED proc
    /\ UNCHANGED <<code, cost, userVars, spc, sturn, ipc, reg, parked, stdin, begun,
                   orphan, log, tailVars, pumpVars, bootVars, pushes, raced>>

----------------------------------------------------------------------------
(* start() *)

\* Pop the item and log its prompt marker.
StartLog ==
    /\ up /\ queued /\ spc = "off" /\ hpc = "off"
    /\ turns' = turns + 1
    /\ log' = Append(log, Line("prompt", turns + 1))
    /\ sturn' = turns + 1
    /\ queued' = FALSE
    /\ spc' = "spawn"
    /\ raced' = (orphan # <<>>)
    /\ UNCHANGED <<rowVars, msgs, ipc, reg, parked, procVars, tailVars, pumpVars, bootVars,
                   pushes>>

\* spawn_claude with a tailer at the end of the log, the first message, attach().
\* A bridge that cannot be spawned is inactive at once.
StartSpawn ==
    /\ spc = "spawn"
    /\ \E p \in {"alive", "exited"} :
         /\ proc' = p
         /\ stdin' = IF p = "alive" THEN <<sturn>> ELSE <<>>
    /\ begun' = FALSE
    /\ read' = Len(log) /\ saw' = FALSE /\ chan' = {} /\ exit' = "none"
    /\ parked' = FALSE /\ reg' = TRUE /\ hpc' = "listen"
    /\ raced' = (raced \/ err # "none")
    /\ spc' = "publish"
    /\ UNCHANGED <<rowVars, userVars, queued, sturn, ipc, orphan, log, hkill, hparked,
                   bootVars, pushes>>

\* Publish `running`, unless the row is terminal already.
StartPublish ==
    /\ spc = "publish"
    /\ IF status \in Terminal
       THEN spc' = "off" /\ sturn' = 0 /\ UNCHANGED <<status, err, code>>
       ELSE /\ spc' = "sidecar" /\ UNCHANGED sturn
            /\ status' = "running"
            /\ IF status = "running" THEN UNCHANGED <<err, code>> ELSE err' = "none" /\ code' = "none"
    /\ raced' = (raced \/ err' # err)
    /\ UNCHANGED <<cost, userVars, queued, ipc, reg, parked, procVars, log,
                   tailVars, pumpVars, bootVars, pushes>>

\* TurnStarted, with the time of the prompt marker.
StartSidecar ==
    /\ spc = "sidecar"
    /\ startedAt' = sturn
    /\ spc' = "off" /\ sturn' = 0
    /\ UNCHANGED <<rowVars, userVars, queued, ipc, reg, parked, procVars, log, tailVars,
                   pumpVars, up, recovered, stops, pushes, raced>>

----------------------------------------------------------------------------
(* The bridge. Each message it is given is one turn of the SDK query: an init *)
(* line, then a result, unless the process ends before.                       *)

BridgeInit ==
    /\ proc = "alive" /\ stdin # <<>> /\ ~begun
    /\ begun' = TRUE
    /\ log' = Append(log, Line("init", Head(stdin)))
    /\ UNCHANGED <<rowVars, userVars, engVars, proc, stdin, orphan, tailVars, pumpVars, bootVars,
                   pushes, raced>>

\* A turn that is stopped can only end in the error result of the abort.
BridgeResult ==
    /\ begun
    /\ \E kind \in CASE proc = "alive" -> {"ok", "bad"} [] proc = "stopping" -> {"bad"} [] OTHER -> {} :
         log' = Append(log, Line(kind, Head(stdin)))
    /\ stdin' = Tail(stdin)
    /\ begun' = FALSE
    /\ UNCHANGED <<rowVars, userVars, engVars, proc, orphan, tailVars, pumpVars, bootVars, pushes, raced>>

\* The turn the bridge is at, or the last one it answered.
LastGiven ==
    IF stdin # <<>> THEN Head(stdin) ELSE log[Last(Results)].turn

\* The query throws, in a turn or between two (its claude process died): the bridge
\* logs an error result and exits.
BridgeThrow ==
    /\ proc = "alive"
    /\ log' = Append(log, Line("bad", LastGiven))
    /\ proc' = "exited" /\ stdin' = <<>> /\ begun' = FALSE
    /\ raced' = (raced \/ ipc # "off")
    /\ UNCHANGED <<rowVars, userVars, engVars, orphan, tailVars, pumpVars, bootVars, pushes>>

\* It crashes, ends, or obeys the stop.
BridgeExit ==
    /\ proc \in {"alive", "stopping"}
    /\ proc' = "exited" /\ stdin' = <<>> /\ begun' = FALSE
    /\ raced' = (raced \/ ipc # "off")
    /\ UNCHANGED <<rowVars, userVars, engVars, orphan, log, tailVars, pumpVars, bootVars, pushes>>

\* A bridge whose server is gone reads the end of its stdin, finishes what it was
\* given, or dies before; one that writes nothing more is as good as none.
OrphanResult ==
    /\ orphan # <<>>
    /\ \E kind \in {"ok", "bad"} : log' = Append(log, Line(kind, Head(orphan)))
    /\ orphan' \in {Tail(orphan), <<>>}
    /\ raced' = TRUE
    /\ UNCHANGED <<rowVars, userVars, engVars, proc, stdin, begun, tailVars, pumpVars, bootVars, pushes>>

----------------------------------------------------------------------------
(* The poll loop of SpawnHandle *)

Unread == (read + 1)..Len(log)

SawSuccess == saw \/ \E i \in Unread : log[i].kind = "ok"

Poll ==
    /\ hpc # "off" /\ exit = "none" /\ read < Len(log)
    /\ chan' = chan \cup {i \in Unread : IsEvent(log[i])}
    /\ saw' = SawSuccess
    /\ read' = Len(log)
    /\ UNCHANGED <<rowVars, userVars, engVars, procVars, log, exit, pumpVars, bootVars, pushes, raced>>

\* A loop that does not read the tail once the process is gone.
PollFinalNoTail ==
    /\ hpc # "off" /\ exit = "none" /\ proc = "exited"
    /\ exit' = IF saw THEN "zero" ELSE "one"
    /\ UNCHANGED <<rowVars, userVars, engVars, procVars, log, read, saw, chan, pumpVars, bootVars,
                   pushes, raced>>

\* The process is gone: the tail, then the exit code, which is saw_result.
PollFinal ==
    /\ hpc # "off" /\ exit = "none" /\ proc = "exited"
    /\ chan' = chan \cup {i \in Unread : IsEvent(log[i])}
    /\ saw' = SawSuccess
    /\ read' = Len(log)
    /\ exit' = IF SawSuccess THEN "zero" ELSE "one"
    /\ UNCHANGED <<rowVars, userVars, engVars, procVars, log, pumpVars, bootVars, pushes, raced>>

----------------------------------------------------------------------------
(* The pump task: on_event and on_exit *)

EventInit ==
    /\ hpc = "listen" /\ chan # {} /\ Event.kind = "init"
    /\ parked' = FALSE
    /\ chan' = chan \ {First(chan)}
    /\ UNCHANGED <<rowVars, userVars, queued, spc, sturn, ipc, reg, procVars, log, read, saw, exit,
                   pumpVars, bootVars, pushes, raced>>

\* The Result branch reads the row ...
ResultGet ==
    /\ hpc = "listen" /\ chan # {} /\ IsResult(Event)
    /\ hkill' = (status = "killed")
    /\ hpc' = "patch"
    /\ UNCHANGED <<rowVars, userVars, engVars, procVars, log, tailVars, hparked, bootVars, pushes, raced>>

\* ... adds the cost and records the error ...
ResultPatch ==
    /\ hpc = "patch"
    /\ cost' = cost + 1
    /\ err' = IF Event.kind = "bad" /\ ~hkill THEN "claude" ELSE err
    /\ hpc' = "park"
    /\ UNCHANGED <<status, code, userVars, engVars, procVars, log, tailVars, hkill, hparked,
                   bootVars, pushes, raced>>

\* A Result branch that parks the session and tells nobody.
ResultParkNoPush ==
    /\ hpc = "park"
    /\ parked' = TRUE
    /\ chan' = chan \ {First(chan)}
    /\ hpc' = "listen"
    /\ hkill' = FALSE
    /\ UNCHANGED <<rowVars, userVars, queued, spc, sturn, ipc, reg, procVars, log, read, saw, exit,
                   hparked, bootVars, pushes, raced>>

\* ... parks the session and announces the turn, unless the user stopped it.
ResultPark ==
    /\ hpc = "park"
    /\ parked' = TRUE
    /\ pushes' = IF hkill THEN pushes ELSE Append(pushes, Event.turn)
    /\ chan' = chan \ {First(chan)}
    /\ hpc' = "listen"
    /\ hkill' = FALSE
    /\ UNCHANGED <<rowVars, userVars, queued, spc, sturn, ipc, reg, procVars, log, read, saw, exit,
                   hparked, bootVars, raced>>

\* on_exit, once the events are drained: wipe the runtime state ...
ExitBegin ==
    /\ hpc = "listen" /\ exit # "none" /\ chan = {}
    /\ reg' = FALSE
    /\ hparked' = parked
    /\ parked' = FALSE
    /\ hpc' = "exit"
    /\ UNCHANGED <<rowVars, userVars, queued, spc, sturn, ipc, procVars, log, tailVars, hkill,
                   bootVars, pushes, raced>>

\* The status and the error an exit leaves, whether or not it is announced.
FinalRow ==
    LET final == ExitStatus(status, err # "none", exit = "zero") IN
    /\ status' = final
    /\ code' = exit
    /\ err' = CASE final = "killed"                  -> "none"
                [] final = "failed" /\ err = "none"  -> "crash"
                [] OTHER                             -> err
    /\ hpc' = "off" /\ hparked' = FALSE
    /\ proc' = "none"
    /\ read' = 0 /\ exit' = "none" /\ saw' = FALSE

\* An exit that announces the turn again although the result did.
ExitApplyPushAlways ==
    /\ hpc = "exit"
    /\ FinalRow
    /\ pushes' = Append(pushes, turns)
    /\ UNCHANGED <<cost, userVars, engVars, stdin, begun, orphan, log, chan, hkill,
                   bootVars, raced>>

\* ... decide the status, and announce the turn unless a result did.
ExitApply ==
    /\ hpc = "exit"
    /\ FinalRow
    /\ pushes' = IF hparked THEN pushes ELSE Append(pushes, turns)
    /\ UNCHANGED <<cost, userVars, engVars, stdin, begun, orphan, log, chan, hkill,
                   bootVars, raced>>

----------------------------------------------------------------------------
(* The server stops and boots *)

\* A shutdown or a crash: what is in memory is gone. The bridge dies with it (the
\* control group of the unit), or outlives it (close_with(false), launchd).
Stop ==
    /\ up /\ stops < MaxStops
    /\ up' = FALSE
    /\ stops' = stops + 1
    /\ queued' = FALSE /\ spc' = "off" /\ ipc' = "off" /\ reg' = FALSE /\ parked' = FALSE
    /\ orphan' \in {orphan, IF proc = "alive" THEN stdin ELSE orphan}
    /\ proc' = "none" /\ stdin' = <<>> /\ begun' = FALSE
    /\ read' = 0 /\ saw' = FALSE /\ chan' = {} /\ exit' = "none"
    /\ sturn' = 0 /\ hpc' = "off" /\ hkill' = FALSE /\ hparked' = FALSE
    /\ UNCHANGED <<rowVars, userVars, log, startedAt, recovered, pushes, raced>>

\* The results whose last prompt marker is not older than ts.
ResultsSince(ts) ==
    {i \in 1..Len(log) :
        /\ IsResult(log[i])
        /\ \E j \in 1..i :
             /\ log[j].kind = "prompt" /\ log[j].turn >= ts
             /\ \A k \in j + 1 .. i : log[k].kind # "prompt"}

\* The scan that trusts the last result of the log, whatever its turn.
LastOutcomeAnyTurn ==
    IF Results = {} THEN "none" ELSE log[Last(Results)].kind

\* last_outcome_in_current_turn, anchored at the last TurnStarted.
LastOutcome ==
    LET found == ResultsSince(startedAt) IN
    IF found = {} THEN "none" ELSE log[Last(found)].kind

\* Boot: recover() finalizes a running row from the log and queues a pending one.
Recover ==
    /\ ~up
    /\ up' = TRUE
    /\ CASE status = "running" ->
              /\ status' = IF LastOutcome = "ok" THEN "done" ELSE "failed"
              /\ err' = CASE LastOutcome = "ok"  -> err
                          [] LastOutcome = "bad" -> "claude"
                          [] OTHER               -> "interrupted"
              /\ recovered' = TRUE
              /\ UNCHANGED queued
         [] status = "pending" -> /\ queued' = TRUE
                                  /\ UNCHANGED <<status, err, recovered>>
         [] OTHER -> UNCHANGED <<status, err, queued, recovered>>
    /\ UNCHANGED <<code, cost, userVars, spc, sturn, ipc, reg, parked, procVars, log,
                   tailVars, pumpVars, startedAt, stops, pushes, raced>>

----------------------------------------------------------------------------
PumpStep == EventInit \/ ResultGet \/ ResultPatch \/ ResultPark \/ ExitBegin \/ ExitApply

Next ==
    \/ FollowUpQueued \/ InjectBegin \/ InjectLog \/ InjectState \/ InjectWrite
    \/ Kill
    \/ StartLog \/ StartSpawn \/ StartPublish \/ StartSidecar
    \/ BridgeInit \/ BridgeResult \/ BridgeThrow \/ BridgeExit \/ OrphanResult
    \/ Poll \/ PollFinal \/ PumpStep
    \/ Stop \/ Recover

Spec == Init /\ [][Next]_vars

----------------------------------------------------------------------------
(* Properties *)

Turn == 1..turns

\* Every variable stays in its range.
TypeOK ==
    /\ up \in BOOLEAN /\ status \in {"pending", "running"} \cup Terminal
    /\ err \in {"none", "claude", "crash", "interrupted"}
    /\ code \in {"none", "zero", "one"} /\ exit \in {"none", "zero", "one"}
    /\ msgs \in 1..MaxMsgs /\ cost \in Nat
    /\ turns \in Nat /\ queued \in BOOLEAN
    /\ spc \in {"off", "spawn", "publish", "sidecar"} /\ sturn \in 0..turns
    /\ ipc \in {"off", "log", "state", "write"}
    /\ proc \in {"none", "alive", "stopping", "exited"}
    /\ stdin \in Seq(Turn) /\ orphan \in Seq(Turn) /\ begun \in BOOLEAN
    /\ log \in Seq([kind : {"prompt", "init", "ok", "bad"}, turn : Turn])
    /\ read \in 0..Len(log) /\ saw \in BOOLEAN
    /\ chan \in SUBSET (1..Len(log)) /\ \A i \in chan : IsEvent(log[i])
    /\ reg \in BOOLEAN /\ parked \in BOOLEAN /\ hkill \in BOOLEAN /\ hparked \in BOOLEAN
    /\ hpc \in {"off", "listen", "patch", "park", "exit"}
    /\ startedAt \in 0..turns /\ pushes \in Seq(Turn)
    /\ recovered \in BOOLEAN /\ raced \in BOOLEAN /\ stops \in 0..MaxStops

\* The status on_exit decided is `done` exactly if the last turn was answered,
\* as long as no message was injected into a turn in progress.
OutcomeHonest ==
    hpc = "off" /\ code # "none" /\ status \in {"done", "failed"} /\ ~raced
        => (status = "done" <=> Answered(turns))

\* What recover() decides is `done` exactly if the last turn was answered, as long
\* as the sidecar knows that turn: a stale result of an earlier one never counts.
RecoverHonest ==
    recovered /\ status \in {"done", "failed"} /\ startedAt = turns /\ ~raced
        => (status = "done" <=> Answered(turns))

\* The finish-line push announces a turn once, whether by its result or by the exit
\* of the process. Only a second result of the turn (the query of a parked session
\* throws) announces it again.
PushOncePerTurn ==
    \A t \in Turn :
        LET n == Cardinality({i \in 1..Len(pushes) : pushes[i] = t}) IN
        n <= 1 \/ n <= Cardinality({i \in Results : log[i].turn = t})

\* Once the pump task is over, the cost of every result was added, exactly once,
\* over all the processes the session had.
CostCountsEveryResult ==
    hpc = "off" /\ spc = "off" /\ stops = 0 => cost = Cardinality(Results)

\* A turn that ended, and was neither stopped by the user nor injected into, was
\* announced: by its result or by the exit of the process, whichever came first.
EveryTurnAnnounced ==
    hpc = "off" /\ spc = "off" /\ code # "none" /\ status \in {"done", "failed"} /\ stops = 0 /\ ~raced
        => \E i \in 1..Len(pushes) : pushes[i] = turns

\* The last turn has begun.
Begun == \E i \in 1..Len(log) : log[i] = Line("init", turns)

\* runtime.rs: a crash on turn 2 yields exit code 1, not 0 from turn 1's success.
\* A turn injected while turn 1 runs is answered after saw_result was set again.
CrashIsAFailure ==
    hpc = "off" /\ ipc = "off" /\ spc = "off" /\ code = "zero" /\ stops = 0 /\ Begun
        => Answered(turns)

\* internals.md: recover() finalizes `done` if the last turn emitted a result. A turn
\* of a live session has no TurnStarted, so the result of an earlier one counts.
RecoveredFromTheLastTurn ==
    recovered /\ status = "done" /\ orphan = <<>> /\ Begun => Answered(turns)

=============================================================================
