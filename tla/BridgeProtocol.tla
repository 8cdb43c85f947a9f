--------------------------- MODULE BridgeProtocol ---------------------------
(* The conversation between the engine and the bridge of one session (sdk-bridge.mjs,       *)
(* engine/session/runtime.rs on_event, engine/runtime/sdk_runner.rs): tool calls that park  *)
(* until the user or the engine answers, lines on the bridge's stdin, lines of the log the  *)
(* engine tails, and what the engine remembers of them.                                     *)
(*                                                                                          *)
(* The agent behind the bridge is external: while it works on a turn it issues tool calls.  *)
(* At most one of its questions and permission requests is open at a time, which is what    *)
(* the bridge relies on (sdk-bridge.mjs:97); delegate calls may be open next to it.         *)
EXTENDS Naturals, Sequences, FiniteSets

CONSTANTS
    MaxCalls,       \* tool calls of a behaviour, issued in order
    Kinds,          \* what they may be, out of AllKinds
    MaxProcs, MaxTaps, MaxLines      \* bounds: processes, decisions of the user, other lines sent

Calls == 1..MaxCalls
AllKinds == {"ask", "perm", "delegate", "workflow", "agent", "plain"}

ASSUME BridgeAssumption ==
    /\ {MaxCalls, MaxProcs, MaxTaps, MaxLines} \subseteq Nat
    /\ Kinds \subseteq AllKinds

VARIABLES
    proc, alive,    \* number of the process, and whether it still runs
    inbox,          \* lines on its stdin
    queue, busy,    \* user turns the bridge holds; the agent works on one
    stopping,       \* q.interrupt() was called on this turn
    nudged,         \* workflowDenied
    slot,           \* ask.resolve and perm.resolve: the call that is parked there, or 0
    delegates,      \* request id -> call
    kind, st,       \* of a call
    log,            \* lines of the session log that the engine has not read yet
    live,           \* the engine has the session in `running`
    armed, parked,  \* pending_ask and pending_perm; the card shown with the session
    fifo, natives,  \* workflow_delegate_pending, workflow_native_ids
    spawns,         \* spawn_ids
    pr_seen,        \* the pull request of this model was announced
    fanouts,        \* delegate runs under way: <<process, request id, call>>
    links,          \* workflowRun markers: <<card, call whose run it names>>
    markers,        \* agent_result markers written for a call; 0 counts the pr cards
    by,             \* the card the user decided on, or the run that answered
    taps, lines     \* bounds

agent == <<queue, busy, stopping, nudged, kind, st>>
bridge == <<slot, delegates>>
cards == <<fifo, natives, spawns, pr_seen, links, markers>>
engine == <<armed, parked, cards>>
count == <<taps, lines>>
vars == <<proc, alive, inbox, agent, bridge, log, live, engine, fanouts, by, count>>

Open == {"called", "running", "parked"}
NoSlot == [ask |-> 0, perm |-> 0]

Init ==
    /\ proc = 0 /\ alive = FALSE /\ live = FALSE /\ inbox = <<>>
    /\ queue = 0 /\ busy = FALSE /\ stopping = FALSE /\ nudged = FALSE
    /\ slot = NoSlot /\ delegates = <<>>
    /\ kind = [c \in Calls |-> "none"] /\ st = [c \in Calls |-> "none"]
    /\ log = <<>>
    /\ armed = {} /\ parked = 0 /\ fifo = <<>> /\ natives = {} /\ spawns = {}
    /\ pr_seen = FALSE /\ links = {} /\ markers = [c \in {0} \cup Calls |-> 0]
    /\ fanouts = {} /\ by = [c \in Calls |-> 0] /\ taps = 0 /\ lines = 0

WriteLog(ls) == log' = log \o ls
Send(line) == inbox' = Append(inbox, line)

\* The calls of C end with this outcome.
Settle(C, outcome) == st' = [c \in Calls |-> IF c \in C THEN outcome ELSE st[c]]

-----------------------------------------------------------------------------
(* The bridge and the agent *)

\* Starting a process: a new bridge, with nothing parked and ids that start again at 1; the
\* first user turn is on its stdin.
StartProcess ==
    /\ ~live /\ proc < MaxProcs
    /\ proc' = proc + 1 /\ alive' = TRUE /\ live' = TRUE
    /\ inbox' = <<[type |-> "user"]>>
    /\ queue' = 0 /\ busy' = FALSE /\ stopping' = FALSE /\ nudged' = FALSE
    /\ slot' = NoSlot /\ delegates' = <<>>
    /\ UNCHANGED <<kind, st, log, engine, fanouts, by, count>>

\* The input generator: the agent takes the next user turn.
TakeTurn ==
    /\ alive /\ ~busy /\ queue > 0
    /\ queue' = queue - 1 /\ busy' = TRUE
    /\ UNCHANGED <<proc, alive, inbox, stopping, nudged, kind, st, bridge, log, live, engine,
                   fanouts, by, count>>

Blocked == \E c \in Calls : kind[c] \in {"ask", "perm"} /\ st[c] \in {"called", "parked"}

\* The agent issues its next call. A permission request is logged and parked in one go
\* (canUseTool); of the others the assistant's line comes first. The first Workflow of a turn
\* is denied (workflowHook).
Issue(c, k) ==
    /\ alive /\ busy /\ ~stopping
    /\ st[c] = "none" /\ \A d \in 1..(c - 1) : st[d] # "none"
    /\ k \in {"ask", "perm"} => ~Blocked
    /\ kind' = [kind EXCEPT ![c] = k]
    /\ st' = [st EXCEPT ![c] = CASE k = "perm" -> "parked" [] k \in {"ask", "delegate"} -> "called"
                                 [] k = "workflow" /\ ~nudged -> "denied" [] OTHER -> "running"]
    /\ nudged' = (nudged \/ k = "workflow")
    /\ slot' = IF k = "perm" THEN [slot EXCEPT !.perm = c] ELSE slot
    /\ WriteLog(<<[type |-> k, call |-> c]>> \o
                IF k = "workflow" /\ ~nudged THEN <<[type |-> "tool_result", call |-> c]>> ELSE <<>>)
    /\ UNCHANGED <<proc, alive, inbox, queue, busy, stopping, delegates, live, engine, fanouts,
                   by, count>>

\* canUseTool for AskUserQuestion.
ParkAsk(c) ==
    /\ alive /\ kind[c] = "ask" /\ st[c] = "called"
    /\ slot' = [slot EXCEPT !.ask = c]
    /\ Settle({c}, "parked")
    /\ UNCHANGED <<proc, alive, inbox, queue, busy, stopping, nudged, kind, delegates, log, live,
                   engine, fanouts, by, count>>

\* A request id that is not advanced for every call.
RequestIdOnce == IF delegates = <<>> THEN 1 ELSE Len(delegates)

\* ++delegSeq. (Ids are never used again: an answered one keeps its place as 0.)
RequestId == Len(delegates) + 1

\* The handler of the delegate tool: the request is logged and the call parked under its id.
\* Arguments that do not parse are rejected before the handler runs.
ParkDelegate(c) ==
    /\ alive /\ kind[c] = "delegate" /\ st[c] = "called"
    /\ \/ LET id == RequestId
          IN  /\ delegates' = IF id > Len(delegates) THEN Append(delegates, c)
                              ELSE [delegates EXCEPT ![id] = c]
              /\ WriteLog(<<[type |-> "request", call |-> c, id |-> id, proc |-> proc]>>)
              /\ Settle({c}, "parked")
       \/ Settle({c}, "denied") /\ UNCHANGED <<delegates, log>>
    /\ UNCHANGED <<proc, alive, inbox, queue, busy, stopping, nudged, kind, slot, live, engine,
                   fanouts, by, count>>

\* A tool that runs in the agent returns.
Return(c) ==
    /\ alive /\ st[c] = "running"
    /\ Settle({c}, "allowed")
    /\ WriteLog(<<[type |-> "tool_result", call |-> c]>>)
    /\ UNCHANGED <<proc, alive, inbox, queue, busy, stopping, nudged, kind, bridge, live, engine,
                   fanouts, by, count>>

\* The turn ends when its calls are done, or cut by the interrupt: what still waits then is
\* waiting for nobody.
EndTurn ==
    /\ alive /\ busy /\ (stopping \/ \A c \in Calls : st[c] \notin Open)
    /\ busy' = FALSE /\ stopping' = FALSE
    /\ Settle({c \in Calls : st[c] \in Open}, "stale")
    /\ WriteLog(<<[type |-> "result"]>>)
    /\ UNCHANGED <<proc, alive, inbox, queue, nudged, kind, bridge, live, engine, fanouts, by, count>>

-----------------------------------------------------------------------------
(* Lines on the bridge's stdin *)

Waiting == {delegates[i] : i \in DOMAIN delegates} \ {0}
Resolved(c, d) == IF c = 0 THEN <<>> ELSE <<[type |-> "resolved", call |-> c, decision |-> d]>>

\* A denial that leaves no line in the log.
DenyAllSilent(C, first) ==
    /\ Settle({c \in C : st[c] \in Open}, "denied")
    /\ slot' = NoSlot /\ delegates' = [i \in DOMAIN delegates |-> 0]
    /\ WriteLog(first)

\* The stranded question, denyPerm and failDelegates: everything parked is denied, and for a
\* permission the log says so.
DenyAll(C, first) ==
    /\ Settle({c \in C : st[c] \in Open}, "denied")
    /\ slot' = NoSlot /\ delegates' = [i \in DOMAIN delegates |-> 0]
    /\ WriteLog(first \o Resolved(slot.perm, "deny"))

Parked == ({slot.ask, slot.perm} \cup Waiting) \ {0}

ReadInterrupt(line) ==
    /\ line.type = "interrupt"
    /\ DenyAll(Parked, <<>>)
    /\ stopping' = busy
    /\ UNCHANGED <<queue, nudged, by>>

ReadDelegate(line) ==
    /\ line.type = "delegate"
    /\ LET c == IF line.id \in DOMAIN delegates THEN delegates[line.id] ELSE 0
       IN  IF c = 0 THEN UNCHANGED <<delegates, st, by>>
           ELSE /\ delegates' = [delegates EXCEPT ![line.id] = 0]
                /\ Settle({c}, IF st[c] = "parked" THEN "allowed" ELSE st[c])
                /\ by' = [by EXCEPT ![c] = line.call]
    /\ UNCHANGED <<slot, queue, stopping, nudged, log>>

\* The decision is for whatever is parked now.
ReadPerm(line) ==
    /\ line.type = "perm"
    /\ LET c == slot.perm
       IN  /\ slot' = [slot EXCEPT !.perm = 0]
           /\ WriteLog(Resolved(c, line.decision))
           /\ IF c = 0 THEN UNCHANGED <<st, by>>
              ELSE /\ Settle({c}, IF line.decision = "allow" THEN "running" ELSE "denied")
                   /\ by' = [by EXCEPT ![c] = line.call]
    /\ UNCHANGED <<delegates, queue, stopping, nudged>>

\* A user's message is the answer to the question that is parked, else the next turn.
ReadUser(line) ==
    /\ line.type = "user"
    /\ IF slot.ask # 0
       THEN /\ Settle({slot.ask} , IF st[slot.ask] = "parked" THEN "running" ELSE st[slot.ask])
            /\ slot' = [slot EXCEPT !.ask = 0]
            /\ UNCHANGED <<queue, nudged>>
       ELSE /\ queue' = queue + 1 /\ nudged' = FALSE
            /\ UNCHANGED <<slot, st>>
    /\ UNCHANGED <<delegates, stopping, log, by>>

ReadLine ==
    /\ alive /\ inbox # <<>>
    /\ inbox' = Tail(inbox)
    /\ LET line == Head(inbox)
       IN  ReadInterrupt(line) \/ ReadDelegate(line) \/ ReadPerm(line) \/ ReadUser(line)
    /\ UNCHANGED <<proc, alive, busy, kind, live, engine, fanouts, count>>

\* The process ends: stopped, at a query that throws, or at the end of its input it denies
\* what is parked; killed, it does not.
Exit ==
    /\ alive /\ alive' = FALSE /\ inbox' = <<>> /\ busy' = FALSE /\ stopping' = FALSE /\ queue' = 0
    /\ \/ \E error \in {<<>>, <<[type |-> "result"]>>} : DenyAll({c \in Calls : st[c] \in Open}, error)
       \/ /\ Settle({c \in Calls : st[c] \in Open}, "stale")
          /\ slot' = NoSlot /\ delegates' = <<>> /\ UNCHANGED log
    /\ UNCHANGED <<proc, nudged, kind, live, engine, fanouts, by, count>>

-----------------------------------------------------------------------------
(* The engine reads the log: on_event *)

OnAsk(e) ==
    /\ e.type = "ask"
    /\ armed' = armed \cup {"ask"} /\ parked' = e.call
    /\ UNCHANGED <<cards, fanouts>>

OnPerm(e) ==
    /\ e.type = "perm"
    /\ armed' = armed \cup {"perm"} /\ parked' = e.call
    /\ UNCHANGED <<cards, fanouts>>

OnPermResolved(e) ==
    /\ e.type = "resolved"
    /\ armed' = armed \ {"perm"} /\ parked' = 0
    /\ UNCHANGED <<cards, fanouts>>

OnResult(e) ==
    /\ e.type = "result"
    /\ armed' = {} /\ parked' = 0
    /\ UNCHANGED <<cards, fanouts>>

\* Workflow and Agent: the ids of the cards are remembered.
OnCard(e) ==
    /\ e.type \in {"delegate", "workflow", "agent", "plain"}
    /\ fifo' = IF e.type = "delegate" THEN Append(fifo, e.call) ELSE fifo
    /\ natives' = IF e.type = "workflow" THEN natives \cup {e.call} ELSE natives
    /\ spawns' = IF e.type = "agent" THEN spawns \cup {e.call} ELSE spawns
    /\ UNCHANGED <<armed, parked, pr_seen, links, markers, fanouts>>

\* DelegateRequest: the oldest card is taken for the card of this request, and the run starts
\* in a task of its own.
OnRequest(e) ==
    /\ e.type = "request"
    /\ fifo' = IF fifo = <<>> THEN fifo ELSE Tail(fifo)
    /\ links' = IF fifo = <<>> THEN links ELSE links \cup {<<Head(fifo), e.call>>}
    /\ fanouts' = fanouts \cup {<<e.proc, e.id, e.call>>}
    /\ UNCHANGED <<armed, parked, natives, spawns, pr_seen, markers>>

\* The marker without the test of where the event came from.
MarkerAny(e) ==
    IF e.type \in {"tool_result", "agent_result"} /\ e.call \in spawns
    THEN <<[type |-> "agent_result", call |-> e.call]>> ELSE <<>>

\* The result of a spawn is written once more, as a marker the transcript keeps. The marker is
\* read back as the same event and must not be written again.
Marker(e) ==
    IF e.type = "tool_result" /\ e.call \in spawns
    THEN <<[type |-> "agent_result", call |-> e.call]>> ELSE <<>>

\* AgentResult: the result of a Workflow is linked to its card, that of a plain tool may name
\* a new pull request (one and the same, in this model).
OnToolResult(e) ==
    /\ e.type \in {"tool_result", "agent_result"}
    /\ LET pr == /\ e.call \notin spawns \cup natives
                 /\ kind[e.call] = "plain" /\ ~pr_seen
       IN  /\ pr_seen' = (pr_seen \/ pr)
           /\ markers' = [c \in DOMAIN markers |->
                            markers[c] + (IF c = 0 /\ pr THEN 1 ELSE 0)
                                       + (IF c = e.call THEN Len(Marker(e)) ELSE 0)]
    /\ natives' = natives \ {e.call}
    /\ links' = IF e.call \in natives /\ st[e.call] = "allowed"
                THEN links \cup {<<e.call, e.call>>} ELSE links
    /\ UNCHANGED <<armed, parked, fifo, spawns, fanouts>>

TailLog ==
    /\ live /\ log # <<>>
    /\ LET e == Head(log)
       IN  /\ OnAsk(e) \/ OnPerm(e) \/ OnPermResolved(e) \/ OnResult(e)
              \/ OnCard(e) \/ OnRequest(e) \/ OnToolResult(e)
           /\ log' = Tail(log) \o Marker(e)
    /\ UNCHANGED <<proc, alive, inbox, agent, bridge, live, by, count>>

\* A run is over, within its deadline: the answer goes to the process the session has now.
FanoutDone(f) ==
    /\ f \in fanouts /\ fanouts' = fanouts \ {f}
    /\ IF live /\ alive THEN Send([type |-> "delegate", id |-> f[2], call |-> f[3]])
       ELSE UNCHANGED inbox
    /\ UNCHANGED <<proc, alive, agent, bridge, log, live, engine, by, count>>

\* on_exit, after the last line.
OnExit ==
    /\ live /\ ~alive /\ log = <<>>
    /\ live' = FALSE /\ armed' = {} /\ parked' = 0
    /\ UNCHANGED <<proc, alive, inbox, agent, bridge, log, cards, fanouts, by, count>>

-----------------------------------------------------------------------------
(* The user *)

\* follow_up on a live session, interrupt: the card is taken down and a line sent. A follow_up
\* looks up the sessions it mentions between the two, which is one step here: a card that comes
\* up meanwhile is not told apart from one that comes up after the line.
UserLine(type) ==
    /\ live /\ lines < MaxLines /\ lines' = lines + 1
    /\ armed' = {} /\ parked' = 0
    /\ IF alive THEN Send([type |-> type]) ELSE UNCHANGED inbox
    /\ UNCHANGED <<proc, alive, agent, bridge, log, live, cards, fanouts, by, taps>>

\* respond_permission: the user decides on a card the client has, which may be decided already.
Tap(c, d) ==
    /\ live /\ taps < MaxTaps /\ taps' = taps + 1
    /\ kind[c] = "perm" /\ \A i \in DOMAIN log : log[i] # [type |-> "perm", call |-> c]
    /\ armed' = armed \ {"perm"} /\ parked' = 0
    /\ IF alive THEN Send([type |-> "perm", call |-> c, decision |-> d]) ELSE UNCHANGED inbox
    /\ UNCHANGED <<proc, alive, agent, bridge, log, live, cards, fanouts, by, lines>>

Next ==
    \/ StartProcess \/ TakeTurn \/ EndTurn \/ ReadLine \/ Exit \/ TailLog \/ OnExit
    \/ \E c \in Calls :
        \/ \E k \in Kinds : Issue(c, k)
        \/ ParkAsk(c) \/ ParkDelegate(c) \/ Return(c)
        \/ \E d \in {"allow", "deny"} : Tap(c, d)
    \/ \E f \in fanouts : FanoutDone(f)
    \/ \E type \in {"user", "interrupt"} : UserLine(type)

\* The loops of the two processes go on, and a run ends within its deadline (Delegate).
Fairness ==
    /\ WF_vars(ReadLine) /\ WF_vars(TailLog)
    /\ \A p \in 1..MaxProcs, i, c \in Calls : WF_vars(FanoutDone(<<p, i, c>>))

Spec == Init /\ [][Next]_vars /\ Fairness

-----------------------------------------------------------------------------
(* What must hold *)

\* The marker of a subagent's result, and a pull request's card, are written once although
\* the engine reads its own lines back (runtime.rs:874: "an unbounded loop").
OncePerResult == \A c \in DOMAIN markers : markers[c] <= 1

\* Once both sides have read everything, a permission card shown with the session is one the
\* bridge still waits on, and a session between two turns shows none (records.rs:109).
CardHonest ==
    live /\ alive /\ log = <<>> /\ inbox = <<>> =>
        /\ "perm" \in armed => slot.perm # 0
        /\ ~busy => armed = {} /\ parked = 0

\* Every delegate call the bridge has parked is answered or denied: its turn never hangs on it
\* (sdk-bridge.mjs:184), whichever requests are open next to it.
DelegateReturns ==
    \A c \in Calls : (kind[c] = "delegate" /\ st[c] = "parked") ~> (st[c] # "parked")

\* sdk_runner.rs:127: "Only one request is ever parked, so no id is needed." A decision sent
\* twice decides the next card.
DecisionForItsCard == \A c \in Calls : kind[c] = "perm" /\ by[c] # 0 => by[c] = c

\* runtime.rs:591: "cards and requests are 1:1 and in order within a turn". A call rejected
\* before its handler leaves a card that the next request takes.
LinkIsItsOwn == \A l \in links : l[1] = l[2]

\* records.rs:109: "the wire payload of the prompt this session is currently PARKED on". A
\* message sent while a permission is parked takes its card down (submit.rs:441).
ParkedIsOffered ==
    live /\ alive /\ log = <<>> /\ inbox = <<>> /\ slot.perm # 0 => parked = slot.perm
=============================================================================
