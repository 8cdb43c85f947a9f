----------------------------- MODULE AutoResume -----------------------------
(***************************************************************************)
(* The auto-resume scheduler (session/auto_resume.rs): a session whose     *)
(* turn hit the usage limit gets a schedule on its row, and once the       *)
(* schedule is due the scheduler claims it and sends a follow-up.  One     *)
(* session, the callers that race on it, its process, and restarts.        *)
(*                                                                         *)
(* A tick and a call run one await after the other; every await ends a     *)
(* step.  Instants are kept as the minutes left until them, so that time   *)
(* needs no bound; an instant that has passed stays at 0.                  *)
(***************************************************************************)
EXTENDS Integers, SessionStatus

CONSTANTS
    Ticker,         \* concurrent passes of the scheduler
    User,           \* the user's calls
    MaxReset,       \* bound on the minutes until a limit ends
    Fallback,       \* AUTO_RESUME_FALLBACK_MS
    MaxCalls,       \* bound on the calls of users
    MaxLimits,      \* bound on the turns that hit the limit
    MaxRestarts     \* bound on restarts

ASSUME ResumeAssumption ==
    /\ MaxReset \in Nat \ {0}
    /\ Fallback \in Nat /\ Fallback > 1     \* longer than the call that asks for the usage
    /\ MaxCalls \in Nat /\ MaxLimits \in Nat /\ MaxRestarts \in Nat
    /\ Ticker \cap User = {}

Later(a, b) == IF a > b THEN a ELSE b
Sooner(t) == IF t > 0 THEN t - 1 ELSE t

Caller == Ticker \cup User
None == -1
Buffer == 1         \* AUTO_RESUME_BUFFER_MS

VARIABLES
    row,        \* the columns status, errorKind, autoResumeAt and autoResume
    proc,       \* the process: none, in a turn, parked awaiting input, stopping
    exiting,    \* on_exit removed the turn and has not written the row yet
    delegating, \* pending_delegate: a delegate run of the parked turn still works
    queue,      \* queued items of the session
    resetAt,    \* when the account's limit ends (0: no limit)
    epoch,      \* the reset instant in the error text, or None
    pc, snap, age, target,      \* of a caller: place, schedule read, minutes since then, reset found
    calls, limits, restarts,
    owners,     \* passes that claimed the schedule of the last limit error
    fired,      \* resumes they have sent
    stopped     \* the user's last completed wish is that the session stays stopped

proc_vars == <<proc, exiting, delegating, queue>>
env_vars == <<resetAt, epoch>>
call_vars == <<pc, snap, age, target>>
bound_vars == <<calls, limits, restarts>>
history == <<owners, fired, stopped>>
vars == <<row, proc_vars, env_vars, call_vars, bound_vars, history>>

\* The longest delay is that of a schedule.
Instant == {None} \cup 0..(Later(MaxReset + Buffer, Fallback))
Kind == {"none", "usage_limit", "other"}
ResumeRow == [st : Status, kind : Kind, at : Instant, auto : BOOLEAN]
Place == {"idle", "usage", "schedule", "claim",
          "get", "live", "inject", "pending", "patch", "push",
          "kill", "killcheck", "stop"}

TypeOK ==
    /\ row \in ResumeRow
    /\ proc \in {"none", "turn", "parked", "stopping"}
    /\ exiting \in BOOLEAN /\ delegating \in BOOLEAN
    /\ queue \in Nat
    /\ resetAt \in 0..MaxReset /\ epoch \in {None} \cup 0..MaxReset
    /\ pc \in [Caller -> Place] /\ snap \in [Caller -> Instant]
    /\ age \in [Caller -> 0..1] /\ target \in [Caller -> {None} \cup 0..MaxReset]
    /\ calls \in 0..MaxCalls /\ limits \in 0..MaxLimits /\ restarts \in 0..MaxRestarts
    /\ owners \subseteq Ticker /\ fired \in Nat /\ stopped \in BOOLEAN

\* A session at work, as after its first prompt.
Init ==
    /\ row = [st |-> "running", kind |-> "none", at |-> None, auto |-> TRUE]
    /\ proc = "turn" /\ exiting = FALSE /\ delegating = FALSE /\ queue = 0
    /\ resetAt = 0 /\ epoch = None
    /\ pc = [c \in Caller |-> "idle"] /\ snap = [c \in Caller |-> None]
    /\ age = [c \in Caller |-> 0] /\ target = [c \in Caller |-> None]
    /\ calls = 0 /\ limits = 0 /\ restarts = 0
    /\ owners = {} /\ fired = 0 /\ stopped = FALSE

At(c, p) == pc[c] = p
Goto(c, p) == pc' = [pc EXCEPT ![c] = p]
\* A call that ended keeps nothing of what it read.
Return(c) ==
    /\ Goto(c, "idle")
    /\ snap' = [snap EXCEPT ![c] = None]
    /\ age' = [age EXCEPT ![c] = 0] /\ target' = [target EXCEPT ![c] = None]

(***************************************************************************)
(* The tick.                                                               *)
(***************************************************************************)

\* A scheduler that looks at ended sessions only.
EligibleEndedOnly ==
    /\ row.auto /\ row.kind = "usage_limit"
    /\ row.st \in {"failed", "done"}

Eligible ==
    /\ row.auto /\ row.kind = "usage_limit"
    /\ \/ row.st \in {"failed", "done"}
       \/ row.st = "running" /\ proc = "parked" /\ ~delegating

\* store.list() and the eligibility test; the reset instant comes from the error
\* text, or else from the usage endpoint.
TickList(c) ==
    /\ At(c, "idle") /\ Eligible
    /\ \/ row.at = None /\ Goto(c, IF epoch # None THEN "schedule" ELSE "usage")
       \/ row.at = 0 /\ Goto(c, "claim")
    /\ snap' = [snap EXCEPT ![c] = row.at]
    /\ target' = [target EXCEPT ![c] = epoch]
    /\ UNCHANGED <<row, proc_vars, env_vars, age, bound_vars, history>>

\* fetch_usage_json(): the window that is exhausted, or nothing (error, timeout).
TickUsage(c) ==
    /\ At(c, "usage")
    /\ \E t \in {None, resetAt} \ {0} : target' = [target EXCEPT ![c] = t]
    /\ Goto(c, "schedule")
    /\ UNCHANGED <<row, proc_vars, env_vars, snap, age, bound_vars, history>>

\* A minute after the reset (after now, if it has passed), or the fallback from the
\* instant the tick began.
ResumeAt(c) ==
    IF target[c] = None THEN Fallback - age[c] ELSE target[c] + Buffer

\* The conditions of the two UPDATEs of the store: the row is still in the error, and
\* has no schedule, or the one the caller saw.
ScheduleLands == row.at = None /\ row.kind = "usage_limit"
ClaimWins(c) == row.at = snap[c] /\ row.kind = "usage_limit"

TickSchedule(c) ==
    /\ At(c, "schedule")
    /\ row' = IF ScheduleLands THEN [row EXCEPT !.at = ResumeAt(c)] ELSE row
    /\ Return(c)
    /\ UNCHANGED <<proc_vars, env_vars, bound_vars, history>>

\* A claim that does not look at the row.
TickClaimBlind(c) ==
    /\ At(c, "claim")
    /\ row' = [row EXCEPT !.at = None]
    /\ owners' = owners \cup {c}
    /\ Goto(c, "get")
    /\ UNCHANGED <<snap, age, target, proc_vars, env_vars, bound_vars, fired, stopped>>

\* One claimer clears the schedule it saw and sends the prompt.
TickClaim(c) ==
    /\ At(c, "claim")
    /\ \/ /\ ClaimWins(c)
          /\ row' = [row EXCEPT !.at = None]
          /\ owners' = owners \cup {c}
          /\ Goto(c, "get") /\ UNCHANGED <<snap, age, target>>
       \/ /\ ~ClaimWins(c)
          /\ Return(c) /\ UNCHANGED <<row, owners>>
    /\ UNCHANGED <<proc_vars, env_vars, bound_vars, fired, stopped>>

(***************************************************************************)
(* follow_up(), sent by the scheduler or by a user.                        *)
(***************************************************************************)

UserCall(c, p) ==
    /\ At(c, "idle") /\ calls < MaxCalls
    /\ calls' = calls + 1 /\ Goto(c, p)
    /\ UNCHANGED <<row, proc_vars, env_vars, snap, age, target, limits, restarts, history>>

UserFollowUp(c) == UserCall(c, "get")

Busy == proc # "none" \/ queue > 0 \/ row.st \in {"pending", "running"}

\* The row, the live branch or not, and is_busy, read together.
FollowUpGet(c) ==
    /\ At(c, "get")
    /\ \/ proc # "none" /\ Goto(c, "live") /\ UNCHANGED <<snap, age, target>>
       \/ proc = "none" /\ ~Busy /\ Goto(c, "pending") /\ UNCHANGED <<snap, age, target>>
       \/ proc = "none" /\ Busy /\ Return(c)
    /\ UNCHANGED <<row, proc_vars, env_vars, bound_vars, history>>

\* The live branch: the patch clears the error and the schedule.
FollowUpLive(c) ==
    /\ At(c, "live") /\ Goto(c, "inject")
    /\ row' = [row EXCEPT !.kind = "none", !.at = None]
    /\ UNCHANGED <<proc_vars, env_vars, snap, age, target, bound_vars, history>>

Sent(c) ==
    /\ fired' = IF c \in owners THEN fired + 1 ELSE fired
    /\ stopped' = IF c \in User THEN FALSE ELSE stopped
    /\ UNCHANGED owners

\* awaiting := false and the message is written; a process that is gone drops it.
FollowUpInject(c) ==
    /\ At(c, "inject") /\ Return(c)
    /\ proc' = IF proc = "parked" THEN "turn" ELSE proc
    /\ Sent(c)
    /\ UNCHANGED <<row, exiting, delegating, queue, env_vars, bound_vars>>

\* The queued branch: transition(FollowUpQueued), then the patch, then the queue.
FollowUpPending(c) ==
    /\ At(c, "pending") /\ Goto(c, "patch")
    /\ row' = IF row.st \in Terminal THEN [row EXCEPT !.st = "pending", !.kind = "none"]
              ELSE row
    /\ UNCHANGED <<proc_vars, env_vars, snap, age, target, bound_vars, history>>

FollowUpPatch(c) ==
    /\ At(c, "patch") /\ Goto(c, "push")
    /\ row' = [row EXCEPT !.kind = "none", !.at = None]
    /\ UNCHANGED <<proc_vars, env_vars, snap, age, target, bound_vars, history>>

FollowUpPush(c) ==
    /\ At(c, "push") /\ Return(c)
    /\ queue' = queue + 1
    /\ Sent(c)
    /\ UNCHANGED <<row, proc, exiting, delegating, env_vars, bound_vars>>

(***************************************************************************)
(* kill() and the PATCH of the toggle.                                     *)
(***************************************************************************)

UserKill(c) == UserCall(c, "kill")

\* A scheduled resume is cancelled in every state.
KillCancel(c) ==
    /\ At(c, "kill") /\ Goto(c, "killcheck")
    /\ row' = [row EXCEPT !.at = None]
    /\ UNCHANGED <<proc_vars, env_vars, snap, age, target, bound_vars, history>>

\* Running: the row first, then the process.  Otherwise the queue is emptied and a
\* pending row is killed.
KillCheck(c) ==
    /\ At(c, "killcheck")
    /\ \/ proc # "none" /\ Goto(c, "stop") /\ UNCHANGED <<queue, snap, age, target, history>>
       \/ proc = "none" /\ queue' = 0 /\ Return(c) /\ stopped' = TRUE
          /\ UNCHANGED <<owners, fired>>
    /\ row' = IF Legal(row.st, "killed") /\ (proc # "none" \/ row.st = "pending")
              THEN [row EXCEPT !.st = "killed", !.kind = "none"] ELSE row
    /\ UNCHANGED <<proc, exiting, delegating, env_vars, bound_vars>>

KillStop(c) ==
    /\ At(c, "stop") /\ Return(c)
    /\ proc' = IF proc = "none" THEN "none" ELSE "stopping"
    /\ stopped' = TRUE
    /\ UNCHANGED <<row, exiting, delegating, queue, env_vars, bound_vars, owners, fired>>

\* Turning the toggle off clears the schedule; turning it on leaves it alone.
PatchToggle ==
    /\ calls < MaxCalls /\ calls' = calls + 1
    /\ row' = [row EXCEPT !.auto = ~row.auto, !.at = IF row.auto THEN None ELSE row.at]
    /\ UNCHANGED <<proc_vars, env_vars, call_vars, limits, restarts, history>>

(***************************************************************************)
(* Turns.                                                                  *)
(***************************************************************************)

\* pump() and start(): a killed row starts nothing; `running` is written over `pending`
\* only, and clears the error.  A second queued item replaces the registered turn.
StartTurn ==
    /\ queue > 0 /\ queue' = queue - 1
    /\ proc' = IF row.st = "killed" THEN proc ELSE "turn"
    /\ row' = IF row.st = "pending" THEN [row EXCEPT !.st = "running", !.kind = "none"] ELSE row
    /\ UNCHANGED <<exiting, delegating, env_vars, call_vars, bound_vars, history>>

\* A result: the error of a killed session is not recorded; the turn parks.
Result(kind) ==
    /\ proc = "turn" /\ proc' = "parked"
    /\ row' = IF kind = "none" \/ row.st = "killed" THEN row ELSE [row EXCEPT !.kind = kind]
    /\ delegating' \in BOOLEAN
    /\ UNCHANGED <<exiting, queue>>

ResultOk ==
    /\ resetAt = 0 /\ Result("none")
    /\ UNCHANGED <<env_vars, call_vars, bound_vars, history>>

\* The account is exhausted: the turn fails, with or without the instant in its text.
ResultLimit ==
    /\ Result("usage_limit")
    /\ \/ resetAt > 0 /\ UNCHANGED <<resetAt, limits>>
       \/ /\ resetAt = 0 /\ limits < MaxLimits /\ limits' = limits + 1
          /\ resetAt' \in 1..MaxReset
    /\ epoch' \in {None, resetAt'}
    /\ owners' = {} /\ fired' = 0
    /\ UNCHANGED <<call_vars, calls, restarts, stopped>>

DelegateEnds ==
    /\ delegating /\ delegating' = FALSE
    /\ UNCHANGED <<row, proc, exiting, queue, env_vars, call_vars, bound_vars, history>>

\* tick_watchdog reaps a parked session: failed when it shows an error, then stop().
IdleReap ==
    /\ proc = "parked" /\ ~delegating /\ row.st = "running"
    /\ proc' = "stopping"
    /\ row' = [row EXCEPT !.st = IF row.kind = "none" THEN "done" ELSE "failed"]
    /\ UNCHANGED <<exiting, delegating, queue, env_vars, call_vars, bound_vars, history>>

\* The process ends and on_exit forgets the turn ...
ProcExit ==
    /\ proc # "none" /\ proc' = "none"
    /\ exiting' = TRUE /\ delegating' = FALSE
    /\ UNCHANGED <<row, queue, env_vars, call_vars, bound_vars, history>>

\* ... and writes the outcome.
ExitApply ==
    /\ exiting /\ exiting' = FALSE
    /\ \E code \in {0, 1} :
           LET st == ExitStatus(row.st, row.kind # "none", code = 0)
               kind == IF st = "killed" THEN "none"
                       ELSE IF st = "failed" /\ row.kind = "none" THEN "other" ELSE row.kind
           IN  row' = [row EXCEPT !.st = st, !.kind = kind]
    /\ UNCHANGED <<proc, delegating, queue, env_vars, call_vars, bound_vars, history>>

\* The outcome of the current turn by the log: that of a parked turn; of a turn at
\* work none, or that of the turn before (an injected turn starts without a mark).
LoggedKind == IF proc = "parked" THEN {row.kind} ELSE {row.kind, "other"}

\* The server stops anywhere; recover() reads the outcome of the current turn from
\* the log and queues a pending row again.
Restart ==
    /\ restarts < MaxRestarts /\ restarts' = restarts + 1
    /\ \E kind \in LoggedKind :
           row' = IF row.st # "running" THEN row
                  ELSE [row EXCEPT !.st = IF kind = "none" THEN "done" ELSE "failed",
                                   !.kind = kind]
    /\ proc' = "none" /\ exiting' = FALSE /\ delegating' = FALSE
    /\ queue' = IF row.st = "pending" THEN 1 ELSE 0
    /\ pc' = [c \in Caller |-> "idle"]
    /\ snap' = [c \in Caller |-> None]
    /\ age' = [c \in Caller |-> 0] /\ target' = [c \in Caller |-> None]
    /\ owners' = {}
    /\ UNCHANGED <<env_vars, calls, limits, fired, stopped>>

\* A minute passes; a call takes less, and a fetch of the usage ends in ten seconds.
Clock ==
    /\ \A c \in Caller : pc[c] = "idle" \/ (pc[c] = "usage" /\ age[c] = 0)
    /\ age' = [c \in Caller |-> IF pc[c] = "usage" THEN 1 ELSE 0]
    /\ resetAt' = Sooner(resetAt) /\ epoch' = Sooner(epoch)
    /\ row' = [row EXCEPT !.at = Sooner(row.at)]
    /\ UNCHANGED <<proc_vars, pc, snap, target, bound_vars, history>>

FollowUpStep(c) ==
    \/ FollowUpGet(c) \/ FollowUpLive(c) \/ FollowUpInject(c)
    \/ FollowUpPending(c) \/ FollowUpPatch(c) \/ FollowUpPush(c)
TickStep(c) == TickList(c) \/ TickUsage(c) \/ TickSchedule(c) \/ TickClaim(c)
KillStep(c) == KillCancel(c) \/ KillCheck(c) \/ KillStop(c)

Next ==
    \/ \E c \in Ticker : TickStep(c) \/ FollowUpStep(c)
    \/ \E c \in User : UserFollowUp(c) \/ UserKill(c) \/ FollowUpStep(c) \/ KillStep(c)
    \/ PatchToggle
    \/ StartTurn \/ ResultOk \/ ResultLimit \/ DelegateEnds \/ IdleReap
    \/ ProcExit \/ ExitApply
    \/ Restart \/ Clock

Spec == Init /\ [][Next]_vars

(***************************************************************************)
(* The scheduler ticks, calls go on, a turn is started, a turn ends with a *)
(* result or an exit (the watchdog cancels an idle one), a stopped process *)
(* exits, time passes.                                                     *)
(***************************************************************************)
Fairness ==
    /\ \A c \in Ticker : WF_vars(TickStep(c)) /\ WF_vars(FollowUpStep(c))
    /\ \A c \in User : WF_vars(FollowUpStep(c) \/ KillStep(c))
    /\ WF_vars(ResultOk \/ ResultLimit \/ (proc = "turn" /\ ProcExit))
    /\ WF_vars(StartTurn) /\ WF_vars(ExitApply) /\ WF_vars(DelegateEnds)
    /\ WF_vars(proc = "stopping" /\ ProcExit)
    /\ WF_vars(Clock)

FairSpec == Spec /\ Fairness

-----------------------------------------------------------------------------

\* A limit error is answered by at most one resume, however many passes of the
\* scheduler overlap and whatever users and restarts do (auto_resume.rs:277).
OneResumePerEpisode == fired <= 1

\* A session blocked by the limit does not stay blocked: it is resumed, or its user
\* sends a message, stops it or turns the toggle off (auto_resume.rs:1-24).
BlockedIsResumed ==
    (row.kind = "usage_limit" /\ row.auto) ~> (row.kind # "usage_limit" \/ ~row.auto)

\* No pass of the scheduler takes up a session after the user stopped it and before the
\* user writes again (submit.rs:858, "killing an already-FAILED usage-limited session";
\* tests/auto_resume.rs:269, "kill() must still cancel the schedule").
StoppedIsNotTakenUp == [][~ \E c \in Ticker : stopped /\ TickList(c)]_vars
=============================================================================
