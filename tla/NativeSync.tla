----------------------------- MODULE NativeSync -----------------------------
(***************************************************************************)
(* One session whose claude transcript has two writers (native_sync.rs and *)
(* the reclaim of follow_up): the process of the server, and the `claude   *)
(* --resume` of a terminal it was handed to.  The native transcript is the *)
(* complete record; what the clients see is the rendered log, into which   *)
(* the terminal's part is imported from a watermark on.                    *)
(*                                                                         *)
(* A line is a pair <<writer, kind>> under an identity, its position in    *)
(* the order of all writing; `at` of a prompt is that identity too.  Own   *)
(* lines reach the rendered log with the process's events, so a line of    *)
(* the process enters both files here in one step.  Of the rendered log    *)
(* only how often it holds a line matters.                                 *)
(***************************************************************************)
EXTENDS Integers, Sequences, FiniteSets, Functions, SessionStatus

CONSTANTS
    Sender,         \* concurrent calls of follow_up
    Detacher,       \* concurrent calls of detach_session
    MaxLines,       \* bound on the lines written
    MaxCalls,       \* bound on the calls
    MaxCrashes,     \* bound on the crashes
    MaxLoss,        \* bound on the times the transcript is moved away
    MaxFresh        \* bound on the resumes the gate refuses though the file is there

ASSUME SyncAssumption ==
    /\ Sender \cap Detacher = {} /\ "none" \notin Sender \cup Detacher
    /\ {MaxLines, MaxCalls, MaxCrashes, MaxLoss, MaxFresh} \subseteq Nat
    /\ MaxLines > 0

Caller == Sender \cup Detacher
None == "none"
Unwritten == <<None, None>>
Larger(a, b) == IF a > b THEN a ELSE b
Ids == 1..MaxLines

VARIABLES
    row,        \* columns: status, detached, watermark, lastUserMessageAt
    process,    \* the process: none, turn, stopping
    native,     \* the transcript of the row's claude session: identities in order
    present,    \* the file is at its place
    made,       \* of each line ever written: its writer and kind, or None
    rendered,   \* the rendered log: how often it holds each line
    lock,       \* holder of the session's reconcile lock
    pc, seen, began, exists, batch,  \* of a call: place, row read, instant, file seen, lines read
    terminal,   \* a terminal runs `claude --resume`
    calls, crashes, losses, fresh,
    torn,       \* crashes between the append of an import and its watermark
    missed,     \* imports that found no file though their caller had seen it
    renewed     \* the watermark counts lines of a transcript the row has left

call_vars == <<pc, seen, began, exists, batch>>
files == <<native, present, made, rendered>>
bounds == <<calls, crashes, losses, fresh>>
history == <<torn, missed, renewed>>
sync_vars == <<row, process, files, lock, call_vars, terminal, bounds, history>>

Instant == 0..MaxLines
SyncRow == [st : Status, det : BOOLEAN, mark : Instant, last : Instant]
Blank == [st |-> "done", det |-> FALSE, mark |-> 0, last |-> 0]
NoBatch == [ids |-> {}, total |-> 0]
Kind == {"prompt", "reply", "meta"}
Place == {"idle", "recget", "reclock", "append", "mark", "bump", "clear", "queue",
          "kill", "count", "freeze", "flag"}

SyncTypeOK ==
    /\ row \in SyncRow /\ process \in {"none", "turn", "stopping"}
    /\ native \in Seq(Ids) /\ present \in BOOLEAN /\ rendered \in [Ids -> Nat]
    /\ made \in [Ids -> {Unwritten} \cup ({"own", "term"} \X Kind)]
    /\ lock \in Caller \cup {None}
    /\ pc \in [Caller -> Place] /\ seen \in [Caller -> SyncRow] /\ began \in [Caller -> Instant]
    /\ exists \in [Caller -> BOOLEAN]
    /\ batch \in [Caller -> [ids : SUBSET Ids, total : Instant]]
    /\ terminal \in BOOLEAN
    /\ calls \in 0..MaxCalls /\ crashes \in 0..MaxCrashes
    /\ losses \in 0..MaxLoss /\ fresh \in 0..MaxFresh
    /\ torn \in 0..MaxCrashes /\ missed \in Nat /\ renewed \in BOOLEAN

\* The clock: the identity of the newest line.
Now == Cardinality({ i \in Ids : made[i] # Unwritten })

\* An idle session with one line, which is imported.
SyncInit ==
    /\ row = [Blank EXCEPT !.mark = 1, !.last = 1]
    /\ process = "none" /\ native = <<1>> /\ present = TRUE /\ rendered = [i \in Ids |-> IF i = 1 THEN 1 ELSE 0]
    /\ made = [i \in Ids |-> IF i = 1 THEN <<"term", "prompt">> ELSE Unwritten]
    /\ lock = None /\ pc = [c \in Caller |-> "idle"]
    /\ seen = [c \in Caller |-> Blank] /\ began = [c \in Caller |-> 0]
    /\ exists = [c \in Caller |-> FALSE] /\ batch = [c \in Caller |-> NoBatch]
    /\ terminal = FALSE /\ calls = 0 /\ crashes = 0 /\ losses = 0 /\ fresh = 0
    /\ torn = 0 /\ missed = 0 /\ renewed = FALSE

At(c, p) == pc[c] = p
Goto(c, p) == pc' = [pc EXCEPT ![c] = p]
Idle(C) == \A c \in C : At(c, "idle")
Write(writer, kind) ==
    /\ Now < MaxLines
    /\ made' = [made EXCEPT ![Now + 1] = <<writer, kind>>]
    /\ native' = Append(native, Now + 1)
\* The rendered log gains these lines.
Shows(ids) == rendered' = [i \in Ids |-> IF i \in ids THEN rendered[i] + 1 ELSE rendered[i]]
\* A call that ended keeps nothing of what it read.
Return(c) ==
    /\ Goto(c, "idle") /\ seen' = [seen EXCEPT ![c] = Blank] /\ began' = [began EXCEPT ![c] = 0]
    /\ exists' = [exists EXCEPT ![c] = FALSE] /\ batch' = [batch EXCEPT ![c] = NoBatch]
Begin(c, place) ==
    /\ At(c, "idle") /\ calls < MaxCalls /\ calls' = calls + 1
    /\ seen' = [seen EXCEPT ![c] = row] /\ began' = [began EXCEPT ![c] = Now]
    /\ Goto(c, place)

(***************************************************************************)
(* follow_up.  The user leaves the terminal before writing in a client.    *)
(***************************************************************************)

\* A live turn takes the message: no reclaim.
FollowLive(c) ==
    /\ ~terminal /\ process = "turn" /\ At(c, "idle") /\ calls < MaxCalls
    /\ Write("own", "prompt") /\ Shows({Now + 1})
    /\ row' = [row EXCEPT !.last = Now] /\ calls' = calls + 1
    /\ UNCHANGED <<process, present, lock, call_vars, terminal, crashes, losses, fresh, history>>

\* The row, the busy test and, of a detached session, whether the transcript is there.
FollowGet(c) ==
    /\ ~terminal /\ process = "none" /\ row.st # "pending"
    /\ Begin(c, IF row.det THEN "recget" ELSE "queue")
    /\ exists' = [exists EXCEPT ![c] = row.det /\ present]
    /\ UNCHANGED <<row, process, files, lock, batch, terminal, crashes, losses, fresh, history>>

\* Every import clears it.
AfterAnyImport(c) == "clear"

\* Only an import after a file was seen clears `detached`.
AfterImport(c) == IF exists[c] THEN "clear" ELSE "queue"

\* reconcile_from_native before the lock: no file, nothing to do.
RecGet(c) ==
    /\ At(c, "recget")
    /\ Goto(c, IF present THEN "reclock" ELSE AfterImport(c))
    /\ missed' = IF ~present /\ exists[c] THEN missed + 1 ELSE missed
    /\ UNCHANGED <<row, process, files, lock, seen, began, exists, batch, terminal, bounds, torn, renewed>>

Renders(i) == made[i][2] # "meta"

\* translate_range: a file that cannot be read has no lines.
ReadFrom(mark) ==
    IF present
    THEN [ids |-> { native[n] : n \in { m \in (mark + 1)..Len(native) : Renders(native[m]) } },
          total |-> Len(native)]
    ELSE NoBatch

\* An import that trusts the watermark it read before the lock.
RecLockStale(c) ==
    /\ At(c, "reclock") /\ lock = None /\ lock' = c
    /\ batch' = [batch EXCEPT ![c] = ReadFrom(seen[c].mark)]
    /\ missed' = IF present THEN missed ELSE missed + 1
    /\ Goto(c, "append")
    /\ UNCHANGED <<row, process, files, seen, began, exists, terminal, bounds, torn, renewed>>

\* The lock, the row again, and the lines from its watermark on.
RecLock(c) ==
    /\ At(c, "reclock") /\ lock = None /\ lock' = c
    /\ seen' = [seen EXCEPT ![c] = row]
    /\ batch' = [batch EXCEPT ![c] = ReadFrom(row.mark)]
    /\ missed' = IF present THEN missed ELSE missed + 1
    /\ Goto(c, "append")
    /\ UNCHANGED <<row, process, files, began, exists, terminal, bounds, torn, renewed>>

RecAppend(c) ==
    /\ At(c, "append") /\ Goto(c, "mark")
    /\ Shows(batch[c].ids)
    /\ UNCHANGED <<row, process, native, present, made, lock, seen, began, exists, batch, terminal, bounds, history>>

RecMark(c) ==
    /\ At(c, "mark") /\ Goto(c, "bump")
    /\ row' = [row EXCEPT !.mark = batch[c].total]
    /\ UNCHANGED <<process, files, lock, seen, began, exists, batch, terminal, bounds, history>>

\* lastUserMessageAt follows the newest prompt of the import; the lock is released.
RecBump(c) ==
    LET prompts == { i \in batch[c].ids : made[i][2] = "prompt" }
        newest == CHOOSE i \in prompts : \A j \in prompts : j <= i
    IN  /\ At(c, "bump") /\ Goto(c, AfterImport(c))
        /\ row' = IF prompts # {} /\ newest > seen[c].last THEN [row EXCEPT !.last = newest] ELSE row
        /\ lock' = None
        /\ UNCHANGED <<process, files, seen, began, exists, batch, terminal, bounds, history>>

FollowClear(c) ==
    /\ At(c, "clear") /\ Goto(c, "queue")
    /\ row' = [row EXCEPT !.det = FALSE]
    /\ UNCHANGED <<process, files, lock, seen, began, exists, batch, terminal, bounds, history>>

\* The transition to pending, the patch and the queue.
FollowQueue(c) ==
    /\ At(c, "queue") /\ Return(c)
    /\ row' = [row EXCEPT !.st = "pending", !.last = began[c]]
    /\ UNCHANGED <<process, files, lock, terminal, bounds, history>>

(***************************************************************************)
(* The turn.                                                               *)
(***************************************************************************)

\* Without a transcript that can be resumed claude starts a session of its own: another
\* transcript.  The columns of the row stay.
Start ==
    /\ row.st = "pending" /\ process = "none"
    /\ process' = "turn" /\ row' = [row EXCEPT !.st = "running"]
    /\ \/ present /\ UNCHANGED <<native, present, fresh, renewed>>
       \/ ~present /\ native' = <<>> /\ present' = TRUE /\ renewed' = TRUE /\ UNCHANGED fresh
       \/ /\ present /\ fresh < MaxFresh /\ fresh' = fresh + 1
          /\ native' = <<>> /\ renewed' = TRUE /\ UNCHANGED present
    /\ UNCHANGED <<made, rendered, lock, call_vars, terminal, calls, crashes, losses, torn, missed>>

\* The process writes its transcript; its event enters the log.
OwnWrite ==
    /\ process # "none" /\ Write("own", "reply") /\ Shows({Now + 1})
    /\ UNCHANGED <<row, process, present, lock, call_vars, terminal, bounds, history>>

ProcEnd ==
    /\ process # "none" /\ process' = "none"
    /\ row' = IF row.st = "running" THEN [row EXCEPT !.st = "done"] ELSE row
    /\ UNCHANGED <<files, lock, call_vars, terminal, bounds, history>>

(***************************************************************************)
(* detach_session.                                                         *)
(***************************************************************************)

\* A repeated call only repeats the command.
DetachAgain(c) ==
    /\ row.det /\ At(c, "idle") /\ calls < MaxCalls /\ calls' = calls + 1
    /\ UNCHANGED <<row, process, files, lock, call_vars, terminal, crashes, losses, fresh, history>>

\* A repeated call that counts again.
DetachGetAlways(c) ==
    /\ Begin(c, "kill")
    /\ UNCHANGED <<row, process, files, lock, exists, batch, terminal, crashes, losses, fresh, history>>

DetachGet(c) ==
    /\ ~row.det /\ Begin(c, "kill")
    /\ UNCHANGED <<row, process, files, lock, exists, batch, terminal, crashes, losses, fresh, history>>

DetachKill(c) ==
    /\ At(c, "kill") /\ Goto(c, "count")
    /\ row' = IF process = "turn" \/ row.st = "pending" THEN [row EXCEPT !.st = "killed"] ELSE row
    /\ process' = IF process = "turn" THEN "stopping" ELSE process
    /\ UNCHANGED <<files, lock, seen, began, exists, batch, terminal, bounds, history>>

Watermark(c) == Larger(IF present THEN Len(native) ELSE 0, seen[c].mark)

\* wait_for_exit, then the count.  The wait ends after 5 s in any case: the process may
\* still write.
DetachCount(c) ==
    /\ At(c, "count") /\ Goto(c, "freeze")
    /\ batch' = [batch EXCEPT ![c].total = Watermark(c)]
    /\ UNCHANGED <<row, process, files, lock, seen, began, exists, terminal, bounds, history>>

DetachFreeze(c) ==
    /\ At(c, "freeze") /\ Goto(c, "flag")
    /\ row' = [row EXCEPT !.mark = batch[c].total]
    /\ UNCHANGED <<process, files, lock, seen, began, exists, batch, terminal, bounds, history>>

DetachFlag(c) ==
    /\ At(c, "flag") /\ Return(c)
    /\ row' = [row EXCEPT !.det = TRUE]
    /\ UNCHANGED <<process, files, lock, terminal, bounds, history>>

(***************************************************************************)
(* The user's terminal, and faults.                                        *)
(***************************************************************************)

\* The command of a detach that has answered is pasted while no client writes.
TerminalOpen ==
    /\ row.det /\ present /\ ~terminal /\ Idle(Caller) /\ terminal' = TRUE
    /\ UNCHANGED <<row, process, files, lock, call_vars, bounds, history>>

TerminalWrite ==
    /\ terminal /\ \E k \in {"prompt", "meta"} : Write("term", k)
    /\ UNCHANGED <<row, process, present, rendered, lock, call_vars, terminal, bounds, history>>

TerminalClose ==
    /\ terminal /\ terminal' = FALSE
    /\ UNCHANGED <<row, process, files, lock, call_vars, bounds, history>>

\* The file is moved away, and back, while nobody writes it.
Move ==
    /\ process = "none" /\ ~terminal
    /\ \/ present /\ losses < MaxLoss /\ losses' = losses + 1
       \/ ~present /\ UNCHANGED losses
    /\ present' = ~present
    /\ UNCHANGED <<row, process, native, made, rendered, lock, call_vars, terminal, calls, crashes, fresh, history>>

\* A crash ends the calls and the process; recover() settles the row.
Crash ==
    /\ crashes < MaxCrashes /\ crashes' = crashes + 1
    /\ torn' = torn + Cardinality({ c \in Caller : At(c, "mark") /\ batch[c].ids # {} })
    /\ row' = IF row.st = "running" THEN [row EXCEPT !.st = "failed"] ELSE row
    /\ process' = "none" /\ lock' = None
    /\ pc' = [c \in Caller |-> "idle"] /\ seen' = [c \in Caller |-> Blank]
    /\ began' = [c \in Caller |-> 0] /\ exists' = [c \in Caller |-> FALSE]
    /\ batch' = [c \in Caller |-> NoBatch]
    /\ UNCHANGED <<files, terminal, calls, losses, fresh, missed, renewed>>

ReconcileStep(c) == RecGet(c) \/ RecLock(c) \/ RecAppend(c) \/ RecMark(c) \/ RecBump(c)
FollowStep(c) == FollowLive(c) \/ FollowGet(c) \/ ReconcileStep(c) \/ FollowClear(c) \/ FollowQueue(c)
DetachStep(c) ==
    DetachAgain(c) \/ DetachGet(c) \/ DetachKill(c) \/ DetachCount(c) \/ DetachFreeze(c) \/ DetachFlag(c)

SyncNext ==
    \/ \E c \in Sender : FollowStep(c)
    \/ \E c \in Detacher : DetachStep(c)
    \/ Start \/ OwnWrite \/ ProcEnd
    \/ TerminalOpen \/ TerminalWrite \/ TerminalClose \/ Move \/ Crash

SyncSpec == SyncInit /\ [][SyncNext]_sync_vars

(***************************************************************************)
(* Properties.                                                             *)
(***************************************************************************)

Shown(i) == Renders(i) => rendered[i] > 0

\* The watermark never passes a line the clients cannot see: what lies below it was
\* imported or written by the process itself (unless an import missed the file).
NothingSkipped ==
    missed = 0 /\ ~renewed => \A n \in DOMAIN native : n <= row.mark => Shown(native[n])

\* However the calls interleave, a line of the terminal is imported once; only a crash
\* between the append and the watermark repeats it (unless an import missed the file: that
\* one sets the watermark back to 0).
ImportedOnce ==
    missed = 0 =>
        \A i \in Ids : made[i] # Unwritten /\ made[i][1] = "term" => rendered[i] <= 1 + torn

\* When the server takes a session back, everything the terminal wrote is in the log.
ReclaimComplete ==
    [][ row.det /\ ~row'.det /\ missed = 0 /\ ~renewed => \A i \in Range(native) : Shown(i) ]_sync_vars

\* The same when a turn in between could not be resumed and claude began a transcript of
\* its own, whose lines are fewer than the watermark.
TerminalTurnsReturn ==
    [][ row.det /\ ~row'.det /\ missed = 0 => \A i \in Range(native) : Shown(i) ]_sync_vars

\* A detach does not let the watermark regress below what was imported, even if the file is
\* out of place when it counts: what it falls back on it read before.
WatermarkStays ==
    [][ \A c \in Detacher : DetachFreeze(c) => row'.mark >= row.mark ]_sync_vars
=============================================================================
