# agentic-dev: TLA+ models and proofs

agentic-dev is a server (Rust, `server-rs/`) that runs many Claude Code
sessions for a mobile client. Each session is a row in SQLite, a worktree, a
log file and, while it works, one persistent process: a Node bridge
(`server-rs/sdk-bridge/sdk-bridge.mjs`) around the Claude Agent SDK. This
directory holds TLA+ models of the parts in which callers, tasks, processes and
restarts interleave, and of the pure algorithms they rest on; the TLC runs that
check them on small instances; and TLAPS proofs of what matters most for every
instance.

    tlc -workers 2 -config SessionEngine_cap.cfg MCSessionEngine
    tlapm SessionEngine_proofs.tla

1 is the system, 2 the modules, 3 the runs, 4 the proofs, 5 what the code does
that its documents do not say, 6 what is not modelled, 7 what is left to do.
`PROJECT.json` lists the components with their status, the runs, the source
lines each definition stands for, and the hazards, each at its line.

## 1. The system

### Components and their state

Sources are under `server-rs/src/`.

| Component | State | Operations |
|---|---|---|
| Scheduler (`engine/mod.rs`, `engine/session/{runtime,submit,admin,watchdog}.rs`) | `EngineState` under one lock: `queue`, `starting`, `running`, `awaiting`, `closed` and the exemption sets; the rows | `submit_session`, `follow_up`, `kill`, `delete_session`, `pump`, `start`, `attach`, `on_event`, `on_exit`, `tick_watchdog`, `close_with` |
| Status machine (`session/{status,transition}.rs`) | the `status`, `error`, `exitCode` and `endedAt` columns | `legal_transition_to`, `transition` |
| Turn outcome (`runtime/spawner.rs`, `transcripts/tailer.rs`, `session/{lifecycle,recover}.rs`) | log offset, `saw_result`, the event channel, the lifecycle sidecar | poll loop, `last_outcome_in_current_turn`, `recover` |
| Live stream (`api/stream.rs`, `transcripts/transcript.rs`) | the log, the cached `RenderedProjection` of each session, a cursor per socket | `append_log`, `sync`, `with`, `handle_socket`, paging |
| Bridge (`sdk-bridge.mjs`, `runtime/sdk_runner.rs`) | input queue, the slot of a parked question and of a permission, pending delegate calls | stdin lines, SDK callbacks, SIGTERM |
| Auto-resume (`session/auto_resume.rs`) | the `autoResumeAt` column | a tick that schedules, claims and fires |
| Native sync (`session/native_sync.rs`, `transcripts/native_transcript.rs`, reclaim in `submit.rs`) | watermark and `detached` columns, a lock per session | `reconcile_from_native`, adopt, detach, reclaim |
| Workspaces (`vcs/{worktree,repos}.rs`, sagas in `session/{submit,admin,recover}.rs`) | directories, worktrees, branches, snapshot refs, staged uploads | create, fork, snapshot, rewind, discard, delete, reconcile at boot |
| Delegate and journals (`workflow/{delegate,workflows}.rs`) | journals, worker processes and worktrees, the exemption set | start, run, collect, tear down, summarise, finalize orphans; list and read |
| Models (`model/*.rs`) | providers file, proxy supervisor | candidates, routing, reload |
| Configuration (`config/*.rs`, `persistence/atomic_write.rs`) | `settings.local.json`, `.claude.json` and their locks | toggles, servers, providers, overrides |
| Extensions (`extensions/*.rs`) | the skills directory, sources, caches | scan, plan, publish, remove |
| Store (`persistence/store.rs`) | rows and groups | create, patch, read back, `ensure_group`, `delete_group` |
| Readers (search, titles, mentions, diffs, filters, errors) | none | pure functions of a log, a message or git's text |
| HTTP API (`api/*.rs`) | none of its own | pages, checks, patches, ranges |

### How they interact

* An API call and every background task share `EngineState`, whose lock is never
  held across an await, and the rows, which are read and later written with
  unconditional updates. Between a read and the write that rests on it any
  other task may run.
* `pump()` pops the queue while `active_count()` is below the cap and spawns a
  start task per item. The start task logs the prompt marker, spawns the
  bridge and calls `attach()`, which spawns a pump task for its events and exit.
* The bridge appends to the log by itself; the engine appends prompt markers and
  result markers to the same file. The engine learns of results by tailing the
  file, a client by the projection of the file over a WebSocket.
* Questions, permissions and delegate requests travel as lines of the log in one
  direction and as lines of the bridge's stdin in the other.
* Adopt, detach and fork hand a transcript between the server and a terminal; the
  delegate fan-out and the sagas of a session work on the same repositories.
* A restart loses the memory and keeps rows, files, log, journals and sidecar;
  `recover()`, `reconcile_worktrees()` and `finalize_orphaned_runs()` decide
  from them what became of each.

### What is hard

1. Interleavings of callers with the start task and the pump task (a kill
   while a turn starts, two follow-ups at once, an exit against a registration).
2. Wake-ups: a session is queued and whoever frees a slot must look at the queue;
   a supervisor waits and whoever changes its file must tell it.
3. The order of results, exits and injected messages: one boolean, `saw_result`,
   decides whether a process exit is a success.
4. The end of a turn seen twice (by the result and by the exit), or not at all.
5. A stop between any two steps, with bridges that die or live on.
6. One file, several writers, several readers at their own offsets, a cache whose
   entry leaves it during a read, and a client that reconnects.
7. Sagas over git, the file system and the store, none of which is a
   transaction: each step may fail, and the roll-back too.
8. Time: a limit that ends, a schedule that is due, a deadline that passes
   while what it bounds is being finished.

### What makes each component correct

* Scheduler: every accepted prompt gets its turn; no slot leaks; a pending row is
  never stranded; a stop is not an error; one process per session; a kill stops.
* Turn outcome: `done` means that the last turn was answered, before and after a
  restart; each turn is announced once; each result's cost is added once.
* Live stream: each line once, in order, none left out, over all connections;
  the end of a turn after its last line.
* Bridge: a result is stored once; a card on show is one that waits; a call
  that waits is answered.
* Auto-resume: one resume per limit error, and one in the end.
* Native sync: what a terminal wrote is imported once and completely.
* Workspaces: no row loses its files, a refused session leaves none (but for what a
  failing roll-back could not remove), a rewind puts all repositories back to one
  turn, or those before the one that failed.
* Delegate: a run ends, leaves nothing behind, and is not shown as running then.
* Configuration: nothing readable is lost, a toggle holds.
* Readers: what they show is what is there.

## 2. The modules

| Module | What it is |
|---|---|
| `SessionStatus` | the statuses, the legality matrix, the decision of `on_exit` |
| `SessionEngine`, `MCSessionEngine` | the scheduler: several sessions, callers and turn slots; symmetry and smaller initial states |
| `SessionTurns` | one session in depth: log, tailer, result, exit, push, restart |
| `StreamDelivery` | the promise of the live stream, abstractly |
| `LiveStream`, `MCLiveStream` | log, projection, cache and socket; the refinement mapping to `StreamDelivery` |
| `BridgeProtocol` | the conversation between the engine and the bridge |
| `AutoResume` | the scheduler of resumes against users and restarts |
| `NativeTranscript`, `NativeSync` | what a line of claude's own transcript becomes; import, detach, reclaim |
| `SessionWorkspaces`, `MCWorkspaces` | directories, worktrees, branches and snapshots of sessions |
| `Delegate`, `MCDelegate` | the fan-out of workers |
| `ConfigFiles` | configuration files, their locks, and the proxy's supervisor |
| `WorkflowJournal` | the journal of workflow runs and its reader |
| `ModelRouting` | the catalog of models and the choice of a worker's model |
| `DiffView` | hunks, files and the graph of a structured diff |
| `LogReaders` | search, titles, filters, error classes, mentions |
| `SkillStore` | sources, plans and publication of skills; plugins |
| `Store` | rows and groups of the session store |
| `HttpApi` | pages, checks, patches and resumed downloads |
| `ReaderFacts` | what the pure algorithms compute, over every small input |
| `Readers`, `MCReaders` | the readers and small stores that change step by step; a small catalog and small files |
| `*_proofs` | the theorems (section 4) |

`SessionEngine` and `SessionTurns` share `SessionStatus` with `AutoResume` and
`NativeSync`. The four look at the same code from several sides: the first keeps
every await of every caller apart and abstracts a turn to the state of its
process; the second fixes the callers and keeps the log, the tailer and the
restart apart; the last two keep apart only the awaits of the callers that race
on a schedule or on a watermark. `ReaderFacts` extends the seven modules of pure
algorithms and `Readers` the five that have steps; `MCReaders` extends both, so that TLC
decides the one and runs the other.

### SessionEngine

A row is its status and whether it shows an error. `queue` is a set of
`<<ticket, id>>`. A *slot* (`Turn`) holds one start task, its process and its
pump task: `spc` is where the start task is (`StartCheck`, `StartSpawn`,
`StartRegister`, `StartPublish`, `StartRunGet`, `StartRunApply`, the failure arm,
`StartFinally`), `proc` the process and `hpc` the pump task (`EventInit`,
`EventResultGet/Apply`, `ExitBegin/Get/Apply`). A *call* (`Client`, or the
watchdog) is at `cpc`; what it read before an await stays in `cseen` and `cturn`.
Code that runs under one lock, or two lock sections with no await between
them, is one step; every await ends a step. `pumpDue` merges several scheduled
`pump()`s into one: a `pump()` looks at the whole queue, so a second adds
nothing. `tick_watchdog` and `kill` go through `TransitionGet`/`TransitionApply`,
the two halves of `transition()`. Not in this module: errors of SQLite and of the
file system. An id is never used twice.

### SessionTurns

The log is a sequence of prompt markers, init lines and results, each with its
turn. `FollowUpQueued` and `Inject*` are the two branches of `follow_up`;
`StartLog`, `StartSpawn`, `StartPublish` and `StartSidecar` are the awaits of
`start()`; `Poll` and `PollFinal` the loop of `SpawnHandle`; `ResultGet`,
`ResultPatch` and `ResultPark` the Result branch of `on_event`; `ExitBegin` and
`ExitApply` the two halves of `on_exit`. The bridge answers the messages it was
given in order, each with an init line and a result; it may throw (an error
result, then the exit), crash, or be stopped. `Stop` ends the server at any point;
the bridge dies with it or becomes an *orphan* that finishes what it was given
(`close_with(false)` leaves it alive; whether it survives is up to the
service manager). `Recover` is `recover()`. `raced` is a history variable: it says
that a message was injected into a turn in progress or a dying process, that
an orphan wrote, or that an error was set before `running` was published; a new
turn of an idle session begins without it. The
outcome properties exclude those cases; `CrashIsAFailure` and
`RecoveredFromTheLastTurn` of section 5 are what the excluded cases lead to.

### LiveStream

`file` holds the bodies of lines and newlines; a line is named by its
position. `append_log` is two actions (`EngineWritesLine`, `EngineWritesNewline`),
the bridge's append is one. `Synced` is `RenderedProjection::sync`;
`TakeOut`, `Sync` and `Insert` are the three parts of `TranscriptCache::with`, for
the socket and for the paging request. `Send` sends one frame; a connection may
be lost between any two.

### BridgeProtocol

The bridge of one process after another: `inbox` its stdin, `slot` the parked
question and permission, `delegates` the parked calls by request id. The agent
issues calls of six kinds, some of which park (`Issue`, `ParkAsk`,
`ParkDelegate`), and ends its turn when they are done or it is interrupted.
`ReadInterrupt`, `ReadDelegate`, `ReadPerm` and `ReadUser` are the branches of the
line reader; `OnAsk`, `OnPerm`, `OnPermResolved`, `OnResult`, `OnCard`,
`OnRequest` and `OnToolResult` those of `on_event`, taken one line of the log at a
time by `TailLog`, which appends the marker of a subagent's result to the log it
reads. `Tap` is `respond_permission`, on any card the client ever had; `UserLine`
a message or an interrupt (the await between taking the card down and writing the line
is merged); `FanoutDone` the answer of a run (module `Delegate`).

### AutoResume

The row is its status, error kind, schedule and toggle. An instant is kept as the
minutes left until it, so that time needs no bound. `TickList`, `TickUsage`,
`TickSchedule` and `TickClaim` are the awaits of one pass of `tick_auto_resume`,
and several passes may overlap; `FollowUp*` the awaits of the `follow_up` it then
sends, the same that a user sends; `Kill*` those of `kill`. The two conditional
`UPDATE`s are one step each, since SQLite runs a statement atomically. `Restart` ends
every caller.

### NativeSync

A line is its place in the order of all writing, with its writer and kind.
`native` is claude's transcript, `rendered` the log that clients see, of which only
how often it holds each line matters. `RecGet`, `RecLock`,
`RecAppend`, `RecMark` and `RecBump` are `reconcile_from_native` under its lock;
`FollowGet ... FollowQueue` the reclaim of `follow_up`; `Detach*` the awaits of
`detach_session`. The terminal opens, writes and closes at any point while the
session is detached, the file may move away, and the server may crash between the
append and the watermark. `NativeTranscript` says which lines render and which
transcripts are offered for adoption.

### SessionWorkspaces

`tree`, `branch`, `base`, `head`, `files` and `snap` are git, per session and
repository; a state of the files is a number and every edit makes a new one.
`SubmitTrees`/`SubmitRow`, `ForkTrees`/`ForkRow`/`ForkFlip`/`ForkUndo`,
`RewindCheck`/`RewindDo`, `DiscardCheck`/`DiscardFiles`/`DiscardMark` and
`DeleteCheck`/`DeleteFiles`/`DeleteRow` are the awaits of the five sagas. A step of git may
fail after the first k repositories, a call of the store may fail, and `Restart` runs
`recover()` and `reconcile_worktrees()`, which may be unable to read the list of sessions.
What the code does best effort may fail here as well: the roll-backs
(`RemoveBestEffort`, `ForkUndo`, whose removal of the row is ignored at
`submit.rs:819` while the files go all the same), the removal of worktrees,
directories, snapshot refs and leftovers. `undone` records what a roll-back could not
remove. A rewind may fail at any repository (`RestoredUpTo`): those before it are
restored, those after it are not, and of that one some of the files.

`StartBegin` is the `start()` of a turn up to and with `sync_worktree`, which rebases the
branch with `--autostash`: it moves `head` and `files`, lays the uncommitted changes over
them, or leaves them in the stash where they conflict. The repositories of a session
are synced in one step, as nothing else reads its worktrees in between. The
snapshot of a turn is taken before that rebase, so a rewind also takes back the files
that the rebase brought. The snapshot refs of turn 0 are left out: a rewind
goes back to the base there and nobody reads them. One saga at a time is under way on a
session, and a fork is neither prompted nor stopped before `fork_session` has
answered with its id.

### Delegate

`pc` is the place of a run in `run_delegate`: `Ask`/`Refuse`, `Mark` (the watchdog
exemption), `Snapshot`, `Provision` per writer, `Route`, `Start`, `Await`,
`Collect`, `Teardown`, `Summarise`, `Reply`, or `Abort`. `Deadline` may pass at any
point of the wait. `metas`, `results` and `summary` are the journal, which with the
scratch in the repositories outlives `Crash`; `Boot` is `finalize_orphaned_runs`.

### ConfigFiles

One plugin, one server, one provider and one model family stand for all: every
operation touches one entry of one file. A request decides, takes the lock and
reads (`lock`), writes or fails (`write`), and tells the supervisor (`notify`). An
edit from outside knows no lock and may leave a file that does not parse. The
supervisor builds, starts, waits and backs off; `Notify` holds one permit.

### SkillStore

The pure part (sources, plans, components) is like the readers below. The calls on one
name have steps: `Enter`, `WriteFiles`, `Park`, `Publish` and `Restore` are
`write_skill_files` under its lock, `Add*` and `Delete*` are `add_skill` and `delete_skill`,
which take none. Every operation of the file system may fail: also the rename that puts
the old version back (`unrestored`), and the removals of the old version and of the
call's own directory, which then stay beside the skill. A removal that fails has
removed a part. Directories are named for the call that makes them, so that the model
tells one version with all its files (`whole`) from a part of one and from
a mixture of two (`mixed`). Directories left beside the skill are not claimed to go
away. A stop of the server in the middle of a publication is not modelled.

### The readers

`ModelRouting`, `WorkflowJournal`, `DiffView`, `LogReaders`, `SkillStore`, `Store` and
`HttpApi` translate pure functions. A text is a sequence of words or characters
of two widths, a line of a log a record of the fields that are read, a line of
git's output a record of its kind. `ReaderFacts` states what callers rely on as
assumptions that TLC evaluates over every input up to a size, before the first
state: `CatalogHonest`, `RouterIsEligible`, `SummaryIsLastWord`, `ScopedToProject`,
`LineNumbersTrue`, `UntrackedLikeAdded`, `FilesComplete`, `GraphCounts`,
`SnippetShowsMatch`, `TitleFromTheEnd`, `SearchFindsBest`, `TitlesStayGood`,
`TokenIsCurrent`, `ResumableForGood`, `SeedIsFront`, `OnlyUsageIsResumed`,
`MentionsExpandOnce`, `SkillsAreManageable`, `SourcesAreOnce`,
`CatalogInstallsWhatItShows`, `CatalogForgets`, `SwitchesAsAsked`, `CreatedIsRead`,
`AcksNeverHide`, `PatchTellsTheRow`, `PagesCoverLog`, `RefusedFirst`. Each compares the
operator that models a function with a definition that does not use it, and the
comment above it says what it is about.

`Readers` is those whose input grows or whose store is shared: a catalog, a tradeoff and
an answer are put together and give a worker its model (`RoutingStep`); the writers of
a journal append to it and the list is read after each write (`JournalStep`); calls on one
skill, a download and its rewriter, adoptions and a user take the steps of `SkillStore`,
`HttpApi` and `Store` (`SkillStep`, `DownloadStep`, `GroupStep`). These five share no
state in the code, so a behaviour is of one of them (`algo`) and `inp` is its state. In
`Readers` and the modules it extends nothing is declared RECURSIVE: the first of some
places, the last summary, the choice of a model are sets of places with a least or
greatest element, so that the same text is evaluated and proved about.

## 3. The runs

| Run | Bounds | Shows |
|---|---|---|
| `engine_cap` | 2 sessions, 2 clients, 2 slots, cap 1, 2 calls | `TypeOK`, `NoLostWakeup`, `StartingOwned`, `PendingOwned`, `StopIsNotAnError` |
| `engine_live` | 1 session, 1 client, 2 slots, cap 2, 3 calls, fairness | `PendingLeaves` |
| `turns` | 2 messages, 1 stop | `OutcomeHonest`, `RecoverHonest`, `PushOncePerTurn`, `EveryTurnAnnounced`, `CostCountsEveryResult` |
| `live_stream` | 1 client, 1 reader, 2 lines, 1 drop, 1 end of turn, fairness | `ProjectionEquivalent`, `ExitAfterLastLine`, the refinement `DeliversInOrder`, `LinesArrive` |
| `bridge` | 2 calls of any kind, 2 processes, 1 decision, 2 other lines, fairness | `OncePerResult`, `CardHonest`, `DelegateReturns` |
| `auto_resume` | 2 passes, 1 user, 2 calls, 1 limit of 1 minute, fallback 2, 1 restart, fairness | `OneResumePerEpisode`, `BlockedIsResumed` |
| `native_sync` | 2 senders, 1 detacher, 3 lines, 4 calls, 1 crash, 1 move of the file | `NothingSkipped`, `ImportedOnce`, `ReclaimComplete` |
| `workspaces` | 2 sessions and 1 adopted, 2 repositories, 2 edits, 2 turns, 1 fault, 1 crash, 1 discard, delete, rewind or upload, 5 of these in all | `RowHasWorkspace`, `RefusedLeavesNothing`, `RewindRestores` |
| `delegate` | 2 runs (2 writers; 1 reader), 2 repositories, 2 processes, 1 fault, 1 crash, fairness | `NoPhantomRun`, `ScratchRemoved`, `PatchesComplete`, `ExemptWhileAlone`, `EveryRunReturns` |
| `config` | 2 requests at once, 3 in all, 1 edit from outside, 1 fault | `UnreadableKept`, `ToggleHolds`, `DefinitionSurvives`, `ReloadNotLost` |
| `readers` | catalogs of 3 entries that may share a model, with 13 values each, 3 tradeoffs, 5 answers; 6 journal writes; 3 skill calls, each of any of 4 kinds; 1 download; 2 adopting callers | `RoutedWorker`, `RunsStayListed`, `SkillStoreWhole`, `ResumedDownloadWhole`, `AdoptedInOneGroup`, and the assumptions of `ReaderFacts` |
| `engine_one_process` | 1 session, 2 clients, 2 slots, 3 calls | ends in a counterexample to `OneProcessPerSession` (section 5) |

Why the bounds are enough. The scheduler properties relate a row to the queue,
one start task and one pump task; two sessions make them compete for the slot and
two callers on one session reach every pair of program points; fresh rows are
in every status at the start, so that two calls are already two that race. Three
calls with two sessions are out of reach of a run of minutes; the theorems of
section 4 cover every number. A race of the turns needs the turn that runs and the
one injected or queued after it, and one stop puts `Recover` at every point of
either. The cache has one entry per session, so that one socket and one paging
request already fight over it; two lines are enough for one to be glued, lost
or repeated next to another. A card of the bridge is overtaken by one other call, an
answer by one other process. A claim of a resume is raced by one other pass and
one user. An import is repeated or skipped by one other caller, one crash or one
move. A saga over repositories fails after the first of two; a rewind needs two turns
to go back to the wrong one; what fails in a roll-back counts as part of the fault
that called for it, so that one fault includes a roll-back that fails. A skill is lost
by an update next to one other call; the third is the delete or the add between them.
A fan-out needs a second run to share the exemption with, and a reader next to the
writers. A request on a file is overtaken by one other and one edit. Deadlock
checking is off where the bounds on calls, messages and lines let the system come to
rest.

The type invariants are not among the properties of the runs: they are proved, for
every module whose name has a `_proofs` module in section 4.

Every property has a mutant in `PROJECT.json`: a definition of the model changed
as a plausible bug would change the code, under which TLC finds it violated.

### Fairness

`engine_live` assumes that Tokio runs a task that can run (start steps, pump
tasks, calls, a scheduled pump) and that a process told to stop exits, since
`stop()` follows SIGTERM with SIGKILL. It assumes nothing of a process that was not
told to stop, of users or of the watchdog. A slot per session is free in that
run: with a lower cap a parked or an unanswered question may hold it for ever.
`live_stream` assumes that a connected socket task runs and that its heartbeat
ticks (`LinesArrive` rests on the heartbeat, since the bridge's appends wake
nobody). Nothing is assumed of the network: a connection may drop at any time.
`bridge` assumes that the two readers, of the stdin and of the log, go on, and that a
fan-out ends, which is `EveryRunReturns` of `delegate`; nothing of the user.
`auto_resume` assumes the interval of the scheduler, that calls go on, that a queued
turn is started, that a turn ends in a result or an exit (the watchdog stops an
idle one), and that time passes. `delegate` assumes that the task of a run goes on
and that its timer fires; nothing of a worker, which may never end by itself.

## 4. The proofs

Every theorem holds for all values of the constants that satisfy the module's named
assumption; TLC evaluates the same assumption in the runs. No proof uses another
axiom. The shape is always the same: an invariant that implies the property, shown to
hold initially and to be kept by each action and by stuttering, with one lemma per
action or group of actions, and a last temporal step.

* `SessionEngine_proofs` (`EngineAssumption`: a finite set of sessions, a positive
  cap, the "none" values are not members).
  * `TypeCorrect`: `TypeOK`, with the fact that a slot or a call at work has a session.
  * `StartingSafe`: an id in `starting` has a start task in flight. Only `PumpPop`
    adds an id, together with its task; the last step of the task removes it.
  * `WakeupSafe`: while a queued item could start, a pump is due or a task that will
    pump is under way. Inductive with `TypeOK` and `StartingOwned`: the proof
    goes over each step that queues an item, lowers `ActiveCount` or ends a task.
    `ActiveCountGrows` reduces the two cardinalities to set inclusion, which is
    where finiteness of `Session` is used.
  * `PendingSafe`: a pending row has an owner. `PendingOwner` lists every place at
    which somebody still holds the duty to move the row on, the windows between two
    awaits included, and is inductive with `TypeOK` for that reason.
  * `StopSafe`: a killed row that shows an error has a pump task to come.
* `LiveStream_proofs` (`StreamAssumption`). `StreamTypes` and `ProjectionsAreExact`:
  every projection, cached or taken out, holds exactly the rendered lines complete
  at its offset. `ProjectionEquivalent` speaks of the cache alone, which is refilled
  from what tasks took out: the invariant (`Held`) says it of those too. The step
  that matters is `AppendKeepsLines`, that no append changes what was complete.
  `ExitIsLast`: the end of a turn comes after its last
  line. The client knows lines by their seq, a count, and the server by their
  place in the file; `Delivered` relates the two (the seq of a line is its place
  among the rendered lines, and everything up to the client's seq was sent), over
  all lost connections. The lemmas it rests on are about places in a finite set of
  numbers. `LinesInOrder`: `LiveStream` implements `StreamDelivery`. A projection and
  what a client received are mapped by places (`InOrder` lists a set of numbers), so
  the mapping needs no induction over the log. `LinesJoin`: a step of the log adds no
  rendered line or one behind all others, so the list grows at its end (`InOrderAdded`).
  `SendDelivers`: the first frame of a line is the next line of the list, because a
  client has seen as many first frames as its last seq says (`Counted`) and the line
  sent is the one after that seq (`Delivered`); another frame of the line changes
  nothing. `Bounded` only keeps the positions within the set `StreamDelivery` draws
  its lines from.
* `BridgeProtocol_proofs` (`BridgeAssumption`). `BridgeTypes` and `MarkersOnce`: the
  engine reads back its own markers and still writes one per result. The invariant
  says that a call has a result only when it is over, one at most, and that either
  the engine has yet to read it or its marker is written (`OneResult`); and, because
  a decision starts the call that is parked, that what is parked never ran
  (`HeldByTheBridge`). `Steady`, that a call that is over stays over, is proved of
  each step next to it. `CardsAreHonest` speaks of the moment when both sides have
  read everything; its invariant (`CardsInOrder`) looks ahead instead: if the lines
  not yet read would leave a permission card on (`LeftOn`: one of them switches it on,
  or it is on now, and no later one switches it off), the bridge still waits on a
  permission, and if they would leave any card on, a turn is under way. Two lemmas on
  sequences carry it: lines written that switch nothing on leave off what was off, and
  a line read leaves on what it would have left on (`LinesWritten`, `LineTaken`).
* `AutoResume_proofs` (`ResumeAssumption`). `ResumeTypes`, `SendersExclude` and
  `OneResume`. Mutual exclusion of the passes comes from the row, not from a
  lock: a pass claims only a schedule that is due (`ClaimsDue`) and takes it off,
  nobody sets one that is due (`NotDueWhileSent`), the error is cleared before the
  message goes out (`ClearedBeforeSent`), and an error that stands was answered by
  nobody (`Unanswered`).
* `SessionWorkspaces_proofs` (`ConstantsAssumption`). `RowsKeepTheirFiles` and
  `RefusalsLeaveNothing` from `Staged`, which says of every stage of a saga what it
  has made so far, that whoever removes files was asked to or rolls back, and what a
  roll-back that failed has left. `RewindsAreWhole`, an action property, from
  `RefsKnown` and `BaseKnown`: a ref holds the files as they were when the turn of its
  number was asked for, and before the first turn they are those of the base.
  `RewindIsMeant` singles out the step: while a rewind is about to restore, no other
  action of the model that ends it changes files. The theorem then speaks of the
  repositories before the place of a failure, all of them if there is none.
* `Delegate_proofs` (`DelegateAssumption`). `DelegateTypes`, `PatchesAreComplete`,
  `ScratchIsRemoved`, `NoRunIsAPhantom`, `ExemptWhileItIsAlone`. Each property is
  about the end of a run; the invariant says what holds on the way there
  (`WaitedFor` of the wait, `WritersOnly` and `Removed` of the repositories,
  `FailureSpoils` and `Summarised` of the journal, `Askers` of the processes).
* `Stores_proofs`, first part: `ConfigFiles` (`ConfigAssumption`). `ConfigTypes`,
  `UnreadableSafe`, `ToggleSafe`, `DefinitionSafe`, `ReloadSafe`. They rest on the lock
  (`LockHeld`), on what was read under it being what the file holds (`CopyFresh`),
  and on stronger forms of two of the properties (`DefinitionInUse`: a parked copy
  never is the newest while a live one is there).
* second part: `Readers`, each of its five under the assumption that names what it needs.
  Every invariant says of the state `inp` of one of them what holds on the way to the
  property.
  * `SkillsStayWhole` (`SkillAssumption`), from `SkillInv`: the lock has one holder, an old
    version is put aside only by a call that holds the lock or held it, and a name
    without a directory has its old version aside or may be missing (`Missing`: deleted,
    never there, or an update could neither publish nor put back); and from
    `SkillQuiet`: while nobody adds or deletes by hand, what is published, was published
    or is about to be has all its files. Adds and deletes take no lock, so the
    invariant must hold with their steps between any two of an update (one lemma per step).
  * `DownloadsStayWhole` (`FileAssumption`), from `DownloadInv`: what the client has is the
    front of the version it has the tag of, and the request under way will send the
    rest of that version, as long as no rewrite fell between a request's two looks.
  * `AdoptionsMeet`, from `GroupsInv`: until a user edits the groups there is one group
    or none, and whoever has looked after an insert has found it.
  * `ListKeepsRuns` (`JournalAssumption`), an action property: a journal only grows, so the
    agents and results found in it only grow (`MoreWritesKeepTheList`); a run leaves the
    running ones only by a summary, and every summary written has a terminal
    status (`SummaryIsWritten`), which is where the invariant is needed, that the journal
    holds what its writers write.
  * `RoutedTasksAreCapable` (`OffersAssumption`). `select_with_floor` chooses
    three times by an order: the ablest, the best score, the best of the near ties. Each
    order is strict, and a strict order has a maximal element in a finite set
    (`FiniteMaximal`), so each choice exists and has the property it is chosen for
    (`ChoiceIsSound`). The order of the ties is lexicographic in five values
    (`BetterIsMore`, `MoreIsStrict`). The choice goes on by the name of its model and comes
    back as an entry that bears that name (`ModelResolves`, `Bears`). `upsert_at` keeps the
    names of providers apart, nothing keeps the models of two providers apart. So the
    theorem says of a worker that its entry is an enabled candidate bearing the name of
    a choice of the required capability, and not that it is that entry: section 5,
    `RoutedWorkerAble`.
* third part: four facts of `ReaderFacts` for every input. `RouterCanAnswer`
  (`RouterIsEligible`, and that the first of the eligible is taken), `SessionsOfAProject`
  (`ScopedToProject`), `AcksHideNothingLater` (`AcksNeverHide`) and `OlderPagesAreAdjacent`,
  the step behind `PagesCoverLog`: a page of older events is all events from its start up
  to where it was asked for.
* `SessionLog_proofs`, first part: `SessionTurns` (`TurnsAssumption`). `TurnTypes`,
  `OutcomeOfTheLastTurn`, `RecoveredOutcome`, `PushedOnce`, `TurnAnnounced` and
  `CostOfEveryResult`, from one invariant (`TurnInvariant`) that is built up:
  * `Control`, `Subject`, `RowControl`: which of the start, an injection, the process
    and the pump task may be under way together, and what the row shows then.
    Everything else needs to know that nobody else is at work.
  * `Channel`: the channel holds the newest events of what was read, so that what is
    neither handled nor in the channel is still to be read (`Waiting`).
  * `Order`, `Markers`: turns are numbered as they are given; what is answered, what
    the process still holds and what an orphan holds follow each other, and each turn
    has its prompt marker before its lines.
  * `OnlyLast`: while nothing raced, the process holds the last turn alone. `Knows` is
    what the pump task concluded from the results it saw, `Told` that a parked session
    was told of its last turn, and `Final` what the last exit left in the row. Without `OnlyLast` the boolean `saw_result`
    says nothing of the last turn: that is the divergence `CrashIsAFailure`.
  * `Counted`, `Announced`: costs and pushes count the results that are no longer
    waited for, as sets of places in the log. An exit announces a turn of which no
    result was handled and none will come.
* second part: `NativeSync` (`SyncAssumption`). `SyncTypes`, `MarkSkipsNothing`,
  `TerminalLinesOnce` and `ReclaimShowsAll`, an action property, from `SyncInvariant`:
  `Places` (the lock has one holder, and a terminal is open only while nobody works
  on the session), `Written` (a line enters the transcript once, under the next
  number), `Reached` (no watermark lies beyond the transcript it was taken from),
  `Seen` (who works on the session but an import before its append leaves nothing
  hidden), `Covered` (no line of the terminal lies above the watermark that a
  detach will freeze, which is why one that falls back on the watermark it read before
  does no harm) and `Once` (a line above the watermark is not in the log, unless its
  import is between append and watermark or was cut off there by a crash). The last
  two are needed together: the import appends what lies above the watermark, and
  nothing else may raise or lower it past a line of the terminal. In the module
  `Places` is `SyncPlaces`.

Two invariants turned out to be false while their proofs were sought. `RecoverHonest`
of `SessionTurns` held only because a run with one stop never saw a second turn after
a race; `raced` is now reset when an idle session gets a message, and the theorem holds
for any number of stops. `ImportedOnce` of `NativeSync` once allowed one more copy of a
line per import that missed the file, which the run's bounds satisfied; with two moves
of the file a detach can set the watermark back to the one it read before an
import (`WatermarkStays`, section 5), and the bound fails. It now speaks of the time
while no import missed the file, and there it holds for every instance.

Every safety invariant and action property of the runs is thus stated by a theorem.
Only model-checked: liveness (`PendingLeaves`, `LinesArrive`, `DelegateReturns`,
`BlockedIsResumed`, `EveryRunReturns`) and ENABLED, which TLAPS does not treat; and the
other assumptions of `ReaderFacts`. Most of these are about a fold or a recursion over
a line, a log, a diff or a tree, which need induction over data; `PagesCoverLog` is one
beyond its single page, and `PatchTellsTheRow` rests on `@@` of the module TLC, which
the prover has no definition of.

## 5. What the code does that its documents do not say

One run states a sentence of `docs/internals.md` ("Each session is one persistent
claude streaming process") and ends in a counterexample: two follow-ups of an idle
session both pass `is_busy` (`submit.rs:463`) before either writes `pending`, both are
queued, and with a free slot both start in one worktree.

Nine further configurations reproduce others. They are not among the runs; TLC stops
at the first violation, and the next statement of a file is reached by commenting
the line out.

    tlc -config SessionEngine_divergences.cfg MCSessionEngine
    tlc -config Delegate_divergences.cfg MCDelegate
    tlc -config SessionWorkspaces_divergences.cfg MCWorkspaces
    tlc -config Readers_divergences.cfg MCReaders
    tlc -config LiveStream_divergences.cfg MCLiveStream
    tlc -config SessionTurns_divergences.cfg SessionTurns

and in the same way `BridgeProtocol`, `AutoResume` and `NativeSync`.

| Module, property | Statement | What the code does |
|---|---|---|
| `SessionEngine`, `KillIsNotLost` | registering before publishing closes the race with a kill (`runtime.rs`, start) | a kill before the registration stops nobody |
| `SessionEngine`, `NeverResurrect` | a terminal status is never resurrected (`runtime.rs`, start) | guard, check and write of `running` are apart |
| `SessionEngine`, `RegisteredTurnIsLive` | `on_exit` removes the turn from `running` | the exit can be handled before the registration |
| `SessionTurns`, `CrashIsAFailure` | a crash in turn 2 is not a success of turn 1 | turn 1's result arrives after the reset of `saw_result` |
| `SessionTurns`, `RecoveredFromTheLastTurn` | `done` only if the last turn emitted a result (`docs/internals.md`) | an injected turn has no `TurnStarted` |
| `LiveStream`, `ResumeIsGapFree` | resuming is gap-free (`stream.rs`) | the frames of one line share a seq |
| `BridgeProtocol`, `DecisionForItsCard` | no id is needed, one request is ever parked (`sdk_runner.rs:127`) | a decision sent twice decides the next card |
| `BridgeProtocol`, `LinkIsItsOwn` | cards and requests are 1:1 and in order (`runtime.rs:591`) | a call rejected before its handler leaves its card to the next request |
| `BridgeProtocol`, `ParkedIsOffered` | the parked payload is what the session waits on (`records.rs:109`) | a message takes down the card of a permission that stays parked (`submit.rs:441`) |
| `AutoResume`, `StoppedIsNotTakenUp` | a kill cancels the schedule (`submit.rs:858`, `tests/auto_resume.rs:269`) | a pass that has claimed undoes a kill that comes before its follow-up |
| `NativeSync`, `TerminalTurnsReturn` | what was written in the terminal comes back with the session | a transcript begun anew is shorter than the watermark |
| `NativeSync`, `WatermarkStays` | a detach never lets the watermark regress below what was imported (`native_sync.rs:290`) | it falls back on the row it read before its first await, and an import that had not finished may set the watermark in between |
| `SessionWorkspaces`, `ForkIsAllOrNothing` | on any failure after partial work the worktrees are removed (`submit.rs:613`) | they stay when git refuses the second repository |
| `SessionWorkspaces`, `ForkStaysAtomic` | "Delete the row AND its worktrees so fork stays atomic" (`submit.rs:818`) | the error of the row's removal is ignored and its files go all the same; the removal of files is only logged |
| `SessionWorkspaces`, `RewindIsExact` | "restore the code state just before it ran" | a ref of an earlier attempt at the turn is restored |
| `SessionWorkspaces`, `RewindOnIdle` | a rewind requires an idle session (`admin.rs:114`) | a follow-up between the check and the restore is not seen |
| `Delegate`, `ExemptWholeFanOut` | the watchdog is parked while a fan-out is in flight (`delegate.rs:1163`) | the first of two runs to end takes the mark off |
| `Delegate`, `AbortIsClean` | a setup failure aborts the batch cleanly (`delegate.rs:876`) | a writer's first worktree stays when its second cannot be made |
| `Readers`, `DownloadNeverStitched` | a resume never stitches two versions (`sessions.rs:854`) | the file is opened after its tag was compared |
| `Readers`, `RoutedWorkerAble` | the worker is at least as capable as the router's pick (`router.rs:198`) | the choice is handed on by the name of its model, which another provider may offer too |
| `Readers`, `SkillNeverHalfUpdated` | a failed update restores the old version (`skill_install.rs:390`) | the restoring rename may fail as well, and its error is ignored |
| `Readers`, `SkillNotOverwritten` | adding a skill that exists answers AlreadyExists (`skills.rs:14`) | a directory published between the look and the mkdir gets the new SKILL.md |
| `Readers`, `GroupIsEnsured` | the group is created if absent (`store.rs:622`) | not when the id derived from its name belongs to a renamed group |
| `Readers`, `NoSessionInDeletedGroup` | deleting a group clears all references (`store.rs:705`) | a session put into it between the two statements keeps it |

Smaller ones, met while modelling and without a property: the floor of a worker's
model may degrade to the middle tier, against the description of `router.rs:10-12`;
`resume_gate.rs:21` describes another test than the code makes;
`workflows.rs:64-75` reads the directories of all sessions of a project; the watchdog tests
`pending_ask` and `pending_delegate` only (`watchdog.rs:123-125`), while
`submit.rs:923` speaks of an exemption of `pending_perm`; the source of a catalog entry
loses its branch (`skill_install.rs:907-911` against `:34`); `delete_skill` does not take
the lock whose comment names it (`:333`), and a crash between parking and publishing a
skill leaves a `.old-` directory; a page of a log may say `has_more` with only
deltas before it, and `limit=0` returns one event; the cap can be passed
(`mod.rs:519`: a result parks a session, a message wakes it without a slot; a forced
delete at `admin.rs:211` frees the slot of a start that still runs); `recover()`
re-queues a pending row with the text of its prompt column (`transition.rs:120`);
`follow_up` retitles a session whose title is pinned (`submit.rs:213`); the usage
route takes `now` before it waits for its lock.

## 6. Not modelled

With reasons, by component, in `PROJECT.json`. In short: token counts and joins for
display, templates and the session guide (no state, no decision rests on them);
login, certificates and throttling (access control); hooks and unit files; the HTTP of
GitHub, of the titling and routing models and of push; git's own arguments and
output formats beyond the kinds of lines; migrations; process environments. Within
the modelled parts: the `ended_at` column, the text of messages, tree blocks of a
transcript, plan mode, the watchdog's exemptions together with its cancel, the prompts
of workers, and a fan-out and a saga of a session on the same repository at once
(the two have no ref or directory in common).

Errors of SQLite, git and the file system are steps of `SessionWorkspaces`,
`Delegate`, `ConfigFiles` and `SkillStore`, the errors that the code ignores or only
logs included, and of no other module. In `SkillStore` the server does not stop in the
middle of a publication.

## 7. What is left

1. The exemption sets and the idle clock of the watchdog together with the marks of
   `BridgeProtocol`, and with them the hazards of `watchdog.rs:139` and
   `submit.rs:923`.
2. A composition of `AutoResume` and `NativeSync` with `SessionEngine`, whose
   `follow_up` they abstract each in its own way.
3. The usage reply's parsers and the repository matching of adoption, as pure
   operators.
