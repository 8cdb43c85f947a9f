-------------------------- MODULE SessionLog_proofs --------------------------
(***************************************************************************)
(* What the log of one session says: theorems about its turns              *)
(* (SessionTurns), for every number of messages and stops, and about what  *)
(* is imported into it from a terminal (NativeSync), for any number of     *)
(* callers, lines, crashes and losses.  The two parts share no variable.   *)
(***************************************************************************)
EXTENDS SessionTurns, NativeSync, FiniteSetTheorems, SequenceTheorems,
        WellFoundedInduction, TLAPS

Live == {"listen", "patch", "park"}

\* Who may be where: the start, the injection, the process and the pump task exclude each
\* other as the engine's map of running sessions and its queue make them.
Control ==
    /\ reg <=> hpc \in Live
    /\ hpc = "off" <=> proc = "none"
    /\ hpc = "off" => chan = {} /\ exit = "none"
    /\ queued => ipc = "off" /\ hpc = "off" /\ spc = "off" /\ status = "pending"
    /\ spc = "spawn" => hpc = "off" /\ ipc = "off" /\ sturn = turns
    /\ spc # "off" => sturn >= 1
    /\ ~up => hpc = "off" /\ spc = "off" /\ ipc = "off" /\ ~queued
    /\ exit # "none" => proc = "exited"
    /\ hpc = "exit" => exit # "none" /\ chan = {} /\ ~parked
    /\ proc \in {"none", "exited"} => stdin = <<>>
    /\ begun => stdin # <<>>
    /\ stops = 0 => orphan = <<>>
    /\ hpc # "off" \/ spc # "off" \/ ipc # "off" \/ status = "running" => turns >= 1

\* The channel holds what was read, a result is handled that is one, and a process that waits answered before.
Subject ==
    /\ \A i \in chan : i <= read
    /\ hpc \in {"patch", "park"} => chan # {} /\ IsResult(Event)
    /\ proc = "alive" /\ stdin = <<>> => Results # {}

\* The columns of the row follow the control.
RowControl ==
    /\ hpc # "off" \/ spc = "spawn" => status \in {"pending", "running", "killed"}
    /\ status \in {"pending", "running"} => code = "none"
    /\ hkill => hpc \in {"patch", "park"} /\ status = "killed"
    /\ hparked => hpc = "exit"
    /\ recovered => /\ status \in Terminal /\ hpc = "off" /\ spc = "off" /\ ipc = "off"
                    /\ ~queued

\* The channel holds the newest events of what was read.
Channel ==
    \A p \in chan, i \in 1..read : p < i /\ IsEvent(log[i]) => i \in chan

-----------------------------------------------------------------------------
\* The order of the turns.

\* A turn that is about to be given to a process is newer than every result and than all
\* that was given before.
Newest(t) ==
    /\ \A i \in Results : log[i].turn < t
    /\ \A k \in 1..Len(stdin) : stdin[k] < t
    /\ \A k \in 1..Len(orphan) : orphan[k] < t

Order ==
    /\ \A i \in Results, k \in 1..Len(stdin) : log[i].turn < stdin[k]
    /\ \A j, k \in 1..Len(stdin) : j < k => stdin[j] < stdin[k]
    /\ \A j \in 1..Len(orphan), k \in 1..Len(stdin) : orphan[j] < stdin[k]
    /\ ipc \in {"state", "write"} \/ spc = "spawn" => Newest(turns)
    /\ hpc # "off" => \A k \in 1..Len(orphan) : orphan[k] < turns
    /\ \A p \in 1..Len(log), i \in Results :
         log[p].kind = "init" /\ i < p => log[i].turn < log[p].turn

\* The markers of the turns are in the log, in their order, each before what belongs to it.
Markers ==
    /\ \A t \in Turn : \E j \in 1..Len(log) : log[j] = Line("prompt", t)
    /\ \A i, j \in 1..Len(log) :
         i < j /\ log[i].kind = "prompt" /\ log[j].kind = "prompt" => log[i].turn < log[j].turn
    /\ \A i \in Results : \E j \in 1..Len(log) : j < i /\ log[j] = Line("prompt", log[i].turn)

-----------------------------------------------------------------------------
\* The results the pump task has not handled yet, and those it counted.
Waiting == {i \in Results : hpc # "off" /\ (i \in chan \/ i > read)}

Counted == (Results \ Waiting) \cup (IF hpc = "park" THEN {First(chan)} ELSE {})

\* While nothing raced, only the last turn is in the process ...
InProcess == stdin # <<>> => stdin = <<turns>>

\* ... a message that is being injected finds it idle ...
AllRead == \A i \in 1..Len(log) : IsEvent(log[i]) => i <= read

InInjection ==
    ipc # "off" => /\ proc \in {"alive", "stopping"} /\ stdin = <<>> /\ chan = {} /\ hpc = "listen"
                   /\ err = "none" /\ AllRead

\* ... a process that waits answered the last turn, and what it writes after that is an error.
AnsweredIdle ==
    proc = "alive" /\ stdin = <<>> /\ ipc = "off" => \E i \in Results : log[i].turn = turns

AfterLast ==
    /\ \A i \in Results, j \in 1..Len(log) :
         j < i /\ log[j] = Line("prompt", turns) => log[i].turn = turns
    /\ \A i, j \in Results :
         i < j /\ log[i].turn = turns /\ log[j].turn = turns => log[j].kind = "bad"

OnlyLast == ~raced => InProcess /\ InInjection /\ AnsweredIdle /\ AfterLast

\* What the pump knows of it then: saw_result, the exit code and the error column.
SawOk == \E i \in Results : i <= read /\ log[i] = Line("ok", turns)

Knows ==
    ~raced /\ hpc # "off" =>
        /\ \A i \in Waiting : log[i].turn = turns
        /\ exit # "none" => \A i \in Results : i <= read
        /\ ipc = "off" /\ exit = "none" => (saw <=> SawOk)
        /\ exit # "none" => (exit = "zero" <=> SawOk)
        /\ ipc = "off" /\ status # "killed" =>
             (err # "none" <=> \E i \in Counted : log[i] = Line("bad", turns))

\* A parked session was told of its last turn, unless the user stopped it.
Told ==
    ~raced /\ hpc # "off" /\ (parked \/ hparked) /\ ipc # "state" =>
        status = "killed" \/ \E i \in 1..Len(pushes) : pushes[i] = turns

\* The row the last exit left.
Settled == hpc = "off" /\ code # "none" /\ status \in {"done", "failed"} /\ ~raced

Final == Settled => /\ status = "done" <=> Answered(turns)
                    /\ \E i \in 1..Len(pushes) : pushes[i] = turns

-----------------------------------------------------------------------------
\* Costs and announcements.

Costs ==
    stops = 0 =>
        /\ cost = Cardinality(Counted)
        /\ exit # "none" => \A i \in Results : i <= read

Pushed(t)    == {i \in 1..Len(pushes) : pushes[i] = t}
ResultsOf(t) == {i \in Results : log[i].turn = t}

\* What was announced of turn t was announced by results ...
ByResults(t) == Cardinality(Pushed(t)) <= Cardinality(ResultsOf(t) \ Waiting)

\* ... or, once, by the exit, and no result of it will ever come.
ByExit(t) ==
    /\ Cardinality(Pushed(t)) = 1 /\ ResultsOf(t) = {}
    /\ \A k \in 1..Len(stdin) : stdin[k] # t
    /\ \A k \in 1..Len(orphan) : orphan[k] # t
    /\ t = turns => hpc = "off" /\ spc # "spawn"

Announced ==
    /\ \A t \in Turn : ByResults(t) \/ ByExit(t)
    /\ hpc \in Live /\ ~parked => ResultsOf(turns) \subseteq Waiting
    /\ hpc = "exit" /\ ~hparked => ResultsOf(turns) \subseteq Waiting
    /\ exit # "none" => \A i \in Results : i > read => log[i].turn < turns
    /\ spc = "spawn" => \A i \in 1..Len(pushes) : pushes[i] < turns

-----------------------------------------------------------------------------
(* Operators. *)

\* The least element of a set of positions.
LEMMA Least ==
    ASSUME NEW S \in SUBSET Nat, S # {}
    PROVE  First(S) \in S /\ \A j \in S : First(S) <= j
<1>1. PICK x \in S : \A y \in S : ~ (<<y, x>> \in OpToRel(<, Nat))
  BY NatLessThanWellFounded, WFMin
<1>2. \A y \in S : ~ (y < x)
  BY <1>1 DEF OpToRel
<1>3. \A y \in S : x <= y
  BY <1>2
<1> QED BY <1>3 DEF First

\* The greatest element is the one whose distance to a bound is least.
LEMMA Greatest ==
    ASSUME NEW n \in Nat, NEW S \in SUBSET (1..n), S # {}
    PROVE  Last(S) \in S /\ \A j \in S : j <= Last(S)
<1> DEFINE T == {m \in Nat : n - m \in S}
<1>1. PICK s \in S : TRUE
  OBVIOUS
<1>2. n - s \in T
  OBVIOUS
<1>3. First(T) \in T /\ \A j \in T : First(T) <= j
  <2>1. T \in SUBSET Nat /\ T # {}
    BY <1>2
  <2> HIDE DEF T
  <2> QED BY <2>1, Least
<1>4. \A j \in S : n - j \in T
  OBVIOUS
<1>5. n - First(T) \in S /\ \A j \in S : j <= n - First(T)
  BY <1>3, <1>4
<1> QED BY <1>5 DEF Last

\* The event in hand is the oldest of the channel.
LEMMA ChanFirst ==
    ASSUME TypeOK, chan # {}
    PROVE  /\ First(chan) \in chan /\ \A j \in chan : First(chan) <= j
           /\ First(chan) \in 1..Len(log)
<1>1. chan \in SUBSET Nat
  BY DEF TypeOK
<1> QED BY <1>1, Least DEF TypeOK

\* Results are finitely many positions of the log.
LEMMA ResultsFinite ==
    ASSUME TypeOK
    PROVE  IsFiniteSet(Results) /\ Results \in SUBSET (1..Len(log))
<1>1. IsFiniteSet(1..Len(log))
  BY FS_Interval DEF TypeOK
<1> QED BY <1>1, FS_Subset DEF Results

-----------------------------------------------------------------------------
(* Types. *)

Flags ==
    /\ up \in BOOLEAN /\ queued \in BOOLEAN /\ begun \in BOOLEAN /\ saw \in BOOLEAN
    /\ reg \in BOOLEAN /\ parked \in BOOLEAN /\ hkill \in BOOLEAN /\ hparked \in BOOLEAN
    /\ recovered \in BOOLEAN /\ raced \in BOOLEAN

Places ==
    /\ status \in {"pending", "running"} \cup Terminal
    /\ err \in {"none", "claude", "crash", "interrupted"}
    /\ code \in {"none", "zero", "one"} /\ exit \in {"none", "zero", "one"}
    /\ spc \in {"off", "spawn", "publish", "sidecar"}
    /\ ipc \in {"off", "log", "state", "write"}
    /\ proc \in {"none", "alive", "stopping", "exited"}
    /\ hpc \in {"off", "listen", "patch", "park", "exit"}

Numbers ==
    /\ msgs \in 1..MaxMsgs /\ cost \in Nat /\ turns \in Nat /\ sturn \in 0..turns
    /\ startedAt \in 0..turns /\ stops \in 0..MaxStops

LogLine == [kind : {"prompt", "init", "ok", "bad"}, turn : Turn]
Sequences ==
    /\ stdin \in Seq(Turn) /\ orphan \in Seq(Turn) /\ pushes \in Seq(Turn)
    /\ log \in Seq(LogLine)

Positions ==
    /\ read \in 0..Len(log)
    /\ chan \in SUBSET (1..Len(log)) /\ \A i \in chan : IsEvent(log[i])

\* TypeOK in parts, so that no step has to expand the whole of it.
LEMMA TypeParts == TypeOK <=> Flags /\ Places /\ Numbers /\ Sequences /\ Positions
BY Zenon DEF TypeOK, Flags, Places, Numbers, LogLine, Sequences, Positions

\* The initial state has its types.
LEMMA TypeInit == Init => TypeOK
<1> SUFFICES ASSUME Init PROVE TypeOK
  OBVIOUS
<1>1. Flags
  BY DEF Init, Flags
<1>2. Places
  BY DEF Init, Places
<1>3. Numbers
  BY TurnsAssumption DEF TurnsAssumption, Init, Numbers
<1>4. Sequences /\ Positions
  BY DEF Init, Sequences, Positions
<1> QED BY <1>1, <1>2, <1>3, <1>4, TypeParts

\* Every action keeps the flags booleans.
LEMMA FlagsStep == Flags /\ [Next]_vars => Flags'
<1> SUFFICES ASSUME Flags, [Next]_vars PROVE Flags'
  OBVIOUS
<1> USE DEF Flags, rowVars, userVars, engVars, procVars, tailVars, pumpVars, bootVars
<1>1. CASE FollowUpQueued
  BY <1>1, Zenon DEF FollowUpQueued
<1>2. CASE InjectBegin
  BY <1>2, Zenon DEF InjectBegin
<1>3. CASE InjectLog
  BY <1>3, Zenon DEF InjectLog
<1>4. CASE InjectState
  BY <1>4, Zenon DEF InjectState
<1>5. CASE InjectWrite
  BY <1>5, Zenon DEF InjectWrite
<1>6. CASE Kill
  BY <1>6, Zenon DEF Kill
<1>7. CASE StartLog
  BY <1>7, Zenon DEF StartLog
<1>8. CASE StartSpawn
  BY <1>8, Zenon DEF StartSpawn
<1>9. CASE StartPublish
  BY <1>9, Zenon DEF StartPublish
<1>10. CASE StartSidecar
  BY <1>10, Zenon DEF StartSidecar
<1>11. CASE BridgeInit
  BY <1>11, Zenon DEF BridgeInit
<1>12. CASE BridgeResult
  BY <1>12, Zenon DEF BridgeResult
<1>13. CASE BridgeThrow
  BY <1>13, Zenon DEF BridgeThrow
<1>14. CASE BridgeExit
  BY <1>14, Zenon DEF BridgeExit
<1>15. CASE OrphanResult
  BY <1>15, Zenon DEF OrphanResult
<1>16. CASE Poll
  BY <1>16, Zenon DEF Poll, SawSuccess
<1>17. CASE PollFinal
  BY <1>17, Zenon DEF PollFinal, SawSuccess
<1>18. CASE EventInit
  BY <1>18, Zenon DEF EventInit
<1>19. CASE ResultGet
  BY <1>19, Zenon DEF ResultGet
<1>20. CASE ResultPatch
  BY <1>20, Zenon DEF ResultPatch
<1>21. CASE ResultPark
  BY <1>21, Zenon DEF ResultPark
<1>22. CASE ExitBegin
  BY <1>22, Zenon DEF ExitBegin
<1>23. CASE ExitApply
  BY <1>23, Zenon DEF ExitApply, FinalRow
<1>24. CASE Stop
  BY <1>24, Zenon DEF Stop
<1>25. CASE Recover
  BY <1>25, Zenon DEF Recover
<1>26. CASE UNCHANGED vars
  BY <1>26, Zenon DEF vars
<1> QED
  BY <1>1, <1>2, <1>3, <1>4, <1>5, <1>6, <1>7, <1>8, <1>9, <1>10, <1>11, <1>12, <1>13, <1>14, <1>15,
     <1>16, <1>17, <1>18, <1>19, <1>20, <1>21, <1>22, <1>23, <1>24, <1>25, <1>26 DEF Next, PumpStep

\* Every action keeps the places, the columns and the exit codes in their ranges.
LEMMA PlacesStep == Places /\ [Next]_vars => Places'
<1> SUFFICES ASSUME Places, [Next]_vars PROVE Places'
  OBVIOUS
<1> USE DEF Places, Terminal, rowVars, userVars, engVars, procVars, tailVars, pumpVars, bootVars
<1>1. CASE FollowUpQueued
  BY <1>1 DEF FollowUpQueued
<1>2. CASE InjectBegin
  BY <1>2 DEF InjectBegin
<1>3. CASE InjectLog
  BY <1>3 DEF InjectLog
<1>4. CASE InjectState
  BY <1>4 DEF InjectState
<1>5. CASE InjectWrite
  BY <1>5 DEF InjectWrite
<1>6. CASE Kill
  BY <1>6 DEF Kill
<1>7. CASE StartLog
  BY <1>7 DEF StartLog
<1>8. CASE StartSpawn
  BY <1>8 DEF StartSpawn
<1>9. CASE StartPublish
  BY <1>9 DEF StartPublish
<1>10. CASE StartSidecar
  BY <1>10 DEF StartSidecar
<1>11. CASE BridgeInit
  BY <1>11 DEF BridgeInit
<1>12. CASE BridgeResult
  BY <1>12 DEF BridgeResult
<1>13. CASE BridgeThrow
  BY <1>13 DEF BridgeThrow
<1>14. CASE BridgeExit
  BY <1>14 DEF BridgeExit
<1>15. CASE OrphanResult
  BY <1>15 DEF OrphanResult
<1>16. CASE Poll
  BY <1>16 DEF Poll
<1>17. CASE PollFinal
  BY <1>17 DEF PollFinal
<1>18. CASE EventInit
  BY <1>18 DEF EventInit
<1>19. CASE ResultGet
  BY <1>19 DEF ResultGet
<1>20. CASE ResultPatch
  BY <1>20 DEF ResultPatch
<1>21. CASE ResultPark
  BY <1>21 DEF ResultPark
<1>22. CASE ExitBegin
  BY <1>22 DEF ExitBegin
<1>23. CASE ExitApply
  BY <1>23 DEF ExitApply, FinalRow, ExitStatus
<1>24. CASE Stop
  BY <1>24 DEF Stop
<1>25. CASE Recover
  BY <1>25 DEF Recover
<1>26. CASE UNCHANGED vars
  BY <1>26 DEF vars
<1> QED
  BY <1>1, <1>2, <1>3, <1>4, <1>5, <1>6, <1>7, <1>8, <1>9, <1>10, <1>11, <1>12, <1>13, <1>14, <1>15,
     <1>16, <1>17, <1>18, <1>19, <1>20, <1>21, <1>22, <1>23, <1>24, <1>25, <1>26 DEF Next, PumpStep

\* Every action keeps the counters natural numbers.
LEMMA NumbersStep == Numbers /\ [Next]_vars => Numbers'
<1> SUFFICES ASSUME Numbers, [Next]_vars PROVE Numbers'
  OBVIOUS
<1> USE TurnsAssumption DEF TurnsAssumption, Numbers, rowVars, userVars, engVars, procVars, tailVars,
pumpVars, bootVars
<1>1. CASE FollowUpQueued
  BY <1>1 DEF FollowUpQueued
<1>2. CASE InjectBegin
  BY <1>2 DEF InjectBegin
<1>3. CASE InjectLog
  BY <1>3 DEF InjectLog
<1>4. CASE InjectState
  BY <1>4 DEF InjectState
<1>5. CASE InjectWrite
  BY <1>5 DEF InjectWrite
<1>6. CASE Kill
  BY <1>6 DEF Kill
<1>7. CASE StartLog
  BY <1>7 DEF StartLog
<1>8. CASE StartSpawn
  BY <1>8 DEF StartSpawn
<1>9. CASE StartPublish
  BY <1>9 DEF StartPublish
<1>10. CASE StartSidecar
  BY <1>10 DEF StartSidecar
<1>11. CASE BridgeInit
  BY <1>11 DEF BridgeInit
<1>12. CASE BridgeResult
  BY <1>12 DEF BridgeResult
<1>13. CASE BridgeThrow
  BY <1>13 DEF BridgeThrow
<1>14. CASE BridgeExit
  BY <1>14 DEF BridgeExit
<1>15. CASE OrphanResult
  BY <1>15 DEF OrphanResult
<1>16. CASE Poll
  BY <1>16 DEF Poll
<1>17. CASE PollFinal
  BY <1>17 DEF PollFinal
<1>18. CASE EventInit
  BY <1>18 DEF EventInit
<1>19. CASE ResultGet
  BY <1>19 DEF ResultGet
<1>20. CASE ResultPatch
  BY <1>20 DEF ResultPatch
<1>21. CASE ResultPark
  BY <1>21 DEF ResultPark
<1>22. CASE ExitBegin
  BY <1>22 DEF ExitBegin
<1>23. CASE ExitApply
  BY <1>23 DEF ExitApply, FinalRow
<1>24. CASE Stop
  BY <1>24 DEF Stop
<1>25. CASE Recover
  BY <1>25 DEF Recover
<1>26. CASE UNCHANGED vars
  BY <1>26 DEF vars
<1> QED
  BY <1>1, <1>2, <1>3, <1>4, <1>5, <1>6, <1>7, <1>8, <1>9, <1>10, <1>11, <1>12, <1>13, <1>14, <1>15,
     <1>16, <1>17, <1>18, <1>19, <1>20, <1>21, <1>22, <1>23, <1>24, <1>25, <1>26 DEF Next, PumpStep

\* A line is a record of the log.
LEMMA LineType ==
    ASSUME TypeOK, NEW i \in 1..Len(log)
    PROVE  /\ log[i].turn \in Turn /\ log[i].kind \in {"prompt", "init", "ok", "bad"}
           /\ log[i] = Line(log[i].kind, log[i].turn)
<1>1. log[i] \in [kind : {"prompt", "init", "ok", "bad"}, turn : Turn]
  BY ElementOfSeq DEF TypeOK
<1> QED BY <1>1 DEF Line

\* The turn of an event, of the head of what a process was given, and of what a query that
\* throws reports.
LEMMA EventTurn ==
    ASSUME TypeOK, chan # {}
    PROVE  Event.turn \in Turn /\ IsEvent(Event)
BY ChanFirst, LineType DEF TypeOK, Event

\* What a process or an orphan was given first is a turn.
LEMMA HeadTurn ==
    ASSUME TypeOK
    PROVE  /\ stdin # <<>> => Head(stdin) \in Turn /\ Tail(stdin) \in Seq(Turn)
           /\ orphan # <<>> => Head(orphan) \in Turn /\ Tail(orphan) \in Seq(Turn)
           /\ <<>> \in Seq(Turn)
BY HeadTailProperties DEF TypeOK

\* What a query that throws reports is a turn, given or answered.
LEMMA LastGivenTurn ==
    ASSUME TypeOK, stdin # <<>> \/ Results # {}
    PROVE  LastGiven \in Turn
<1>1. CASE stdin # <<>>
  BY <1>1, HeadTurn DEF LastGiven
<1>2. CASE stdin = <<>>
  <2>1. Len(log) \in Nat
    BY DEF TypeOK
  <2>2. Last(Results) \in Results
    BY <1>2, <2>1, Greatest, ResultsFinite
  <2> QED BY <1>2, <2>2, ResultsFinite, LineType DEF LastGiven
<1> QED BY <1>1, <1>2

\* Every action keeps the sequences over their elements.
LEMMA SequencesStep == TypeOK /\ Control /\ Subject /\ [Next]_vars => Sequences'
<1> SUFFICES ASSUME TypeOK, Control, Subject, [Next]_vars PROVE Sequences'
  OBVIOUS
<1>0. TypeOK /\ Control /\ Subject /\ Flags /\ Places /\ Numbers /\ Sequences /\ Positions
  BY TypeParts
<1> USE DEF rowVars, userVars, engVars, procVars, tailVars, pumpVars, bootVars
<1>1. CASE FollowUpQueued
  BY <1>0, <1>1 DEF FollowUpQueued, Sequences, LogLine, Turn
<1>2. CASE InjectBegin
  BY <1>0, <1>2 DEF InjectBegin, Sequences, LogLine, Turn
<1>3. CASE InjectLog
  <2>1. turns' = turns + 1 /\ log' = Append(log, Line("prompt", turns + 1))
    BY <1>3 DEF InjectLog
  <2>2. UNCHANGED <<stdin, orphan, pushes>>
    BY <1>3 DEF InjectLog
  <2>3. Turn \subseteq Turn' /\ turns + 1 \in Turn'
    BY <1>0, <2>1 DEF Turn, Numbers
  <2>4. stdin \in Seq(Turn') /\ orphan \in Seq(Turn') /\ pushes \in Seq(Turn')
    BY <1>0, <2>3, SeqMonotonic DEF Sequences
  <2>5. LogLine \subseteq LogLine' /\ Line("prompt", turns + 1) \in LogLine'
    BY <2>3 DEF LogLine, Line
  <2>6. log \in Seq(LogLine')
    BY <1>0, <2>5, SeqMonotonic DEF Sequences
  <2>7. log' \in Seq(LogLine')
    BY <2>1, <2>5, <2>6, AppendProperties
  <2> QED BY <2>2, <2>4, <2>7 DEF Sequences
<1>4. CASE InjectState
  BY <1>0, <1>4 DEF InjectState, Sequences, LogLine, Turn
<1>5. CASE InjectWrite
  <2>1. turns \in Turn
    BY <1>0, <1>5 DEF InjectWrite, Order, Turn, Numbers, Control
  <2>2. stdin' \in Seq(Turn)
    BY <1>0, <2>1, <1>5, AppendProperties DEF InjectWrite, Sequences
  <2> QED BY <1>0, <2>2, <1>5 DEF InjectWrite, Sequences, LogLine, Turn
<1>6. CASE Kill
  BY <1>0, <1>6 DEF Kill, Sequences, LogLine, Turn
<1>7. CASE StartLog
  <2>1. turns' = turns + 1 /\ log' = Append(log, Line("prompt", turns + 1))
    BY <1>7 DEF StartLog
  <2>2. UNCHANGED <<stdin, orphan, pushes>>
    BY <1>7 DEF StartLog
  <2>3. Turn \subseteq Turn' /\ turns + 1 \in Turn'
    BY <1>0, <2>1 DEF Turn, Numbers
  <2>4. stdin \in Seq(Turn') /\ orphan \in Seq(Turn') /\ pushes \in Seq(Turn')
    BY <1>0, <2>3, SeqMonotonic DEF Sequences
  <2>5. LogLine \subseteq LogLine' /\ Line("prompt", turns + 1) \in LogLine'
    BY <2>3 DEF LogLine, Line
  <2>6. log \in Seq(LogLine')
    BY <1>0, <2>5, SeqMonotonic DEF Sequences
  <2>7. log' \in Seq(LogLine')
    BY <2>1, <2>5, <2>6, AppendProperties
  <2> QED BY <2>2, <2>4, <2>7 DEF Sequences
<1>8. CASE StartSpawn
  <2>1. sturn \in Turn
    BY <1>0, <1>8 DEF StartSpawn, Turn, Numbers, Control
  <2>2. <<sturn>> \in Seq(Turn) /\ <<>> \in Seq(Turn)
    BY <2>1
  <2>3. stdin' \in Seq(Turn)
    BY <2>2, <1>8 DEF StartSpawn
  <2> QED BY <1>0, <2>3, <1>8 DEF StartSpawn, Sequences, LogLine, Turn
<1>9. CASE StartPublish
  BY <1>0, <1>9 DEF StartPublish, Sequences, LogLine, Turn
<1>10. CASE StartSidecar
  BY <1>0, <1>10 DEF StartSidecar, Sequences, LogLine, Turn
<1>11. CASE BridgeInit
  <2>1. PICK l \in LogLine : log' = Append(log, l)
    BY <1>0, <1>11, HeadTurn DEF BridgeInit, LogLine, Line
  <2>2. log' \in Seq(LogLine)
    BY <1>0, <2>1, AppendProperties DEF Sequences
  <2>3. UNCHANGED <<turns, stdin, orphan, pushes>>
    BY <1>11 DEF BridgeInit
  <2> QED BY <1>0, <2>2, <2>3 DEF Sequences, LogLine, Turn
<1>12. CASE BridgeResult
  <2>1. PICK l \in LogLine : log' = Append(log, l)
    BY <1>0, <1>12, HeadTurn DEF BridgeResult, LogLine, Line, Control
  <2>2. log' \in Seq(LogLine)
    BY <1>0, <2>1, AppendProperties DEF Sequences
  <2>3. UNCHANGED <<turns, orphan, pushes>> /\ stdin' \in Seq(Turn)
    BY <1>0, <1>12, HeadTurn DEF BridgeResult, Control
  <2> QED BY <1>0, <2>2, <2>3 DEF Sequences, LogLine, Turn
<1>13. CASE BridgeThrow
  <2>1. PICK l \in LogLine : log' = Append(log, l)
    BY <1>0, <1>13, LastGivenTurn DEF BridgeThrow, LogLine, Line, Subject
  <2>2. log' \in Seq(LogLine)
    BY <1>0, <2>1, AppendProperties DEF Sequences
  <2>3. UNCHANGED <<turns, orphan, pushes>> /\ stdin' \in Seq(Turn)
    BY <1>0, <1>13 DEF BridgeThrow
  <2> QED BY <1>0, <2>2, <2>3 DEF Sequences, LogLine, Turn
<1>14. CASE BridgeExit
  BY <1>0, <1>14 DEF BridgeExit, Sequences, LogLine, Turn
<1>15. CASE OrphanResult
  <2>1. PICK l \in LogLine : log' = Append(log, l)
    BY <1>0, <1>15, HeadTurn DEF OrphanResult, LogLine, Line
  <2>2. log' \in Seq(LogLine)
    BY <1>0, <2>1, AppendProperties DEF Sequences
  <2>3. UNCHANGED <<turns, stdin, pushes>> /\ orphan' \in Seq(Turn)
    BY <1>0, <1>15, HeadTurn DEF OrphanResult
  <2> QED BY <1>0, <2>2, <2>3 DEF Sequences, LogLine, Turn
<1>16. CASE Poll
  BY <1>0, <1>16 DEF Poll, Sequences, LogLine, Turn
<1>17. CASE PollFinal
  BY <1>0, <1>17 DEF PollFinal, Sequences, LogLine, Turn
<1>18. CASE EventInit
  BY <1>0, <1>18 DEF EventInit, Sequences, LogLine, Turn
<1>19. CASE ResultGet
  BY <1>0, <1>19 DEF ResultGet, Sequences, LogLine, Turn
<1>20. CASE ResultPatch
  BY <1>0, <1>20 DEF ResultPatch, Sequences, LogLine, Turn
<1>21. CASE ResultPark
  <2>1. Append(pushes, Event.turn) \in Seq(Turn)
    BY <1>0, <1>21, EventTurn, AppendProperties DEF ResultPark, Subject, Sequences
  <2> QED BY <1>0, <2>1, <1>21 DEF ResultPark, Sequences, LogLine, Turn
<1>22. CASE ExitBegin
  BY <1>0, <1>22 DEF ExitBegin, Sequences, LogLine, Turn
<1>23. CASE ExitApply
  <2>1. turns \in Turn
    BY <1>0, <1>23 DEF ExitApply, Control, Numbers, Turn
  <2>2. Append(pushes, turns) \in Seq(Turn)
    BY <1>0, <2>1, AppendProperties DEF Sequences
  <2> QED BY <1>0, <2>2, <1>23 DEF ExitApply, FinalRow, Sequences, LogLine, Turn
<1>24. CASE Stop
  BY <1>0, <1>24 DEF Stop, Sequences, LogLine, Turn
<1>25. CASE Recover
  BY <1>0, <1>25 DEF Recover, Sequences, LogLine, Turn
<1>26. CASE UNCHANGED vars
  BY <1>0, <1>26 DEF vars, Sequences, LogLine, Turn
<1> QED
  BY <1>1, <1>2, <1>3, <1>4, <1>5, <1>6, <1>7, <1>8, <1>9, <1>10, <1>11, <1>12, <1>13, <1>14, <1>15,
     <1>16, <1>17, <1>18, <1>19, <1>20, <1>21, <1>22, <1>23, <1>24, <1>25, <1>26 DEF Next, PumpStep

\* Every action keeps the tailer's offset and the channel inside the log.
LEMMA PositionsStep == TypeOK /\ Control /\ Subject /\ [Next]_vars => Positions'
<1> SUFFICES ASSUME TypeOK, Control, Subject, [Next]_vars PROVE Positions'
  OBVIOUS
<1>0. Flags /\ Places /\ Numbers /\ Sequences /\ Positions
  BY TypeParts
<1> USE DEF rowVars, userVars, engVars, procVars, tailVars, pumpVars, bootVars
<1>1. CASE FollowUpQueued
  BY <1>0, <1>1 DEF FollowUpQueued, Sequences, Positions, IsEvent
<1>2. CASE InjectBegin
  BY <1>0, <1>2 DEF InjectBegin, Sequences, Positions, IsEvent
<1>3. CASE InjectLog
  BY <1>0, <1>3 DEF InjectLog, Sequences, Positions, IsEvent
<1>4. CASE InjectState
  BY <1>0, <1>4 DEF InjectState, Sequences, Positions, IsEvent
<1>5. CASE InjectWrite
  BY <1>0, <1>5 DEF InjectWrite, Sequences, Positions, IsEvent
<1>6. CASE Kill
  BY <1>0, <1>6 DEF Kill, Sequences, Positions, IsEvent
<1>7. CASE StartLog
  BY <1>0, <1>7 DEF StartLog, Sequences, Positions, IsEvent
<1>8. CASE StartSpawn
  BY <1>0, <1>8 DEF StartSpawn, Sequences, Positions, IsEvent
<1>9. CASE StartPublish
  BY <1>0, <1>9 DEF StartPublish, Sequences, Positions, IsEvent
<1>10. CASE StartSidecar
  BY <1>0, <1>10 DEF StartSidecar, Sequences, Positions, IsEvent
<1>11. CASE BridgeInit
  BY <1>0, <1>11 DEF BridgeInit, Sequences, Positions, IsEvent
<1>12. CASE BridgeResult
  BY <1>0, <1>12 DEF BridgeResult, Sequences, Positions, IsEvent
<1>13. CASE BridgeThrow
  BY <1>0, <1>13 DEF BridgeThrow, Sequences, Positions, IsEvent
<1>14. CASE BridgeExit
  BY <1>0, <1>14 DEF BridgeExit, Sequences, Positions, IsEvent
<1>15. CASE OrphanResult
  BY <1>0, <1>15 DEF OrphanResult, Sequences, Positions, IsEvent
<1>16. CASE Poll
  <2>1. /\ chan' = chan \cup {i \in Unread : IsEvent(log[i])}
        /\ read' = Len(log) /\ log' = log
    BY <1>16 DEF Poll
  <2>2. Unread \subseteq 1..Len(log) /\ Len(log) \in Nat
    BY <1>0 DEF Unread, Sequences, Positions
  <2>3. \A i \in chan : IsEvent(log[i])
    BY <1>0 DEF Positions
  <2>4. chan \in SUBSET (1..Len(log))
    BY <1>0 DEF Positions
  <2>5. chan' \in SUBSET (1..Len(log))
    BY <2>1, <2>2, <2>4
  <2>6. \A i \in chan' : IsEvent(log[i])
    BY <2>1, <2>3
  <2>7. read' \in 0..Len(log)
    BY <2>1, <2>2
  <2> QED BY <2>1, <2>5, <2>6, <2>7 DEF Positions, IsEvent
<1>17. CASE PollFinal
  <2>1. /\ chan' = chan \cup {i \in Unread : IsEvent(log[i])}
        /\ read' = Len(log) /\ log' = log
    BY <1>17 DEF PollFinal
  <2>2. Unread \subseteq 1..Len(log) /\ Len(log) \in Nat
    BY <1>0 DEF Unread, Sequences, Positions
  <2>3. \A i \in chan : IsEvent(log[i])
    BY <1>0 DEF Positions
  <2>4. chan \in SUBSET (1..Len(log))
    BY <1>0 DEF Positions
  <2>5. chan' \in SUBSET (1..Len(log))
    BY <2>1, <2>2, <2>4
  <2>6. \A i \in chan' : IsEvent(log[i])
    BY <2>1, <2>3
  <2>7. read' \in 0..Len(log)
    BY <2>1, <2>2
  <2> QED BY <2>1, <2>5, <2>6, <2>7 DEF Positions, IsEvent
<1>18. CASE EventInit
  BY <1>0, <1>18 DEF EventInit, Sequences, Positions, IsEvent
<1>19. CASE ResultGet
  BY <1>0, <1>19 DEF ResultGet, Sequences, Positions, IsEvent
<1>20. CASE ResultPatch
  BY <1>0, <1>20 DEF ResultPatch, Sequences, Positions, IsEvent
<1>21. CASE ResultPark
  BY <1>0, <1>21 DEF ResultPark, Sequences, Positions, IsEvent
<1>22. CASE ExitBegin
  BY <1>0, <1>22 DEF ExitBegin, Sequences, Positions, IsEvent
<1>23. CASE ExitApply
  BY <1>0, <1>23 DEF ExitApply, FinalRow, Sequences, Positions
<1>24. CASE Stop
  BY <1>0, <1>24 DEF Stop, Sequences, Positions, IsEvent
<1>25. CASE Recover
  BY <1>0, <1>25 DEF Recover, Sequences, Positions, IsEvent
<1>26. CASE UNCHANGED vars
  BY <1>0, <1>26 DEF vars, Sequences, Positions, IsEvent
<1> QED
  BY <1>1, <1>2, <1>3, <1>4, <1>5, <1>6, <1>7, <1>8, <1>9, <1>10, <1>11, <1>12, <1>13, <1>14, <1>15,
     <1>16, <1>17, <1>18, <1>19, <1>20, <1>21, <1>22, <1>23, <1>24, <1>25, <1>26 DEF Next, PumpStep

\* The parts together.
LEMMA TypeStep == TypeOK /\ Control /\ Subject /\ [Next]_vars => TypeOK'
<1> SUFFICES ASSUME TypeOK, Control, Subject, [Next]_vars PROVE TypeOK'
  OBVIOUS
<1>1. Flags /\ Places /\ Numbers
  BY TypeParts
<1>2. Flags' /\ Places' /\ Numbers' /\ Sequences' /\ Positions'
  BY <1>1, FlagsStep, PlacesStep, NumbersStep, SequencesStep, PositionsStep
<1>3. TypeOK' <=> Flags' /\ Places' /\ Numbers' /\ Sequences' /\ Positions'
  BY Zenon DEF TypeOK, Flags, Places, Numbers, LogLine, Sequences, Positions
<1> QED BY <1>2, <1>3

-----------------------------------------------------------------------------
(* Who may be where. *)

\* No action lets two of start, injection, process and pump task be where the engine
\* forbids it.
LEMMA ControlStep == TypeOK /\ Control /\ [Next]_vars => Control'
<1> SUFFICES ASSUME TypeOK, Control, [Next]_vars PROVE Control'
  OBVIOUS
<1>0. Flags /\ Places /\ Numbers /\ Control
  BY TypeParts
<1> USE DEF Flags, Places, Numbers, Control, Live, rowVars, userVars, engVars, procVars, tailVars,
pumpVars, bootVars
<1>1. CASE FollowUpQueued
  BY <1>0, <1>1 DEF FollowUpQueued
<1>2. CASE InjectBegin
  BY <1>0, <1>2 DEF InjectBegin
<1>3. CASE InjectLog
  BY <1>0, <1>3 DEF InjectLog
<1>4. CASE InjectState
  BY <1>0, <1>4 DEF InjectState
<1>5. CASE InjectWrite
  BY <1>0, <1>5 DEF InjectWrite
<1>6. CASE Kill
  BY <1>0, <1>6 DEF Kill, Legal, Terminal
<1>7. CASE StartLog
  BY <1>0, <1>7 DEF StartLog
<1>8. CASE StartSpawn
  BY <1>0, <1>8 DEF StartSpawn
<1>9. CASE StartPublish
  BY <1>0, <1>9 DEF StartPublish
<1>10. CASE StartSidecar
  BY <1>0, <1>10 DEF StartSidecar
<1>11. CASE BridgeInit
  BY <1>0, <1>11 DEF BridgeInit
<1>12. CASE BridgeResult
  BY <1>0, <1>12 DEF BridgeResult
<1>13. CASE BridgeThrow
  BY <1>0, <1>13 DEF BridgeThrow
<1>14. CASE BridgeExit
  BY <1>0, <1>14 DEF BridgeExit
<1>15. CASE OrphanResult
  BY <1>0, <1>15 DEF OrphanResult
<1>16. CASE Poll
  BY <1>0, <1>16 DEF Poll
<1>17. CASE PollFinal
  BY <1>0, <1>17 DEF PollFinal
<1>18. CASE EventInit
  BY <1>0, <1>18 DEF EventInit
<1>19. CASE ResultGet
  BY <1>0, <1>19 DEF ResultGet
<1>20. CASE ResultPatch
  BY <1>0, <1>20 DEF ResultPatch
<1>21. CASE ResultPark
  BY <1>0, <1>21 DEF ResultPark
<1>22. CASE ExitBegin
  BY <1>0, <1>22 DEF ExitBegin
<1>23. CASE ExitApply
  BY <1>0, <1>23 DEF ExitApply, FinalRow, ExitStatus, Terminal
<1>24. CASE Stop
  BY <1>0, <1>24 DEF Stop
<1>25. CASE Recover
  BY <1>0, <1>25 DEF Recover
<1>26. CASE UNCHANGED vars
  BY <1>0, <1>26 DEF vars
<1> QED
  BY <1>1, <1>2, <1>3, <1>4, <1>5, <1>6, <1>7, <1>8, <1>9, <1>10, <1>11, <1>12, <1>13, <1>14, <1>15,
     <1>16, <1>17, <1>18, <1>19, <1>20, <1>21, <1>22, <1>23, <1>24, <1>25, <1>26 DEF Next, PumpStep

-----------------------------------------------------------------------------
(* The log. *)

\* What a step may write.
Writes(k, t) ==
    /\ k \in {"prompt", "init", "ok", "bad"} /\ t \in Turn'
    /\ Len(log') = Len(log) + 1 /\ \A i \in 1..Len(log) : log'[i] = log[i]
    /\ log'[Len(log) + 1] = Line(k, t)
    /\ Results' = Results \cup (IF k \in {"ok", "bad"} THEN {Len(log) + 1} ELSE {})

\* An append of a line is a write of it: the old lines stay, and it is a result or it is
\* none.
LEMMA Appended ==
    ASSUME TypeOK, TypeOK', NEW k \in {"prompt", "init", "ok", "bad"}, NEW t \in Turn',
           log' = Append(log, Line(k, t))
    PROVE  Writes(k, t)
<1>1. log \in Seq(LogLine) /\ log' \in Seq(LogLine')
  BY DEF TypeOK, LogLine
<1>2. Line(k, t) \in LogLine'
  BY DEF Line, LogLine
<1>3. /\ log \in Seq(LogLine \cup LogLine')
      /\ Line(k, t) \in LogLine \cup LogLine'
  BY <1>1, <1>2, SeqMonotonic
<1>4. /\ Len(log') = Len(log) + 1 /\ \A i \in 1..Len(log) : log'[i] = log[i]
      /\ log'[Len(log) + 1] = Line(k, t)
  BY <1>3, AppendProperties
<1>5. Len(log) \in Nat
  BY DEF TypeOK
<1>6. IsResult(Line(k, t)) <=> k \in {"ok", "bad"}
  BY DEF IsResult, Line
<1>7. Results' = Results \cup (IF k \in {"ok", "bad"} THEN {Len(log) + 1} ELSE {})
  <2>1. Results' = {i \in 1..(Len(log) + 1) : IsResult(log'[i])}
    BY <1>4 DEF Results
  <2>2. \A i \in 1..Len(log) : IsResult(log'[i]) <=> IsResult(log[i])
    BY <1>4 DEF IsResult
  <2>3. IsResult(log'[Len(log) + 1]) <=> k \in {"ok", "bad"}
    BY <1>4, <1>6
  <2> QED BY <1>5, <2>1, <2>2, <2>3 DEF Results
<1> QED BY <1>4, <1>7 DEF Writes

\* Which actions write, and what.
LEMMA LogStep ==
    ASSUME TypeOK, TypeOK', Control, Subject
    PROVE  /\ InjectLog \/ StartLog => Writes("prompt", turns + 1)
           /\ BridgeInit => Writes("init", Head(stdin))
           /\ BridgeResult => \E k \in {"ok", "bad"} : Writes(k, Head(stdin))
           /\ BridgeThrow => Writes("bad", LastGiven)
           /\ OrphanResult => \E k \in {"ok", "bad"} : Writes(k, Head(orphan))
<1>0. turns \in Nat
  BY DEF TypeOK
<1>1. ASSUME InjectLog \/ StartLog PROVE Writes("prompt", turns + 1)
  <2>1. turns + 1 \in Turn'
    BY <1>0, <1>1 DEF InjectLog, StartLog, Turn
  <2> QED BY <1>1, <2>1, Appended DEF InjectLog, StartLog
<1>2. ASSUME BridgeInit PROVE Writes("init", Head(stdin))
  <2>1. Head(stdin) \in Turn'
    BY <1>2, HeadTurn DEF BridgeInit, userVars, Turn
  <2> QED BY <1>2, <2>1, Appended DEF BridgeInit
<1>3. ASSUME BridgeResult PROVE \E k \in {"ok", "bad"} : Writes(k, Head(stdin))
  <2>1. Head(stdin) \in Turn'
    BY <1>3, HeadTurn DEF BridgeResult, userVars, Turn, Control
  <2>2. PICK k \in {"ok", "bad"} : log' = Append(log, Line(k, Head(stdin)))
    BY <1>3 DEF BridgeResult
  <2> QED BY <2>1, <2>2, Appended
<1>4. ASSUME BridgeThrow PROVE Writes("bad", LastGiven)
  <2>1. LastGiven \in Turn'
    BY <1>4, LastGivenTurn DEF BridgeThrow, userVars, Turn, Subject
  <2> QED BY <1>4, <2>1, Appended DEF BridgeThrow
<1>5. ASSUME OrphanResult PROVE \E k \in {"ok", "bad"} : Writes(k, Head(orphan))
  <2>1. Head(orphan) \in Turn'
    BY <1>5, HeadTurn DEF OrphanResult, userVars, Turn
  <2>2. PICK k \in {"ok", "bad"} : log' = Append(log, Line(k, Head(orphan)))
    BY <1>5 DEF OrphanResult
  <2> QED BY <2>1, <2>2, Appended
<1> QED BY <1>1, <1>2, <1>3, <1>4, <1>5

\* Every step keeps the log or writes one line.
LEMMA LogOnlyGrows ==
    ASSUME TypeOK, TypeOK', Control, Subject, [Next]_vars
    PROVE  log' = log \/ \E k, t : Writes(k, t)
BY LogStep DEF Next, PumpStep, vars, FollowUpQueued, InjectBegin, InjectState, InjectWrite, Kill,
    StartSpawn, StartPublish, StartSidecar, BridgeExit, Poll, PollFinal, EventInit, ResultGet,
    ResultPatch, ResultPark, ExitBegin, ExitApply, Stop, Recover

\* So a result stays a result, and a line the line it was.
LEMMA ResultsStay ==
    ASSUME TypeOK, TypeOK', Control, Subject, [Next]_vars
    PROVE  /\ Results \subseteq Results'
           /\ Len(log) <= Len(log')
           /\ \A i \in 1..Len(log) : log'[i] = log[i]
<1>1. CASE log' = log
  BY <1>1 DEF Results, TypeOK
<1>2. CASE \E k, t : Writes(k, t)
  BY <1>2 DEF Writes, TypeOK
<1> QED BY <1>1, <1>2, LogOnlyGrows

\* The first event of the channel stays where it is, while none is taken.
LEMMA EventStays ==
    ASSUME TypeOK, TypeOK', Control, Subject, [Next]_vars, chan # {},
           chan' = chan \/ Poll \/ PollFinal
    PROVE  Event' = Event /\ First(chan)' = First(chan) /\ chan' # {}
<1>1. First(chan) \in chan /\ First(chan) \in 1..Len(log) /\ \A j \in chan : First(chan) <= j
  BY ChanFirst
<1>2. First(chan)' = First(chan) /\ chan' # {}
  <2>1. CASE chan' = chan
    BY <2>1
  <2>2. CASE Poll \/ PollFinal
    <3>1. chan' = chan \cup {i \in Unread : IsEvent(log[i])}
      BY <2>2 DEF Poll, PollFinal
    <3>2. \A i \in Unread : i \in Nat /\ read < i
      <4>1. read \in Nat
        BY TypeParts DEF Positions
      <4> QED BY <4>1 DEF Unread
    <3>3. First(chan) <= read /\ read \in Nat
      <4>1. read \in Nat
        BY TypeParts DEF Positions
      <4> QED BY <1>1, <4>1 DEF Subject
    <3>4. First(chan) \in chan' /\ \A j \in chan' : First(chan) <= j
      <4>1. \A j \in Unread : First(chan) <= j
        BY <3>2, <3>3, <1>1
      <4> QED BY <1>1, <3>1, <4>1
    <3>5. chan' \in SUBSET Nat
      BY DEF TypeOK
    <3>6. First(chan') \in chan' /\ \A j \in chan' : First(chan') <= j
      BY <3>4, <3>5, Least
    <3>7. First(chan') <= First(chan) /\ First(chan) <= First(chan')
      BY <3>4, <3>6
    <3>8. First(chan) \in Nat /\ First(chan') \in Nat
      BY <3>4, <3>5, <3>6
    <3>9. First(chan') = First(chan)
      BY <3>7, <3>8
    <3> QED BY <3>4, <3>9
  <2> QED BY <2>1, <2>2
<1> QED BY <1>1, <1>2, ResultsStay DEF Event

\* The channel holds what was read, and what is handled as a result is one.
LEMMA SubjectStep == TypeOK /\ Control /\ Subject /\ TypeOK' /\ Control' /\ [Next]_vars => Subject'
<1> SUFFICES ASSUME TypeOK, Control, Subject, TypeOK', Control', [Next]_vars PROVE Subject'
  OBVIOUS
<1>0. Flags /\ Places /\ Numbers /\ Sequences
  BY TypeParts
<1>00. Positions /\ stdin \in Seq(Turn) /\ Len(log) \in Nat
  <2>1. log \in Seq(LogLine) /\ stdin \in Seq(Turn) /\ Positions
    BY TypeParts DEF Sequences
  <2> QED BY <2>1, LenProperties
<1>1. (hpc \in {"patch", "park"} => chan # {} /\ IsResult(Event))'
  <2>1. CASE (chan' = chan \/ Poll \/ PollFinal) /\ hpc \in {"patch", "park"}
    BY <2>1, EventStays DEF Subject
  <2>2. CASE ResultGet
    BY <2>2, EventStays DEF ResultGet, Subject, tailVars
  <2>3. hpc' \notin {"patch", "park"} \/ ResultGet
        \/ ((chan' = chan \/ Poll \/ PollFinal) /\ hpc \in {"patch", "park"})
    <3>1. CASE FollowUpQueued
      BY <3>1 DEF FollowUpQueued, rowVars, userVars, engVars, procVars, tailVars, pumpVars, bootVars
    <3>2. CASE InjectBegin
      BY <3>2 DEF InjectBegin, rowVars, userVars, engVars, procVars, tailVars, pumpVars, bootVars
    <3>3. CASE InjectLog
      BY <3>3 DEF InjectLog, rowVars, userVars, engVars, procVars, tailVars, pumpVars, bootVars
    <3>4. CASE InjectState
      BY <3>4 DEF InjectState, rowVars, userVars, engVars, procVars, tailVars, pumpVars, bootVars
    <3>5. CASE InjectWrite
      BY <3>5 DEF InjectWrite, rowVars, userVars, engVars, procVars, tailVars, pumpVars, bootVars
    <3>6. CASE Kill
      BY <3>6 DEF Kill, rowVars, userVars, engVars, procVars, tailVars, pumpVars, bootVars
    <3>7. CASE StartLog
      BY <3>7 DEF StartLog, rowVars, userVars, engVars, procVars, tailVars, pumpVars, bootVars
    <3>8. CASE StartSpawn
      BY <3>8 DEF StartSpawn, rowVars, userVars, engVars, procVars, tailVars, pumpVars, bootVars
    <3>9. CASE StartPublish
      BY <3>9 DEF StartPublish, rowVars, userVars, engVars, procVars, tailVars, pumpVars, bootVars
    <3>10. CASE StartSidecar
      BY <3>10 DEF StartSidecar, rowVars, userVars, engVars, procVars, tailVars, pumpVars, bootVars
    <3>11. CASE BridgeInit
      BY <3>11 DEF BridgeInit, rowVars, userVars, engVars, procVars, tailVars, pumpVars, bootVars
    <3>12. CASE BridgeResult
      BY <3>12 DEF BridgeResult, rowVars, userVars, engVars, procVars, tailVars, pumpVars, bootVars
    <3>13. CASE BridgeThrow
      BY <3>13 DEF BridgeThrow, rowVars, userVars, engVars, procVars, tailVars, pumpVars, bootVars
    <3>14. CASE BridgeExit
      BY <3>14 DEF BridgeExit, rowVars, userVars, engVars, procVars, tailVars, pumpVars, bootVars
    <3>15. CASE OrphanResult
      BY <3>15 DEF OrphanResult, rowVars, userVars, engVars, procVars, tailVars, pumpVars, bootVars
    <3>16. CASE Poll
      BY <3>16 DEF Poll, rowVars, userVars, engVars, procVars, tailVars, pumpVars, bootVars
    <3>17. CASE PollFinal
      BY <3>17 DEF PollFinal, rowVars, userVars, engVars, procVars, tailVars, pumpVars, bootVars
    <3>18. CASE EventInit
      BY <3>18 DEF EventInit, rowVars, userVars, engVars, procVars, tailVars, pumpVars, bootVars
    <3>19. CASE ResultGet
      BY <3>19
    <3>20. CASE ResultPatch
      BY <3>20 DEF ResultPatch, rowVars, userVars, engVars, procVars, tailVars, pumpVars, bootVars
    <3>21. CASE ResultPark
      BY <3>21 DEF ResultPark, rowVars, userVars, engVars, procVars, tailVars, pumpVars, bootVars
    <3>22. CASE ExitBegin
      BY <3>22 DEF ExitBegin, rowVars, userVars, engVars, procVars, tailVars, pumpVars, bootVars
    <3>23. CASE ExitApply
      BY <3>23 DEF ExitApply, FinalRow, rowVars, userVars, engVars, procVars, tailVars, pumpVars, bootVars
    <3>24. CASE Stop
      BY <3>24 DEF Stop, rowVars, userVars, engVars, procVars, tailVars, pumpVars, bootVars
    <3>25. CASE Recover
      BY <3>25 DEF Recover, rowVars, userVars, engVars, procVars, tailVars, pumpVars, bootVars
    <3>26. CASE UNCHANGED vars
      BY <3>26 DEF vars, rowVars, userVars, engVars, procVars, tailVars, pumpVars, bootVars
    <3> QED
      BY <3>1, <3>2, <3>3, <3>4, <3>5, <3>6, <3>7, <3>8, <3>9, <3>10, <3>11,
         <3>12, <3>13, <3>14, <3>15, <3>16, <3>17, <3>18, <3>19, <3>20, <3>21,
         <3>22, <3>23, <3>24, <3>25, <3>26, <1>0 DEF Next, PumpStep
  <2> QED BY <2>1, <2>2, <2>3
<1>2. (proc = "alive" /\ stdin = <<>> => Results # {})'
  <2>1. CASE FollowUpQueued
    BY <2>1, <1>0, ResultsStay DEF FollowUpQueued, Control, Subject, rowVars, userVars, engVars,
       procVars, tailVars, pumpVars, bootVars
  <2>2. CASE InjectBegin
    BY <2>2, <1>0, ResultsStay DEF InjectBegin, Control, Subject, rowVars, userVars, engVars, procVars,
       tailVars, pumpVars, bootVars
  <2>3. CASE InjectLog
    BY <2>3, <1>0, ResultsStay DEF InjectLog, Control, Subject, rowVars, userVars, engVars, procVars,
       tailVars, pumpVars, bootVars
  <2>4. CASE InjectState
    BY <2>4, <1>0, ResultsStay DEF InjectState, Control, Subject, rowVars, userVars, engVars, procVars,
       tailVars, pumpVars, bootVars
  <2>5. CASE InjectWrite
    BY <2>5, <1>0, <1>00, ResultsStay DEF InjectWrite, Control, Subject, engVars, procVars
  <2>6. CASE Kill
    BY <2>6, <1>0, ResultsStay DEF Kill, Control, Subject, rowVars, userVars, engVars, procVars,
       tailVars, pumpVars, bootVars
  <2>7. CASE StartLog
    BY <2>7, <1>0, ResultsStay DEF StartLog, Control, Subject, rowVars, userVars, engVars, procVars,
       tailVars, pumpVars, bootVars
  <2>8. CASE StartSpawn
    BY <2>8, <1>0 DEF StartSpawn
  <2>9. CASE StartPublish
    BY <2>9, <1>0, ResultsStay DEF StartPublish, Control, Subject, rowVars, userVars, engVars, procVars,
       tailVars, pumpVars, bootVars
  <2>10. CASE StartSidecar
    BY <2>10, <1>0, ResultsStay DEF StartSidecar, Control, Subject, rowVars, userVars, engVars,
       procVars, tailVars, pumpVars, bootVars
  <2>11. CASE BridgeInit
    BY <2>11, <1>0, ResultsStay DEF BridgeInit, Control, Subject, rowVars, userVars, engVars, procVars,
       tailVars, pumpVars, bootVars
  <2>12. CASE BridgeResult
    BY <2>12, <1>0, LogStep DEF BridgeResult, Writes, TypeOK, Control
  <2>13. CASE BridgeThrow
    BY <2>13, <1>0, LogStep DEF BridgeThrow, Writes, TypeOK, Control
  <2>14. CASE BridgeExit
    BY <2>14, <1>0, ResultsStay DEF BridgeExit, Control, Subject, rowVars, userVars, engVars, procVars,
       tailVars, pumpVars, bootVars
  <2>15. CASE OrphanResult
    BY <2>15, <1>0, ResultsStay DEF OrphanResult, Control, Subject, rowVars, userVars, engVars,
       procVars, tailVars, pumpVars, bootVars
  <2>16. CASE Poll
    BY <2>16, <1>0, ResultsStay DEF Poll, Control, Subject, rowVars, userVars, engVars, procVars,
       tailVars, pumpVars, bootVars
  <2>17. CASE PollFinal
    BY <2>17, <1>0, ResultsStay DEF PollFinal, Control, Subject, rowVars, userVars, engVars, procVars,
       tailVars, pumpVars, bootVars
  <2>18. CASE EventInit
    BY <2>18, <1>0, ResultsStay DEF EventInit, Control, Subject, rowVars, userVars, engVars, procVars,
       tailVars, pumpVars, bootVars
  <2>19. CASE ResultGet
    BY <2>19, <1>0, ResultsStay DEF ResultGet, Control, Subject, rowVars, userVars, engVars, procVars,
       tailVars, pumpVars, bootVars
  <2>20. CASE ResultPatch
    BY <2>20, <1>0, ResultsStay DEF ResultPatch, Control, Subject, rowVars, userVars, engVars, procVars,
       tailVars, pumpVars, bootVars
  <2>21. CASE ResultPark
    BY <2>21, <1>0, ResultsStay DEF ResultPark, Control, Subject, rowVars, userVars, engVars, procVars,
       tailVars, pumpVars, bootVars
  <2>22. CASE ExitBegin
    BY <2>22, <1>0, ResultsStay DEF ExitBegin, Control, Subject, rowVars, userVars, engVars, procVars,
       tailVars, pumpVars, bootVars
  <2>23. CASE ExitApply
    BY <2>23, <1>0, ResultsStay DEF ExitApply, FinalRow, Control, Subject, rowVars, userVars, engVars,
       procVars, tailVars, pumpVars, bootVars
  <2>24. CASE Stop
    BY <2>24, <1>0, ResultsStay DEF Stop, Control, Subject, rowVars, userVars, engVars, procVars,
       tailVars, pumpVars, bootVars
  <2>25. CASE Recover
    BY <2>25, <1>0, ResultsStay DEF Recover, Control, Subject, rowVars, userVars, engVars, procVars,
       tailVars, pumpVars, bootVars
  <2>26. CASE UNCHANGED vars
    BY <2>26, <1>0, ResultsStay DEF vars, Control, Subject, rowVars, userVars, engVars, procVars,
       tailVars, pumpVars, bootVars
  <2> QED
    BY <2>1, <2>2, <2>3, <2>4, <2>5, <2>6, <2>7, <2>8, <2>9, <2>10, <2>11,
       <2>12, <2>13, <2>14, <2>15, <2>16, <2>17, <2>18, <2>19, <2>20, <2>21,
       <2>22, <2>23, <2>24, <2>25, <2>26 DEF Next, PumpStep
<1>3. (\A i \in chan : i <= read)'
  <2>1. CASE FollowUpQueued
    BY <2>1, <1>00, ResultsStay DEF FollowUpQueued, Positions, Subject, rowVars, userVars, engVars,
       procVars, tailVars, pumpVars, bootVars
  <2>2. CASE InjectBegin
    BY <2>2, <1>00, ResultsStay DEF InjectBegin, Positions, Subject, rowVars, userVars, engVars,
       procVars, tailVars, pumpVars, bootVars
  <2>3. CASE InjectLog
    BY <2>3, <1>00, ResultsStay DEF InjectLog, Positions, Subject, rowVars, userVars, engVars, procVars,
       tailVars, pumpVars, bootVars
  <2>4. CASE InjectState
    BY <2>4, <1>00, ResultsStay DEF InjectState, Positions, Subject, rowVars, userVars, engVars,
       procVars, tailVars, pumpVars, bootVars
  <2>5. CASE InjectWrite
    BY <2>5, <1>00, ResultsStay DEF InjectWrite, Positions, Subject, rowVars, userVars, engVars,
       procVars, tailVars, pumpVars, bootVars
  <2>6. CASE Kill
    BY <2>6, <1>00, ResultsStay DEF Kill, Positions, Subject, rowVars, userVars, engVars, procVars,
       tailVars, pumpVars, bootVars
  <2>7. CASE StartLog
    BY <2>7, <1>00, ResultsStay DEF StartLog, Positions, Subject, rowVars, userVars, engVars, procVars,
       tailVars, pumpVars, bootVars
  <2>8. CASE StartSpawn
    BY <2>8, <1>00 DEF StartSpawn, Positions, Subject, rowVars, userVars, engVars, procVars, tailVars,
       pumpVars, bootVars
  <2>9. CASE StartPublish
    BY <2>9, <1>00, ResultsStay DEF StartPublish, Positions, Subject, rowVars, userVars, engVars,
       procVars, tailVars, pumpVars, bootVars
  <2>10. CASE StartSidecar
    BY <2>10, <1>00, ResultsStay DEF StartSidecar, Positions, Subject, rowVars, userVars, engVars,
       procVars, tailVars, pumpVars, bootVars
  <2>11. CASE BridgeInit
    BY <2>11, <1>00, ResultsStay DEF BridgeInit, Positions, Subject, rowVars, userVars, engVars,
       procVars, tailVars, pumpVars, bootVars
  <2>12. CASE BridgeResult
    BY <2>12, <1>00, ResultsStay DEF BridgeResult, Positions, Subject, rowVars, userVars, engVars,
       procVars, tailVars, pumpVars, bootVars
  <2>13. CASE BridgeThrow
    BY <2>13, <1>00, ResultsStay DEF BridgeThrow, Positions, Subject, rowVars, userVars, engVars,
       procVars, tailVars, pumpVars, bootVars
  <2>14. CASE BridgeExit
    BY <2>14, <1>00, ResultsStay DEF BridgeExit, Positions, Subject, rowVars, userVars, engVars,
       procVars, tailVars, pumpVars, bootVars
  <2>15. CASE OrphanResult
    BY <2>15, <1>00, ResultsStay DEF OrphanResult, Positions, Subject, rowVars, userVars, engVars,
       procVars, tailVars, pumpVars, bootVars
  <2>16. CASE Poll
    BY <2>16, <1>00 DEF Poll, Positions, Subject, rowVars, userVars, engVars, procVars, tailVars,
       pumpVars, bootVars, Unread
  <2>17. CASE PollFinal
    BY <2>17, <1>00 DEF PollFinal, Positions, Subject, rowVars, userVars, engVars, procVars, tailVars,
       pumpVars, bootVars, Unread
  <2>18. CASE EventInit
    BY <2>18, <1>00, ResultsStay DEF EventInit, Positions, Subject, rowVars, userVars, engVars,
       procVars, tailVars, pumpVars, bootVars
  <2>19. CASE ResultGet
    BY <2>19, <1>00, ResultsStay DEF ResultGet, Positions, Subject, rowVars, userVars, engVars,
       procVars, tailVars, pumpVars, bootVars
  <2>20. CASE ResultPatch
    BY <2>20, <1>00, ResultsStay DEF ResultPatch, Positions, Subject, rowVars, userVars, engVars,
       procVars, tailVars, pumpVars, bootVars
  <2>21. CASE ResultPark
    BY <2>21, <1>00, ResultsStay DEF ResultPark, Positions, Subject, rowVars, userVars, engVars,
       procVars, tailVars, pumpVars, bootVars
  <2>22. CASE ExitBegin
    BY <2>22, <1>00, ResultsStay DEF ExitBegin, Positions, Subject, rowVars, userVars, engVars,
       procVars, tailVars, pumpVars, bootVars
  <2>23. CASE ExitApply
    BY <2>23, <1>00 DEF ExitApply, FinalRow, Positions, Subject, rowVars, userVars, engVars, procVars,
       tailVars, pumpVars, bootVars, Control
  <2>24. CASE Stop
    BY <2>24, <1>00 DEF Stop, Positions, Subject, rowVars, userVars, engVars, procVars, tailVars,
       pumpVars, bootVars
  <2>25. CASE Recover
    BY <2>25, <1>00, ResultsStay DEF Recover, Positions, Subject, rowVars, userVars, engVars, procVars,
       tailVars, pumpVars, bootVars
  <2>26. CASE UNCHANGED vars
    BY <2>26, <1>00, ResultsStay DEF vars, Positions, Subject, rowVars, userVars, engVars, procVars,
       tailVars, pumpVars, bootVars
  <2> QED
    BY <2>1, <2>2, <2>3, <2>4, <2>5, <2>6, <2>7, <2>8, <2>9, <2>10, <2>11,
       <2>12, <2>13, <2>14, <2>15, <2>16, <2>17, <2>18, <2>19, <2>20, <2>21,
       <2>22, <2>23, <2>24, <2>25, <2>26 DEF Next, PumpStep
<1> QED BY <1>1, <1>2, <1>3 DEF Subject

\* The row's columns follow the control.
LEMMA RowControlStep == TypeOK /\ Control /\ RowControl /\ [Next]_vars => RowControl'
<1> SUFFICES ASSUME TypeOK, Control, RowControl, [Next]_vars PROVE RowControl'
  OBVIOUS
<1>0. Flags /\ Places /\ Control /\ RowControl
  BY TypeParts
<1> USE DEF Flags, Places, Control, RowControl, Live, Terminal, rowVars, userVars, engVars, procVars,
tailVars, pumpVars, bootVars
<1>1. CASE FollowUpQueued
  BY <1>0, <1>1 DEF FollowUpQueued
<1>2. CASE InjectBegin
  BY <1>0, <1>2 DEF InjectBegin
<1>3. CASE InjectLog
  BY <1>0, <1>3 DEF InjectLog
<1>4. CASE InjectState
  BY <1>0, <1>4 DEF InjectState
<1>5. CASE InjectWrite
  BY <1>0, <1>5 DEF InjectWrite
<1>6. CASE Kill
  BY <1>0, <1>6 DEF Kill, Legal
<1>7. CASE StartLog
  BY <1>0, <1>7 DEF StartLog
<1>8. CASE StartSpawn
  BY <1>0, <1>8 DEF StartSpawn
<1>9. CASE StartPublish
  BY <1>0, <1>9 DEF StartPublish
<1>10. CASE StartSidecar
  BY <1>0, <1>10 DEF StartSidecar
<1>11. CASE BridgeInit
  BY <1>0, <1>11 DEF BridgeInit
<1>12. CASE BridgeResult
  BY <1>0, <1>12 DEF BridgeResult
<1>13. CASE BridgeThrow
  BY <1>0, <1>13 DEF BridgeThrow
<1>14. CASE BridgeExit
  BY <1>0, <1>14 DEF BridgeExit
<1>15. CASE OrphanResult
  BY <1>0, <1>15 DEF OrphanResult
<1>16. CASE Poll
  BY <1>0, <1>16 DEF Poll
<1>17. CASE PollFinal
  BY <1>0, <1>17 DEF PollFinal
<1>18. CASE EventInit
  BY <1>0, <1>18 DEF EventInit
<1>19. CASE ResultGet
  BY <1>0, <1>19 DEF ResultGet
<1>20. CASE ResultPatch
  BY <1>0, <1>20 DEF ResultPatch
<1>21. CASE ResultPark
  BY <1>0, <1>21 DEF ResultPark
<1>22. CASE ExitBegin
  BY <1>0, <1>22 DEF ExitBegin
<1>23. CASE ExitApply
  BY <1>0, <1>23 DEF ExitApply, FinalRow, ExitStatus
<1>24. CASE Stop
  BY <1>0, <1>24 DEF Stop
<1>25. CASE Recover
  BY <1>0, <1>25 DEF Recover
<1>26. CASE UNCHANGED vars
  BY <1>0, <1>26 DEF vars
<1> QED
  BY <1>1, <1>2, <1>3, <1>4, <1>5, <1>6, <1>7, <1>8, <1>9, <1>10, <1>11,
     <1>12, <1>13, <1>14, <1>15, <1>16, <1>17, <1>18, <1>19, <1>20, <1>21,
     <1>22, <1>23, <1>24, <1>25, <1>26 DEF Next, PumpStep

\* The channel loses its oldest event or gains the newest.
LEMMA ChannelStep ==
    TypeOK /\ Control /\ Subject /\ Channel /\ TypeOK' /\ [Next]_vars => Channel'
<1> SUFFICES ASSUME TypeOK, Control, Subject, Channel, TypeOK', [Next]_vars PROVE Channel'
  OBVIOUS
<1>0. Positions /\ Len(log) \in Nat /\ \A i \in 1..Len(log) : log'[i] = log[i]
  <2>1. log \in Seq(LogLine) /\ Positions
    BY TypeParts DEF Sequences
  <2> QED BY <2>1, LenProperties, ResultsStay
<1>1. CASE chan' = chan /\ read' = read
  BY <1>0, <1>1 DEF Channel, Positions
<1>2. CASE chan' = {}
  BY <1>2 DEF Channel
<1>3. CASE chan # {} /\ chan' = chan \ {First(chan)} /\ read' = read
  <2>1. \A j \in chan : First(chan) <= j /\ First(chan) \in Nat
    BY <1>0, <1>3, ChanFirst
  <2>2. \A j \in chan, i \in 1..read : j < i => i # First(chan)
    BY <1>0, <2>1 DEF Positions
  <2> SUFFICES ASSUME NEW p \in chan', NEW i \in 1..read', p < i, IsEvent(log'[i])
               PROVE  i \in chan'
    BY DEF Channel
  <2>3. p \in chan /\ i \in 1..read /\ i \in 1..Len(log) /\ IsEvent(log[i])
    BY <1>0, <1>3 DEF Positions
  <2>4. i \in chan /\ i # First(chan)
    BY <2>2, <2>3 DEF Channel
  <2> QED BY <1>3, <2>4
<1>4. CASE Poll \/ PollFinal
  <2>1. chan' = chan \cup {i \in Unread : IsEvent(log[i])} /\ read' = Len(log) /\ log' = log
    BY <1>4 DEF Poll, PollFinal
  <2> SUFFICES ASSUME NEW p \in chan', NEW i \in 1..read', p < i, IsEvent(log'[i])
               PROVE  i \in chan'
    BY DEF Channel
  <2>2. p \in chan \/ p > read
    BY <2>1, <1>0 DEF Unread, Positions
  <2>3. CASE i <= read
    BY <1>0, <2>1, <2>2, <2>3 DEF Channel, Positions
  <2>4. CASE i > read
    BY <1>0, <2>1, <2>4 DEF Positions, Unread
  <2> QED BY <1>0, <2>1, <2>3, <2>4 DEF Positions
<1>5. \/ chan' = chan /\ read' = read
      \/ chan' = {}
      \/ chan # {} /\ chan' = chan \ {First(chan)} /\ read' = read
      \/ Poll \/ PollFinal
  <2>1. CASE FollowUpQueued
    BY <2>1 DEF FollowUpQueued, rowVars, userVars, engVars, procVars, tailVars, pumpVars, bootVars
  <2>2. CASE InjectBegin
    BY <2>2 DEF InjectBegin, rowVars, userVars, engVars, procVars, tailVars, pumpVars, bootVars
  <2>3. CASE InjectLog
    BY <2>3 DEF InjectLog, rowVars, userVars, engVars, procVars, tailVars, pumpVars, bootVars
  <2>4. CASE InjectState
    BY <2>4 DEF InjectState, rowVars, userVars, engVars, procVars, tailVars, pumpVars, bootVars
  <2>5. CASE InjectWrite
    BY <2>5 DEF InjectWrite, rowVars, userVars, engVars, procVars, tailVars, pumpVars, bootVars
  <2>6. CASE Kill
    BY <2>6 DEF Kill, rowVars, userVars, engVars, procVars, tailVars, pumpVars, bootVars
  <2>7. CASE StartLog
    BY <2>7 DEF StartLog, rowVars, userVars, engVars, procVars, tailVars, pumpVars, bootVars
  <2>8. CASE StartSpawn
    BY <2>8 DEF StartSpawn, rowVars, userVars, engVars, procVars, tailVars, pumpVars, bootVars
  <2>9. CASE StartPublish
    BY <2>9 DEF StartPublish, rowVars, userVars, engVars, procVars, tailVars, pumpVars, bootVars
  <2>10. CASE StartSidecar
    BY <2>10 DEF StartSidecar, rowVars, userVars, engVars, procVars, tailVars, pumpVars, bootVars
  <2>11. CASE BridgeInit
    BY <2>11 DEF BridgeInit, rowVars, userVars, engVars, procVars, tailVars, pumpVars, bootVars
  <2>12. CASE BridgeResult
    BY <2>12 DEF BridgeResult, rowVars, userVars, engVars, procVars, tailVars, pumpVars, bootVars
  <2>13. CASE BridgeThrow
    BY <2>13 DEF BridgeThrow, rowVars, userVars, engVars, procVars, tailVars, pumpVars, bootVars
  <2>14. CASE BridgeExit
    BY <2>14 DEF BridgeExit, rowVars, userVars, engVars, procVars, tailVars, pumpVars, bootVars
  <2>15. CASE OrphanResult
    BY <2>15 DEF OrphanResult, rowVars, userVars, engVars, procVars, tailVars, pumpVars, bootVars
  <2>16. CASE Poll
    BY <2>16
  <2>17. CASE PollFinal
    BY <2>17
  <2>18. CASE EventInit
    BY <2>18 DEF EventInit, rowVars, userVars, engVars, procVars, tailVars, pumpVars, bootVars
  <2>19. CASE ResultGet
    BY <2>19 DEF ResultGet, rowVars, userVars, engVars, procVars, tailVars, pumpVars, bootVars
  <2>20. CASE ResultPatch
    BY <2>20 DEF ResultPatch, rowVars, userVars, engVars, procVars, tailVars, pumpVars, bootVars
  <2>21. CASE ResultPark
    BY <2>21 DEF ResultPark, Subject, rowVars, userVars, engVars, procVars, tailVars, pumpVars, bootVars
  <2>22. CASE ExitBegin
    BY <2>22 DEF ExitBegin, rowVars, userVars, engVars, procVars, tailVars, pumpVars, bootVars
  <2>23. CASE ExitApply
    BY <2>23 DEF ExitApply, FinalRow, Control, rowVars, userVars, engVars, procVars, tailVars, pumpVars,
       bootVars
  <2>24. CASE Stop
    BY <2>24 DEF Stop, rowVars, userVars, engVars, procVars, tailVars, pumpVars, bootVars
  <2>25. CASE Recover
    BY <2>25 DEF Recover, rowVars, userVars, engVars, procVars, tailVars, pumpVars, bootVars
  <2>26. CASE UNCHANGED vars
    BY <2>26 DEF vars, rowVars, userVars, engVars, procVars, tailVars, pumpVars, bootVars
  <2> QED
    BY <2>1, <2>2, <2>3, <2>4, <2>5, <2>6, <2>7, <2>8, <2>9, <2>10, <2>11,
       <2>12, <2>13, <2>14, <2>15, <2>16, <2>17, <2>18, <2>19, <2>20, <2>21,
       <2>22, <2>23, <2>24, <2>25, <2>26 DEF Next, PumpStep
<1> QED BY <1>1, <1>2, <1>3, <1>4, <1>5

-----------------------------------------------------------------------------
(* The order of the turns. *)

Base == TypeOK /\ Control /\ Subject /\ RowControl /\ Channel

\* The first group of the invariant: types, control, channel.
LEMMA BaseInit == Init => Base
<1> SUFFICES ASSUME Init PROVE Base
  OBVIOUS
<1>1. TypeOK
  BY TypeInit
<1>2. Control /\ Subject /\ RowControl /\ Channel
  BY DEF Init, Control, Subject, RowControl, Channel, Live, Terminal
<1> QED BY <1>1, <1>2 DEF Base

\* And each of its steps.
LEMMA BaseStep == Base /\ [Next]_vars => Base'
BY TypeStep, ControlStep, SubjectStep, RowControlStep, ChannelStep DEF Base

\* The log and the turns: a new turn starts with its marker, all else is of a turn that began.
LEMMA LogShape ==
    ASSUME Base, Base', [Next]_vars
    PROVE  \/ log' = log /\ turns' = turns
           \/ Writes("prompt", turns + 1) /\ turns' = turns + 1
           \/ turns' = turns /\ \E k \in {"init", "ok", "bad"}, t \in Turn : Writes(k, t)
<1>0. TypeOK /\ TypeOK' /\ Control /\ Subject
  BY DEF Base
<1>1. CASE FollowUpQueued
  BY <1>1 DEF FollowUpQueued, rowVars, userVars, engVars, procVars, tailVars, pumpVars, bootVars
<1>2. CASE InjectBegin
  BY <1>2 DEF InjectBegin, rowVars, userVars, engVars, procVars, tailVars, pumpVars, bootVars
<1>3. CASE InjectLog
  BY <1>0, <1>3, LogStep DEF InjectLog, userVars, Writes, Turn
<1>4. CASE InjectState
  BY <1>4 DEF InjectState, rowVars, userVars, engVars, procVars, tailVars, pumpVars, bootVars
<1>5. CASE InjectWrite
  BY <1>5 DEF InjectWrite, rowVars, userVars, engVars, procVars, tailVars, pumpVars, bootVars
<1>6. CASE Kill
  BY <1>6 DEF Kill, rowVars, userVars, engVars, procVars, tailVars, pumpVars, bootVars
<1>7. CASE StartLog
  BY <1>0, <1>7, LogStep DEF StartLog, userVars, Writes, Turn
<1>8. CASE StartSpawn
  BY <1>8 DEF StartSpawn, rowVars, userVars, engVars, procVars, tailVars, pumpVars, bootVars
<1>9. CASE StartPublish
  BY <1>9 DEF StartPublish, rowVars, userVars, engVars, procVars, tailVars, pumpVars, bootVars
<1>10. CASE StartSidecar
  BY <1>10 DEF StartSidecar, rowVars, userVars, engVars, procVars, tailVars, pumpVars, bootVars
<1>11. CASE BridgeInit
  BY <1>0, <1>11, LogStep, HeadTurn DEF BridgeInit, userVars
<1>12. CASE BridgeResult
  BY <1>0, <1>12, LogStep, HeadTurn DEF BridgeResult, userVars, Control
<1>13. CASE BridgeThrow
  BY <1>0, <1>13, LogStep, LastGivenTurn DEF BridgeThrow, userVars, Subject
<1>14. CASE BridgeExit
  BY <1>14 DEF BridgeExit, rowVars, userVars, engVars, procVars, tailVars, pumpVars, bootVars
<1>15. CASE OrphanResult
  BY <1>0, <1>15, LogStep, HeadTurn DEF OrphanResult, userVars
<1>16. CASE Poll
  BY <1>16 DEF Poll, rowVars, userVars, engVars, procVars, tailVars, pumpVars, bootVars
<1>17. CASE PollFinal
  BY <1>17 DEF PollFinal, rowVars, userVars, engVars, procVars, tailVars, pumpVars, bootVars
<1>18. CASE EventInit
  BY <1>18 DEF EventInit, rowVars, userVars, engVars, procVars, tailVars, pumpVars, bootVars
<1>19. CASE ResultGet
  BY <1>19 DEF ResultGet, rowVars, userVars, engVars, procVars, tailVars, pumpVars, bootVars
<1>20. CASE ResultPatch
  BY <1>20 DEF ResultPatch, rowVars, userVars, engVars, procVars, tailVars, pumpVars, bootVars
<1>21. CASE ResultPark
  BY <1>21 DEF ResultPark, rowVars, userVars, engVars, procVars, tailVars, pumpVars, bootVars
<1>22. CASE ExitBegin
  BY <1>22 DEF ExitBegin, rowVars, userVars, engVars, procVars, tailVars, pumpVars, bootVars
<1>23. CASE ExitApply
  BY <1>23 DEF ExitApply, FinalRow, rowVars, userVars, engVars, procVars, tailVars, pumpVars, bootVars
<1>24. CASE Stop
  BY <1>24 DEF Stop, rowVars, userVars, engVars, procVars, tailVars, pumpVars, bootVars
<1>25. CASE Recover
  BY <1>25 DEF Recover, rowVars, userVars, engVars, procVars, tailVars, pumpVars, bootVars
<1>26. CASE UNCHANGED vars
  BY <1>26 DEF vars, rowVars, userVars, engVars, procVars, tailVars, pumpVars, bootVars
<1> QED
  BY <1>1, <1>2, <1>3, <1>4, <1>5, <1>6, <1>7, <1>8, <1>9, <1>10, <1>11,
     <1>12, <1>13, <1>14, <1>15, <1>16, <1>17, <1>18, <1>19, <1>20, <1>21,
     <1>22, <1>23, <1>24, <1>25, <1>26 DEF Next, PumpStep

\* No turn, no marker.
LEMMA MarkersInit == Init => Markers
BY DEF Init, Markers, Turn, Results

\* A turn begins with its marker; every other line is of a turn that began.
LEMMA MarkersStep == Base /\ Base' /\ Markers /\ [Next]_vars => Markers'
<1> SUFFICES ASSUME Base, Base', Markers, [Next]_vars PROVE Markers'
  OBVIOUS
<1>0. TypeOK /\ Len(log) \in Nat /\ turns \in Nat
  <2>1. TypeOK /\ log \in Seq(LogLine) /\ Numbers
    BY TypeParts DEF Sequences, Base
  <2> QED BY <2>1, LenProperties DEF Numbers
<1>1. CASE log' = log /\ turns' = turns
  BY <1>1 DEF Markers, Turn, Results
<1>2. CASE Writes("prompt", turns + 1) /\ turns' = turns + 1
  <2>1. /\ Len(log') = Len(log) + 1 /\ \A i \in 1..Len(log) : log'[i] = log[i]
        /\ log'[Len(log) + 1] = Line("prompt", turns + 1) /\ Results' = Results
    BY <1>2 DEF Writes
  <2>2. \A t \in Turn' : t \in Turn \/ t = turns + 1
    BY <1>0, <1>2 DEF Turn
  <2>3. \A t \in Turn' : \E j \in 1..Len(log') : log'[j] = Line("prompt", t)
    BY <1>0, <2>1, <2>2 DEF Markers
  <2>4. ASSUME NEW i \in 1..Len(log'), NEW j \in 1..Len(log'), i < j, log'[i].kind = "prompt",
               log'[j].kind = "prompt"
        PROVE  log'[i].turn < log'[j].turn
    <3>1. i \in 1..Len(log) /\ log'[i] = log[i]
      BY <1>0, <2>1, <2>4
    <3>2. CASE j \in 1..Len(log)
      BY <2>1, <2>4, <3>1, <3>2 DEF Markers
    <3>3. CASE j = Len(log) + 1
      <4>1. log[i].turn \in Turn
        BY <1>0, <3>1, LineType
      <4> QED BY <1>0, <2>1, <3>1, <3>3, <4>1 DEF Line, Turn
    <3> QED BY <1>0, <2>1, <3>2, <3>3
  <2>5. \A i \in Results' : \E j \in 1..Len(log') : j < i /\ log'[j] = Line("prompt", log'[i].turn)
    BY <1>0, <2>1 DEF Markers, Results
  <2> QED BY <2>3, <2>4, <2>5 DEF Markers
<1>3. ASSUME turns' = turns, NEW k \in {"init", "ok", "bad"}, NEW t \in Turn, Writes(k, t)
      PROVE  Markers'
  <2>1. /\ Len(log') = Len(log) + 1 /\ \A i \in 1..Len(log) : log'[i] = log[i]
        /\ log'[Len(log) + 1] = Line(k, t)
        /\ Results' = Results \/ Results' = Results \cup {Len(log) + 1}
    BY <1>3 DEF Writes
  <2>3. \A u \in Turn' : \E j \in 1..Len(log') : log'[j] = Line("prompt", u)
    <3> SUFFICES ASSUME NEW u \in Turn'
                 PROVE  \E j \in 1..Len(log') : log'[j] = Line("prompt", u)
      OBVIOUS
    <3>1. u \in Turn
      BY <1>3 DEF Turn
    <3>2. PICK j \in 1..Len(log) : log[j] = Line("prompt", u)
      BY <3>1 DEF Markers
    <3> QED BY <1>0, <2>1, <3>2
  <2>4. \A i \in 1..Len(log') : log'[i].kind = "prompt" => i \in 1..Len(log) /\ log'[i] = log[i]
    BY <1>0, <2>1 DEF Line
  <2>5. \A i, j \in 1..Len(log') :
         i < j /\ log'[i].kind = "prompt" /\ log'[j].kind = "prompt" => log'[i].turn < log'[j].turn
    BY <2>4 DEF Markers
  <2>6. ASSUME NEW i \in Results'
        PROVE  \E j \in 1..Len(log') : j < i /\ log'[j] = Line("prompt", log'[i].turn)
    <3>1. CASE i \in Results
      <4>1. i \in 1..Len(log)
        BY <3>1 DEF Results
      <4>2. PICK j \in 1..Len(log) : j < i /\ log[j] = Line("prompt", log[i].turn)
        BY <3>1 DEF Markers
      <4> QED BY <1>0, <2>1, <4>1, <4>2
    <3>2. CASE i = Len(log) + 1
      <4>1. PICK j \in 1..Len(log) : log[j] = Line("prompt", t)
        BY DEF Markers
      <4>2. log'[i].turn = t
        BY <2>1, <3>2 DEF Line
      <4> QED BY <1>0, <2>1, <3>2, <4>1, <4>2
    <3> QED BY <2>1, <3>1, <3>2
  <2> QED BY <2>3, <2>5, <2>6 DEF Markers
<1> QED BY <1>1, <1>2, <1>3, LogShape

\* A sequence that lost some of its first elements.
Shifted(u, s) ==
    \E d \in Nat : Len(u) + d <= Len(s) /\ \A k \in 1..Len(u) : u[k] = s[k + d]

\* A sequence, its tail and the empty one have lost some of its first elements.
LEMMA Shifts ==
    ASSUME NEW S, NEW s \in Seq(S)
    PROVE  /\ Shifted(s, s) /\ Shifted(<<>>, s)
           /\ s # <<>> => /\ Shifted(Tail(s), s)
                          /\ Head(s) = s[1] /\ 1 \in 1..Len(s)
                          /\ \A k \in 1..Len(Tail(s)) : k + 1 \in 1..Len(s) /\ Tail(s)[k] = s[k + 1]
<1>1. Len(s) \in Nat
  BY LenProperties
<1>2. Shifted(s, s) /\ Shifted(<<>>, s)
  <2>1. 0 \in Nat /\ Len(s) + 0 <= Len(s) /\ \A k \in 1..Len(s) : s[k] = s[k + 0]
    BY <1>1
  <2>2. Shifted(s, s)
    BY <2>1 DEF Shifted
  <2>3. Len(<<>>) = 0
    OBVIOUS
  <2>4. 0 \in Nat /\ Len(<<>>) + 0 <= Len(s) /\ \A k \in 1..Len(<<>>) : <<>>[k] = s[k + 0]
    BY <1>1, <2>3
  <2>5. Shifted(<<>>, s)
    BY <2>4 DEF Shifted
  <2> QED BY <2>2, <2>5
<1>3. ASSUME s # <<>>
      PROVE  /\ Shifted(Tail(s), s) /\ Head(s) = s[1] /\ 1 \in 1..Len(s)
             /\ \A k \in 1..Len(Tail(s)) : k + 1 \in 1..Len(s) /\ Tail(s)[k] = s[k + 1]
  <2>1. Len(Tail(s)) = Len(s) - 1 /\ \A k \in 1..Len(s) - 1 : Tail(s)[k] = s[k + 1]
    BY <1>3, HeadTailProperties
  <2>2. Len(s) >= 1
    BY <1>1, <1>3, EmptySeq
  <2>3. 1 \in Nat /\ Len(Tail(s)) + 1 <= Len(s)
    BY <1>1, <2>1, <2>2
  <2>4. \A k \in 1..Len(Tail(s)) : k + 1 \in 1..Len(s) /\ Tail(s)[k] = s[k + 1]
    BY <1>1, <2>1, <2>2
  <2>5. Shifted(Tail(s), s)
    BY <2>3, <2>4 DEF Shifted
  <2>6. Head(s) = s[1] /\ 1 \in 1..Len(s)
    BY <1>1, <1>3, <2>2
  <2> QED BY <2>4, <2>5, <2>6
<1> QED BY <1>2, <1>3

\* What of the order a shorter sequence inherits.
LEMMA ShiftedOrder ==
    ASSUME NEW s \in Seq(Nat), NEW u \in Seq(Nat), Shifted(u, s)
    PROVE  /\ \A k \in 1..Len(u) : \E l \in 1..Len(s) : u[k] = s[l]
           /\ (\A j, k \in 1..Len(s) : j < k => s[j] < s[k])
                => \A j, k \in 1..Len(u) : j < k => u[j] < u[k]
<1>1. Len(s) \in Nat /\ Len(u) \in Nat
  BY LenProperties
<1>2. PICK d \in Nat : Len(u) + d <= Len(s) /\ \A k \in 1..Len(u) : u[k] = s[k + d]
  BY DEF Shifted
<1>3. \A k \in 1..Len(u) : k + d \in 1..Len(s)
  BY <1>1, <1>2
<1> QED BY <1>1, <1>2, <1>3

\* What TypeOK says of the sequences of turns, as numbers.
LEMMA Sizes ==
    ASSUME TypeOK
    PROVE  /\ stdin \in Seq(Nat) /\ orphan \in Seq(Nat) /\ turns \in Nat /\ Len(log) \in Nat
           /\ Len(stdin) \in Nat /\ Len(orphan) \in Nat
           /\ \A k \in 1..Len(stdin) : stdin[k] \in Turn
           /\ \A k \in 1..Len(orphan) : orphan[k] \in Turn
           /\ \A i \in Results : i \in 1..Len(log) /\ log[i].turn \in Turn
<1>1. Sequences /\ Numbers
  BY TypeParts
<1>2. Turn \subseteq Nat /\ turns \in Nat
  BY <1>1 DEF Turn, Numbers
<1>3. stdin \in Seq(Nat) /\ orphan \in Seq(Nat)
  BY <1>1, <1>2, SeqMonotonic DEF Sequences
<1>4. \A k \in 1..Len(stdin) : stdin[k] \in Turn
  BY <1>1, ElementOfSeq DEF Sequences
<1>5. \A k \in 1..Len(orphan) : orphan[k] \in Turn
  BY <1>1, ElementOfSeq DEF Sequences
<1>6. Len(log) \in Nat /\ Len(stdin) \in Nat /\ Len(orphan) \in Nat
  BY <1>1, LenProperties DEF Sequences
<1>7. \A i \in Results : i \in 1..Len(log) /\ log[i].turn \in Turn
  BY LineType DEF Results
<1> QED BY <1>2, <1>3, <1>4, <1>5, <1>6, <1>7

\* The order survives a step that gives no process anything and writes no result.
LEMMA OrderKept ==
    ASSUME Base, Base', Order, log' = log \/ \E k \in {"prompt", "init"} : \E t : Writes(k, t),
           turns <= turns', Shifted(stdin', stdin), Shifted(orphan', orphan),
           ipc' \in {"state", "write"} \/ spc' = "spawn"
             => turns < turns' \/ ipc \in {"state", "write"} \/ spc = "spawn",
           hpc' # "off" => hpc # "off",
           \A t : Writes("init", t) => \A i \in Results : log[i].turn < t
    PROVE  Order'
<1>0. TypeOK /\ TypeOK' /\ turns' \in Nat /\ stdin' \in Seq(Nat) /\ orphan' \in Seq(Nat)
  <2>1. TypeOK /\ TypeOK'
    BY DEF Base
  <2>2. turns' \in Nat /\ stdin' \in Seq(Turn') /\ orphan' \in Seq(Turn')
    BY <2>1 DEF TypeOK
  <2>3. Turn' \subseteq Nat
    BY <2>2 DEF Turn
  <2> QED BY <2>1, <2>2, <2>3, SeqMonotonic
<1>1. /\ \A k \in 1..Len(stdin') : \E l \in 1..Len(stdin) : stdin'[k] = stdin[l]
      /\ \A j, k \in 1..Len(stdin') : j < k => stdin'[j] < stdin'[k]
      /\ \A k \in 1..Len(orphan') : \E l \in 1..Len(orphan) : orphan'[k] = orphan[l]
  BY <1>0, Sizes, ShiftedOrder DEF Order
<1>2. Results' = Results /\ \A i \in Results : i \in 1..Len(log) /\ log'[i] = log[i]
  BY DEF Writes, Results
<1>3. \A i \in Results', k \in 1..Len(stdin') : log'[i].turn < stdin'[k]
  BY <1>1, <1>2 DEF Order
<1>4. \A j \in 1..Len(orphan'), k \in 1..Len(stdin') : orphan'[j] < stdin'[k]
  BY <1>1 DEF Order
<1>5. (ipc \in {"state", "write"} \/ spc = "spawn" => Newest(turns))'
  <2>1. CASE turns < turns'
    <3>1. \A t \in Turn : t \in Nat /\ t < turns'
      BY <1>0, <2>1, Sizes DEF Turn
    <3> QED BY <1>0, <1>1, <1>2, <3>1, Sizes DEF Newest
  <2>2. CASE turns' = turns /\ (ipc \in {"state", "write"} \/ spc = "spawn")
    <3>1. Newest(turns)
      BY <2>2 DEF Order
    <3>2. \A i \in Results' : log'[i].turn < turns'
      BY <1>2, <2>2, <3>1 DEF Newest
    <3>3. /\ \A k \in 1..Len(stdin') : stdin'[k] < turns'
          /\ \A k \in 1..Len(orphan') : orphan'[k] < turns'
      BY <1>1, <2>2, <3>1 DEF Newest
    <3> QED BY <3>2, <3>3 DEF Newest
  <2> QED BY <1>0, <2>1, <2>2, Sizes
<1>6. hpc' # "off" => \A k \in 1..Len(orphan') : orphan'[k] < turns'
  <2> SUFFICES ASSUME hpc' # "off", NEW k \in 1..Len(orphan') PROVE orphan'[k] < turns'
    OBVIOUS
  <2>1. PICK l \in 1..Len(orphan) : orphan'[k] = orphan[l]
    BY <1>1
  <2>2. orphan[l] < turns /\ orphan[l] \in Nat
    BY <1>0, Sizes DEF Order, Turn
  <2>3. turns \in Nat /\ turns' \in Nat
    BY <1>0, Sizes
  <2> QED BY <2>1, <2>2, <2>3
<1>7. \A p \in 1..Len(log'), i \in Results' :
         log'[p].kind = "init" /\ i < p => log'[i].turn < log'[p].turn
  <2>1. CASE log' = log
    BY <1>2, <2>1 DEF Order
  <2>2. ASSUME NEW k \in {"prompt", "init"}, NEW t, Writes(k, t)
        PROVE  \A p \in 1..Len(log'), i \in Results' :
                 log'[p].kind = "init" /\ i < p => log'[i].turn < log'[p].turn
    <3> SUFFICES ASSUME NEW p \in 1..Len(log'), NEW i \in Results', log'[p].kind = "init", i < p
                 PROVE  log'[i].turn < log'[p].turn
      OBVIOUS
    <3>1. CASE p \in 1..Len(log)
      BY <1>2, <2>2, <3>1 DEF Writes, Order
    <3>2. CASE p = Len(log) + 1
      <4>1. log'[p] = Line(k, t)
        BY <2>2, <3>2 DEF Writes
      <4>2. k = "init" /\ log'[p].turn = t
        BY <4>1 DEF Line
      <4> QED BY <1>2, <2>2, <4>2
    <3> QED BY <1>0, <2>2, <3>1, <3>2, Sizes DEF Writes
  <2> QED BY <2>1, <2>2
<1> QED BY <1>1, <1>3, <1>4, <1>5, <1>6, <1>7 DEF Order

\* And a step that writes a result older than what is still to be answered.
LEMMA OrderAnswered ==
    ASSUME Base, Base', Order, NEW k \in {"ok", "bad"}, NEW t \in Turn, Writes(k, t), turns' = turns,
           Shifted(stdin', stdin), Shifted(orphan', orphan),
           ipc' = ipc, spc' = spc, hpc' = hpc,
           \A l \in 1..Len(stdin') : t < stdin'[l],
           ipc \in {"state", "write"} \/ spc = "spawn" => t < turns
    PROVE  Order'
<1>0. TypeOK /\ TypeOK' /\ turns' \in Nat /\ stdin' \in Seq(Nat) /\ orphan' \in Seq(Nat)
  <2>1. TypeOK /\ TypeOK'
    BY DEF Base
  <2>2. turns' \in Nat /\ stdin' \in Seq(Turn') /\ orphan' \in Seq(Turn')
    BY <2>1 DEF TypeOK
  <2>3. Turn' \subseteq Nat
    BY <2>2 DEF Turn
  <2> QED BY <2>1, <2>2, <2>3, SeqMonotonic
<1>1. /\ \A l \in 1..Len(stdin') : \E m \in 1..Len(stdin) : stdin'[l] = stdin[m]
      /\ \A j, l \in 1..Len(stdin') : j < l => stdin'[j] < stdin'[l]
      /\ \A l \in 1..Len(orphan') : \E m \in 1..Len(orphan) : orphan'[l] = orphan[m]
  BY <1>0, Sizes, ShiftedOrder DEF Order
<1>2. /\ Results' = Results \cup {Len(log) + 1} /\ log'[Len(log) + 1] = Line(k, t)
      /\ Len(log') = Len(log) + 1 /\ \A i \in 1..Len(log) : log'[i] = log[i]
  BY DEF Writes
<1>3. \A i \in Results' : (i \in Results /\ log'[i] = log[i]) \/ log'[i].turn = t
  BY <1>0, <1>2, Sizes DEF Line
<1>4. \A i \in Results', l \in 1..Len(stdin') : log'[i].turn < stdin'[l]
  BY <1>1, <1>3 DEF Order
<1>5. \A j \in 1..Len(orphan'), l \in 1..Len(stdin') : orphan'[j] < stdin'[l]
  BY <1>1 DEF Order
<1>6. (ipc \in {"state", "write"} \/ spc = "spawn" => Newest(turns))'
  BY <1>1, <1>3 DEF Order, Newest
<1>7. hpc' # "off" => \A l \in 1..Len(orphan') : orphan'[l] < turns'
  BY <1>1 DEF Order
<1>8. \A p \in 1..Len(log'), i \in Results' :
         log'[p].kind = "init" /\ i < p => log'[i].turn < log'[p].turn
  <2> SUFFICES ASSUME NEW p \in 1..Len(log'), NEW i \in Results', log'[p].kind = "init", i < p
               PROVE  log'[i].turn < log'[p].turn
    OBVIOUS
  <2>1. p \in 1..Len(log)
    BY <1>0, <1>2, Sizes DEF Line
  <2>2. i \in Results /\ i \in 1..Len(log)
    BY <1>0, <1>2, <2>1, Sizes
  <2> QED BY <1>2, <2>1, <2>2 DEF Order
<1> QED BY <1>1, <1>4, <1>5, <1>6, <1>7, <1>8 DEF Order

\* Nothing was given and nothing answered.
LEMMA OrderInit == Init => Order
BY DEF Init, Order, Results

\* Turns are given, answered and orphaned in the order in which they began.
LEMMA OrderStep == Base /\ Base' /\ Order /\ [Next]_vars => Order'
<1> SUFFICES ASSUME Base, Base', Order, [Next]_vars PROVE Order'
  OBVIOUS
<1>0. /\ TypeOK /\ TypeOK' /\ Control /\ Subject /\ turns \in Nat /\ Places
      /\ stdin \in Seq(Nat) /\ orphan \in Seq(Nat)
  BY Sizes, TypeParts DEF Base
<1>1. /\ Shifted(stdin, stdin) /\ Shifted(<<>>, stdin)
      /\ stdin # <<>> => /\ Shifted(Tail(stdin), stdin) /\ Head(stdin) = stdin[1] /\ 1 \in 1..Len(stdin)
                         /\ \A k \in 1..Len(Tail(stdin)) : k + 1 \in 1..Len(stdin) /\ Tail(stdin)[k] = stdin[k + 1]
  BY <1>0, Shifts
<1>2. /\ Shifted(orphan, orphan) /\ Shifted(<<>>, orphan)
      /\ orphan # <<>> => /\ Shifted(Tail(orphan), orphan) /\ Head(orphan) = orphan[1]
                          /\ 1 \in 1..Len(orphan)
  BY <1>0, Shifts
\* Nothing is written and nothing is given.
<1>3. CASE /\ log' = log /\ turns' = turns /\ orphan' = orphan /\ stdin' \in {stdin, <<>>}
           /\ ipc' \in {"state", "write"} \/ spc' = "spawn"
                => ipc \in {"state", "write"} \/ spc = "spawn"
           /\ hpc' # "off" => hpc # "off"
  <2>1. ~\E t : Writes("init", t)
    BY <1>0, <1>3, Sizes DEF Writes
  <2> QED BY <1>0, <1>1, <1>2, <1>3, <2>1, OrderKept
<1>4. CASE InjectLog \/ StartLog
  <2>1. Writes("prompt", turns + 1) /\ turns' = turns + 1 /\ stdin' = stdin /\ orphan' = orphan /\ hpc' = hpc
    BY <1>0, <1>4, LogStep DEF InjectLog, StartLog, procVars, pumpVars
  <2>2. ~\E t : Writes("init", t)
    <3>1. log'[Len(log) + 1].kind = "prompt"
      BY <2>1 DEF Writes, Line
    <3>2. \A t : Writes("init", t) => log'[Len(log) + 1].kind = "init"
      BY DEF Writes, Line
    <3> QED BY <3>1, <3>2
  <2>3. log' = log \/ \E k \in {"prompt", "init"} : \E t : Writes(k, t)
    BY <2>1
  <2> QED BY <1>0, <1>1, <1>2, <2>1, <2>2, <2>3, OrderKept
<1>5. CASE BridgeInit
  <2>1. /\ Writes("init", Head(stdin)) /\ turns' = turns /\ stdin' = stdin /\ orphan' = orphan
        /\ hpc' = hpc /\ ipc' = ipc /\ spc' = spc /\ stdin # <<>>
    BY <1>0, <1>5, LogStep DEF BridgeInit, userVars, pumpVars, engVars
  <2>2. \A t : Writes("init", t) => t = Head(stdin)
    BY <1>0, <2>1, Sizes DEF Writes, Line
  <2>3. \A t : Writes("init", t) => \A i \in Results : log[i].turn < t
    BY <1>1, <2>1, <2>2 DEF Order
  <2>4. log' = log \/ \E k \in {"prompt", "init"} : \E t : Writes(k, t)
    BY <2>1
  <2> QED BY <1>0, <1>1, <1>2, <2>1, <2>3, <2>4, OrderKept
<1>6. CASE BridgeResult
  <2>1. /\ turns' = turns /\ stdin' = Tail(stdin) /\ orphan' = orphan
        /\ hpc' = hpc /\ ipc' = ipc /\ spc' = spc /\ stdin # <<>>
    BY <1>0, <1>6 DEF BridgeResult, userVars, pumpVars, engVars, Control
  <2>2. PICK k \in {"ok", "bad"} : Writes(k, Head(stdin))
    BY <1>0, <1>6, LogStep
  <2>3. Head(stdin) \in Turn /\ \A l \in 1..Len(stdin') : Head(stdin) < stdin'[l]
    <3>1. Head(stdin) \in Turn
      BY <1>0, <2>1, HeadTurn
    <3>2. \A l \in 1..Len(stdin') : l \in Nat /\ 1 < l + 1 /\ l + 1 \in 1..Len(stdin) /\ stdin'[l] = stdin[l + 1]
      BY <1>1, <2>1
    <3> QED BY <1>1, <2>1, <3>1, <3>2 DEF Order
  <2>4. ipc \in {"state", "write"} \/ spc = "spawn" => Head(stdin) < turns
    BY <1>1, <2>1 DEF Order, Newest
  <2> QED BY <1>1, <1>2, <2>1, <2>2, <2>3, <2>4, OrderAnswered
<1>7. CASE BridgeThrow
  <2>1. /\ turns' = turns /\ stdin' = <<>> /\ orphan' = orphan
        /\ hpc' = hpc /\ ipc' = ipc /\ spc' = spc /\ Writes("bad", LastGiven)
        /\ stdin # <<>> \/ Results # {}
    BY <1>0, <1>7, LogStep DEF BridgeThrow, userVars, pumpVars, engVars, Subject
  <2>2. LastGiven \in Turn
    BY <1>0, <2>1, LastGivenTurn
  <2>3. ipc \in {"state", "write"} \/ spc = "spawn" => LastGiven < turns
    <3> SUFFICES ASSUME Newest(turns) PROVE LastGiven < turns
      BY DEF Order
    <3>1. CASE stdin # <<>>
      BY <1>1, <3>1 DEF Newest, LastGiven
    <3>2. CASE stdin = <<>>
      <4>1. Last(Results) \in Results
        BY <1>0, <2>1, <3>2, Greatest, ResultsFinite, Sizes
      <4> QED BY <3>2, <4>1 DEF Newest, LastGiven
    <3> QED BY <3>1, <3>2
  <2>4. Len(stdin') = 0
    BY <2>1
  <2> QED BY <1>1, <1>2, <2>1, <2>2, <2>3, <2>4, OrderAnswered
<1>8. CASE OrphanResult
  <2>1. /\ turns' = turns /\ stdin' = stdin /\ orphan' \in {Tail(orphan), <<>>} /\ orphan # <<>>
        /\ hpc' = hpc /\ ipc' = ipc /\ spc' = spc
    BY <1>8 DEF OrphanResult, userVars, pumpVars, engVars, procVars
  <2>2. PICK k \in {"ok", "bad"} : Writes(k, Head(orphan))
    BY <1>0, <1>8, LogStep
  <2>3. Head(orphan) \in Turn /\ \A l \in 1..Len(stdin') : Head(orphan) < stdin'[l]
    BY <1>0, <1>2, <2>1, HeadTurn DEF Order
  <2>4. ipc \in {"state", "write"} \/ spc = "spawn" => Head(orphan) < turns
    BY <1>2, <2>1 DEF Order, Newest
  <2> QED BY <1>1, <1>2, <2>1, <2>2, <2>3, <2>4, OrderAnswered
<1>9. CASE InjectWrite \/ StartSpawn
  <2>1. /\ Newest(turns) /\ log' = log /\ turns' = turns /\ orphan' = orphan /\ spc' # "spawn" /\ ipc' \notin {"state", "write"}
        /\ stdin' \in {stdin, <<>>, <<turns>>, Append(stdin, turns)}
    BY <1>0, <1>9 DEF InjectWrite, StartSpawn, Order, Control, userVars, engVars
  <2>2. Results' = Results
    BY <2>1 DEF Results
  <2>3. /\ \A k \in 1..Len(stdin') : stdin'[k] = turns \/ (k \in 1..Len(stdin) /\ stdin'[k] = stdin[k])
        /\ \A j, k \in 1..Len(stdin') : j < k => j \in 1..Len(stdin) /\ stdin'[j] = stdin[j]
    <3>0. Len(stdin) \in Nat
      BY <1>0, LenProperties
    <3>1. CASE stdin' = stdin
      BY <3>0, <3>1
    <3>2. CASE stdin' = <<>>
      BY <3>2
    <3>3. CASE stdin' = <<turns>>
      <4>1. Len(stdin') = 1 /\ stdin'[1] = turns
        BY <3>3
      <4>2. \A k \in 1..Len(stdin') : k = 1
        BY <4>1
      <4>3. \A k \in 1..Len(stdin') : stdin'[k] = turns
        BY <4>1, <4>2, Zenon
      <4>4. \A j, k \in 1..Len(stdin') : ~(j < k)
        BY <4>1
      <4> QED BY <4>3, <4>4, Zenon
    <3>4. CASE stdin' = Append(stdin, turns)
      <4>1. /\ Len(stdin') = Len(stdin) + 1 /\ \A k \in 1..Len(stdin) : stdin'[k] = stdin[k]
            /\ stdin'[Len(stdin) + 1] = turns
        BY <1>0, <3>4, AppendProperties
      <4>2. \A k \in 1..Len(stdin') : k \in 1..Len(stdin) \/ k = Len(stdin) + 1
        BY <3>0, <4>1
      <4>3. \A k \in 1..Len(stdin') : stdin'[k] = turns \/ (k \in 1..Len(stdin) /\ stdin'[k] = stdin[k])
        BY <4>1, <4>2, Zenon
      <4>4. \A j, k \in 1..Len(stdin') : j < k => j \in 1..Len(stdin)
        BY <3>0, <4>1
      <4> QED BY <4>1, <4>3, <4>4
    <3> QED BY <2>1, <3>1, <3>2, <3>3, <3>4
  <2>5. \A i \in Results', k \in 1..Len(stdin') : log'[i].turn < stdin'[k]
    BY <2>1, <2>2, <2>3 DEF Order, Newest
  <2>6. \A j, k \in 1..Len(stdin') : j < k => stdin'[j] < stdin'[k]
    BY <2>1, <2>3 DEF Order, Newest
  <2>7. \A j \in 1..Len(orphan'), k \in 1..Len(stdin') : orphan'[j] < stdin'[k]
    BY <2>1, <2>3 DEF Order, Newest
  <2>8. \A k \in 1..Len(orphan') : orphan'[k] < turns'
    BY <2>1 DEF Newest
  <2> QED BY <2>1, <2>2, <2>5, <2>6, <2>7, <2>8 DEF Order
<1>10. CASE Stop
  <2>1. /\ log' = log /\ turns' = turns /\ stdin' = <<>> /\ spc' = "off" /\ ipc' = "off" /\ hpc' = "off"
    BY <1>10 DEF Stop, userVars
  <2>2. Results' = Results
    BY <2>1 DEF Results
  <2> QED BY <2>1, <2>2 DEF Order
<1>11. \/ /\ log' = log /\ turns' = turns /\ orphan' = orphan /\ stdin' \in {stdin, <<>>}
          /\ ipc' \in {"state", "write"} \/ spc' = "spawn"
               => ipc \in {"state", "write"} \/ spc = "spawn"
          /\ hpc' # "off" => hpc # "off"
       \/ InjectLog \/ StartLog \/ BridgeInit \/ BridgeResult \/ BridgeThrow \/ OrphanResult
       \/ InjectWrite \/ StartSpawn \/ Stop
  <2>1. CASE FollowUpQueued
    BY <1>0, <2>1 DEF FollowUpQueued, rowVars, userVars, engVars, procVars, tailVars, pumpVars, bootVars
  <2>2. CASE InjectBegin
    BY <1>0, <2>2 DEF InjectBegin, rowVars, userVars, engVars, procVars, tailVars, pumpVars, bootVars
  <2>3. CASE InjectLog
    BY <2>3
  <2>4. CASE InjectState
    BY <1>0, <2>4 DEF InjectState, rowVars, userVars, engVars, procVars, tailVars, pumpVars, bootVars
  <2>5. CASE InjectWrite
    BY <2>5
  <2>6. CASE Kill
    BY <1>0, <2>6 DEF Kill, rowVars, userVars, engVars, procVars, tailVars, pumpVars, bootVars
  <2>7. CASE StartLog
    BY <2>7
  <2>8. CASE StartSpawn
    BY <2>8
  <2>9. CASE StartPublish
    BY <1>0, <2>9 DEF StartPublish, rowVars, userVars, engVars, procVars, tailVars, pumpVars, bootVars
  <2>10. CASE StartSidecar
    BY <1>0, <2>10 DEF StartSidecar, rowVars, userVars, engVars, procVars, tailVars, pumpVars, bootVars
  <2>11. CASE BridgeInit
    BY <2>11
  <2>12. CASE BridgeResult
    BY <2>12
  <2>13. CASE BridgeThrow
    BY <2>13
  <2>14. CASE BridgeExit
    BY <1>0, <2>14 DEF BridgeExit, rowVars, userVars, engVars, procVars, tailVars, pumpVars, bootVars
  <2>15. CASE OrphanResult
    BY <2>15
  <2>16. CASE Poll
    BY <1>0, <2>16 DEF Poll, rowVars, userVars, engVars, procVars, tailVars, pumpVars, bootVars
  <2>17. CASE PollFinal
    BY <1>0, <2>17 DEF PollFinal, rowVars, userVars, engVars, procVars, tailVars, pumpVars, bootVars
  <2>18. CASE EventInit
    BY <1>0, <2>18 DEF EventInit, rowVars, userVars, engVars, procVars, tailVars, pumpVars, bootVars
  <2>19. CASE ResultGet
    BY <1>0, <2>19 DEF ResultGet, rowVars, userVars, engVars, procVars, tailVars, pumpVars, bootVars
  <2>20. CASE ResultPatch
    BY <1>0, <2>20 DEF ResultPatch, rowVars, userVars, engVars, procVars, tailVars, pumpVars, bootVars
  <2>21. CASE ResultPark
    BY <1>0, <2>21 DEF ResultPark, rowVars, userVars, engVars, procVars, tailVars, pumpVars, bootVars
  <2>22. CASE ExitBegin
    BY <1>0, <2>22 DEF ExitBegin, rowVars, userVars, engVars, procVars, tailVars, pumpVars, bootVars
  <2>23. CASE ExitApply
    BY <1>0, <2>23 DEF ExitApply, FinalRow, rowVars, userVars, engVars, procVars, tailVars, pumpVars,
       bootVars
  <2>24. CASE Stop
    BY <2>24
  <2>25. CASE Recover
    BY <1>0, <2>25 DEF Recover, rowVars, userVars, engVars, procVars, tailVars, pumpVars, bootVars
  <2>26. CASE UNCHANGED vars
    BY <1>0, <2>26 DEF vars, rowVars, userVars, engVars, procVars, tailVars, pumpVars, bootVars
  <2> QED
    BY <2>1, <2>2, <2>3, <2>4, <2>5, <2>6, <2>7, <2>8, <2>9, <2>10, <2>11,
       <2>12, <2>13, <2>14, <2>15, <2>16, <2>17, <2>18, <2>19, <2>20, <2>21,
       <2>22, <2>23, <2>24, <2>25, <2>26 DEF Next, PumpStep
<1> QED BY <1>3, <1>4, <1>5, <1>6, <1>7, <1>8, <1>9, <1>10, <1>11

-----------------------------------------------------------------------------
(* What waits to be handled. *)

\* What waits are finitely many results, and the one in hand waits.
LEMMA WaitingFacts ==
    ASSUME Base
    PROVE  /\ Waiting \subseteq Results /\ IsFiniteSet(Results) /\ IsFiniteSet(Waiting)
           /\ \A i \in Results : i \in 1..Len(log) /\ log[i].turn \in Turn
           /\ Len(log) \in Nat /\ read \in 0..Len(log) /\ turns \in Nat
           /\ hpc \in {"patch", "park"} => First(chan) \in Waiting /\ First(chan) <= read
                                           /\ Event = log[First(chan)]
<1>1. TypeOK /\ Positions /\ Subject
  BY TypeParts DEF Base
<1>2. IsFiniteSet(Results) /\ Waiting \subseteq Results
  BY <1>1, ResultsFinite DEF Waiting
<1>3. IsFiniteSet(Waiting)
  BY <1>2, FS_Subset
<1>4. hpc \in {"patch", "park"} => First(chan) \in Waiting /\ First(chan) <= read /\ Event = log[First(chan)]
  <2> SUFFICES ASSUME hpc \in {"patch", "park"}
               PROVE  First(chan) \in Waiting /\ First(chan) <= read /\ Event = log[First(chan)]
    OBVIOUS
  <2>1. chan # {} /\ IsResult(Event) /\ Event = log[First(chan)] /\ \A i \in chan : i <= read
    BY <1>1 DEF Subject, Event
  <2>2. First(chan) \in chan /\ First(chan) \in 1..Len(log)
    BY <1>1, <2>1, ChanFirst
  <2> QED BY <2>1, <2>2 DEF Waiting, Results
<1> QED BY <1>1, <1>2, <1>3, <1>4, Sizes DEF Positions

\* What each action does to the results that wait: the bridge adds one, ResultPark takes
\* one, an exit and a stop leave none.
LEMMA WaitStep ==
    ASSUME Base, Base', [Next]_vars
    PROVE  \/ ExitApply /\ Results' = Results /\ Waiting' = {}
           \/ Stop /\ Results' = Results /\ Waiting' = {}
           \/ /\ ResultPark /\ Results' = Results
              /\ First(chan) \in Waiting /\ Waiting' = Waiting \ {First(chan)}
           \/ /\ BridgeResult \/ BridgeThrow \/ OrphanResult
              /\ Results' = Results \cup {Len(log) + 1}
              /\ hpc' = hpc /\ Waiting' = Waiting \cup (IF hpc = "off" THEN {} ELSE {Len(log) + 1})
           \/ /\ ~(ExitApply \/ Stop \/ ResultPark \/ BridgeResult \/ BridgeThrow \/ OrphanResult)
              /\ Results' = Results /\ Waiting' = Waiting
<1>0. TypeOK /\ TypeOK' /\ Control /\ Subject /\ Positions /\ Places
  BY TypeParts DEF Base
<1>1. /\ \A i \in Results : i \in 1..Len(log)
      /\ Len(log) \in Nat /\ read \in 0..Len(log)
  BY WaitingFacts
<1>2. CASE ExitApply
  <2>1. log' = log /\ hpc' = "off"
    BY <1>2 DEF ExitApply, FinalRow
  <2> QED BY <1>2, <2>1 DEF Waiting, Results
<1>3. CASE Stop
  <2>1. log' = log /\ hpc' = "off"
    BY <1>3 DEF Stop
  <2> QED BY <1>3, <2>1 DEF Waiting, Results
<1>4. CASE ResultPark
  <2>1. log' = log /\ hpc' = "listen" /\ chan' = chan \ {First(chan)} /\ read' = read /\ hpc = "park"
    BY <1>4 DEF ResultPark
  <2>2. First(chan) \in Waiting /\ First(chan) <= read /\ Results' = Results
    BY <2>1, WaitingFacts DEF Results
  <2>3. ~(First(chan) > read)
    BY <1>1, <2>2 DEF Waiting
  <2>4. Waiting' = Waiting \ {First(chan)}
    BY <2>1, <2>2, <2>3 DEF Waiting
  <2> QED BY <1>4, <2>2, <2>4
<1>5. CASE BridgeResult \/ BridgeThrow \/ OrphanResult
  <2>1. hpc' = hpc /\ read' = read /\ chan' = chan
    BY <1>5 DEF BridgeResult, BridgeThrow, OrphanResult, pumpVars, tailVars
  <2>2. Results' = Results \cup {Len(log) + 1}
    BY <1>0, <1>5, LogStep DEF Writes
  <2>3. Len(log) + 1 \notin Results /\ Len(log) + 1 > read
    BY <1>1
  <2>4. Waiting' = Waiting \cup (IF hpc = "off" THEN {} ELSE {Len(log) + 1})
    BY <2>1, <2>2, <2>3 DEF Waiting
  <2> QED BY <1>5, <2>1, <2>2, <2>4
<1>6. ASSUME ~(ExitApply \/ Stop \/ ResultPark \/ BridgeResult \/ BridgeThrow \/ OrphanResult)
      PROVE  Results' = Results /\ Waiting' = Waiting
  <2>1. CASE InjectLog \/ StartLog \/ BridgeInit
    <3>1. hpc' = hpc /\ read' = read /\ chan' = chan
      BY <2>1 DEF InjectLog, StartLog, BridgeInit, pumpVars, tailVars
    <3>2. Results' = Results
      BY <1>0, <2>1, LogStep DEF Writes
    <3> QED BY <3>1, <3>2 DEF Waiting
  <2>2. CASE log' = log /\ hpc = "off" /\ (hpc' = "off" \/ StartSpawn)
    <3>1. Results' = Results /\ Waiting = {}
      BY <2>2 DEF Results, Waiting
    <3>2. CASE StartSpawn
      <4>1. chan' = {} /\ read' = Len(log)
        BY <3>2 DEF StartSpawn
      <4>2. \A i \in Results' : ~(i > read')
        BY <1>1, <3>1, <4>1
      <4> QED BY <3>1, <4>1, <4>2 DEF Waiting
    <3> QED BY <2>2, <3>1, <3>2 DEF Waiting
  <2>3. CASE log' = log /\ hpc # "off" /\ hpc' # "off" /\ chan' = chan /\ read' = read
    BY <2>3 DEF Results, Waiting
  <2>4. CASE Poll \/ PollFinal
    <3>1. /\ log' = log /\ hpc # "off" /\ hpc' = hpc /\ read' = Len(log)
          /\ chan' = chan \cup {i \in Unread : IsEvent(log[i])}
      BY <2>4 DEF Poll, PollFinal, pumpVars
    <3>2. Results' = Results
      BY <3>1 DEF Results
    <3>3. \A i \in Results : ~(i > read') /\ (i \in Unread <=> i > read) /\ IsEvent(log[i])
      BY <1>1, <3>1 DEF Unread, Results, IsResult, IsEvent
    <3> QED BY <3>1, <3>2, <3>3 DEF Waiting
  <2>5. CASE EventInit
    <3>1. /\ log' = log /\ hpc # "off" /\ hpc' = hpc /\ read' = read /\ chan' = chan \ {First(chan)}
          /\ log[First(chan)].kind = "init"
      BY <2>5 DEF EventInit, pumpVars, Event
    <3>2. Results' = Results /\ First(chan) \notin Results
      BY <3>1 DEF Results, IsResult
    <3> QED BY <3>1, <3>2 DEF Waiting
  <2>6. \/ InjectLog \/ StartLog \/ BridgeInit \/ Poll \/ PollFinal \/ EventInit
        \/ log' = log /\ hpc = "off" /\ (hpc' = "off" \/ StartSpawn)
        \/ log' = log /\ hpc # "off" /\ hpc' # "off" /\ chan' = chan /\ read' = read
    <3>1. CASE FollowUpQueued
      BY <1>0, <3>1 DEF FollowUpQueued, Control, rowVars, userVars, engVars, procVars, tailVars,
         pumpVars, bootVars
    <3>2. CASE InjectBegin
      BY <1>0, <3>2 DEF InjectBegin, Control, rowVars, userVars, engVars, procVars, tailVars, pumpVars,
         bootVars
    <3>3. CASE InjectLog
      BY <3>3
    <3>4. CASE InjectState
      BY <1>0, <3>4 DEF InjectState, Control, rowVars, userVars, engVars, procVars, tailVars, pumpVars,
         bootVars
    <3>5. CASE InjectWrite
      BY <1>0, <3>5 DEF InjectWrite, Control, rowVars, userVars, engVars, procVars, tailVars, pumpVars,
         bootVars
    <3>6. CASE Kill
      BY <1>0, <3>6 DEF Kill, Control, rowVars, userVars, engVars, procVars, tailVars, pumpVars, bootVars
    <3>7. CASE StartLog
      BY <3>7
    <3>8. CASE StartSpawn
      BY <1>0, <3>8 DEF StartSpawn, Control, rowVars, userVars, engVars, procVars, tailVars, pumpVars,
         bootVars
    <3>9. CASE StartPublish
      BY <1>0, <3>9 DEF StartPublish, Control, rowVars, userVars, engVars, procVars, tailVars, pumpVars,
         bootVars
    <3>10. CASE StartSidecar
      BY <1>0, <3>10 DEF StartSidecar, Control, rowVars, userVars, engVars, procVars, tailVars,
         pumpVars, bootVars
    <3>11. CASE BridgeInit
      BY <3>11
    <3>12. CASE BridgeResult
      BY <1>6, <3>12
    <3>13. CASE BridgeThrow
      BY <1>6, <3>13
    <3>14. CASE BridgeExit
      BY <1>0, <3>14 DEF BridgeExit, Control, rowVars, userVars, engVars, procVars, tailVars, pumpVars,
         bootVars
    <3>15. CASE OrphanResult
      BY <1>6, <3>15
    <3>16. CASE Poll
      BY <3>16
    <3>17. CASE PollFinal
      BY <3>17
    <3>18. CASE EventInit
      BY <3>18
    <3>19. CASE ResultGet
      BY <1>0, <3>19 DEF ResultGet, Control, rowVars, userVars, engVars, procVars, tailVars, pumpVars,
         bootVars
    <3>20. CASE ResultPatch
      BY <1>0, <3>20 DEF ResultPatch, Control, rowVars, userVars, engVars, procVars, tailVars, pumpVars,
         bootVars
    <3>21. CASE ResultPark
      BY <1>6, <3>21
    <3>22. CASE ExitBegin
      BY <1>0, <3>22 DEF ExitBegin, Control, rowVars, userVars, engVars, procVars, tailVars, pumpVars,
         bootVars
    <3>23. CASE ExitApply
      BY <1>6, <3>23
    <3>24. CASE Stop
      BY <1>6, <3>24
    <3>25. CASE Recover
      BY <1>0, <3>25 DEF Recover, Control, rowVars, userVars, engVars, procVars, tailVars, pumpVars,
         bootVars
    <3>26. CASE UNCHANGED vars
      BY <1>0, <3>26 DEF vars, Control, rowVars, userVars, engVars, procVars, tailVars, pumpVars, bootVars
    <3> QED
      BY <3>1, <3>2, <3>3, <3>4, <3>5, <3>6, <3>7, <3>8, <3>9, <3>10, <3>11,
         <3>12, <3>13, <3>14, <3>15, <3>16, <3>17, <3>18, <3>19, <3>20, <3>21,
         <3>22, <3>23, <3>24, <3>25, <3>26 DEF Next, PumpStep
  <2> QED BY <2>1, <2>2, <2>3, <2>4, <2>5, <2>6
<1> QED BY <1>2, <1>3, <1>4, <1>5, <1>6

-----------------------------------------------------------------------------
(* Costs. *)

\* Nothing is counted before the first result.
LEMMA CostsInit == Init => Costs
<1> SUFFICES ASSUME Init PROVE Costs
  OBVIOUS
<1>1. Counted = {} /\ cost = 0 /\ exit = "none"
  BY DEF Init, Counted, Waiting, Results
<1> QED BY <1>1, FS_EmptySet DEF Costs

\* While the pump task runs, only ResultPatch counts, and what it counts is new.
LEMMA CountedStep ==
    ASSUME Base, Base', [Next]_vars, ~Stop, ~ExitApply, hpc # "off" \/ ~OrphanResult
    PROVE  /\ ResultPatch => First(chan) \notin Counted /\ Counted' = Counted \cup {First(chan)}
           /\ ~ResultPatch => Counted' = Counted /\ cost' = cost
<1>0. TypeOK /\ Control /\ Subject /\ Places
  BY TypeParts DEF Base
<1>1. /\ Waiting \subseteq Results /\ \A i \in Results : i \in 1..Len(log)
      /\ Len(log) \in Nat
      /\ hpc \in {"patch", "park"} => First(chan) \in Waiting
  BY WaitingFacts
<1>2. ~ResultPatch =>
        /\ cost' = cost
        /\ ~ResultPark => (hpc' = "park" <=> hpc = "park")
                          /\ (hpc = "park" => chan' = chan \/ Poll \/ PollFinal)
  <2>1. CASE FollowUpQueued
    BY <1>0, <2>1 DEF FollowUpQueued, Control, Subject, rowVars, userVars, engVars, procVars, tailVars,
       pumpVars, bootVars
  <2>2. CASE InjectBegin
    BY <1>0, <2>2 DEF InjectBegin, Control, Subject, rowVars, userVars, engVars, procVars, tailVars,
       pumpVars, bootVars
  <2>3. CASE InjectLog
    BY <1>0, <2>3 DEF InjectLog, Control, Subject, rowVars, userVars, engVars, procVars, tailVars,
       pumpVars, bootVars
  <2>4. CASE InjectState
    BY <1>0, <2>4 DEF InjectState, Control, Subject, rowVars, userVars, engVars, procVars, tailVars,
       pumpVars, bootVars
  <2>5. CASE InjectWrite
    BY <1>0, <2>5 DEF InjectWrite, Control, Subject, rowVars, userVars, engVars, procVars, tailVars,
       pumpVars, bootVars
  <2>6. CASE Kill
    BY <1>0, <2>6 DEF Kill, Control, Subject, rowVars, userVars, engVars, procVars, tailVars, pumpVars,
       bootVars
  <2>7. CASE StartLog
    BY <1>0, <2>7 DEF StartLog, Control, Subject, rowVars, userVars, engVars, procVars, tailVars,
       pumpVars, bootVars
  <2>8. CASE StartSpawn
    BY <1>0, <2>8 DEF StartSpawn, Control, rowVars
  <2>9. CASE StartPublish
    BY <1>0, <2>9 DEF StartPublish, Control, Subject, rowVars, userVars, engVars, procVars, tailVars,
       pumpVars, bootVars
  <2>10. CASE StartSidecar
    BY <1>0, <2>10 DEF StartSidecar, Control, Subject, rowVars, userVars, engVars, procVars, tailVars,
       pumpVars, bootVars
  <2>11. CASE BridgeInit
    BY <1>0, <2>11 DEF BridgeInit, Control, Subject, rowVars, userVars, engVars, procVars, tailVars,
       pumpVars, bootVars
  <2>12. CASE BridgeResult
    BY <1>0, <2>12 DEF BridgeResult, Control, Subject, rowVars, userVars, engVars, procVars, tailVars,
       pumpVars, bootVars
  <2>13. CASE BridgeThrow
    BY <1>0, <2>13 DEF BridgeThrow, Control, Subject, rowVars, userVars, engVars, procVars, tailVars,
       pumpVars, bootVars
  <2>14. CASE BridgeExit
    BY <1>0, <2>14 DEF BridgeExit, Control, Subject, rowVars, userVars, engVars, procVars, tailVars,
       pumpVars, bootVars
  <2>15. CASE OrphanResult
    BY <1>0, <2>15 DEF OrphanResult, Control, Subject, rowVars, userVars, engVars, procVars, tailVars,
       pumpVars, bootVars
  <2>16. CASE Poll
    BY <2>16 DEF Poll, rowVars, pumpVars
  <2>17. CASE PollFinal
    BY <2>17 DEF PollFinal, rowVars, pumpVars
  <2>18. CASE EventInit
    BY <1>0, <2>18 DEF EventInit, Control, Subject, rowVars, userVars, engVars, procVars, tailVars,
       pumpVars, bootVars
  <2>19. CASE ResultGet
    BY <1>0, <2>19 DEF ResultGet, Control, Subject, rowVars, userVars, engVars, procVars, tailVars,
       pumpVars, bootVars
  <2>20. CASE ResultPatch
    BY <2>20
  <2>21. CASE ResultPark
    BY <2>21 DEF ResultPark, rowVars
  <2>22. CASE ExitBegin
    BY <1>0, <2>22 DEF ExitBegin, Control, Subject, rowVars, userVars, engVars, procVars, tailVars,
       pumpVars, bootVars
  <2>23. CASE ExitApply
    BY <2>23
  <2>24. CASE Stop
    BY <2>24
  <2>25. CASE Recover
    BY <1>0, <2>25 DEF Recover, Control, Subject, rowVars, userVars, engVars, procVars, tailVars,
       pumpVars, bootVars
  <2>26. CASE UNCHANGED vars
    BY <1>0, <2>26 DEF vars, Control, Subject, rowVars, userVars, engVars, procVars, tailVars, pumpVars,
       bootVars
  <2> QED
    BY <2>1, <2>2, <2>3, <2>4, <2>5, <2>6, <2>7, <2>8, <2>9, <2>10, <2>11,
       <2>12, <2>13, <2>14, <2>15, <2>16, <2>17, <2>18, <2>19, <2>20, <2>21,
       <2>22, <2>23, <2>24, <2>25, <2>26 DEF Next, PumpStep
<1>3. CASE ResultPatch
  <2>1. hpc = "patch" /\ hpc' = "park" /\ chan' = chan
    BY <1>3 DEF ResultPatch, tailVars
  <2>2. Results' = Results /\ Waiting' = Waiting
    BY <1>3, <2>1, WaitStep DEF ResultPatch, ResultPark, ExitApply, Stop, BridgeResult, BridgeThrow,
        OrphanResult, procVars, bootVars, pumpVars
  <2> QED BY <1>1, <1>3, <2>1, <2>2 DEF Counted
<1>5. CASE ResultPark
  <2>1. hpc = "park" /\ hpc' = "listen"
    BY <1>5 DEF ResultPark
  <2>2. Results' = Results /\ Waiting' = Waiting \ {First(chan)}
    BY <1>5, <2>1, WaitStep DEF Stop, ExitApply, BridgeResult, BridgeThrow, OrphanResult, pumpVars
  <2> QED BY <1>1, <1>2, <1>5, <2>1, <2>2 DEF Counted, ResultPatch
<1>6. ASSUME hpc = "park" PROVE First(chan)' = First(chan) \/ ResultPark
  <2>1. chan # {}
    BY <1>0, <1>6 DEF Subject
  <2>2. ~ResultPatch
    BY <1>6 DEF ResultPatch
  <2>3. ResultPark \/ chan' = chan \/ Poll \/ PollFinal
    BY <1>2, <1>6, <2>2
  <2>4. TypeOK'
    BY DEF Base
  <2> QED BY <1>0, <2>1, <2>3, <2>4, EventStays
<1>7. CASE BridgeResult \/ BridgeThrow \/ OrphanResult
  <2>1. hpc # "off" /\ ~ResultPatch /\ ~ResultPark /\ hpc' = hpc
    BY <1>0, <1>7 DEF BridgeResult, BridgeThrow, OrphanResult, Control, ResultPatch, ResultPark, pumpVars
  <2>2. Results' = Results \cup {Len(log) + 1} /\ Waiting' = Waiting \cup {Len(log) + 1}
    BY <1>7, <2>1, WaitStep DEF Stop, ExitApply, FinalRow, BridgeResult, BridgeThrow, OrphanResult,
       bootVars, pumpVars
  <2>3. Len(log) + 1 \notin Results
    BY <1>1
  <2>4. Results' \ Waiting' = Results \ Waiting
    BY <1>1, <2>2, <2>3
  <2> QED BY <1>2, <1>6, <2>1, <2>4 DEF Counted
<1>8. CASE ~(ResultPark \/ ResultPatch \/ BridgeResult \/ BridgeThrow \/ OrphanResult)
  BY <1>2, <1>6, <1>8, WaitStep DEF Counted
<1> QED BY <1>3, <1>5, <1>7, <1>8

\* An exit whose results were all read leaves nothing uncounted.
LEMMA CountedAtExit ==
    ASSUME Base, Base', [Next]_vars, ExitApply, \A i \in Results : i <= read
    PROVE  Counted = Results /\ Counted' = Counted /\ log' = log /\ cost' = cost
<1>1. hpc = "exit" /\ hpc' = "off" /\ chan = {} /\ log' = log /\ cost' = cost
  BY DEF ExitApply, FinalRow, Control, Base
<1>2. Results' = Results /\ Waiting' = {}
  BY <1>1, WaitStep DEF Stop, ResultPark, BridgeResult, BridgeThrow, OrphanResult, pumpVars
<1>3. \A i \in Results : ~(i > read)
  BY WaitingFacts
<1>4. Waiting = {}
  BY <1>1, <1>3 DEF Waiting
<1> QED BY <1>1, <1>2, <1>4 DEF Counted

\* Each result is counted once: by ResultPatch, or never lost before the exit was read.
LEMMA CostsStep == Base /\ Base' /\ Costs /\ [Next]_vars => Costs'
<1> SUFFICES ASSUME Base, Base', Costs, [Next]_vars, stops' = 0
             PROVE  /\ cost' = Cardinality(Counted')
                    /\ exit' # "none" => \A i \in Results' : i <= read'
  BY DEF Costs
<1>0. Control /\ Places /\ stops = 0 /\ cost = Cardinality(Counted) /\ cost \in Nat
      /\ (exit # "none" => \A i \in Results : i <= read)
  <2>1. Control /\ Places /\ stops \in Nat /\ cost \in Nat
    BY TypeParts DEF Base, Numbers
  <2>2. stops = 0
    <3>1. CASE FollowUpQueued
      BY <2>1, <3>1 DEF FollowUpQueued, bootVars
    <3>2. CASE InjectBegin
      BY <2>1, <3>2 DEF InjectBegin, bootVars
    <3>3. CASE InjectLog
      BY <2>1, <3>3 DEF InjectLog, bootVars
    <3>4. CASE InjectState
      BY <2>1, <3>4 DEF InjectState, bootVars
    <3>5. CASE InjectWrite
      BY <2>1, <3>5 DEF InjectWrite, bootVars
    <3>6. CASE Kill
      BY <2>1, <3>6 DEF Kill, bootVars
    <3>7. CASE StartLog
      BY <2>1, <3>7 DEF StartLog, bootVars
    <3>8. CASE StartSpawn
      BY <2>1, <3>8 DEF StartSpawn, bootVars
    <3>9. CASE StartPublish
      BY <2>1, <3>9 DEF StartPublish, bootVars
    <3>10. CASE StartSidecar
      BY <2>1, <3>10 DEF StartSidecar, bootVars
    <3>11. CASE BridgeInit
      BY <2>1, <3>11 DEF BridgeInit, bootVars
    <3>12. CASE BridgeResult
      BY <2>1, <3>12 DEF BridgeResult, bootVars
    <3>13. CASE BridgeThrow
      BY <2>1, <3>13 DEF BridgeThrow, bootVars
    <3>14. CASE BridgeExit
      BY <2>1, <3>14 DEF BridgeExit, bootVars
    <3>15. CASE OrphanResult
      BY <2>1, <3>15 DEF OrphanResult, bootVars
    <3>16. CASE Poll
      BY <2>1, <3>16 DEF Poll, bootVars
    <3>17. CASE PollFinal
      BY <2>1, <3>17 DEF PollFinal, bootVars
    <3>18. CASE EventInit
      BY <2>1, <3>18 DEF EventInit, bootVars
    <3>19. CASE ResultGet
      BY <2>1, <3>19 DEF ResultGet, bootVars
    <3>20. CASE ResultPatch
      BY <2>1, <3>20 DEF ResultPatch, bootVars
    <3>21. CASE ResultPark
      BY <2>1, <3>21 DEF ResultPark, bootVars
    <3>22. CASE ExitBegin
      BY <2>1, <3>22 DEF ExitBegin, bootVars
    <3>23. CASE ExitApply
      BY <2>1, <3>23 DEF ExitApply, FinalRow, bootVars
    <3>24. CASE Stop
      BY <2>1, <3>24 DEF Stop
    <3>25. CASE Recover
      BY <2>1, <3>25 DEF Recover, bootVars
    <3>26. CASE UNCHANGED vars
      BY <2>1, <3>26 DEF vars, bootVars
    <3> QED
      BY <3>1, <3>2, <3>3, <3>4, <3>5, <3>6, <3>7, <3>8, <3>9, <3>10, <3>11,
         <3>12, <3>13, <3>14, <3>15, <3>16, <3>17, <3>18, <3>19, <3>20, <3>21,
         <3>22, <3>23, <3>24, <3>25, <3>26 DEF Next, PumpStep
  <2> QED BY <2>1, <2>2 DEF Costs
<1>1. cost' = Cardinality(Counted')
  <2>1. IsFiniteSet(Counted)
    <3>1. IsFiniteSet(Results \ Waiting)
      BY WaitingFacts, FS_Subset
    <3>2. Counted = Results \ Waiting \/ Counted = (Results \ Waiting) \cup {First(chan)}
      BY DEF Counted
    <3> QED BY <3>1, <3>2, FS_AddElement
  <2>2. ~Stop /\ ~OrphanResult
    BY <1>0 DEF Stop, OrphanResult, Control
  <2>3. CASE ResultPatch
    <3>1. cost' = cost + 1 /\ ~ExitApply
      BY <2>3 DEF ResultPatch, ExitApply
    <3>2. First(chan) \notin Counted /\ Counted' = Counted \cup {First(chan)}
      BY <2>2, <2>3, <3>1, CountedStep
    <3> QED BY <1>0, <2>1, <3>1, <3>2, FS_AddElement
  <2>4. CASE ExitApply
    <3>1. exit # "none"
      BY <1>0, <2>4 DEF ExitApply, Control
    <3> QED BY <1>0, <2>4, <3>1, CountedAtExit
  <2>5. CASE ~ResultPatch /\ ~ExitApply
    BY <1>0, <2>2, <2>5, CountedStep
  <2> QED BY <2>3, <2>4, <2>5
<1>2. exit' # "none" => \A i \in Results' : i <= read'
  <2>1. CASE PollFinal
    <3>1. log' = log /\ read' = Len(log)
      BY <2>1 DEF PollFinal
    <3> QED BY <3>1, WaitingFacts DEF Results
  <2>2. CASE exit' = exit /\ Results' = Results /\ (read' = read \/ Poll)
    <3>1. Poll => exit = "none"
      BY DEF Poll
    <3> QED BY <1>0, <2>2, <3>1
  <2>3. CASE exit' = "none"
    BY <2>3
  <2>4. PollFinal \/ exit' = "none" \/ (exit' = exit /\ (read' = read \/ Poll))
    <3>1. CASE FollowUpQueued
      BY <3>1 DEF FollowUpQueued, rowVars, userVars, engVars, procVars, tailVars, pumpVars, bootVars
    <3>2. CASE InjectBegin
      BY <3>2 DEF InjectBegin, rowVars, userVars, engVars, procVars, tailVars, pumpVars, bootVars
    <3>3. CASE InjectLog
      BY <3>3 DEF InjectLog, rowVars, userVars, engVars, procVars, tailVars, pumpVars, bootVars
    <3>4. CASE InjectState
      BY <3>4 DEF InjectState, rowVars, userVars, engVars, procVars, tailVars, pumpVars, bootVars
    <3>5. CASE InjectWrite
      BY <3>5 DEF InjectWrite, rowVars, userVars, engVars, procVars, tailVars, pumpVars, bootVars
    <3>6. CASE Kill
      BY <3>6 DEF Kill, rowVars, userVars, engVars, procVars, tailVars, pumpVars, bootVars
    <3>7. CASE StartLog
      BY <3>7 DEF StartLog, rowVars, userVars, engVars, procVars, tailVars, pumpVars, bootVars
    <3>8. CASE StartSpawn
      BY <3>8 DEF StartSpawn, rowVars, userVars, engVars, procVars, tailVars, pumpVars, bootVars
    <3>9. CASE StartPublish
      BY <3>9 DEF StartPublish, rowVars, userVars, engVars, procVars, tailVars, pumpVars, bootVars
    <3>10. CASE StartSidecar
      BY <3>10 DEF StartSidecar, rowVars, userVars, engVars, procVars, tailVars, pumpVars, bootVars
    <3>11. CASE BridgeInit
      BY <3>11 DEF BridgeInit, rowVars, userVars, engVars, procVars, tailVars, pumpVars, bootVars
    <3>12. CASE BridgeResult
      BY <3>12 DEF BridgeResult, rowVars, userVars, engVars, procVars, tailVars, pumpVars, bootVars
    <3>13. CASE BridgeThrow
      BY <3>13 DEF BridgeThrow, rowVars, userVars, engVars, procVars, tailVars, pumpVars, bootVars
    <3>14. CASE BridgeExit
      BY <3>14 DEF BridgeExit, rowVars, userVars, engVars, procVars, tailVars, pumpVars, bootVars
    <3>15. CASE OrphanResult
      BY <3>15 DEF OrphanResult, rowVars, userVars, engVars, procVars, tailVars, pumpVars, bootVars
    <3>16. CASE Poll
      BY <3>16 DEF Poll
    <3>17. CASE PollFinal
      BY <3>17
    <3>18. CASE EventInit
      BY <3>18 DEF EventInit, rowVars, userVars, engVars, procVars, tailVars, pumpVars, bootVars
    <3>19. CASE ResultGet
      BY <3>19 DEF ResultGet, rowVars, userVars, engVars, procVars, tailVars, pumpVars, bootVars
    <3>20. CASE ResultPatch
      BY <3>20 DEF ResultPatch, rowVars, userVars, engVars, procVars, tailVars, pumpVars, bootVars
    <3>21. CASE ResultPark
      BY <3>21 DEF ResultPark, rowVars, userVars, engVars, procVars, tailVars, pumpVars, bootVars
    <3>22. CASE ExitBegin
      BY <3>22 DEF ExitBegin, rowVars, userVars, engVars, procVars, tailVars, pumpVars, bootVars
    <3>23. CASE ExitApply
      BY <3>23 DEF ExitApply, FinalRow, rowVars, userVars, engVars, procVars, tailVars, pumpVars, bootVars
    <3>24. CASE Stop
      BY <3>24 DEF Stop, rowVars, userVars, engVars, procVars, tailVars, pumpVars, bootVars
    <3>25. CASE Recover
      BY <3>25 DEF Recover, rowVars, userVars, engVars, procVars, tailVars, pumpVars, bootVars
    <3>26. CASE UNCHANGED vars
      BY <3>26 DEF vars, rowVars, userVars, engVars, procVars, tailVars, pumpVars, bootVars
    <3> QED
      BY <3>1, <3>2, <3>3, <3>4, <3>5, <3>6, <3>7, <3>8, <3>9, <3>10, <3>11,
         <3>12, <3>13, <3>14, <3>15, <3>16, <3>17, <3>18, <3>19, <3>20, <3>21,
         <3>22, <3>23, <3>24, <3>25, <3>26 DEF Next, PumpStep
  <2>5. exit' # "none" => exit = "none" \/ Results' = Results
    <3>1. BridgeResult \/ BridgeThrow \/ OrphanResult => exit = "none"
      BY <1>0 DEF BridgeResult, BridgeThrow, OrphanResult, Control
    <3> QED BY <3>1, WaitStep
  <2> QED BY <2>1, <2>2, <2>3, <2>4, <2>5
<1> QED BY <1>1, <1>2

-----------------------------------------------------------------------------
(* The last turn, while nothing raced. *)

\* What is written before the last prompt marker is of an older turn.
LEMMA FreshTurn ==
    ASSUME Base, Writes("prompt", turns + 1), turns' = turns + 1
    PROVE  AfterLast' /\ \A i \in Results' : log'[i].turn # turns'
<1>0. turns \in Nat /\ Len(log) \in Nat /\ \A i \in Results : i \in 1..Len(log) /\ log[i].turn \in Turn
  BY WaitingFacts
<1>1. /\ Results' = Results /\ Len(log') = Len(log) + 1
      /\ \A i \in 1..Len(log) : log'[i] = log[i]
  BY DEF Writes
<1>2. \A i \in Results' : log'[i].turn # turns'
  BY <1>0, <1>1 DEF Turn
<1>3. ASSUME NEW i \in Results', NEW j \in 1..Len(log'), j < i PROVE log'[j] # Line("prompt", turns')
  <2>1. j \in 1..Len(log)
    BY <1>0, <1>1, <1>3
  <2>2. log[j].turn \in Turn
    BY <2>1, LineType DEF Base
  <2> QED BY <1>0, <1>1, <2>1, <2>2 DEF Turn, Line
<1> QED BY <1>2, <1>3 DEF AfterLast

\* A result of the last turn that is the first of it or an error.
LEMMA LastTurnAnswered ==
    ASSUME Base, AfterLast, NEW k \in {"ok", "bad"}, Writes(k, turns), turns' = turns,
           k = "bad" \/ \A i \in Results : log[i].turn # turns
    PROVE  AfterLast'
<1>0. Len(log) \in Nat /\ \A i \in Results : i \in 1..Len(log)
  BY WaitingFacts
<1>1. /\ Results' = Results \cup {Len(log) + 1} /\ Len(log') = Len(log) + 1
      /\ \A i \in 1..Len(log) : log'[i] = log[i]
      /\ log'[Len(log) + 1].kind = k /\ log'[Len(log) + 1].turn = turns
  BY DEF Writes, Line
<1>2. ASSUME NEW i \in Results', NEW j \in 1..Len(log'), j < i, log'[j] = Line("prompt", turns')
      PROVE  log'[i].turn = turns'
  <2>1. j \in 1..Len(log)
    BY <1>0, <1>1, <1>2
  <2> QED BY <1>0, <1>1, <1>2, <2>1 DEF AfterLast
<1>3. ASSUME NEW i \in Results', NEW j \in Results', i < j, log'[i].turn = turns', log'[j].turn = turns'
      PROVE  log'[j].kind = "bad"
  <2>1. i \in Results /\ log'[i] = log[i]
    BY <1>0, <1>1, <1>3
  <2> QED BY <1>0, <1>1, <1>3, <2>1 DEF AfterLast
<1> QED BY <1>2, <1>3 DEF AfterLast

\* What the process writes while nothing raced is of the last turn.
LEMMA LastTurnWrites ==
    ASSUME Base, Base', Order, Markers, OnlyLast, ~raced', BridgeResult \/ BridgeThrow
    PROVE  /\ ~raced /\ ipc = "off"
           /\ \E k \in {"ok", "bad"} : /\ Writes(k, turns)
                                       /\ k = "bad" \/ \A i \in Results : log[i].turn # turns
<1>0. TypeOK /\ TypeOK' /\ Control /\ Subject /\ Flags /\ turns \in Nat
  BY TypeParts, WaitingFacts DEF Base
<1>1. CASE BridgeResult
  <2>1. ~raced /\ stdin # <<>>
    BY <1>0, <1>1 DEF BridgeResult, Control
  <2>2. stdin = <<turns>> /\ ipc = "off"
    BY <2>1 DEF OnlyLast, InProcess, InInjection
  <2>3. Head(stdin) = turns /\ Len(stdin) = 1 /\ stdin[1] = turns
    BY <2>2
  <2>4. \A i \in Results : log[i].turn < turns
    BY <2>3 DEF Order
  <2>5. \A i \in Results : log[i].turn # turns
    BY <1>0, <2>4, WaitingFacts
  <2> QED BY <1>0, <1>1, <2>1, <2>2, <2>3, <2>5, LogStep
<1>2. CASE BridgeThrow
  <2>1. ~raced /\ ipc = "off" /\ proc = "alive" /\ Writes("bad", LastGiven)
    BY <1>0, <1>2, LogStep DEF BridgeThrow
  <2>2. LastGiven = turns
    <3>1. CASE stdin # <<>>
      <4>1. stdin = <<turns>>
        BY <2>1, <3>1 DEF OnlyLast, InProcess
      <4> QED BY <4>1 DEF LastGiven
    <3>2. CASE stdin = <<>>
      <4>1. PICK i \in Results : log[i].turn = turns
        BY <2>1, <3>2 DEF OnlyLast, AnsweredIdle
      <4>2. Last(Results) \in Results /\ i <= Last(Results)
        BY <1>0, <4>1, Greatest, ResultsFinite, WaitingFacts
      <4>3. PICK j \in 1..Len(log) : j < i /\ log[j] = Line("prompt", turns)
        BY <4>1 DEF Markers
      <4>4. j < Last(Results)
        BY <4>2, <4>3, WaitingFacts
      <4>5. log[Last(Results)].turn = turns
        BY <2>1, <4>2, <4>3, <4>4 DEF OnlyLast, AfterLast
      <4> QED BY <3>2, <4>5 DEF LastGiven
    <3> QED BY <3>1, <3>2
  <2> QED BY <2>1, <2>2
<1> QED BY <1>1, <1>2

\* No turn is in a process.
LEMMA OnlyLastInit == Init => OnlyLast
BY DEF Init, OnlyLast, InProcess, InInjection, AnsweredIdle, AfterLast, Results

\* Until something races, a process only has the last turn, and a message finds it
\* answered.
LEMMA OnlyLastStep == Base /\ Base' /\ Order /\ Markers /\ OnlyLast /\ [Next]_vars => OnlyLast'
<1> SUFFICES ASSUME Base, Base', Order, Markers, OnlyLast, [Next]_vars, ~raced'
             PROVE  InProcess' /\ InInjection' /\ AnsweredIdle' /\ AfterLast'
  BY DEF OnlyLast
<1>0. TypeOK /\ TypeOK' /\ Control /\ Subject /\ Flags /\ Places /\ Len(log) \in Nat /\ read \in 0..Len(log)
  BY TypeParts, WaitingFacts DEF Base
<1>1. CASE StartLog
  <2>1. /\ Writes("prompt", turns + 1) /\ turns' = turns + 1 /\ stdin' = stdin /\ proc' = proc /\ ipc' = ipc
        /\ queued /\ hpc = "off"
    BY <1>0, <1>1, LogStep DEF StartLog, procVars
  <2>2. stdin = <<>> /\ proc = "none" /\ ipc = "off"
    BY <1>0, <2>1 DEF Control
  <2> QED BY <2>1, <2>2, FreshTurn DEF InProcess, InInjection, AnsweredIdle
<1>2. CASE InjectLog
  <2>1. /\ Writes("prompt", turns + 1) /\ turns' = turns + 1 /\ stdin' = stdin /\ proc' = proc /\ ipc' = "state"
        /\ ipc = "log" /\ hpc' = hpc /\ err' = err /\ chan' = chan /\ read' = read /\ ~raced
    BY <1>0, <1>2, LogStep DEF InjectLog, procVars, pumpVars, rowVars, tailVars
  <2>2. InInjection /\ ipc # "off"
    BY <2>1 DEF OnlyLast
  <2>3. AllRead'
    <3>1. \A i \in 1..Len(log') : IsEvent(log'[i]) => i \in 1..Len(log) /\ log'[i] = log[i]
      BY <1>0, <2>1 DEF Writes, IsEvent, Line
    <3> QED BY <2>1, <2>2, <3>1 DEF AllRead, InInjection
  <2> QED BY <2>1, <2>2, <2>3, FreshTurn DEF InProcess, InInjection, AnsweredIdle
<1>3. CASE BridgeResult \/ BridgeThrow
  <2>1. PICK k \in {"ok", "bad"} : Writes(k, turns) /\ (k = "bad" \/ \A i \in Results : log[i].turn # turns)
    BY <1>3, LastTurnWrites
  <2>2. ~raced /\ ipc = "off" /\ ipc' = ipc /\ turns' = turns
    BY <1>3, LastTurnWrites DEF BridgeResult, BridgeThrow, userVars, engVars
  <2>3. AfterLast'
    BY <2>1, <2>2, LastTurnAnswered DEF OnlyLast
  <2>4. Len(log) + 1 \in Results' /\ log'[Len(log) + 1].turn = turns'
    BY <2>1, <2>2 DEF Writes, Line
  <2>5. stdin' = <<>>
    <3>1. CASE BridgeResult
      <4>1. stdin # <<>> /\ stdin' = Tail(stdin)
        BY <1>0, <3>1 DEF BridgeResult, Control
      <4>2. stdin = <<turns>>
        BY <2>2, <4>1 DEF OnlyLast, InProcess
      <4> QED BY <4>1, <4>2
    <3>2. CASE BridgeThrow
      BY <3>2 DEF BridgeThrow
    <3> QED BY <1>3, <3>1, <3>2
  <2> QED BY <2>2, <2>3, <2>4, <2>5 DEF InProcess, InInjection, AnsweredIdle
<1>4. CASE BridgeInit
  <2>1. /\ Writes("init", Head(stdin)) /\ stdin # <<>> /\ stdin' = stdin /\ turns' = turns /\ ipc' = ipc
        /\ ~raced
    BY <1>0, <1>4, LogStep DEF BridgeInit, userVars, engVars
  <2>2. ipc = "off" /\ stdin = <<turns>> /\ AfterLast
    BY <2>1 DEF OnlyLast, InProcess, InInjection
  <2>3. /\ Results' = Results /\ \A i \in Results : i \in 1..Len(log) /\ log'[i] = log[i]
        /\ Len(log') = Len(log) + 1 /\ \A j \in 1..Len(log) : log'[j] = log[j]
    BY <2>1, WaitingFacts DEF Writes
  <2>4. \A i \in Results', j \in 1..Len(log') : j < i => j \in 1..Len(log)
    BY <1>0, <2>3
  <2>5. AfterLast'
    BY <2>1, <2>2, <2>3, <2>4 DEF AfterLast
  <2> QED BY <2>1, <2>2, <2>5 DEF InProcess, InInjection, AnsweredIdle
<1>5. CASE log' = log /\ turns' = turns /\ ~raced
  <2>1. Results' = Results /\ AfterLast' /\ InProcess /\ InInjection /\ AnsweredIdle
    BY <1>5 DEF Results, AfterLast, OnlyLast
  <2>2. InProcess'
    <3>1. CASE FollowUpQueued
      BY <1>0, <1>5, <2>1, <3>1 DEF FollowUpQueued, Control, InProcess, InInjection, rowVars, userVars,
         engVars, procVars, tailVars, pumpVars, bootVars
    <3>2. CASE InjectBegin
      BY <1>0, <1>5, <2>1, <3>2 DEF InjectBegin, Control, InProcess, InInjection, rowVars, userVars,
         engVars, procVars, tailVars, pumpVars, bootVars
    <3>3. CASE InjectLog
      BY <1>0, <1>5, <2>1, <3>3 DEF InjectLog, Control, InProcess, InInjection, rowVars, userVars,
         engVars, procVars, tailVars, pumpVars, bootVars
    <3>4. CASE InjectState
      BY <1>0, <1>5, <2>1, <3>4 DEF InjectState, Control, InProcess, InInjection, rowVars, userVars,
         engVars, procVars, tailVars, pumpVars, bootVars
    <3>5. CASE InjectWrite
      BY <1>0, <1>5, <2>1, <3>5 DEF InjectWrite, InProcess, InInjection
    <3>6. CASE Kill
      BY <1>0, <1>5, <2>1, <3>6 DEF Kill, Control, InProcess, InInjection, rowVars, userVars, engVars,
         procVars, tailVars, pumpVars, bootVars
    <3>7. CASE StartLog
      BY <1>0, <1>5, <2>1, <3>7 DEF StartLog, Control, InProcess, InInjection, rowVars, userVars,
         engVars, procVars, tailVars, pumpVars, bootVars
    <3>8. CASE StartSpawn
      BY <1>0, <1>5, <2>1, <3>8 DEF StartSpawn, Control, InProcess, userVars
    <3>9. CASE StartPublish
      BY <1>0, <1>5, <2>1, <3>9 DEF StartPublish, Control, InProcess, InInjection, rowVars, userVars,
         engVars, procVars, tailVars, pumpVars, bootVars
    <3>10. CASE StartSidecar
      BY <1>0, <1>5, <2>1, <3>10 DEF StartSidecar, Control, InProcess, InInjection, rowVars, userVars,
         engVars, procVars, tailVars, pumpVars, bootVars
    <3>11. CASE BridgeInit
      BY <1>0, <1>5, <2>1, <3>11 DEF BridgeInit, Control, InProcess, InInjection, rowVars, userVars,
         engVars, procVars, tailVars, pumpVars, bootVars
    <3>12. CASE BridgeResult
      BY <1>0, <1>5, <2>1, <3>12 DEF BridgeResult, Control, InProcess, InInjection, rowVars, userVars,
         engVars, procVars, tailVars, pumpVars, bootVars
    <3>13. CASE BridgeThrow
      BY <1>0, <1>5, <2>1, <3>13 DEF BridgeThrow, Control, InProcess, InInjection, rowVars, userVars,
         engVars, procVars, tailVars, pumpVars, bootVars
    <3>14. CASE BridgeExit
      BY <1>0, <1>5, <2>1, <3>14 DEF BridgeExit, Control, InProcess, InInjection, rowVars, userVars,
         engVars, procVars, tailVars, pumpVars, bootVars
    <3>15. CASE OrphanResult
      BY <3>15 DEF OrphanResult
    <3>16. CASE Poll
      BY <1>0, <1>5, <2>1, <3>16 DEF Poll, Control, InProcess, InInjection, rowVars, userVars, engVars,
         procVars, tailVars, pumpVars, bootVars
    <3>17. CASE PollFinal
      BY <1>0, <1>5, <2>1, <3>17 DEF PollFinal, Control, InProcess, InInjection, rowVars, userVars,
         engVars, procVars, tailVars, pumpVars, bootVars
    <3>18. CASE EventInit
      BY <1>0, <1>5, <2>1, <3>18 DEF EventInit, Control, InProcess, InInjection, rowVars, userVars,
         engVars, procVars, tailVars, pumpVars, bootVars
    <3>19. CASE ResultGet
      BY <1>0, <1>5, <2>1, <3>19 DEF ResultGet, Control, InProcess, InInjection, rowVars, userVars,
         engVars, procVars, tailVars, pumpVars, bootVars
    <3>20. CASE ResultPatch
      BY <1>0, <1>5, <2>1, <3>20 DEF ResultPatch, Control, InProcess, InInjection, rowVars, userVars,
         engVars, procVars, tailVars, pumpVars, bootVars
    <3>21. CASE ResultPark
      BY <1>0, <1>5, <2>1, <3>21 DEF ResultPark, Control, InProcess, InInjection, rowVars, userVars,
         engVars, procVars, tailVars, pumpVars, bootVars
    <3>22. CASE ExitBegin
      BY <1>0, <1>5, <2>1, <3>22 DEF ExitBegin, Control, InProcess, InInjection, rowVars, userVars,
         engVars, procVars, tailVars, pumpVars, bootVars
    <3>23. CASE ExitApply
      BY <1>0, <1>5, <2>1, <3>23 DEF ExitApply, FinalRow, Control, InProcess, InInjection, rowVars,
         userVars, engVars, procVars, tailVars, pumpVars, bootVars
    <3>24. CASE Stop
      BY <1>0, <1>5, <2>1, <3>24 DEF Stop, Control, InProcess, InInjection, rowVars, userVars, engVars,
         procVars, tailVars, pumpVars, bootVars
    <3>25. CASE Recover
      BY <1>0, <1>5, <2>1, <3>25 DEF Recover, Control, InProcess, InInjection, rowVars, userVars,
         engVars, procVars, tailVars, pumpVars, bootVars
    <3>26. CASE UNCHANGED vars
      BY <1>0, <1>5, <2>1, <3>26 DEF vars, Control, InProcess, InInjection, rowVars, userVars, engVars,
         procVars, tailVars, pumpVars, bootVars
    <3> QED
      BY <3>1, <3>2, <3>3, <3>4, <3>5, <3>6, <3>7, <3>8, <3>9, <3>10, <3>11,
         <3>12, <3>13, <3>14, <3>15, <3>16, <3>17, <3>18, <3>19, <3>20, <3>21,
         <3>22, <3>23, <3>24, <3>25, <3>26 DEF Next, PumpStep
  <2>3. AnsweredIdle'
    <3>1. CASE FollowUpQueued
      BY <1>0, <1>5, <2>1, <3>1 DEF FollowUpQueued, Control, AnsweredIdle, InInjection, rowVars,
         userVars, engVars, procVars, tailVars, pumpVars, bootVars
    <3>2. CASE InjectBegin
      BY <1>0, <1>5, <2>1, <3>2 DEF InjectBegin, Control, AnsweredIdle, InInjection, rowVars, userVars,
         engVars, procVars, tailVars, pumpVars, bootVars
    <3>3. CASE InjectLog
      BY <1>0, <1>5, <2>1, <3>3 DEF InjectLog, Control, AnsweredIdle, InInjection, rowVars, userVars,
         engVars, procVars, tailVars, pumpVars, bootVars
    <3>4. CASE InjectState
      BY <1>0, <1>5, <2>1, <3>4 DEF InjectState, Control, AnsweredIdle, InInjection, rowVars, userVars,
         engVars, procVars, tailVars, pumpVars, bootVars
    <3>5. CASE InjectWrite
      BY <1>0, <1>5, <2>1, <3>5 DEF InjectWrite, AnsweredIdle, InInjection, procVars
    <3>6. CASE Kill
      BY <1>0, <1>5, <2>1, <3>6 DEF Kill, Control, AnsweredIdle, InInjection, rowVars, userVars,
         engVars, procVars, tailVars, pumpVars, bootVars
    <3>7. CASE StartLog
      BY <1>0, <1>5, <2>1, <3>7 DEF StartLog, Control, AnsweredIdle, InInjection, rowVars, userVars,
         engVars, procVars, tailVars, pumpVars, bootVars
    <3>8. CASE StartSpawn
      BY <1>0, <1>5, <2>1, <3>8 DEF StartSpawn, Control, AnsweredIdle, userVars
    <3>9. CASE StartPublish
      BY <1>0, <1>5, <2>1, <3>9 DEF StartPublish, Control, AnsweredIdle, InInjection, rowVars, userVars,
         engVars, procVars, tailVars, pumpVars, bootVars
    <3>10. CASE StartSidecar
      BY <1>0, <1>5, <2>1, <3>10 DEF StartSidecar, Control, AnsweredIdle, InInjection, rowVars,
         userVars, engVars, procVars, tailVars, pumpVars, bootVars
    <3>11. CASE BridgeInit
      BY <1>0, <1>5, <2>1, <3>11 DEF BridgeInit, Control, AnsweredIdle, InInjection, rowVars, userVars,
         engVars, procVars, tailVars, pumpVars, bootVars
    <3>12. CASE BridgeResult
      BY <1>0, <1>5, <2>1, <3>12 DEF BridgeResult, Control, AnsweredIdle, InInjection, rowVars,
         userVars, engVars, procVars, tailVars, pumpVars, bootVars
    <3>13. CASE BridgeThrow
      BY <1>0, <1>5, <2>1, <3>13 DEF BridgeThrow, Control, AnsweredIdle, InInjection, rowVars, userVars,
         engVars, procVars, tailVars, pumpVars, bootVars
    <3>14. CASE BridgeExit
      BY <1>0, <1>5, <2>1, <3>14 DEF BridgeExit, Control, AnsweredIdle, InInjection, rowVars, userVars,
         engVars, procVars, tailVars, pumpVars, bootVars
    <3>15. CASE OrphanResult
      BY <3>15 DEF OrphanResult
    <3>16. CASE Poll
      BY <1>0, <1>5, <2>1, <3>16 DEF Poll, Control, AnsweredIdle, InInjection, rowVars, userVars,
         engVars, procVars, tailVars, pumpVars, bootVars
    <3>17. CASE PollFinal
      BY <1>0, <1>5, <2>1, <3>17 DEF PollFinal, Control, AnsweredIdle, InInjection, rowVars, userVars,
         engVars, procVars, tailVars, pumpVars, bootVars
    <3>18. CASE EventInit
      BY <1>0, <1>5, <2>1, <3>18 DEF EventInit, Control, AnsweredIdle, InInjection, rowVars, userVars,
         engVars, procVars, tailVars, pumpVars, bootVars
    <3>19. CASE ResultGet
      BY <1>0, <1>5, <2>1, <3>19 DEF ResultGet, Control, AnsweredIdle, InInjection, rowVars, userVars,
         engVars, procVars, tailVars, pumpVars, bootVars
    <3>20. CASE ResultPatch
      BY <1>0, <1>5, <2>1, <3>20 DEF ResultPatch, Control, AnsweredIdle, InInjection, rowVars, userVars,
         engVars, procVars, tailVars, pumpVars, bootVars
    <3>21. CASE ResultPark
      BY <1>0, <1>5, <2>1, <3>21 DEF ResultPark, Control, AnsweredIdle, InInjection, rowVars, userVars,
         engVars, procVars, tailVars, pumpVars, bootVars
    <3>22. CASE ExitBegin
      BY <1>0, <1>5, <2>1, <3>22 DEF ExitBegin, Control, AnsweredIdle, InInjection, rowVars, userVars,
         engVars, procVars, tailVars, pumpVars, bootVars
    <3>23. CASE ExitApply
      BY <1>0, <1>5, <2>1, <3>23 DEF ExitApply, FinalRow, Control, AnsweredIdle, InInjection, rowVars,
         userVars, engVars, procVars, tailVars, pumpVars, bootVars
    <3>24. CASE Stop
      BY <1>0, <1>5, <2>1, <3>24 DEF Stop, Control, AnsweredIdle, InInjection, rowVars, userVars,
         engVars, procVars, tailVars, pumpVars, bootVars
    <3>25. CASE Recover
      BY <1>0, <1>5, <2>1, <3>25 DEF Recover, Control, AnsweredIdle, InInjection, rowVars, userVars,
         engVars, procVars, tailVars, pumpVars, bootVars
    <3>26. CASE UNCHANGED vars
      BY <1>0, <1>5, <2>1, <3>26 DEF vars, Control, AnsweredIdle, InInjection, rowVars, userVars,
         engVars, procVars, tailVars, pumpVars, bootVars
    <3> QED
      BY <3>1, <3>2, <3>3, <3>4, <3>5, <3>6, <3>7, <3>8, <3>9, <3>10, <3>11,
         <3>12, <3>13, <3>14, <3>15, <3>16, <3>17, <3>18, <3>19, <3>20, <3>21,
         <3>22, <3>23, <3>24, <3>25, <3>26 DEF Next, PumpStep
  <2>4. InInjection'
    <3> SUFFICES ASSUME ipc' # "off"
                 PROVE  /\ proc' \in {"alive", "stopping"} /\ stdin' = <<>> /\ chan' = {} /\ hpc' = "listen"
                        /\ err' = "none" /\ AllRead'
      BY DEF InInjection
    <3>a. read' = read \/ read' = Len(log) => (AllRead \/ read = Len(log) => AllRead')
      BY <1>0, <1>5 DEF AllRead
    <3>b. AllRead => {i \in Unread : IsEvent(log[i])} = {}
      BY <1>0 DEF AllRead, Unread
    <3>1. CASE FollowUpQueued
      BY <1>0, <1>5, <2>1, <3>a, <3>1 DEF FollowUpQueued, Control, InInjection, Subject, rowVars,
         userVars, engVars, procVars, tailVars, pumpVars, bootVars
    <3>2. CASE InjectBegin
      BY <1>0, <1>5, <2>1, <3>a, <3>2 DEF InjectBegin, Quiet, procVars, tailVars, pumpVars
    <3>3. CASE InjectLog
      BY <1>0, <1>5, <2>1, <3>a, <3>3 DEF InjectLog, Control, InInjection, Subject, rowVars, userVars,
         engVars, procVars, tailVars, pumpVars, bootVars
    <3>4. CASE InjectState
      BY <1>0, <1>5, <2>1, <3>a, <3>4 DEF InjectState, Control, InInjection, Subject, rowVars, userVars,
         engVars, procVars, tailVars, pumpVars, bootVars
    <3>5. CASE InjectWrite
      BY <1>0, <1>5, <2>1, <3>a, <3>5 DEF InjectWrite, Control, InInjection, Subject, rowVars, userVars,
         engVars, procVars, tailVars, pumpVars, bootVars
    <3>6. CASE Kill
      BY <1>0, <1>5, <2>1, <3>a, <3>6 DEF Kill, Control, InInjection, Subject, rowVars, userVars,
         engVars, procVars, tailVars, pumpVars, bootVars
    <3>7. CASE StartLog
      BY <1>0, <1>5, <2>1, <3>a, <3>7 DEF StartLog, Control, InInjection, Subject, rowVars, userVars,
         engVars, procVars, tailVars, pumpVars, bootVars
    <3>8. CASE StartSpawn
      BY <1>0, <1>5, <2>1, <3>a, <3>8 DEF StartSpawn, Control, InInjection, Subject, rowVars, userVars,
         engVars, procVars, tailVars, pumpVars, bootVars
    <3>9. CASE StartPublish
      BY <1>0, <1>5, <2>1, <3>a, <3>9 DEF StartPublish, Control, InInjection, Subject, rowVars,
         userVars, engVars, procVars, tailVars, pumpVars, bootVars
    <3>10. CASE StartSidecar
      BY <1>0, <1>5, <2>1, <3>a, <3>10 DEF StartSidecar, Control, InInjection, Subject, rowVars,
         userVars, engVars, procVars, tailVars, pumpVars, bootVars
    <3>11. CASE BridgeInit
      BY <1>0, <1>5, <2>1, <3>a, <3>11 DEF BridgeInit, Control, InInjection, Subject, rowVars, userVars,
         engVars, procVars, tailVars, pumpVars, bootVars
    <3>12. CASE BridgeResult
      BY <1>0, <1>5, <2>1, <3>a, <3>12 DEF BridgeResult, Control, InInjection, Subject, rowVars,
         userVars, engVars, procVars, tailVars, pumpVars, bootVars
    <3>13. CASE BridgeThrow
      BY <1>0, <1>5, <2>1, <3>a, <3>13 DEF BridgeThrow, Control, InInjection, Subject, rowVars,
         userVars, engVars, procVars, tailVars, pumpVars, bootVars
    <3>14. CASE BridgeExit
      BY <1>0, <1>5, <2>1, <3>a, <3>14 DEF BridgeExit, Control, InInjection, Subject, rowVars, userVars,
         engVars, procVars, tailVars, pumpVars, bootVars
    <3>15. CASE OrphanResult
      BY <3>15 DEF OrphanResult
    <3>16. CASE Poll
      BY <1>0, <1>5, <2>1, <3>a, <3>b, <3>16 DEF Poll, InInjection, rowVars, procVars, engVars, pumpVars
    <3>17. CASE PollFinal
      BY <1>0, <1>5, <2>1, <3>a, <3>b, <3>17 DEF PollFinal, InInjection, rowVars, procVars, engVars,
         pumpVars
    <3>18. CASE EventInit
      BY <1>0, <1>5, <2>1, <3>a, <3>18 DEF EventInit, Control, InInjection, Subject, rowVars, userVars,
         engVars, procVars, tailVars, pumpVars, bootVars
    <3>19. CASE ResultGet
      BY <1>0, <1>5, <2>1, <3>a, <3>19 DEF ResultGet, Control, InInjection, Subject, rowVars, userVars,
         engVars, procVars, tailVars, pumpVars, bootVars
    <3>20. CASE ResultPatch
      BY <1>0, <1>5, <2>1, <3>a, <3>20 DEF ResultPatch, Control, InInjection, Subject, rowVars,
         userVars, engVars, procVars, tailVars, pumpVars, bootVars
    <3>21. CASE ResultPark
      BY <1>0, <1>5, <2>1, <3>a, <3>21 DEF ResultPark, Control, InInjection, Subject, rowVars, userVars,
         engVars, procVars, tailVars, pumpVars, bootVars
    <3>22. CASE ExitBegin
      BY <1>0, <1>5, <2>1, <3>a, <3>22 DEF ExitBegin, Control, InInjection, Subject, rowVars, userVars,
         engVars, procVars, tailVars, pumpVars, bootVars
    <3>23. CASE ExitApply
      BY <1>0, <1>5, <2>1, <3>a, <3>23 DEF ExitApply, FinalRow, Control, InInjection, Subject, rowVars,
         userVars, engVars, procVars, tailVars, pumpVars, bootVars
    <3>24. CASE Stop
      BY <3>24 DEF Stop
    <3>25. CASE Recover
      BY <1>0, <1>5, <2>1, <3>a, <3>25 DEF Recover, Control, InInjection, Subject, rowVars, userVars,
         engVars, procVars, tailVars, pumpVars, bootVars
    <3>26. CASE UNCHANGED vars
      BY <1>0, <1>5, <2>1, <3>a, <3>26 DEF vars, Control, InInjection, Subject, rowVars, userVars,
         engVars, procVars, tailVars, pumpVars, bootVars
    <3> QED
      BY <3>1, <3>2, <3>3, <3>4, <3>5, <3>6, <3>7, <3>8, <3>9, <3>10, <3>11,
         <3>12, <3>13, <3>14, <3>15, <3>16, <3>17, <3>18, <3>19, <3>20, <3>21,
         <3>22, <3>23, <3>24, <3>25, <3>26 DEF Next, PumpStep
  <2> QED BY <2>1, <2>2, <2>3, <2>4
<1>6. \/ StartLog \/ InjectLog \/ BridgeResult \/ BridgeThrow \/ BridgeInit
      \/ (log' = log /\ turns' = turns /\ ~raced)
  <2>1. CASE FollowUpQueued
    BY <1>0, <2>1 DEF FollowUpQueued, rowVars, userVars, engVars, procVars, tailVars, pumpVars, bootVars
  <2>2. CASE InjectBegin
    BY <1>0, <2>2 DEF InjectBegin, rowVars, userVars, engVars, procVars, tailVars, pumpVars, bootVars
  <2>3. CASE InjectLog
    BY <2>3
  <2>4. CASE InjectState
    BY <1>0, <2>4 DEF InjectState, rowVars, userVars, engVars, procVars, tailVars, pumpVars, bootVars
  <2>5. CASE InjectWrite
    BY <1>0, <2>5 DEF InjectWrite, rowVars, userVars, engVars, procVars, tailVars, pumpVars, bootVars
  <2>6. CASE Kill
    BY <1>0, <2>6 DEF Kill, rowVars, userVars, engVars, procVars, tailVars, pumpVars, bootVars
  <2>7. CASE StartLog
    BY <2>7
  <2>8. CASE StartSpawn
    BY <1>0, <2>8 DEF StartSpawn, rowVars, userVars, engVars, procVars, tailVars, pumpVars, bootVars
  <2>9. CASE StartPublish
    BY <1>0, <2>9 DEF StartPublish, rowVars, userVars, engVars, procVars, tailVars, pumpVars, bootVars
  <2>10. CASE StartSidecar
    BY <1>0, <2>10 DEF StartSidecar, rowVars, userVars, engVars, procVars, tailVars, pumpVars, bootVars
  <2>11. CASE BridgeInit
    BY <2>11
  <2>12. CASE BridgeResult
    BY <2>12
  <2>13. CASE BridgeThrow
    BY <2>13
  <2>14. CASE BridgeExit
    BY <1>0, <2>14 DEF BridgeExit, rowVars, userVars, engVars, procVars, tailVars, pumpVars, bootVars
  <2>15. CASE OrphanResult
    BY <1>0, <2>15 DEF OrphanResult, rowVars, userVars, engVars, procVars, tailVars, pumpVars, bootVars
  <2>16. CASE Poll
    BY <1>0, <2>16 DEF Poll, rowVars, userVars, engVars, procVars, tailVars, pumpVars, bootVars
  <2>17. CASE PollFinal
    BY <1>0, <2>17 DEF PollFinal, rowVars, userVars, engVars, procVars, tailVars, pumpVars, bootVars
  <2>18. CASE EventInit
    BY <1>0, <2>18 DEF EventInit, rowVars, userVars, engVars, procVars, tailVars, pumpVars, bootVars
  <2>19. CASE ResultGet
    BY <1>0, <2>19 DEF ResultGet, rowVars, userVars, engVars, procVars, tailVars, pumpVars, bootVars
  <2>20. CASE ResultPatch
    BY <1>0, <2>20 DEF ResultPatch, rowVars, userVars, engVars, procVars, tailVars, pumpVars, bootVars
  <2>21. CASE ResultPark
    BY <1>0, <2>21 DEF ResultPark, rowVars, userVars, engVars, procVars, tailVars, pumpVars, bootVars
  <2>22. CASE ExitBegin
    BY <1>0, <2>22 DEF ExitBegin, rowVars, userVars, engVars, procVars, tailVars, pumpVars, bootVars
  <2>23. CASE ExitApply
    BY <1>0, <2>23 DEF ExitApply, FinalRow, rowVars, userVars, engVars, procVars, tailVars, pumpVars,
       bootVars
  <2>24. CASE Stop
    BY <1>0, <2>24 DEF Stop, rowVars, userVars, engVars, procVars, tailVars, pumpVars, bootVars
  <2>25. CASE Recover
    BY <1>0, <2>25 DEF Recover, rowVars, userVars, engVars, procVars, tailVars, pumpVars, bootVars
  <2>26. CASE UNCHANGED vars
    BY <1>0, <2>26 DEF vars, rowVars, userVars, engVars, procVars, tailVars, pumpVars, bootVars
  <2> QED
    BY <2>1, <2>2, <2>3, <2>4, <2>5, <2>6, <2>7, <2>8, <2>9, <2>10, <2>11,
       <2>12, <2>13, <2>14, <2>15, <2>16, <2>17, <2>18, <2>19, <2>20, <2>21,
       <2>22, <2>23, <2>24, <2>25, <2>26 DEF Next, PumpStep
<1> QED BY <1>1, <1>2, <1>3, <1>4, <1>5, <1>6

-----------------------------------------------------------------------------
(* What the pump task knows of the last turn. *)

\* The log before a step is the log after it, as far as it reached.
LEMMA OldLines ==
    ASSUME Base, Base', [Next]_vars
    PROVE  /\ \A i \in 1..Len(log) : log'[i] = log[i]
           /\ \A i \in Results : i \in 1..Len(log) /\ log'[i] = log[i]
           /\ \A i \in Waiting : i \in 1..Len(log) /\ log'[i] = log[i]
           /\ \A i \in Counted : i \in 1..Len(log) /\ log'[i] = log[i]
<1>1. /\ \A i \in 1..Len(log) : log'[i] = log[i]
      /\ \A i \in Results : i \in 1..Len(log) /\ log'[i] = log[i]
      /\ \A i \in Waiting : i \in Results
  BY ResultsStay, WaitingFacts DEF Base
<1>2. \A i \in Counted : i \in Results
  BY <1>1, WaitingFacts DEF Counted
<1> QED BY <1>1, <1>2

\* No pump task runs.
LEMMA KnowsInit == Init => Knows
BY DEF Init, Knows

\* Until something races, saw_result, the exit code and the error column speak of the last
\* turn.
LEMMA KnowsStep ==
    Base /\ Base' /\ Order /\ Markers /\ OnlyLast /\ Knows /\ [Next]_vars => Knows'
<1> SUFFICES ASSUME Base, Base', Order, Markers, OnlyLast, Knows, [Next]_vars, ~raced', hpc' # "off"
             PROVE  /\ \A i \in Waiting' : log'[i].turn = turns'
                    /\ exit' # "none" => \A i \in Results' : i <= read'
                    /\ ipc' = "off" /\ exit' = "none" => (saw' <=> SawOk')
                    /\ exit' # "none" => (exit' = "zero" <=> SawOk')
                    /\ ipc' = "off" /\ status' # "killed"
                         => (err' # "none" <=> \E i \in Counted' : log'[i] = Line("bad", turns'))
  BY DEF Knows
<1>0. /\ TypeOK /\ TypeOK' /\ Control /\ Subject /\ RowControl /\ Flags /\ Places
      /\ Len(log) \in Nat /\ read \in 0..Len(log) /\ turns \in Nat
      /\ \A i \in Results : i \in 1..Len(log)
      /\ Waiting \subseteq Results
  BY TypeParts, WaitingFacts DEF Base
<1>00. ~Stop /\ ~ExitApply
  BY DEF Stop, ExitApply, FinalRow
\* A new process knows nothing, and there is nothing to know.
<1>1. CASE StartSpawn
  <2>1. /\ log' = log /\ turns' = turns /\ chan' = {} /\ read' = Len(log) /\ exit' = "none" /\ saw' = FALSE
        /\ err' = "none" /\ hpc' = "listen" /\ spc = "spawn"
    BY <1>0, <1>1 DEF StartSpawn, userVars, rowVars
  <2>2. \A i \in Results : log[i].turn # turns
    BY <1>0, <2>1, WaitingFacts DEF Order, Newest, Turn
  <2>3. Results' = Results /\ \A i \in Results' : ~(i > read')
    BY <1>0, <2>1 DEF Results
  <2>4. Waiting' = {} /\ Counted' = Results
    BY <2>1, <2>3 DEF Waiting, Counted
  <2>5. \A i \in Results' : log'[i] # Line("ok", turns') /\ log'[i] # Line("bad", turns')
    BY <2>1, <2>2, <2>3 DEF Line
  <2>6. ~SawOk'
    BY <2>5 DEF SawOk
  <2> QED BY <2>1, <2>3, <2>4, <2>5, <2>6
\* An injected message finds nothing unhandled ...
<1>2. CASE InjectBegin \/ InjectLog \/ InjectWrite
  <2>1. ~raced /\ hpc # "off" /\ hpc' = hpc /\ exit' = exit /\ chan' = chan /\ read' = read
    <3>1. CASE InjectBegin
      BY <3>1 DEF InjectBegin, pumpVars, tailVars
    <3>2. CASE InjectLog
      BY <3>2 DEF InjectLog, pumpVars, tailVars
    <3>3. CASE InjectWrite
      BY <3>3 DEF InjectWrite, pumpVars
    <3> QED BY <1>2, <3>1, <3>2, <3>3
  <2>2. exit = "none" /\ chan = {} /\ \A i \in Results : ~(i > read)
    <3>1. CASE InjectBegin
      <4>1. Quiet
        BY <3>1 DEF InjectBegin
      <4> QED BY <1>0, <4>1 DEF Quiet, Control
    <3>2. CASE InjectLog \/ InjectWrite
      <4>1. proc # "exited" /\ chan = {} /\ AllRead
        BY <2>1, <3>2 DEF InjectLog, InjectWrite, OnlyLast, InInjection
      <4>2. \A i \in Results : IsEvent(log[i])
        BY DEF Results, IsResult, IsEvent
      <4> QED BY <1>0, <4>1, <4>2 DEF AllRead, Control
    <3> QED BY <1>2, <3>1, <3>2
  <2>3. Results' = Results
    <3>1. ipc' # ipc /\ hpc' = hpc
      BY <1>2, <2>1 DEF InjectBegin, InjectLog, InjectWrite
    <3>2. ~(ResultPark \/ BridgeResult \/ BridgeThrow \/ OrphanResult)
      BY <3>1 DEF ResultPark, BridgeResult, BridgeThrow, OrphanResult, engVars
    <3> QED BY <1>00, <3>2, WaitStep
  <2>4. Waiting' = {}
    BY <2>1, <2>2, <2>3 DEF Waiting
  <2>5. CASE InjectBegin \/ InjectLog
    BY <2>1, <2>2, <2>4, <2>5 DEF InjectBegin, InjectLog
  \* ... and a process that has not answered it.
  <2>6. CASE InjectWrite
    <3>1. saw' = FALSE /\ err' = err /\ turns' = turns /\ log' = log /\ ipc = "write"
      BY <2>6 DEF InjectWrite, rowVars, userVars
    <3>2. err = "none"
      BY <2>1, <3>1 DEF OnlyLast, InInjection
    <3>3. \A i \in Results' : log'[i].turn # turns'
      BY <1>0, <2>3, <3>1, WaitingFacts DEF Order, Newest, Turn
    <3>4. \A i \in Results' : log'[i] # Line("ok", turns') /\ log'[i] # Line("bad", turns')
      BY <3>3 DEF Line
    <3>5. Counted' = Results' /\ ~SawOk'
      <4>1. hpc' = "listen"
        BY <2>1, <3>1 DEF OnlyLast, InInjection
      <4> QED BY <2>4, <3>4, <4>1 DEF Counted, SawOk
    <3> QED BY <2>1, <2>2, <2>4, <3>1, <3>2, <3>4, <3>5
  <2> QED BY <1>2, <2>5, <2>6
\* The process answers: the result is not read yet.
<1>3. CASE BridgeResult \/ BridgeThrow
  <2>1. PICK k \in {"ok", "bad"} : Writes(k, turns)
    BY <1>3, LastTurnWrites
  <2>2. /\ ~raced /\ ipc = "off" /\ hpc # "off" /\ exit = "none" /\ turns' = turns
        /\ <<status, err, ipc, saw, read, exit, hpc, chan>>' = <<status, err, ipc, saw, read, exit, hpc, chan>>
    BY <1>0, <1>3, LastTurnWrites DEF BridgeResult, BridgeThrow, Control, rowVars, userVars, engVars,
       tailVars, pumpVars
  <2>3. Counted' = Counted
    BY <1>00, <1>3, <2>2, CountedStep DEF BridgeResult, BridgeThrow, ResultPatch, pumpVars
  <2>4. Results' = Results \cup {Len(log) + 1} /\ Waiting' = Waiting \cup {Len(log) + 1}
    BY <1>3, <2>2, WaitStep DEF BridgeResult, BridgeThrow, ResultPark, ExitApply, FinalRow, Stop,
       bootVars, pumpVars
  <2>5. log'[Len(log) + 1].turn = turns
    BY <2>1 DEF Writes, Line
  <2>6. \A i \in Waiting' : log'[i].turn = turns'
    BY <2>2, <2>4, <2>5, OldLines DEF Knows
  <2>7. SawOk' <=> SawOk
    <3>1. \A i \in Results' : i <= read => i \in Results /\ log'[i] = log[i]
      BY <1>0, <2>4, OldLines
    <3>2. \A i \in Results : i \in Results' /\ log'[i] = log[i]
      BY <2>4, OldLines
    <3> QED BY <2>2, <3>1, <3>2 DEF SawOk
  <2>8. (\E i \in Counted' : log'[i] = Line("bad", turns')) <=> \E i \in Counted : log[i] = Line("bad", turns)
    BY <2>2, <2>3, OldLines
  <2>9. saw' = saw /\ err' = err /\ status' = status /\ ipc' = ipc /\ exit' = exit
    BY <2>2
  <2> QED BY <2>2, <2>6, <2>7, <2>8, <2>9 DEF Knows
\* The poll loop reads what is there: successes of the last turn.
<1>4. CASE Poll \/ PollFinal
  <2>1. /\ ~raced /\ hpc # "off" /\ exit = "none" /\ hpc' = hpc /\ turns' = turns /\ ipc' = ipc
        /\ status' = status /\ err' = err /\ log' = log /\ read' = Len(log) /\ saw' = SawSuccess
        /\ (PollFinal => ipc = "off" /\ exit' = IF SawSuccess THEN "zero" ELSE "one")
        /\ (~PollFinal => exit' = "none")
    BY <1>0, <1>4 DEF Poll, PollFinal, rowVars, userVars, engVars, pumpVars, OnlyLast, InInjection
  <2>2. Results' = Results /\ Waiting' = Waiting /\ Counted' = Counted
    <3>1. read' # read \/ exit' # exit
      BY <1>4 DEF Poll, PollFinal
    <3>2. ~(ResultPark \/ ResultPatch \/ BridgeResult \/ BridgeThrow \/ OrphanResult)
      BY <3>1 DEF ResultPark, ResultPatch, BridgeResult, BridgeThrow, OrphanResult, tailVars
    <3> QED BY <1>00, <2>1, <3>2, WaitStep, CountedStep
  <2>3. ipc = "off" => (SawSuccess <=> SawOk')
    <3> SUFFICES ASSUME ipc = "off" PROVE SawSuccess <=> SawOk'
      OBVIOUS
    <3>1. \A i \in Results : i > read => log[i].turn = turns
      BY <2>1 DEF Knows, Waiting
    <3>2. \A i \in Unread : log[i].kind = "ok" => i \in Results /\ i > read /\ log[i] = Line("ok", turns)
      <4> SUFFICES ASSUME NEW i \in Unread, log[i].kind = "ok"
                   PROVE  i \in Results /\ i > read /\ log[i] = Line("ok", turns)
        OBVIOUS
      <4>1. i \in 1..Len(log) /\ i > read
        BY <1>0 DEF Unread
      <4>2. i \in Results
        BY <4>1 DEF Results, IsResult
      <4> QED BY <1>0, <3>1, <4>1, <4>2, LineType
    <3>3. saw <=> SawOk
      BY <2>1 DEF Knows
    <3>4. SawOk' <=> \E i \in Results : log[i] = Line("ok", turns)
      BY <1>0, <2>1, <2>2 DEF SawOk
    <3>5. ASSUME NEW i \in Results, log[i] = Line("ok", turns) PROVE SawSuccess
      <4>1. CASE i <= read
        BY <3>3, <3>5, <4>1 DEF SawOk, SawSuccess
      <4>2. CASE ~(i <= read)
        <5>1. i \in Unread /\ log[i].kind = "ok"
          BY <1>0, <3>5, <4>2 DEF Unread, Line
        <5> QED BY <5>1 DEF SawSuccess
      <4> QED BY <4>1, <4>2
    <3>6. SawSuccess => \E i \in Results : log[i] = Line("ok", turns)
      BY <3>2, <3>3 DEF SawSuccess, SawOk
    <3> QED BY <3>4, <3>5, <3>6
  <2>4. \A i \in Results' : i <= read'
    BY <1>0, <2>1, <2>2
  <2>5. \A i \in Waiting' : log'[i].turn = turns'
    BY <2>1, <2>2 DEF Knows
  <2>6. exit' # "none" => (exit' = "zero" <=> SawOk')
    BY <2>1, <2>3
  <2> QED BY <2>1, <2>2, <2>3, <2>4, <2>5, <2>6 DEF Knows
\* The pump task records the error of the last turn.
<1>5. CASE ResultPatch
  <2>1. /\ ~raced /\ hpc = "patch" /\ log' = log /\ turns' = turns /\ status' = status /\ ipc' = ipc /\ read' = read
        /\ saw' = saw /\ exit' = exit /\ err' = IF Event.kind = "bad" /\ ~hkill THEN "claude" ELSE err
    BY <1>5 DEF ResultPatch, userVars, engVars, tailVars
  <2>2. Results' = Results /\ Waiting' = Waiting /\ Counted' = Counted \cup {First(chan)}
    BY <1>00, <1>5, <2>1, WaitStep, CountedStep DEF ResultPark, ResultPatch, BridgeResult, BridgeThrow,
       OrphanResult, pumpVars
  <2>3. First(chan) \in Waiting /\ Event = log[First(chan)]
    BY <2>1, WaitingFacts
  <2>4. log[First(chan)].turn = turns
    BY <2>1, <2>3 DEF Knows
  <2>5. Event.kind = "bad" <=> log[First(chan)] = Line("bad", turns)
    <3>1. First(chan) \in 1..Len(log)
      BY <1>0, <2>3
    <3> QED BY <1>0, <2>3, <2>4, <3>1, LineType DEF Line
  <2>6. SawOk' <=> SawOk
    BY <2>1, <2>2 DEF SawOk
  <2>7. ASSUME ipc' = "off", status' # "killed"
        PROVE  err' # "none" <=> \E i \in Counted' : log'[i] = Line("bad", turns')
    <3>1. ~hkill /\ (err # "none" <=> \E i \in Counted : log[i] = Line("bad", turns))
      BY <1>0, <2>1, <2>7 DEF Knows, RowControl
    <3>2. CASE Event.kind = "bad"
      BY <2>1, <2>2, <2>5, <3>1, <3>2
    <3>3. CASE Event.kind # "bad"
      BY <2>1, <2>2, <2>5, <3>1, <3>3
    <3> QED BY <3>2, <3>3
  <2> QED BY <2>1, <2>2, <2>6, <2>7 DEF Knows
\* Nothing else changes what is known or what is true.
<1>6. CASE /\ ~raced /\ hpc # "off" /\ turns' = turns /\ ipc' \in {ipc, "write"} /\ (ipc' = "off" => ipc = "off") /\ read' = read /\ saw' = saw /\ exit' = exit
           /\ Results' = Results /\ Waiting' \subseteq Waiting /\ Counted' = Counted
           /\ (err' = err /\ (status' = "killed" \/ status # "killed")) \/ status' = "killed"
  <2>1. \A i \in Waiting' : log'[i].turn = turns'
    BY <1>6, OldLines DEF Knows
  <2>2. SawOk' <=> SawOk
    BY <1>6, OldLines DEF SawOk
  <2>3. (\E i \in Counted' : log'[i] = Line("bad", turns')) <=> \E i \in Counted : log[i] = Line("bad", turns)
    BY <1>6, OldLines
  <2> QED BY <1>6, <2>1, <2>2, <2>3 DEF Knows
<1>7. (~raced /\ hpc # "off") \/ StartSpawn
  <2>1. CASE FollowUpQueued
    BY <1>0, <2>1 DEF FollowUpQueued, Control, rowVars, userVars, engVars, procVars, tailVars, pumpVars,
       bootVars
  <2>2. CASE InjectBegin
    BY <1>0, <2>2 DEF InjectBegin, Control, rowVars, userVars, engVars, procVars, tailVars, pumpVars,
       bootVars
  <2>3. CASE InjectLog
    BY <1>0, <2>3 DEF InjectLog, Control, rowVars, userVars, engVars, procVars, tailVars, pumpVars, bootVars
  <2>4. CASE InjectState
    BY <1>0, <2>4 DEF InjectState, Control, rowVars, userVars, engVars, procVars, tailVars, pumpVars,
       bootVars
  <2>5. CASE InjectWrite
    BY <1>0, <2>5 DEF InjectWrite, Control, rowVars, userVars, engVars, procVars, tailVars, pumpVars,
       bootVars
  <2>6. CASE Kill
    BY <1>0, <2>6 DEF Kill, Control, rowVars, userVars, engVars, procVars, tailVars, pumpVars, bootVars
  <2>7. CASE StartLog
    BY <1>0, <2>7 DEF StartLog, Control, rowVars, userVars, engVars, procVars, tailVars, pumpVars, bootVars
  <2>8. CASE StartSpawn
    BY <2>8
  <2>9. CASE StartPublish
    BY <1>0, <2>9 DEF StartPublish, Control, rowVars, userVars, engVars, procVars, tailVars, pumpVars,
       bootVars
  <2>10. CASE StartSidecar
    BY <1>0, <2>10 DEF StartSidecar, Control, rowVars, userVars, engVars, procVars, tailVars, pumpVars,
       bootVars
  <2>11. CASE BridgeInit
    BY <1>0, <2>11 DEF BridgeInit, Control, rowVars, userVars, engVars, procVars, tailVars, pumpVars,
       bootVars
  <2>12. CASE BridgeResult
    BY <1>0, <2>12 DEF BridgeResult, Control, rowVars, userVars, engVars, procVars, tailVars, pumpVars,
       bootVars
  <2>13. CASE BridgeThrow
    BY <1>0, <2>13 DEF BridgeThrow, Control, rowVars, userVars, engVars, procVars, tailVars, pumpVars,
       bootVars
  <2>14. CASE BridgeExit
    BY <1>0, <2>14 DEF BridgeExit, Control, rowVars, userVars, engVars, procVars, tailVars, pumpVars,
       bootVars
  <2>15. CASE OrphanResult
    BY <2>15 DEF OrphanResult
  <2>16. CASE Poll
    BY <1>0, <2>16 DEF Poll, Control, rowVars, userVars, engVars, procVars, tailVars, pumpVars, bootVars
  <2>17. CASE PollFinal
    BY <1>0, <2>17 DEF PollFinal, Control, rowVars, userVars, engVars, procVars, tailVars, pumpVars,
       bootVars
  <2>18. CASE EventInit
    BY <1>0, <2>18 DEF EventInit, Control, rowVars, userVars, engVars, procVars, tailVars, pumpVars,
       bootVars
  <2>19. CASE ResultGet
    BY <1>0, <2>19 DEF ResultGet, Control, rowVars, userVars, engVars, procVars, tailVars, pumpVars,
       bootVars
  <2>20. CASE ResultPatch
    BY <1>0, <2>20 DEF ResultPatch, Control, rowVars, userVars, engVars, procVars, tailVars, pumpVars,
       bootVars
  <2>21. CASE ResultPark
    BY <1>0, <2>21 DEF ResultPark, Control, rowVars, userVars, engVars, procVars, tailVars, pumpVars,
       bootVars
  <2>22. CASE ExitBegin
    BY <1>0, <2>22 DEF ExitBegin, Control, rowVars, userVars, engVars, procVars, tailVars, pumpVars,
       bootVars
  <2>23. CASE ExitApply
    BY <1>0, <2>23 DEF ExitApply, FinalRow, Control, rowVars, userVars, engVars, procVars, tailVars,
       pumpVars, bootVars
  <2>24. CASE Stop
    BY <1>0, <2>24 DEF Stop, Control, rowVars, userVars, engVars, procVars, tailVars, pumpVars, bootVars
  <2>25. CASE Recover
    BY <1>0, <2>25 DEF Recover, Control, rowVars, userVars, engVars, procVars, tailVars, pumpVars, bootVars
  <2>26. CASE UNCHANGED vars
    BY <1>0, <2>26 DEF vars, Control, rowVars, userVars, engVars, procVars, tailVars, pumpVars, bootVars
  <2> QED
    BY <2>1, <2>2, <2>3, <2>4, <2>5, <2>6, <2>7, <2>8, <2>9, <2>10, <2>11,
       <2>12, <2>13, <2>14, <2>15, <2>16, <2>17, <2>18, <2>19, <2>20, <2>21,
       <2>22, <2>23, <2>24, <2>25, <2>26 DEF Next, PumpStep
\* The other actions.
<1>8. CASE /\ ~raced /\ hpc # "off"
           /\ ~(StartSpawn \/ InjectBegin \/ InjectLog \/ InjectWrite \/ BridgeResult \/ BridgeThrow \/ Poll
                \/ PollFinal \/ ResultPatch)
  <2>1. ~OrphanResult
    BY DEF OrphanResult
  <2>2. Results' = Results /\ Waiting' \subseteq Waiting /\ Counted' = Counted
    BY <1>00, <1>8, <2>1, WaitStep, CountedStep
  <2>3. /\ turns' = turns /\ ipc' \in {ipc, "write"} /\ (ipc' = "off" => ipc = "off")
        /\ read' = read /\ saw' = saw /\ exit' = exit
        /\ (err' = err /\ (status' = "killed" \/ status # "killed")) \/ status' = "killed"
    <3>1. CASE FollowUpQueued
      BY <1>0, <1>8, <3>1 DEF FollowUpQueued, Control, rowVars, userVars, engVars, procVars, tailVars,
         pumpVars, bootVars
    <3>2. CASE InjectBegin
      BY <1>8, <3>2
    <3>3. CASE InjectLog
      BY <1>8, <3>3
    <3>4. CASE InjectState
      BY <1>0, <1>8, <3>4 DEF InjectState, Control, rowVars, userVars, engVars, procVars, tailVars,
         pumpVars, bootVars
    <3>5. CASE InjectWrite
      BY <1>8, <3>5
    <3>6. CASE Kill
      BY <1>0, <3>6 DEF Kill, Legal, RowControl, Terminal, userVars, tailVars
    <3>7. CASE StartLog
      BY <1>0, <1>8, <3>7 DEF StartLog, Control, rowVars, userVars, engVars, procVars, tailVars,
         pumpVars, bootVars
    <3>8. CASE StartSpawn
      BY <1>8, <3>8
    <3>9. CASE StartPublish
      BY <1>0, <3>9 DEF StartPublish, Terminal, rowVars, userVars, engVars, procVars, tailVars,
         pumpVars, bootVars
    <3>10. CASE StartSidecar
      BY <1>0, <1>8, <3>10 DEF StartSidecar, Control, rowVars, userVars, engVars, procVars, tailVars,
         pumpVars, bootVars
    <3>11. CASE BridgeInit
      BY <1>0, <1>8, <3>11 DEF BridgeInit, Control, rowVars, userVars, engVars, procVars, tailVars,
         pumpVars, bootVars
    <3>12. CASE BridgeResult
      BY <1>8, <3>12
    <3>13. CASE BridgeThrow
      BY <1>8, <3>13
    <3>14. CASE BridgeExit
      BY <1>0, <1>8, <3>14 DEF BridgeExit, Control, rowVars, userVars, engVars, procVars, tailVars,
         pumpVars, bootVars
    <3>15. CASE OrphanResult
      BY <2>1, <3>15
    <3>16. CASE Poll
      BY <1>8, <3>16
    <3>17. CASE PollFinal
      BY <1>8, <3>17
    <3>18. CASE EventInit
      BY <1>0, <1>8, <3>18 DEF EventInit, Control, rowVars, userVars, engVars, procVars, tailVars,
         pumpVars, bootVars
    <3>19. CASE ResultGet
      BY <1>0, <1>8, <3>19 DEF ResultGet, Control, rowVars, userVars, engVars, procVars, tailVars,
         pumpVars, bootVars
    <3>20. CASE ResultPatch
      BY <1>8, <3>20
    <3>21. CASE ResultPark
      BY <1>0, <1>8, <3>21 DEF ResultPark, Control, rowVars, userVars, engVars, procVars, tailVars,
         pumpVars, bootVars
    <3>22. CASE ExitBegin
      BY <1>0, <1>8, <3>22 DEF ExitBegin, Control, rowVars, userVars, engVars, procVars, tailVars,
         pumpVars, bootVars
    <3>23. CASE ExitApply
      BY <1>00, <3>23
    <3>24. CASE Stop
      BY <1>00, <3>24
    <3>25. CASE Recover
      BY <1>0, <1>8, <3>25 DEF Recover, Control, rowVars, userVars, engVars, procVars, tailVars,
         pumpVars, bootVars
    <3>26. CASE UNCHANGED vars
      BY <1>0, <1>8, <3>26 DEF vars, Control, rowVars, userVars, engVars, procVars, tailVars, pumpVars,
         bootVars
    <3> QED
      BY <3>1, <3>2, <3>3, <3>4, <3>5, <3>6, <3>7, <3>8, <3>9, <3>10, <3>11,
         <3>12, <3>13, <3>14, <3>15, <3>16, <3>17, <3>18, <3>19, <3>20, <3>21,
         <3>22, <3>23, <3>24, <3>25, <3>26 DEF Next, PumpStep
  <2> QED BY <1>6, <1>8, <2>2, <2>3
<1> QED BY <1>1, <1>2, <1>3, <1>4, <1>5, <1>7, <1>8

-----------------------------------------------------------------------------
(* The row an exit leaves. *)

\* Nothing is parked.
LEMMA ToldInit == Init => Told
BY DEF Init, Told

\* A push is added at the end.
LEMMA Pushes ==
    ASSUME TypeOK, NEW t \in Turn
    PROVE  /\ Len(pushes) \in Nat /\ Len(Append(pushes, t)) = Len(pushes) + 1
           /\ \A i \in 1..Len(pushes) : Append(pushes, t)[i] = pushes[i]
           /\ Append(pushes, t)[Len(pushes) + 1] = t
BY AppendProperties, LenProperties DEF TypeOK

\* A session is parked by the push of its last turn, or was stopped by the user.
LEMMA ToldStep ==
    Base /\ Base' /\ OnlyLast /\ Knows /\ Told /\ [Next]_vars => Told'
<1> SUFFICES ASSUME Base, Base', OnlyLast, Knows, Told, [Next]_vars,
                    ~raced', hpc' # "off", parked' \/ hparked', ipc' # "state"
             PROVE  status' = "killed" \/ \E i \in 1..Len(pushes') : pushes'[i] = turns'
  BY DEF Told
<1>0. TypeOK /\ Control /\ RowControl /\ Flags /\ Places
  BY TypeParts DEF Base
<1>1. CASE ResultPark
  <2>1. /\ ~raced /\ hpc = "park" /\ turns' = turns /\ status' = status
        /\ pushes' = IF hkill THEN pushes ELSE Append(pushes, Event.turn)
    BY <1>1 DEF ResultPark, rowVars, userVars
  <2>2. CASE hkill
    BY <1>0, <2>1, <2>2 DEF RowControl
  <2>3. CASE ~hkill
    <3>1. First(chan) \in Waiting /\ Event = log[First(chan)]
      BY <2>1, WaitingFacts
    <3>2. Event.turn = turns /\ turns \in Turn
      BY <2>1, <3>1, WaitingFacts DEF Knows
    <3>3. pushes' = Append(pushes, turns)
      BY <2>1, <2>3, <3>2
    <3> QED BY <1>0, <2>1, <3>2, <3>3, Pushes
  <2> QED BY <2>2, <2>3
<1>2. CASE /\ ~raced /\ hpc # "off" /\ (parked \/ hparked) /\ ipc # "state" /\ pushes' = pushes /\ turns' = turns
           /\ status = "killed" => status' = "killed"
  BY <1>2 DEF Told
<1>3. \/ ResultPark
      \/ /\ ~raced /\ hpc # "off" /\ (parked \/ hparked) /\ ipc # "state" /\ pushes' = pushes /\ turns' = turns
         /\ status = "killed" => status' = "killed"
  <2>1. CASE FollowUpQueued
    BY <1>0, <2>1 DEF FollowUpQueued, Control, rowVars, userVars, engVars, procVars, tailVars, pumpVars,
       bootVars
  <2>2. CASE InjectBegin
    BY <1>0, <2>2 DEF InjectBegin, Control, rowVars, userVars, engVars, procVars, tailVars, pumpVars,
       bootVars
  <2>3. CASE InjectLog
    BY <1>0, <2>3 DEF InjectLog, Control, rowVars, userVars, engVars, procVars, tailVars, pumpVars, bootVars
  <2>4. CASE InjectState
    BY <1>0, <2>4 DEF InjectState, OnlyLast, InInjection, RowControl, rowVars, userVars, engVars,
       procVars, tailVars, pumpVars, bootVars
  <2>5. CASE InjectWrite
    BY <1>0, <2>5 DEF InjectWrite, Control, rowVars, userVars, engVars, procVars, tailVars, pumpVars,
       bootVars
  <2>6. CASE Kill
    BY <1>0, <2>6 DEF Kill, Control, Legal, Terminal, rowVars, userVars, engVars, procVars, tailVars,
       pumpVars, bootVars
  <2>7. CASE StartLog
    BY <1>0, <2>7 DEF StartLog, Control, rowVars, userVars, engVars, procVars, tailVars, pumpVars, bootVars
  <2>8. CASE StartSpawn
    BY <1>0, <2>8 DEF StartSpawn, Control, RowControl, rowVars, userVars, engVars, procVars, tailVars,
       pumpVars, bootVars
  <2>9. CASE StartPublish
    BY <1>0, <2>9 DEF StartPublish, Terminal, rowVars, userVars, engVars, procVars, tailVars, pumpVars,
       bootVars
  <2>10. CASE StartSidecar
    BY <1>0, <2>10 DEF StartSidecar, Control, rowVars, userVars, engVars, procVars, tailVars, pumpVars,
       bootVars
  <2>11. CASE BridgeInit
    BY <1>0, <2>11 DEF BridgeInit, Control, rowVars, userVars, engVars, procVars, tailVars, pumpVars,
       bootVars
  <2>12. CASE BridgeResult
    BY <1>0, <2>12 DEF BridgeResult, Control, rowVars, userVars, engVars, procVars, tailVars, pumpVars,
       bootVars
  <2>13. CASE BridgeThrow
    BY <1>0, <2>13 DEF BridgeThrow, Control, rowVars, userVars, engVars, procVars, tailVars, pumpVars,
       bootVars
  <2>14. CASE BridgeExit
    BY <1>0, <2>14 DEF BridgeExit, Control, rowVars, userVars, engVars, procVars, tailVars, pumpVars,
       bootVars
  <2>15. CASE OrphanResult
    BY <2>15 DEF OrphanResult
  <2>16. CASE Poll
    BY <1>0, <2>16 DEF Poll, Control, rowVars, userVars, engVars, procVars, tailVars, pumpVars, bootVars
  <2>17. CASE PollFinal
    BY <1>0, <2>17 DEF PollFinal, Control, rowVars, userVars, engVars, procVars, tailVars, pumpVars,
       bootVars
  <2>18. CASE EventInit
    BY <1>0, <2>18 DEF EventInit, Control, rowVars, userVars, engVars, procVars, tailVars, pumpVars,
       bootVars
  <2>19. CASE ResultGet
    BY <1>0, <2>19 DEF ResultGet, Control, rowVars, userVars, engVars, procVars, tailVars, pumpVars,
       bootVars
  <2>20. CASE ResultPatch
    BY <1>0, <2>20 DEF ResultPatch, Control, rowVars, userVars, engVars, procVars, tailVars, pumpVars,
       bootVars
  <2>21. CASE ResultPark
    BY <2>21
  <2>22. CASE ExitBegin
    BY <1>0, <2>22 DEF ExitBegin, Control, rowVars, userVars, engVars, procVars, tailVars, pumpVars,
       bootVars
  <2>23. CASE ExitApply
    BY <1>0, <2>23 DEF ExitApply, FinalRow, Control, rowVars, userVars, engVars, procVars, tailVars,
       pumpVars, bootVars
  <2>24. CASE Stop
    BY <2>24 DEF Stop
  <2>25. CASE Recover
    BY <1>0, <2>25 DEF Recover, Control, rowVars, userVars, engVars, procVars, tailVars, pumpVars, bootVars
  <2>26. CASE UNCHANGED vars
    BY <1>0, <2>26 DEF vars, Control, rowVars, userVars, engVars, procVars, tailVars, pumpVars, bootVars
  <2> QED
    BY <2>1, <2>2, <2>3, <2>4, <2>5, <2>6, <2>7, <2>8, <2>9, <2>10, <2>11,
       <2>12, <2>13, <2>14, <2>15, <2>16, <2>17, <2>18, <2>19, <2>20, <2>21,
       <2>22, <2>23, <2>24, <2>25, <2>26 DEF Next, PumpStep
<1> QED BY <1>1, <1>2, <1>3

\* Only an exit settles the row, and what it left stays until a new turn begins.
LEMMA SettledStep ==
    ASSUME Base, Base', OnlyLast, [Next]_vars, Settled'
    PROVE  \/ Settled /\ log' = log /\ turns' = turns /\ pushes' = pushes /\ status' = status
           \/ ExitApply
<1>0. Control /\ RowControl /\ Flags /\ Places
  BY TypeParts DEF Base
<1>1. CASE FollowUpQueued
  BY <1>0, <1>1 DEF FollowUpQueued, Control, Settled, rowVars, userVars, engVars, procVars, tailVars,
     pumpVars, bootVars
<1>2. CASE InjectBegin
  BY <1>0, <1>2 DEF InjectBegin, Control, Settled, rowVars, userVars, engVars, procVars, tailVars,
     pumpVars, bootVars
<1>3. CASE InjectLog
  BY <1>0, <1>3 DEF InjectLog, Settled, OnlyLast, InInjection, rowVars, userVars, engVars, procVars,
     tailVars, pumpVars, bootVars
<1>4. CASE InjectState
  BY <1>0, <1>4 DEF InjectState, Control, Settled, rowVars, userVars, engVars, procVars, tailVars,
     pumpVars, bootVars
<1>5. CASE InjectWrite
  BY <1>0, <1>5 DEF InjectWrite, Control, Settled, rowVars, userVars, engVars, procVars, tailVars,
     pumpVars, bootVars
<1>6. CASE Kill
  BY <1>0, <1>6 DEF Kill, Control, Settled, rowVars, userVars, engVars, procVars, tailVars, pumpVars,
     bootVars
<1>7. CASE StartLog
  BY <1>0, <1>7 DEF StartLog, Settled, Control, rowVars, userVars, engVars, procVars, tailVars,
     pumpVars, bootVars
<1>8. CASE StartSpawn
  BY <1>8 DEF StartSpawn, Settled
<1>9. CASE StartPublish
  BY <1>0, <1>9 DEF StartPublish, Control, Settled, rowVars, userVars, engVars, procVars, tailVars,
     pumpVars, bootVars
<1>10. CASE StartSidecar
  BY <1>0, <1>10 DEF StartSidecar, Control, Settled, rowVars, userVars, engVars, procVars, tailVars,
     pumpVars, bootVars
<1>11. CASE BridgeInit
  BY <1>0, <1>11 DEF BridgeInit, Control, Settled, rowVars, userVars, engVars, procVars, tailVars,
     pumpVars, bootVars
<1>12. CASE BridgeResult
  BY <1>0, <1>12 DEF BridgeResult, Control, Settled, rowVars, userVars, engVars, procVars, tailVars,
     pumpVars, bootVars
<1>13. CASE BridgeThrow
  BY <1>0, <1>13 DEF BridgeThrow, Control, Settled, rowVars, userVars, engVars, procVars, tailVars,
     pumpVars, bootVars
<1>14. CASE BridgeExit
  BY <1>0, <1>14 DEF BridgeExit, Control, Settled, rowVars, userVars, engVars, procVars, tailVars,
     pumpVars, bootVars
<1>15. CASE OrphanResult
  BY <1>15 DEF OrphanResult, Settled
<1>16. CASE Poll
  BY <1>0, <1>16 DEF Poll, Control, Settled, rowVars, userVars, engVars, procVars, tailVars, pumpVars,
     bootVars
<1>17. CASE PollFinal
  BY <1>0, <1>17 DEF PollFinal, Control, Settled, rowVars, userVars, engVars, procVars, tailVars,
     pumpVars, bootVars
<1>18. CASE EventInit
  BY <1>0, <1>18 DEF EventInit, Control, Settled, rowVars, userVars, engVars, procVars, tailVars,
     pumpVars, bootVars
<1>19. CASE ResultGet
  BY <1>0, <1>19 DEF ResultGet, Control, Settled, rowVars, userVars, engVars, procVars, tailVars,
     pumpVars, bootVars
<1>20. CASE ResultPatch
  BY <1>0, <1>20 DEF ResultPatch, Control, Settled, rowVars, userVars, engVars, procVars, tailVars,
     pumpVars, bootVars
<1>21. CASE ResultPark
  BY <1>21 DEF ResultPark, Settled
<1>22. CASE ExitBegin
  BY <1>0, <1>22 DEF ExitBegin, Control, Settled, rowVars, userVars, engVars, procVars, tailVars,
     pumpVars, bootVars
<1>23. CASE ExitApply
  BY <1>23
<1>24. CASE Stop
  BY <1>0, <1>24 DEF Stop, Settled, RowControl, rowVars, userVars, engVars, procVars, tailVars,
     pumpVars, bootVars
<1>25. CASE Recover
  BY <1>0, <1>25 DEF Recover, Settled, RowControl, rowVars, userVars, engVars, procVars, tailVars,
     pumpVars, bootVars
<1>26. CASE UNCHANGED vars
  BY <1>0, <1>26 DEF vars, Control, Settled, rowVars, userVars, engVars, procVars, tailVars, pumpVars,
     bootVars
<1> QED
  BY <1>1, <1>2, <1>3, <1>4, <1>5, <1>6, <1>7, <1>8, <1>9, <1>10, <1>11,
     <1>12, <1>13, <1>14, <1>15, <1>16, <1>17, <1>18, <1>19, <1>20, <1>21,
     <1>22, <1>23, <1>24, <1>25, <1>26 DEF Next, PumpStep

\* The turn is answered exactly if a success is there and no error.
LEMMA AnsweredTurn ==
    ASSUME Base, AfterLast
    PROVE  Answered(turns) <=> /\ \E i \in Results : log[i] = Line("ok", turns)
                               /\ ~\E i \in Results : log[i] = Line("bad", turns)
<1>0. /\ Len(log) \in Nat /\ Results \subseteq 1..Len(log)
      /\ \A i \in 1..Len(log) : log[i].kind = "ok" => i \in Results
      /\ \A i \in Results : log[i].kind \in {"ok", "bad"} /\ log[i] = Line(log[i].kind, log[i].turn)
  BY WaitingFacts, LineType DEF Results, IsResult, Base
<1>1. ASSUME Answered(turns)
      PROVE  /\ \E i \in Results : log[i] = Line("ok", turns)
             /\ ~\E i \in Results : log[i] = Line("bad", turns)
  <2>1. PICK i \in 1..Len(log) :
               /\ log[i] = Line("ok", turns)
               /\ \A j \in i + 1 .. Len(log) : ~(IsResult(log[j]) /\ log[j].turn = turns)
    BY <1>1 DEF Answered
  <2>2. i \in Results /\ log[i].kind = "ok" /\ log[i].turn = turns
    BY <1>0, <2>1 DEF Line
  <2>3. ASSUME NEW j \in Results, log[j] = Line("bad", turns) PROVE FALSE
    <3>1. log[j].kind = "bad" /\ log[j].turn = turns /\ IsResult(log[j]) /\ j \in 1..Len(log)
      BY <1>0, <2>3 DEF Line, IsResult
    <3>2. j # i
      BY <2>2, <3>1
    <3>3. CASE j > i
      BY <1>0, <2>1, <3>1, <3>3
    <3>4. CASE j < i
      BY <2>2, <3>1, <3>4 DEF AfterLast
    <3> QED BY <3>1, <3>2, <3>3, <3>4
  <2> QED BY <2>1, <2>2, <2>3
<1>2. ASSUME NEW i \in Results, log[i] = Line("ok", turns), \A j \in Results : log[j] # Line("bad", turns)
      PROVE  Answered(turns)
  <2>1. log[i].turn = turns /\ i \in 1..Len(log)
    BY <1>0, <1>2 DEF Line
  <2>2. ASSUME NEW j \in i + 1 .. Len(log), IsResult(log[j]), log[j].turn = turns PROVE FALSE
    <3>1. j \in 1..Len(log) /\ i < j
      BY <1>0, <2>1
    <3>2. j \in Results
      BY <2>2, <3>1 DEF Results
    <3>3. log[j].kind = "bad"
      BY <2>1, <2>2, <3>1, <3>2 DEF AfterLast
    <3> QED BY <1>0, <1>2, <2>2, <3>2, <3>3
  <2> QED BY <1>2, <2>1, <2>2 DEF Answered
<1> QED BY <1>1, <1>2

\* A fresh row is not settled.
LEMMA FinalInit == Init => Final
BY DEF Init, Final, Settled

\* The exit decides by saw_result and the error what the log says of the last turn, and
\* announces it unless its result did.
LEMMA FinalStep ==
    Base /\ Base' /\ OnlyLast /\ Knows /\ Told /\ Final /\ [Next]_vars => Final'
<1> SUFFICES ASSUME Base, Base', OnlyLast, Knows, Told, Final, [Next]_vars, Settled'
             PROVE  /\ status' = "done" <=> Answered(turns)'
                    /\ \E i \in 1..Len(pushes') : pushes'[i] = turns'
  BY DEF Final
<1>0. Control /\ RowControl /\ Flags /\ Places
  BY TypeParts DEF Base
<1>1. CASE Settled /\ log' = log /\ turns' = turns /\ pushes' = pushes /\ status' = status
  BY <1>1 DEF Final, Answered
<1>2. CASE ExitApply
  <2>1. /\ hpc = "exit" /\ ~raced /\ log' = log /\ turns' = turns
        /\ status' = ExitStatus(status, err # "none", exit = "zero") /\ status' \in {"done", "failed"}
        /\ pushes' = IF hparked THEN pushes ELSE Append(pushes, turns)
    BY <1>2 DEF ExitApply, FinalRow, Settled, userVars
  <2>2. exit # "none" /\ ipc = "off" /\ status # "killed" /\ turns >= 1 /\ turns \in Turn
    <3>1. exit # "none" /\ turns >= 1
      BY <1>0, <2>1 DEF Control
    <3>2. ipc = "off"
      BY <2>1 DEF OnlyLast, InInjection
    <3>3. status # "killed"
      BY <2>1 DEF ExitStatus, Terminal
    <3> QED BY <3>1, <3>2, <3>3, WaitingFacts DEF Turn
  <2>3. /\ exit = "zero" <=> SawOk
        /\ err # "none" <=> \E i \in Counted : log[i] = Line("bad", turns)
        /\ \A i \in Results : i <= read
    BY <2>1, <2>2 DEF Knows
  <2>4. Counted = Results
    BY <1>2, <2>3, CountedAtExit
  <2>5. status' = "done" <=> err = "none" /\ exit = "zero"
    BY <1>0, <2>1, <2>2 DEF ExitStatus, RowControl
  <2>6. Answered(turns) <=> SawOk /\ err = "none"
    BY <2>1, <2>3, <2>4, AnsweredTurn DEF OnlyLast, SawOk
  <2>7. Answered(turns)' <=> Answered(turns)
    BY <2>1 DEF Answered
  <2>8. \E i \in 1..Len(pushes') : pushes'[i] = turns'
    <3>1. CASE hparked
      BY <2>1, <2>2, <3>1 DEF Told
    <3>2. CASE ~hparked
      <4>1. pushes' = Append(pushes, turns) /\ TypeOK
        BY <2>1, <3>2 DEF Base
      <4> QED BY <2>1, <2>2, <4>1, Pushes
    <3> QED BY <3>1, <3>2
  <2> QED BY <2>3, <2>5, <2>6, <2>7, <2>8
<1> QED BY <1>1, <1>2, SettledStep

-----------------------------------------------------------------------------
(* What is announced. *)

\* The results of a turn are finitely many.
LEMMA ResultsOfFinite ==
    ASSUME Base, NEW t
    PROVE  /\ IsFiniteSet(ResultsOf(t)) /\ IsFiniteSet(ResultsOf(t) \ Waiting)
           /\ ResultsOf(t) \subseteq Results
           /\ Cardinality(ResultsOf(t) \ Waiting) \in Nat
           /\ Cardinality(ResultsOf(t) \ Waiting) <= Cardinality(ResultsOf(t))
<1>1. ResultsOf(t) \subseteq Results
  BY DEF ResultsOf
<1>2. IsFiniteSet(ResultsOf(t))
  BY <1>1, WaitingFacts, FS_Subset
<1> QED BY <1>1, <1>2, FS_Subset, FS_CardinalityType

\* So are its announcements.
LEMMA PushedFinite ==
    ASSUME Base, NEW t
    PROVE  IsFiniteSet(Pushed(t)) /\ Pushed(t) \subseteq 1..Len(pushes) /\ Len(pushes) \in Nat
<1>1. Len(pushes) \in Nat
  BY LenProperties DEF Base, TypeOK
<1>2. IsFiniteSet(1..Len(pushes)) /\ Pushed(t) \subseteq 1..Len(pushes)
  BY <1>1, FS_Interval DEF Pushed
<1> QED BY <1>1, <1>2, FS_Subset

\* A push of turn u adds one to what was announced of u and nothing to the rest.
LEMMA PushStep ==
    ASSUME Base, NEW u \in Turn, pushes' = Append(pushes, u), NEW t
    PROVE  /\ t # u => Pushed(t)' = Pushed(t)
           /\ t = u => Cardinality(Pushed(t)') = Cardinality(Pushed(t)) + 1
<1>1. /\ Len(pushes) \in Nat /\ Len(pushes') = Len(pushes) + 1
      /\ \A i \in 1..Len(pushes) : pushes'[i] = pushes[i]
      /\ pushes'[Len(pushes) + 1] = u
  BY Pushes DEF Base
<1>2. \A i : i \in Pushed(t)' <=> i \in Pushed(t) \/ (i = Len(pushes) + 1 /\ t = u)
  BY <1>1 DEF Pushed
<1>3. Len(pushes) + 1 \notin Pushed(t)
  BY <1>1 DEF Pushed
<1>4. CASE t # u
  BY <1>2, <1>4
<1>5. CASE t = u
  <2>1. Pushed(t)' = Pushed(t) \cup {Len(pushes) + 1}
    BY <1>2, <1>5
  <2> QED BY <1>3, <1>5, <2>1, PushedFinite, FS_AddElement
<1> QED BY <1>4, <1>5

\* The results of a turn that were handled only become more.
LEMMA MoreResults ==
    ASSUME Base, Base', [Next]_vars, NEW t, ByResults(t), Pushed(t)' = Pushed(t)
    PROVE  ByResults(t)'
<1>1. ResultsOf(t) \ Waiting \subseteq ResultsOf(t)' \ Waiting'
  <2>1. \A i \in Results : i \in Results' /\ log'[i] = log[i]
    BY OldLines, ResultsStay DEF Base
  <2>2. \A i \in Results : i \notin Waiting => i \notin Waiting'
    BY WaitStep, WaitingFacts
  <2> QED BY <2>1, <2>2 DEF ResultsOf
<1>2. IsFiniteSet(Results') /\ ResultsOf(t)' \ Waiting' \subseteq Results'
  <2>1. Results' = Results \/ Results' = Results \cup {Len(log) + 1}
    BY WaitStep
  <2>2. IsFiniteSet(Results)
    BY WaitingFacts
  <2>3. IsFiniteSet(Results')
    BY <2>1, <2>2, FS_AddElement
  <2> QED BY <2>3 DEF ResultsOf
<1>3. IsFiniteSet(ResultsOf(t)' \ Waiting')
  BY <1>2, FS_Subset
<1>4. Cardinality(ResultsOf(t) \ Waiting) <= Cardinality(ResultsOf(t)' \ Waiting')
  BY <1>1, <1>3, FS_Subset
<1>5. /\ Cardinality(Pushed(t)) \in Nat /\ Cardinality(ResultsOf(t) \ Waiting) \in Nat
      /\ Cardinality(ResultsOf(t)' \ Waiting') \in Nat
  BY <1>3, ResultsOfFinite, PushedFinite, FS_CardinalityType
<1> QED BY <1>4, <1>5 DEF ByResults

\* What a process may have been given since: only the turn that is being started or injected.
LEMMA GivenStep ==
    ASSUME Base, [Next]_vars
    PROVE  /\ \A k \in 1..Len(stdin') :
                \/ \E l \in 1..Len(stdin) : stdin'[k] = stdin[l]
                \/ stdin'[k] = turns /\ turns' = turns /\ (hpc # "off" \/ spc = "spawn")
           /\ \A k \in 1..Len(orphan') :
                \/ \E l \in 1..Len(orphan) : orphan'[k] = orphan[l]
                \/ \E l \in 1..Len(stdin) : orphan'[k] = stdin[l]
<1>0. TypeOK /\ Control /\ stdin \in Seq(Nat) /\ orphan \in Seq(Nat) /\ Places
  BY TypeParts, Sizes DEF Base
<1>1. /\ stdin' \in {stdin, <<>>} \/ (stdin # <<>> /\ stdin' = Tail(stdin))
           \/ InjectWrite \/ StartSpawn
      /\ orphan' \in {orphan, stdin, <<>>} \/ (orphan # <<>> /\ orphan' = Tail(orphan))
  <2>1. CASE FollowUpQueued
    BY <1>0, <2>1 DEF FollowUpQueued, Control, rowVars, userVars, engVars, procVars, tailVars, pumpVars,
       bootVars
  <2>2. CASE InjectBegin
    BY <1>0, <2>2 DEF InjectBegin, Control, rowVars, userVars, engVars, procVars, tailVars, pumpVars,
       bootVars
  <2>3. CASE InjectLog
    BY <1>0, <2>3 DEF InjectLog, Control, rowVars, userVars, engVars, procVars, tailVars, pumpVars, bootVars
  <2>4. CASE InjectState
    BY <1>0, <2>4 DEF InjectState, Control, rowVars, userVars, engVars, procVars, tailVars, pumpVars,
       bootVars
  <2>5. CASE InjectWrite
    BY <2>5 DEF InjectWrite, procVars
  <2>6. CASE Kill
    BY <1>0, <2>6 DEF Kill, Control, rowVars, userVars, engVars, procVars, tailVars, pumpVars, bootVars
  <2>7. CASE StartLog
    BY <1>0, <2>7 DEF StartLog, Control, rowVars, userVars, engVars, procVars, tailVars, pumpVars, bootVars
  <2>8. CASE StartSpawn
    BY <2>8 DEF StartSpawn
  <2>9. CASE StartPublish
    BY <1>0, <2>9 DEF StartPublish, Control, rowVars, userVars, engVars, procVars, tailVars, pumpVars,
       bootVars
  <2>10. CASE StartSidecar
    BY <1>0, <2>10 DEF StartSidecar, Control, rowVars, userVars, engVars, procVars, tailVars, pumpVars,
       bootVars
  <2>11. CASE BridgeInit
    BY <1>0, <2>11 DEF BridgeInit, Control, rowVars, userVars, engVars, procVars, tailVars, pumpVars,
       bootVars
  <2>12. CASE BridgeResult
    BY <1>0, <2>12 DEF BridgeResult, Control, rowVars, userVars, engVars, procVars, tailVars, pumpVars,
       bootVars
  <2>13. CASE BridgeThrow
    BY <1>0, <2>13 DEF BridgeThrow, Control, rowVars, userVars, engVars, procVars, tailVars, pumpVars,
       bootVars
  <2>14. CASE BridgeExit
    BY <1>0, <2>14 DEF BridgeExit, Control, rowVars, userVars, engVars, procVars, tailVars, pumpVars,
       bootVars
  <2>15. CASE OrphanResult
    BY <1>0, <2>15 DEF OrphanResult, Control, rowVars, userVars, engVars, procVars, tailVars, pumpVars,
       bootVars
  <2>16. CASE Poll
    BY <1>0, <2>16 DEF Poll, Control, rowVars, userVars, engVars, procVars, tailVars, pumpVars, bootVars
  <2>17. CASE PollFinal
    BY <1>0, <2>17 DEF PollFinal, Control, rowVars, userVars, engVars, procVars, tailVars, pumpVars,
       bootVars
  <2>18. CASE EventInit
    BY <1>0, <2>18 DEF EventInit, Control, rowVars, userVars, engVars, procVars, tailVars, pumpVars,
       bootVars
  <2>19. CASE ResultGet
    BY <1>0, <2>19 DEF ResultGet, Control, rowVars, userVars, engVars, procVars, tailVars, pumpVars,
       bootVars
  <2>20. CASE ResultPatch
    BY <1>0, <2>20 DEF ResultPatch, Control, rowVars, userVars, engVars, procVars, tailVars, pumpVars,
       bootVars
  <2>21. CASE ResultPark
    BY <1>0, <2>21 DEF ResultPark, Control, rowVars, userVars, engVars, procVars, tailVars, pumpVars,
       bootVars
  <2>22. CASE ExitBegin
    BY <1>0, <2>22 DEF ExitBegin, Control, rowVars, userVars, engVars, procVars, tailVars, pumpVars,
       bootVars
  <2>23. CASE ExitApply
    BY <1>0, <2>23 DEF ExitApply, FinalRow, Control, rowVars, userVars, engVars, procVars, tailVars,
       pumpVars, bootVars
  <2>24. CASE Stop
    BY <1>0, <2>24 DEF Stop, Control, rowVars, userVars, engVars, procVars, tailVars, pumpVars, bootVars
  <2>25. CASE Recover
    BY <1>0, <2>25 DEF Recover, Control, rowVars, userVars, engVars, procVars, tailVars, pumpVars, bootVars
  <2>26. CASE UNCHANGED vars
    BY <1>0, <2>26 DEF vars, Control, rowVars, userVars, engVars, procVars, tailVars, pumpVars, bootVars
  <2> QED
    BY <2>1, <2>2, <2>3, <2>4, <2>5, <2>6, <2>7, <2>8, <2>9, <2>10, <2>11,
       <2>12, <2>13, <2>14, <2>15, <2>16, <2>17, <2>18, <2>19, <2>20, <2>21,
       <2>22, <2>23, <2>24, <2>25, <2>26 DEF Next, PumpStep
<1>2. ASSUME stdin # <<>>, stdin' = Tail(stdin), NEW k \in 1..Len(stdin')
      PROVE  \E l \in 1..Len(stdin) : stdin'[k] = stdin[l]
  BY <1>0, <1>2, Shifts
<1>3. ASSUME orphan # <<>>, orphan' = Tail(orphan), NEW k \in 1..Len(orphan')
      PROVE  \E l \in 1..Len(orphan) : orphan'[k] = orphan[l]
  BY <1>0, <1>3, Shifts
<1>4. ASSUME InjectWrite, NEW k \in 1..Len(stdin')
      PROVE  \/ \E l \in 1..Len(stdin) : stdin'[k] = stdin[l]
             \/ stdin'[k] = turns /\ turns' = turns /\ (hpc # "off" \/ spc = "spawn")
  <2>1. CASE proc = "alive"
    <3>1. hpc # "off" /\ turns' = turns /\ stdin' = Append(stdin, turns)
      BY <1>0, <1>4, <2>1 DEF InjectWrite, Control, userVars
    <3>2. turns \in Nat /\ Len(stdin) \in Nat
      BY <1>0, Sizes
    <3>3. /\ Len(stdin') = Len(stdin) + 1 /\ \A l \in 1..Len(stdin) : stdin'[l] = stdin[l]
          /\ stdin'[Len(stdin) + 1] = turns
      BY <1>0, <3>1, <3>2, AppendProperties
    <3>4. k \in 1..Len(stdin) \/ k = Len(stdin) + 1
      BY <1>4, <3>2, <3>3
    <3> QED BY <3>1, <3>3, <3>4
  <2>2. CASE proc # "alive"
    BY <1>4, <2>2 DEF InjectWrite
  <2> QED BY <2>1, <2>2
<1>5. ASSUME StartSpawn, NEW k \in 1..Len(stdin')
      PROVE  stdin'[k] = turns /\ turns' = turns /\ spc = "spawn"
  <2>1. stdin' \in {<<turns>>, <<>>} /\ turns' = turns /\ spc = "spawn"
    BY <1>0, <1>5 DEF StartSpawn, Control, userVars
  <2>2. stdin' = <<turns>>
    BY <1>5, <2>1
  <2>3. Len(stdin') = 1 /\ stdin'[1] = turns
    BY <2>2
  <2>4. k = 1
    BY <1>5, <2>3
  <2> QED BY <2>1, <2>3, <2>4
<1>6. Len(<<>>) = 0
  OBVIOUS
<1> QED BY <1>1, <1>2, <1>3, <1>4, <1>5, <1>6

\* A turn an exit announced stays without a result.
LEMMA ExitStays ==
    ASSUME Base, Base', [Next]_vars, NEW t \in Turn, ByExit(t), Pushed(t)' = Pushed(t)
    PROVE  ByExit(t)'
<1>0. TypeOK /\ TypeOK' /\ Control /\ Subject /\ turns \in Nat /\ stdin \in Seq(Nat) /\ orphan \in Seq(Nat)
  BY Sizes DEF Base
<1>1. ResultsOf(t)' = {}
  <2>1. \A i \in Results : log'[i] = log[i] /\ log[i].turn # t
    BY OldLines DEF ByExit, ResultsOf
  <2>2. CASE Results' = Results
    BY <2>1, <2>2 DEF ResultsOf
  <2>3. CASE BridgeResult \/ BridgeThrow \/ OrphanResult
    <3>1. PICK k, u : k \in {"ok", "bad"} /\ Writes(k, u) /\ u # t
      <4>1. CASE BridgeResult
        <5>1. stdin # <<>>
          BY <1>0, <4>1 DEF BridgeResult, Control
        <5>2. Head(stdin) # t
          BY <1>0, <5>1, Shifts DEF ByExit
        <5> QED BY <1>0, <4>1, <5>2, LogStep
      <4>2. CASE BridgeThrow
        <5>1. CASE stdin # <<>>
          <6>1. LastGiven # t
            BY <1>0, <5>1, Shifts DEF ByExit, LastGiven
          <6> QED BY <1>0, <4>2, <6>1, LogStep
        <5>2. CASE stdin = <<>>
          <6>1. Last(Results) \in Results
            BY <1>0, <4>2, <5>2, Greatest, ResultsFinite, WaitingFacts DEF Subject, BridgeThrow
          <6>2. LastGiven # t
            BY <2>1, <5>2, <6>1 DEF LastGiven
          <6> QED BY <1>0, <4>2, <6>2, LogStep
        <5> QED BY <5>1, <5>2
      <4>3. CASE OrphanResult
        <5>1. orphan # <<>>
          BY <4>3 DEF OrphanResult
        <5>2. Head(orphan) # t
          BY <1>0, <5>1, Shifts DEF ByExit
        <5> QED BY <1>0, <4>3, <5>2, LogStep
      <4> QED BY <2>3, <4>1, <4>2, <4>3
    <3>2. Results' = Results \cup {Len(log) + 1} /\ log'[Len(log) + 1].turn # t
      BY <3>1 DEF Writes, Line
    <3> QED BY <2>1, <3>2 DEF ResultsOf
  <2> QED BY <2>2, <2>3, WaitStep
<1>2. t = turns => hpc = "off" /\ spc # "spawn"
  BY DEF ByExit
<1>3. \A k \in 1..Len(stdin') : stdin'[k] # t
  BY <1>2, GivenStep DEF ByExit
<1>4. \A k \in 1..Len(orphan') : orphan'[k] # t
  BY GivenStep DEF ByExit
<1>5. t = turns' => hpc' = "off" /\ spc' # "spawn"
  <2>1. CASE turns' = turns + 1
    BY <1>0, <2>1 DEF Turn
  <2>2. CASE turns' = turns
    <3>1. (hpc = "off" => hpc' = "off" \/ spc = "spawn") /\ (spc' = "spawn" => spc = "spawn" \/ turns' = turns + 1)
      <4>1. CASE FollowUpQueued
        BY <1>0, <4>1 DEF FollowUpQueued, Control, rowVars, userVars, engVars, procVars, tailVars,
           pumpVars, bootVars
      <4>2. CASE InjectBegin
        BY <1>0, <4>2 DEF InjectBegin, Control, rowVars, userVars, engVars, procVars, tailVars,
           pumpVars, bootVars
      <4>3. CASE InjectLog
        BY <1>0, <4>3 DEF InjectLog, Control, rowVars, userVars, engVars, procVars, tailVars, pumpVars,
           bootVars
      <4>4. CASE InjectState
        BY <1>0, <4>4 DEF InjectState, Control, rowVars, userVars, engVars, procVars, tailVars,
           pumpVars, bootVars
      <4>5. CASE InjectWrite
        BY <1>0, <4>5 DEF InjectWrite, Control, rowVars, userVars, engVars, procVars, tailVars,
           pumpVars, bootVars
      <4>6. CASE Kill
        BY <1>0, <4>6 DEF Kill, Control, rowVars, userVars, engVars, procVars, tailVars, pumpVars, bootVars
      <4>7. CASE StartLog
        BY <1>0, <4>7 DEF StartLog, Control, rowVars, userVars, engVars, procVars, tailVars, pumpVars,
           bootVars
      <4>8. CASE StartSpawn
        BY <1>0, <4>8 DEF StartSpawn, Control, rowVars, userVars, engVars, procVars, tailVars, pumpVars,
           bootVars
      <4>9. CASE StartPublish
        BY <1>0, <4>9 DEF StartPublish, Control, rowVars, userVars, engVars, procVars, tailVars,
           pumpVars, bootVars
      <4>10. CASE StartSidecar
        BY <1>0, <4>10 DEF StartSidecar, Control, rowVars, userVars, engVars, procVars, tailVars,
           pumpVars, bootVars
      <4>11. CASE BridgeInit
        BY <1>0, <4>11 DEF BridgeInit, Control, rowVars, userVars, engVars, procVars, tailVars,
           pumpVars, bootVars
      <4>12. CASE BridgeResult
        BY <1>0, <4>12 DEF BridgeResult, Control, rowVars, userVars, engVars, procVars, tailVars,
           pumpVars, bootVars
      <4>13. CASE BridgeThrow
        BY <1>0, <4>13 DEF BridgeThrow, Control, rowVars, userVars, engVars, procVars, tailVars,
           pumpVars, bootVars
      <4>14. CASE BridgeExit
        BY <1>0, <4>14 DEF BridgeExit, Control, rowVars, userVars, engVars, procVars, tailVars,
           pumpVars, bootVars
      <4>15. CASE OrphanResult
        BY <1>0, <4>15 DEF OrphanResult, Control, rowVars, userVars, engVars, procVars, tailVars,
           pumpVars, bootVars
      <4>16. CASE Poll
        BY <1>0, <4>16 DEF Poll, Control, rowVars, userVars, engVars, procVars, tailVars, pumpVars, bootVars
      <4>17. CASE PollFinal
        BY <1>0, <4>17 DEF PollFinal, Control, rowVars, userVars, engVars, procVars, tailVars, pumpVars,
           bootVars
      <4>18. CASE EventInit
        BY <1>0, <4>18 DEF EventInit, Control, rowVars, userVars, engVars, procVars, tailVars, pumpVars,
           bootVars
      <4>19. CASE ResultGet
        BY <1>0, <4>19 DEF ResultGet, Control, rowVars, userVars, engVars, procVars, tailVars, pumpVars,
           bootVars
      <4>20. CASE ResultPatch
        BY <1>0, <4>20 DEF ResultPatch, Control, rowVars, userVars, engVars, procVars, tailVars,
           pumpVars, bootVars
      <4>21. CASE ResultPark
        BY <1>0, <4>21 DEF ResultPark, Control, rowVars, userVars, engVars, procVars, tailVars,
           pumpVars, bootVars
      <4>22. CASE ExitBegin
        BY <1>0, <4>22 DEF ExitBegin, Control, rowVars, userVars, engVars, procVars, tailVars, pumpVars,
           bootVars
      <4>23. CASE ExitApply
        BY <1>0, <4>23 DEF ExitApply, FinalRow, Control, rowVars, userVars, engVars, procVars, tailVars,
           pumpVars, bootVars
      <4>24. CASE Stop
        BY <1>0, <4>24 DEF Stop, Control, rowVars, userVars, engVars, procVars, tailVars, pumpVars, bootVars
      <4>25. CASE Recover
        BY <1>0, <4>25 DEF Recover, Control, rowVars, userVars, engVars, procVars, tailVars, pumpVars,
           bootVars
      <4>26. CASE UNCHANGED vars
        BY <1>0, <4>26 DEF vars, Control, rowVars, userVars, engVars, procVars, tailVars, pumpVars, bootVars
      <4> QED
        BY <4>1, <4>2, <4>3, <4>4, <4>5, <4>6, <4>7, <4>8, <4>9, <4>10, <4>11,
           <4>12, <4>13, <4>14, <4>15, <4>16, <4>17, <4>18, <4>19, <4>20, <4>21,
           <4>22, <4>23, <4>24, <4>25, <4>26 DEF Next, PumpStep
    <3> QED BY <1>0, <1>2, <2>2, <3>1
  <2> QED BY <1>0, <2>1, <2>2, LogShape
<1> QED BY <1>1, <1>3, <1>4, <1>5 DEF ByExit

\* No turn began.
LEMMA AnnouncedInit == Init => Announced
<1> SUFFICES ASSUME Init PROVE Announced
  OBVIOUS
<1>1. Turn = {}
  BY DEF Init, Turn
<1> QED BY <1>1 DEF Init, Announced, Live

\* Announcements of every turn.
LEMMA EachTurnStep ==
    ASSUME Base, Base', Order, Announced, [Next]_vars, NEW t \in Turn'
    PROVE  ByResults(t)' \/ ByExit(t)'
<1>0. /\ TypeOK /\ Control /\ Subject /\ turns \in Nat /\ Flags /\ Places
      /\ \A i \in Results : i \in 1..Len(log) /\ log[i].turn \in Turn
      /\ read \in 0..Len(log) /\ Len(log) \in Nat
  BY TypeParts, WaitingFacts DEF Base
<1>1. pushes' = pushes \/ ResultPark \/ ExitApply
  <2>1. CASE FollowUpQueued
    BY <2>1 DEF FollowUpQueued
  <2>2. CASE InjectBegin
    BY <2>2 DEF InjectBegin
  <2>3. CASE InjectLog
    BY <2>3 DEF InjectLog
  <2>4. CASE InjectState
    BY <2>4 DEF InjectState
  <2>5. CASE InjectWrite
    BY <2>5 DEF InjectWrite
  <2>6. CASE Kill
    BY <2>6 DEF Kill
  <2>7. CASE StartLog
    BY <2>7 DEF StartLog
  <2>8. CASE StartSpawn
    BY <2>8 DEF StartSpawn
  <2>9. CASE StartPublish
    BY <2>9 DEF StartPublish
  <2>10. CASE StartSidecar
    BY <2>10 DEF StartSidecar
  <2>11. CASE BridgeInit
    BY <2>11 DEF BridgeInit
  <2>12. CASE BridgeResult
    BY <2>12 DEF BridgeResult
  <2>13. CASE BridgeThrow
    BY <2>13 DEF BridgeThrow
  <2>14. CASE BridgeExit
    BY <2>14 DEF BridgeExit
  <2>15. CASE OrphanResult
    BY <2>15 DEF OrphanResult
  <2>16. CASE Poll
    BY <2>16 DEF Poll
  <2>17. CASE PollFinal
    BY <2>17 DEF PollFinal
  <2>18. CASE EventInit
    BY <2>18 DEF EventInit
  <2>19. CASE ResultGet
    BY <2>19 DEF ResultGet
  <2>20. CASE ResultPatch
    BY <2>20 DEF ResultPatch
  <2>21. CASE ResultPark
    BY <2>21
  <2>22. CASE ExitBegin
    BY <2>22 DEF ExitBegin
  <2>23. CASE ExitApply
    BY <2>23
  <2>24. CASE Stop
    BY <2>24 DEF Stop
  <2>25. CASE Recover
    BY <2>25 DEF Recover
  <2>26. CASE UNCHANGED vars
    BY <2>26 DEF vars
  <2> QED
    BY <2>1, <2>2, <2>3, <2>4, <2>5, <2>6, <2>7, <2>8, <2>9, <2>10, <2>11,
       <2>12, <2>13, <2>14, <2>15, <2>16, <2>17, <2>18, <2>19, <2>20, <2>21,
       <2>22, <2>23, <2>24, <2>25, <2>26 DEF Next, PumpStep
<1>2. CASE t \notin Turn
  <2>1. pushes' = pushes
    <3>1. turns' # turns
      BY <1>2 DEF Turn
    <3>2. ~ResultPark /\ ~ExitApply
      BY <3>1 DEF ResultPark, ExitApply, userVars
    <3> QED BY <1>1, <3>2
  <2>2. Pushed(t)' = {}
    <3>1. \A i \in 1..Len(pushes) : pushes[i] \in Turn
      BY <1>0, ElementOfSeq DEF TypeOK
    <3> QED BY <1>2, <2>1, <3>1 DEF Pushed
  <2>3. Cardinality(ResultsOf(t)' \ Waiting') \in Nat
    <3>1. Results' = Results \/ Results' = Results \cup {Len(log) + 1}
      BY WaitStep
    <3>2. IsFiniteSet(Results') /\ ResultsOf(t)' \ Waiting' \subseteq Results'
      BY <3>1, WaitingFacts, FS_AddElement DEF ResultsOf
    <3> QED BY <3>2, FS_Subset, FS_CardinalityType
  <2> QED BY <2>2, <2>3, FS_EmptySet DEF ByResults
<1>3. ASSUME t \in Turn, Pushed(t)' = Pushed(t) PROVE ByResults(t)' \/ ByExit(t)'
  <2>1. ByResults(t) \/ ByExit(t)
    BY <1>3 DEF Announced
  <2> QED BY <1>3, <2>1, MoreResults, ExitStays
<1>4. CASE t \in Turn /\ pushes' = pushes
  BY <1>3, <1>4 DEF Pushed
\* By a result: one more of them is handled.
<1>5. CASE t \in Turn /\ ResultPark
  <2>1. /\ hpc = "park" /\ log' = log /\ pushes' = IF hkill THEN pushes ELSE Append(pushes, Event.turn)
    BY <1>5 DEF ResultPark
  <2>2. First(chan) \in Waiting /\ First(chan) \in Results /\ Event = log[First(chan)] /\ Event.turn \in Turn
    BY <1>0, <2>1, WaitingFacts
  <2>3. CASE hkill \/ t # Event.turn
    <3>1. Pushed(t)' = Pushed(t)
      BY <2>1, <2>2, <2>3, PushStep DEF Pushed
    <3> QED BY <1>3, <1>5, <3>1
  <2>4. CASE ~hkill /\ t = Event.turn
    <3>1. Cardinality(Pushed(t)') = Cardinality(Pushed(t)) + 1
      BY <2>1, <2>2, <2>4, PushStep
    <3>2. First(chan) \in ResultsOf(t) /\ First(chan) \notin ResultsOf(t) \ Waiting
      BY <2>2, <2>4 DEF ResultsOf
    <3>3. ByResults(t)
      BY <1>5, <3>2 DEF Announced, ByExit
    <3>4. Results' = Results /\ Waiting' = Waiting \ {First(chan)}
      BY <1>5, <2>1, WaitStep DEF Stop, ExitApply, ResultPark, BridgeResult, BridgeThrow, OrphanResult,
         pumpVars
    <3>5. ResultsOf(t)' \ Waiting' = (ResultsOf(t) \ Waiting) \cup {First(chan)}
      BY <2>1, <3>2, <3>4 DEF ResultsOf
    <3>6. Cardinality(ResultsOf(t)' \ Waiting') = Cardinality(ResultsOf(t) \ Waiting) + 1
      BY <3>2, <3>5, ResultsOfFinite, FS_AddElement
    <3>7. Cardinality(Pushed(t)) \in Nat /\ Cardinality(ResultsOf(t) \ Waiting) \in Nat
      BY ResultsOfFinite, PushedFinite, FS_CardinalityType
    <3> QED BY <3>1, <3>3, <3>6, <3>7 DEF ByResults
  <2> QED BY <2>3, <2>4
\* By an exit: no result of the turn was handled, and none will come.
<1>6. CASE t \in Turn /\ ExitApply
  <2>1. /\ hpc = "exit" /\ hpc' = "off" /\ log' = log /\ turns' = turns /\ stdin' = stdin /\ orphan' = orphan
        /\ spc' = spc /\ pushes' = IF hparked THEN pushes ELSE Append(pushes, turns)
    BY <1>6 DEF ExitApply, FinalRow, userVars, engVars
  <2>2. exit # "none" /\ chan = {} /\ stdin = <<>> /\ turns \in Turn /\ spc # "spawn"
    BY <1>0, <2>1 DEF Control, Turn
  <2>3. CASE hparked \/ t # turns
    <3>1. Pushed(t)' = Pushed(t)
      BY <2>1, <2>2, <2>3, PushStep DEF Pushed
    <3> QED BY <1>3, <1>6, <3>1
  <2>4. CASE ~hparked /\ t = turns
    <3>1. ByResults(t) /\ ResultsOf(t) \subseteq Waiting
      BY <1>6, <2>1, <2>4 DEF Announced, ByExit
    <3>2. ResultsOf(t) = {}
      <4>1. \A i \in Waiting : i \in Results /\ i > read
        BY <2>2 DEF Waiting
      <4>2. \A i \in Results : i > read => log[i].turn < turns
        BY <2>2 DEF Announced
      <4>3. \A i \in ResultsOf(t) : i \in Results /\ i > read /\ log[i].turn = turns
        BY <2>4, <3>1, <4>1 DEF ResultsOf
      <4> QED BY <1>0, <4>2, <4>3
    <3>3. Cardinality(Pushed(t)) = 0
      <4>1. ResultsOf(t) \ Waiting = {}
        BY <3>2
      <4>2. Cardinality(Pushed(t)) <= 0
        BY <3>1, <4>1, FS_EmptySet DEF ByResults
      <4> QED BY <4>2, PushedFinite, FS_CardinalityType
    <3>4. Cardinality(Pushed(t)') = 1
      BY <2>1, <2>2, <2>4, <3>3, PushStep
    <3>5. ResultsOf(t)' = {}
      BY <2>1, <3>2 DEF ResultsOf, Results
    <3>6. \A k \in 1..Len(orphan) : orphan[k] # t
      <4>1. \A k \in 1..Len(orphan) : orphan[k] < turns
        BY <2>1 DEF Order
      <4>2. \A k \in 1..Len(orphan) : orphan[k] \in Nat
        BY <1>0, Sizes DEF Turn
      <4>3. turns \in Nat
        BY <2>2 DEF Turn
      <4> QED BY <2>4, <4>1, <4>2, <4>3
    <3>7. Len(stdin') = 0
      BY <2>1, <2>2
    <3> QED BY <2>1, <2>2, <3>4, <3>5, <3>6, <3>7 DEF ByExit
  <2> QED BY <2>3, <2>4
<1> QED BY <1>1, <1>2, <1>4, <1>5, <1>6

\* What a turn in progress was not announced for is still to be handled.
LEMMA AnnouncedStep ==
    Base /\ Base' /\ Order /\ Announced /\ [Next]_vars => Announced'
<1> SUFFICES ASSUME Base, Base', Order, Announced, [Next]_vars PROVE Announced'
  OBVIOUS
<1>0. /\ TypeOK /\ TypeOK' /\ Control /\ Subject /\ turns \in Nat /\ Flags /\ Places /\ Channel
      /\ \A i \in Results : i \in 1..Len(log) /\ log[i].turn \in Turn
      /\ read \in 0..Len(log) /\ Len(log) \in Nat
  BY TypeParts, WaitingFacts DEF Base
<1>1. \A t \in Turn' : ByResults(t)' \/ ByExit(t)'
  BY EachTurnStep
\* A turn that was just begun has no results.
<1>2. ASSUME InjectLog \/ StartLog PROVE Writes("prompt", turns + 1) /\ turns' = turns + 1 /\ ResultsOf(turns)' = {}
  <2>1. Writes("prompt", turns + 1) /\ turns' = turns + 1
    BY <1>0, <1>2, LogStep DEF InjectLog, StartLog
  <2> QED BY <2>1, FreshTurn DEF ResultsOf
<1>3. ASSUME InjectState \/ StartSpawn PROVE ResultsOf(turns)' = {}
  <2>1. Newest(turns) /\ log' = log /\ turns' = turns
    BY <1>3 DEF InjectState, StartSpawn, Order, userVars
  <2>2. \A i \in Results : log[i].turn # turns
    BY <1>0, <2>1 DEF Newest, Turn
  <2> QED BY <2>1, <2>2 DEF ResultsOf, Results
\* The results of a turn follow its init line.
<1>4. ASSUME EventInit PROVE ResultsOf(turns)' \subseteq Waiting'
  <2>1. /\ hpc = "listen" /\ chan # {} /\ Event.kind = "init" /\ log' = log /\ turns' = turns
    BY <1>4 DEF EventInit, userVars
  <2>2. First(chan) \in chan /\ First(chan) \in 1..Len(log) /\ log[First(chan)].kind = "init"
    BY <1>0, <2>1, ChanFirst DEF Event
  <2>3. Results' = Results /\ Waiting' = Waiting
    <3>1. hpc' = "listen" /\ chan' # chan
      BY <1>4, <2>1, <2>2 DEF EventInit, pumpVars
    <3>2. ~(ExitApply \/ Stop \/ ResultPark \/ BridgeResult \/ BridgeThrow \/ OrphanResult)
      BY <2>1, <3>1 DEF ExitApply, Stop, ResultPark, BridgeResult, BridgeThrow, OrphanResult, tailVars
    <3> QED BY <3>2, WaitStep
  <2>4. ASSUME NEW i \in Results, log[i].turn = turns PROVE i \in Waiting
    <3>1. i # First(chan)
      BY <2>2 DEF Results, IsResult
    <3>2. CASE i < First(chan)
      <4>1. log[First(chan)].turn \in Turn
        BY <1>0, <2>2, LineType
      <4>2. log[i].turn < log[First(chan)].turn
        BY <2>2, <3>2 DEF Order
      <4> QED BY <1>0, <2>4, <4>1, <4>2 DEF Turn
    <3>3. CASE First(chan) < i
      <4>1. IsEvent(log[i])
        BY DEF Results, IsResult, IsEvent
      <4>2. i <= read => i \in chan
        BY <1>0, <2>2, <3>3, <4>1 DEF Channel
      <4> QED BY <1>0, <2>1, <4>2 DEF Waiting
    <3> QED BY <1>0, <2>2, <3>1, <3>2, <3>3
  <2>5. ResultsOf(turns)' = ResultsOf(turns)
    BY <2>1, <2>3 DEF ResultsOf
  <2> QED BY <2>3, <2>4, <2>5 DEF ResultsOf
\* A new result waits.
<1>5. ASSUME hpc # "off", hpc' # "off", turns' = turns, ~ResultPark, ResultsOf(turns) \subseteq Waiting
      PROVE  ResultsOf(turns)' \subseteq Waiting'
  <2>1. ~ExitApply /\ ~Stop
    BY <1>5 DEF ExitApply, FinalRow, Stop
  <2>2. \/ Results' = Results /\ Waiting' = Waiting
        \/ Results' = Results \cup {Len(log) + 1} /\ Waiting' = Waiting \cup {Len(log) + 1}
    BY <1>5, <2>1, WaitStep
  <2>3. \A i \in Results : log'[i] = log[i]
    BY OldLines
  <2> QED BY <1>5, <2>2, <2>3 DEF ResultsOf
<1>6. hpc' \in Live /\ ~parked' => ResultsOf(turns)' \subseteq Waiting'
  <2> SUFFICES ASSUME hpc' \in Live, ~parked' PROVE ResultsOf(turns)' \subseteq Waiting'
    OBVIOUS
  <2>1. \/ InjectLog \/ InjectState \/ StartSpawn \/ EventInit
        \/ (hpc \in Live /\ ~parked /\ turns' = turns /\ ~ResultPark)
    <3>1. CASE FollowUpQueued
      BY <1>0, <3>1 DEF FollowUpQueued, Live, ResultPark, rowVars, userVars, engVars, procVars,
         tailVars, pumpVars, bootVars
    <3>2. CASE InjectBegin
      BY <1>0, <3>2 DEF InjectBegin, Live, ResultPark, rowVars, userVars, engVars, procVars, tailVars,
         pumpVars, bootVars
    <3>3. CASE InjectLog
      BY <3>3
    <3>4. CASE InjectState
      BY <3>4
    <3>5. CASE InjectWrite
      BY <1>0, <3>5 DEF InjectWrite, Live, ResultPark, rowVars, userVars, engVars, procVars, tailVars,
         pumpVars, bootVars
    <3>6. CASE Kill
      BY <1>0, <3>6 DEF Kill, Live, ResultPark, rowVars, userVars, engVars, procVars, tailVars,
         pumpVars, bootVars
    <3>7. CASE StartLog
      BY <1>0, <3>7 DEF StartLog, Live, ResultPark, rowVars, userVars, engVars, procVars, tailVars,
         pumpVars, bootVars
    <3>8. CASE StartSpawn
      BY <3>8
    <3>9. CASE StartPublish
      BY <1>0, <3>9 DEF StartPublish, Live, ResultPark, rowVars, userVars, engVars, procVars, tailVars,
         pumpVars, bootVars
    <3>10. CASE StartSidecar
      BY <1>0, <3>10 DEF StartSidecar, Live, ResultPark, rowVars, userVars, engVars, procVars, tailVars,
         pumpVars, bootVars
    <3>11. CASE BridgeInit
      BY <1>0, <3>11 DEF BridgeInit, Live, ResultPark, rowVars, userVars, engVars, procVars, tailVars,
         pumpVars, bootVars
    <3>12. CASE BridgeResult
      BY <1>0, <3>12 DEF BridgeResult, Live, ResultPark, rowVars, userVars, engVars, procVars, tailVars,
         pumpVars, bootVars
    <3>13. CASE BridgeThrow
      BY <1>0, <3>13 DEF BridgeThrow, Live, ResultPark, rowVars, userVars, engVars, procVars, tailVars,
         pumpVars, bootVars
    <3>14. CASE BridgeExit
      BY <1>0, <3>14 DEF BridgeExit, Live, ResultPark, rowVars, userVars, engVars, procVars, tailVars,
         pumpVars, bootVars
    <3>15. CASE OrphanResult
      BY <1>0, <3>15 DEF OrphanResult, Live, ResultPark, rowVars, userVars, engVars, procVars, tailVars,
         pumpVars, bootVars
    <3>16. CASE Poll
      BY <1>0, <3>16 DEF Poll, Live, ResultPark, rowVars, userVars, engVars, procVars, tailVars,
         pumpVars, bootVars
    <3>17. CASE PollFinal
      BY <1>0, <3>17 DEF PollFinal, Live, ResultPark, rowVars, userVars, engVars, procVars, tailVars,
         pumpVars, bootVars
    <3>18. CASE EventInit
      BY <3>18
    <3>19. CASE ResultGet
      BY <1>0, <3>19 DEF ResultGet, Live, ResultPark, rowVars, userVars, engVars, procVars, tailVars,
         pumpVars, bootVars
    <3>20. CASE ResultPatch
      BY <1>0, <3>20 DEF ResultPatch, Live, ResultPark, rowVars, userVars, engVars, procVars, tailVars,
         pumpVars, bootVars
    <3>21. CASE ResultPark
      BY <1>0, <3>21 DEF ResultPark, Live, ResultPark, rowVars, userVars, engVars, procVars, tailVars,
         pumpVars, bootVars
    <3>22. CASE ExitBegin
      BY <1>0, <3>22 DEF ExitBegin, Live, ResultPark, rowVars, userVars, engVars, procVars, tailVars,
         pumpVars, bootVars
    <3>23. CASE ExitApply
      BY <1>0, <3>23 DEF ExitApply, FinalRow, Live, ResultPark, rowVars, userVars, engVars, procVars,
         tailVars, pumpVars, bootVars
    <3>24. CASE Stop
      BY <1>0, <3>24 DEF Stop, Live, ResultPark, rowVars, userVars, engVars, procVars, tailVars,
         pumpVars, bootVars
    <3>25. CASE Recover
      BY <1>0, <3>25 DEF Recover, Live, ResultPark, rowVars, userVars, engVars, procVars, tailVars,
         pumpVars, bootVars
    <3>26. CASE UNCHANGED vars
      BY <1>0, <3>26 DEF vars, Live, ResultPark, rowVars, userVars, engVars, procVars, tailVars,
         pumpVars, bootVars
    <3> QED
      BY <3>1, <3>2, <3>3, <3>4, <3>5, <3>6, <3>7, <3>8, <3>9, <3>10, <3>11,
         <3>12, <3>13, <3>14, <3>15, <3>16, <3>17, <3>18, <3>19, <3>20, <3>21,
         <3>22, <3>23, <3>24, <3>25, <3>26 DEF Next, PumpStep
  <2>2. hpc' # "off" /\ (hpc \in Live => hpc # "off")
    BY DEF Live
  <2> QED BY <1>2, <1>3, <1>4, <1>5, <2>1, <2>2 DEF Announced
<1>7. hpc' = "exit" /\ ~hparked' => ResultsOf(turns)' \subseteq Waiting'
  <2> SUFFICES ASSUME hpc' = "exit", ~hparked' PROVE ResultsOf(turns)' \subseteq Waiting'
    OBVIOUS
  <2>1. \/ InjectLog
        \/ (hpc = "listen" /\ ~parked /\ turns' = turns /\ ~ResultPark)
        \/ (hpc = "exit" /\ ~hparked /\ turns' = turns /\ ~ResultPark)
    <3>1. CASE FollowUpQueued
      BY <1>0, <3>1 DEF FollowUpQueued, Control, ResultPark, rowVars, userVars, engVars, procVars,
         tailVars, pumpVars, bootVars
    <3>2. CASE InjectBegin
      BY <1>0, <3>2 DEF InjectBegin, Control, ResultPark, rowVars, userVars, engVars, procVars,
         tailVars, pumpVars, bootVars
    <3>3. CASE InjectLog
      BY <3>3
    <3>4. CASE InjectState
      BY <1>0, <3>4 DEF InjectState, Control, ResultPark, rowVars, userVars, engVars, procVars,
         tailVars, pumpVars, bootVars
    <3>5. CASE InjectWrite
      BY <1>0, <3>5 DEF InjectWrite, Control, ResultPark, rowVars, userVars, engVars, procVars,
         tailVars, pumpVars, bootVars
    <3>6. CASE Kill
      BY <1>0, <3>6 DEF Kill, Control, ResultPark, rowVars, userVars, engVars, procVars, tailVars,
         pumpVars, bootVars
    <3>7. CASE StartLog
      BY <1>0, <3>7 DEF StartLog, Control, ResultPark, rowVars, userVars, engVars, procVars, tailVars,
         pumpVars, bootVars
    <3>8. CASE StartSpawn
      BY <1>0, <3>8 DEF StartSpawn, Control, ResultPark, rowVars, userVars, engVars, procVars, tailVars,
         pumpVars, bootVars
    <3>9. CASE StartPublish
      BY <1>0, <3>9 DEF StartPublish, Control, ResultPark, rowVars, userVars, engVars, procVars,
         tailVars, pumpVars, bootVars
    <3>10. CASE StartSidecar
      BY <1>0, <3>10 DEF StartSidecar, Control, ResultPark, rowVars, userVars, engVars, procVars,
         tailVars, pumpVars, bootVars
    <3>11. CASE BridgeInit
      BY <1>0, <3>11 DEF BridgeInit, Control, ResultPark, rowVars, userVars, engVars, procVars,
         tailVars, pumpVars, bootVars
    <3>12. CASE BridgeResult
      BY <1>0, <3>12 DEF BridgeResult, Control, ResultPark, rowVars, userVars, engVars, procVars,
         tailVars, pumpVars, bootVars
    <3>13. CASE BridgeThrow
      BY <1>0, <3>13 DEF BridgeThrow, Control, ResultPark, rowVars, userVars, engVars, procVars,
         tailVars, pumpVars, bootVars
    <3>14. CASE BridgeExit
      BY <1>0, <3>14 DEF BridgeExit, Control, ResultPark, rowVars, userVars, engVars, procVars,
         tailVars, pumpVars, bootVars
    <3>15. CASE OrphanResult
      BY <1>0, <3>15 DEF OrphanResult, Control, ResultPark, rowVars, userVars, engVars, procVars,
         tailVars, pumpVars, bootVars
    <3>16. CASE Poll
      BY <1>0, <3>16 DEF Poll, Control, ResultPark, rowVars, userVars, engVars, procVars, tailVars,
         pumpVars, bootVars
    <3>17. CASE PollFinal
      BY <1>0, <3>17 DEF PollFinal, Control, ResultPark, rowVars, userVars, engVars, procVars, tailVars,
         pumpVars, bootVars
    <3>18. CASE EventInit
      BY <1>0, <3>18 DEF EventInit, Control, ResultPark, rowVars, userVars, engVars, procVars, tailVars,
         pumpVars, bootVars
    <3>19. CASE ResultGet
      BY <1>0, <3>19 DEF ResultGet, Control, ResultPark, rowVars, userVars, engVars, procVars, tailVars,
         pumpVars, bootVars
    <3>20. CASE ResultPatch
      BY <1>0, <3>20 DEF ResultPatch, Control, ResultPark, rowVars, userVars, engVars, procVars,
         tailVars, pumpVars, bootVars
    <3>21. CASE ResultPark
      BY <1>0, <3>21 DEF ResultPark, Control, ResultPark, rowVars, userVars, engVars, procVars,
         tailVars, pumpVars, bootVars
    <3>22. CASE ExitBegin
      BY <1>0, <3>22 DEF ExitBegin, Control, ResultPark, rowVars, userVars, engVars, procVars, tailVars,
         pumpVars, bootVars
    <3>23. CASE ExitApply
      BY <1>0, <3>23 DEF ExitApply, FinalRow, Control, ResultPark, rowVars, userVars, engVars, procVars,
         tailVars, pumpVars, bootVars
    <3>24. CASE Stop
      BY <1>0, <3>24 DEF Stop, Control, ResultPark, rowVars, userVars, engVars, procVars, tailVars,
         pumpVars, bootVars
    <3>25. CASE Recover
      BY <1>0, <3>25 DEF Recover, Control, ResultPark, rowVars, userVars, engVars, procVars, tailVars,
         pumpVars, bootVars
    <3>26. CASE UNCHANGED vars
      BY <1>0, <3>26 DEF vars, Control, ResultPark, rowVars, userVars, engVars, procVars, tailVars,
         pumpVars, bootVars
    <3> QED
      BY <3>1, <3>2, <3>3, <3>4, <3>5, <3>6, <3>7, <3>8, <3>9, <3>10, <3>11,
         <3>12, <3>13, <3>14, <3>15, <3>16, <3>17, <3>18, <3>19, <3>20, <3>21,
         <3>22, <3>23, <3>24, <3>25, <3>26 DEF Next, PumpStep
  <2>2. "listen" \in Live
    BY DEF Live
  <2> QED BY <1>2, <1>5, <2>1, <2>2 DEF Announced
<1>8. exit' # "none" => \A i \in Results' : i > read' => log'[i].turn < turns'
  <2> SUFFICES ASSUME exit' # "none", NEW i \in Results', i > read' PROVE log'[i].turn < turns'
    OBVIOUS
  <2>1. CASE InjectLog \/ StartLog
    <3>1. Results' = Results /\ turns' = turns + 1 /\ log'[i] = log[i]
      BY <1>2, <2>1, OldLines DEF Writes
    <3> QED BY <1>0, <3>1 DEF Turn
  <2>2. CASE PollFinal
    <3>1. read' = Len(log) /\ log' = log
      BY <2>2 DEF PollFinal
    <3> QED BY <1>0, <3>1 DEF Results
  <2>3. CASE OrphanResult
    <3>1. exit # "none" /\ read' = read /\ turns' = turns /\ orphan # <<>>
      BY <2>3 DEF OrphanResult, tailVars, userVars
    <3>2. CASE i \in Results
      BY <3>1, <3>2, OldLines DEF Announced
    <3>3. CASE i = Len(log) + 1
      <4>1. hpc # "off"
        BY <1>0, <3>1 DEF Control
      <4>2. Head(orphan) < turns
        BY <1>0, <3>1, <4>1, Shifts, Sizes DEF Order
      <4>3. log'[i].turn = Head(orphan)
        BY <1>0, <2>3, <3>3, LogStep DEF Writes, Line
      <4> QED BY <3>1, <4>2, <4>3
    <3>4. Results' = Results \cup {Len(log) + 1}
      BY <1>0, <2>3, LogStep DEF Writes
    <3> QED BY <3>2, <3>3, <3>4
  <2>4. CASE exit' = exit /\ read' = read /\ turns' = turns /\ Results' = Results
    BY <2>4, OldLines DEF Announced
  <2>5. \/ InjectLog \/ StartLog \/ PollFinal \/ OrphanResult
        \/ (exit' = exit /\ read' = read /\ turns' = turns /\ ~BridgeResult /\ ~BridgeThrow)
    <3>1. CASE FollowUpQueued
      BY <1>0, <3>1 DEF FollowUpQueued, BridgeResult, BridgeThrow, Control, rowVars, userVars, engVars,
         procVars, tailVars, pumpVars, bootVars
    <3>2. CASE InjectBegin
      BY <1>0, <3>2 DEF InjectBegin, BridgeResult, BridgeThrow, Control, rowVars, userVars, engVars,
         procVars, tailVars, pumpVars, bootVars
    <3>3. CASE InjectLog
      BY <3>3
    <3>4. CASE InjectState
      BY <1>0, <3>4 DEF InjectState, BridgeResult, BridgeThrow, Control, rowVars, userVars, engVars,
         procVars, tailVars, pumpVars, bootVars
    <3>5. CASE InjectWrite
      BY <1>0, <3>5 DEF InjectWrite, BridgeResult, BridgeThrow, Control, rowVars, userVars, engVars,
         procVars, tailVars, pumpVars, bootVars
    <3>6. CASE Kill
      BY <1>0, <3>6 DEF Kill, BridgeResult, BridgeThrow, Control, rowVars, userVars, engVars, procVars,
         tailVars, pumpVars, bootVars
    <3>7. CASE StartLog
      BY <3>7
    <3>8. CASE StartSpawn
      BY <1>0, <3>8 DEF StartSpawn, BridgeResult, BridgeThrow, Control, rowVars, userVars, engVars,
         procVars, tailVars, pumpVars, bootVars
    <3>9. CASE StartPublish
      BY <1>0, <3>9 DEF StartPublish, BridgeResult, BridgeThrow, Control, rowVars, userVars, engVars,
         procVars, tailVars, pumpVars, bootVars
    <3>10. CASE StartSidecar
      BY <1>0, <3>10 DEF StartSidecar, BridgeResult, BridgeThrow, Control, rowVars, userVars, engVars,
         procVars, tailVars, pumpVars, bootVars
    <3>11. CASE BridgeInit
      BY <1>0, <3>11 DEF BridgeInit, BridgeResult, BridgeThrow, Control, rowVars, userVars, engVars,
         procVars, tailVars, pumpVars, bootVars
    <3>12. CASE BridgeResult
      BY <1>0, <3>12 DEF BridgeResult, BridgeResult, BridgeThrow, Control, rowVars, userVars, engVars,
         procVars, tailVars, pumpVars, bootVars
    <3>13. CASE BridgeThrow
      BY <1>0, <3>13 DEF BridgeThrow, BridgeResult, BridgeThrow, Control, rowVars, userVars, engVars,
         procVars, tailVars, pumpVars, bootVars
    <3>14. CASE BridgeExit
      BY <1>0, <3>14 DEF BridgeExit, BridgeResult, BridgeThrow, Control, rowVars, userVars, engVars,
         procVars, tailVars, pumpVars, bootVars
    <3>15. CASE OrphanResult
      BY <3>15
    <3>16. CASE Poll
      BY <1>0, <3>16 DEF Poll, BridgeResult, BridgeThrow, Control, rowVars, userVars, engVars, procVars,
         tailVars, pumpVars, bootVars
    <3>17. CASE PollFinal
      BY <3>17
    <3>18. CASE EventInit
      BY <1>0, <3>18 DEF EventInit, BridgeResult, BridgeThrow, Control, rowVars, userVars, engVars,
         procVars, tailVars, pumpVars, bootVars
    <3>19. CASE ResultGet
      BY <1>0, <3>19 DEF ResultGet, BridgeResult, BridgeThrow, Control, rowVars, userVars, engVars,
         procVars, tailVars, pumpVars, bootVars
    <3>20. CASE ResultPatch
      BY <1>0, <3>20 DEF ResultPatch, BridgeResult, BridgeThrow, Control, rowVars, userVars, engVars,
         procVars, tailVars, pumpVars, bootVars
    <3>21. CASE ResultPark
      BY <1>0, <3>21 DEF ResultPark, BridgeResult, BridgeThrow, Control, rowVars, userVars, engVars,
         procVars, tailVars, pumpVars, bootVars
    <3>22. CASE ExitBegin
      BY <1>0, <3>22 DEF ExitBegin, BridgeResult, BridgeThrow, Control, rowVars, userVars, engVars,
         procVars, tailVars, pumpVars, bootVars
    <3>23. CASE ExitApply
      BY <1>0, <3>23 DEF ExitApply, FinalRow, BridgeResult, BridgeThrow, Control, rowVars, userVars,
         engVars, procVars, tailVars, pumpVars, bootVars
    <3>24. CASE Stop
      BY <1>0, <3>24 DEF Stop, BridgeResult, BridgeThrow, Control, rowVars, userVars, engVars, procVars,
         tailVars, pumpVars, bootVars
    <3>25. CASE Recover
      BY <1>0, <3>25 DEF Recover, BridgeResult, BridgeThrow, Control, rowVars, userVars, engVars,
         procVars, tailVars, pumpVars, bootVars
    <3>26. CASE UNCHANGED vars
      BY <1>0, <3>26 DEF vars, BridgeResult, BridgeThrow, Control, rowVars, userVars, engVars, procVars,
         tailVars, pumpVars, bootVars
    <3> QED
      BY <3>1, <3>2, <3>3, <3>4, <3>5, <3>6, <3>7, <3>8, <3>9, <3>10, <3>11,
         <3>12, <3>13, <3>14, <3>15, <3>16, <3>17, <3>18, <3>19, <3>20, <3>21,
         <3>22, <3>23, <3>24, <3>25, <3>26 DEF Next, PumpStep
  <2> QED BY <2>1, <2>2, <2>3, <2>4, <2>5, WaitStep
<1>9. spc' = "spawn" => \A i \in 1..Len(pushes') : pushes'[i] < turns'
  <2>1. CASE StartLog
    <3>1. \A i \in 1..Len(pushes) : pushes[i] \in Turn
      BY <1>0, ElementOfSeq DEF TypeOK
    <3>2. pushes' = pushes /\ turns' = turns + 1
      BY <2>1 DEF StartLog
    <3> QED BY <1>0, <3>1, <3>2 DEF Turn
  <2>2. spc' # "spawn" \/ StartLog \/ (spc = "spawn" /\ pushes' = pushes /\ turns' = turns)
    <3>1. CASE FollowUpQueued
      BY <1>0, <3>1 DEF FollowUpQueued, Control, rowVars, userVars, engVars, procVars, tailVars,
         pumpVars, bootVars
    <3>2. CASE InjectBegin
      BY <1>0, <3>2 DEF InjectBegin, Control, rowVars, userVars, engVars, procVars, tailVars, pumpVars,
         bootVars
    <3>3. CASE InjectLog
      BY <1>0, <3>3 DEF InjectLog, Control, rowVars, userVars, engVars, procVars, tailVars, pumpVars,
         bootVars
    <3>4. CASE InjectState
      BY <1>0, <3>4 DEF InjectState, Control, rowVars, userVars, engVars, procVars, tailVars, pumpVars,
         bootVars
    <3>5. CASE InjectWrite
      BY <1>0, <3>5 DEF InjectWrite, Control, rowVars, userVars, engVars, procVars, tailVars, pumpVars,
         bootVars
    <3>6. CASE Kill
      BY <1>0, <3>6 DEF Kill, Control, rowVars, userVars, engVars, procVars, tailVars, pumpVars, bootVars
    <3>7. CASE StartLog
      BY <3>7
    <3>8. CASE StartSpawn
      BY <1>0, <3>8 DEF StartSpawn, Control, rowVars, userVars, engVars, procVars, tailVars, pumpVars,
         bootVars
    <3>9. CASE StartPublish
      BY <1>0, <3>9 DEF StartPublish, Control, rowVars, userVars, engVars, procVars, tailVars, pumpVars,
         bootVars
    <3>10. CASE StartSidecar
      BY <1>0, <3>10 DEF StartSidecar, Control, rowVars, userVars, engVars, procVars, tailVars,
         pumpVars, bootVars
    <3>11. CASE BridgeInit
      BY <1>0, <3>11 DEF BridgeInit, Control, rowVars, userVars, engVars, procVars, tailVars, pumpVars,
         bootVars
    <3>12. CASE BridgeResult
      BY <1>0, <3>12 DEF BridgeResult, Control, rowVars, userVars, engVars, procVars, tailVars,
         pumpVars, bootVars
    <3>13. CASE BridgeThrow
      BY <1>0, <3>13 DEF BridgeThrow, Control, rowVars, userVars, engVars, procVars, tailVars, pumpVars,
         bootVars
    <3>14. CASE BridgeExit
      BY <1>0, <3>14 DEF BridgeExit, Control, rowVars, userVars, engVars, procVars, tailVars, pumpVars,
         bootVars
    <3>15. CASE OrphanResult
      BY <1>0, <3>15 DEF OrphanResult, Control, rowVars, userVars, engVars, procVars, tailVars,
         pumpVars, bootVars
    <3>16. CASE Poll
      BY <1>0, <3>16 DEF Poll, Control, rowVars, userVars, engVars, procVars, tailVars, pumpVars, bootVars
    <3>17. CASE PollFinal
      BY <1>0, <3>17 DEF PollFinal, Control, rowVars, userVars, engVars, procVars, tailVars, pumpVars,
         bootVars
    <3>18. CASE EventInit
      BY <1>0, <3>18 DEF EventInit, Control, rowVars, userVars, engVars, procVars, tailVars, pumpVars,
         bootVars
    <3>19. CASE ResultGet
      BY <1>0, <3>19 DEF ResultGet, Control, rowVars, userVars, engVars, procVars, tailVars, pumpVars,
         bootVars
    <3>20. CASE ResultPatch
      BY <1>0, <3>20 DEF ResultPatch, Control, rowVars, userVars, engVars, procVars, tailVars, pumpVars,
         bootVars
    <3>21. CASE ResultPark
      BY <1>0, <3>21 DEF ResultPark, Control, rowVars, userVars, engVars, procVars, tailVars, pumpVars,
         bootVars
    <3>22. CASE ExitBegin
      BY <1>0, <3>22 DEF ExitBegin, Control, rowVars, userVars, engVars, procVars, tailVars, pumpVars,
         bootVars
    <3>23. CASE ExitApply
      BY <1>0, <3>23 DEF ExitApply, FinalRow, Control, rowVars, userVars, engVars, procVars, tailVars,
         pumpVars, bootVars
    <3>24. CASE Stop
      BY <1>0, <3>24 DEF Stop, Control, rowVars, userVars, engVars, procVars, tailVars, pumpVars, bootVars
    <3>25. CASE Recover
      BY <1>0, <3>25 DEF Recover, Control, rowVars, userVars, engVars, procVars, tailVars, pumpVars,
         bootVars
    <3>26. CASE UNCHANGED vars
      BY <1>0, <3>26 DEF vars, Control, rowVars, userVars, engVars, procVars, tailVars, pumpVars, bootVars
    <3> QED
      BY <3>1, <3>2, <3>3, <3>4, <3>5, <3>6, <3>7, <3>8, <3>9, <3>10, <3>11,
         <3>12, <3>13, <3>14, <3>15, <3>16, <3>17, <3>18, <3>19, <3>20, <3>21,
         <3>22, <3>23, <3>24, <3>25, <3>26 DEF Next, PumpStep
  <2> QED BY <2>1, <2>2 DEF Announced
<1> QED BY <1>1, <1>6, <1>7, <1>8, <1>9 DEF Announced

-----------------------------------------------------------------------------
(* What recover() decides. *)

\* The results after the last prompt marker are those of the last turn, while nothing raced.
LEMMA SinceTheLastTurn ==
    ASSUME Base, Markers, AfterLast
    PROVE  ResultsSince(turns) = ResultsOf(turns)
<1>0. /\ turns \in Nat /\ Len(log) \in Nat /\ \A i \in Results : i \in 1..Len(log)
      /\ \A i \in 1..Len(log) : log[i].turn \in Turn /\ log[i] = Line(log[i].kind, log[i].turn)
  BY WaitingFacts, LineType DEF Base
<1>1. ASSUME NEW i \in ResultsSince(turns) PROVE i \in ResultsOf(turns)
  <2>1. i \in Results
    BY DEF ResultsSince, Results
  <2>2. PICK j \in 1..i : log[j].kind = "prompt" /\ log[j].turn >= turns
    BY DEF ResultsSince
  <2>3. j \in 1..Len(log) /\ j # i
    BY <1>0, <2>1, <2>2 DEF Results, IsResult
  <2>4. log[j].turn = turns
    BY <1>0, <2>2, <2>3 DEF Turn
  <2>5. j < i /\ log[j] = Line("prompt", turns)
    BY <1>0, <2>1, <2>2, <2>3, <2>4
  <2> QED BY <2>1, <2>3, <2>5 DEF AfterLast, ResultsOf
<1>2. ASSUME NEW i \in ResultsOf(turns) PROVE i \in ResultsSince(turns)
  <2>1. i \in Results /\ log[i].turn = turns /\ i \in 1..Len(log) /\ IsResult(log[i])
    BY <1>0 DEF ResultsOf, Results
  <2>2. PICK j \in 1..Len(log) : j < i /\ log[j] = Line("prompt", turns)
    BY <2>1 DEF Markers
  <2>3. log[j].kind = "prompt" /\ log[j].turn = turns /\ j \in 1..i
    BY <2>1, <2>2 DEF Line
  <2>4. \A k \in j + 1 .. i : log[k].kind # "prompt"
    <3> SUFFICES ASSUME NEW k \in j + 1 .. i, log[k].kind = "prompt" PROVE FALSE
      OBVIOUS
    <3>1. k \in 1..Len(log) /\ j < k
      BY <1>0, <2>1, <2>2
    <3>2. log[j].turn < log[k].turn
      BY <2>3, <3>1 DEF Markers
    <3>3. log[k].turn \in Turn
      BY <1>0, <3>1
    <3> QED BY <1>0, <2>3, <3>2, <3>3 DEF Turn
  <2>5. log[j].turn >= turns
    BY <1>0, <2>3
  <2> QED BY <2>1, <2>3, <2>4, <2>5 DEF ResultsSince
<1> QED BY <1>1, <1>2

\* So the last of them tells whether the turn was answered.
LEMMA LastOutcomeOfTurn ==
    ASSUME Base, Markers, AfterLast, startedAt = turns
    PROVE  LastOutcome = "ok" <=> Answered(turns)
<1> DEFINE found == ResultsOf(turns)
<1>0. /\ Len(log) \in Nat /\ found \in SUBSET (1..Len(log))
      /\ \A i \in found : i \in Results /\ log[i].turn = turns /\ IsResult(log[i])
      /\ \A i \in 1..Len(log) : IsResult(log[i]) /\ log[i].turn = turns => i \in found
  BY WaitingFacts DEF ResultsOf, Results
<1>1. LastOutcome = IF found = {} THEN "none" ELSE log[Last(found)].kind
  BY SinceTheLastTurn DEF LastOutcome
<1>2. found # {} => Last(found) \in found /\ \A j \in found : j <= Last(found)
  <2> HIDE DEF found
  <2> QED BY <1>0, Greatest
<1>3. ASSUME LastOutcome = "ok" PROVE Answered(turns)
  <2>1. found # {} /\ log[Last(found)].kind = "ok"
    BY <1>1, <1>3
  <2>2. Last(found) \in 1..Len(log) /\ log[Last(found)] = Line("ok", turns)
    BY <1>0, <1>2, <2>1, LineType DEF Base
  <2>3. \A j \in Last(found) + 1 .. Len(log) : ~(IsResult(log[j]) /\ log[j].turn = turns)
    <3> SUFFICES ASSUME NEW j \in Last(found) + 1 .. Len(log), IsResult(log[j]), log[j].turn = turns
                 PROVE  FALSE
      OBVIOUS
    <3>1. j \in 1..Len(log) /\ j > Last(found)
      BY <1>0, <2>2
    <3>2. j <= Last(found)
      BY <1>0, <1>2, <2>1, <3>1
    <3> QED BY <1>0, <2>2, <3>1, <3>2
  <2> QED BY <2>2, <2>3 DEF Answered
<1>4. ASSUME Answered(turns) PROVE LastOutcome = "ok"
  <2>1. PICK i \in 1..Len(log) :
               /\ log[i] = Line("ok", turns)
               /\ \A j \in i + 1 .. Len(log) : ~(IsResult(log[j]) /\ log[j].turn = turns)
    BY <1>4 DEF Answered
  <2>2. i \in found /\ log[i].kind = "ok"
    BY <1>0, <2>1 DEF Line, IsResult
  <2>3. Last(found) \in found /\ i <= Last(found) /\ Last(found) \in 1..Len(log)
    BY <1>0, <1>2, <2>2
  <2>4. Last(found) = i
    <3>1. ~(Last(found) \in i + 1 .. Len(log))
      BY <1>0, <2>1, <2>3
    <3> QED BY <1>0, <2>3, <3>1
  <2> QED BY <1>1, <2>2, <2>4
<1> QED BY <1>3, <1>4

\* A fresh row is not recovered.
LEMMA RecoverInit == Init => RecoverHonest
BY DEF Init, RecoverHonest

\* recover() reads after the last prompt marker, and finds the results of the last turn
\* there.
LEMMA RecoverStep ==
    Base /\ Base' /\ Markers /\ OnlyLast /\ RecoverHonest /\ [Next]_vars => RecoverHonest'
<1> SUFFICES ASSUME Base, Base', Markers, OnlyLast, RecoverHonest, [Next]_vars,
                    recovered', status' \in {"done", "failed"}, startedAt' = turns', ~raced'
             PROVE  status' = "done" <=> Answered(turns)'
  BY DEF RecoverHonest
<1>0. Control /\ RowControl /\ Flags /\ Places
  BY TypeParts DEF Base
<1>1. CASE /\ recovered /\ status' = status /\ startedAt' = startedAt /\ ~raced /\ log' = log
           /\ turns' = turns
  BY <1>1 DEF RecoverHonest, Answered
<1>2. CASE Recover /\ status = "running"
  <2>1. /\ ~raced /\ log' = log /\ turns' = turns /\ startedAt = turns
        /\ status' = IF LastOutcome = "ok" THEN "done" ELSE "failed"
    BY <1>2 DEF Recover, userVars
  <2>2. LastOutcome = "ok" <=> Answered(turns)
    BY <2>1, LastOutcomeOfTurn DEF OnlyLast
  <2>3. Answered(turns)' <=> Answered(turns)
    BY <2>1 DEF Answered
  <2> QED BY <2>1, <2>2, <2>3
<1>3. \/ /\ recovered /\ status' = status /\ startedAt' = startedAt /\ ~raced /\ log' = log
         /\ turns' = turns
      \/ Recover /\ status = "running"
  <2>1. CASE FollowUpQueued
    BY <1>0, <2>1 DEF FollowUpQueued, Control, RowControl, Live, rowVars, userVars, engVars, procVars,
       tailVars, pumpVars, bootVars
  <2>2. CASE InjectBegin
    BY <1>0, <2>2 DEF InjectBegin, Control, RowControl, Live, rowVars, userVars, engVars, procVars,
       tailVars, pumpVars, bootVars
  <2>3. CASE InjectLog
    BY <1>0, <2>3 DEF InjectLog, Control, RowControl, Live, rowVars, userVars, engVars, procVars,
       tailVars, pumpVars, bootVars
  <2>4. CASE InjectState
    BY <1>0, <2>4 DEF InjectState, Control, RowControl, Live, rowVars, userVars, engVars, procVars,
       tailVars, pumpVars, bootVars
  <2>5. CASE InjectWrite
    BY <1>0, <2>5 DEF InjectWrite, Control, RowControl, Live, rowVars, userVars, engVars, procVars,
       tailVars, pumpVars, bootVars
  <2>6. CASE Kill
    BY <1>0, <2>6 DEF Kill, Control, RowControl, Live, Terminal, bootVars, userVars
  <2>7. CASE StartLog
    BY <1>0, <2>7 DEF StartLog, Control, RowControl, Live, rowVars, userVars, engVars, procVars,
       tailVars, pumpVars, bootVars
  <2>8. CASE StartSpawn
    BY <1>0, <2>8 DEF StartSpawn, Control, RowControl, Live, rowVars, userVars, engVars, procVars,
       tailVars, pumpVars, bootVars
  <2>9. CASE StartPublish
    BY <1>0, <2>9 DEF StartPublish, Control, RowControl, Live, rowVars, userVars, engVars, procVars,
       tailVars, pumpVars, bootVars
  <2>10. CASE StartSidecar
    BY <1>0, <2>10 DEF StartSidecar, Control, RowControl, Live, rowVars, userVars, engVars, procVars,
       tailVars, pumpVars, bootVars
  <2>11. CASE BridgeInit
    BY <1>0, <2>11 DEF BridgeInit, Control, RowControl, Live, rowVars, userVars, engVars, procVars,
       tailVars, pumpVars, bootVars
  <2>12. CASE BridgeResult
    BY <1>0, <2>12 DEF BridgeResult, Control, RowControl, Live, rowVars, userVars, engVars, procVars,
       tailVars, pumpVars, bootVars
  <2>13. CASE BridgeThrow
    BY <1>0, <2>13 DEF BridgeThrow, Control, RowControl, Live, rowVars, userVars, engVars, procVars,
       tailVars, pumpVars, bootVars
  <2>14. CASE BridgeExit
    BY <1>0, <2>14 DEF BridgeExit, Control, RowControl, Live, rowVars, userVars, engVars, procVars,
       tailVars, pumpVars, bootVars
  <2>15. CASE OrphanResult
    BY <2>15 DEF OrphanResult
  <2>16. CASE Poll
    BY <1>0, <2>16 DEF Poll, Control, RowControl, Live, rowVars, userVars, engVars, procVars, tailVars,
       pumpVars, bootVars
  <2>17. CASE PollFinal
    BY <1>0, <2>17 DEF PollFinal, Control, RowControl, Live, rowVars, userVars, engVars, procVars,
       tailVars, pumpVars, bootVars
  <2>18. CASE EventInit
    BY <1>0, <2>18 DEF EventInit, Control, RowControl, Live, rowVars, userVars, engVars, procVars,
       tailVars, pumpVars, bootVars
  <2>19. CASE ResultGet
    BY <1>0, <2>19 DEF ResultGet, Control, RowControl, Live, rowVars, userVars, engVars, procVars,
       tailVars, pumpVars, bootVars
  <2>20. CASE ResultPatch
    BY <1>0, <2>20 DEF ResultPatch, Control, RowControl, Live, rowVars, userVars, engVars, procVars,
       tailVars, pumpVars, bootVars
  <2>21. CASE ResultPark
    BY <1>0, <2>21 DEF ResultPark, Control, RowControl, Live, rowVars, userVars, engVars, procVars,
       tailVars, pumpVars, bootVars
  <2>22. CASE ExitBegin
    BY <1>0, <2>22 DEF ExitBegin, Control, RowControl, Live, rowVars, userVars, engVars, procVars,
       tailVars, pumpVars, bootVars
  <2>23. CASE ExitApply
    BY <1>0, <2>23 DEF ExitApply, FinalRow, Control, RowControl, Live, rowVars, userVars, engVars,
       procVars, tailVars, pumpVars, bootVars
  <2>24. CASE Stop
    BY <1>0, <2>24 DEF Stop, Control, RowControl, Live, rowVars, userVars, engVars, procVars, tailVars,
       pumpVars, bootVars
  <2>25. CASE Recover
    BY <1>0, <2>25 DEF Recover, userVars
  <2>26. CASE UNCHANGED vars
    BY <1>0, <2>26 DEF vars, Control, RowControl, Live, rowVars, userVars, engVars, procVars, tailVars,
       pumpVars, bootVars
  <2> QED
    BY <2>1, <2>2, <2>3, <2>4, <2>5, <2>6, <2>7, <2>8, <2>9, <2>10, <2>11,
       <2>12, <2>13, <2>14, <2>15, <2>16, <2>17, <2>18, <2>19, <2>20, <2>21,
       <2>22, <2>23, <2>24, <2>25, <2>26 DEF Next, PumpStep
<1> QED BY <1>1, <1>2, <1>3

-----------------------------------------------------------------------------
(* Theorems. *)

TurnInv ==
    /\ Base /\ Order /\ Markers /\ OnlyLast /\ Knows /\ Told /\ Final
    /\ RecoverHonest /\ Costs /\ Announced

\* Every reachable state satisfies the inductive invariant: for any number of messages and
\* stops.
THEOREM TurnInvariant == Spec => []TurnInv
<1>1. Init => TurnInv
  BY BaseInit, OrderInit, MarkersInit, OnlyLastInit, KnowsInit, ToldInit, FinalInit, RecoverInit,
     CostsInit, AnnouncedInit DEF TurnInv
<1>2. TurnInv /\ [Next]_vars => TurnInv'
  BY BaseStep, OrderStep, MarkersStep, OnlyLastStep, KnowsStep, ToldStep, FinalStep, RecoverStep,
     CostsStep, AnnouncedStep DEF TurnInv
<1> QED BY <1>1, <1>2, PTL DEF Spec

\* Every variable of the turns keeps its type (runtime.rs, submit.rs, spawn.rs,
\* recover.rs).
THEOREM TurnTypes == Spec => []TypeOK
<1>1. TurnInv => TypeOK
  BY DEF TurnInv, Base
<1> QED BY <1>1, TurnInvariant, PTL

\* on_exit (runtime.rs) marks the row `done` exactly if the last turn was answered without
\* an error, unless a message was injected into a turn in progress or an orphan wrote.
THEOREM OutcomeOfTheLastTurn == Spec => []OutcomeHonest
<1>1. TurnInv => OutcomeHonest
  BY DEF TurnInv, Final, Settled, OutcomeHonest
<1> QED BY <1>1, TurnInvariant, PTL

\* recover() (recover.rs) makes the row `done` exactly if the last turn was answered, when
\* the sidecar knows that turn.
THEOREM RecoveredOutcome == Spec => []RecoverHonest
<1>1. TurnInv => RecoverHonest
  BY DEF TurnInv
<1> QED BY <1>1, TurnInvariant, PTL

\* The finish-line push announces a turn once, by its result or by the exit (runtime.rs,
\* on_event and on_exit), or as often as the turn has results.
THEOREM PushedOnce == Spec => []PushOncePerTurn
<1>1. TurnInv => PushOncePerTurn
  <2> SUFFICES ASSUME TurnInv, NEW t \in Turn
               PROVE  Cardinality(Pushed(t)) <= 1 \/ Cardinality(Pushed(t)) <= Cardinality(ResultsOf(t))
    BY DEF PushOncePerTurn, Pushed, ResultsOf
  <2>1. ByResults(t) \/ ByExit(t)
    BY DEF TurnInv, Announced
  <2>2. /\ Cardinality(Pushed(t)) \in Nat /\ Cardinality(ResultsOf(t)) \in Nat
        /\ Cardinality(ResultsOf(t) \ Waiting) \in Nat
        /\ Cardinality(ResultsOf(t) \ Waiting) <= Cardinality(ResultsOf(t))
    BY ResultsOfFinite, PushedFinite, FS_CardinalityType DEF TurnInv
  <2> QED BY <2>1, <2>2 DEF ByResults, ByExit
<1> QED BY <1>1, TurnInvariant, PTL

\* A turn that ended, not stopped and not injected into, was announced.
THEOREM TurnAnnounced == Spec => []EveryTurnAnnounced
<1>1. TurnInv => EveryTurnAnnounced
  BY DEF TurnInv, Final, Settled, EveryTurnAnnounced
<1> QED BY <1>1, TurnInvariant, PTL

\* Without a stop, the cost counts every result of the session exactly once when the pump
\* task is over.
THEOREM CostOfEveryResult == Spec => []CostCountsEveryResult
<1>1. TurnInv => CostCountsEveryResult
  BY DEF TurnInv, Costs, Counted, Waiting, CostCountsEveryResult
<1> QED BY <1>1, TurnInvariant, PTL

-----------------------------------------------------------------------------
(* The transcript with two writers: NativeSync. *)

\* Where callers may be, and who holds the lock.
SyncPlaces ==
    /\ \A c \in Sender : pc[c] \notin {"kill", "count", "freeze", "flag"}
    /\ \A c \in Detacher : pc[c] \in {"idle", "kill", "count", "freeze", "flag"}
    /\ \A c \in Caller : pc[c] \in {"append", "mark", "bump"} => lock = c
    /\ torn <= crashes
    /\ terminal => row.det /\ \A c \in Caller : pc[c] = "idle"

\* Lines are numbered as they are written, each enters the transcript once.
Written ==
    /\ \A i \in Ids : made[i] # Unwritten <=> i <= Now
    /\ Len(native) <= Now /\ \A n \in 1..Len(native) : native[n] <= Now
    /\ \A c \in Caller : \A i \in batch[c].ids : i <= Now
    /\ \A i \in Ids : i > Now => rendered[i] = 0

\* A watermark counts lines of the transcript it was taken from.
Reached ==
    ~renewed =>
        /\ row.mark <= Len(native)
        /\ \A c \in Caller : seen[c].mark <= Len(native) /\ batch[c].total <= Len(native)

\* All lines of the transcript can be seen.
AllShown == \A n \in 1..Len(native) : Shown(native[n])

Seen ==
    missed = 0 /\ ~renewed =>
        /\ ~row.det => AllShown
        /\ \A c \in Sender : pc[c] \in {"mark", "bump", "clear"} => AllShown
        /\ \A c \in Detacher : pc[c] # "idle" => AllShown
        /\ \A c \in Sender : pc[c] = "append" =>
             \A n \in 1..Len(native) : Shown(native[n]) \/ native[n] \in batch[c].ids
        /\ \A n \in 1..Len(native) : n <= row.mark => Shown(native[n])

FromTerminal(i) == made[i][1] = "term"

\* No line of the terminal is above this watermark.
Covers(mark) == \A n \in 1..Len(native) : FromTerminal(native[n]) => n <= mark

Covered ==
    missed = 0 =>
        /\ ~row.det => Covers(row.mark)
        /\ \A c \in Sender :
             /\ pc[c] \in {"append", "mark"} => Covers(batch[c].total)
             /\ pc[c] \in {"bump", "clear"} => Covers(row.mark)
        /\ \A c \in Detacher :
             /\ pc[c] # "idle" => Covers(row.mark)
             /\ pc[c] \in {"kill", "count"} => Covers(seen[c].mark)
             /\ pc[c] = "freeze" => Covers(batch[c].total)

InFlight(i) == \E c \in Caller : pc[c] = "mark" /\ i \in batch[c].ids

Once ==
    missed = 0 =>
        /\ \A i \in Ids : FromTerminal(i) => rendered[i] <= 1 + torn
        /\ \A n \in 1..Len(native) :
             FromTerminal(native[n]) /\ n > row.mark /\ ~InFlight(native[n]) => rendered[native[n]] <= torn
        /\ \A c \in Caller : pc[c] = "append" =>
             \A i \in batch[c].ids : FromTerminal(i) => rendered[i] <= torn

-----------------------------------------------------------------------------
(* Types. *)

SyncRange ==
    /\ row \in SyncRow /\ process \in {"none", "turn", "stopping"}
    /\ present \in BOOLEAN /\ terminal \in BOOLEAN /\ renewed \in BOOLEAN
    /\ lock \in Caller \cup {None}

SyncFiles ==
    /\ native \in Seq(Ids) /\ rendered \in [Ids -> Nat]
    /\ made \in [Ids -> {Unwritten} \cup ({"own", "term"} \X Kind)]

SyncCalls ==
    /\ pc \in [Caller -> Place] /\ seen \in [Caller -> SyncRow] /\ began \in [Caller -> Instant]
    /\ exists \in [Caller -> BOOLEAN]
    /\ batch \in [Caller -> [ids : SUBSET Ids, total : Instant]]

SyncBounds ==
    /\ calls \in 0..MaxCalls /\ crashes \in 0..MaxCrashes
    /\ losses \in 0..MaxLoss /\ fresh \in 0..MaxFresh
    /\ torn \in 0..MaxCrashes /\ missed \in Nat

\* The type invariant, by what its variables belong to.
LEMMA SyncTypeParts == SyncTypeOK <=> SyncRange /\ SyncFiles /\ SyncCalls /\ SyncBounds
BY DEF SyncTypeOK, SyncRange, SyncFiles, SyncCalls, SyncBounds

\* The clock stays within the bound on the lines.
LEMMA NowRange ==
    ASSUME SyncFiles
    PROVE  Now \in 0..MaxLines /\ IsFiniteSet({ i \in Ids : made[i] # Unwritten }) /\ MaxLines \in Nat
<1>1. MaxLines \in Nat
  BY SyncAssumption DEF SyncAssumption
<1>2. IsFiniteSet(1..MaxLines) /\ Cardinality(1..MaxLines) = MaxLines
  BY <1>1, FS_Interval
<1>3. { i \in Ids : made[i] # Unwritten } \in SUBSET (1..MaxLines)
  BY DEF Ids
<1>4. IsFiniteSet({ i \in Ids : made[i] # Unwritten }) /\ Now <= MaxLines
  BY <1>2, <1>3, FS_Subset DEF Now
<1>5. Now \in Nat
  BY <1>4, FS_CardinalityType DEF Now
<1> QED BY <1>1, <1>4, <1>5

\* A line that is written is the next one, and all before it stay what they were.
LEMMA WriteStep ==
    ASSUME SyncFiles, Written, NEW w \in {"own", "term"}, NEW k \in Kind, Write(w, k)
    PROVE  /\ Now \in Nat /\ Now + 1 \in Ids /\ Now' = Now + 1
           /\ made'[Now + 1] = <<w, k>> /\ \A i \in Ids : i # Now + 1 => made'[i] = made[i]
           /\ made' \in [Ids -> {Unwritten} \cup ({"own", "term"} \X Kind)]
           /\ native' \in Seq(Ids) /\ Len(native') = Len(native) + 1
           /\ native'[Len(native) + 1] = Now + 1
           /\ \A n \in 1..Len(native) : native'[n] = native[n]
<1>1. Now \in Nat /\ Now + 1 \in Ids
  BY NowRange DEF Write, Ids
<1>2. /\ made'[Now + 1] = <<w, k>> /\ \A i \in Ids : i # Now + 1 => made'[i] = made[i]
      /\ made' \in [Ids -> {Unwritten} \cup ({"own", "term"} \X Kind)]
  BY <1>1 DEF Write, SyncFiles
<1>3. Now' = Now + 1
  <2> DEFINE W == { i \in Ids : made[i] # Unwritten }
  <2>1. Now + 1 \notin W /\ IsFiniteSet(W)
    BY <1>1, NowRange DEF Written
  <2>2. <<w, k>> # Unwritten
    BY DEF Unwritten, None
  <2>3. W' = W \cup {Now + 1}
    BY <1>1, <1>2, <2>2
  <2> QED BY <2>1, <2>3, FS_AddElement DEF Now
<1>4. /\ native' \in Seq(Ids) /\ Len(native') = Len(native) + 1
      /\ native'[Len(native) + 1] = Now + 1
      /\ \A n \in 1..Len(native) : native'[n] = native[n]
  BY <1>1, AppendProperties DEF Write, SyncFiles
<1> QED BY <1>1, <1>2, <1>3, <1>4

\* Nothing is written unless a step writes.
LEMMA SameNow == made' = made => Now' = Now
BY Zenon DEF Now

\* The row, the process, the lock and the flags stay in their ranges.
LEMMA SyncRangeStep == SyncTypeOK /\ Written /\ [SyncNext]_sync_vars => SyncRange'
<1> SUFFICES ASSUME SyncTypeOK, Written, [SyncNext]_sync_vars PROVE SyncRange'
  OBVIOUS
<1>0. SyncRange /\ SyncFiles /\ SyncCalls /\ SyncBounds /\ Now \in Instant
  BY SyncTypeParts, NowRange DEF Instant
<1>1. ASSUME NEW c \in Sender, FollowLive(c) PROVE  SyncRange'
  BY <1>0, <1>1 DEF FollowLive, Begin, Return, Caller, SyncRange, SyncCalls, SyncRow, Status, files, call_vars, bounds, history
<1>2. ASSUME NEW c \in Sender, FollowGet(c) PROVE  SyncRange'
  BY <1>0, <1>2 DEF FollowGet, Begin, Return, Caller, SyncRange, SyncCalls, SyncRow, Status, files, call_vars, bounds, history
<1>3. ASSUME NEW c \in Sender, RecGet(c) PROVE  SyncRange'
  BY <1>0, <1>3 DEF RecGet, Begin, Return, Caller, SyncRange, SyncCalls, SyncRow, Status, files, call_vars, bounds, history
<1>4. ASSUME NEW c \in Sender, RecLock(c) PROVE  SyncRange'
  BY <1>0, <1>4 DEF RecLock, Begin, Return, Caller, SyncRange, SyncCalls, SyncRow, Status, files, call_vars, bounds, history
<1>5. ASSUME NEW c \in Sender, RecAppend(c) PROVE  SyncRange'
  BY <1>0, <1>5 DEF RecAppend, Begin, Return, Caller, SyncRange, SyncCalls, SyncRow, Status, files, call_vars, bounds, history
<1>6. ASSUME NEW c \in Sender, RecMark(c) PROVE  SyncRange'
  BY <1>0, <1>6 DEF RecMark, Begin, Return, Caller, SyncRange, SyncCalls, SyncRow, Status, files, call_vars, bounds, history
<1>7. ASSUME NEW c \in Sender, RecBump(c) PROVE  SyncRange'
  <2>1. c \in Caller /\ seen[c] \in SyncRow /\ batch[c] \in [ids : SUBSET Ids, total : Instant]
    BY <1>0 DEF Caller, SyncCalls
  <2>2. row' \in SyncRow
    <3> DEFINE prompts == { i \in batch[c].ids : made[i][2] = "prompt" }
    <3> DEFINE newest == CHOOSE i \in prompts : \A j \in prompts : j <= i
    <3>1. CASE prompts # {}
      <4>1. \E i \in prompts : \A j \in prompts : j <= i
        BY <2>1, <3>1, NowRange, <1>0, Greatest DEF Ids
      <4>2. newest \in prompts
        BY <4>1, Zenon
      <4>3. newest \in Instant
        BY <2>1, <4>2 DEF Ids, Instant
      <4>4. row' = [row EXCEPT !.last = newest] \/ row' = row
        BY <1>7, Zenon DEF RecBump
      <4> QED BY <1>0, <4>3, <4>4 DEF SyncRange, SyncRow
    <3>2. CASE prompts = {}
      BY <1>0, <3>2, <1>7 DEF RecBump, SyncRange
    <3> QED BY <3>1, <3>2
  <2> QED BY <1>0, <2>2, <1>7 DEF RecBump, SyncRange, Caller, files, bounds, history
<1>8. ASSUME NEW c \in Sender, FollowClear(c) PROVE  SyncRange'
  BY <1>0, <1>8 DEF FollowClear, Begin, Return, Caller, SyncRange, SyncCalls, SyncRow, Status, files, call_vars, bounds, history
<1>9. ASSUME NEW c \in Sender, FollowQueue(c) PROVE  SyncRange'
  BY <1>0, <1>9 DEF FollowQueue, Begin, Return, Caller, SyncRange, SyncCalls, SyncRow, Status, files, call_vars, bounds, history
<1>10. ASSUME NEW c \in Detacher, DetachAgain(c) PROVE  SyncRange'
  BY <1>0, <1>10 DEF DetachAgain, Begin, Return, Caller, SyncRange, SyncCalls, SyncRow, Status, files, call_vars, bounds, history
<1>11. ASSUME NEW c \in Detacher, DetachGet(c) PROVE  SyncRange'
  BY <1>0, <1>11 DEF DetachGet, Begin, Return, Caller, SyncRange, SyncCalls, SyncRow, Status, files, call_vars, bounds, history
<1>12. ASSUME NEW c \in Detacher, DetachKill(c) PROVE  SyncRange'
  BY <1>0, <1>12 DEF DetachKill, Begin, Return, Caller, SyncRange, SyncCalls, SyncRow, Status, files, call_vars, bounds, history
<1>13. ASSUME NEW c \in Detacher, DetachCount(c) PROVE  SyncRange'
  BY <1>0, <1>13 DEF DetachCount, Begin, Return, Caller, SyncRange, SyncCalls, SyncRow, Status, files, call_vars, bounds, history
<1>14. ASSUME NEW c \in Detacher, DetachFreeze(c) PROVE  SyncRange'
  BY <1>0, <1>14 DEF DetachFreeze, Begin, Return, Caller, SyncRange, SyncCalls, SyncRow, Status, files, call_vars, bounds, history
<1>15. ASSUME NEW c \in Detacher, DetachFlag(c) PROVE  SyncRange'
  BY <1>0, <1>15 DEF DetachFlag, Begin, Return, Caller, SyncRange, SyncCalls, SyncRow, Status, files, call_vars, bounds, history
<1>16. CASE Start
  BY <1>0, <1>16 DEF Start, Begin, Return, Caller, SyncRange, SyncCalls, SyncRow, Status, files, call_vars, bounds, history
<1>17. CASE OwnWrite
  BY <1>0, <1>17 DEF OwnWrite, Begin, Return, Caller, SyncRange, SyncCalls, SyncRow, Status, files, call_vars, bounds, history
<1>18. CASE ProcEnd
  BY <1>0, <1>18 DEF ProcEnd, Begin, Return, Caller, SyncRange, SyncCalls, SyncRow, Status, files, call_vars, bounds, history
<1>19. CASE TerminalOpen
  BY <1>0, <1>19 DEF TerminalOpen, Begin, Return, Caller, SyncRange, SyncCalls, SyncRow, Status, files, call_vars, bounds, history
<1>20. CASE TerminalWrite
  BY <1>0, <1>20 DEF TerminalWrite, Begin, Return, Caller, SyncRange, SyncCalls, SyncRow, Status, files, call_vars, bounds, history
<1>21. CASE TerminalClose
  BY <1>0, <1>21 DEF TerminalClose, Begin, Return, Caller, SyncRange, SyncCalls, SyncRow, Status, files, call_vars, bounds, history
<1>22. CASE Move
  BY <1>0, <1>22 DEF Move, Begin, Return, Caller, SyncRange, SyncCalls, SyncRow, Status, files, call_vars, bounds, history
<1>23. CASE Crash
  BY <1>0, <1>23 DEF Crash, Begin, Return, Caller, SyncRange, SyncCalls, SyncRow, Status, files, call_vars, bounds, history
<1>24. CASE UNCHANGED sync_vars
  BY <1>0, <1>24 DEF sync_vars, Begin, Return, Caller, SyncRange, SyncCalls, SyncRow, Status, files, call_vars, bounds, history
<1> QED
  BY <1>1, <1>2, <1>3, <1>4, <1>5, <1>6, <1>7, <1>8, <1>9, <1>10, <1>11, <1>12, <1>13, <1>14, <1>15, <1>16, <1>17, <1>18, <1>19, <1>20, <1>21, <1>22, <1>23, <1>24, Zenon DEF SyncNext, FollowStep, DetachStep, ReconcileStep

\* So do the places of the calls and what they read.
LEMMA SyncCallsStep == SyncTypeOK /\ Written /\ [SyncNext]_sync_vars => SyncCalls'
<1> SUFFICES ASSUME SyncTypeOK, Written, [SyncNext]_sync_vars PROVE SyncCalls'
  OBVIOUS
<1>0. SyncRange /\ SyncFiles /\ SyncCalls /\ SyncBounds /\ Now \in Instant /\ 0 \in Instant /\ Blank \in SyncRow /\ NoBatch \in [ids : SUBSET Ids, total : Instant]
       /\ \A c \in Caller : exists[c] \in BOOLEAN
  BY SyncTypeParts, NowRange DEF Instant, SyncCalls, Blank, NoBatch, SyncRow, Status
<1>1. ASSUME NEW c \in Sender, FollowLive(c) PROVE  SyncCalls'
  BY <1>0, <1>1 DEF FollowLive, Begin, Return, Caller, SyncRange, SyncCalls, Place, files, call_vars, bounds, history, At, Goto
<1>2. ASSUME NEW c \in Sender, FollowGet(c) PROVE  SyncCalls'
  BY <1>0, <1>2 DEF FollowGet, Begin, Return, Caller, SyncRange, SyncCalls, Place, files, call_vars, bounds, history, At, Goto
<1>3. ASSUME NEW c \in Sender, RecGet(c) PROVE  SyncCalls'
  BY <1>0, <1>3 DEF RecGet, AfterImport, Begin, Return, Caller, SyncRange, SyncCalls, Place, files, call_vars, bounds, history, At, Goto
<1>4. ASSUME NEW c \in Sender, RecLock(c) PROVE  SyncCalls'
  <2>1. ReadFrom(row.mark) \in [ids : SUBSET Ids, total : Instant]
    <3>1. Len(native) \in Instant /\ \A n \in 1..Len(native) : native[n] \in Ids
      BY <1>0, NowRange DEF SyncFiles, Written, Instant
    <3>2. row.mark \in Nat
      BY <1>0 DEF SyncRange, SyncRow, Instant
    <3>3. { native[n] : n \in { m \in (row.mark + 1)..Len(native) : Renders(native[m]) } } \in SUBSET Ids
      BY <3>1, <3>2 DEF Instant
    <3> QED BY <1>0, <3>1, <3>3 DEF ReadFrom
  <2> QED BY <1>0, <2>1, <1>4 DEF RecLock, SyncCalls, SyncRange, Caller, Place, Goto, At
<1>5. ASSUME NEW c \in Sender, RecAppend(c) PROVE  SyncCalls'
  BY <1>0, <1>5 DEF RecAppend, Begin, Return, Caller, SyncRange, SyncCalls, Place, files, call_vars, bounds, history, At, Goto
<1>6. ASSUME NEW c \in Sender, RecMark(c) PROVE  SyncCalls'
  BY <1>0, <1>6 DEF RecMark, Begin, Return, Caller, SyncRange, SyncCalls, Place, files, call_vars, bounds, history, At, Goto
<1>7. ASSUME NEW c \in Sender, RecBump(c) PROVE  SyncCalls'
  BY <1>0, <1>7 DEF RecBump, AfterImport, Begin, Return, Caller, SyncRange, SyncCalls, Place, files, call_vars, bounds, history, At, Goto
<1>8. ASSUME NEW c \in Sender, FollowClear(c) PROVE  SyncCalls'
  BY <1>0, <1>8 DEF FollowClear, Begin, Return, Caller, SyncRange, SyncCalls, Place, files, call_vars, bounds, history, At, Goto
<1>9. ASSUME NEW c \in Sender, FollowQueue(c) PROVE  SyncCalls'
  BY <1>0, <1>9 DEF FollowQueue, Begin, Return, Caller, SyncRange, SyncCalls, Place, files, call_vars, bounds, history, At, Goto
<1>10. ASSUME NEW c \in Detacher, DetachAgain(c) PROVE  SyncCalls'
  BY <1>0, <1>10 DEF DetachAgain, Begin, Return, Caller, SyncRange, SyncCalls, Place, files, call_vars, bounds, history, At, Goto
<1>11. ASSUME NEW c \in Detacher, DetachGet(c) PROVE  SyncCalls'
  BY <1>0, <1>11 DEF DetachGet, Begin, Return, Caller, SyncRange, SyncCalls, Place, files, call_vars, bounds, history, At, Goto
<1>12. ASSUME NEW c \in Detacher, DetachKill(c) PROVE  SyncCalls'
  BY <1>0, <1>12 DEF DetachKill, Begin, Return, Caller, SyncRange, SyncCalls, Place, files, call_vars, bounds, history, At, Goto
<1>13. ASSUME NEW c \in Detacher, DetachCount(c) PROVE  SyncCalls'
  <2>1. Watermark(c) \in Instant
    <3>1. Len(native) \in Instant
      BY <1>0, NowRange DEF SyncFiles, Written, Instant
    <3>2. seen[c].mark \in Instant
      BY <1>0 DEF SyncCalls, SyncRow, Caller
    <3> QED BY <1>0, <3>1, <3>2 DEF Watermark, Larger, Instant
  <2>2. [batch[c] EXCEPT !.total = Watermark(c)] \in [ids : SUBSET Ids, total : Instant]
    BY <1>0, <2>1 DEF SyncCalls, Caller
  <2> QED BY <1>0, <2>2, <1>13 DEF DetachCount, SyncCalls, SyncRange, Caller, Place, Goto, At
<1>14. ASSUME NEW c \in Detacher, DetachFreeze(c) PROVE  SyncCalls'
  BY <1>0, <1>14 DEF DetachFreeze, Begin, Return, Caller, SyncRange, SyncCalls, Place, files, call_vars, bounds, history, At, Goto
<1>15. ASSUME NEW c \in Detacher, DetachFlag(c) PROVE  SyncCalls'
  BY <1>0, <1>15 DEF DetachFlag, Begin, Return, Caller, SyncRange, SyncCalls, Place, files, call_vars, bounds, history, At, Goto
<1>16. CASE Start
  BY <1>0, <1>16 DEF Start, Begin, Return, Caller, SyncRange, SyncCalls, Place, files, call_vars, bounds, history, At, Goto
<1>17. CASE OwnWrite
  BY <1>0, <1>17 DEF OwnWrite, Begin, Return, Caller, SyncRange, SyncCalls, Place, files, call_vars, bounds, history, At, Goto
<1>18. CASE ProcEnd
  BY <1>0, <1>18 DEF ProcEnd, Begin, Return, Caller, SyncRange, SyncCalls, Place, files, call_vars, bounds, history, At, Goto
<1>19. CASE TerminalOpen
  BY <1>0, <1>19 DEF TerminalOpen, Begin, Return, Caller, SyncRange, SyncCalls, Place, files, call_vars, bounds, history, At, Goto
<1>20. CASE TerminalWrite
  BY <1>0, <1>20 DEF TerminalWrite, Begin, Return, Caller, SyncRange, SyncCalls, Place, files, call_vars, bounds, history, At, Goto
<1>21. CASE TerminalClose
  BY <1>0, <1>21 DEF TerminalClose, Begin, Return, Caller, SyncRange, SyncCalls, Place, files, call_vars, bounds, history, At, Goto
<1>22. CASE Move
  BY <1>0, <1>22 DEF Move, Begin, Return, Caller, SyncRange, SyncCalls, Place, files, call_vars, bounds, history, At, Goto
<1>23. CASE Crash
  BY <1>0, <1>23 DEF Crash, Begin, Return, Caller, SyncRange, SyncCalls, Place, files, call_vars, bounds, history, At, Goto
<1>24. CASE UNCHANGED sync_vars
  BY <1>0, <1>24 DEF sync_vars, Begin, Return, Caller, SyncRange, SyncCalls, Place, files, call_vars, bounds, history, At, Goto
<1> QED
  BY <1>1, <1>2, <1>3, <1>4, <1>5, <1>6, <1>7, <1>8, <1>9, <1>10, <1>11, <1>12, <1>13, <1>14, <1>15, <1>16, <1>17, <1>18, <1>19, <1>20, <1>21, <1>22, <1>23, <1>24, Zenon DEF SyncNext, FollowStep, DetachStep, ReconcileStep

\* The files hold lines.
LEMMA SyncFilesStep == SyncTypeOK /\ Written /\ [SyncNext]_sync_vars => SyncFiles'
<1> SUFFICES ASSUME SyncTypeOK, Written, [SyncNext]_sync_vars PROVE SyncFiles'
  OBVIOUS
<1>0. SyncRange /\ SyncFiles /\ SyncCalls /\ <<>> \in Seq(Ids)
  BY SyncTypeParts
<1>1. ASSUME NEW c \in Sender, FollowLive(c) PROVE  SyncFiles'
  BY <1>0, <1>1, WriteStep DEF FollowLive, Shows, Kind, Begin, Return, SyncFiles, files, call_vars, bounds, history
<1>2. ASSUME NEW c \in Sender, FollowGet(c) PROVE  SyncFiles'
  BY <1>0, <1>2 DEF FollowGet, Begin, Return, SyncFiles, files, call_vars, bounds, history
<1>3. ASSUME NEW c \in Sender, RecGet(c) PROVE  SyncFiles'
  BY <1>0, <1>3 DEF RecGet, Begin, Return, SyncFiles, files, call_vars, bounds, history
<1>4. ASSUME NEW c \in Sender, RecLock(c) PROVE  SyncFiles'
  BY <1>0, <1>4 DEF RecLock, Begin, Return, SyncFiles, files, call_vars, bounds, history
<1>5. ASSUME NEW c \in Sender, RecAppend(c) PROVE  SyncFiles'
  BY <1>0, <1>5 DEF RecAppend, Shows, Begin, Return, SyncFiles, files, call_vars, bounds, history
<1>6. ASSUME NEW c \in Sender, RecMark(c) PROVE  SyncFiles'
  BY <1>0, <1>6 DEF RecMark, Begin, Return, SyncFiles, files, call_vars, bounds, history
<1>7. ASSUME NEW c \in Sender, RecBump(c) PROVE  SyncFiles'
  BY <1>0, <1>7 DEF RecBump, Begin, Return, SyncFiles, files, call_vars, bounds, history
<1>8. ASSUME NEW c \in Sender, FollowClear(c) PROVE  SyncFiles'
  BY <1>0, <1>8 DEF FollowClear, Begin, Return, SyncFiles, files, call_vars, bounds, history
<1>9. ASSUME NEW c \in Sender, FollowQueue(c) PROVE  SyncFiles'
  BY <1>0, <1>9 DEF FollowQueue, Begin, Return, SyncFiles, files, call_vars, bounds, history
<1>10. ASSUME NEW c \in Detacher, DetachAgain(c) PROVE  SyncFiles'
  BY <1>0, <1>10 DEF DetachAgain, Begin, Return, SyncFiles, files, call_vars, bounds, history
<1>11. ASSUME NEW c \in Detacher, DetachGet(c) PROVE  SyncFiles'
  BY <1>0, <1>11 DEF DetachGet, Begin, Return, SyncFiles, files, call_vars, bounds, history
<1>12. ASSUME NEW c \in Detacher, DetachKill(c) PROVE  SyncFiles'
  BY <1>0, <1>12 DEF DetachKill, Begin, Return, SyncFiles, files, call_vars, bounds, history
<1>13. ASSUME NEW c \in Detacher, DetachCount(c) PROVE  SyncFiles'
  BY <1>0, <1>13 DEF DetachCount, Begin, Return, SyncFiles, files, call_vars, bounds, history
<1>14. ASSUME NEW c \in Detacher, DetachFreeze(c) PROVE  SyncFiles'
  BY <1>0, <1>14 DEF DetachFreeze, Begin, Return, SyncFiles, files, call_vars, bounds, history
<1>15. ASSUME NEW c \in Detacher, DetachFlag(c) PROVE  SyncFiles'
  BY <1>0, <1>15 DEF DetachFlag, Begin, Return, SyncFiles, files, call_vars, bounds, history
<1>16. CASE Start
  BY <1>0, <1>16 DEF Start, Begin, Return, SyncFiles, files, call_vars, bounds, history
<1>17. CASE OwnWrite
  BY <1>0, <1>17, WriteStep DEF OwnWrite, Shows, Kind, Begin, Return, SyncFiles, files, call_vars, bounds, history
<1>18. CASE ProcEnd
  BY <1>0, <1>18 DEF ProcEnd, Begin, Return, SyncFiles, files, call_vars, bounds, history
<1>19. CASE TerminalOpen
  BY <1>0, <1>19 DEF TerminalOpen, Begin, Return, SyncFiles, files, call_vars, bounds, history
<1>20. CASE TerminalWrite
  BY <1>0, <1>20, WriteStep DEF TerminalWrite, Kind, Begin, Return, SyncFiles, files, call_vars, bounds, history
<1>21. CASE TerminalClose
  BY <1>0, <1>21 DEF TerminalClose, Begin, Return, SyncFiles, files, call_vars, bounds, history
<1>22. CASE Move
  BY <1>0, <1>22 DEF Move, Begin, Return, SyncFiles, files, call_vars, bounds, history
<1>23. CASE Crash
  BY <1>0, <1>23 DEF Crash, Begin, Return, SyncFiles, files, call_vars, bounds, history
<1>24. CASE UNCHANGED sync_vars
  BY <1>0, <1>24 DEF sync_vars, Begin, Return, SyncFiles, files, call_vars, bounds, history
<1> QED
  BY <1>1, <1>2, <1>3, <1>4, <1>5, <1>6, <1>7, <1>8, <1>9, <1>10, <1>11, <1>12, <1>13, <1>14, <1>15, <1>16, <1>17, <1>18, <1>19, <1>20, <1>21, <1>22, <1>23, <1>24, Zenon DEF SyncNext, FollowStep, DetachStep, ReconcileStep

\* One call at most is between its append and its watermark: the holder of the lock.
LEMMA OneMarks ==
    ASSUME SyncPlaces
    PROVE  LET M == { c \in Caller : At(c, "mark") /\ batch[c].ids # {} }
           IN  Cardinality(M) \in {0, 1} /\ (M # {} => Cardinality(M) = 1)
<1> DEFINE M == { c \in Caller : At(c, "mark") /\ batch[c].ids # {} }
<1>1. M = {} \/ M = {lock}
  BY DEF SyncPlaces, At
<1>2. Cardinality({}) = 0 /\ Cardinality({lock}) = 1
  BY FS_EmptySet, FS_Singleton
<1> QED BY <1>1, <1>2

\* The bounds hold.
LEMMA SyncBoundsStep == SyncTypeOK /\ SyncPlaces /\ [SyncNext]_sync_vars => SyncBounds'
<1> SUFFICES ASSUME SyncTypeOK, SyncPlaces, [SyncNext]_sync_vars PROVE SyncBounds'
  OBVIOUS
<1>0. SyncRange /\ SyncBounds /\ {MaxCalls, MaxCrashes, MaxLoss, MaxFresh} \subseteq Nat
  BY SyncTypeParts, SyncAssumption DEF SyncAssumption
<1>1. ASSUME NEW c \in Sender, FollowLive(c) PROVE  SyncBounds'
  BY <1>0, <1>1 DEF FollowLive, Begin, SyncBounds, call_vars, bounds, history
<1>2. ASSUME NEW c \in Sender, FollowGet(c) PROVE  SyncBounds'
  BY <1>0, <1>2 DEF FollowGet, Begin, SyncBounds, call_vars, bounds, history
<1>3. ASSUME NEW c \in Sender, RecGet(c) PROVE  SyncBounds'
  BY <1>0, <1>3 DEF RecGet, Begin, SyncBounds, call_vars, bounds, history
<1>4. ASSUME NEW c \in Sender, RecLock(c) PROVE  SyncBounds'
  BY <1>0, <1>4 DEF RecLock, Begin, SyncBounds, call_vars, bounds, history
<1>5. ASSUME NEW c \in Sender, RecAppend(c) PROVE  SyncBounds'
  BY <1>0, <1>5 DEF RecAppend, Begin, SyncBounds, call_vars, bounds, history
<1>6. ASSUME NEW c \in Sender, RecMark(c) PROVE  SyncBounds'
  BY <1>0, <1>6 DEF RecMark, Begin, SyncBounds, call_vars, bounds, history
<1>7. ASSUME NEW c \in Sender, RecBump(c) PROVE  SyncBounds'
  BY <1>0, <1>7 DEF RecBump, Begin, SyncBounds, call_vars, bounds, history
<1>8. ASSUME NEW c \in Sender, FollowClear(c) PROVE  SyncBounds'
  BY <1>0, <1>8 DEF FollowClear, Begin, SyncBounds, call_vars, bounds, history
<1>9. ASSUME NEW c \in Sender, FollowQueue(c) PROVE  SyncBounds'
  BY <1>0, <1>9 DEF FollowQueue, Begin, SyncBounds, call_vars, bounds, history
<1>10. ASSUME NEW c \in Detacher, DetachAgain(c) PROVE  SyncBounds'
  BY <1>0, <1>10 DEF DetachAgain, Begin, SyncBounds, call_vars, bounds, history
<1>11. ASSUME NEW c \in Detacher, DetachGet(c) PROVE  SyncBounds'
  BY <1>0, <1>11 DEF DetachGet, Begin, SyncBounds, call_vars, bounds, history
<1>12. ASSUME NEW c \in Detacher, DetachKill(c) PROVE  SyncBounds'
  BY <1>0, <1>12 DEF DetachKill, Begin, SyncBounds, call_vars, bounds, history
<1>13. ASSUME NEW c \in Detacher, DetachCount(c) PROVE  SyncBounds'
  BY <1>0, <1>13 DEF DetachCount, Begin, SyncBounds, call_vars, bounds, history
<1>14. ASSUME NEW c \in Detacher, DetachFreeze(c) PROVE  SyncBounds'
  BY <1>0, <1>14 DEF DetachFreeze, Begin, SyncBounds, call_vars, bounds, history
<1>15. ASSUME NEW c \in Detacher, DetachFlag(c) PROVE  SyncBounds'
  BY <1>0, <1>15 DEF DetachFlag, Begin, SyncBounds, call_vars, bounds, history
<1>16. CASE Start
  BY <1>0, <1>16 DEF Start, Begin, SyncBounds, call_vars, bounds, history
<1>17. CASE OwnWrite
  BY <1>0, <1>17 DEF OwnWrite, Begin, SyncBounds, call_vars, bounds, history
<1>18. CASE ProcEnd
  BY <1>0, <1>18 DEF ProcEnd, Begin, SyncBounds, call_vars, bounds, history
<1>19. CASE TerminalOpen
  BY <1>0, <1>19 DEF TerminalOpen, Begin, SyncBounds, call_vars, bounds, history
<1>20. CASE TerminalWrite
  BY <1>0, <1>20 DEF TerminalWrite, Begin, SyncBounds, call_vars, bounds, history
<1>21. CASE TerminalClose
  BY <1>0, <1>21 DEF TerminalClose, Begin, SyncBounds, call_vars, bounds, history
<1>22. CASE Move
  BY <1>0, <1>22 DEF Move, Begin, SyncBounds, call_vars, bounds, history
<1>23. CASE Crash
  <2>1. torn' \in {torn, torn + 1}
    BY <1>0, <1>23, OneMarks DEF Crash, SyncBounds
  <2> QED BY <1>0, <2>1, <1>23 DEF Crash, SyncBounds, SyncPlaces
<1>24. CASE UNCHANGED sync_vars
  BY <1>0, <1>24 DEF sync_vars, Begin, SyncBounds, call_vars, bounds, history
<1> QED
  BY <1>1, <1>2, <1>3, <1>4, <1>5, <1>6, <1>7, <1>8, <1>9, <1>10, <1>11, <1>12, <1>13, <1>14, <1>15, <1>16, <1>17, <1>18, <1>19, <1>20, <1>21, <1>22, <1>23, <1>24, Zenon DEF SyncNext, FollowStep, DetachStep, ReconcileStep

\* Senders, detachers, the lock and the terminal keep out of each other's way.
LEMMA SyncPlacesStep == SyncTypeOK /\ SyncPlaces /\ [SyncNext]_sync_vars => SyncPlaces'
<1> SUFFICES ASSUME SyncTypeOK, SyncPlaces, [SyncNext]_sync_vars PROVE SyncPlaces'
  OBVIOUS
<1>0. SyncRange /\ SyncCalls /\ SyncBounds /\ SyncPlaces /\ None \notin Caller /\ Sender \cap Detacher = {}
       /\ (\A c \in Sender : c \notin Detacher) /\ torn \in Nat /\ crashes \in Nat
  BY SyncTypeParts, SyncAssumption DEF SyncAssumption, None, Caller, SyncBounds
<1>1. ASSUME NEW c \in Sender, FollowLive(c) PROVE  SyncPlaces'
  BY <1>0, <1>1 DEF FollowLive, At, Goto, Begin, Return, Idle, Caller, SyncCalls, SyncRange, SyncRow, SyncPlaces, files, call_vars, bounds, history
<1>2. ASSUME NEW c \in Sender, FollowGet(c) PROVE  SyncPlaces'
  BY <1>0, <1>2 DEF FollowGet, At, Goto, Begin, Return, Idle, Caller, SyncCalls, SyncRange, SyncRow, SyncPlaces, files, call_vars, bounds, history
<1>3. ASSUME NEW c \in Sender, RecGet(c) PROVE  SyncPlaces'
  BY <1>0, <1>3 DEF RecGet, AfterImport, At, Goto, Begin, Return, Idle, Caller, SyncCalls, SyncRange, SyncRow, SyncPlaces, files, call_vars, bounds, history
<1>4. ASSUME NEW c \in Sender, RecLock(c) PROVE  SyncPlaces'
  BY <1>0, <1>4 DEF RecLock, At, Goto, Begin, Return, Idle, Caller, SyncCalls, SyncRange, SyncRow, SyncPlaces, files, call_vars, bounds, history
<1>5. ASSUME NEW c \in Sender, RecAppend(c) PROVE  SyncPlaces'
  BY <1>0, <1>5 DEF RecAppend, At, Goto, Begin, Return, Idle, Caller, SyncCalls, SyncRange, SyncRow, SyncPlaces, files, call_vars, bounds, history
<1>6. ASSUME NEW c \in Sender, RecMark(c) PROVE  SyncPlaces'
  BY <1>0, <1>6 DEF RecMark, At, Goto, Begin, Return, Idle, Caller, SyncCalls, SyncRange, SyncRow, SyncPlaces, files, call_vars, bounds, history
<1>7. ASSUME NEW c \in Sender, RecBump(c) PROVE  SyncPlaces'
  BY <1>0, <1>7 DEF RecBump, AfterImport, At, Goto, Begin, Return, Idle, Caller, SyncCalls, SyncRange, SyncRow, SyncPlaces, files, call_vars, bounds, history
<1>8. ASSUME NEW c \in Sender, FollowClear(c) PROVE  SyncPlaces'
  BY <1>0, <1>8 DEF FollowClear, At, Goto, Begin, Return, Idle, Caller, SyncCalls, SyncRange, SyncRow, SyncPlaces, files, call_vars, bounds, history
<1>9. ASSUME NEW c \in Sender, FollowQueue(c) PROVE  SyncPlaces'
  BY <1>0, <1>9 DEF FollowQueue, At, Goto, Begin, Return, Idle, Caller, SyncCalls, SyncRange, SyncRow, SyncPlaces, files, call_vars, bounds, history
<1>10. ASSUME NEW c \in Detacher, DetachAgain(c) PROVE  SyncPlaces'
  BY <1>0, <1>10 DEF DetachAgain, At, Goto, Begin, Return, Idle, Caller, SyncCalls, SyncRange, SyncRow, SyncPlaces, files, call_vars, bounds, history
<1>11. ASSUME NEW c \in Detacher, DetachGet(c) PROVE  SyncPlaces'
  BY <1>0, <1>11 DEF DetachGet, At, Goto, Begin, Return, Idle, Caller, SyncCalls, SyncRange, SyncRow, SyncPlaces, files, call_vars, bounds, history
<1>12. ASSUME NEW c \in Detacher, DetachKill(c) PROVE  SyncPlaces'
  BY <1>0, <1>12 DEF DetachKill, At, Goto, Begin, Return, Idle, Caller, SyncCalls, SyncRange, SyncRow, SyncPlaces, files, call_vars, bounds, history
<1>13. ASSUME NEW c \in Detacher, DetachCount(c) PROVE  SyncPlaces'
  BY <1>0, <1>13 DEF DetachCount, At, Goto, Begin, Return, Idle, Caller, SyncCalls, SyncRange, SyncRow, SyncPlaces, files, call_vars, bounds, history
<1>14. ASSUME NEW c \in Detacher, DetachFreeze(c) PROVE  SyncPlaces'
  BY <1>0, <1>14 DEF DetachFreeze, At, Goto, Begin, Return, Idle, Caller, SyncCalls, SyncRange, SyncRow, SyncPlaces, files, call_vars, bounds, history
<1>15. ASSUME NEW c \in Detacher, DetachFlag(c) PROVE  SyncPlaces'
  BY <1>0, <1>15 DEF DetachFlag, At, Goto, Begin, Return, Idle, Caller, SyncCalls, SyncRange, SyncRow, SyncPlaces, files, call_vars, bounds, history
<1>16. CASE Start
  BY <1>0, <1>16 DEF Start, At, Goto, Begin, Return, Idle, Caller, SyncCalls, SyncRange, SyncRow, SyncPlaces, files, call_vars, bounds, history
<1>17. CASE OwnWrite
  BY <1>0, <1>17 DEF OwnWrite, At, Goto, Begin, Return, Idle, Caller, SyncCalls, SyncRange, SyncRow, SyncPlaces, files, call_vars, bounds, history
<1>18. CASE ProcEnd
  BY <1>0, <1>18 DEF ProcEnd, At, Goto, Begin, Return, Idle, Caller, SyncCalls, SyncRange, SyncRow, SyncPlaces, files, call_vars, bounds, history
<1>19. CASE TerminalOpen
  BY <1>0, <1>19 DEF TerminalOpen, At, Goto, Begin, Return, Idle, Caller, SyncCalls, SyncRange, SyncRow, SyncPlaces, files, call_vars, bounds, history
<1>20. CASE TerminalWrite
  BY <1>0, <1>20 DEF TerminalWrite, At, Goto, Begin, Return, Idle, Caller, SyncCalls, SyncRange, SyncRow, SyncPlaces, files, call_vars, bounds, history
<1>21. CASE TerminalClose
  BY <1>0, <1>21 DEF TerminalClose, At, Goto, Begin, Return, Idle, Caller, SyncCalls, SyncRange, SyncRow, SyncPlaces, files, call_vars, bounds, history
<1>22. CASE Move
  BY <1>0, <1>22 DEF Move, At, Goto, Begin, Return, Idle, Caller, SyncCalls, SyncRange, SyncRow, SyncPlaces, files, call_vars, bounds, history
<1>23. CASE Crash
  <2>1. torn' \in {torn, torn + 1}
    BY <1>0, <1>23, OneMarks DEF Crash, SyncBounds
  <2> QED BY <1>0, <2>1, <1>23 DEF Crash, SyncPlaces, Caller, SyncRange, SyncRow
<1>24. CASE UNCHANGED sync_vars
  BY <1>0, <1>24 DEF sync_vars, At, Goto, Begin, Return, Idle, Caller, SyncCalls, SyncRange, SyncRow, SyncPlaces, files, call_vars, bounds, history
<1> QED
  BY <1>1, <1>2, <1>3, <1>4, <1>5, <1>6, <1>7, <1>8, <1>9, <1>10, <1>11, <1>12, <1>13, <1>14, <1>15, <1>16, <1>17, <1>18, <1>19, <1>20, <1>21, <1>22, <1>23, <1>24, Zenon DEF SyncNext, FollowStep, DetachStep, ReconcileStep

\* A line enters the transcript, and perhaps the log, under the next identity.
LEMMA WrittenGrows ==
    ASSUME SyncTypeOK, Written, NEW w \in {"own", "term"}, NEW k \in Kind, Write(w, k),
           batch' = batch, rendered' = rendered \/ Shows({Now + 1})
    PROVE  Written'
<1>0. SyncFiles /\ SyncCalls /\ Now \in Nat /\ Len(native) \in Nat
  BY SyncTypeParts, NowRange DEF SyncFiles
<1>1. /\ Now + 1 \in Ids /\ Now' = Now + 1 /\ made'[Now + 1] = <<w, k>>
      /\ \A i \in Ids : i # Now + 1 => made'[i] = made[i]
      /\ Len(native') = Len(native) + 1 /\ native'[Len(native) + 1] = Now + 1
      /\ \A n \in 1..Len(native) : native'[n] = native[n]
  BY <1>0, WriteStep
<1>2. \A i \in Ids : made'[i] # Unwritten <=> i <= Now'
  BY <1>0, <1>1 DEF Written, Unwritten, None, Ids
<1>3. Len(native') <= Now' /\ \A n \in 1..Len(native') : native'[n] <= Now'
  <2>1. \A n \in 1..Len(native) : native[n] \in Nat /\ native[n] <= Now
    BY <1>0, ElementOfSeq DEF SyncFiles, Ids, Written
  <2>2. \A n \in 1..Len(native') : n \in 1..Len(native) \/ n = Len(native) + 1
    BY <1>0, <1>1
  <2>3. Len(native) <= Now
    BY DEF Written
  <2>4. \A n \in 1..Len(native') : native'[n] <= Now'
    <3> SUFFICES ASSUME NEW n \in 1..Len(native') PROVE native'[n] <= Now'
      OBVIOUS
    <3>1. CASE n \in 1..Len(native)
      BY <1>0, <1>1, <2>1, <3>1
    <3>2. CASE n = Len(native) + 1
      BY <1>0, <1>1, <3>2
    <3> QED BY <2>2, <3>1, <3>2
  <2> QED BY <1>0, <1>1, <2>3, <2>4
<1>4. \A c \in Caller : \A i \in batch'[c].ids : i <= Now'
  BY <1>0, <1>1 DEF Written, SyncCalls, Ids
<1>5. \A i \in Ids : i > Now' => rendered'[i] = 0
  <2> SUFFICES ASSUME NEW i \in Ids, i > Now' PROVE rendered'[i] = 0
    OBVIOUS
  <2>1. i > Now /\ i \notin {Now + 1}
    BY <1>0, <1>1 DEF Ids
  <2>2. rendered'[i] = rendered[i]
    BY <2>1 DEF Shows
  <2> QED BY <2>1, <2>2 DEF Written
<1> QED BY <1>2, <1>3, <1>4, <1>5 DEF Written

\* Lines enter the transcript as they are written.
LEMMA SyncWrittenStep == SyncTypeOK /\ Written /\ [SyncNext]_sync_vars => Written'
<1> SUFFICES ASSUME SyncTypeOK, Written, [SyncNext]_sync_vars PROVE Written'
  OBVIOUS
<1>0. SyncTypeOK /\ SyncRange /\ SyncFiles /\ SyncCalls /\ SyncBounds /\ Written /\ Now \in Nat /\ (made' = made => Now' = Now)
  BY SyncTypeParts, NowRange, SameNow
<1>1. ASSUME NEW c \in Sender, FollowLive(c) PROVE  Written'
  BY <1>0, <1>1, WrittenGrows DEF FollowLive, Kind, call_vars
<1>2. ASSUME NEW c \in Sender, FollowGet(c) PROVE  Written'
  BY <1>0, <1>2 DEF FollowGet, Begin, Return, Caller, SyncCalls, SyncFiles, Written, files, call_vars, bounds, history
<1>3. ASSUME NEW c \in Sender, RecGet(c) PROVE  Written'
  BY <1>0, <1>3 DEF RecGet, Begin, Return, Caller, SyncCalls, SyncFiles, Written, files, call_vars, bounds, history
<1>4. ASSUME NEW c \in Sender, RecLock(c) PROVE  Written'
  <2>1. \A i \in ReadFrom(row.mark).ids : i <= Now
    <3>1. row.mark \in Nat
      BY <1>0 DEF SyncRange, SyncRow, Instant
    <3>2. \A n \in (row.mark + 1)..Len(native) : native[n] <= Now
      BY <1>0, <3>1 DEF Written, SyncFiles
    <3> QED BY <3>2 DEF ReadFrom, NoBatch
  <2>2. \A d \in Caller : \A i \in batch'[d].ids : i <= Now
    BY <1>0, <2>1, <1>4 DEF RecLock, SyncCalls, Written
  <2> QED BY <1>0, <2>2, <1>4 DEF RecLock, Written, files
<1>5. ASSUME NEW c \in Sender, RecAppend(c) PROVE  Written'
  <2>1. \A i \in Ids : i > Now => rendered'[i] = 0
    <3> SUFFICES ASSUME NEW i \in Ids, i > Now PROVE rendered'[i] = 0
      OBVIOUS
    <3>1. i \notin batch[c].ids
      BY <1>0, NowRange DEF Written, Caller, Ids
    <3>2. rendered'[i] = rendered[i]
      BY <1>5, <3>1 DEF RecAppend, Shows
    <3> QED BY <3>2 DEF Written
  <2> QED BY <1>0, <2>1, <1>5 DEF RecAppend, Written
<1>6. ASSUME NEW c \in Sender, RecMark(c) PROVE  Written'
  BY <1>0, <1>6 DEF RecMark, Begin, Return, Caller, SyncCalls, SyncFiles, Written, files, call_vars, bounds, history
<1>7. ASSUME NEW c \in Sender, RecBump(c) PROVE  Written'
  BY <1>0, <1>7 DEF RecBump, Begin, Return, Caller, SyncCalls, SyncFiles, Written, files, call_vars, bounds, history
<1>8. ASSUME NEW c \in Sender, FollowClear(c) PROVE  Written'
  BY <1>0, <1>8 DEF FollowClear, Begin, Return, Caller, SyncCalls, SyncFiles, Written, files, call_vars, bounds, history
<1>9. ASSUME NEW c \in Sender, FollowQueue(c) PROVE  Written'
  BY <1>0, <1>9 DEF FollowQueue, NoBatch, Begin, Return, Caller, SyncCalls, SyncFiles, Written, files, call_vars, bounds, history
<1>10. ASSUME NEW c \in Detacher, DetachAgain(c) PROVE  Written'
  BY <1>0, <1>10 DEF DetachAgain, Begin, Return, Caller, SyncCalls, SyncFiles, Written, files, call_vars, bounds, history
<1>11. ASSUME NEW c \in Detacher, DetachGet(c) PROVE  Written'
  BY <1>0, <1>11 DEF DetachGet, Begin, Return, Caller, SyncCalls, SyncFiles, Written, files, call_vars, bounds, history
<1>12. ASSUME NEW c \in Detacher, DetachKill(c) PROVE  Written'
  BY <1>0, <1>12 DEF DetachKill, Begin, Return, Caller, SyncCalls, SyncFiles, Written, files, call_vars, bounds, history
<1>13. ASSUME NEW c \in Detacher, DetachCount(c) PROVE  Written'
  BY <1>0, <1>13 DEF DetachCount, Begin, Return, Caller, SyncCalls, SyncFiles, Written, files, call_vars, bounds, history
<1>14. ASSUME NEW c \in Detacher, DetachFreeze(c) PROVE  Written'
  BY <1>0, <1>14 DEF DetachFreeze, Begin, Return, Caller, SyncCalls, SyncFiles, Written, files, call_vars, bounds, history
<1>15. ASSUME NEW c \in Detacher, DetachFlag(c) PROVE  Written'
  BY <1>0, <1>15 DEF DetachFlag, NoBatch, Begin, Return, Caller, SyncCalls, SyncFiles, Written, files, call_vars, bounds, history
<1>16. CASE Start
  BY <1>0, <1>16 DEF Start, Begin, Return, Caller, SyncCalls, SyncFiles, Written, files, call_vars, bounds, history
<1>17. CASE OwnWrite
  BY <1>0, <1>17, WrittenGrows DEF OwnWrite, Kind, call_vars
<1>18. CASE ProcEnd
  BY <1>0, <1>18 DEF ProcEnd, Begin, Return, Caller, SyncCalls, SyncFiles, Written, files, call_vars, bounds, history
<1>19. CASE TerminalOpen
  BY <1>0, <1>19 DEF TerminalOpen, Begin, Return, Caller, SyncCalls, SyncFiles, Written, files, call_vars, bounds, history
<1>20. CASE TerminalWrite
  BY <1>0, <1>20, WrittenGrows DEF TerminalWrite, Kind, call_vars
<1>21. CASE TerminalClose
  BY <1>0, <1>21 DEF TerminalClose, Begin, Return, Caller, SyncCalls, SyncFiles, Written, files, call_vars, bounds, history
<1>22. CASE Move
  BY <1>0, <1>22 DEF Move, Begin, Return, Caller, SyncCalls, SyncFiles, Written, files, call_vars, bounds, history
<1>23. CASE Crash
  BY <1>0, <1>23 DEF Crash, NoBatch, Begin, Return, Caller, SyncCalls, SyncFiles, Written, files, call_vars, bounds, history
<1>24. CASE UNCHANGED sync_vars
  BY <1>0, <1>24 DEF sync_vars, Begin, Return, Caller, SyncCalls, SyncFiles, Written, files, call_vars, bounds, history
<1> QED
  BY <1>1, <1>2, <1>3, <1>4, <1>5, <1>6, <1>7, <1>8, <1>9, <1>10, <1>11, <1>12, <1>13, <1>14, <1>15, <1>16, <1>17, <1>18, <1>19, <1>20, <1>21, <1>22, <1>23, <1>24, Zenon DEF SyncNext, FollowStep, DetachStep, ReconcileStep

-----------------------------------------------------------------------------
(* What the clients see. *)

SyncBase == SyncTypeOK /\ SyncPlaces /\ Written /\ Reached

\* The transcript grows by an own line, which is shown, or by one of the terminal; it is left
\* as it is, or begun anew.
Grows(w) ==
    /\ Len(native') = Len(native) + 1 /\ native'[Len(native) + 1] = Now + 1
    /\ \A n \in 1..Len(native) : native'[n] = native[n]
    /\ Now + 1 \in Ids /\ made'[Now + 1][1] = w

\* What a step can do to the transcript and to what is shown of it.
LEMMA FileStep ==
    ASSUME SyncTypeOK, Written, [SyncNext]_sync_vars
    PROVE  /\ \A i \in Ids : i <= Now => made'[i] = made[i] /\ rendered'[i] >= rendered[i]
           /\ \/ native' = native
              \/ native' = <<>> /\ Start /\ renewed'
              \/ Grows("own") /\ rendered'[Now + 1] > 0 /\ ~TerminalWrite
              \/ Grows("term") /\ rendered' = rendered /\ TerminalWrite
<1>0. SyncFiles /\ SyncCalls /\ Now \in Nat /\ \A i \in Ids : rendered[i] \in Nat
  BY SyncTypeParts, NowRange DEF SyncFiles
<1> DEFINE Stay == \A i \in Ids : i <= Now => made'[i] = made[i] /\ rendered'[i] >= rendered[i]
<1>1. ASSUME made' = made, rendered' = rendered PROVE Stay
  BY <1>0, <1>1
<1>2. ASSUME NEW w \in {"own", "term"}, NEW k \in Kind, Write(w, k), rendered' = rendered \/ Shows({Now + 1})
      PROVE  Grows(w) /\ Stay /\ (Shows({Now + 1}) => rendered'[Now + 1] > 0)
  <2>1. Grows(w) /\ \A i \in Ids : i # Now + 1 => made'[i] = made[i]
    BY <1>2, <1>0, WriteStep DEF Grows
  <2>2. \A i \in Ids : i <= Now => i # Now + 1 /\ rendered'[i] = rendered[i]
    <3>1. \A i \in Ids : i <= Now => i # Now + 1
      BY <1>0 DEF Ids
    <3>2. CASE rendered' = rendered
      BY <3>1, <3>2
    <3>3. CASE Shows({Now + 1})
      BY <3>1, <3>3 DEF Shows
    <3> QED BY <1>2, <3>2, <3>3
  <2>3. Now + 1 \in Ids /\ rendered[Now + 1] \in Nat
    BY <2>1, <1>0 DEF Grows
  <2>4. Shows({Now + 1}) => rendered'[Now + 1] = rendered[Now + 1] + 1
    BY <2>3 DEF Shows
  <2> QED BY <1>0, <2>1, <2>2, <2>3, <2>4
<1>3. ASSUME NEW c \in Sender, RecAppend(c) PROVE Stay
  <2>1. made' = made /\ Shows(batch[c].ids)
    BY <1>3 DEF RecAppend
  <2>2. \A i \in Ids : rendered'[i] = rendered[i] \/ rendered'[i] = rendered[i] + 1
    BY <2>1 DEF Shows
  <2> QED BY <1>0, <2>1, <2>2
<1>4. ASSUME NEW c \in Sender, FollowLive(c) PROVE Grows("own") /\ Stay /\ rendered'[Now + 1] > 0
  BY <1>2, <1>4 DEF FollowLive, Kind
<1>5. CASE OwnWrite
  <2>1. Grows("own") /\ Stay /\ rendered'[Now + 1] > 0
    BY <1>2, <1>5 DEF OwnWrite, Kind
  <2>2. rendered' # rendered
    BY <1>0, <1>5, <2>1 DEF OwnWrite, Shows, Grows
  <2> QED BY <2>1, <2>2 DEF TerminalWrite
<1>6. CASE TerminalWrite
  BY <1>2, <1>6 DEF TerminalWrite, Kind
<1>7. ASSUME NEW c \in Sender, FollowLive(c) PROVE ~TerminalWrite
  BY <1>7 DEF FollowLive, TerminalWrite
<1> DEFINE Files ==
        \/ native' = native
        \/ native' = <<>> /\ Start /\ renewed'
        \/ Grows("own") /\ rendered'[Now + 1] > 0 /\ ~TerminalWrite
        \/ Grows("term") /\ rendered' = rendered /\ TerminalWrite
<1>8. Stay /\ Files
  <2>1. ASSUME NEW c \in Sender, FollowLive(c) PROVE  Stay /\ Files
    BY <2>1, <1>4, <1>7
  <2>2. ASSUME NEW c \in Sender, FollowGet(c) PROVE  Stay /\ Files
    BY <1>1, <2>2 DEF FollowGet, Begin, files
  <2>3. ASSUME NEW c \in Sender, RecGet(c) PROVE  Stay /\ Files
    BY <1>1, <2>3 DEF RecGet, Begin, files
  <2>4. ASSUME NEW c \in Sender, RecLock(c) PROVE  Stay /\ Files
    BY <1>1, <2>4 DEF RecLock, Begin, files
  <2>5. ASSUME NEW c \in Sender, RecAppend(c) PROVE  Stay /\ Files
    BY <1>3, <2>5 DEF RecAppend
  <2>6. ASSUME NEW c \in Sender, RecMark(c) PROVE  Stay /\ Files
    BY <1>1, <2>6 DEF RecMark, Begin, files
  <2>7. ASSUME NEW c \in Sender, RecBump(c) PROVE  Stay /\ Files
    BY <1>1, <2>7 DEF RecBump, Begin, files
  <2>8. ASSUME NEW c \in Sender, FollowClear(c) PROVE  Stay /\ Files
    BY <1>1, <2>8 DEF FollowClear, Begin, files
  <2>9. ASSUME NEW c \in Sender, FollowQueue(c) PROVE  Stay /\ Files
    BY <1>1, <2>9 DEF FollowQueue, Begin, files
  <2>10. ASSUME NEW c \in Detacher, DetachAgain(c) PROVE  Stay /\ Files
    BY <1>1, <2>10 DEF DetachAgain, Begin, files
  <2>11. ASSUME NEW c \in Detacher, DetachGet(c) PROVE  Stay /\ Files
    BY <1>1, <2>11 DEF DetachGet, Begin, files
  <2>12. ASSUME NEW c \in Detacher, DetachKill(c) PROVE  Stay /\ Files
    BY <1>1, <2>12 DEF DetachKill, Begin, files
  <2>13. ASSUME NEW c \in Detacher, DetachCount(c) PROVE  Stay /\ Files
    BY <1>1, <2>13 DEF DetachCount, Begin, files
  <2>14. ASSUME NEW c \in Detacher, DetachFreeze(c) PROVE  Stay /\ Files
    BY <1>1, <2>14 DEF DetachFreeze, Begin, files
  <2>15. ASSUME NEW c \in Detacher, DetachFlag(c) PROVE  Stay /\ Files
    BY <1>1, <2>15 DEF DetachFlag, Begin, files
  <2>16. CASE Start
    BY <1>1, <2>16 DEF Start, Begin, files
  <2>17. CASE OwnWrite
    BY <1>5, <2>17
  <2>18. CASE ProcEnd
    BY <1>1, <2>18 DEF ProcEnd, Begin, files
  <2>19. CASE TerminalOpen
    BY <1>1, <2>19 DEF TerminalOpen, Begin, files
  <2>20. CASE TerminalWrite
    BY <1>6, <2>20
  <2>21. CASE TerminalClose
    BY <1>1, <2>21 DEF TerminalClose, Begin, files
  <2>22. CASE Move
    BY <1>1, <2>22 DEF Move, Begin, files
  <2>23. CASE Crash
    BY <1>1, <2>23 DEF Crash, Begin, files
  <2>24. CASE UNCHANGED sync_vars
    BY <1>1, <2>24 DEF sync_vars, Begin, files
  <2> QED
    BY <2>1, <2>2, <2>3, <2>4, <2>5, <2>6, <2>7, <2>8, <2>9, <2>10, <2>11, <2>12, <2>13, <2>14, <2>15, <2>16, <2>17, <2>18, <2>19, <2>20, <2>21, <2>22, <2>23, <2>24, Zenon DEF SyncNext, FollowStep, DetachStep, ReconcileStep
<1> QED BY <1>8

\* No watermark is ahead of the transcript it was taken from.
LEMMA ReachedStep == SyncTypeOK /\ Written /\ Reached /\ [SyncNext]_sync_vars => Reached'
<1> SUFFICES ASSUME SyncTypeOK, Written, Reached, [SyncNext]_sync_vars PROVE Reached'
  OBVIOUS
<1>0. SyncRange /\ SyncFiles /\ SyncCalls /\ Len(native) \in Nat /\ row.mark \in Nat
       /\ (\A c \in Caller : seen[c].mark \in Nat /\ batch[c].total \in Nat)
       /\ (native' = native \/ renewed' \/ Len(native') = Len(native) + 1)
       /\ (renewed' \/ ~renewed)
  <2>1. SyncRange /\ SyncFiles /\ SyncCalls /\ Len(native) \in Nat
    BY SyncTypeParts DEF SyncFiles
  <2>2. renewed' \/ ~renewed
    BY <2>1 DEF SyncNext, FollowStep, DetachStep, ReconcileStep, FollowLive, FollowGet, RecGet, RecLock, RecAppend, RecMark, RecBump, FollowClear, FollowQueue, DetachAgain, DetachGet, DetachKill, DetachCount, DetachFreeze, DetachFlag, Start, OwnWrite, ProcEnd, TerminalOpen, TerminalWrite, TerminalClose, Move, Crash, sync_vars, history, Begin
  <2> QED BY <2>1, <2>2, FileStep DEF Grows, SyncRange, SyncCalls, SyncRow, Instant
<1>1. ASSUME NEW c \in Sender, FollowLive(c) PROVE  Reached'
  BY <1>0, <1>1 DEF FollowLive, Begin, Return, Blank, NoBatch, Caller, SyncRange, SyncRow, SyncCalls, Reached, files, call_vars, bounds, history
<1>2. ASSUME NEW c \in Sender, FollowGet(c) PROVE  Reached'
  BY <1>0, <1>2 DEF FollowGet, Begin, Return, Blank, NoBatch, Caller, SyncRange, SyncRow, SyncCalls, Reached, files, call_vars, bounds, history
<1>3. ASSUME NEW c \in Sender, RecGet(c) PROVE  Reached'
  BY <1>0, <1>3 DEF RecGet, Begin, Return, Blank, NoBatch, Caller, SyncRange, SyncRow, SyncCalls, Reached, files, call_vars, bounds, history
<1>4. ASSUME NEW c \in Sender, RecLock(c) PROVE  Reached'
  <2>1. ReadFrom(row.mark).total \in {0, Len(native)}
    BY DEF ReadFrom, NoBatch
  <2>2. \A d \in Caller : /\ seen'[d] \in {seen[d], row}
                          /\ batch'[d] \in {batch[d], ReadFrom(row.mark)}
    BY <1>0, <1>4 DEF RecLock, SyncCalls
  <2> QED BY <1>0, <2>1, <2>2, <1>4 DEF RecLock, Reached, files, history
<1>5. ASSUME NEW c \in Sender, RecAppend(c) PROVE  Reached'
  BY <1>0, <1>5 DEF RecAppend, Begin, Return, Blank, NoBatch, Caller, SyncRange, SyncRow, SyncCalls, Reached, files, call_vars, bounds, history
<1>6. ASSUME NEW c \in Sender, RecMark(c) PROVE  Reached'
  BY <1>0, <1>6 DEF RecMark, Begin, Return, Blank, NoBatch, Caller, SyncRange, SyncRow, SyncCalls, Reached, files, call_vars, bounds, history
<1>7. ASSUME NEW c \in Sender, RecBump(c) PROVE  Reached'
  BY <1>0, <1>7 DEF RecBump, Begin, Return, Blank, NoBatch, Caller, SyncRange, SyncRow, SyncCalls, Reached, files, call_vars, bounds, history
<1>8. ASSUME NEW c \in Sender, FollowClear(c) PROVE  Reached'
  BY <1>0, <1>8 DEF FollowClear, Begin, Return, Blank, NoBatch, Caller, SyncRange, SyncRow, SyncCalls, Reached, files, call_vars, bounds, history
<1>9. ASSUME NEW c \in Sender, FollowQueue(c) PROVE  Reached'
  BY <1>0, <1>9 DEF FollowQueue, Begin, Return, Blank, NoBatch, Caller, SyncRange, SyncRow, SyncCalls, Reached, files, call_vars, bounds, history
<1>10. ASSUME NEW c \in Detacher, DetachAgain(c) PROVE  Reached'
  BY <1>0, <1>10 DEF DetachAgain, Begin, Return, Blank, NoBatch, Caller, SyncRange, SyncRow, SyncCalls, Reached, files, call_vars, bounds, history
<1>11. ASSUME NEW c \in Detacher, DetachGet(c) PROVE  Reached'
  BY <1>0, <1>11 DEF DetachGet, Begin, Return, Blank, NoBatch, Caller, SyncRange, SyncRow, SyncCalls, Reached, files, call_vars, bounds, history
<1>12. ASSUME NEW c \in Detacher, DetachKill(c) PROVE  Reached'
  BY <1>0, <1>12 DEF DetachKill, Begin, Return, Blank, NoBatch, Caller, SyncRange, SyncRow, SyncCalls, Reached, files, call_vars, bounds, history
<1>13. ASSUME NEW c \in Detacher, DetachCount(c) PROVE  Reached'
  <2>1. ~renewed => Watermark(c) <= Len(native)
    BY <1>0 DEF Watermark, Larger, Reached, Caller
  <2>2. \A d \in Caller : batch'[d].total \in {batch[d].total, Watermark(c)}
    BY <1>0, <1>13 DEF DetachCount, SyncCalls, Caller
  <2> QED BY <1>0, <2>1, <2>2, <1>13 DEF DetachCount, Reached, files, history
<1>14. ASSUME NEW c \in Detacher, DetachFreeze(c) PROVE  Reached'
  BY <1>0, <1>14 DEF DetachFreeze, Begin, Return, Blank, NoBatch, Caller, SyncRange, SyncRow, SyncCalls, Reached, files, call_vars, bounds, history
<1>15. ASSUME NEW c \in Detacher, DetachFlag(c) PROVE  Reached'
  BY <1>0, <1>15 DEF DetachFlag, Begin, Return, Blank, NoBatch, Caller, SyncRange, SyncRow, SyncCalls, Reached, files, call_vars, bounds, history
<1>16. CASE Start
  BY <1>0, <1>16 DEF Start, Begin, Return, Blank, NoBatch, Caller, SyncRange, SyncRow, SyncCalls, Reached, files, call_vars, bounds, history
<1>17. CASE OwnWrite
  BY <1>0, <1>17 DEF OwnWrite, Begin, Return, Blank, NoBatch, Caller, SyncRange, SyncRow, SyncCalls, Reached, files, call_vars, bounds, history
<1>18. CASE ProcEnd
  BY <1>0, <1>18 DEF ProcEnd, Begin, Return, Blank, NoBatch, Caller, SyncRange, SyncRow, SyncCalls, Reached, files, call_vars, bounds, history
<1>19. CASE TerminalOpen
  BY <1>0, <1>19 DEF TerminalOpen, Begin, Return, Blank, NoBatch, Caller, SyncRange, SyncRow, SyncCalls, Reached, files, call_vars, bounds, history
<1>20. CASE TerminalWrite
  BY <1>0, <1>20 DEF TerminalWrite, Begin, Return, Blank, NoBatch, Caller, SyncRange, SyncRow, SyncCalls, Reached, files, call_vars, bounds, history
<1>21. CASE TerminalClose
  BY <1>0, <1>21 DEF TerminalClose, Begin, Return, Blank, NoBatch, Caller, SyncRange, SyncRow, SyncCalls, Reached, files, call_vars, bounds, history
<1>22. CASE Move
  BY <1>0, <1>22 DEF Move, Begin, Return, Blank, NoBatch, Caller, SyncRange, SyncRow, SyncCalls, Reached, files, call_vars, bounds, history
<1>23. CASE Crash
  BY <1>0, <1>23 DEF Crash, Begin, Return, Blank, NoBatch, Caller, SyncRange, SyncRow, SyncCalls, Reached, files, call_vars, bounds, history
<1>24. CASE UNCHANGED sync_vars
  BY <1>0, <1>24 DEF sync_vars, Begin, Return, Blank, NoBatch, Caller, SyncRange, SyncRow, SyncCalls, Reached, files, call_vars, bounds, history
<1> QED
  BY <1>1, <1>2, <1>3, <1>4, <1>5, <1>6, <1>7, <1>8, <1>9, <1>10, <1>11, <1>12, <1>13, <1>14, <1>15, <1>16, <1>17, <1>18, <1>19, <1>20, <1>21, <1>22, <1>23, <1>24, Zenon DEF SyncNext, FollowStep, DetachStep, ReconcileStep

\* What is shown stays shown: all that was, up to any line, and all there is unless a terminal writes.
LEMMA ShownStays ==
    ASSUME SyncTypeOK, Written, [SyncNext]_sync_vars, ~renewed'
    PROVE  /\ ~renewed /\ (missed' = 0 => missed = 0)
           /\ \A n \in 1..Len(native) : native'[n] = native[n] /\ (Shown(native[n]) => Shown(native[n])')
           /\ ~TerminalWrite /\ AllShown => AllShown'
           /\ ~TerminalWrite => \A n \in 1..Len(native') : n \in 1..Len(native) \/ Shown(native[n])'
           /\ Len(native) <= Len(native')
<1>0. /\ SyncFiles /\ SyncCalls /\ Len(native) \in Nat /\ Now \in Nat /\ missed \in Nat
      /\ \A n \in 1..Len(native) : native[n] \in Ids /\ native[n] <= Now
      /\ \A i \in Ids : rendered[i] \in Nat
  BY SyncTypeParts, NowRange, ElementOfSeq DEF SyncFiles, SyncBounds, Written
<1>1. ~renewed /\ (missed' = 0 => missed = 0)
  <2>1. /\ renewed' = renewed \/ (renewed' /\ Start)
        /\ missed' = missed \/ missed' = missed + 1
    BY DEF SyncNext, FollowStep, DetachStep, ReconcileStep, FollowLive, FollowGet, RecGet, RecLock, RecAppend, RecMark, RecBump, FollowClear, FollowQueue, DetachAgain, DetachGet, DetachKill, DetachCount, DetachFreeze, DetachFlag, Start, OwnWrite, ProcEnd, TerminalOpen, TerminalWrite, TerminalClose, Move, Crash, sync_vars, history, Begin
  <2> QED BY <1>0, <2>1
<1>2. \A i \in Ids : i <= Now => /\ made'[i] = made[i] /\ rendered'[i] >= rendered[i]
                                 /\ rendered'[i] \in Nat
  BY FileStep, SyncFilesStep DEF SyncFiles
<1>3. \A i \in Ids : i <= Now /\ Shown(i) => Shown(i)'
  BY <1>0, <1>2 DEF Shown, Renders
<1>4. \/ native' = native
      \/ /\ Len(native') = Len(native) + 1 /\ \A n \in 1..Len(native) : native'[n] = native[n]
         /\ TerminalWrite \/ Shown(native[Len(native)])'
  <2>1. CASE Grows("own") /\ rendered'[Now + 1] > 0
    BY <1>0, <2>1 DEF Grows, Shown
  <2>2. CASE Grows("term") /\ TerminalWrite
    BY <2>2 DEF Grows
  <2> QED BY <2>1, <2>2, FileStep
<1>5. \A n \in 1..Len(native) : native'[n] = native[n] /\ (Shown(native[n]) => Shown(native[n])')
  BY <1>0, <1>3, <1>4
<1>6. ~TerminalWrite => \A n \in 1..Len(native') : n \in 1..Len(native) \/ Shown(native[n])'
  <2>1. CASE native' = native
    BY <2>1
  <2>2. CASE Len(native') = Len(native) + 1
    BY <1>0, <1>4, <2>2
  <2> QED BY <1>4, <2>1, <2>2
<1>7. ~TerminalWrite /\ AllShown => AllShown'
  <2> SUFFICES ASSUME ~TerminalWrite, AllShown, NEW n \in 1..Len(native') PROVE Shown(native[n])'
    BY DEF AllShown
  <2>1. CASE n \in 1..Len(native)
    <3>1. Shown(native[n])
      BY <2>1 DEF AllShown
    <3> QED BY <1>5, <2>1, <3>1
  <2> QED BY <1>6, <2>1
<1>8. Len(native) <= Len(native')
  BY <1>0, <1>4
<1> QED BY <1>1, <1>5, <1>6, <1>7, <1>8

\* Nobody who works on the session, but an import before its append, leaves a line hidden.
AllSeen ==
    /\ ~row.det => AllShown
    /\ \A c \in Sender : pc[c] \in {"mark", "bump", "clear"} => AllShown
    /\ \A c \in Detacher : pc[c] # "idle" => AllShown

AppendsRest ==
    \A c \in Sender : pc[c] = "append" =>
        \A n \in 1..Len(native) : Shown(native[n]) \/ native[n] \in batch[c].ids

MarksSeen == \A n \in 1..Len(native) : n <= row.mark => Shown(native[n])

\* What is seen, in three parts.
LEMMA SeenParts == Seen <=> (missed = 0 /\ ~renewed => AllSeen /\ AppendsRest /\ MarksSeen)
BY DEF Seen, AllSeen, AppendsRest, MarksSeen

\* Nothing is left hidden: an import is appended before its watermark is set, and a detach
\* starts from a session that shows everything.
LEMMA SeenStep ==
    ASSUME SyncBase, SyncBase', Seen, [SyncNext]_sync_vars
    PROVE  Seen'
<1> SUFFICES ASSUME missed' = 0, ~renewed'
             PROVE  AllSeen' /\ AppendsRest' /\ MarksSeen'
  BY SeenParts DEF Seen, AllSeen, AppendsRest, MarksSeen
<1>0. SyncTypeOK /\ SyncPlaces /\ Written /\ Reached /\ SyncRange /\ SyncFiles /\ SyncCalls /\ SyncBounds
      /\ Len(native) \in Nat /\ None \notin Caller /\ (\A c \in Sender : c \notin Detacher)
      /\ row.mark \in Nat
  BY SyncTypeParts, SyncAssumption DEF SyncBase, SyncFiles, SyncAssumption, Caller, None, SyncRange, SyncRow, Instant
<1>1. missed = 0 /\ ~renewed /\ AllSeen /\ AppendsRest /\ MarksSeen
  BY <1>0, ShownStays, SeenParts
<1>2. /\ \A n \in 1..Len(native) : native'[n] = native[n] /\ (Shown(native[n]) => Shown(native[n])')
      /\ ~TerminalWrite /\ AllShown => AllShown'
      /\ ~TerminalWrite => \A n \in 1..Len(native') : n \in 1..Len(native) \/ Shown(native[n])'
      /\ Len(native) <= Len(native')
  BY <1>0, ShownStays
<1>3. TerminalWrite => /\ row' = row /\ row.det /\ pc' = pc /\ \A c \in Caller : pc[c] = "idle"
  BY <1>0 DEF TerminalWrite, SyncPlaces, call_vars
<1>4. AllSeen'
  <2>1. ASSUME NEW c \in Sender, FollowLive(c) PROVE  AllSeen'
    BY <1>0, <1>1, <1>2, <1>3, <2>1 DEF FollowLive, At, Goto, Begin, Return, Idle, Caller, AllSeen, call_vars, history, SyncPlaces, SyncCalls, SyncRange, SyncRow, TerminalWrite
  <2>2. ASSUME NEW c \in Sender, FollowGet(c) PROVE  AllSeen'
    BY <1>0, <1>1, <1>2, <1>3, <2>2 DEF FollowGet, At, Goto, Begin, Return, Idle, Caller, AllSeen, call_vars, history, SyncPlaces, SyncCalls, SyncRange, SyncRow, TerminalWrite
  <2>3. ASSUME NEW c \in Sender, RecGet(c) PROVE  AllSeen'
    BY <1>0, <1>1, <1>2, <1>3, <2>3 DEF RecGet, AfterImport, At, Goto, Begin, Return, Idle, Caller, AllSeen, call_vars, history, SyncPlaces, SyncCalls, SyncRange, SyncRow, TerminalWrite
  <2>4. ASSUME NEW c \in Sender, RecLock(c) PROVE  AllSeen'
    BY <1>0, <1>1, <1>2, <1>3, <2>4 DEF RecLock, At, Goto, Begin, Return, Idle, Caller, AllSeen, call_vars, history, SyncPlaces, SyncCalls, SyncRange, SyncRow, TerminalWrite
  <2>5. ASSUME NEW c \in Sender, RecAppend(c) PROVE  AllSeen'
      <3>1. AllShown'
        <4> SUFFICES ASSUME NEW n \in 1..Len(native') PROVE Shown(native[n])'
          BY DEF AllShown
        <4>1. native' = native /\ made' = made /\ pc[c] = "append" /\ Shows(batch[c].ids)
          BY <2>5 DEF RecAppend, At
        <4>2. CASE Shown(native[n])
          BY <1>2, <4>1, <4>2
        <4>3. CASE native[n] \in batch[c].ids
          <5>1. native[n] \in Ids /\ rendered[native[n]] \in Nat
            BY <1>0, <4>1, ElementOfSeq DEF SyncFiles
          <5>2. rendered'[native[n]] = rendered[native[n]] + 1
            BY <4>1, <4>3, <5>1 DEF Shows
          <5> QED BY <4>1, <5>1, <5>2 DEF Shown
        <4> QED BY <1>1, <4>1, <4>2, <4>3 DEF AppendsRest
      <3> QED BY <3>1 DEF AllSeen
  <2>6. ASSUME NEW c \in Sender, RecMark(c) PROVE  AllSeen'
    BY <1>0, <1>1, <1>2, <1>3, <2>6 DEF RecMark, At, Goto, Begin, Return, Idle, Caller, AllSeen, call_vars, history, SyncPlaces, SyncCalls, SyncRange, SyncRow, TerminalWrite
  <2>7. ASSUME NEW c \in Sender, RecBump(c) PROVE  AllSeen'
    BY <1>0, <1>1, <1>2, <1>3, <2>7 DEF RecBump, AfterImport, At, Goto, Begin, Return, Idle, Caller, AllSeen, call_vars, history, SyncPlaces, SyncCalls, SyncRange, SyncRow, TerminalWrite
  <2>8. ASSUME NEW c \in Sender, FollowClear(c) PROVE  AllSeen'
    BY <1>0, <1>1, <1>2, <1>3, <2>8 DEF FollowClear, At, Goto, Begin, Return, Idle, Caller, AllSeen, call_vars, history, SyncPlaces, SyncCalls, SyncRange, SyncRow, TerminalWrite
  <2>9. ASSUME NEW c \in Sender, FollowQueue(c) PROVE  AllSeen'
    BY <1>0, <1>1, <1>2, <1>3, <2>9 DEF FollowQueue, At, Goto, Begin, Return, Idle, Caller, AllSeen, call_vars, history, SyncPlaces, SyncCalls, SyncRange, SyncRow, TerminalWrite
  <2>10. ASSUME NEW c \in Detacher, DetachAgain(c) PROVE  AllSeen'
    BY <1>0, <1>1, <1>2, <1>3, <2>10 DEF DetachAgain, At, Goto, Begin, Return, Idle, Caller, AllSeen, call_vars, history, SyncPlaces, SyncCalls, SyncRange, SyncRow, TerminalWrite
  <2>11. ASSUME NEW c \in Detacher, DetachGet(c) PROVE  AllSeen'
    BY <1>0, <1>1, <1>2, <1>3, <2>11 DEF DetachGet, At, Goto, Begin, Return, Idle, Caller, AllSeen, call_vars, history, SyncPlaces, SyncCalls, SyncRange, SyncRow, TerminalWrite
  <2>12. ASSUME NEW c \in Detacher, DetachKill(c) PROVE  AllSeen'
    BY <1>0, <1>1, <1>2, <1>3, <2>12 DEF DetachKill, At, Goto, Begin, Return, Idle, Caller, AllSeen, call_vars, history, SyncPlaces, SyncCalls, SyncRange, SyncRow, TerminalWrite
  <2>13. ASSUME NEW c \in Detacher, DetachCount(c) PROVE  AllSeen'
    BY <1>0, <1>1, <1>2, <1>3, <2>13 DEF DetachCount, At, Goto, Begin, Return, Idle, Caller, AllSeen, call_vars, history, SyncPlaces, SyncCalls, SyncRange, SyncRow, TerminalWrite
  <2>14. ASSUME NEW c \in Detacher, DetachFreeze(c) PROVE  AllSeen'
    BY <1>0, <1>1, <1>2, <1>3, <2>14 DEF DetachFreeze, At, Goto, Begin, Return, Idle, Caller, AllSeen, call_vars, history, SyncPlaces, SyncCalls, SyncRange, SyncRow, TerminalWrite
  <2>15. ASSUME NEW c \in Detacher, DetachFlag(c) PROVE  AllSeen'
    BY <1>0, <1>1, <1>2, <1>3, <2>15 DEF DetachFlag, At, Goto, Begin, Return, Idle, Caller, AllSeen, call_vars, history, SyncPlaces, SyncCalls, SyncRange, SyncRow, TerminalWrite
  <2>16. CASE Start
    BY <1>0, <1>1, <1>2, <1>3, <2>16 DEF Start, At, Goto, Begin, Return, Idle, Caller, AllSeen, call_vars, history, SyncPlaces, SyncCalls, SyncRange, SyncRow, TerminalWrite
  <2>17. CASE OwnWrite
    BY <1>0, <1>1, <1>2, <1>3, <2>17 DEF OwnWrite, At, Goto, Begin, Return, Idle, Caller, AllSeen, call_vars, history, SyncPlaces, SyncCalls, SyncRange, SyncRow, TerminalWrite
  <2>18. CASE ProcEnd
    BY <1>0, <1>1, <1>2, <1>3, <2>18 DEF ProcEnd, At, Goto, Begin, Return, Idle, Caller, AllSeen, call_vars, history, SyncPlaces, SyncCalls, SyncRange, SyncRow, TerminalWrite
  <2>19. CASE TerminalOpen
    BY <1>0, <1>1, <1>2, <1>3, <2>19 DEF TerminalOpen, At, Goto, Begin, Return, Idle, Caller, AllSeen, call_vars, history, SyncPlaces, SyncCalls, SyncRange, SyncRow, TerminalWrite
  <2>20. CASE TerminalWrite
    BY <1>0, <1>1, <1>2, <1>3, <2>20 DEF TerminalWrite, At, Goto, Begin, Return, Idle, Caller, AllSeen, call_vars, history, SyncPlaces, SyncCalls, SyncRange, SyncRow, TerminalWrite
  <2>21. CASE TerminalClose
    BY <1>0, <1>1, <1>2, <1>3, <2>21 DEF TerminalClose, At, Goto, Begin, Return, Idle, Caller, AllSeen, call_vars, history, SyncPlaces, SyncCalls, SyncRange, SyncRow, TerminalWrite
  <2>22. CASE Move
    BY <1>0, <1>1, <1>2, <1>3, <2>22 DEF Move, At, Goto, Begin, Return, Idle, Caller, AllSeen, call_vars, history, SyncPlaces, SyncCalls, SyncRange, SyncRow, TerminalWrite
  <2>23. CASE Crash
    BY <1>0, <1>1, <1>2, <1>3, <2>23 DEF Crash, At, Goto, Begin, Return, Idle, Caller, AllSeen, call_vars, history, SyncPlaces, SyncCalls, SyncRange, SyncRow, TerminalWrite
  <2>24. CASE UNCHANGED sync_vars
    BY <1>0, <1>1, <1>2, <1>3, <2>24 DEF sync_vars, At, Goto, Begin, Return, Idle, Caller, AllSeen, call_vars, history, SyncPlaces, SyncCalls, SyncRange, SyncRow, TerminalWrite
  <2> QED
    BY <2>1, <2>2, <2>3, <2>4, <2>5, <2>6, <2>7, <2>8, <2>9, <2>10, <2>11, <2>12, <2>13, <2>14, <2>15, <2>16, <2>17, <2>18, <2>19, <2>20, <2>21, <2>22, <2>23, <2>24, Zenon DEF SyncNext, FollowStep, DetachStep, ReconcileStep
<1>5. AppendsRest'
  <2> SUFFICES ASSUME NEW d \in Sender, pc'[d] = "append", NEW n \in 1..Len(native')
               PROVE  Shown(native[n])' \/ native'[n] \in batch'[d].ids
    BY DEF AppendsRest
  <2>0. CASE RecLock(d)
    <3>1. native' = native /\ made' = made /\ rendered' = rendered /\ batch'[d] = ReadFrom(row.mark) /\ present
      BY <1>0, <1>1, <2>0 DEF RecLock, files, SyncCalls, Caller, SyncBounds
    <3>2. CASE n <= row.mark
      BY <1>1, <1>2, <3>1, <3>2 DEF MarksSeen
    <3>3. CASE n > row.mark /\ Renders(native[n])
      <4>1. n \in (row.mark + 1)..Len(native)
        BY <1>0, <3>1, <3>3
      <4> QED BY <3>1, <3>3, <4>1 DEF ReadFrom
    <3>4. CASE ~Renders(native[n])
      BY <1>2, <3>1, <3>4 DEF Shown
    <3> QED BY <1>0, <3>1, <3>2, <3>3, <3>4
  <2>a. CASE pc[d] = "append" /\ batch'[d] = batch[d] /\ ~TerminalWrite
    BY <1>1, <1>2, <2>a DEF AppendsRest
  <2>b. pc[d] = "append" => ~TerminalWrite
    BY <1>3 DEF Caller
  <2>c. RecLock(d) \/ (pc[d] = "append" /\ batch'[d] = batch[d])
    <3>1. ASSUME NEW c \in Sender, FollowLive(c) PROVE  RecLock(d) \/ (pc[d] = "append" /\ batch'[d] = batch[d])
      BY <1>0, <3>1 DEF FollowLive, At, Goto, Begin, Return, Caller, call_vars, SyncCalls
    <3>2. ASSUME NEW c \in Sender, FollowGet(c) PROVE  RecLock(d) \/ (pc[d] = "append" /\ batch'[d] = batch[d])
      BY <1>0, <3>2 DEF FollowGet, At, Goto, Begin, Return, Caller, call_vars, SyncCalls
    <3>3. ASSUME NEW c \in Sender, RecGet(c) PROVE  RecLock(d) \/ (pc[d] = "append" /\ batch'[d] = batch[d])
      BY <1>0, <3>3 DEF RecGet, AfterImport, At, Goto, Begin, Return, Caller, call_vars, SyncCalls
    <3>4. ASSUME NEW c \in Sender, RecLock(c) PROVE  RecLock(d) \/ (pc[d] = "append" /\ batch'[d] = batch[d])
      BY <1>0, <3>4 DEF RecLock, At, Goto, Begin, Return, Caller, call_vars, SyncCalls
    <3>5. ASSUME NEW c \in Sender, RecAppend(c) PROVE  RecLock(d) \/ (pc[d] = "append" /\ batch'[d] = batch[d])
      BY <1>0, <3>5 DEF RecAppend, At, Goto, Begin, Return, Caller, call_vars, SyncCalls
    <3>6. ASSUME NEW c \in Sender, RecMark(c) PROVE  RecLock(d) \/ (pc[d] = "append" /\ batch'[d] = batch[d])
      BY <1>0, <3>6 DEF RecMark, At, Goto, Begin, Return, Caller, call_vars, SyncCalls
    <3>7. ASSUME NEW c \in Sender, RecBump(c) PROVE  RecLock(d) \/ (pc[d] = "append" /\ batch'[d] = batch[d])
      BY <1>0, <3>7 DEF RecBump, AfterImport, At, Goto, Begin, Return, Caller, call_vars, SyncCalls
    <3>8. ASSUME NEW c \in Sender, FollowClear(c) PROVE  RecLock(d) \/ (pc[d] = "append" /\ batch'[d] = batch[d])
      BY <1>0, <3>8 DEF FollowClear, At, Goto, Begin, Return, Caller, call_vars, SyncCalls
    <3>9. ASSUME NEW c \in Sender, FollowQueue(c) PROVE  RecLock(d) \/ (pc[d] = "append" /\ batch'[d] = batch[d])
      BY <1>0, <3>9 DEF FollowQueue, At, Goto, Begin, Return, Caller, call_vars, SyncCalls
    <3>10. ASSUME NEW c \in Detacher, DetachAgain(c) PROVE  RecLock(d) \/ (pc[d] = "append" /\ batch'[d] = batch[d])
      BY <1>0, <3>10 DEF DetachAgain, At, Goto, Begin, Return, Caller, call_vars, SyncCalls
    <3>11. ASSUME NEW c \in Detacher, DetachGet(c) PROVE  RecLock(d) \/ (pc[d] = "append" /\ batch'[d] = batch[d])
      BY <1>0, <3>11 DEF DetachGet, At, Goto, Begin, Return, Caller, call_vars, SyncCalls
    <3>12. ASSUME NEW c \in Detacher, DetachKill(c) PROVE  RecLock(d) \/ (pc[d] = "append" /\ batch'[d] = batch[d])
      BY <1>0, <3>12 DEF DetachKill, At, Goto, Begin, Return, Caller, call_vars, SyncCalls
    <3>13. ASSUME NEW c \in Detacher, DetachCount(c) PROVE  RecLock(d) \/ (pc[d] = "append" /\ batch'[d] = batch[d])
      BY <1>0, <3>13 DEF DetachCount, At, Goto, Begin, Return, Caller, call_vars, SyncCalls
    <3>14. ASSUME NEW c \in Detacher, DetachFreeze(c) PROVE  RecLock(d) \/ (pc[d] = "append" /\ batch'[d] = batch[d])
      BY <1>0, <3>14 DEF DetachFreeze, At, Goto, Begin, Return, Caller, call_vars, SyncCalls
    <3>15. ASSUME NEW c \in Detacher, DetachFlag(c) PROVE  RecLock(d) \/ (pc[d] = "append" /\ batch'[d] = batch[d])
      BY <1>0, <3>15 DEF DetachFlag, At, Goto, Begin, Return, Caller, call_vars, SyncCalls
    <3>16. CASE Start
      BY <1>0, <3>16 DEF Start, At, Goto, Begin, Return, Caller, call_vars, SyncCalls
    <3>17. CASE OwnWrite
      BY <1>0, <3>17 DEF OwnWrite, At, Goto, Begin, Return, Caller, call_vars, SyncCalls
    <3>18. CASE ProcEnd
      BY <1>0, <3>18 DEF ProcEnd, At, Goto, Begin, Return, Caller, call_vars, SyncCalls
    <3>19. CASE TerminalOpen
      BY <1>0, <3>19 DEF TerminalOpen, At, Goto, Begin, Return, Caller, call_vars, SyncCalls
    <3>20. CASE TerminalWrite
      BY <1>0, <3>20 DEF TerminalWrite, At, Goto, Begin, Return, Caller, call_vars, SyncCalls
    <3>21. CASE TerminalClose
      BY <1>0, <3>21 DEF TerminalClose, At, Goto, Begin, Return, Caller, call_vars, SyncCalls
    <3>22. CASE Move
      BY <1>0, <3>22 DEF Move, At, Goto, Begin, Return, Caller, call_vars, SyncCalls
    <3>23. CASE Crash
      BY <1>0, <3>23 DEF Crash, At, Goto, Begin, Return, Caller, call_vars, SyncCalls
    <3>24. CASE UNCHANGED sync_vars
      BY <1>0, <3>24 DEF sync_vars, At, Goto, Begin, Return, Caller, call_vars, SyncCalls
    <3> QED
      BY <3>1, <3>2, <3>3, <3>4, <3>5, <3>6, <3>7, <3>8, <3>9, <3>10, <3>11, <3>12, <3>13, <3>14, <3>15, <3>16, <3>17, <3>18, <3>19, <3>20, <3>21, <3>22, <3>23, <3>24, Zenon DEF SyncNext, FollowStep, DetachStep, ReconcileStep
  <2> QED BY <2>0, <2>a, <2>b, <2>c
<1>6. MarksSeen'
  <2> SUFFICES ASSUME NEW n \in 1..Len(native'), n <= row'.mark
               PROVE  Shown(native[n])'
    BY DEF MarksSeen
  <2>a. CASE n \in 1..Len(native) /\ row'.mark = row.mark
    BY <1>1, <1>2, <2>a DEF MarksSeen
  <2>b. CASE AllShown /\ ~TerminalWrite
    BY <1>2, <2>b DEF AllShown
  <2>c. CASE ~TerminalWrite /\ row'.mark = row.mark
    BY <1>2, <2>a, <2>c
  <2>d. CASE TerminalWrite
    BY <1>0, <1>1, <1>3, <2>a, <2>d DEF Reached
  <2>e. row'.mark = row.mark \/ (AllShown /\ ~TerminalWrite)
    <3>1. ASSUME NEW c \in Sender, FollowLive(c) PROVE  row'.mark = row.mark \/ (AllShown /\ ~TerminalWrite)
      BY <1>0, <1>1, <1>3, <3>1 DEF FollowLive, At, Caller, AllSeen, SyncRange, SyncRow
    <3>2. ASSUME NEW c \in Sender, FollowGet(c) PROVE  row'.mark = row.mark \/ (AllShown /\ ~TerminalWrite)
      BY <1>0, <1>1, <1>3, <3>2 DEF FollowGet, At, Caller, AllSeen, SyncRange, SyncRow
    <3>3. ASSUME NEW c \in Sender, RecGet(c) PROVE  row'.mark = row.mark \/ (AllShown /\ ~TerminalWrite)
      BY <1>0, <1>1, <1>3, <3>3 DEF RecGet, At, Caller, AllSeen, SyncRange, SyncRow
    <3>4. ASSUME NEW c \in Sender, RecLock(c) PROVE  row'.mark = row.mark \/ (AllShown /\ ~TerminalWrite)
      BY <1>0, <1>1, <1>3, <3>4 DEF RecLock, At, Caller, AllSeen, SyncRange, SyncRow
    <3>5. ASSUME NEW c \in Sender, RecAppend(c) PROVE  row'.mark = row.mark \/ (AllShown /\ ~TerminalWrite)
      BY <1>0, <1>1, <1>3, <3>5 DEF RecAppend, At, Caller, AllSeen, SyncRange, SyncRow
    <3>6. ASSUME NEW c \in Sender, RecMark(c) PROVE  row'.mark = row.mark \/ (AllShown /\ ~TerminalWrite)
      BY <1>0, <1>1, <1>3, <3>6 DEF RecMark, At, Caller, AllSeen, SyncRange, SyncRow
    <3>7. ASSUME NEW c \in Sender, RecBump(c) PROVE  row'.mark = row.mark \/ (AllShown /\ ~TerminalWrite)
      BY <1>0, <1>1, <1>3, <3>7 DEF RecBump, At, Caller, AllSeen, SyncRange, SyncRow
    <3>8. ASSUME NEW c \in Sender, FollowClear(c) PROVE  row'.mark = row.mark \/ (AllShown /\ ~TerminalWrite)
      BY <1>0, <1>1, <1>3, <3>8 DEF FollowClear, At, Caller, AllSeen, SyncRange, SyncRow
    <3>9. ASSUME NEW c \in Sender, FollowQueue(c) PROVE  row'.mark = row.mark \/ (AllShown /\ ~TerminalWrite)
      BY <1>0, <1>1, <1>3, <3>9 DEF FollowQueue, At, Caller, AllSeen, SyncRange, SyncRow
    <3>10. ASSUME NEW c \in Detacher, DetachAgain(c) PROVE  row'.mark = row.mark \/ (AllShown /\ ~TerminalWrite)
      BY <1>0, <1>1, <1>3, <3>10 DEF DetachAgain, At, Caller, AllSeen, SyncRange, SyncRow
    <3>11. ASSUME NEW c \in Detacher, DetachGet(c) PROVE  row'.mark = row.mark \/ (AllShown /\ ~TerminalWrite)
      BY <1>0, <1>1, <1>3, <3>11 DEF DetachGet, At, Caller, AllSeen, SyncRange, SyncRow
    <3>12. ASSUME NEW c \in Detacher, DetachKill(c) PROVE  row'.mark = row.mark \/ (AllShown /\ ~TerminalWrite)
      BY <1>0, <1>1, <1>3, <3>12 DEF DetachKill, At, Caller, AllSeen, SyncRange, SyncRow
    <3>13. ASSUME NEW c \in Detacher, DetachCount(c) PROVE  row'.mark = row.mark \/ (AllShown /\ ~TerminalWrite)
      BY <1>0, <1>1, <1>3, <3>13 DEF DetachCount, At, Caller, AllSeen, SyncRange, SyncRow
    <3>14. ASSUME NEW c \in Detacher, DetachFreeze(c) PROVE  row'.mark = row.mark \/ (AllShown /\ ~TerminalWrite)
      BY <1>0, <1>1, <1>3, <3>14 DEF DetachFreeze, At, Caller, AllSeen, SyncRange, SyncRow
    <3>15. ASSUME NEW c \in Detacher, DetachFlag(c) PROVE  row'.mark = row.mark \/ (AllShown /\ ~TerminalWrite)
      BY <1>0, <1>1, <1>3, <3>15 DEF DetachFlag, At, Caller, AllSeen, SyncRange, SyncRow
    <3>16. CASE Start
      BY <1>0, <1>1, <1>3, <3>16 DEF Start, At, Caller, AllSeen, SyncRange, SyncRow
    <3>17. CASE OwnWrite
      BY <1>0, <1>1, <1>3, <3>17 DEF OwnWrite, At, Caller, AllSeen, SyncRange, SyncRow
    <3>18. CASE ProcEnd
      BY <1>0, <1>1, <1>3, <3>18 DEF ProcEnd, At, Caller, AllSeen, SyncRange, SyncRow
    <3>19. CASE TerminalOpen
      BY <1>0, <1>1, <1>3, <3>19 DEF TerminalOpen, At, Caller, AllSeen, SyncRange, SyncRow
    <3>20. CASE TerminalWrite
      BY <1>0, <1>1, <1>3, <3>20 DEF TerminalWrite, At, Caller, AllSeen, SyncRange, SyncRow
    <3>21. CASE TerminalClose
      BY <1>0, <1>1, <1>3, <3>21 DEF TerminalClose, At, Caller, AllSeen, SyncRange, SyncRow
    <3>22. CASE Move
      BY <1>0, <1>1, <1>3, <3>22 DEF Move, At, Caller, AllSeen, SyncRange, SyncRow
    <3>23. CASE Crash
      BY <1>0, <1>1, <1>3, <3>23 DEF Crash, At, Caller, AllSeen, SyncRange, SyncRow
    <3>24. CASE UNCHANGED sync_vars
      BY <1>0, <1>1, <1>3, <3>24 DEF sync_vars, At, Caller, AllSeen, SyncRange, SyncRow
    <3> QED
      BY <3>1, <3>2, <3>3, <3>4, <3>5, <3>6, <3>7, <3>8, <3>9, <3>10, <3>11, <3>12, <3>13, <3>14, <3>15, <3>16, <3>17, <3>18, <3>19, <3>20, <3>21, <3>22, <3>23, <3>24, Zenon DEF SyncNext, FollowStep, DetachStep, ReconcileStep
  <2> QED BY <2>b, <2>c, <2>d, <2>e
<1> QED BY <1>4, <1>5, <1>6

-----------------------------------------------------------------------------
(* How often a line is imported. *)

\* The numbers a watermark is compared with.
LEMMA SyncSizes ==
    ASSUME SyncTypeOK
    PROVE  /\ SyncRange /\ SyncFiles /\ SyncCalls /\ SyncBounds
           /\ Len(native) \in Nat /\ (\A c \in Sender : c \notin Detacher) /\ row.mark \in Nat
           /\ (\A c \in Caller : seen[c].mark \in Nat /\ batch[c].total \in Nat)
           /\ missed \in Nat /\ torn \in Nat /\ None \notin Caller
           /\ \A i \in Ids : rendered[i] \in Nat
<1>1. SyncRange /\ SyncFiles /\ SyncCalls /\ SyncBounds
  BY SyncTypeParts
<1>2. Len(native) \in Nat /\ \A i \in Ids : rendered[i] \in Nat
  BY <1>1 DEF SyncFiles
<1>3. (\A c \in Sender : c \notin Detacher) /\ None \notin Caller
  BY SyncAssumption DEF SyncAssumption, None, Caller
<1>4. row.mark \in Nat /\ \A c \in Caller : seen[c].mark \in Nat /\ batch[c].total \in Nat
  BY <1>1 DEF SyncRange, SyncRow, Instant, SyncCalls
<1>5. missed \in Nat /\ torn \in Nat
  BY <1>1 DEF SyncBounds
<1> QED BY <1>1, <1>2, <1>3, <1>4, <1>5

\* A line of the terminal was there before, or the terminal writes it now; and only an import
\* shows it.
LEMMA TerminalLines ==
    ASSUME SyncTypeOK, Written, [SyncNext]_sync_vars, NEW i \in Ids, FromTerminal(i)'
    PROVE  /\ (FromTerminal(i) /\ i <= Now) \/ (TerminalWrite /\ i = Now + 1 /\ rendered[i] = 0)
           /\ \/ rendered'[i] = rendered[i]
              \/ /\ rendered'[i] = rendered[i] + 1
                 /\ \E c \in Sender : RecAppend(c) /\ i \in batch[c].ids
<1>0. SyncFiles /\ Now \in Nat /\ rendered[i] \in Nat
  BY SyncTypeParts, NowRange DEF SyncFiles
<1>1. FromTerminal(i) => i <= Now
  BY DEF FromTerminal, Written, Unwritten, None
<1> DEFINE Fine == /\ FromTerminal(i) \/ (TerminalWrite /\ i = Now + 1 /\ rendered[i] = 0)
                   /\ \/ rendered'[i] = rendered[i]
                      \/ /\ rendered'[i] = rendered[i] + 1
                         /\ \E c \in Sender : RecAppend(c) /\ i \in batch[c].ids
<1>2. ASSUME made' = made, rendered' = rendered PROVE Fine
  BY <1>2 DEF FromTerminal
<1>3. ASSUME NEW k \in Kind, Write("own", k), Shows({Now + 1}) PROVE Fine
  <2>1. made'[Now + 1] = <<"own", k>> /\ \A l \in Ids : l # Now + 1 => made'[l] = made[l]
    BY <1>0, <1>3, WriteStep
  <2>2. i # Now + 1
    BY <2>1 DEF FromTerminal
  <2>3. made'[i] = made[i] /\ rendered'[i] = rendered[i]
    BY <1>3, <2>1, <2>2 DEF Shows
  <2> QED BY <2>3 DEF FromTerminal
<1>4. ASSUME TerminalWrite PROVE Fine
  <2>1. PICK k \in Kind : Write("term", k)
    BY <1>4 DEF TerminalWrite, Kind
  <2>2. /\ \A l \in Ids : l # Now + 1 => made'[l] = made[l]
        /\ Now + 1 \in Ids /\ rendered' = rendered
    BY <1>0, <1>4, <2>1, WriteStep DEF TerminalWrite
  <2>3. rendered[Now + 1] = 0
    BY <1>0, <2>2 DEF Written
  <2>4. CASE i = Now + 1
    BY <1>4, <2>2, <2>3, <2>4
  <2>5. CASE i # Now + 1
    <3>1. made'[i] = made[i] /\ rendered'[i] = rendered[i]
      BY <2>2, <2>5
    <3>2. FromTerminal(i)
      BY <3>1, Zenon DEF FromTerminal
    <3> QED BY <3>1, <3>2
  <2> QED BY <2>4, <2>5
<1>5. ASSUME NEW c \in Sender, RecAppend(c) PROVE Fine
  <2>1. made' = made /\ Shows(batch[c].ids)
    BY <1>5 DEF RecAppend
  <2>2. rendered'[i] = rendered[i] \/ (i \in batch[c].ids /\ rendered'[i] = rendered[i] + 1)
    BY <2>1 DEF Shows
  <2> QED BY <1>5, <2>1, <2>2 DEF FromTerminal
<1>6. Fine
  <2>1. ASSUME NEW c \in Sender, FollowLive(c) PROVE  Fine
    BY <2>1, <1>3 DEF FollowLive, Kind
  <2>2. ASSUME NEW c \in Sender, FollowGet(c) PROVE  Fine
    BY <1>2, <2>2 DEF FollowGet, Begin, files
  <2>3. ASSUME NEW c \in Sender, RecGet(c) PROVE  Fine
    BY <1>2, <2>3 DEF RecGet, Begin, files
  <2>4. ASSUME NEW c \in Sender, RecLock(c) PROVE  Fine
    BY <1>2, <2>4 DEF RecLock, Begin, files
  <2>5. ASSUME NEW c \in Sender, RecAppend(c) PROVE  Fine
    BY <2>5, <1>5
  <2>6. ASSUME NEW c \in Sender, RecMark(c) PROVE  Fine
    BY <1>2, <2>6 DEF RecMark, Begin, files
  <2>7. ASSUME NEW c \in Sender, RecBump(c) PROVE  Fine
    BY <1>2, <2>7 DEF RecBump, Begin, files
  <2>8. ASSUME NEW c \in Sender, FollowClear(c) PROVE  Fine
    BY <1>2, <2>8 DEF FollowClear, Begin, files
  <2>9. ASSUME NEW c \in Sender, FollowQueue(c) PROVE  Fine
    BY <1>2, <2>9 DEF FollowQueue, Begin, files
  <2>10. ASSUME NEW c \in Detacher, DetachAgain(c) PROVE  Fine
    BY <1>2, <2>10 DEF DetachAgain, Begin, files
  <2>11. ASSUME NEW c \in Detacher, DetachGet(c) PROVE  Fine
    BY <1>2, <2>11 DEF DetachGet, Begin, files
  <2>12. ASSUME NEW c \in Detacher, DetachKill(c) PROVE  Fine
    BY <1>2, <2>12 DEF DetachKill, Begin, files
  <2>13. ASSUME NEW c \in Detacher, DetachCount(c) PROVE  Fine
    BY <1>2, <2>13 DEF DetachCount, Begin, files
  <2>14. ASSUME NEW c \in Detacher, DetachFreeze(c) PROVE  Fine
    BY <1>2, <2>14 DEF DetachFreeze, Begin, files
  <2>15. ASSUME NEW c \in Detacher, DetachFlag(c) PROVE  Fine
    BY <1>2, <2>15 DEF DetachFlag, Begin, files
  <2>16. CASE Start
    BY <1>2, <2>16 DEF Start, Begin, files
  <2>17. CASE OwnWrite
    BY <2>17, <1>3 DEF OwnWrite, Kind
  <2>18. CASE ProcEnd
    BY <1>2, <2>18 DEF ProcEnd, Begin, files
  <2>19. CASE TerminalOpen
    BY <1>2, <2>19 DEF TerminalOpen, Begin, files
  <2>20. CASE TerminalWrite
    BY <2>20, <1>4
  <2>21. CASE TerminalClose
    BY <1>2, <2>21 DEF TerminalClose, Begin, files
  <2>22. CASE Move
    BY <1>2, <2>22 DEF Move, Begin, files
  <2>23. CASE Crash
    BY <1>2, <2>23 DEF Crash, Begin, files
  <2>24. CASE UNCHANGED sync_vars
    BY <1>2, <2>24 DEF sync_vars, Begin, files
  <2> QED
    BY <2>1, <2>2, <2>3, <2>4, <2>5, <2>6, <2>7, <2>8, <2>9, <2>10, <2>11, <2>12, <2>13, <2>14, <2>15, <2>16, <2>17, <2>18, <2>19, <2>20, <2>21, <2>22, <2>23, <2>24, Zenon DEF SyncNext, FollowStep, DetachStep, ReconcileStep
<1> QED BY <1>1, <1>6

\* But for the terminal, nobody adds a line of its kind or moves one.
LEMMA CoversStay ==
    ASSUME SyncTypeOK, Written, [SyncNext]_sync_vars, ~TerminalWrite,
           NEW n \in 1..Len(native'), FromTerminal(native[n])'
    PROVE  n \in 1..Len(native) /\ FromTerminal(native[n]) /\ native'[n] = native[n] /\ native[n] \in Ids
<1>0. SyncFiles /\ Len(native) \in Nat /\ Now \in Nat /\ \A m \in 1..Len(native) : native[m] \in Ids /\ native[m] <= Now
  BY SyncTypeParts, NowRange, ElementOfSeq DEF SyncFiles, Written
<1>1. \A i \in Ids : i <= Now => made'[i] = made[i]
  BY FileStep
<1>2. CASE native' = native
  BY <1>0, <1>1, <1>2 DEF FromTerminal
<1>3. CASE native' = <<>>
  BY <1>3
<1>4. CASE Grows("own")
  <2>1. n # Len(native) + 1
    BY <1>4 DEF Grows, FromTerminal
  <2>2. n \in 1..Len(native) /\ native'[n] = native[n]
    BY <1>0, <1>4, <2>1 DEF Grows
  <2> QED BY <1>0, <1>1, <2>2 DEF FromTerminal
<1> QED BY <1>2, <1>3, <1>4, FileStep

\* While the terminal is closed out, nothing of it lies above the watermark; a detach freezes
\* no less than what it read, and what it read covered the terminal.
LEMMA CoveredStep ==
    ASSUME SyncBase, SyncBase', Covered, [SyncNext]_sync_vars
    PROVE  Covered'
<1> DEFINE Below(k) == \A n \in 1..Len(native') : FromTerminal(native[n])' => n <= k
<1> SUFFICES ASSUME missed' = 0
             PROVE  /\ ~row'.det => Below(row'.mark)
                    /\ \A c \in Sender :
                         /\ pc'[c] \in {"append", "mark"} => Below(batch'[c].total)
                         /\ pc'[c] \in {"bump", "clear"} => Below(row'.mark)
                    /\ \A c \in Detacher :
                         /\ pc'[c] # "idle" => Below(row'.mark)
                         /\ pc'[c] \in {"kill", "count"} => Below(seen'[c].mark)
                         /\ pc'[c] = "freeze" => Below(batch'[c].total)
  BY DEF Covered, Covers
<1>0. SyncTypeOK /\ SyncPlaces /\ Written /\ SyncRange /\ SyncFiles /\ SyncCalls /\ SyncBounds
      /\ Len(native) \in Nat /\ (\A c \in Sender : c \notin Detacher) /\ row.mark \in Nat
      /\ (\A c \in Caller : seen[c].mark \in Nat /\ batch[c].total \in Nat) /\ missed \in Nat
  BY SyncSizes DEF SyncBase
<1>1. /\ missed' = missed \/ missed' = missed + 1
  BY DEF SyncNext, FollowStep, DetachStep, ReconcileStep, FollowLive, FollowGet, RecGet, RecLock, RecAppend, RecMark, RecBump, FollowClear, FollowQueue, DetachAgain, DetachGet, DetachKill, DetachCount, DetachFreeze, DetachFlag, Start, OwnWrite, ProcEnd, TerminalOpen, TerminalWrite, TerminalClose, Move, Crash, sync_vars, history, Begin
<1>2. missed = 0 /\ missed' = missed
  BY <1>0, <1>1
<1>3. CASE TerminalWrite
  BY <1>0, <1>3 DEF TerminalWrite, SyncPlaces, call_vars, Caller
<1>4. CASE ~TerminalWrite
  <2>a. \A k : Covers(k) => Below(k)
    BY <1>0, <1>4, CoversStay DEF Covers
  <2>b. Covers(Len(native)) /\ \A k \in Nat, l \in Nat : k <= l /\ Covers(k) => Covers(l)
    BY <1>0 DEF Covers
  <2>c. /\ ~row.det => Covers(row.mark)
        /\ \A c \in Sender :
             /\ pc[c] \in {"append", "mark"} => Covers(batch[c].total)
             /\ pc[c] \in {"bump", "clear"} => Covers(row.mark)
        /\ \A c \in Detacher :
             /\ pc[c] # "idle" => Covers(row.mark)
             /\ pc[c] \in {"kill", "count"} => Covers(seen[c].mark)
             /\ pc[c] = "freeze" => Covers(batch[c].total)
    BY <1>2 DEF Covered
  <2> DEFINE Goal == /\ ~row'.det => Below(row'.mark)
                     /\ \A c \in Sender :
                          /\ pc'[c] \in {"append", "mark"} => Below(batch'[c].total)
                          /\ pc'[c] \in {"bump", "clear"} => Below(row'.mark)
                     /\ \A c \in Detacher :
                          /\ pc'[c] # "idle" => Below(row'.mark)
                          /\ pc'[c] \in {"kill", "count"} => Below(seen'[c].mark)
                          /\ pc'[c] = "freeze" => Below(batch'[c].total)
  <2> HIDE DEF Below
  <2>d. Goal
    <3>1. ASSUME NEW c \in Sender, FollowLive(c) PROVE  Goal
      BY <1>0, <1>2, <1>4, <2>a, <2>c, <3>1 DEF FollowLive, At, Goto, Begin, Return, Idle, Caller, SyncCalls, SyncRange, SyncRow, call_vars, history, SyncBounds, SyncPlaces
    <3>2. ASSUME NEW c \in Sender, FollowGet(c) PROVE  Goal
      BY <1>0, <1>2, <1>4, <2>a, <2>c, <3>2 DEF FollowGet, At, Goto, Begin, Return, Idle, Caller, SyncCalls, SyncRange, SyncRow, call_vars, history, SyncBounds, SyncPlaces
    <3>3. ASSUME NEW c \in Sender, RecGet(c) PROVE  Goal
      BY <1>0, <1>2, <1>4, <2>a, <2>c, <3>3 DEF RecGet, AfterImport, At, Goto, Begin, Return, Idle, Caller, SyncCalls, SyncRange, SyncRow, call_vars, history, SyncBounds, SyncPlaces
    <3>4. ASSUME NEW c \in Sender, RecLock(c) PROVE  Goal
      BY <1>0, <1>2, <1>4, <2>a, <2>c, <3>4, <2>b DEF RecLock, ReadFrom, At, Goto, Begin, Return, Idle, Caller, SyncCalls, SyncRange, SyncRow, call_vars, history, SyncBounds, SyncPlaces
    <3>5. ASSUME NEW c \in Sender, RecAppend(c) PROVE  Goal
      BY <1>0, <1>2, <1>4, <2>a, <2>c, <3>5 DEF RecAppend, At, Goto, Begin, Return, Idle, Caller, SyncCalls, SyncRange, SyncRow, call_vars, history, SyncBounds, SyncPlaces
    <3>6. ASSUME NEW c \in Sender, RecMark(c) PROVE  Goal
      BY <1>0, <1>2, <1>4, <2>a, <2>c, <3>6 DEF RecMark, At, Goto, Begin, Return, Idle, Caller, SyncCalls, SyncRange, SyncRow, call_vars, history, SyncBounds, SyncPlaces
    <3>7. ASSUME NEW c \in Sender, RecBump(c) PROVE  Goal
      BY <1>0, <1>2, <1>4, <2>a, <2>c, <3>7 DEF RecBump, AfterImport, At, Goto, Begin, Return, Idle, Caller, SyncCalls, SyncRange, SyncRow, call_vars, history, SyncBounds, SyncPlaces
    <3>8. ASSUME NEW c \in Sender, FollowClear(c) PROVE  Goal
      BY <1>0, <1>2, <1>4, <2>a, <2>c, <3>8 DEF FollowClear, At, Goto, Begin, Return, Idle, Caller, SyncCalls, SyncRange, SyncRow, call_vars, history, SyncBounds, SyncPlaces
    <3>9. ASSUME NEW c \in Sender, FollowQueue(c) PROVE  Goal
      BY <1>0, <1>2, <1>4, <2>a, <2>c, <3>9 DEF FollowQueue, At, Goto, Begin, Return, Idle, Caller, SyncCalls, SyncRange, SyncRow, call_vars, history, SyncBounds, SyncPlaces
    <3>10. ASSUME NEW c \in Detacher, DetachAgain(c) PROVE  Goal
      BY <1>0, <1>2, <1>4, <2>a, <2>c, <3>10 DEF DetachAgain, At, Goto, Begin, Return, Idle, Caller, SyncCalls, SyncRange, SyncRow, call_vars, history, SyncBounds, SyncPlaces
    <3>11. ASSUME NEW c \in Detacher, DetachGet(c) PROVE  Goal
      BY <1>0, <1>2, <1>4, <2>a, <2>c, <3>11 DEF DetachGet, At, Goto, Begin, Return, Idle, Caller, SyncCalls, SyncRange, SyncRow, call_vars, history, SyncBounds, SyncPlaces
    <3>12. ASSUME NEW c \in Detacher, DetachKill(c) PROVE  Goal
      BY <1>0, <1>2, <1>4, <2>a, <2>c, <3>12 DEF DetachKill, At, Goto, Begin, Return, Idle, Caller, SyncCalls, SyncRange, SyncRow, call_vars, history, SyncBounds, SyncPlaces
    <3>13. ASSUME NEW c \in Detacher, DetachCount(c) PROVE  Goal
      <4>1. Covers(Watermark(c))
        <5>1. Covers(seen[c].mark) /\ seen[c].mark \in Nat /\ Watermark(c) \in Nat /\ seen[c].mark <= Watermark(c)
          BY <1>0, <2>c, <3>13 DEF DetachCount, At, Watermark, Larger, Caller
        <5> QED BY <2>b, <5>1
      <4>2. Below(Watermark(c))
        BY <2>a, <4>1
      <4>3. /\ row' = row /\ seen' = seen /\ \A d \in Caller : d # c => pc'[d] = pc[d] /\ batch'[d] = batch[d]
            /\ pc[c] = "count" /\ pc'[c] = "freeze" /\ batch'[c].total = Watermark(c)
        BY <1>0, <3>13 DEF DetachCount, At, Goto, SyncCalls, Caller
      <4> QED BY <1>0, <2>a, <2>c, <4>2, <4>3 DEF Caller
    <3>14. ASSUME NEW c \in Detacher, DetachFreeze(c) PROVE  Goal
      BY <1>0, <1>2, <1>4, <2>a, <2>c, <3>14 DEF DetachFreeze, At, Goto, Begin, Return, Idle, Caller, SyncCalls, SyncRange, SyncRow, call_vars, history, SyncBounds, SyncPlaces
    <3>15. ASSUME NEW c \in Detacher, DetachFlag(c) PROVE  Goal
      BY <1>0, <1>2, <1>4, <2>a, <2>c, <3>15 DEF DetachFlag, At, Goto, Begin, Return, Idle, Caller, SyncCalls, SyncRange, SyncRow, call_vars, history, SyncBounds, SyncPlaces
    <3>16. CASE Start
      BY <1>0, <1>2, <1>4, <2>a, <2>c, <3>16 DEF Start, At, Goto, Begin, Return, Idle, Caller, SyncCalls, SyncRange, SyncRow, call_vars, history, SyncBounds, SyncPlaces
    <3>17. CASE OwnWrite
      BY <1>0, <1>2, <1>4, <2>a, <2>c, <3>17 DEF OwnWrite, At, Goto, Begin, Return, Idle, Caller, SyncCalls, SyncRange, SyncRow, call_vars, history, SyncBounds, SyncPlaces
    <3>18. CASE ProcEnd
      BY <1>0, <1>2, <1>4, <2>a, <2>c, <3>18 DEF ProcEnd, At, Goto, Begin, Return, Idle, Caller, SyncCalls, SyncRange, SyncRow, call_vars, history, SyncBounds, SyncPlaces
    <3>19. CASE TerminalOpen
      BY <1>0, <1>2, <1>4, <2>a, <2>c, <3>19 DEF TerminalOpen, At, Goto, Begin, Return, Idle, Caller, SyncCalls, SyncRange, SyncRow, call_vars, history, SyncBounds, SyncPlaces
    <3>20. CASE TerminalWrite
      BY <1>0, <1>2, <1>4, <2>a, <2>c, <3>20 DEF TerminalWrite, At, Goto, Begin, Return, Idle, Caller, SyncCalls, SyncRange, SyncRow, call_vars, history, SyncBounds, SyncPlaces
    <3>21. CASE TerminalClose
      BY <1>0, <1>2, <1>4, <2>a, <2>c, <3>21 DEF TerminalClose, At, Goto, Begin, Return, Idle, Caller, SyncCalls, SyncRange, SyncRow, call_vars, history, SyncBounds, SyncPlaces
    <3>22. CASE Move
      BY <1>0, <1>2, <1>4, <2>a, <2>c, <3>22 DEF Move, At, Goto, Begin, Return, Idle, Caller, SyncCalls, SyncRange, SyncRow, call_vars, history, SyncBounds, SyncPlaces
    <3>23. CASE Crash
      BY <1>0, <1>2, <1>4, <2>a, <2>c, <3>23 DEF Crash, At, Goto, Begin, Return, Idle, Caller, SyncCalls, SyncRange, SyncRow, call_vars, history, SyncBounds, SyncPlaces
    <3>24. CASE UNCHANGED sync_vars
      BY <1>0, <1>2, <1>4, <2>a, <2>c, <3>24 DEF sync_vars, At, Goto, Begin, Return, Idle, Caller, SyncCalls, SyncRange, SyncRow, call_vars, history, SyncBounds, SyncPlaces
    <3> QED
      BY <3>1, <3>2, <3>3, <3>4, <3>5, <3>6, <3>7, <3>8, <3>9, <3>10, <3>11, <3>12, <3>13, <3>14, <3>15, <3>16, <3>17, <3>18, <3>19, <3>20, <3>21, <3>22, <3>23, <3>24, Zenon DEF SyncNext, FollowStep, DetachStep, ReconcileStep
  <2> QED BY <2>d
<1> QED BY <1>3, <1>4

\* The watermark moves to a place no line of the terminal is above.
LEMMA MarkMoves ==
    ASSUME SyncTypeOK, SyncPlaces, Covered, missed = 0, [SyncNext]_sync_vars, row'.mark # row.mark
    PROVE  \E k \in Nat : Covers(k) /\ row'.mark = k
<1>0. SyncRange /\ SyncCalls /\ \A c \in Caller : seen[c].mark \in Nat /\ batch[c].total \in Nat
  BY SyncSizes
<1> DEFINE Goal == \E k \in Nat : Covers(k) /\ row'.mark = k
<1>1. ASSUME NEW c \in Sender, RecMark(c) PROVE Goal
  BY <1>0, <1>1 DEF RecMark, At, Covered, Caller, SyncRange, SyncRow
<1>2. ASSUME NEW c \in Detacher, DetachFreeze(c) PROVE Goal
  BY <1>0, <1>2 DEF DetachFreeze, At, Covered, Caller, SyncRange, SyncRow
<1>3. Goal
  <2>1. ASSUME NEW c \in Sender, FollowLive(c) PROVE  Goal
    BY <1>0, <2>1 DEF FollowLive, SyncRange, SyncRow
  <2>2. ASSUME NEW c \in Sender, FollowGet(c) PROVE  Goal
    BY <1>0, <2>2 DEF FollowGet, SyncRange, SyncRow
  <2>3. ASSUME NEW c \in Sender, RecGet(c) PROVE  Goal
    BY <1>0, <2>3 DEF RecGet, SyncRange, SyncRow
  <2>4. ASSUME NEW c \in Sender, RecLock(c) PROVE  Goal
    BY <1>0, <2>4 DEF RecLock, SyncRange, SyncRow
  <2>5. ASSUME NEW c \in Sender, RecAppend(c) PROVE  Goal
    BY <1>0, <2>5 DEF RecAppend, SyncRange, SyncRow
  <2>6. ASSUME NEW c \in Sender, RecMark(c) PROVE  Goal
    BY <2>6, <1>1
  <2>7. ASSUME NEW c \in Sender, RecBump(c) PROVE  Goal
    BY <1>0, <2>7 DEF RecBump, SyncRange, SyncRow
  <2>8. ASSUME NEW c \in Sender, FollowClear(c) PROVE  Goal
    BY <1>0, <2>8 DEF FollowClear, SyncRange, SyncRow
  <2>9. ASSUME NEW c \in Sender, FollowQueue(c) PROVE  Goal
    BY <1>0, <2>9 DEF FollowQueue, SyncRange, SyncRow
  <2>10. ASSUME NEW c \in Detacher, DetachAgain(c) PROVE  Goal
    BY <1>0, <2>10 DEF DetachAgain, SyncRange, SyncRow
  <2>11. ASSUME NEW c \in Detacher, DetachGet(c) PROVE  Goal
    BY <1>0, <2>11 DEF DetachGet, SyncRange, SyncRow
  <2>12. ASSUME NEW c \in Detacher, DetachKill(c) PROVE  Goal
    BY <1>0, <2>12 DEF DetachKill, SyncRange, SyncRow
  <2>13. ASSUME NEW c \in Detacher, DetachCount(c) PROVE  Goal
    BY <1>0, <2>13 DEF DetachCount, SyncRange, SyncRow
  <2>14. ASSUME NEW c \in Detacher, DetachFreeze(c) PROVE  Goal
      BY <2>14, <1>2
  <2>15. ASSUME NEW c \in Detacher, DetachFlag(c) PROVE  Goal
    BY <1>0, <2>15 DEF DetachFlag, SyncRange, SyncRow
  <2>16. CASE Start
    BY <1>0, <2>16 DEF Start, SyncRange, SyncRow
  <2>17. CASE OwnWrite
    BY <1>0, <2>17 DEF OwnWrite, SyncRange, SyncRow
  <2>18. CASE ProcEnd
    BY <1>0, <2>18 DEF ProcEnd, SyncRange, SyncRow
  <2>19. CASE TerminalOpen
    BY <1>0, <2>19 DEF TerminalOpen, SyncRange, SyncRow
  <2>20. CASE TerminalWrite
    BY <1>0, <2>20 DEF TerminalWrite, SyncRange, SyncRow
  <2>21. CASE TerminalClose
    BY <1>0, <2>21 DEF TerminalClose, SyncRange, SyncRow
  <2>22. CASE Move
    BY <1>0, <2>22 DEF Move, SyncRange, SyncRow
  <2>23. CASE Crash
    BY <1>0, <2>23 DEF Crash, SyncRange, SyncRow
  <2>24. CASE UNCHANGED sync_vars
    BY <1>0, <2>24 DEF sync_vars, SyncRange, SyncRow
  <2> QED
    BY <2>1, <2>2, <2>3, <2>4, <2>5, <2>6, <2>7, <2>8, <2>9, <2>10, <2>11, <2>12, <2>13, <2>14, <2>15, <2>16, <2>17, <2>18, <2>19, <2>20, <2>21, <2>22, <2>23, <2>24, Zenon DEF SyncNext, FollowStep, DetachStep, ReconcileStep
<1> QED BY <1>3

\* A call leaves the place after its append by writing the watermark, or in a crash.
LEMMA MarkLeaves ==
    ASSUME SyncTypeOK, SyncPlaces, [SyncNext]_sync_vars, NEW c \in Caller, pc[c] = "mark",
           pc'[c] # "mark" \/ batch'[c] # batch[c]
    PROVE  (c \in Sender /\ RecMark(c)) \/ Crash
<1>0. SyncCalls /\ SyncPlaces /\ pc[c] = "mark" /\ (pc'[c] # "mark" \/ batch'[c] # batch[c])
  BY SyncSizes
<1> DEFINE Goal == (c \in Sender /\ RecMark(c)) \/ Crash
<1>3. Goal
  <2>1. ASSUME NEW d \in Sender, FollowLive(d) PROVE  Goal
    BY <1>0, <2>1 DEF FollowLive, At, Goto, Begin, Return, Caller, call_vars, SyncCalls, SyncPlaces
  <2>2. ASSUME NEW d \in Sender, FollowGet(d) PROVE  Goal
    BY <1>0, <2>2 DEF FollowGet, At, Goto, Begin, Return, Caller, call_vars, SyncCalls, SyncPlaces
  <2>3. ASSUME NEW d \in Sender, RecGet(d) PROVE  Goal
    BY <1>0, <2>3 DEF RecGet, At, Goto, Begin, Return, Caller, call_vars, SyncCalls, SyncPlaces
  <2>4. ASSUME NEW d \in Sender, RecLock(d) PROVE  Goal
    BY <1>0, <2>4 DEF RecLock, At, Goto, Begin, Return, Caller, call_vars, SyncCalls, SyncPlaces
  <2>5. ASSUME NEW d \in Sender, RecAppend(d) PROVE  Goal
    BY <1>0, <2>5 DEF RecAppend, At, Goto, Begin, Return, Caller, call_vars, SyncCalls, SyncPlaces
  <2>6. ASSUME NEW d \in Sender, RecMark(d) PROVE  Goal
    BY <1>0, <2>6 DEF RecMark, At, Goto, Begin, Return, Caller, call_vars, SyncCalls, SyncPlaces
  <2>7. ASSUME NEW d \in Sender, RecBump(d) PROVE  Goal
    BY <1>0, <2>7 DEF RecBump, At, Goto, Begin, Return, Caller, call_vars, SyncCalls, SyncPlaces
  <2>8. ASSUME NEW d \in Sender, FollowClear(d) PROVE  Goal
    BY <1>0, <2>8 DEF FollowClear, At, Goto, Begin, Return, Caller, call_vars, SyncCalls, SyncPlaces
  <2>9. ASSUME NEW d \in Sender, FollowQueue(d) PROVE  Goal
    BY <1>0, <2>9 DEF FollowQueue, At, Goto, Begin, Return, Caller, call_vars, SyncCalls, SyncPlaces
  <2>10. ASSUME NEW d \in Detacher, DetachAgain(d) PROVE  Goal
    BY <1>0, <2>10 DEF DetachAgain, At, Goto, Begin, Return, Caller, call_vars, SyncCalls, SyncPlaces
  <2>11. ASSUME NEW d \in Detacher, DetachGet(d) PROVE  Goal
    BY <1>0, <2>11 DEF DetachGet, At, Goto, Begin, Return, Caller, call_vars, SyncCalls, SyncPlaces
  <2>12. ASSUME NEW d \in Detacher, DetachKill(d) PROVE  Goal
    BY <1>0, <2>12 DEF DetachKill, At, Goto, Begin, Return, Caller, call_vars, SyncCalls, SyncPlaces
  <2>13. ASSUME NEW d \in Detacher, DetachCount(d) PROVE  Goal
    BY <1>0, <2>13 DEF DetachCount, At, Goto, Begin, Return, Caller, call_vars, SyncCalls, SyncPlaces
  <2>14. ASSUME NEW d \in Detacher, DetachFreeze(d) PROVE  Goal
    BY <1>0, <2>14 DEF DetachFreeze, At, Goto, Begin, Return, Caller, call_vars, SyncCalls, SyncPlaces
  <2>15. ASSUME NEW d \in Detacher, DetachFlag(d) PROVE  Goal
    BY <1>0, <2>15 DEF DetachFlag, At, Goto, Begin, Return, Caller, call_vars, SyncCalls, SyncPlaces
  <2>16. CASE Start
    BY <1>0, <2>16 DEF Start, At, Goto, Begin, Return, Caller, call_vars, SyncCalls, SyncPlaces
  <2>17. CASE OwnWrite
    BY <1>0, <2>17 DEF OwnWrite, At, Goto, Begin, Return, Caller, call_vars, SyncCalls, SyncPlaces
  <2>18. CASE ProcEnd
    BY <1>0, <2>18 DEF ProcEnd, At, Goto, Begin, Return, Caller, call_vars, SyncCalls, SyncPlaces
  <2>19. CASE TerminalOpen
    BY <1>0, <2>19 DEF TerminalOpen, At, Goto, Begin, Return, Caller, call_vars, SyncCalls, SyncPlaces
  <2>20. CASE TerminalWrite
    BY <1>0, <2>20 DEF TerminalWrite, At, Goto, Begin, Return, Caller, call_vars, SyncCalls, SyncPlaces
  <2>21. CASE TerminalClose
    BY <1>0, <2>21 DEF TerminalClose, At, Goto, Begin, Return, Caller, call_vars, SyncCalls, SyncPlaces
  <2>22. CASE Move
    BY <1>0, <2>22 DEF Move, At, Goto, Begin, Return, Caller, call_vars, SyncCalls, SyncPlaces
  <2>23. CASE Crash
    BY <1>0, <2>23 DEF Crash, At, Goto, Begin, Return, Caller, call_vars, SyncCalls, SyncPlaces
  <2>24. CASE UNCHANGED sync_vars
    BY <1>0, <2>24 DEF sync_vars, At, Goto, Begin, Return, Caller, call_vars, SyncCalls, SyncPlaces
  <2> QED
    BY <2>1, <2>2, <2>3, <2>4, <2>5, <2>6, <2>7, <2>8, <2>9, <2>10, <2>11, <2>12, <2>13, <2>14, <2>15, <2>16, <2>17, <2>18, <2>19, <2>20, <2>21, <2>22, <2>23, <2>24, Zenon DEF SyncNext, FollowStep, DetachStep, ReconcileStep
<1> QED BY <1>3

\* A call that is to append took the lock now, or waits to append what it read.
LEMMA AppendStays ==
    ASSUME SyncTypeOK, SyncPlaces, [SyncNext]_sync_vars, NEW c \in Caller, pc'[c] = "append"
    PROVE  RecLock(c) \/ (pc[c] = "append" /\ batch'[c] = batch[c] /\ ~TerminalWrite /\ ~RecAppend(c))
<1>0. SyncCalls /\ SyncPlaces /\ pc'[c] = "append" /\ c \in Caller
  BY SyncSizes
<1>1. ~RecAppend(c)
  BY <1>0 DEF RecAppend, Goto, SyncCalls
<1>2. pc[c] = "append" => ~TerminalWrite
  BY <1>0 DEF TerminalWrite, SyncPlaces
<1> DEFINE Goal == RecLock(c) \/ (pc[c] = "append" /\ batch'[c] = batch[c])
<1>3. Goal
  <2>1. ASSUME NEW d \in Sender, FollowLive(d) PROVE  Goal
    BY <1>0, <2>1 DEF FollowLive, At, Goto, Begin, Return, Caller, call_vars, SyncCalls
  <2>2. ASSUME NEW d \in Sender, FollowGet(d) PROVE  Goal
    BY <1>0, <2>2 DEF FollowGet, At, Goto, Begin, Return, Caller, call_vars, SyncCalls
  <2>3. ASSUME NEW d \in Sender, RecGet(d) PROVE  Goal
    BY <1>0, <2>3 DEF RecGet, AfterImport, At, Goto, Begin, Return, Caller, call_vars, SyncCalls
  <2>4. ASSUME NEW d \in Sender, RecLock(d) PROVE  Goal
    BY <1>0, <2>4 DEF RecLock, At, Goto, Begin, Return, Caller, call_vars, SyncCalls
  <2>5. ASSUME NEW d \in Sender, RecAppend(d) PROVE  Goal
    BY <1>0, <2>5 DEF RecAppend, At, Goto, Begin, Return, Caller, call_vars, SyncCalls
  <2>6. ASSUME NEW d \in Sender, RecMark(d) PROVE  Goal
    BY <1>0, <2>6 DEF RecMark, At, Goto, Begin, Return, Caller, call_vars, SyncCalls
  <2>7. ASSUME NEW d \in Sender, RecBump(d) PROVE  Goal
    BY <1>0, <2>7 DEF RecBump, AfterImport, At, Goto, Begin, Return, Caller, call_vars, SyncCalls
  <2>8. ASSUME NEW d \in Sender, FollowClear(d) PROVE  Goal
    BY <1>0, <2>8 DEF FollowClear, At, Goto, Begin, Return, Caller, call_vars, SyncCalls
  <2>9. ASSUME NEW d \in Sender, FollowQueue(d) PROVE  Goal
    BY <1>0, <2>9 DEF FollowQueue, At, Goto, Begin, Return, Caller, call_vars, SyncCalls
  <2>10. ASSUME NEW d \in Detacher, DetachAgain(d) PROVE  Goal
    BY <1>0, <2>10 DEF DetachAgain, At, Goto, Begin, Return, Caller, call_vars, SyncCalls
  <2>11. ASSUME NEW d \in Detacher, DetachGet(d) PROVE  Goal
    BY <1>0, <2>11 DEF DetachGet, At, Goto, Begin, Return, Caller, call_vars, SyncCalls
  <2>12. ASSUME NEW d \in Detacher, DetachKill(d) PROVE  Goal
    BY <1>0, <2>12 DEF DetachKill, At, Goto, Begin, Return, Caller, call_vars, SyncCalls
  <2>13. ASSUME NEW d \in Detacher, DetachCount(d) PROVE  Goal
    BY <1>0, <2>13 DEF DetachCount, At, Goto, Begin, Return, Caller, call_vars, SyncCalls
  <2>14. ASSUME NEW d \in Detacher, DetachFreeze(d) PROVE  Goal
    BY <1>0, <2>14 DEF DetachFreeze, At, Goto, Begin, Return, Caller, call_vars, SyncCalls
  <2>15. ASSUME NEW d \in Detacher, DetachFlag(d) PROVE  Goal
    BY <1>0, <2>15 DEF DetachFlag, At, Goto, Begin, Return, Caller, call_vars, SyncCalls
  <2>16. CASE Start
    BY <1>0, <2>16 DEF Start, At, Goto, Begin, Return, Caller, call_vars, SyncCalls
  <2>17. CASE OwnWrite
    BY <1>0, <2>17 DEF OwnWrite, At, Goto, Begin, Return, Caller, call_vars, SyncCalls
  <2>18. CASE ProcEnd
    BY <1>0, <2>18 DEF ProcEnd, At, Goto, Begin, Return, Caller, call_vars, SyncCalls
  <2>19. CASE TerminalOpen
    BY <1>0, <2>19 DEF TerminalOpen, At, Goto, Begin, Return, Caller, call_vars, SyncCalls
  <2>20. CASE TerminalWrite
    BY <1>0, <2>20 DEF TerminalWrite, At, Goto, Begin, Return, Caller, call_vars, SyncCalls
  <2>21. CASE TerminalClose
    BY <1>0, <2>21 DEF TerminalClose, At, Goto, Begin, Return, Caller, call_vars, SyncCalls
  <2>22. CASE Move
    BY <1>0, <2>22 DEF Move, At, Goto, Begin, Return, Caller, call_vars, SyncCalls
  <2>23. CASE Crash
    BY <1>0, <2>23 DEF Crash, At, Goto, Begin, Return, Caller, call_vars, SyncCalls
  <2>24. CASE UNCHANGED sync_vars
    BY <1>0, <2>24 DEF sync_vars, At, Goto, Begin, Return, Caller, call_vars, SyncCalls
  <2> QED
    BY <2>1, <2>2, <2>3, <2>4, <2>5, <2>6, <2>7, <2>8, <2>9, <2>10, <2>11, <2>12, <2>13, <2>14, <2>15, <2>16, <2>17, <2>18, <2>19, <2>20, <2>21, <2>22, <2>23, <2>24, Zenon DEF SyncNext, FollowStep, DetachStep, ReconcileStep
<1> QED BY <1>1, <1>2, <1>3

\* A line is appended when it lies above the watermark, and the watermark passes it before
\* anybody imports again; a crash in between is counted.
LEMMA OnceStep ==
    ASSUME SyncBase, SyncBase', Covered, Once, [SyncNext]_sync_vars
    PROVE  Once'
<1> SUFFICES ASSUME missed' = 0
             PROVE  /\ \A i \in Ids : FromTerminal(i)' => rendered'[i] <= 1 + torn'
                    /\ \A n \in 1..Len(native') :
                         FromTerminal(native[n])' /\ n > row'.mark /\ ~InFlight(native[n])'
                           => rendered'[native'[n]] <= torn'
                    /\ \A c \in Caller : pc'[c] = "append" =>
                         \A i \in batch'[c].ids : FromTerminal(i)' => rendered'[i] <= torn'
  BY DEF Once
<1>0. SyncTypeOK /\ SyncPlaces /\ Written /\ SyncRange /\ SyncFiles /\ SyncCalls /\ SyncBounds
      /\ Len(native) \in Nat /\ (\A c \in Sender : c \notin Detacher) /\ row.mark \in Nat
      /\ missed \in Nat /\ torn \in Nat /\ None \notin Caller
      /\ \A i \in Ids : rendered[i] \in Nat
  BY SyncSizes DEF SyncBase
<1>1. /\ missed' = missed \/ missed' = missed + 1
      /\ torn' = torn \/ Crash
  BY DEF SyncNext, FollowStep, DetachStep, ReconcileStep, FollowLive, FollowGet, RecGet, RecLock, RecAppend, RecMark, RecBump, FollowClear, FollowQueue, DetachAgain, DetachGet, DetachKill, DetachCount, DetachFreeze, DetachFlag, Start, OwnWrite, ProcEnd, TerminalOpen, TerminalWrite, TerminalClose, Move, Crash, sync_vars, history, Begin
<1>2. missed = 0 /\ missed' = missed
  BY <1>0, <1>1
<1>3. /\ \A i \in Ids : FromTerminal(i) => rendered[i] <= 1 + torn
      /\ \A n \in 1..Len(native) :
           FromTerminal(native[n]) /\ n > row.mark /\ ~InFlight(native[n]) => rendered[native[n]] <= torn
      /\ \A c \in Caller : pc[c] = "append" =>
           \A i \in batch[c].ids : FromTerminal(i) => rendered[i] <= torn
  BY <1>2 DEF Once
<1>4. torn' \in Nat /\ torn <= torn' /\ (Crash => torn' = torn \/ torn' = torn + 1)
  BY <1>0, <1>1, OneMarks DEF Crash
\* What an import appends was shown once less.
<1>5. ASSUME NEW c \in Sender, RecAppend(c), NEW i \in batch[c].ids, FromTerminal(i)
      PROVE  rendered[i] <= torn /\ pc[c] = "append" /\ pc' = [pc EXCEPT ![c] = "mark"] /\ batch' = batch
  BY <1>3, <1>5 DEF RecAppend, At, Goto, Caller
<1>6. ASSUME NEW i \in Ids, FromTerminal(i)' PROVE rendered'[i] <= 1 + torn'
  <2>1. rendered[i] \in Nat
    BY <1>0
  <2>2. CASE FromTerminal(i) /\ rendered'[i] = rendered[i]
    BY <1>0, <1>3, <1>4, <2>1, <2>2
  <2>3. CASE rendered[i] = 0
    BY <1>0, <1>4, <2>3, TerminalLines, <1>6
  <2>4. CASE FromTerminal(i) /\ rendered'[i] = rendered[i] + 1 /\ \E c \in Sender : RecAppend(c) /\ i \in batch[c].ids
    BY <1>0, <1>4, <1>5, <2>1, <2>4
  <2> QED BY <1>0, <1>6, <2>2, <2>3, <2>4, TerminalLines
<1>7. ASSUME NEW n \in 1..Len(native'), FromTerminal(native[n])', n > row'.mark, ~InFlight(native[n])'
      PROVE  rendered'[native'[n]] <= torn'
  <2>1. CASE TerminalWrite
    <3>1. /\ row' = row /\ rendered' = rendered /\ torn' = torn /\ pc' = pc /\ batch' = batch
          /\ \A c \in Caller : pc[c] = "idle"
      BY <1>0, <2>1 DEF TerminalWrite, SyncPlaces, call_vars, history
    <3>2. PICK k \in Kind : Write("term", k)
      BY <2>1 DEF TerminalWrite, Kind
    <3>3. /\ Len(native') = Len(native) + 1 /\ native'[Len(native) + 1] = Now + 1 /\ Now + 1 \in Ids
          /\ \A m \in 1..Len(native) : native'[m] = native[m]
          /\ \A i \in Ids : i # Now + 1 => made'[i] = made[i]
      BY <1>0, <3>2, WriteStep
    <3>4. CASE n = Len(native) + 1
      <4>1. rendered[Now + 1] = 0
        BY <1>0, <3>3, NowRange DEF Written
      <4> QED BY <1>4, <3>1, <3>3, <3>4, <4>1
    <3>5. CASE n \in 1..Len(native)
      <4>1. native'[n] = native[n] /\ native[n] \in Ids /\ native[n] <= Now /\ Now \in Nat
        BY <1>0, <3>3, <3>5, ElementOfSeq, NowRange DEF SyncFiles, Written
      <4>2. made'[native[n]] = made[native[n]]
        BY <3>3, <4>1
      <4>3. FromTerminal(native[n])
        BY <1>7, <4>1, <4>2 DEF FromTerminal
      <4>4. ~InFlight(native[n])
        BY <3>1 DEF InFlight
      <4> QED BY <1>3, <1>7, <3>1, <3>5, <4>1, <4>3, <4>4
    <3> QED BY <1>0, <3>3, <3>4, <3>5
  <2>2. CASE ~TerminalWrite
    <3>1. n \in 1..Len(native) /\ FromTerminal(native[n]) /\ native'[n] = native[n] /\ native[n] \in Ids
      BY <1>0, <1>7, <2>2, CoversStay
    <3>2. PICK i \in Ids : i = native[n]
      BY <3>1
    <3>3. made'[i][1] = "term" /\ ~(\E c \in Caller : pc'[c] = "mark" /\ i \in batch'[c].ids)
      BY <1>7, <3>1, <3>2 DEF InFlight, FromTerminal
    <3>4. rendered[i] \in Nat /\ rendered[i] <= 1 + torn /\ FromTerminal(i)'
      BY <1>0, <1>3, <3>1, <3>2, <3>3 DEF FromTerminal
    <3>5. rendered'[i] = rendered[i]
      <4>1. ASSUME NEW c \in Sender, RecAppend(c), i \in batch[c].ids PROVE FALSE
        BY <1>0, <3>3, <4>1 DEF RecAppend, Goto, At, Caller, SyncCalls
      <4>2. \/ rendered'[i] = rendered[i]
            \/ \E c \in Sender : RecAppend(c) /\ i \in batch[c].ids
        BY <1>0, <3>4, TerminalLines
      <4> QED BY <4>1, <4>2
    <3>6. CASE n > row.mark /\ ~InFlight(i)
      BY <1>0, <1>3, <1>4, <3>1, <3>2, <3>4, <3>5, <3>6
    <3>7. CASE row'.mark # row.mark
      <4>1. \E k \in Nat : Covers(k) /\ row'.mark = k
        BY <1>0, <1>2, <3>7, MarkMoves
      <4> QED BY <1>7, <3>1, <4>1 DEF Covers
    <3>8. CASE InFlight(i) /\ row'.mark = row.mark
      <4>1. PICK c \in Caller : pc[c] = "mark" /\ i \in batch[c].ids
        BY <3>8 DEF InFlight
      <4>2. pc'[c] # "mark" \/ batch'[c] # batch[c]
        BY <3>3, <4>1
      <4>3. (c \in Sender /\ RecMark(c)) \/ Crash
        BY <1>0, <4>1, <4>2, MarkLeaves
      <4>4. CASE Crash
        <5>1. torn' = torn + 1
          BY <1>0, <4>1, <4>4, OneMarks DEF Crash, At
        <5> QED BY <1>0, <3>1, <3>2, <3>4, <3>5, <5>1
      <4>5. CASE c \in Sender /\ RecMark(c)
        <5>1. Covers(batch[c].total) /\ row'.mark = batch[c].total
          BY <1>0, <1>2, <4>1, <4>5 DEF RecMark, Covered, SyncRange, SyncRow
        <5> QED BY <1>0, <1>7, <3>1, <5>1, SyncSizes DEF Covers, Caller
      <4> QED BY <4>3, <4>4, <4>5
    <3> QED BY <1>0, <1>7, <3>2, <3>6, <3>7, <3>8
  <2> QED BY <2>1, <2>2
<1>8. ASSUME NEW c \in Caller, pc'[c] = "append", NEW i \in batch'[c].ids, FromTerminal(i)'
      PROVE  rendered'[i] <= torn'
  <2>1. RecLock(c) \/ (pc[c] = "append" /\ batch'[c] = batch[c] /\ ~TerminalWrite /\ ~RecAppend(c))
    BY <1>0, <1>8, AppendStays
  <2>2. CASE RecLock(c)
    <3>1. /\ native' = native /\ made' = made /\ rendered' = rendered /\ torn' = torn /\ lock = None
          /\ batch'[c] = ReadFrom(row.mark)
      BY <1>0, <2>2 DEF RecLock, files, SyncCalls
    <3>2. PICK n \in (row.mark + 1)..Len(native) : i = native[n]
      BY <1>8, <3>1 DEF ReadFrom, NoBatch
    <3>3. FromTerminal(i) /\ ~InFlight(i)
      BY <1>0, <1>8, <3>1 DEF FromTerminal, InFlight, SyncPlaces
    <3> QED BY <1>0, <1>3, <3>1, <3>2, <3>3
  <2>3. CASE pc[c] = "append" /\ batch'[c] = batch[c] /\ ~TerminalWrite /\ ~RecAppend(c)
    <3>1. i \in batch[c].ids /\ i \in Ids
      BY <1>0, <1>8, <2>3 DEF SyncCalls
    <3>2. FromTerminal(i)
      BY <1>0, <1>8, <2>3, <3>1, TerminalLines
    <3>3. ASSUME NEW d \in Sender, RecAppend(d) PROVE FALSE
      BY <1>0, <2>3, <3>3 DEF RecAppend, At, SyncPlaces, Caller
    <3>4. rendered'[i] = rendered[i]
      BY <1>0, <1>8, <3>1, <3>3, TerminalLines
    <3> QED BY <1>0, <1>3, <1>4, <2>3, <3>1, <3>2, <3>4
  <2> QED BY <2>1, <2>2, <2>3
<1> QED BY <1>6, <1>7, <1>8

-----------------------------------------------------------------------------
(* The theorems. *)

SyncInv == SyncBase /\ Seen /\ Covered /\ Once

\* An idle session whose one line is imported.
LEMMA SyncStart == SyncInit => SyncInv
<1> SUFFICES ASSUME SyncInit PROVE SyncInv
  OBVIOUS
<1>1. /\ 1 \in Ids /\ Caller = Sender \cup Detacher /\ None \notin Caller
      /\ {MaxLines, MaxCalls, MaxCrashes, MaxLoss, MaxFresh} \subseteq Nat
  BY SyncAssumption DEF SyncAssumption, Ids, Caller, None
<1>2. Now = 1
  <2>1. { i \in Ids : made[i] # Unwritten } = {1}
    BY <1>1 DEF SyncInit, Unwritten, None
  <2> QED BY <2>1, FS_Singleton DEF Now
<1>3. /\ native = <<1>> /\ Len(native) = 1 /\ native[1] = 1 /\ native \in Seq(Ids)
      /\ row = [st |-> "done", det |-> FALSE, mark |-> 1, last |-> 1]
      /\ rendered = [i \in Ids |-> IF i = 1 THEN 1 ELSE 0]
      /\ missed = 0 /\ torn = 0
  <2>1. native = <<1>>
    BY DEF SyncInit
  <2>2. Len(native) = 1 /\ native[1] = 1 /\ native \in Seq(Ids)
    BY <1>1, <2>1
  <2>3. /\ row = [st |-> "done", det |-> FALSE, mark |-> 1, last |-> 1]
        /\ rendered = [i \in Ids |-> IF i = 1 THEN 1 ELSE 0]
        /\ missed = 0 /\ torn = 0
    BY DEF SyncInit, Blank
  <2> QED BY <2>1, <2>2, <2>3
<1>4. \A c \in Caller : pc[c] = "idle" /\ seen[c] = Blank /\ batch[c] = NoBatch
  BY DEF SyncInit
<1>5. SyncTypeOK
  <2>1. 0 \in Instant /\ 1 \in Instant
    BY <1>1 DEF Instant, Ids
  <2>2. Blank \in SyncRow /\ NoBatch \in [ids : SUBSET Ids, total : Instant] /\ "idle" \in Place
    BY <2>1 DEF Blank, NoBatch, SyncRow, Status, Place
  <2>3. SyncRange
    <3>1. row \in SyncRow
      BY <1>3, <2>1 DEF SyncRow, Status
    <3> QED BY <3>1 DEF SyncInit, SyncRange
  <2>4. made \in [Ids -> {Unwritten} \cup ({"own", "term"} \X Kind)] /\ rendered \in [Ids -> Nat]
    BY <1>3 DEF SyncInit, Kind
  <2>5. SyncCalls
    BY <2>1, <2>2 DEF SyncInit, SyncCalls
  <2>6. SyncBounds
    BY <1>1 DEF SyncInit, SyncBounds
  <2> QED BY <1>3, <2>3, <2>4, <2>5, <2>6, SyncTypeParts DEF SyncFiles
<1>6. SyncPlaces
  BY <1>1, <1>4 DEF SyncInit, SyncPlaces
<1>7. Written
  BY <1>1, <1>2, <1>3, <1>4 DEF SyncInit, Written, NoBatch, Ids, Unwritten, None
<1>8. Reached
  BY <1>3, <1>4 DEF Reached, Blank, NoBatch
<1>9. \A n \in 1..Len(native) : n = 1 /\ Shown(native[n])
  BY <1>1, <1>3 DEF Shown
<1>10. Seen
  BY <1>1, <1>4, <1>9 DEF Seen, AllShown
<1>11. Covered
  BY <1>1, <1>3, <1>4 DEF Covered, Covers
<1>12. Once
  <2>1. \A i \in Ids : rendered[i] \in {0, 1}
    BY <1>3
  <2>2. ~ (\E n \in 1..Len(native) : n > row.mark)
    BY <1>3
  <2> QED BY <1>1, <1>3, <1>4, <2>1, <2>2 DEF Once
<1> QED BY <1>5, <1>6, <1>7, <1>8, <1>10, <1>11, <1>12 DEF SyncInv, SyncBase

\* Every step keeps the invariant.
LEMMA SyncKeeps == SyncInv /\ [SyncNext]_sync_vars => SyncInv'
<1> SUFFICES ASSUME SyncInv, [SyncNext]_sync_vars PROVE SyncInv'
  OBVIOUS
<1>0. SyncBase /\ SyncTypeOK /\ SyncPlaces /\ Written /\ Reached /\ Seen /\ Covered /\ Once
  BY DEF SyncInv, SyncBase
<1>1. SyncRange' /\ SyncFiles' /\ SyncCalls' /\ SyncBounds'
  BY <1>0, SyncRangeStep, SyncFilesStep, SyncCallsStep, SyncBoundsStep
<1>2. SyncTypeOK'
  BY <1>1 DEF SyncTypeOK, SyncRange, SyncFiles, SyncCalls, SyncBounds
<1>3. SyncBase'
  BY <1>0, <1>2, SyncPlacesStep, SyncWrittenStep, ReachedStep DEF SyncBase
<1> QED BY <1>0, <1>3, SeenStep, CoveredStep, OnceStep DEF SyncInv

\* SyncPlaces of the callers, the order of the lines, what the watermarks reached and what the
\* log shows: in every state of the session (native_sync.rs, follow_up, detach_session).
THEOREM SyncInvariant == SyncSpec => []SyncInv
BY SyncStart, SyncKeeps, PTL DEF SyncSpec

\* Every variable of the transcript's two writers and its importers keeps its type.
THEOREM SyncTypes == SyncSpec => []SyncTypeOK
<1>1. SyncInv => SyncTypeOK
  BY DEF SyncInv, SyncBase
<1> QED BY <1>1, SyncInvariant, PTL

\* What lies below the watermark can be seen in the log, unless an import missed the file or
\* claude began another transcript.
THEOREM MarkSkipsNothing == SyncSpec => []NothingSkipped
<1>1. SyncInv => NothingSkipped
  <2> SUFFICES ASSUME SyncInv, missed = 0, ~renewed
               PROVE  \A n \in DOMAIN native : n <= row.mark => Shown(native[n])
    BY DEF NothingSkipped
  <2>1. DOMAIN native = 1..Len(native)
    BY SyncTypeParts DEF SyncInv, SyncBase, SyncFiles
  <2> QED BY <2>1 DEF SyncInv, Seen
<1> QED BY <1>1, SyncInvariant, PTL

\* A line of the terminal is in the log once, and once more per crash between an append and
\* its watermark, unless an import missed the file.
THEOREM TerminalLinesOnce == SyncSpec => []ImportedOnce
<1>1. SyncInv => ImportedOnce
  BY DEF SyncInv, Once, ImportedOnce, FromTerminal
<1> QED BY <1>1, SyncInvariant, PTL

\* A session is taken back by the step that clears `detached`, and only after an import that
\* left nothing hidden.
THEOREM ReclaimShowsAll == SyncSpec => ReclaimComplete
<1> DEFINE Complete == row.det /\ ~row'.det /\ missed = 0 /\ ~renewed => \A i \in Range(native) : Shown(i)
<1>1. SyncInv /\ [SyncNext]_sync_vars => Complete
  <2> SUFFICES ASSUME SyncInv, [SyncNext]_sync_vars, row.det, ~row'.det, missed = 0, ~renewed
               PROVE  \A i \in Range(native) : Shown(i)
    OBVIOUS
  <2>1. \E c \in Sender : FollowClear(c)
    <3> DEFINE Goal == \E c \in Sender : FollowClear(c)
    <3>0. row \in SyncRow
      BY SyncTypeParts DEF SyncInv, SyncBase, SyncRange
    <3>1. ASSUME NEW c \in Sender, FollowLive(c) PROVE  Goal
      BY <3>0, <3>1 DEF FollowLive, At, Goto, Begin, Return, SyncRow
    <3>2. ASSUME NEW c \in Sender, FollowGet(c) PROVE  Goal
      BY <3>0, <3>2 DEF FollowGet, At, Goto, Begin, Return, SyncRow
    <3>3. ASSUME NEW c \in Sender, RecGet(c) PROVE  Goal
      BY <3>0, <3>3 DEF RecGet, At, Goto, Begin, Return, SyncRow
    <3>4. ASSUME NEW c \in Sender, RecLock(c) PROVE  Goal
      BY <3>0, <3>4 DEF RecLock, At, Goto, Begin, Return, SyncRow
    <3>5. ASSUME NEW c \in Sender, RecAppend(c) PROVE  Goal
      BY <3>0, <3>5 DEF RecAppend, At, Goto, Begin, Return, SyncRow
    <3>6. ASSUME NEW c \in Sender, RecMark(c) PROVE  Goal
      BY <3>0, <3>6 DEF RecMark, At, Goto, Begin, Return, SyncRow
    <3>7. ASSUME NEW c \in Sender, RecBump(c) PROVE  Goal
      BY <3>0, <3>7 DEF RecBump, At, Goto, Begin, Return, SyncRow
    <3>8. ASSUME NEW c \in Sender, FollowClear(c) PROVE  Goal
        BY <3>8
    <3>9. ASSUME NEW c \in Sender, FollowQueue(c) PROVE  Goal
      BY <3>0, <3>9 DEF FollowQueue, At, Goto, Begin, Return, SyncRow
    <3>10. ASSUME NEW c \in Detacher, DetachAgain(c) PROVE  Goal
      BY <3>0, <3>10 DEF DetachAgain, At, Goto, Begin, Return, SyncRow
    <3>11. ASSUME NEW c \in Detacher, DetachGet(c) PROVE  Goal
      BY <3>0, <3>11 DEF DetachGet, At, Goto, Begin, Return, SyncRow
    <3>12. ASSUME NEW c \in Detacher, DetachKill(c) PROVE  Goal
      BY <3>0, <3>12 DEF DetachKill, At, Goto, Begin, Return, SyncRow
    <3>13. ASSUME NEW c \in Detacher, DetachCount(c) PROVE  Goal
      BY <3>0, <3>13 DEF DetachCount, At, Goto, Begin, Return, SyncRow
    <3>14. ASSUME NEW c \in Detacher, DetachFreeze(c) PROVE  Goal
      BY <3>0, <3>14 DEF DetachFreeze, At, Goto, Begin, Return, SyncRow
    <3>15. ASSUME NEW c \in Detacher, DetachFlag(c) PROVE  Goal
      BY <3>0, <3>15 DEF DetachFlag, At, Goto, Begin, Return, SyncRow
    <3>16. CASE Start
      BY <3>0, <3>16 DEF Start, At, Goto, Begin, Return, SyncRow
    <3>17. CASE OwnWrite
      BY <3>0, <3>17 DEF OwnWrite, At, Goto, Begin, Return, SyncRow
    <3>18. CASE ProcEnd
      BY <3>0, <3>18 DEF ProcEnd, At, Goto, Begin, Return, SyncRow
    <3>19. CASE TerminalOpen
      BY <3>0, <3>19 DEF TerminalOpen, At, Goto, Begin, Return, SyncRow
    <3>20. CASE TerminalWrite
      BY <3>0, <3>20 DEF TerminalWrite, At, Goto, Begin, Return, SyncRow
    <3>21. CASE TerminalClose
      BY <3>0, <3>21 DEF TerminalClose, At, Goto, Begin, Return, SyncRow
    <3>22. CASE Move
      BY <3>0, <3>22 DEF Move, At, Goto, Begin, Return, SyncRow
    <3>23. CASE Crash
      BY <3>0, <3>23 DEF Crash, At, Goto, Begin, Return, SyncRow
    <3>24. CASE UNCHANGED sync_vars
      BY <3>0, <3>24 DEF sync_vars, At, Goto, Begin, Return, SyncRow
    <3> QED
      BY <3>1, <3>2, <3>3, <3>4, <3>5, <3>6, <3>7, <3>8, <3>9, <3>10, <3>11, <3>12, <3>13, <3>14, <3>15, <3>16, <3>17, <3>18, <3>19, <3>20, <3>21, <3>22, <3>23, <3>24, Zenon DEF SyncNext, FollowStep, DetachStep, ReconcileStep
  <2>2. Range(native) = { native[n] : n \in 1..Len(native) }
    BY SyncTypeParts DEF SyncInv, SyncBase, SyncFiles, Range
  <2> QED BY <2>1, <2>2 DEF SyncInv, Seen, AllShown, FollowClear, At
<1> QED BY <1>1, SyncInvariant, PTL DEF SyncSpec, ReclaimComplete

=============================================================================
