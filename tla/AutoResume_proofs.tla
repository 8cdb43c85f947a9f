-------------------------- MODULE AutoResume_proofs --------------------------
(***************************************************************************)
(* Theorems about AutoResume, for every number of passes of the scheduler, *)
(* of users' calls, limits and restarts, and every length of a limit.      *)
(***************************************************************************)
EXTENDS AutoResume, TLAPS

\* The places of a caller that is sending a follow-up.
Sending == {"get", "live", "inject", "pending", "patch", "push"}

\* A pass claims only a schedule it saw due.
ClaimsDue == \A c \in Ticker : pc[c] = "claim" => snap[c] = 0

\* While a pass sends, the row has no schedule that is due, so that no other can claim one.
NotDueWhileSent == \A c \in Ticker : pc[c] \in Sending => row.at # 0

OneSender == \A c, d \in Ticker : pc[c] \in Sending /\ pc[d] \in Sending => c = d

\* The error is cleared before the message goes out.
ClearedBeforeSent ==
    \A c \in Ticker \cap owners : pc[c] \in {"inject", "push"} => row.kind # "usage_limit"

\* An error that stands was answered by no resume, and neither was one whose resume is on
\* its way.
Unanswered ==
    /\ row.kind = "usage_limit" => fired = 0
    /\ \A c \in Ticker \cap owners : pc[c] \in Sending => fired = 0

-----------------------------------------------------------------------------
(* Types. *)

\* The instants a schedule can be at: none, a fallback that a call shortens by a minute at
\* most, a reset and its buffer.
LEMMA Instants ==
    /\ None \in Instant /\ 0 \in Instant
    /\ \A n \in 0..Fallback : n \in Instant
    /\ \A n \in 0..MaxReset : n + Buffer \in Instant
    /\ \A t \in Instant : Sooner(t) \in Instant
    /\ \A t \in {None} \cup 0..MaxReset : Sooner(t) \in {None} \cup 0..MaxReset
BY ResumeAssumption DEF ResumeAssumption, Instant, None, Later, Buffer, Sooner

LEMMA TypeInit == Init => TypeOK
<1> SUFFICES ASSUME Init PROVE TypeOK
  OBVIOUS
<1> USE ResumeAssumption DEF ResumeAssumption
<1>1. row \in ResumeRow
  BY Instants DEF Init, ResumeRow, Status, Kind
<1>2. exiting \in BOOLEAN /\ delegating \in BOOLEAN /\ stopped \in BOOLEAN
  BY Zenon DEF Init
<1>3. /\ proc \in {"none", "turn", "parked", "stopping"} /\ queue \in Nat
      /\ resetAt \in 0..MaxReset /\ epoch \in {None} \cup 0..MaxReset
      /\ calls \in 0..MaxCalls /\ limits \in 0..MaxLimits /\ restarts \in 0..MaxRestarts
      /\ owners \subseteq Ticker /\ fired \in Nat
  BY DEF Init
<1>4. /\ pc \in [Caller -> Place] /\ snap \in [Caller -> Instant]
      /\ age \in [Caller -> 0..1] /\ target \in [Caller -> {None} \cup 0..MaxReset]
  BY Instants DEF Init, Place
<1> QED BY <1>1, <1>2, <1>3, <1>4 DEF TypeOK

\* Every step keeps the types.
LEMMA TypeNext ==
    ASSUME TypeOK, [Next]_vars
    PROVE  TypeOK'
<1> USE ResumeAssumption, Instants DEF ResumeAssumption, TypeOK, ResumeRow, Kind, Place,
        proc_vars, env_vars, call_vars, bound_vars, history, At, Goto, Return
<1>1. ASSUME NEW c \in Ticker, TickList(c) PROVE TypeOK'
  BY <1>1 DEF TickList
<1>2. ASSUME NEW c \in Ticker, TickUsage(c) PROVE TypeOK'
  <2>1. c \in Caller
    BY DEF Caller
  <2>2. PICK t \in {None} \cup 0..MaxReset : target' = [target EXCEPT ![c] = t]
    BY <1>2 DEF TickUsage
  <2>3. target' \in [Caller -> {None} \cup 0..MaxReset]
    BY <2>1, <2>2
  <2>4. pc' \in [Caller -> Place]
    BY <1>2, <2>1 DEF TickUsage
  <2> QED BY <1>2, <2>3, <2>4 DEF TickUsage
<1>3. ASSUME NEW c \in Ticker, TickSchedule(c) PROVE TypeOK'
  <2>1. c \in Caller
    BY DEF Caller
  <2>2. ResumeAt(c) \in Instant
    <3>1. age[c] \in 0..1 /\ target[c] \in {None} \cup 0..MaxReset
      BY <2>1
    <3>2. Fallback - age[c] \in 0..Fallback
      BY <3>1
    <3>3. target[c] # None => target[c] + Buffer \in Instant
      BY <3>1
    <3> QED BY <3>2, <3>3 DEF ResumeAt
  <2>3. row' \in ResumeRow
    BY <1>3, <2>2 DEF TickSchedule
  <2>4. pc' \in [Caller -> Place] /\ snap' \in [Caller -> Instant]
    BY <1>3, <2>1 DEF TickSchedule
  <2>5. age' \in [Caller -> 0..1] /\ target' \in [Caller -> {None} \cup 0..MaxReset]
    BY <1>3, <2>1 DEF TickSchedule
  <2> QED BY <1>3, <2>3, <2>4, <2>5 DEF TickSchedule
<1>4. ASSUME NEW c \in Ticker, TickClaim(c) PROVE TypeOK'
  BY <1>4 DEF TickClaim
<1>5. ASSUME NEW c \in Caller, FollowUpGet(c) PROVE TypeOK'
  BY <1>5 DEF FollowUpGet
<1>6. ASSUME NEW c \in Caller, FollowUpLive(c) PROVE TypeOK'
  BY <1>6 DEF FollowUpLive
<1>7. ASSUME NEW c \in Caller, FollowUpInject(c) PROVE TypeOK'
  <2>1. stopped' \in BOOLEAN
    BY <1>7, Zenon DEF FollowUpInject, Sent
  <2>2. fired' \in Nat
    BY <1>7 DEF FollowUpInject, Sent
  <2>3. pc' \in [Caller -> Place] /\ snap' \in [Caller -> Instant]
    BY <1>7 DEF FollowUpInject
  <2>4. age' \in [Caller -> 0..1] /\ target' \in [Caller -> {None} \cup 0..MaxReset]
    BY <1>7 DEF FollowUpInject
  <2> QED BY <1>7, <2>1, <2>2, <2>3, <2>4 DEF FollowUpInject, Sent
<1>8. ASSUME NEW c \in Caller, FollowUpPending(c) PROVE TypeOK'
  <2>1. row' \in ResumeRow
    BY <1>8 DEF FollowUpPending, Status
  <2> QED BY <1>8, <2>1 DEF FollowUpPending
<1>9. ASSUME NEW c \in Caller, FollowUpPatch(c) PROVE TypeOK'
  BY <1>9 DEF FollowUpPatch
<1>10. ASSUME NEW c \in Caller, FollowUpPush(c) PROVE TypeOK'
  <2>1. stopped' \in BOOLEAN
    BY <1>10, Zenon DEF FollowUpPush, Sent
  <2>2. fired' \in Nat
    BY <1>10 DEF FollowUpPush, Sent
  <2>3. pc' \in [Caller -> Place] /\ snap' \in [Caller -> Instant]
    BY <1>10 DEF FollowUpPush
  <2>4. age' \in [Caller -> 0..1] /\ target' \in [Caller -> {None} \cup 0..MaxReset]
    BY <1>10 DEF FollowUpPush
  <2>5. queue' \in Nat
    BY <1>10 DEF FollowUpPush
  <2> QED BY <1>10, <2>5, <2>1, <2>2, <2>3, <2>4 DEF FollowUpPush, Sent
<1>11. ASSUME NEW c \in User, UserFollowUp(c) PROVE TypeOK'
  <2>1. c \in Caller /\ pc' \in [Caller -> Place]
    BY <1>11 DEF UserFollowUp, UserCall, Caller
  <2> QED BY <1>11, <2>1 DEF UserFollowUp, UserCall
<1>12. ASSUME NEW c \in User, UserKill(c) PROVE TypeOK'
  <2>1. c \in Caller /\ pc' \in [Caller -> Place]
    BY <1>12 DEF UserKill, UserCall, Caller
  <2> QED BY <1>12, <2>1 DEF UserKill, UserCall
<1>13. ASSUME NEW c \in User, KillCancel(c) PROVE TypeOK'
  BY <1>13 DEF KillCancel
<1>14. ASSUME NEW c \in User, KillCheck(c) PROVE TypeOK'
  <2>1. row' \in ResumeRow
    BY <1>14 DEF KillCheck, Status
  <2>2. stopped' \in BOOLEAN
    BY <1>14, Zenon DEF KillCheck
  <2>3. queue' \in Nat /\ pc' \in [Caller -> Place]
    BY <1>14 DEF KillCheck, Caller
  <2>4. /\ snap' \in [Caller -> Instant] /\ age' \in [Caller -> 0..1]
        /\ target' \in [Caller -> {None} \cup 0..MaxReset]
    BY <1>14 DEF KillCheck, Caller
  <2> QED BY <1>14, <2>1, <2>2, <2>3, <2>4 DEF KillCheck
<1>15. ASSUME NEW c \in User, KillStop(c) PROVE TypeOK'
  <2>1. stopped' \in BOOLEAN
    BY <1>15, Zenon DEF KillStop
  <2> QED BY <1>15, <2>1 DEF KillStop, Caller
<1>16. CASE PatchToggle
  <2>1. PICK t \in Instant : row' = [row EXCEPT !.auto = ~row.auto, !.at = t]
    BY <1>16 DEF PatchToggle
  <2>2. row' \in ResumeRow
    <3>1. CASE row.auto = TRUE
      <4>1. row' = [row EXCEPT !.auto = FALSE, !.at = t]
        BY <2>1, <3>1
      <4> QED BY <4>1
    <3>2. CASE row.auto = FALSE
      <4>1. row' = [row EXCEPT !.auto = TRUE, !.at = t]
        BY <2>1, <3>2
      <4> QED BY <4>1
    <3> QED BY <3>1, <3>2
  <2> QED BY <1>16, <2>2 DEF PatchToggle
<1>17. CASE StartTurn
  <2>1. row' \in ResumeRow
    BY <1>17 DEF StartTurn, Status
  <2>2. queue' \in Nat /\ proc' \in {"none", "turn", "parked", "stopping"}
    BY <1>17 DEF StartTurn
  <2> QED BY <1>17, <2>1, <2>2 DEF StartTurn
<1>18. CASE ResultOk
  <2>1. delegating' \in BOOLEAN
    BY <1>18, Zenon DEF ResultOk, Result
  <2>2. row' \in ResumeRow /\ proc' = "parked"
    BY <1>18 DEF ResultOk, Result
  <2> QED BY <1>18, <2>1, <2>2 DEF ResultOk, Result
<1>19. CASE ResultLimit
  <2>1. delegating' \in BOOLEAN
    BY <1>19, Zenon DEF ResultLimit, Result
  <2>2. row' \in ResumeRow /\ proc' = "parked"
    BY <1>19 DEF ResultLimit, Result
  <2>3. resetAt' \in 0..MaxReset /\ limits' \in 0..MaxLimits /\ epoch' \in {None, resetAt'}
    BY <1>19 DEF ResultLimit
  <2> QED BY <1>19, <2>1, <2>2, <2>3 DEF ResultLimit, Result
<1>20. CASE DelegateEnds
  BY <1>20 DEF DelegateEnds
<1>21. CASE IdleReap
  <2>1. row' \in ResumeRow
    BY <1>21 DEF IdleReap, Status
  <2> QED BY <1>21, <2>1 DEF IdleReap
<1>22. CASE ProcExit
  BY <1>22 DEF ProcExit
<1>23. CASE ExitApply
  <2>1. ExitStatus(row.st, row.kind # "none", TRUE) \in Status
        /\ ExitStatus(row.st, row.kind # "none", FALSE) \in Status
    BY DEF ExitStatus, Status, Terminal
  <2>2. PICK st \in Status, kind \in Kind : row' = [row EXCEPT !.st = st, !.kind = kind]
    <3>1. PICK code \in {0, 1} :
              LET st == ExitStatus(row.st, row.kind # "none", code = 0)
                  kind == IF st = "killed" THEN "none"
                          ELSE IF st = "failed" /\ row.kind = "none" THEN "other" ELSE row.kind
              IN  row' = [row EXCEPT !.st = st, !.kind = kind]
      BY <1>23 DEF ExitApply
    <3>2. ExitStatus(row.st, row.kind # "none", code = 0) \in Status
      BY DEF ExitStatus, Status, Terminal
    <3> QED BY <3>1, <3>2
  <2>3. row' \in ResumeRow
    BY <2>2
  <2>4. exiting' \in BOOLEAN
    BY <1>23, Zenon DEF ExitApply
  <2> QED BY <1>23, <2>3, <2>4 DEF ExitApply
<1>24. CASE Restart
  <2>1. PICK kind \in Kind :
            row' = IF row.st # "running" THEN row
                   ELSE [row EXCEPT !.st = IF kind = "none" THEN "done" ELSE "failed",
                                    !.kind = kind]
    BY <1>24 DEF Restart, LoggedKind
  <2>5. row' \in ResumeRow
    BY <2>1 DEF Status
  <2>2. exiting' \in BOOLEAN /\ delegating' \in BOOLEAN
    BY <1>24, Zenon DEF Restart
  <2>3. queue' \in Nat /\ restarts' \in 0..MaxRestarts /\ proc' = "none" /\ owners' = {}
    BY <1>24 DEF Restart
  <2>4. /\ pc' \in [Caller -> Place] /\ snap' \in [Caller -> Instant]
        /\ age' \in [Caller -> 0..1] /\ target' \in [Caller -> {None} \cup 0..MaxReset]
    BY <1>24 DEF Restart
  <2> QED BY <1>24, <2>2, <2>3, <2>4, <2>5 DEF Restart
<1>25. CASE Clock
  <2>1. row' \in ResumeRow
    BY <1>25 DEF Clock
  <2>2. age' \in [Caller -> 0..1] /\ epoch' \in {None} \cup 0..MaxReset
    BY <1>25 DEF Clock
  <2>3. resetAt' \in 0..MaxReset
    BY <1>25 DEF Clock, Sooner
  <2> QED BY <1>25, <2>1, <2>2, <2>3 DEF Clock
<1>26. CASE UNCHANGED vars
  BY <1>26 DEF vars
<1> QED BY <1>1, <1>2, <1>3, <1>4, <1>5, <1>6, <1>7, <1>8, <1>9, <1>10, <1>11, <1>12, <1>13,
           <1>14, <1>15, <1>16, <1>17, <1>18, <1>19, <1>20, <1>21, <1>22, <1>23, <1>24,
           <1>25, <1>26 DEF Next, TickStep, FollowUpStep, KillStep, Caller

-----------------------------------------------------------------------------
(* The invariant. *)

Safe == ClaimsDue /\ NotDueWhileSent /\ OneSender /\ ClearedBeforeSent /\ Unanswered
        /\ OneResumePerEpisode

\* Every step keeps the rest.
LEMMA SafeNext ==
    ASSUME TypeOK, Safe, [Next]_vars
    PROVE  Safe'
<1> USE ResumeAssumption DEF ResumeAssumption, TypeOK, ResumeRow, Safe, ClaimsDue,
        NotDueWhileSent, OneSender, ClearedBeforeSent, Unanswered, OneResumePerEpisode,
        Sending, None, Caller, proc_vars, env_vars, call_vars, bound_vars, history, At,
        Goto, Return
<1>1. ASSUME NEW c \in Ticker, TickList(c) PROVE Safe'
  BY <1>1 DEF TickList
<1>2. ASSUME NEW c \in Ticker, TickUsage(c) PROVE Safe'
  BY <1>2 DEF TickUsage
<1>3. ASSUME NEW c \in Ticker, TickSchedule(c) PROVE Safe'
  <2>1. pc[c] = "schedule" /\ pc'[c] = "idle" /\ \A d \in Caller : d # c => pc'[d] = pc[d]
    BY <1>3 DEF TickSchedule
  <2>2. ResumeAt(c) # 0
    <3>1. age[c] \in 0..1 /\ target[c] \in {None} \cup 0..MaxReset
      OBVIOUS
    <3> QED BY <3>1 DEF ResumeAt, Buffer
  <2>3. row'.kind = row.kind /\ (row'.at = row.at \/ row'.at = ResumeAt(c))
    BY <1>3 DEF TickSchedule
  <2>4. \A d \in Caller : d # c => snap'[d] = snap[d]
    BY <1>3 DEF TickSchedule
  <2> QED BY <1>3, <2>1, <2>2, <2>3, <2>4 DEF TickSchedule
<1>4. ASSUME NEW c \in Ticker, TickClaim(c) PROVE Safe'
  <2>1. CASE ClaimWins(c) /\ row' = [row EXCEPT !.at = None] /\ owners' = owners \cup {c}
             /\ Goto(c, "get") /\ UNCHANGED <<snap, age, target>>
    <3>1. pc[c] = "claim" /\ snap[c] = 0 /\ row.at = 0 /\ row.kind = "usage_limit" /\ fired = 0
      BY <1>4, <2>1 DEF TickClaim, ClaimWins
    <3>2. \A d \in Ticker : pc[d] \notin Sending
      BY <3>1
    <3>3. pc'[c] = "get" /\ \A d \in Ticker : d # c => pc'[d] = pc[d]
      BY <2>1
    <3>4. row'.at # 0 /\ fired' = 0
      BY <1>4, <2>1, <3>1 DEF TickClaim
    <3> QED BY <2>1, <3>2, <3>3, <3>4
  <2>2. CASE Return(c) /\ UNCHANGED <<row, owners>>
    <3>1. pc'[c] = "idle" /\ \A d \in Ticker : d # c => pc'[d] = pc[d] /\ snap'[d] = snap[d]
      BY <2>2
    <3> QED BY <1>4, <2>2, <3>1 DEF TickClaim
  <2> QED BY <1>4, <2>1, <2>2 DEF TickClaim
<1>5. ASSUME NEW c \in Caller, FollowUpGet(c) PROVE Safe'
  BY <1>5 DEF FollowUpGet
<1>6. ASSUME NEW c \in Caller, FollowUpLive(c) PROVE Safe'
  BY <1>6 DEF FollowUpLive
<1>7. ASSUME NEW c \in Caller, FollowUpInject(c) PROVE Safe'
  <2>1. c \in Caller /\ pc[c] = "inject" /\ pc'[c] = "idle" /\ \A d \in Caller : d # c => pc'[d] = pc[d]
    BY <1>7 DEF FollowUpInject
  <2>2. UNCHANGED <<row, owners>> /\ \A d \in Caller : d # c => snap'[d] = snap[d]
    BY <1>7 DEF FollowUpInject, Sent
  <2>3. CASE c \in owners
    <3>1. row.kind # "usage_limit" /\ fired = 0 /\ fired' = 1
      BY <1>7, <2>1, <2>3 DEF FollowUpInject, Sent
    <3>2. \A d \in Ticker : pc'[d] \notin Sending
      BY <2>1, <2>3
    <3> QED BY <2>1, <2>2, <3>1, <3>2
  <2>4. CASE c \notin owners
    <3>1. fired' = fired
      BY <1>7, <2>4 DEF FollowUpInject, Sent
    <3> QED BY <2>1, <2>2, <3>1
  <2> QED BY <2>3, <2>4
<1>8. ASSUME NEW c \in Caller, FollowUpPending(c) PROVE Safe'
  BY <1>8 DEF FollowUpPending
<1>9. ASSUME NEW c \in Caller, FollowUpPatch(c) PROVE Safe'
  BY <1>9 DEF FollowUpPatch
<1>10. ASSUME NEW c \in Caller, FollowUpPush(c) PROVE Safe'
  <2>1. c \in Caller /\ pc[c] = "push" /\ pc'[c] = "idle" /\ \A d \in Caller : d # c => pc'[d] = pc[d]
    BY <1>10 DEF FollowUpPush
  <2>2. UNCHANGED <<row, owners>> /\ \A d \in Caller : d # c => snap'[d] = snap[d]
    BY <1>10 DEF FollowUpPush, Sent
  <2>3. CASE c \in owners
    <3>1. row.kind # "usage_limit" /\ fired = 0 /\ fired' = 1
      BY <1>10, <2>1, <2>3 DEF FollowUpPush, Sent
    <3>2. \A d \in Ticker : pc'[d] \notin Sending
      BY <2>1, <2>3
    <3> QED BY <2>1, <2>2, <3>1, <3>2
  <2>4. CASE c \notin owners
    <3>1. fired' = fired
      BY <1>10, <2>4 DEF FollowUpPush, Sent
    <3> QED BY <2>1, <2>2, <3>1
  <2> QED BY <2>3, <2>4
<1>11. ASSUME NEW c \in User, UserFollowUp(c) PROVE Safe'
  BY <1>11 DEF UserFollowUp, UserCall
<1>12. ASSUME NEW c \in User, UserKill(c) PROVE Safe'
  BY <1>12 DEF UserKill, UserCall
<1>13. ASSUME NEW c \in User, KillCancel(c) PROVE Safe'
  BY <1>13 DEF KillCancel
<1>14. ASSUME NEW c \in User, KillCheck(c) PROVE Safe'
  BY <1>14 DEF KillCheck
<1>15. ASSUME NEW c \in User, KillStop(c) PROVE Safe'
  BY <1>15 DEF KillStop
<1>16. CASE PatchToggle
  BY <1>16 DEF PatchToggle
<1>17. CASE StartTurn
  BY <1>17 DEF StartTurn
<1>18. CASE ResultOk
  <2>1. UNCHANGED <<row, pc, snap, owners, fired>>
    BY <1>18 DEF ResultOk, Result
  <2> QED BY <2>1
<1>19. CASE ResultLimit
  <2>1. UNCHANGED <<pc, snap>> /\ row'.at = row.at /\ owners' = {} /\ fired' = 0
    BY <1>19 DEF ResultLimit, Result
  <2> QED BY <2>1
<1>20. CASE DelegateEnds
  BY <1>20 DEF DelegateEnds
<1>21. CASE IdleReap
  BY <1>21 DEF IdleReap
<1>22. CASE ProcExit
  BY <1>22 DEF ProcExit
<1>23. CASE ExitApply
  BY <1>23 DEF ExitApply
<1>24. CASE Restart
  <2>1. \A c \in Ticker : pc'[c] = "idle"
    BY <1>24 DEF Restart
  <2>2. row'.kind = "usage_limit" => row.kind = "usage_limit"
    BY <1>24 DEF Restart, LoggedKind
  <2>3. fired' = fired
    BY <1>24 DEF Restart
  <2> QED BY <2>1, <2>2, <2>3
<1>25. CASE Clock
  BY <1>25 DEF Clock
<1>26. CASE UNCHANGED vars
  BY <1>26 DEF vars
<1> QED BY <1>1, <1>2, <1>3, <1>4, <1>5, <1>6, <1>7, <1>8, <1>9, <1>10, <1>11, <1>12, <1>13,
           <1>14, <1>15, <1>16, <1>17, <1>18, <1>19, <1>20, <1>21, <1>22, <1>23, <1>24,
           <1>25, <1>26 DEF Next, TickStep, FollowUpStep, KillStep, Caller

-----------------------------------------------------------------------------
(* The theorems. *)

LEMMA Invariance == Spec => [](TypeOK /\ Safe)
<1>1. Init => Safe
  BY DEF Init, Safe, ClaimsDue, NotDueWhileSent, OneSender, ClearedBeforeSent, Unanswered,
         OneResumePerEpisode, Sending, Caller, None
<1>2. TypeOK /\ Safe /\ [Next]_vars => (TypeOK /\ Safe)'
  BY TypeNext, SafeNext
<1> QED BY <1>1, <1>2, TypeInit, PTL DEF Spec

\* TypeOK: every variable keeps its type; a schedule never lies further ahead than a limit
\* and its buffer, or the fallback.
THEOREM ResumeTypes == Spec => []TypeOK
BY Invariance, PTL

\* auto_resume.rs:277: a limit error is answered by one resume at most, with any number
\* of passes of the scheduler under way, whatever users and restarts do.
THEOREM OneResume == Spec => []OneResumePerEpisode
<1>1. Safe => OneResumePerEpisode
  BY DEF Safe
<1> QED BY <1>1, Invariance, PTL

\* auto_resume.rs:277: two passes never send at the same time.
THEOREM SendersExclude == Spec => []OneSender
<1>1. Safe => OneSender
  BY DEF Safe
<1> QED BY <1>1, Invariance, PTL
=============================================================================
