------------------------ MODULE BridgeProtocol_proofs ------------------------
(* Theorems about BridgeProtocol: for any number of calls, processes and lines, the engine  *)
(* that reads its own markers back writes one of them for a result, and one card for a pull *)
(* request; and the card shown with a session that has read everything is no ghost.         *)
EXTENDS BridgeProtocol, SequenceTheorems, TLAPS

Ids == {0} \cup Calls
States == {"none", "called", "running", "parked", "allowed", "denied", "stale"}

Event ==
    [type : AllKinds \cup {"tool_result", "agent_result"}, call : Calls]
    \cup [type : {"request"}, call : Calls, id : Nat, proc : Nat]
    \cup [type : {"resolved"}, call : Calls, decision : {"allow", "deny"}]
    \cup [type : {"result"}]

Line ==
    [type : {"user", "interrupt"}]
    \cup [type : {"perm"}, call : Calls, decision : {"allow", "deny"}]
    \cup [type : {"delegate"}, id : Nat, call : Calls]

ProcessTypes ==
    /\ proc \in Nat /\ alive \in BOOLEAN /\ live \in BOOLEAN
    /\ inbox \in Seq(Line) /\ queue \in Nat
    /\ busy \in BOOLEAN /\ stopping \in BOOLEAN /\ nudged \in BOOLEAN
    /\ taps \in Nat /\ lines \in Nat

CallTypes ==
    /\ kind \in [Calls -> AllKinds \cup {"none"}] /\ st \in [Calls -> States]
    /\ slot \in [ask : Ids, perm : Ids] /\ delegates \in Seq(Ids)
    /\ by \in [Calls -> Ids]

EngineTypes ==
    /\ log \in Seq(Event) /\ fanouts \subseteq Nat \X Nat \X Calls
    /\ armed \subseteq {"ask", "perm"} /\ parked \in Ids
    /\ fifo \in Seq(Calls) /\ natives \subseteq Calls /\ spawns \subseteq Calls
    /\ pr_seen \in BOOLEAN /\ links \subseteq Calls \X Calls
    /\ markers \in [Ids -> Nat]

Types == ProcessTypes /\ CallTypes /\ EngineTypes

\* The results of c among these lines.
ResultsOf(c, ls) == {i \in DOMAIN ls : ls[i].type = "tool_result" /\ ls[i].call = c}

\* A call the bridge holds was issued, and the one whose permission is asked for did not run.
HeldByTheBridge ==
    /\ slot.perm # 0 => kind[slot.perm] = "perm" /\ st[slot.perm] \in {"parked", "stale"}
    /\ slot.ask # 0 => kind[slot.ask] = "ask" /\ st[slot.ask] # "none"
    /\ \A i \in DOMAIN delegates :
           delegates[i] # 0 => kind[delegates[i]] = "delegate" /\ st[delegates[i]] # "none"

\* A call has a result when it is over, one at most, and either the engine has yet to read it
\* or it has left its one marker.
OneResult(c) ==
    /\ \A i, j \in ResultsOf(c, log) : i = j
    /\ st[c] \notin {"allowed", "denied"} => ResultsOf(c, log) = {} /\ markers[c] = 0
    /\ ResultsOf(c, log) # {} => markers[c] = 0
    /\ markers[c] <= 1

OneCard == markers[0] = IF pr_seen THEN 1 ELSE 0

Inv ==
    /\ Types /\ HeldByTheBridge /\ OneCard
    /\ \A c \in Calls : OneResult(c)

\* What the fields of a line of the log hold, by its type.
LEMMA EventFields ==
    ASSUME NEW e \in Event
    PROVE  /\ e.type # "result" => e.call \in Calls
           /\ e.type = "request" => e.id \in Nat /\ e.proc \in Nat
<1>1. CASE e \in [type : AllKinds \cup {"tool_result", "agent_result"}, call : Calls]
  BY <1>1 DEF AllKinds
<1>2. CASE e \in [type : {"request"}, call : Calls, id : Nat, proc : Nat]
  BY <1>2
<1>3. CASE e \in [type : {"resolved"}, call : Calls, decision : {"allow", "deny"}]
  BY <1>3
<1>4. CASE e \in [type : {"result"}]
  BY <1>4
<1> QED BY <1>1, <1>2, <1>3, <1>4 DEF Event

LEMMA LineFields ==
    ASSUME NEW l \in Line
    PROVE  /\ l.type \in {"perm", "delegate"} => l.call \in Calls
           /\ l.type = "perm" => l.decision \in {"allow", "deny"}
           /\ l.type = "delegate" => l.id \in Nat
<1>1. CASE l \in [type : {"user", "interrupt"}]
  BY <1>1
<1>2. CASE l \in [type : {"perm"}, call : Calls, decision : {"allow", "deny"}]
  BY <1>2
<1>3. CASE l \in [type : {"delegate"}, id : Nat, call : Calls]
  BY <1>3
<1> QED BY <1>1, <1>2, <1>3 DEF Line

\* The events and the lines the actions write.
LEMMA Written ==
    ASSUME NEW c \in Calls
    PROVE  /\ \A k \in AllKinds \cup {"tool_result", "agent_result"} : [type |-> k, call |-> c] \in Event
           /\ \A i, p \in Nat : [type |-> "request", call |-> c, id |-> i, proc |-> p] \in Event
           /\ \A d \in {"allow", "deny"} : [type |-> "resolved", call |-> c, decision |-> d] \in Event
           /\ [type |-> "result"] \in Event
           /\ \A d \in {"allow", "deny"} : [type |-> "perm", call |-> c, decision |-> d] \in Line
           /\ \A i \in Nat : [type |-> "delegate", id |-> i, call |-> c] \in Line
BY DEF Event, Line, AllKinds

LEMMA WrittenByAll ==
    /\ [type |-> "result"] \in Event
    /\ [type |-> "user"] \in Line /\ [type |-> "interrupt"] \in Line
BY DEF Event, Line

LEMMA ResolvedType ==
    ASSUME NEW c \in Ids, NEW d \in {"allow", "deny"}
    PROVE  Resolved(c, d) \in Seq(Event)
<1>1. CASE c = 0
  BY <1>1 DEF Resolved
<1>2. CASE c # 0
  <2>1. c \in Calls
    BY <1>2 DEF Ids
  <2>2. [type |-> "resolved", call |-> c, decision |-> d] \in Event
    BY <2>1, Written
  <2> QED BY <1>2, <2>2 DEF Resolved
<1> QED BY <1>1, <1>2

LEMMA LogTypes ==
    ASSUME log \in Seq(Event), NEW ls \in Seq(Event), WriteLog(ls)
    PROVE  log' \in Seq(Event)
BY ConcatProperties DEF WriteLog

\* Ending calls leaves every other call as it was.
LEMMA Settled ==
    ASSUME st \in [Calls -> States], NEW C, NEW outcome \in States, Settle(C, outcome)
    PROVE  /\ st' \in [Calls -> States]
           /\ \A c \in Calls : st'[c] = IF c \in C THEN outcome ELSE st[c]
BY DEF Settle

-----------------------------------------------------------------------------
(* Types *)

LEMMA TypesInit == Init => Types
<1> SUFFICES ASSUME Init PROVE Types
  OBVIOUS
<1>1. ProcessTypes
  BY DEF Init, ProcessTypes
<1>2. CallTypes
  BY DEF Init, CallTypes, NoSlot, Ids, States
<1>3. EngineTypes
  BY DEF Init, EngineTypes, Ids
<1> QED BY <1>1, <1>2, <1>3 DEF Types

LEMMA AgentTypes ==
    ASSUME Types, NEW c \in Calls,
           (\E k \in Kinds : Issue(c, k)) \/ ParkAsk(c) \/ ParkDelegate(c) \/ Return(c)
    PROVE  Types'
<1>0. ProcessTypes /\ CallTypes /\ EngineTypes
  BY DEF Types
<1>1. ASSUME NEW k \in Kinds, Issue(c, k)
      PROVE  Types'
  <2>0. k \in AllKinds
    BY BridgeAssumption
  <2>1. ProcessTypes'
    BY <1>0, <1>1 DEF ProcessTypes, Issue, count
  <2>2. [type |-> k, call |-> c] \in Event /\ [type |-> "tool_result", call |-> c] \in Event
    BY <2>0, Written
  <2>3. log' \in Seq(Event)
    BY <1>0, <1>1, <2>2 DEF EngineTypes, Issue, WriteLog
  <2>4. EngineTypes'
    BY <1>0, <1>1, <2>3 DEF EngineTypes, Issue, engine, cards
  <2>5. kind' \in [Calls -> AllKinds \cup {"none"}]
    BY <1>0, <1>1, <2>0 DEF CallTypes, Issue
  <2>6. st' \in [Calls -> States]
    BY <1>0, <1>1 DEF CallTypes, Issue, States
  <2>7. slot' \in [ask : Ids, perm : Ids]
    BY <1>0, <1>1 DEF CallTypes, Issue, Ids
  <2>8. CallTypes'
    BY <1>0, <1>1, <2>5, <2>6, <2>7 DEF CallTypes, Issue
  <2> QED BY <2>1, <2>4, <2>8 DEF Types
<1>2. CASE ParkAsk(c)
  <2>1. ProcessTypes' /\ EngineTypes'
    BY <1>0, <1>2 DEF ProcessTypes, EngineTypes, ParkAsk, count, engine, cards
  <2>2. st' \in [Calls -> States]
    BY <1>0, <1>2, Settled DEF CallTypes, ParkAsk, States
  <2>3. slot' \in [ask : Ids, perm : Ids]
    BY <1>0, <1>2 DEF CallTypes, ParkAsk, Ids
  <2>4. CallTypes'
    BY <1>0, <1>2, <2>2, <2>3 DEF CallTypes, ParkAsk
  <2> QED BY <2>1, <2>4 DEF Types
<1>3. CASE ParkDelegate(c)
  <2>1. ProcessTypes'
    BY <1>0, <1>3 DEF ProcessTypes, ParkDelegate, count
  <2>2. RequestId \in Nat /\ RequestId > Len(delegates)
    BY <1>0 DEF CallTypes, RequestId
  <2>3. log' \in Seq(Event)
    <3>1. [type |-> "request", call |-> c, id |-> RequestId, proc |-> proc] \in Event
      BY <1>0, <2>2, Written DEF ProcessTypes
    <3> DEFINE request == [type |-> "request", call |-> c, id |-> RequestId, proc |-> proc]
    <3>2. <<request>> \in Seq(Event)
      BY <3>1
    <3>3. WriteLog(<<request>>) \/ UNCHANGED log
      BY <1>3 DEF ParkDelegate
    <3> QED BY <1>0, <3>2, <3>3, LogTypes DEF EngineTypes
  <2>4. EngineTypes'
    BY <1>0, <1>3, <2>3 DEF EngineTypes, ParkDelegate, engine, cards
  <2>5. st' \in [Calls -> States]
    BY <1>0, <1>3, Settled DEF CallTypes, ParkDelegate, States
  <2>6. delegates' \in Seq(Ids)
    <3>1. delegates' = delegates \/ delegates' = Append(delegates, c)
      BY <1>3, <2>2 DEF ParkDelegate
    <3> QED BY <1>0, <3>1, AppendProperties DEF CallTypes, Ids
  <2>7. CallTypes'
    BY <1>0, <1>3, <2>5, <2>6 DEF CallTypes, ParkDelegate
  <2> QED BY <2>1, <2>4, <2>7 DEF Types
<1>4. CASE Return(c)
  <2>1. ProcessTypes'
    BY <1>0, <1>4 DEF ProcessTypes, Return, count
  <2>2. log' \in Seq(Event)
    <3>0. [type |-> "tool_result", call |-> c] \in Event
      BY Written
    <3>1. <<[type |-> "tool_result", call |-> c]>> \in Seq(Event)
      BY <3>0
    <3> QED BY <1>0, <1>4, <3>1, LogTypes DEF EngineTypes, Return
  <2>3. EngineTypes'
    BY <1>0, <1>4, <2>2 DEF EngineTypes, Return, engine, cards
  <2>4. st' \in [Calls -> States]
    BY <1>0, <1>4, Settled DEF CallTypes, Return, States
  <2>5. CallTypes'
    BY <1>0, <1>4, <2>4 DEF CallTypes, Return, bridge
  <2> QED BY <2>1, <2>3, <2>5 DEF Types
<1> QED BY <1>1, <1>2, <1>3, <1>4

LEMMA TurnTypes ==
    ASSUME Types, StartProcess \/ TakeTurn \/ EndTurn
    PROVE  Types'
<1>0. ProcessTypes /\ CallTypes /\ EngineTypes
  BY DEF Types
<1>1. CASE StartProcess
  <2>1. inbox' \in Seq(Line) /\ proc' \in Nat
    BY <1>0, <1>1, WrittenByAll DEF StartProcess, ProcessTypes
  <2>2. ProcessTypes'
    BY <1>0, <1>1, <2>1 DEF StartProcess, ProcessTypes, count
  <2>3. slot' \in [ask : Ids, perm : Ids] /\ delegates' \in Seq(Ids)
    BY <1>1 DEF StartProcess, NoSlot, Ids
  <2>4. CallTypes' /\ EngineTypes'
    BY <1>0, <1>1, <2>3 DEF StartProcess, CallTypes, EngineTypes, engine, cards
  <2> QED BY <2>2, <2>4 DEF Types
<1>2. CASE TakeTurn
  BY <1>0, <1>2 DEF Types, ProcessTypes, CallTypes, EngineTypes, TakeTurn, engine, cards, count, bridge
<1>3. CASE EndTurn
  <2>1. ProcessTypes'
    BY <1>0, <1>3 DEF ProcessTypes, EndTurn, count
  <2>2. log' \in Seq(Event)
    BY <1>0, <1>3, WrittenByAll DEF EngineTypes, EndTurn, WriteLog
  <2>3. EngineTypes'
    BY <1>0, <1>3, <2>2 DEF EngineTypes, EndTurn, engine, cards
  <2>4. st' \in [Calls -> States]
    BY <1>0, <1>3, Settled DEF CallTypes, EndTurn, States
  <2>5. CallTypes'
    BY <1>0, <1>3, <2>4 DEF CallTypes, EndTurn, bridge
  <2> QED BY <2>1, <2>3, <2>5 DEF Types
<1> QED BY <1>1, <1>2, <1>3

LEMMA DenyAllTypes ==
    ASSUME Types, NEW C, NEW first \in Seq(Event), DenyAll(C, first)
    PROVE  /\ st' \in [Calls -> States] /\ slot' \in [ask : Ids, perm : Ids]
           /\ delegates' \in Seq(Ids) /\ log' \in Seq(Event)
<1>0. CallTypes /\ EngineTypes
  BY DEF Types
<1>1. st' \in [Calls -> States]
  BY <1>0, Settled DEF DenyAll, CallTypes, States
<1>2. slot' \in [ask : Ids, perm : Ids]
  BY DEF DenyAll, NoSlot, Ids
<1>3. delegates' \in Seq(Ids)
  BY <1>0 DEF DenyAll, CallTypes, Ids
<1>4. log' \in Seq(Event)
  <2>1. Resolved(slot.perm, "deny") \in Seq(Event)
    BY <1>0, ResolvedType DEF CallTypes
  <2> QED BY <1>0, <2>1 DEF DenyAll, WriteLog, EngineTypes
<1> QED BY <1>1, <1>2, <1>3, <1>4

LEMMA ReadTypes ==
    ASSUME Types, ReadLine
    PROVE  Types'
<1>0. ProcessTypes /\ CallTypes /\ EngineTypes
  BY DEF Types
<1> DEFINE line == Head(inbox)
<1>1. line \in Line /\ inbox' \in Seq(Line)
  BY <1>0 DEF ProcessTypes, ReadLine
<1>2. <<>> \in Seq(Event)
  OBVIOUS
<1> HIDE DEF line
<1>3. /\ queue' \in Nat /\ nudged' \in BOOLEAN /\ stopping' \in BOOLEAN
      /\ st' \in [Calls -> States] /\ slot' \in [ask : Ids, perm : Ids]
      /\ delegates' \in Seq(Ids) /\ log' \in Seq(Event) /\ by' \in [Calls -> Ids]
  <2>1. CASE ReadInterrupt(line)
    <3>1. /\ st' \in [Calls -> States] /\ slot' \in [ask : Ids, perm : Ids]
          /\ delegates' \in Seq(Ids) /\ log' \in Seq(Event)
      BY <2>1, <1>2, DenyAllTypes DEF ReadInterrupt
    <3> QED BY <1>0, <2>1, <3>1 DEF ReadInterrupt, ProcessTypes, CallTypes
  <2>2. CASE ReadDelegate(line)
    <3>1. CASE line.id \in DOMAIN delegates /\ delegates[line.id] # 0
      <4>1. PICK c \in Calls : c = delegates[line.id]
        BY <1>0, <3>1 DEF CallTypes, Ids
      <4>2. /\ delegates' = [delegates EXCEPT ![line.id] = 0]
            /\ Settle({c}, IF st[c] = "parked" THEN "allowed" ELSE st[c])
            /\ by' = [by EXCEPT ![c] = line.call]
        BY <2>2, <3>1, <4>1 DEF ReadDelegate
      <4>3. (IF st[c] = "parked" THEN "allowed" ELSE st[c]) \in States
        BY <1>0 DEF CallTypes, States
      <4>4. st' \in [Calls -> States]
        BY <1>0, <4>2, <4>3, Settled DEF CallTypes
      <4>5. delegates' \in Seq(Ids)
        BY <1>0, <3>1, <4>2, ExceptSeq DEF CallTypes, Ids
      <4>6. by' \in [Calls -> Ids]
        BY <1>0, <1>1, <2>2, <4>2, LineFields DEF CallTypes, Ids, ReadDelegate
      <4> QED BY <1>0, <2>2, <4>4, <4>5, <4>6 DEF ReadDelegate, ProcessTypes, CallTypes, EngineTypes
    <3>2. CASE ~(line.id \in DOMAIN delegates /\ delegates[line.id] # 0)
      BY <1>0, <2>2, <3>2 DEF ReadDelegate, ProcessTypes, CallTypes, EngineTypes
    <3> QED BY <3>1, <3>2
  <2>3. CASE ReadPerm(line)
    <3>0. line.decision \in {"allow", "deny"} /\ line.call \in Calls /\ slot.perm \in Ids
      BY <1>0, <1>1, <2>3, LineFields DEF ReadPerm, CallTypes
    <3>1. slot' \in [ask : Ids, perm : Ids]
      BY <1>0, <2>3 DEF ReadPerm, CallTypes, Ids
    <3>2. log' \in Seq(Event)
      <4>1. Resolved(slot.perm, line.decision) \in Seq(Event)
        BY <3>0, ResolvedType
      <4> QED BY <1>0, <2>3, <4>1 DEF ReadPerm, WriteLog, EngineTypes
    <3>3. CASE slot.perm = 0
      BY <1>0, <2>3, <3>1, <3>2, <3>3 DEF ReadPerm, ProcessTypes, CallTypes
    <3>4. CASE slot.perm # 0
      <4>1. /\ Settle({slot.perm}, IF line.decision = "allow" THEN "running" ELSE "denied")
            /\ by' = [by EXCEPT ![slot.perm] = line.call]
        BY <2>3, <3>4 DEF ReadPerm
      <4>2. st' \in [Calls -> States]
        BY <1>0, <4>1, Settled DEF CallTypes, States
      <4>3. by' \in [Calls -> Ids]
        BY <1>0, <3>0, <4>1 DEF CallTypes, Ids
      <4> QED BY <1>0, <2>3, <3>1, <3>2, <4>2, <4>3 DEF ReadPerm, ProcessTypes, CallTypes
    <3> QED BY <3>3, <3>4
  <2>4. CASE ReadUser(line)
    <3>1. CASE slot.ask # 0
      <4>1. slot.ask \in Calls
        BY <1>0, <3>1 DEF CallTypes, Ids
      <4>2. /\ Settle({slot.ask}, IF st[slot.ask] = "parked" THEN "running" ELSE st[slot.ask])
            /\ slot' = [slot EXCEPT !.ask = 0]
            /\ UNCHANGED <<queue, nudged>>
        BY <2>4, <3>1 DEF ReadUser
      <4>3. (IF st[slot.ask] = "parked" THEN "running" ELSE st[slot.ask]) \in States
        BY <1>0, <4>1 DEF CallTypes, States
      <4>4. st' \in [Calls -> States]
        BY <1>0, <4>2, <4>3, Settled DEF CallTypes
      <4>5. slot' \in [ask : Ids, perm : Ids]
        BY <1>0, <4>2 DEF CallTypes, Ids
      <4> QED BY <1>0, <2>4, <4>2, <4>4, <4>5 DEF ReadUser, ProcessTypes, CallTypes, EngineTypes
    <3>2. CASE slot.ask = 0
      <4>1. queue' = queue + 1 /\ nudged' = FALSE /\ UNCHANGED <<slot, st, delegates, stopping, log, by>>
        BY <2>4, <3>2 DEF ReadUser
      <4>2. queue' \in Nat
        BY <1>0, <4>1 DEF ProcessTypes
      <4>3. nudged' \in BOOLEAN /\ stopping' \in BOOLEAN
        BY <1>0, <4>1 DEF ProcessTypes
      <4>4. /\ st' \in [Calls -> States] /\ slot' \in [ask : Ids, perm : Ids]
            /\ delegates' \in Seq(Ids) /\ log' \in Seq(Event) /\ by' \in [Calls -> Ids]
        BY <1>0, <4>1 DEF CallTypes, EngineTypes
      <4> QED BY <4>2, <4>3, <4>4
    <3> QED BY <3>1, <3>2
  <2> QED BY <2>1, <2>2, <2>3, <2>4 DEF ReadLine, line
<1> QED BY <1>0, <1>1, <1>3
       DEF Types, ProcessTypes, CallTypes, EngineTypes, ReadLine, engine, cards, count

LEMMA ExitTypes ==
    ASSUME Types, Exit
    PROVE  Types'
<1>0. ProcessTypes /\ CallTypes /\ EngineTypes
  BY DEF Types
<1>1. /\ st' \in [Calls -> States] /\ slot' \in [ask : Ids, perm : Ids]
      /\ delegates' \in Seq(Ids) /\ log' \in Seq(Event)
  <2>1. CASE \E error \in {<<>>, <<[type |-> "result"]>>} : DenyAll({c \in Calls : st[c] \in Open}, error)
    <3>1. PICK error \in {<<>>, <<[type |-> "result"]>>} : DenyAll({c \in Calls : st[c] \in Open}, error)
      BY <2>1
    <3>2. <<[type |-> "result"]>> \in Seq(Event) /\ <<>> \in Seq(Event)
      BY WrittenByAll
    <3>3. error \in Seq(Event)
      BY <3>2
    <3> QED BY <3>1, <3>3, DenyAllTypes
  <2>2. CASE /\ Settle({c \in Calls : st[c] \in Open}, "stale")
             /\ slot' = NoSlot /\ delegates' = <<>> /\ UNCHANGED log
    BY <1>0, <2>2, Settled DEF CallTypes, EngineTypes, NoSlot, Ids, States
  <2> QED BY <2>1, <2>2 DEF Exit
<1>2. ProcessTypes'
  <2>1. /\ alive' = FALSE /\ inbox' = <<>> /\ busy' = FALSE /\ stopping' = FALSE /\ queue' = 0
        /\ UNCHANGED <<proc, nudged, live, count>>
    BY DEF Exit
  <2>2. queue' \in Nat /\ taps' \in Nat /\ lines' \in Nat /\ proc' \in Nat
    BY <1>0, <2>1 DEF ProcessTypes, count
  <2>3. inbox' \in Seq(Line)
    BY <2>1
  <2> QED BY <1>0, <2>1, <2>2, <2>3 DEF ProcessTypes
<1>3. CallTypes' /\ EngineTypes'
  BY <1>0, <1>1 DEF Exit, CallTypes, EngineTypes, engine, cards
<1> QED BY <1>2, <1>3 DEF Types

LEMMA MarkerType ==
    ASSUME NEW e \in Event
    PROVE  Marker(e) \in Seq(Event) /\ Len(Marker(e)) \in {0, 1}
<1>1. CASE e.type = "tool_result" /\ e.call \in spawns
  <2>1. [type |-> "agent_result", call |-> e.call] \in Event
    BY <1>1, EventFields, Written
  <2> QED BY <1>1, <2>1 DEF Marker
<1>2. CASE ~(e.type = "tool_result" /\ e.call \in spawns)
  BY <1>2 DEF Marker
<1> QED BY <1>1, <1>2

LEMMA TailTypes ==
    ASSUME Types, TailLog
    PROVE  Types'
<1>0. ProcessTypes /\ CallTypes /\ EngineTypes
  BY DEF Types
<1>1. ProcessTypes' /\ CallTypes'
  BY <1>0 DEF TailLog, ProcessTypes, CallTypes, agent, bridge, count
<1> DEFINE e == Head(log)
<1>2. e \in Event /\ log # <<>>
  BY <1>0 DEF TailLog, EngineTypes
<1> HIDE DEF e
<1>3. log' \in Seq(Event)
  <2>1. Marker(e) \in Seq(Event)
    BY <1>2, MarkerType
  <2> QED BY <1>0, <1>2, <2>1 DEF TailLog, EngineTypes, e
<1>4. /\ e.type # "result" => e.call \in Calls
      /\ e.type = "request" => e.id \in Nat /\ e.proc \in Nat
  BY <1>2, EventFields
<1>5. ASSUME OnAsk(e) \/ OnPerm(e) \/ OnPermResolved(e) \/ OnResult(e)
      PROVE  EngineTypes'
  BY <1>0, <1>3, <1>4, <1>5 DEF OnAsk, OnPerm, OnPermResolved, OnResult, EngineTypes, cards, Ids
<1>6. ASSUME OnCard(e)
      PROVE  EngineTypes'
  <2>1. e.call \in Calls
    BY <1>4, <1>6 DEF OnCard
  <2>2. fifo' \in Seq(Calls)
    BY <1>0, <1>6, <2>1, AppendProperties DEF OnCard, EngineTypes
  <2> QED BY <1>0, <1>3, <1>6, <2>1, <2>2 DEF OnCard, EngineTypes
<1>7. ASSUME OnRequest(e)
      PROVE  EngineTypes'
  <2>1. fifo' \in Seq(Calls) /\ (fifo # <<>> => Head(fifo) \in Calls)
    BY <1>0, <1>7 DEF OnRequest, EngineTypes
  <2>2. links' \subseteq Calls \X Calls
    BY <1>0, <1>4, <1>7, <2>1 DEF OnRequest, EngineTypes
  <2>3. fanouts' \subseteq Nat \X Nat \X Calls
    BY <1>0, <1>4, <1>7 DEF OnRequest, EngineTypes
  <2> QED BY <1>0, <1>3, <1>7, <2>1, <2>2, <2>3 DEF OnRequest, EngineTypes
<1>8. ASSUME OnToolResult(e)
      PROVE  EngineTypes'
  <2>1. e.call \in Calls
    BY <1>4, <1>8 DEF OnToolResult
  <2>2. markers' \in [Ids -> Nat]
    <3>1. Len(Marker(e)) \in Nat
      BY <1>2, MarkerType
    <3> QED BY <1>0, <1>8, <3>1 DEF OnToolResult, EngineTypes
  <2>3. pr_seen' \in BOOLEAN
    BY <1>0, <1>8 DEF OnToolResult, EngineTypes
  <2>4. links' \subseteq Calls \X Calls
    BY <1>0, <1>8, <2>1 DEF OnToolResult, EngineTypes
  <2> QED BY <1>0, <1>3, <1>8, <2>2, <2>3, <2>4 DEF OnToolResult, EngineTypes
<1>9. EngineTypes'
  <2>1. OnAsk(e) \/ OnPerm(e) \/ OnPermResolved(e) \/ OnResult(e)
          \/ OnCard(e) \/ OnRequest(e) \/ OnToolResult(e)
    BY DEF TailLog, e
  <2> QED BY <1>5, <1>6, <1>7, <1>8, <2>1
<1> QED BY <1>1, <1>9 DEF Types

\* The runs, the exit and the user do not touch what the bridge holds.
LEMMA OtherTypes ==
    ASSUME Types,
           \/ \E f \in fanouts : FanoutDone(f)
           \/ OnExit
           \/ \E type \in {"user", "interrupt"} : UserLine(type)
           \/ \E c \in Calls, d \in {"allow", "deny"} : Tap(c, d)
    PROVE  Types'
<1>0. ProcessTypes /\ CallTypes /\ EngineTypes
  BY DEF Types
<1>1. CASE \E f \in fanouts : FanoutDone(f)
  <2>1. PICK f \in fanouts : FanoutDone(f)
    BY <1>1
  <2>2. [type |-> "delegate", id |-> f[2], call |-> f[3]] \in Line
    BY <1>0, Written DEF EngineTypes
  <2>3. inbox' \in Seq(Line)
    BY <1>0, <2>1, <2>2 DEF FanoutDone, Send, ProcessTypes
  <2> QED BY <1>0, <2>1, <2>3
     DEF FanoutDone, Types, ProcessTypes, CallTypes, EngineTypes, agent, bridge, engine, cards, count
<1>2. CASE OnExit
  BY <1>0, <1>2
  DEF OnExit, Types, ProcessTypes, CallTypes, EngineTypes, agent, bridge, cards, count, Ids
<1>3. CASE \E type \in {"user", "interrupt"} : UserLine(type)
  <2>1. PICK type \in {"user", "interrupt"} : UserLine(type)
    BY <1>3
  <2>2. inbox' \in Seq(Line)
    BY <1>0, <2>1, WrittenByAll DEF UserLine, Send, ProcessTypes
  <2> QED BY <1>0, <2>1, <2>2
     DEF UserLine, Types, ProcessTypes, CallTypes, EngineTypes, agent, bridge, cards, Ids
<1>4. CASE \E c \in Calls, d \in {"allow", "deny"} : Tap(c, d)
  <2>1. PICK c \in Calls, d \in {"allow", "deny"} : Tap(c, d)
    BY <1>4
  <2>2. [type |-> "perm", call |-> c, decision |-> d] \in Line
    BY Written
  <2>3. inbox' \in Seq(Line)
    BY <1>0, <2>1, <2>2 DEF Tap, Send, ProcessTypes
  <2> QED BY <1>0, <2>1, <2>3
     DEF Tap, Types, ProcessTypes, CallTypes, EngineTypes, agent, bridge, cards, Ids
<1> QED BY <1>1, <1>2, <1>3, <1>4

LEMMA TypesNext ==
    ASSUME Types, [Next]_vars
    PROVE  Types'
<1>1. CASE StartProcess \/ TakeTurn \/ EndTurn
  BY <1>1, TurnTypes
<1>2. CASE ReadLine
  BY <1>2, ReadTypes
<1>3. CASE Exit
  BY <1>3, ExitTypes
<1>4. CASE TailLog
  BY <1>4, TailTypes
<1>6. CASE \E c \in Calls :
               (\E k \in Kinds : Issue(c, k)) \/ ParkAsk(c) \/ ParkDelegate(c) \/ Return(c)
  BY <1>6, AgentTypes
<1>7. CASE \/ \E f \in fanouts : FanoutDone(f)
           \/ OnExit
           \/ \E type \in {"user", "interrupt"} : UserLine(type)
           \/ \E c \in Calls, d \in {"allow", "deny"} : Tap(c, d)
  BY <1>7, OtherTypes
<1>8. CASE UNCHANGED vars
  BY <1>8 DEF vars, Types, ProcessTypes, CallTypes, EngineTypes, agent, bridge, engine, cards, count
<1> QED BY <1>1, <1>2, <1>3, <1>4, <1>6, <1>7, <1>8 DEF Next

-----------------------------------------------------------------------------
(* What the bridge holds *)

Over == {"allowed", "denied"}

\* A call that is over stays over, and one that was issued stays issued, as what it is.
Steady ==
    /\ \A c \in Calls : st[c] \in Over => st'[c] \in Over
    /\ \A c \in Calls : st[c] # "none" => st'[c] # "none" /\ kind'[c] = kind[c]

\* Calls that end one way or another.
LEMMA EndedIsSteady ==
    ASSUME CallTypes, NEW C, NEW outcome \in States \ {"none"}, Settle(C, outcome), kind' = kind,
           \A c \in C \cap Calls : st[c] \in Over => outcome \in Over
    PROVE  Steady
BY Settled DEF Steady, CallTypes

\* What the bridge no longer holds does not matter; of a permission it must not have run.
LEMMA HeldKept ==
    ASSUME CallTypes, CallTypes', HeldByTheBridge, Steady,
           slot'.perm \in {0, slot.perm}, slot'.ask \in {0, slot.ask},
           \A i \in DOMAIN delegates' :
               delegates'[i] = 0 \/ (i \in DOMAIN delegates /\ delegates'[i] = delegates[i]),
           slot'.perm # 0 => st'[slot'.perm] \in {"parked", "stale"}
    PROVE  HeldByTheBridge'
<1>1. slot'.perm # 0 => kind'[slot'.perm] = "perm" /\ st'[slot'.perm] \in {"parked", "stale"}
  <2> SUFFICES ASSUME slot'.perm # 0 PROVE kind'[slot'.perm] = "perm"
    OBVIOUS
  <2>1. slot'.perm = slot.perm /\ slot.perm \in Calls
    BY DEF CallTypes, Ids
  <2> QED BY <2>1 DEF HeldByTheBridge, Steady
<1>2. slot'.ask # 0 => kind'[slot'.ask] = "ask" /\ st'[slot'.ask] # "none"
  <2> SUFFICES ASSUME slot'.ask # 0 PROVE kind'[slot'.ask] = "ask" /\ st'[slot'.ask] # "none"
    OBVIOUS
  <2>1. slot'.ask = slot.ask /\ slot.ask \in Calls
    BY DEF CallTypes, Ids
  <2> QED BY <2>1 DEF HeldByTheBridge, Steady
<1>3. ASSUME NEW i \in DOMAIN delegates', delegates'[i] # 0
      PROVE  kind'[delegates'[i]] = "delegate" /\ st'[delegates'[i]] # "none"
  <2>1. i \in DOMAIN delegates /\ delegates'[i] = delegates[i]
    BY <1>3
  <2>2. delegates[i] \in Calls
    BY <1>3, <2>1 DEF CallTypes, Ids
  <2> QED BY <1>3, <2>1, <2>2 DEF HeldByTheBridge, Steady
<1> QED BY <1>1, <1>2, <1>3 DEF HeldByTheBridge

\* The bridge lets go of everything.
LEMMA HeldEmptied ==
    ASSUME CallTypes, slot' = NoSlot, \A i \in DOMAIN delegates' : delegates'[i] = 0
    PROVE  HeldByTheBridge'
BY DEF HeldByTheBridge, NoSlot


LEMMA Untouched ==
    ASSUME CallTypes, CallTypes', HeldByTheBridge, UNCHANGED <<kind, st, slot, delegates>>
    PROVE  Steady /\ HeldByTheBridge'
BY DEF Steady, HeldByTheBridge

LEMMA DenyAllHeld ==
    ASSUME CallTypes, NEW C, NEW first, DenyAll(C, first), kind' = kind
    PROVE  Steady /\ HeldByTheBridge'
<1>1. Settle({c \in C : st[c] \in Open}, "denied")
  BY DEF DenyAll
<1>2. Steady
  BY <1>1, EndedIsSteady DEF Over, States
<1>3. slot' = NoSlot /\ \A i \in DOMAIN delegates' : delegates'[i] = 0
  BY DEF DenyAll
<1> QED BY <1>2, <1>3, HeldEmptied

LEMMA AgentHeld ==
    ASSUME Types, Types', HeldByTheBridge, NEW c \in Calls,
           (\E k \in Kinds : Issue(c, k)) \/ ParkAsk(c) \/ ParkDelegate(c) \/ Return(c)
    PROVE  Steady /\ HeldByTheBridge'
<1>0. CallTypes /\ CallTypes'
  BY DEF Types
<1>1. ASSUME NEW k \in Kinds, Issue(c, k)
      PROVE  Steady /\ HeldByTheBridge'
  <2>1. /\ st[c] = "none" /\ delegates' = delegates
        /\ kind' = [kind EXCEPT ![c] = k]
        /\ st' = [st EXCEPT ![c] = CASE k = "perm" -> "parked" [] k \in {"ask", "delegate"} -> "called"
                                     [] k = "workflow" /\ ~nudged -> "denied" [] OTHER -> "running"]
        /\ slot' = IF k = "perm" THEN [slot EXCEPT !.perm = c] ELSE slot
    BY <1>1 DEF Issue
  <2>2. kind'[c] = k /\ st'[c] # "none" /\ (k = "perm" => st'[c] = "parked")
    BY <1>0, <2>1 DEF CallTypes
  <2>3. \A d \in Calls : d # c => kind'[d] = kind[d] /\ st'[d] = st[d]
    BY <1>0, <2>1 DEF CallTypes
  <2>4. Steady
    BY <2>1, <2>2, <2>3 DEF Steady, Over
  <2>5. slot'.ask = slot.ask /\ slot'.perm = IF k = "perm" THEN c ELSE slot.perm
    BY <1>0, <2>1 DEF CallTypes
  <2>6. slot.perm # 0 => slot.perm \in Calls /\ slot.perm # c
    BY <1>0, <2>1 DEF CallTypes, Ids, HeldByTheBridge
  <2>7. CASE k = "perm"
    <3>1. slot'.ask # 0 => kind'[slot'.ask] = "ask" /\ st'[slot'.ask] # "none"
      <4>1. slot.ask # 0 => slot.ask \in Calls /\ slot.ask # c
        BY <1>0, <2>1 DEF CallTypes, Ids, HeldByTheBridge
      <4> QED BY <2>3, <2>5, <4>1 DEF HeldByTheBridge
    <3>2. ASSUME NEW i \in DOMAIN delegates, delegates[i] # 0
          PROVE  kind'[delegates[i]] = "delegate" /\ st'[delegates[i]] # "none"
      <4>1. delegates[i] \in Calls /\ delegates[i] # c
        BY <1>0, <2>1, <3>2 DEF CallTypes, Ids, HeldByTheBridge
      <4> QED BY <2>3, <3>2, <4>1 DEF HeldByTheBridge
    <3> QED BY <2>1, <2>2, <2>4, <2>5, <2>7, <3>1, <3>2 DEF HeldByTheBridge
  <2>8. CASE k # "perm"
    <3>1. slot'.perm # 0 => st'[slot'.perm] \in {"parked", "stale"}
      BY <2>3, <2>5, <2>6, <2>8 DEF HeldByTheBridge
    <3> QED BY <1>0, <2>1, <2>4, <2>5, <2>8, <3>1, HeldKept
  <2> QED BY <2>7, <2>8
<1>2. CASE ParkAsk(c)
  <2>1. /\ kind[c] = "ask" /\ st[c] = "called" /\ kind' = kind /\ delegates' = delegates
        /\ slot' = [slot EXCEPT !.ask = c] /\ Settle({c}, "parked")
    BY <1>2 DEF ParkAsk
  <2>2. Steady
    BY <1>0, <2>1, EndedIsSteady DEF Over, States
  <2>3. st'[c] = "parked" /\ \A d \in Calls : d # c => st'[d] = st[d]
    BY <1>0, <2>1, Settled DEF CallTypes, States
  <2>4. slot'.ask = c /\ slot'.perm = slot.perm
    BY <1>0, <2>1 DEF CallTypes
  <2>5. slot.perm # 0 => kind'[slot.perm] = "perm" /\ st'[slot.perm] \in {"parked", "stale"}
    <3>1. slot.perm # 0 => slot.perm \in Calls /\ slot.perm # c
      BY <1>0, <2>1 DEF CallTypes, Ids, HeldByTheBridge
    <3> QED BY <2>1, <2>3, <3>1 DEF HeldByTheBridge
  <2>6. ASSUME NEW i \in DOMAIN delegates, delegates[i] # 0
        PROVE  kind'[delegates[i]] = "delegate" /\ st'[delegates[i]] # "none"
    <3>1. delegates[i] \in Calls
      BY <1>0, <2>6 DEF CallTypes, Ids
    <3> QED BY <2>1, <2>2, <2>6, <3>1 DEF HeldByTheBridge, Steady
  <2> QED BY <2>1, <2>2, <2>3, <2>4, <2>5, <2>6 DEF HeldByTheBridge
<1>3. CASE ParkDelegate(c)
  <2>1. /\ kind[c] = "delegate" /\ st[c] = "called" /\ kind' = kind /\ slot' = slot
        /\ Settle({c}, "parked") \/ Settle({c}, "denied")
        /\ delegates' = delegates \/ delegates' = Append(delegates, c)
    BY <1>0, <1>3 DEF ParkDelegate, RequestId, CallTypes
  <2>2. Steady
    BY <1>0, <2>1, EndedIsSteady DEF Over, States
  <2>3. st'[c] # "none" /\ \A d \in Calls : d # c => st'[d] = st[d]
    BY <1>0, <2>1, Settled DEF CallTypes, States
  <2>4. slot.perm # 0 => st'[slot.perm] \in {"parked", "stale"}
    <3>1. slot.perm # 0 => slot.perm \in Calls /\ slot.perm # c
      BY <1>0, <2>1 DEF CallTypes, Ids, HeldByTheBridge
    <3> QED BY <2>3, <3>1 DEF HeldByTheBridge
  <2>5. CASE delegates' = delegates
    BY <1>0, <2>1, <2>2, <2>4, <2>5, HeldKept
  <2>6. CASE delegates' = Append(delegates, c)
    <3>1. slot'.perm # 0 => kind'[slot'.perm] = "perm" /\ st'[slot'.perm] \in {"parked", "stale"}
      BY <2>1, <2>4 DEF HeldByTheBridge
    <3>2. slot'.ask # 0 => kind'[slot'.ask] = "ask" /\ st'[slot'.ask] # "none"
      <4>1. slot.ask # 0 => slot.ask \in Calls
        BY <1>0 DEF CallTypes, Ids
      <4> QED BY <2>1, <2>2, <4>1 DEF HeldByTheBridge, Steady
    <3>3. ASSUME NEW i \in DOMAIN delegates', delegates'[i] # 0
          PROVE  kind'[delegates'[i]] = "delegate" /\ st'[delegates'[i]] # "none"
      <4>1. delegates'[i] = c \/ (i \in DOMAIN delegates /\ delegates'[i] = delegates[i])
        BY <1>0, <2>6, <3>3 DEF CallTypes
      <4>2. CASE i \in DOMAIN delegates /\ delegates'[i] = delegates[i]
        <5>1. delegates[i] \in Calls
          BY <1>0, <3>3, <4>2 DEF CallTypes, Ids
        <5> QED BY <2>1, <2>2, <3>3, <4>2, <5>1 DEF HeldByTheBridge, Steady
      <4> QED BY <2>1, <2>3, <4>1, <4>2
    <3> QED BY <2>2, <3>1, <3>2, <3>3 DEF HeldByTheBridge
  <2> QED BY <2>1, <2>5, <2>6
<1>4. CASE Return(c)
  <2>1. st[c] = "running" /\ Settle({c}, "allowed") /\ kind' = kind /\ UNCHANGED bridge
    BY <1>4 DEF Return
  <2>2. Steady
    BY <1>0, <2>1, EndedIsSteady DEF Over, States
  <2>3. slot.perm # 0 => st'[slot.perm] \in {"parked", "stale"}
    <3>1. slot.perm # 0 => slot.perm \in Calls /\ slot.perm # c
      BY <1>0, <2>1 DEF CallTypes, Ids, HeldByTheBridge
    <3>2. \A d \in Calls : d # c => st'[d] = st[d]
      BY <1>0, <2>1, Settled DEF CallTypes, States
    <3> QED BY <3>1, <3>2 DEF HeldByTheBridge
  <2> QED BY <1>0, <2>1, <2>2, <2>3, HeldKept DEF bridge
<1> QED BY <1>1, <1>2, <1>3, <1>4

LEMMA ReadHeld ==
    ASSUME Types, Types', HeldByTheBridge, ReadLine
    PROVE  Steady /\ HeldByTheBridge'
<1>0. CallTypes /\ CallTypes' /\ kind' = kind
  BY DEF Types, ReadLine
<1> DEFINE line == Head(inbox)
<1>1. CASE ReadInterrupt(line)
  BY <1>0, <1>1, DenyAllHeld DEF ReadInterrupt
<1>2. CASE ReadDelegate(line)
  <2>1. CASE line.id \in DOMAIN delegates /\ delegates[line.id] # 0
    <3>1. PICK c \in Calls : c = delegates[line.id]
      BY <1>0, <2>1 DEF CallTypes, Ids
    <3>2. /\ delegates' = [delegates EXCEPT ![line.id] = 0] /\ slot' = slot
          /\ Settle({c}, IF st[c] = "parked" THEN "allowed" ELSE st[c])
      BY <1>2, <2>1, <3>1 DEF ReadDelegate
    <3>3. kind[c] = "delegate" /\ st[c] # "none"
      BY <2>1, <3>1 DEF HeldByTheBridge
    <3>4. (IF st[c] = "parked" THEN "allowed" ELSE st[c]) \in States \ {"none"}
      BY <1>0, <3>3 DEF CallTypes, States
    <3>5. Steady
      BY <1>0, <3>2, <3>4, EndedIsSteady DEF Over
    <3>6. slot.perm # 0 => st'[slot.perm] \in {"parked", "stale"}
      <4>1. slot.perm # 0 => slot.perm \in Calls /\ slot.perm # c
        BY <1>0, <3>3 DEF CallTypes, Ids, HeldByTheBridge
      <4>2. \A d \in Calls : d # c => st'[d] = st[d]
        BY <1>0, <3>2, <3>4, Settled DEF CallTypes
      <4> QED BY <4>1, <4>2 DEF HeldByTheBridge
    <3> QED BY <1>0, <3>2, <3>5, <3>6, HeldKept
  <2>2. CASE ~(line.id \in DOMAIN delegates /\ delegates[line.id] # 0)
    BY <1>0, <1>2, <2>2, Untouched DEF ReadDelegate
  <2> QED BY <2>1, <2>2
<1>3. CASE ReadPerm(line)
  <2>1. slot' = [slot EXCEPT !.perm = 0] /\ delegates' = delegates
    BY <1>3 DEF ReadPerm
  <2>2. slot'.perm = 0 /\ slot'.ask = slot.ask
    BY <1>0, <2>1 DEF CallTypes
  <2>3. Steady
    <3>1. CASE slot.perm = 0
      BY <1>0, <1>3, <3>1 DEF ReadPerm, Steady
    <3>2. CASE slot.perm # 0
      <4>1. Settle({slot.perm}, IF line.decision = "allow" THEN "running" ELSE "denied")
        BY <1>3, <3>2 DEF ReadPerm
      <4>2. st[slot.perm] \notin Over
        BY <3>2 DEF HeldByTheBridge, Over
      <4> QED BY <1>0, <4>1, <4>2, EndedIsSteady DEF States
    <3> QED BY <3>1, <3>2
  <2> QED BY <1>0, <2>1, <2>2, <2>3, HeldKept
<1>4. CASE ReadUser(line)
  <2>1. CASE slot.ask # 0
    <3>1. /\ Settle({slot.ask}, IF st[slot.ask] = "parked" THEN "running" ELSE st[slot.ask])
          /\ slot' = [slot EXCEPT !.ask = 0] /\ delegates' = delegates
      BY <1>4, <2>1 DEF ReadUser
    <3>2. slot.ask \in Calls /\ kind[slot.ask] = "ask" /\ st[slot.ask] # "none"
      BY <1>0, <2>1 DEF CallTypes, Ids, HeldByTheBridge
    <3>3. (IF st[slot.ask] = "parked" THEN "running" ELSE st[slot.ask]) \in States \ {"none"}
      BY <1>0, <3>2 DEF CallTypes, States
    <3>4. Steady
      BY <1>0, <3>1, <3>3, EndedIsSteady DEF Over
    <3>5. slot.perm # 0 => st'[slot.perm] \in {"parked", "stale"}
      <4>1. slot.perm # 0 => slot.perm \in Calls /\ slot.perm # slot.ask
        BY <1>0, <3>2 DEF CallTypes, Ids, HeldByTheBridge
      <4>2. \A d \in Calls : d # slot.ask => st'[d] = st[d]
        BY <1>0, <3>1, <3>3, Settled DEF CallTypes
      <4> QED BY <4>1, <4>2 DEF HeldByTheBridge
    <3>6. slot'.perm = slot.perm /\ slot'.ask = 0
      BY <1>0, <3>1 DEF CallTypes
    <3> QED BY <1>0, <3>1, <3>4, <3>5, <3>6, HeldKept
  <2>2. CASE slot.ask = 0
    BY <1>0, <1>4, <2>2, Untouched DEF ReadUser
  <2> QED BY <2>1, <2>2
<1> QED BY <1>1, <1>2, <1>3, <1>4 DEF ReadLine

LEMMA HeldNext ==
    ASSUME Types, Types', HeldByTheBridge, [Next]_vars
    PROVE  Steady /\ HeldByTheBridge'
<1>0. CallTypes /\ CallTypes'
  BY DEF Types
<1>1. CASE StartProcess
  BY <1>0, <1>1, HeldEmptied DEF StartProcess, Steady
<1>2. CASE EndTurn
  <2>1. Settle({c \in Calls : st[c] \in Open}, "stale") /\ kind' = kind /\ UNCHANGED bridge
    BY <1>2 DEF EndTurn
  <2>2. Steady
    BY <1>0, <2>1, EndedIsSteady DEF Over, Open, States
  <2>3. slot.perm # 0 => st'[slot.perm] \in {"parked", "stale"}
    <3>1. slot.perm # 0 => slot.perm \in Calls
      BY <1>0 DEF CallTypes, Ids
    <3>2. \A c \in Calls : st'[c] = "stale" \/ st'[c] = st[c]
      BY <1>0, <2>1, Settled DEF CallTypes, States
    <3> QED BY <3>1, <3>2 DEF HeldByTheBridge
  <2> QED BY <1>0, <2>1, <2>2, <2>3, HeldKept DEF bridge
<1>3. CASE Exit
  <2>1. CASE \E error \in {<<>>, <<[type |-> "result"]>>} : DenyAll({c \in Calls : st[c] \in Open}, error)
    BY <1>0, <1>3, <2>1, DenyAllHeld DEF Exit
  <2>2. CASE Settle({c \in Calls : st[c] \in Open}, "stale") /\ slot' = NoSlot /\ delegates' = <<>>
    <3>1. Steady
      BY <1>0, <1>3, <2>2, EndedIsSteady DEF Exit, Over, Open, States
    <3> QED BY <1>0, <2>2, <3>1, HeldEmptied
  <2> QED BY <1>3, <2>1, <2>2 DEF Exit
<1>4. CASE ReadLine
  BY <1>4, ReadHeld
<1>5. CASE \E c \in Calls :
               (\E k \in Kinds : Issue(c, k)) \/ ParkAsk(c) \/ ParkDelegate(c) \/ Return(c)
  BY <1>5, AgentHeld
<1>6. CASE TakeTurn \/ TailLog \/ OnExit \/ UNCHANGED vars
  BY <1>0, <1>6, Untouched DEF TakeTurn, TailLog, OnExit, vars, agent, bridge
<1>7. CASE \/ \E f \in fanouts : FanoutDone(f)
           \/ \E type \in {"user", "interrupt"} : UserLine(type)
           \/ \E c \in Calls, d \in {"allow", "deny"} : Tap(c, d)
  BY <1>0, <1>7, Untouched DEF FanoutDone, UserLine, Tap, agent, bridge
<1> QED BY <1>1, <1>2, <1>3, <1>4, <1>5, <1>6, <1>7 DEF Next

-----------------------------------------------------------------------------
(* One result of a call, one marker of a result *)

\* Lines without a result of c leave its results where they are.
LEMMA NothingNew ==
    ASSUME log \in Seq(Event), NEW ls \in Seq(Event), WriteLog(ls), NEW c \in Calls,
           ResultsOf(c, ls) = {}
    PROVE  ResultsOf(c, log') = ResultsOf(c, log)
<1>1. log' = log \o ls
  BY DEF WriteLog
<1>2. /\ Len(log') = Len(log) + Len(ls) /\ DOMAIN log' = 1 .. Len(log')
      /\ \A i \in 1 .. Len(log) : log'[i] = log[i]
      /\ \A i \in 1 .. Len(ls) : log'[Len(log) + i] = ls[i]
  BY <1>1
<1>3. ASSUME NEW i \in ResultsOf(c, log')
      PROVE  i \in ResultsOf(c, log)
  <2>1. i \in 1 .. Len(log') /\ log'[i].type = "tool_result" /\ log'[i].call = c
    BY <1>2, <1>3 DEF ResultsOf
  <2>2. CASE i <= Len(log)
    BY <1>2, <2>1, <2>2 DEF ResultsOf
  <2>3. CASE i > Len(log)
    <3>1. i - Len(log) \in 1 .. Len(ls) /\ ls[i - Len(log)] = log'[i]
      BY <1>2, <2>1, <2>3
    <3>2. i - Len(log) \in ResultsOf(c, ls)
      BY <2>1, <3>1 DEF ResultsOf
    <3> QED BY <3>2
  <2> QED BY <2>1, <2>2, <2>3
<1>4. ASSUME NEW i \in ResultsOf(c, log)
      PROVE  i \in ResultsOf(c, log')
  <2>1. i \in 1 .. Len(log) /\ log[i].type = "tool_result" /\ log[i].call = c
    BY <1>4 DEF ResultsOf
  <2>2. i \in 1 .. Len(log')
    BY <1>2, <2>1
  <2> QED BY <1>2, <2>1, <2>2 DEF ResultsOf
<1> QED BY <1>3, <1>4

\* A first result is the only one.
LEMMA FirstResult ==
    ASSUME log \in Seq(Event), NEW ls \in Seq(Event), WriteLog(ls), NEW c \in Calls,
           ResultsOf(c, log) = {}, \A i, j \in ResultsOf(c, ls) : i = j
    PROVE  \A i, j \in ResultsOf(c, log') : i = j
<1>1. log' = log \o ls
  BY DEF WriteLog
<1>2. /\ Len(log') = Len(log) + Len(ls) /\ DOMAIN log' = 1 .. Len(log')
      /\ \A i \in 1 .. Len(log) : log'[i] = log[i]
      /\ \A i \in 1 .. Len(ls) : log'[Len(log) + i] = ls[i]
  BY <1>1
<1>3. ASSUME NEW i \in ResultsOf(c, log')
      PROVE  i \in Int /\ i - Len(log) \in ResultsOf(c, ls)
  <2>1. i \in 1 .. Len(log') /\ log'[i].type = "tool_result" /\ log'[i].call = c
    BY <1>2, <1>3 DEF ResultsOf
  <2>2. i > Len(log)
    <3> SUFFICES ASSUME i <= Len(log) PROVE FALSE
      BY <2>1
    <3>1. i \in ResultsOf(c, log)
      BY <1>2, <2>1 DEF ResultsOf
    <3> QED BY <3>1
  <2>3. i - Len(log) \in 1 .. Len(ls) /\ ls[i - Len(log)] = log'[i]
    BY <1>2, <2>1, <2>2
  <2> QED BY <2>1, <2>3 DEF ResultsOf
<1> QED BY <1>3

\* Reading a line moves the results of the others one place.
LEMMA LineRead ==
    ASSUME log \in Seq(Event), log # <<>>, NEW ls \in Seq(Event), log' = Tail(log) \o ls,
           NEW c \in Calls, ResultsOf(c, ls) = {}
    PROVE  \A i \in ResultsOf(c, log') : i \in Nat /\ i + 1 \in ResultsOf(c, log)
<1>1. /\ Tail(log) \in Seq(Event) /\ Len(Tail(log)) = Len(log) - 1
      /\ \A i \in 1 .. Len(Tail(log)) : Tail(log)[i] = log[i + 1]
  BY HeadTailProperties
<1>2. /\ Len(log') = Len(Tail(log)) + Len(ls) /\ DOMAIN log' = 1 .. Len(log')
      /\ \A i \in 1 .. Len(Tail(log)) : log'[i] = Tail(log)[i]
      /\ \A i \in 1 .. Len(ls) : log'[Len(Tail(log)) + i] = ls[i]
  BY <1>1
<1> SUFFICES ASSUME NEW i \in ResultsOf(c, log')
             PROVE  i \in Nat /\ i + 1 \in ResultsOf(c, log)
  OBVIOUS
<1>3. i \in 1 .. Len(log') /\ log'[i].type = "tool_result" /\ log'[i].call = c
  BY <1>2 DEF ResultsOf
<1>4. CASE i <= Len(Tail(log))
  <2>1. log[i + 1] = log'[i] /\ i + 1 \in 1 .. Len(log)
    BY <1>1, <1>2, <1>3, <1>4
  <2> QED BY <1>3, <2>1 DEF ResultsOf
<1>5. CASE i > Len(Tail(log))
  <2>1. i - Len(Tail(log)) \in 1 .. Len(ls) /\ ls[i - Len(Tail(log))] = log'[i]
    BY <1>1, <1>2, <1>3, <1>5
  <2>2. i - Len(Tail(log)) \in ResultsOf(c, ls)
    BY <1>3, <2>1 DEF ResultsOf
  <2> QED BY <2>2
<1> QED BY <1>1, <1>3, <1>4, <1>5

\* Lines that are no results.
LEMMA NotAResult ==
    ASSUME NEW c \in Calls
    PROVE  /\ ResultsOf(c, <<>>) = {}
           /\ \A e : e.type # "tool_result" => ResultsOf(c, <<e>>) = {}
           /\ \A e : e.call # c => ResultsOf(c, <<e>>) = {}
           /\ \A e : \A i, j \in ResultsOf(c, <<e>>) : i = j
BY DEF ResultsOf

\* What a call needs of a step for its result to stay the only one.
LEMMA ResultKept ==
    ASSUME Types, Types', NEW c \in Calls, OneResult(c), Steady,
           ResultsOf(c, log') = ResultsOf(c, log), markers' = markers
    PROVE  OneResult(c)'
BY DEF OneResult, Steady, Over, ResultsOf

\* The same, of a step that writes lines without results.
LEMMA NoResultWritten ==
    ASSUME Types, Types', NEW c \in Calls, OneResult(c), Steady, markers' = markers,
           NEW ls \in Seq(Event), WriteLog(ls), ResultsOf(c, ls) = {}
    PROVE  OneResult(c)'
<1>1. ResultsOf(c, log') = ResultsOf(c, log)
  BY NothingNew DEF Types, EngineTypes
<1> QED BY <1>1, ResultKept

LEMMA TwoLines ==
    ASSUME NEW a \in Event, NEW b \in Event
    PROVE  <<a>> \o <<b>> = <<a, b>>
<1>1. <<a>> \in Seq(Event) /\ <<b>> \in Seq(Event) /\ <<a, b>> \in Seq(Event)
  OBVIOUS
<1>2. Len(<<a>>) = 1 /\ Len(<<b>>) = 1 /\ Len(<<a, b>>) = 2
  OBVIOUS
<1>3. Len(<<a>> \o <<b>>) = 2 /\ <<a>> \o <<b>> \in Seq(Event)
  BY <1>1, <1>2, ConcatProperties
<1>4. (<<a>> \o <<b>>)[1] = a /\ (<<a>> \o <<b>>)[2] = b
  OBVIOUS
<1>5. \A i \in 1 .. 2 : (<<a>> \o <<b>>)[i] = <<a, b>>[i]
  BY <1>4
<1> QED BY <1>1, <1>2, <1>3, <1>5, SeqEqual

LEMMA AgentResult ==
    ASSUME Types, Types', Steady, NEW c \in Calls, NEW d \in Calls, OneResult(d),
           (\E k \in Kinds : Issue(c, k)) \/ ParkAsk(c) \/ ParkDelegate(c) \/ Return(c)
    PROVE  OneResult(d)'
<1>0. CallTypes /\ EngineTypes
  BY DEF Types
<1>1. ASSUME NEW k \in Kinds, Issue(c, k)
      PROVE  OneResult(d)'
  <2> DEFINE call == [type |-> k, call |-> c]
             result == [type |-> "tool_result", call |-> c]
  <2>0. k \in AllKinds /\ k # "tool_result" /\ call \in Event /\ result \in Event
    BY BridgeAssumption, Written DEF AllKinds
  <2>1. markers' = markers /\ st[c] = "none"
    BY <1>1 DEF Issue, engine, cards
  <2> DEFINE written == <<call>> \o IF k = "workflow" /\ ~nudged THEN <<result>> ELSE <<>>
  <2>4. WriteLog(written)
    BY <1>1 DEF Issue
  <2>5. <<call>> \in Seq(Event) /\ <<call, result>> \in Seq(Event)
    BY <2>0
  <2>6. <<call>> \o <<result>> = <<call, result>> /\ <<call>> \o <<>> = <<call>>
    <3>1. <<call>> \o <<>> = <<call>>
      BY <2>5, ConcatEmptySeq
    <3> QED BY <2>0, <3>1, TwoLines
  <2>2. CASE k = "workflow" /\ ~nudged
    <3>1. WriteLog(<<call, result>>) /\ <<call, result>> \in Seq(Event)
      <4>1. written = <<call, result>>
        BY <2>2, <2>6
      <4> QED BY <2>4, <2>5, <4>1
    <3>2. CASE d = c
      <4>1. ResultsOf(c, log) = {} /\ markers[c] = 0
        BY <2>1, <3>2 DEF OneResult
      <4>2. \A i, j \in ResultsOf(c, <<call, result>>) : i = j
        BY <2>0 DEF ResultsOf
      <4>3. \A i, j \in ResultsOf(c, log') : i = j
        BY <1>0, <3>1, <4>1, <4>2, FirstResult DEF EngineTypes
      <4>4. st'[c] = "denied"
        BY <1>0, <1>1, <2>2 DEF Issue, CallTypes
      <4> QED BY <2>1, <3>2, <4>1, <4>3, <4>4 DEF OneResult, ResultsOf
    <3>3. CASE d # c
      <4>1. ResultsOf(d, <<call, result>>) = {}
        BY <3>3 DEF ResultsOf
      <4> QED BY <2>1, <3>1, <4>1, NoResultWritten
    <3> QED BY <3>2, <3>3
  <2>3. CASE ~(k = "workflow" /\ ~nudged)
    <3>1. written = <<call>>
      BY <2>3, <2>6
    <3>2. WriteLog(<<call>>)
      BY <2>4, <3>1
    <3>3. ResultsOf(d, <<call>>) = {}
      BY <2>0, NotAResult
    <3> QED BY <2>1, <2>5, <3>2, <3>3, NoResultWritten
  <2> QED BY <2>2, <2>3
<1>2. CASE ParkAsk(c)
  BY <1>2, ResultKept DEF ParkAsk, engine, cards
<1>3. CASE ParkDelegate(c)
  <2>1. markers' = markers
    BY <1>3 DEF ParkDelegate, engine, cards
  <2>2. CASE UNCHANGED log
    BY <2>1, <2>2, ResultKept
  <2> DEFINE request == [type |-> "request", call |-> c, id |-> RequestId, proc |-> proc]
  <2>3. CASE WriteLog(<<request>>)
    <3>1. RequestId \in Nat /\ proc \in Nat
      BY <1>0 DEF RequestId, CallTypes, Types, ProcessTypes
    <3>2. request \in Event
      BY <3>1, Written
    <3>3. <<request>> \in Seq(Event) /\ ResultsOf(d, <<request>>) = {}
      BY <3>2, NotAResult
    <3> QED BY <2>1, <2>3, <3>3, NoResultWritten
  <2> QED BY <1>3, <2>2, <2>3 DEF ParkDelegate
<1>4. CASE Return(c)
  <2> DEFINE result == [type |-> "tool_result", call |-> c]
  <2>1. /\ markers' = markers /\ st[c] = "running" /\ WriteLog(<<result>>)
        /\ Settle({c}, "allowed")
    BY <1>4 DEF Return, engine, cards
  <2>2. result \in Event
    BY Written
  <2>3. <<result>> \in Seq(Event)
    BY <2>2
  <2>4. CASE d = c
    <3>1. ResultsOf(c, log) = {} /\ markers[c] = 0
      BY <2>1, <2>4 DEF OneResult
    <3>2. \A i, j \in ResultsOf(c, log') : i = j
      BY <1>0, <2>1, <2>3, <3>1, NotAResult, FirstResult DEF EngineTypes
    <3>3. st'[c] = "allowed"
      BY <1>0, <2>1, Settled DEF CallTypes, States
    <3> QED BY <2>1, <2>4, <3>1, <3>2, <3>3 DEF OneResult, ResultsOf
  <2>5. CASE d # c
    <3>1. ResultsOf(d, <<result>>) = {}
      BY <2>5, NotAResult
    <3> QED BY <2>1, <2>3, <3>1, NoResultWritten
  <2> QED BY <2>4, <2>5
<1> QED BY <1>1, <1>2, <1>3, <1>4

LEMMA ResolvedIsNoResult ==
    ASSUME NEW c \in Calls, NEW p \in Ids, NEW d \in {"allow", "deny"}
    PROVE  ResultsOf(c, Resolved(p, d)) = {}
<1>1. CASE p = 0
  BY <1>1, NotAResult DEF Resolved
<1>2. CASE p # 0
  BY <1>2, NotAResult DEF Resolved
<1> QED BY <1>1, <1>2

LEMMA DenyAllResult ==
    ASSUME Types, Types', Steady, NEW d \in Calls, OneResult(d), markers' = markers,
           NEW C, NEW first \in {<<>>, <<[type |-> "result"]>>}, DenyAll(C, first)
    PROVE  OneResult(d)'
<1>0. CallTypes /\ slot.perm \in Ids
  BY DEF Types, CallTypes
<1> DEFINE resolved == Resolved(slot.perm, "deny")
           end == [type |-> "result"]
<1>1. resolved \in Seq(Event) /\ ResultsOf(d, resolved) = {}
  BY <1>0, ResolvedType, ResolvedIsNoResult
<1>2. WriteLog(first \o resolved)
  BY DEF DenyAll
<1> HIDE DEF resolved
<1>3. CASE first = <<>>
  <2>1. first \o resolved = resolved
    BY <1>1, <1>3, ConcatEmptySeq
  <2> QED BY <1>1, <1>2, <2>1, NoResultWritten
<1>4. CASE first = <<end>>
  <2>1. first \in Seq(Event)
    BY <1>4, WrittenByAll
  <2>2. first \o resolved \in Seq(Event)
    BY <1>1, <2>1, ConcatProperties
  <2>3. ResultsOf(d, first \o resolved) = {}
    <3>1. /\ Len(first) = 1 /\ first[1] = end
          /\ Len(first \o resolved) = 1 + Len(resolved)
          /\ \A i \in 1 .. 1 + Len(resolved) :
                 (first \o resolved)[i] = IF i <= 1 THEN first[i] ELSE resolved[i - 1]
      BY <1>1, <1>4, <2>1, ConcatProperties
    <3> SUFFICES ASSUME NEW i \in ResultsOf(d, first \o resolved) PROVE FALSE
      OBVIOUS
    <3>2. i \in 1 .. 1 + Len(resolved) /\ (first \o resolved)[i].type = "tool_result"
          /\ (first \o resolved)[i].call = d
      BY <2>2, <3>1 DEF ResultsOf
    <3>3. i # 1
      BY <3>1, <3>2
    <3>4. i - 1 \in 1 .. Len(resolved) /\ (first \o resolved)[i] = resolved[i - 1]
      BY <1>1, <3>1, <3>2, <3>3
    <3>5. i - 1 \in ResultsOf(d, resolved)
      BY <1>1, <3>2, <3>4 DEF ResultsOf
    <3> QED BY <1>1, <3>5
  <2> QED BY <1>2, <2>2, <2>3, NoResultWritten
<1> QED BY <1>3, <1>4

LEMMA ReadResult ==
    ASSUME Types, Types', Steady, NEW d \in Calls, OneResult(d), ReadLine
    PROVE  OneResult(d)'
<1>0. CallTypes /\ EngineTypes /\ ProcessTypes /\ markers' = markers
  BY DEF Types, ReadLine, engine, cards
<1> DEFINE line == Head(inbox)
<1>1. CASE ReadInterrupt(line)
  BY <1>0, <1>1, DenyAllResult DEF ReadInterrupt
<1>2. CASE ReadDelegate(line) \/ ReadUser(line)
  BY <1>0, <1>2, ResultKept DEF ReadDelegate, ReadUser
<1>3. CASE ReadPerm(line)
  <2>1. line \in Line
    BY <1>0 DEF ReadLine, ProcessTypes
  <2>2. line.decision \in {"allow", "deny"} /\ slot.perm \in Ids
    BY <1>0, <1>3, <2>1, LineFields DEF ReadPerm, CallTypes
  <2>3. WriteLog(Resolved(slot.perm, line.decision))
    BY <1>3 DEF ReadPerm
  <2> QED BY <1>0, <2>2, <2>3, ResolvedType, ResolvedIsNoResult, NoResultWritten
<1> QED BY <1>1, <1>2, <1>3 DEF ReadLine

\* The engine reads a result of c: it was the only one, and no marker of it is written yet.
\* A marker it reads back is no result.
LEMMA TailResult ==
    ASSUME Types, Types', Steady, NEW c \in Calls, OneResult(c), TailLog
    PROVE  OneResult(c)'
<1>0. CallTypes /\ EngineTypes
  BY DEF Types
<1> DEFINE e == Head(log)
<1>1. e \in Event /\ log # <<>> /\ log \in Seq(Event) /\ e = log[1] /\ 1 \in DOMAIN log
  BY <1>0 DEF TailLog, EngineTypes
<1>2. log' = Tail(log) \o Marker(e) /\ st' = st
  BY DEF TailLog, agent
<1> HIDE DEF e
<1>3. Marker(e) \in Seq(Event) /\ Len(Marker(e)) \in {0, 1}
  BY <1>1, MarkerType
<1>4. ResultsOf(c, Marker(e)) = {}
  <2>1. CASE e.type = "tool_result" /\ e.call \in spawns
    BY <2>1, NotAResult DEF Marker
  <2>2. CASE ~(e.type = "tool_result" /\ e.call \in spawns)
    BY <2>2, NotAResult DEF Marker
  <2> QED BY <2>1, <2>2
<1>5. \A i \in ResultsOf(c, log') : i \in Nat /\ i + 1 \in ResultsOf(c, log)
  BY <1>1, <1>2, <1>3, <1>4, LineRead
<1>6. \A i, j \in ResultsOf(c, log') : i = j
  BY <1>5 DEF OneResult
<1>7. CASE e.type = "tool_result" /\ e.call = c
  <2>1. 1 \in ResultsOf(c, log)
    BY <1>1, <1>7 DEF ResultsOf
  <2>2. ResultsOf(c, log') = {}
    <3> SUFFICES ASSUME NEW i \in ResultsOf(c, log') PROVE FALSE
      OBVIOUS
    <3>1. i \in Nat /\ i + 1 \in ResultsOf(c, log)
      BY <1>5
    <3>2. i = 0
      BY <2>1, <3>1 DEF OneResult
    <3>3. i \in DOMAIN log'
      BY DEF ResultsOf
    <3>4. log' \in Seq(Event)
      BY DEF Types, EngineTypes
    <3> QED BY <3>2, <3>3, <3>4
  <2>3. markers[c] = 0 /\ st[c] \in {"allowed", "denied"}
    BY <2>1 DEF OneResult
  <2>4. markers'[c] <= 1
    <3>1. OnToolResult(e)
      BY <1>7 DEF TailLog, e, OnAsk, OnPerm, OnPermResolved, OnResult, OnCard, OnRequest
    <3>2. c \in DOMAIN markers /\ c # 0
      BY <1>0 DEF EngineTypes, Ids, Calls
    <3>3. markers'[c] = markers[c] + 0 + Len(Marker(e))
      BY <1>7, <3>1, <3>2 DEF OnToolResult
    <3>4. CASE Len(Marker(e)) = 0
      BY <2>3, <3>3, <3>4
    <3>5. CASE Len(Marker(e)) = 1
      BY <2>3, <3>3, <3>5
    <3> QED BY <1>3, <3>4, <3>5
  <2> QED BY <1>2, <2>2, <2>3, <2>4 DEF OneResult, ResultsOf
<1>8. CASE ~(e.type = "tool_result" /\ e.call = c)
  <2>1. markers'[c] = markers[c]
    <3>1. CASE UNCHANGED markers
      BY <3>1
    <3>2. CASE OnToolResult(e)
      <4>1. c \in DOMAIN markers /\ c # 0 /\ markers[c] \in Nat
        BY <1>0 DEF EngineTypes, Ids, Calls
      <4>2. (IF c = e.call THEN Len(Marker(e)) ELSE 0) = 0
        BY <1>8 DEF Marker
      <4>3. markers'[c] = markers[c] + 0 + (IF c = e.call THEN Len(Marker(e)) ELSE 0)
        BY <3>2, <4>1 DEF OnToolResult
      <4> QED BY <4>1, <4>2, <4>3
    <3> QED BY <3>1, <3>2
      DEF TailLog, e, OnAsk, OnPerm, OnPermResolved, OnResult, OnCard, OnRequest, cards
  <2>2. ResultsOf(c, log) = {} => ResultsOf(c, log') = {}
    BY <1>5
  <2> QED BY <1>2, <1>6, <2>1, <2>2 DEF OneResult, ResultsOf
<1> QED BY <1>7, <1>8

LEMMA ResultNext ==
    ASSUME Types, Types', Steady, NEW d \in Calls, OneResult(d), [Next]_vars
    PROVE  OneResult(d)'
<1>1. CASE EndTurn
  <2>1. markers' = markers /\ WriteLog(<<[type |-> "result"]>>)
    BY <1>1 DEF EndTurn, engine, cards
  <2>2. <<[type |-> "result"]>> \in Seq(Event) /\ ResultsOf(d, <<[type |-> "result"]>>) = {}
    BY WrittenByAll, NotAResult
  <2> QED BY <2>1, <2>2, NoResultWritten
<1>2. CASE Exit
  <2>1. markers' = markers
    BY <1>2 DEF Exit, engine, cards
  <2>2. CASE UNCHANGED log
    BY <2>1, <2>2, ResultKept
  <2>3. CASE \E error \in {<<>>, <<[type |-> "result"]>>} : DenyAll({c \in Calls : st[c] \in Open}, error)
    BY <2>1, <2>3, DenyAllResult
  <2> QED BY <1>2, <2>2, <2>3 DEF Exit
<1>3. CASE ReadLine
  BY <1>3, ReadResult
<1>4. CASE TailLog
  BY <1>4, TailResult
<1>5. CASE \E c \in Calls :
               (\E k \in Kinds : Issue(c, k)) \/ ParkAsk(c) \/ ParkDelegate(c) \/ Return(c)
  BY <1>5, AgentResult
<1>6. CASE StartProcess \/ TakeTurn \/ OnExit \/ UNCHANGED vars
  BY <1>6, ResultKept DEF StartProcess, TakeTurn, OnExit, vars, engine, cards
<1>7. CASE \/ \E f \in fanouts : FanoutDone(f)
           \/ \E type \in {"user", "interrupt"} : UserLine(type)
           \/ \E c \in Calls, k \in {"allow", "deny"} : Tap(c, k)
  BY <1>7, ResultKept DEF FanoutDone, UserLine, Tap, engine, cards
<1> QED BY <1>1, <1>2, <1>3, <1>4, <1>5, <1>6, <1>7 DEF Next

\* One card for the pull request.
LEMMA CardNext ==
    ASSUME Types, OneCard, [Next]_vars
    PROVE  OneCard'
<1>1. CASE UNCHANGED <<markers, pr_seen>>
  BY <1>1 DEF OneCard
<1>2. CASE TailLog /\ OnToolResult(Head(log))
  <2> DEFINE e == Head(log)
             pr == e.call \notin spawns \cup natives /\ kind[e.call] = "plain" /\ ~pr_seen
  <2>1. log # <<>> /\ EngineTypes
    BY <1>2 DEF TailLog, Types
  <2>2. e \in Event
    BY <2>1 DEF EngineTypes
  <2>3. e.call \in Calls
    BY <1>2, <2>2, EventFields DEF OnToolResult
  <2>4. 0 \in DOMAIN markers /\ e.call # 0 /\ markers[0] \in Nat
    BY <2>1, <2>3 DEF EngineTypes, Ids, Calls
  <2> HIDE DEF e
  <2>5. /\ pr_seen' = (pr_seen \/ pr)
        /\ markers'[0] = markers[0] + (IF pr THEN 1 ELSE 0) + 0
    BY <1>2, <2>4 DEF OnToolResult, e
  <2>6. CASE pr
    <3>1. ~pr_seen /\ pr_seen'
      BY <2>5, <2>6
    <3>2. markers[0] = 0 /\ markers'[0] = markers[0] + 1 + 0
      BY <2>5, <2>6, <3>1 DEF OneCard
    <3> QED BY <3>1, <3>2 DEF OneCard
  <2>7. CASE ~pr
    <3>1. pr_seen' = pr_seen
      BY <2>1, <2>5, <2>7 DEF EngineTypes
    <3>2. markers'[0] = markers[0]
      BY <2>4, <2>5, <2>7
    <3> QED BY <3>1, <3>2 DEF OneCard
  <2> QED BY <2>6, <2>7
<1> QED BY <1>1, <1>2
   DEF Next, vars, StartProcess, TakeTurn, EndTurn, ReadLine, Exit, TailLog, OnExit, Issue, ParkAsk,
       ParkDelegate, Return, Tap, FanoutDone, UserLine, OnAsk, OnPerm, OnPermResolved, OnResult,
       OnCard, OnRequest, engine, cards

-----------------------------------------------------------------------------
(* The cards *)

\* Whether something will be on when these lines are read: a line switched it on, or it is on
\* now, and no later line switches it off.
LeftOn(ls, On, Off, now) ==
    \/ now /\ \A j \in DOMAIN ls : ls[j].type \notin Off
    \/ \E i \in DOMAIN ls : ls[i].type \in On /\ \A j \in DOMAIN ls : j > i => ls[j].type \notin Off

PermLeftOn == LeftOn(log, {"perm"}, {"resolved", "result"}, "perm" \in armed)
CardLeftOn == LeftOn(log, {"ask", "perm"}, {"result"}, armed # {} \/ parked # 0)

\* What the engine will show when it has read the log: a permission that the bridge waits on,
\* and nothing between two turns.  A session that is not live has nothing to read or show.
CardsInOrder ==
    /\ ~live => ~alive /\ log = <<>> /\ armed = {} /\ parked = 0
    /\ alive /\ PermLeftOn => slot.perm # 0
    /\ alive /\ ~busy => ~CardLeftOn

\* Lines that switch nothing on leave what was off; lines that all switch off leave nothing on.
LEMMA LinesWritten ==
    ASSUME NEW s \in Seq(Event), NEW ls \in Seq(Event), NEW On, NEW Off, On \cap Off = {},
           NEW now \in BOOLEAN
    PROVE  /\ (\A j \in DOMAIN ls : ls[j].type \notin On) /\ LeftOn(s \o ls, On, Off, now)
                => LeftOn(s, On, Off, now)
           /\ ls # <<>> /\ (\A j \in DOMAIN ls : ls[j].type \in Off) => ~LeftOn(s \o ls, On, Off, now)
<1> DEFINE t == s \o ls
<1>1. /\ Len(s) \in Nat /\ Len(ls) \in Nat /\ Len(t) = Len(s) + Len(ls)
      /\ DOMAIN s = 1..Len(s) /\ DOMAIN ls = 1..Len(ls) /\ DOMAIN t = 1..Len(t)
      /\ \A i \in 1..Len(s) : t[i] = s[i]
      /\ \A i \in 1..Len(ls) : t[Len(s) + i] = ls[i]
  OBVIOUS
<1> HIDE DEF t
<1>2. \A i \in 1..Len(t) : i \in 1..Len(s) \/ (i - Len(s) \in 1..Len(ls) /\ t[i] = ls[i - Len(s)])
  <2> SUFFICES ASSUME NEW i \in 1..Len(t), i \notin 1..Len(s)
               PROVE  i - Len(s) \in 1..Len(ls) /\ t[i] = ls[i - Len(s)]
    OBVIOUS
  <2>1. i - Len(s) \in 1..Len(ls) /\ Len(s) + (i - Len(s)) = i
    BY <1>1
  <2> QED BY <1>1, <2>1
<1>3. ASSUME \A j \in DOMAIN ls : ls[j].type \notin On, LeftOn(t, On, Off, now)
      PROVE  LeftOn(s, On, Off, now)
  <2>1. CASE now /\ \A j \in DOMAIN t : t[j].type \notin Off
    <3>1. \A j \in DOMAIN s : s[j].type \notin Off
      BY <1>1, <2>1
    <3> QED BY <2>1, <3>1 DEF LeftOn
  <2>2. ASSUME NEW i \in DOMAIN t, t[i].type \in On, \A j \in DOMAIN t : j > i => t[j].type \notin Off
        PROVE  LeftOn(s, On, Off, now)
    <3>1. i \in DOMAIN s /\ s[i].type \in On
      BY <1>1, <1>2, <1>3, <2>2
    <3>2. \A j \in DOMAIN s : j > i => s[j].type \notin Off
      BY <1>1, <2>2
    <3> QED BY <3>1, <3>2 DEF LeftOn
  <2> QED BY <1>3, <2>1, <2>2 DEF LeftOn
<1>4. ASSUME ls # <<>>, \A j \in DOMAIN ls : ls[j].type \in Off, LeftOn(t, On, Off, now)
      PROVE  FALSE
  <2>1. Len(ls) \in DOMAIN ls /\ Len(t) \in DOMAIN t /\ t[Len(t)] = ls[Len(ls)]
    <3>1. Len(ls) # 0
      BY <1>4
    <3> QED BY <1>1, <3>1
  <2>2. t[Len(t)].type \in Off
    BY <1>4, <2>1
  <2>3. PICK i \in DOMAIN t : t[i].type \in On /\ \A j \in DOMAIN t : j > i => t[j].type \notin Off
    BY <1>4, <2>1, <2>2 DEF LeftOn
  <2>4. i = Len(t)
    <3>1. i \in 1..Len(t) /\ Len(t) \in Nat
      BY <1>1, <2>3
    <3>2. ~(Len(t) > i)
      BY <2>1, <2>2, <2>3
    <3> QED BY <3>1, <3>2
  <2> QED BY <2>2, <2>3, <2>4
<1> QED BY <1>3, <1>4 DEF t

\* Reading a line leaves on what it would have left on, if the engine does what the line says.
LEMMA LineTaken ==
    ASSUME NEW s \in Seq(Event), s # <<>>, NEW ls \in Seq(Event), NEW On, NEW Off,
           \A j \in DOMAIN ls : ls[j].type \notin On,
           NEW now \in BOOLEAN, NEW after \in BOOLEAN,
           after => Head(s).type \in On \/ (now /\ Head(s).type \notin Off)
    PROVE  LeftOn(Tail(s) \o ls, On, Off, after) => LeftOn(s, On, Off, now)
<1> DEFINE t == Tail(s) \o ls
<1>1. /\ Len(s) \in Nat /\ Len(s) >= 1 /\ Len(ls) \in Nat /\ Len(t) = Len(s) - 1 + Len(ls)
      /\ DOMAIN s = 1..Len(s) /\ DOMAIN ls = 1..Len(ls) /\ DOMAIN t = 1..Len(t) /\ Head(s) = s[1]
      /\ \A i \in 1..(Len(s) - 1) : t[i] = s[i + 1]
      /\ \A i \in 1..Len(ls) : t[Len(s) - 1 + i] = ls[i]
  <2>1. /\ Tail(s) \in Seq(Event) /\ Len(Tail(s)) = Len(s) - 1
        /\ \A i \in 1..Len(Tail(s)) : Tail(s)[i] = s[i + 1]
    BY HeadTailProperties
  <2>2. Len(s) \in Nat /\ Len(s) >= 1 /\ Head(s) = s[1]
    OBVIOUS
  <2> QED BY <2>1, <2>2
<1> HIDE DEF t
<1> SUFFICES ASSUME LeftOn(t, On, Off, after) PROVE LeftOn(s, On, Off, now)
  BY DEF t
<1>2. \A j \in 1..Len(s) : j > 1 => j - 1 \in 1..(Len(s) - 1) /\ j - 1 \in DOMAIN t /\ s[j] = t[j - 1]
  <2> SUFFICES ASSUME NEW j \in 1..Len(s), j > 1
               PROVE  j - 1 \in 1..(Len(s) - 1) /\ j - 1 \in DOMAIN t /\ s[j] = t[j - 1]
    OBVIOUS
  <2>1. j - 1 \in 1..(Len(s) - 1) /\ j - 1 \in DOMAIN t /\ (j - 1) + 1 = j
    BY <1>1
  <2> QED BY <1>1, <2>1
<1>3. CASE after /\ \A j \in DOMAIN t : t[j].type \notin Off
  <2>1. \A j \in DOMAIN s : j > 1 => s[j].type \notin Off
    BY <1>1, <1>2, <1>3
  <2>2. CASE Head(s).type \in On
    BY <1>1, <2>1, <2>2 DEF LeftOn
  <2>3. CASE now /\ Head(s).type \notin Off
    <3>1. \A j \in DOMAIN s : j = 1 \/ j > 1
      BY <1>1
    <3>2. \A j \in DOMAIN s : s[j].type \notin Off
      BY <1>1, <2>1, <2>3, <3>1
    <3> QED BY <2>3, <3>2 DEF LeftOn
  <2> QED BY <1>3, <2>2, <2>3
<1>4. ASSUME NEW i \in DOMAIN t, t[i].type \in On, \A j \in DOMAIN t : j > i => t[j].type \notin Off
      PROVE  LeftOn(s, On, Off, now)
  <2>1. i \in 1..(Len(s) - 1)
    <3> SUFFICES ASSUME i > Len(s) - 1 PROVE FALSE
      BY <1>1
    <3>1. i - (Len(s) - 1) \in 1..Len(ls) /\ Len(s) - 1 + (i - (Len(s) - 1)) = i
      BY <1>1
    <3>2. t[i] = ls[i - (Len(s) - 1)]
      BY <1>1, <3>1
    <3> QED BY <1>1, <1>4, <3>1, <3>2
  <2>2. i + 1 \in DOMAIN s /\ s[i + 1] = t[i]
    BY <1>1, <2>1
  <2>3. \A j \in DOMAIN s : j > i + 1 => s[j].type \notin Off
    <3> SUFFICES ASSUME NEW j \in DOMAIN s, j > i + 1 PROVE s[j].type \notin Off
      OBVIOUS
    <3>1. j - 1 \in DOMAIN t /\ s[j] = t[j - 1] /\ j - 1 > i
      BY <1>1, <1>2, <2>1
    <3> QED BY <1>4, <3>1
  <2> QED BY <1>4, <2>2, <2>3 DEF LeftOn
<1> QED BY <1>3, <1>4 DEF LeftOn

\* The engine reads nothing and nothing is written: no more is on, and the bridge waits as before.
LEMMA CardsKept ==
    ASSUME CardsInOrder, UNCHANGED <<live, log>>, alive' => alive,
           armed' \subseteq armed, parked' \in {0, parked},
           alive' /\ slot.perm # 0 => slot'.perm # 0,
           alive' /\ busy => busy'
    PROVE  CardsInOrder'
<1>1. ~live' => ~alive' /\ log' = <<>> /\ armed' = {} /\ parked' = 0
  BY DEF CardsInOrder
<1>2. PermLeftOn' => PermLeftOn
  BY DEF PermLeftOn, LeftOn
<1>3. CardLeftOn' => CardLeftOn
  BY DEF CardLeftOn, LeftOn
<1> QED BY <1>1, <1>2, <1>3 DEF CardsInOrder

\* The bridge writes lines: a permission among them is parked, and a turn ends with its result.
LEMMA CardsWritten ==
    ASSUME Types, CardsInOrder, alive, UNCHANGED <<live, alive, armed, parked>>,
           NEW ls \in Seq(Event), WriteLog(ls),
           \/ slot'.perm # 0
           \/ slot'.perm = slot.perm /\ \A j \in DOMAIN ls : ls[j].type \notin {"perm"}
           \/ ls # <<>> /\ \A j \in DOMAIN ls : ls[j].type \in {"resolved", "result"},
           \/ busy'
           \/ ~busy /\ \A j \in DOMAIN ls : ls[j].type \notin {"ask", "perm"}
           \/ ls # <<>> /\ \A j \in DOMAIN ls : ls[j].type \in {"result"}
    PROVE  CardsInOrder'
<1>0. log \in Seq(Event) /\ log' = log \o ls
  BY DEF Types, EngineTypes, WriteLog
<1>1. live' /\ alive'
  BY DEF CardsInOrder
<1>2. PermLeftOn' => slot'.perm # 0
  <2>1. PICK now \in BOOLEAN : now <=> "perm" \in armed
    BY TRUE \in BOOLEAN, FALSE \in BOOLEAN
  <2>2. /\ PermLeftOn' <=> LeftOn(log \o ls, {"perm"}, {"resolved", "result"}, now)
        /\ PermLeftOn <=> LeftOn(log, {"perm"}, {"resolved", "result"}, now)
    BY <1>0, <2>1 DEF PermLeftOn, LeftOn
  <2>3. /\ (\A j \in DOMAIN ls : ls[j].type \notin {"perm"}) /\ PermLeftOn' => PermLeftOn
        /\ ls # <<>> /\ (\A j \in DOMAIN ls : ls[j].type \in {"resolved", "result"}) => ~PermLeftOn'
    <3> DEFINE On == {"perm"}
               Off == {"resolved", "result"}
    <3>1. On \cap Off = {}
      OBVIOUS
    <3> HIDE DEF On, Off
    <3>2. /\ (\A j \in DOMAIN ls : ls[j].type \notin On) /\ LeftOn(log \o ls, On, Off, now)
                => LeftOn(log, On, Off, now)
          /\ ls # <<>> /\ (\A j \in DOMAIN ls : ls[j].type \in Off) => ~LeftOn(log \o ls, On, Off, now)
      BY <1>0, <3>1, LinesWritten
    <3> QED BY <2>2, <3>2 DEF On, Off
  <2> QED BY <2>3 DEF CardsInOrder
<1>3. CardLeftOn' => busy'
  <2>1. PICK now \in BOOLEAN : now <=> (armed # {} \/ parked # 0)
    BY TRUE \in BOOLEAN, FALSE \in BOOLEAN
  <2>2. /\ CardLeftOn' <=> LeftOn(log \o ls, {"ask", "perm"}, {"result"}, now)
        /\ CardLeftOn <=> LeftOn(log, {"ask", "perm"}, {"result"}, now)
    BY <1>0, <2>1 DEF CardLeftOn, LeftOn
  <2>3. /\ (\A j \in DOMAIN ls : ls[j].type \notin {"ask", "perm"}) /\ CardLeftOn' => CardLeftOn
        /\ ls # <<>> /\ (\A j \in DOMAIN ls : ls[j].type \in {"result"}) => ~CardLeftOn'
    <3> DEFINE On == {"ask", "perm"}
               Off == {"result"}
    <3>1. On \cap Off = {}
      OBVIOUS
    <3> HIDE DEF On, Off
    <3>2. /\ (\A j \in DOMAIN ls : ls[j].type \notin On) /\ LeftOn(log \o ls, On, Off, now)
                => LeftOn(log, On, Off, now)
          /\ ls # <<>> /\ (\A j \in DOMAIN ls : ls[j].type \in Off) => ~LeftOn(log \o ls, On, Off, now)
      BY <1>0, <3>1, LinesWritten
    <3> QED BY <2>2, <3>2 DEF On, Off
  <2> QED BY <2>3 DEF CardsInOrder
<1> QED BY <1>1, <1>2, <1>3 DEF CardsInOrder

\* An event that is neither a question nor the end of a turn.
LEMMA CardsUntouched ==
    ASSUME Types, CardsInOrder, alive, UNCHANGED <<live, alive, busy, armed, parked>>,
           slot'.perm = slot.perm,
           NEW e \in Event, e.type \notin {"ask", "perm"}, WriteLog(<<e>>)
    PROVE  CardsInOrder'
<1>1. <<e>> \in Seq(Event) /\ DOMAIN <<e>> = {1} /\ <<e>>[1] = e
  OBVIOUS
<1>2. \A j \in DOMAIN <<e>> : <<e>>[j].type \notin {"ask", "perm"}
  BY <1>1
<1>3. busy' \/ ~busy
  BY DEF Types, ProcessTypes
<1> QED BY <1>1, <1>2, <1>3, CardsWritten

LEMMA AgentCards ==
    ASSUME Types, CardsInOrder, NEW c \in Calls,
           (\E k \in Kinds : Issue(c, k)) \/ ParkAsk(c) \/ ParkDelegate(c) \/ Return(c)
    PROVE  CardsInOrder'
<1>0. ProcessTypes /\ CallTypes
  BY DEF Types
<1>1. ASSUME NEW k \in Kinds, Issue(c, k)
      PROVE  CardsInOrder'
  <2> DEFINE call == [type |-> k, call |-> c]
             result == [type |-> "tool_result", call |-> c]
             written == <<call>> \o IF k = "workflow" /\ ~nudged THEN <<result>> ELSE <<>>
  <2>1. k \in AllKinds /\ call \in Event /\ result \in Event
    BY BridgeAssumption, Written
  <2>2. alive /\ busy /\ UNCHANGED <<live, alive, busy, armed, parked>> /\ WriteLog(written)
    BY <1>1 DEF Issue, engine
  <2>3. written \in {<<call>>, <<call, result>>}
    <3>1. <<call>> \o <<>> = <<call>> /\ <<call>> \o <<result>> = <<call, result>>
      BY <2>1, TwoLines, ConcatEmptySeq
    <3> QED BY <3>1
  <2>4. written \in Seq(Event)
    BY <2>1, <2>3
  <2>5. CASE k = "perm"
    <3>1. slot'.perm # 0
      BY <1>0, <1>1, <2>5 DEF Issue, CallTypes, Calls
    <3> HIDE DEF written
    <3> QED BY <2>2, <2>4, <3>1, CardsWritten
  <2>6. CASE k # "perm"
    <3>1. slot' = slot
      BY <1>1, <2>6 DEF Issue
    <3>2. \A j \in DOMAIN written : written[j].type \notin {"perm"}
      BY <2>3, <2>6
    <3> HIDE DEF written
    <3> QED BY <2>2, <2>4, <3>1, <3>2, CardsWritten
  <2> QED BY <2>5, <2>6
<1>2. CASE ParkAsk(c)
  <2>1. slot'.perm = slot.perm
    BY <1>0, <1>2 DEF ParkAsk, CallTypes
  <2> QED BY <1>2, <2>1, CardsKept DEF ParkAsk, engine
<1>3. CASE ParkDelegate(c)
  <2>1. alive /\ UNCHANGED <<live, alive, busy, armed, parked, slot>>
    BY <1>3 DEF ParkDelegate, engine
  <2>2. CASE UNCHANGED log
    BY <2>1, <2>2, CardsKept
  <2> DEFINE request == [type |-> "request", call |-> c, id |-> RequestId, proc |-> proc]
  <2>3. CASE WriteLog(<<request>>)
    <3>1. request \in Event
      <4>1. RequestId \in Nat /\ proc \in Nat
        BY <1>0 DEF RequestId, CallTypes, ProcessTypes
      <4> QED BY <4>1, Written
    <3> QED BY <2>1, <2>3, <3>1, CardsUntouched
  <2> QED BY <1>3, <2>2, <2>3 DEF ParkDelegate
<1>4. CASE Return(c)
  <2>1. alive /\ UNCHANGED <<live, alive, busy, armed, parked, slot>>
        /\ WriteLog(<<[type |-> "tool_result", call |-> c]>>)
    BY <1>4 DEF Return, engine, bridge
  <2>2. [type |-> "tool_result", call |-> c] \in Event
    BY Written
  <2> QED BY <2>1, <2>2, CardsUntouched
<1> QED BY <1>1, <1>2, <1>3, <1>4

\* The bridge lets go of a permission: it says so in the log, if it held one.
LEMMA LetGo ==
    ASSUME Types, CardsInOrder, alive, UNCHANGED <<live, alive, busy, armed, parked>>,
           NEW d \in {"allow", "deny"}, WriteLog(Resolved(slot.perm, d)), slot'.perm = 0
    PROVE  CardsInOrder'
<1>0. slot.perm \in Ids /\ busy \in BOOLEAN /\ log \in Seq(Event)
  BY DEF Types, ProcessTypes, CallTypes, EngineTypes
<1>1. CASE slot.perm = 0
  <2>1. log' = log
    BY <1>0, <1>1, ConcatEmptySeq DEF WriteLog, Resolved
  <2> QED BY <1>1, <2>1, CardsKept
<1>2. CASE slot.perm # 0
  <2> DEFINE resolved == [type |-> "resolved", call |-> slot.perm, decision |-> d]
  <2>1. resolved \in Event /\ resolved.type = "resolved"
    BY <1>0, <1>2, Written DEF Ids
  <2>2. WriteLog(<<resolved>>)
    BY <1>2 DEF Resolved
  <2> HIDE DEF resolved
  <2>3. <<resolved>> \in Seq(Event) /\ <<resolved>> # <<>>
        /\ \A j \in DOMAIN <<resolved>> : <<resolved>>[j] = resolved
    BY <2>1
  <2>4. /\ \A j \in DOMAIN <<resolved>> : <<resolved>>[j].type \in {"resolved", "result"}
        /\ \A j \in DOMAIN <<resolved>> : <<resolved>>[j].type \notin {"ask", "perm"}
    BY <2>1, <2>3
  <2>5. busy' \/ ~busy
    BY <1>0
  <2> QED BY <2>2, <2>3, <2>4, <2>5, CardsWritten
<1> QED BY <1>1, <1>2

LEMMA ReadCards ==
    ASSUME Types, CardsInOrder, ReadLine
    PROVE  CardsInOrder'
<1>0. ProcessTypes /\ CallTypes /\ EngineTypes
  BY DEF Types
<1> DEFINE line == Head(inbox)
<1>1. /\ alive /\ UNCHANGED <<live, alive, busy, armed, parked>> /\ line \in Line
      /\ ReadInterrupt(line) \/ ReadDelegate(line) \/ ReadPerm(line) \/ ReadUser(line)
  BY <1>0 DEF ReadLine, ProcessTypes, engine
<1> HIDE DEF line
<1>2. CASE ReadInterrupt(line)
  <2>1. slot'.perm = 0 /\ WriteLog(<<>> \o Resolved(slot.perm, "deny"))
    BY <1>2 DEF ReadInterrupt, DenyAll, NoSlot
  <2>2. <<>> \o Resolved(slot.perm, "deny") = Resolved(slot.perm, "deny")
    BY <1>0, ResolvedType, ConcatEmptySeq DEF CallTypes
  <2>3. WriteLog(Resolved(slot.perm, "deny"))
    BY <2>1, <2>2
  <2> QED BY <1>1, <2>1, <2>3, LetGo
<1>3. CASE ReadPerm(line)
  <2>1. slot'.perm = 0 /\ WriteLog(Resolved(slot.perm, line.decision))
    BY <1>0, <1>3 DEF ReadPerm, CallTypes
  <2>2. line.decision \in {"allow", "deny"}
    BY <1>1, <1>3, LineFields DEF ReadPerm
  <2> QED BY <1>1, <2>1, <2>2, LetGo
<1>4. CASE ReadDelegate(line) \/ ReadUser(line)
  <2>1. log' = log /\ slot'.perm = slot.perm
    BY <1>0, <1>4 DEF ReadDelegate, ReadUser, CallTypes
  <2> QED BY <1>1, <2>1, CardsKept
<1> QED BY <1>1, <1>2, <1>3, <1>4

\* The engine takes the card that a line shows, and puts away the one that a line ends.
LEMMA TailCards ==
    ASSUME Types, CardsInOrder, TailLog
    PROVE  CardsInOrder'
<1> DEFINE e == Head(log)
<1>1. /\ live /\ log \in Seq(Event) /\ log # <<>> /\ e \in Event
      /\ log' = Tail(log) \o Marker(e) /\ UNCHANGED <<live, alive, busy, slot>>
  BY DEF TailLog, Types, EngineTypes, agent, bridge
<1>2. OnAsk(e) \/ OnPerm(e) \/ OnPermResolved(e) \/ OnResult(e)
        \/ OnCard(e) \/ OnRequest(e) \/ OnToolResult(e)
  BY DEF TailLog
<1> HIDE DEF e
<1>3. /\ Marker(e) \in Seq(Event)
      /\ \A j \in DOMAIN Marker(e) : Marker(e)[j].type \notin {"ask", "perm"}
  <2>1. Marker(e) \in {<<>>, <<[type |-> "agent_result", call |-> e.call]>>}
    BY DEF Marker
  <2> QED BY <1>1, <2>1, MarkerType
<1>4. /\ "perm" \in armed' =>
             e.type \in {"perm"} \/ ("perm" \in armed /\ e.type \notin {"resolved", "result"})
      /\ armed' # {} \/ parked' # 0 =>
             e.type \in {"ask", "perm"} \/ ((armed # {} \/ parked # 0) /\ e.type \notin {"result"})
  <2>1. CASE OnAsk(e) \/ OnPerm(e) \/ OnPermResolved(e) \/ OnResult(e)
    BY <2>1 DEF OnAsk, OnPerm, OnPermResolved, OnResult
  <2>2. CASE OnCard(e) \/ OnRequest(e) \/ OnToolResult(e)
    BY <2>2 DEF OnCard, OnRequest, OnToolResult
  <2> QED BY <1>2, <2>1, <2>2
<1>5. PermLeftOn' => PermLeftOn
  <2>0. PICK now \in BOOLEAN : now <=> "perm" \in armed
    BY TRUE \in BOOLEAN, FALSE \in BOOLEAN
  <2>1. PICK after \in BOOLEAN : after <=> "perm" \in armed'
    BY TRUE \in BOOLEAN, FALSE \in BOOLEAN
  <2>2. after => e.type \in {"perm"} \/ (now /\ e.type \notin {"resolved", "result"})
    BY <1>4, <2>0, <2>1
  <2>3. \A j \in DOMAIN Marker(e) : Marker(e)[j].type \notin {"perm"}
    BY <1>3
  <2>4. LeftOn(Tail(log) \o Marker(e), {"perm"}, {"resolved", "result"}, after)
          => LeftOn(log, {"perm"}, {"resolved", "result"}, now)
    <3> DEFINE On == {"perm"}
               Off == {"resolved", "result"}
    <3>1. /\ after => Head(log).type \in On \/ (now /\ Head(log).type \notin Off)
          /\ \A j \in DOMAIN Marker(e) : Marker(e)[j].type \notin On
      BY <2>2, <2>3 DEF e
    <3> HIDE DEF On, Off
    <3>2. LeftOn(Tail(log) \o Marker(e), On, Off, after) => LeftOn(log, On, Off, now)
      BY <1>1, <1>3, <3>1, LineTaken
    <3> QED BY <3>2 DEF On, Off
  <2> QED BY <1>1, <2>0, <2>1, <2>4 DEF PermLeftOn, LeftOn
<1>6. CardLeftOn' => CardLeftOn
  <2>0. PICK now \in BOOLEAN : now <=> (armed # {} \/ parked # 0)
    BY TRUE \in BOOLEAN, FALSE \in BOOLEAN
  <2>1. PICK after \in BOOLEAN : after <=> (armed' # {} \/ parked' # 0)
    BY TRUE \in BOOLEAN, FALSE \in BOOLEAN
  <2>2. after => e.type \in {"ask", "perm"} \/ (now /\ e.type \notin {"result"})
    BY <1>4, <2>0, <2>1
  <2>3. LeftOn(Tail(log) \o Marker(e), {"ask", "perm"}, {"result"}, after)
          => LeftOn(log, {"ask", "perm"}, {"result"}, now)
    BY <1>1, <1>3, <2>2, LineTaken DEF e
  <2> QED BY <1>1, <2>0, <2>1, <2>3 DEF CardLeftOn, LeftOn
<1> QED BY <1>1, <1>5, <1>6 DEF CardsInOrder

LEMMA CardsNext ==
    ASSUME Types, CardsInOrder, [Next]_vars
    PROVE  CardsInOrder'
<1>1. CASE StartProcess
  <2>1. /\ live' /\ log' = <<>> /\ armed' = {} /\ parked' = 0
    BY <1>1 DEF StartProcess, engine, CardsInOrder
  <2>2. ~PermLeftOn' /\ ~CardLeftOn'
    BY <2>1 DEF PermLeftOn, CardLeftOn, LeftOn
  <2> QED BY <2>1, <2>2 DEF CardsInOrder
<1>2. CASE EndTurn
  <2> DEFINE end == [type |-> "result"]
  <2>1. alive /\ UNCHANGED <<live, alive, armed, parked, slot>> /\ WriteLog(<<end>>)
    BY <1>2 DEF EndTurn, engine, bridge
  <2>2. <<end>> \in Seq(Event)
    BY WrittenByAll
  <2>3. <<end>> # <<>> /\ \A j \in DOMAIN <<end>> : <<end>>[j].type \in {"result"}
    OBVIOUS
  <2>4. \A j \in DOMAIN <<end>> : <<end>>[j].type \in {"resolved", "result"}
    BY <2>3
  <2> HIDE DEF end
  <2> QED BY <2>1, <2>2, <2>3, <2>4, CardsWritten
<1>3. CASE ReadLine
  BY <1>3, ReadCards
<1>4. CASE Exit \/ OnExit
  <2>1. CASE Exit
    BY <2>1 DEF Exit, CardsInOrder, engine
  <2>2. CASE OnExit
    BY <2>2 DEF OnExit, CardsInOrder
  <2> QED BY <1>4, <2>1, <2>2
<1>5. CASE TailLog
  BY <1>5, TailCards
<1>6. CASE \E c \in Calls :
               (\E k \in Kinds : Issue(c, k)) \/ ParkAsk(c) \/ ParkDelegate(c) \/ Return(c)
  BY <1>6, AgentCards
<1>7. CASE TakeTurn \/ \E f \in fanouts : FanoutDone(f)
  <2>1. UNCHANGED <<live, log, alive, armed, parked, slot>> /\ (busy => busy')
    <3>1. CASE TakeTurn
      BY <3>1 DEF TakeTurn, bridge, engine
    <3>2. CASE \E f \in fanouts : FanoutDone(f)
      BY <3>2 DEF FanoutDone, agent, bridge, engine
    <3> QED BY <1>7, <3>1, <3>2
  <2> QED BY <2>1, CardsKept
<1>8. CASE \/ \E type \in {"user", "interrupt"} : UserLine(type)
           \/ \E c \in Calls, d \in {"allow", "deny"} : Tap(c, d)
  <2>1. /\ UNCHANGED <<live, log, alive, slot, busy>>
        /\ armed' \subseteq armed /\ parked' \in {0, parked}
    BY <1>8 DEF UserLine, Tap, agent, bridge
  <2> QED BY <2>1, CardsKept
<1>9. CASE UNCHANGED vars
  BY <1>9, CardsKept DEF vars, agent, bridge, engine
<1> QED BY <1>1, <1>2, <1>3, <1>4, <1>5, <1>6, <1>7, <1>8, <1>9 DEF Next

-----------------------------------------------------------------------------
(* The theorems *)

LEMMA InvInit == Init => Inv
<1> SUFFICES ASSUME Init PROVE Inv
  OBVIOUS
<1>1. Types
  BY TypesInit
<1>2. HeldByTheBridge
  BY DEF Init, HeldByTheBridge, NoSlot
<1>3. OneCard
  BY DEF Init, OneCard
<1>4. \A c \in Calls : OneResult(c)
  BY DEF Init, OneResult, ResultsOf
<1> QED BY <1>1, <1>2, <1>3, <1>4 DEF Inv

LEMMA InvNext == Inv /\ [Next]_vars => Inv'
<1> SUFFICES ASSUME Inv, [Next]_vars PROVE Inv'
  OBVIOUS
<1>1. Types'
  BY TypesNext DEF Inv
<1>2. Steady /\ HeldByTheBridge'
  BY <1>1, HeldNext DEF Inv
<1>3. OneCard'
  BY CardNext DEF Inv
<1>4. \A c \in Calls : OneResult(c)'
  BY <1>1, <1>2, ResultNext DEF Inv
<1> QED BY <1>1, <1>2, <1>3, <1>4 DEF Inv

LEMMA Invariance == Spec => []Inv
BY InvInit, InvNext, PTL DEF Spec

LEMMA CardInvariance == Spec => []CardsInOrder
<1>1. Init => CardsInOrder
  BY DEF Init, CardsInOrder
<1>2. Types /\ CardsInOrder /\ [Next]_vars => CardsInOrder'
  BY CardsNext
<1>3. Inv => Types
  BY DEF Inv
<1> QED BY <1>1, <1>2, <1>3, Invariance, PTL DEF Spec

\* The variables of the bridge, the engine and the lines between them keep their types, for
\* any number of calls, processes and lines.
THEOREM BridgeTypes == Spec => []Types
<1>1. Inv => Types
  BY DEF Inv
<1> QED BY <1>1, Invariance, PTL

\* runtime.rs:874: the engine writes one marker for the result of a spawn although it reads
\* its markers back, and one card for a pull request that several results name.
THEOREM MarkersOnce == Spec => []OncePerResult
<1>1. Inv => OncePerResult
  <2> SUFFICES ASSUME Inv, NEW c \in DOMAIN markers PROVE markers[c] <= 1
    BY DEF OncePerResult
  <2>1. c \in Ids
    BY DEF Inv, Types, EngineTypes
  <2>2. CASE c = 0
    BY <2>2 DEF Inv, OneCard
  <2>3. CASE c # 0
    BY <2>1, <2>3 DEF Inv, OneResult, Ids
  <2> QED BY <2>2, <2>3
<1> QED BY <1>1, Invariance, PTL

\* records.rs:109, sdk-bridge.mjs:97: once both sides have read everything, a permission card
\* shown with the session is one the bridge waits on, and between two turns none is shown.
THEOREM CardsAreHonest == Spec => []CardHonest
<1>1. CardsInOrder => CardHonest
  <2> SUFFICES ASSUME CardsInOrder, alive, log = <<>>
               PROVE  ("perm" \in armed => slot.perm # 0) /\ (~busy => armed = {} /\ parked = 0)
    BY DEF CardHonest
  <2>1. /\ "perm" \in armed => PermLeftOn
        /\ armed # {} \/ parked # 0 => CardLeftOn
    BY DEF PermLeftOn, CardLeftOn, LeftOn
  <2> QED BY <2>1 DEF CardsInOrder
<1> QED BY <1>1, CardInvariance, PTL
=============================================================================
