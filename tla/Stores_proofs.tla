---------------------------- MODULE Stores_proofs ----------------------------
(***************************************************************************)
(* Theorems about the files and small stores that several callers share:   *)
(* about ConfigFiles, for every number of requests under way, of calls, of *)
(* edits from outside and of faults; and about Readers, for every catalog, *)
(* journal, number of calls on a skill, file and number of adoptions.      *)
(***************************************************************************)
EXTENDS ConfigFiles, Readers, FiniteSetTheorems, SequenceTheorems, WellFoundedInduction, TLAPS

-----------------------------------------------------------------------------
(* The configuration files. *)

\* The requests on a plugin, and on a server of the configuration.
Toggles == {"on", "off"}
Servers == {"add", "delete", "enable", "disable"}

\* A request is under way exactly if it is known what it asks, and one that is to tell the
\* supervisor has written the providers file.
OpsKnown ==
    \A a \in Api : /\ pc[a] = "idle" <=> op[a] = "none"
                   /\ pc[a] = "notify" => op[a] \in {"save", "remove"}

\* The lock of a file: of two requests that have read it one is the other.
LockHeld ==
    \A a, b \in Api : pc[a] = "write" /\ pc[b] = "write" /\ FileOf(op[a]) = FileOf(op[b]) => a = b

\* What a request has read under the lock is what the file still holds.
CopyFresh ==
    \A a \in Api : pc[a] = "write" =>
        /\ parses[FileOf(op[a])]
        /\ op[a] \in Servers => copy[a].live = data.live /\ copy[a].parked = data.parked

\* What a toggle decided before it had the lock still holds of settings.json, unless it was
\* overtaken by an edit; and an edit that is to come has its number.
ValueFresh ==
    \A a \in Api : /\ op[a] \in Toggles /\ a \notin overtaken => value[a] = ToggleValue(op[a] = "on")
                   /\ op[a] \in {"add", "save", "override"} => stamp[a] # 0

\* Stronger than DefinitionSurvives: the newest definition is the one in use, if any is.
DefinitionInUse ==
    newest # 0 => newest = IF data.live # 0 THEN data.live ELSE data.parked

\* Stronger than ToggleHolds: the file the last toggle has written can still be read.
ToggleOnFile ==
    wished # "unset" => parses["local"] /\ (PluginEnabled <=> wished = "on")

\* What every step keeps.
Inv == TypeOK /\ OpsKnown /\ LockHeld /\ CopyFresh /\ ValueFresh /\ UnreadableKept
       /\ DefinitionInUse /\ ToggleOnFile /\ ReloadNotLost

-----------------------------------------------------------------------------
(* Operators. *)

\* What WithFile takes of the second record, and what it leaves of the first.
LEMMA WithFileFields ==
    ASSUME NEW f \in File, NEW d \in Data, NEW e \in Data
    PROVE  LET w == WithFile(f, d, e) IN
           /\ w \in Data
           /\ w.plugin = IF f = "local" THEN e.plugin ELSE d.plugin
           /\ w.live = IF f = "claude" THEN e.live ELSE d.live
           /\ w.parked = IF f = "claude" THEN e.parked ELSE d.parked
           /\ w.provider = IF f = "providers" THEN e.provider ELSE d.provider
BY DEF File, Data, WithFile

\* Every request is about one file.
LEMMA FileOfOp ==
    ASSUME NEW o \in {"on", "off", "add", "delete", "enable", "disable", "save", "remove",
                      "override", "reset"}
    PROVE  /\ FileOf(o) \in File
           /\ FileOf(o) = "local" <=> o \in Toggles
           /\ FileOf(o) = "claude" <=> o \in Servers
           /\ FileOf(o) = "providers" <=> o \in {"save", "remove"}
BY DEF FileOf, File, Toggles, Servers

\* What a request that is to write makes of its copy.
LEMMA EditedFields ==
    ASSUME TypeOK, NEW a \in Api, op[a] # "none"
    PROVE  LET e == Edited(a) IN
           /\ e \in Data
           /\ op[a] \in Toggles => e.plugin = value[a]
           /\ op[a] = "add" => e.live = stamp[a]
           /\ op[a] = "delete" => e.live = 0
           /\ op[a] = "enable" => e.live = IF copy[a].live = 0 THEN copy[a].parked ELSE copy[a].live
           /\ op[a] = "disable" =>
                /\ e.live = 0
                /\ e.parked = IF copy[a].live = 0 THEN copy[a].parked ELSE copy[a].live
<1> USE DEF TypeOK
<1>1. copy[a] \in Data /\ stamp[a] \in Definition /\ value[a] \in Toggle /\ 0 \in Definition
  BY ConfigAssumption DEF ConfigAssumption, Definition
<1>2. \A b \in BOOLEAN : Moved(copy[a], b) \in Data
  BY <1>1 DEF Moved, Data
<1>3. CASE op[a] \in {"on", "off"}
  BY <1>1, <1>3 DEF Edited, Data, Toggles
<1>4. CASE op[a] \in {"add", "delete"}
  BY <1>1, <1>4 DEF Edited, Data, Toggles
<1>5. CASE op[a] \in {"enable", "disable"}
  BY <1>1, <1>2, <1>5 DEF Edited, Data, Moved, Toggles
<1>6. CASE op[a] \in {"save", "remove", "override", "reset"}
  BY <1>1, <1>6 DEF Edited, Data, Toggles
<1> QED BY <1>3, <1>4, <1>5, <1>6

-----------------------------------------------------------------------------
(* Types. *)

\* The first state has the types.
LEMMA TypeInit == Init => TypeOK
<1> SUFFICES ASSUME Init PROVE TypeOK
  OBVIOUS
<1> USE ConfigAssumption DEF ConfigAssumption
<1>1. 0 \in Definition /\ "unset" \in Toggle
  BY DEF Definition, Toggle
<1>2. Empty \in Data
  BY <1>1 DEF Empty, Data
<1>3. parses \in [File -> BOOLEAN]
  <2>1. parses = [f \in File |-> TRUE]
    BY DEF Init
  <2> QED BY <2>1, Zenon
<1>4. /\ base \in Toggle /\ data \in Data /\ serving \in Definition
      /\ wished \in Toggle /\ newest \in Definition /\ clobbered \subseteq File
  BY <1>1, <1>2 DEF Init
<1>5. /\ stamp \in [Api -> Definition] /\ value \in [Api -> Toggle] /\ copy \in [Api -> Data]
  BY <1>1, <1>2 DEF Init
<1>6. /\ pc \in [Api -> {"idle", "lock", "write", "notify"}]
      /\ op \in [Api -> {"none", "on", "off", "add", "delete", "enable", "disable",
                       "save", "remove", "override", "reset"}]
  BY DEF Init
<1>7. permit \in BOOLEAN /\ unnoticed \in BOOLEAN
  BY DEF Init
<1>8. proxy \in {"build", "waiting", "running", "backoff"}
  BY DEF Init
<1>9. calls \in 0..MaxCalls /\ outside \in 0..MaxOutside /\ faults \in 0..MaxFaults /\ overtaken \subseteq Api
  BY DEF Init
<1> QED BY <1>3, <1>4, <1>5, <1>6, <1>7, <1>8, <1>9 DEF TypeOK

\* Every step keeps the types.
LEMMA TypeNext ==
    ASSUME TypeOK, OpsKnown, [Next]_vars
    PROVE  TypeOK'
<1> USE ConfigAssumption DEF ConfigAssumption, TypeOK, api_vars, proxy_vars, bound_vars, history
<1>0. Empty \in Data /\ 0 \in Definition
  BY DEF Empty, Data, Toggle, Definition
<1>1. ASSUME NEW a \in Api, NEW o \in {"on", "off", "add", "delete", "enable", "disable",
                                       "save", "remove", "override", "reset"}, Begin(a, o)
      PROVE  TypeOK'
  <2>1. ToggleValue(o = "on") \in Toggle
    BY DEF ToggleValue, Toggle
  <2>2. calls + outside + 1 \in Definition
    BY <1>1 DEF Begin, Definition
  <2> QED BY <1>0, <1>1, <2>1, <2>2 DEF Begin, Toggle
<1>2. ASSUME NEW a \in Api, Read(a) PROVE TypeOK'
  <2>1. op[a] # "none"
    BY <1>2 DEF Read, OpsKnown
  <2>2. WithFile(FileOf(op[a]), Empty, data) \in Data
    BY <1>0, <2>1, FileOfOp, WithFileFields
  <2> QED BY <1>0, <1>2, <2>2 DEF Read, Done, Toggle
<1>3. ASSUME NEW a \in Api, Write(a) PROVE TypeOK'
  <2>1. op[a] # "none"
    BY <1>3 DEF Write, OpsKnown
  <2>2. FileOf(op[a]) \in File
    BY <2>1, FileOfOp
  <2>3. WithFile(FileOf(op[a]), data, Edited(a)) \in Data
    BY <2>1, <2>2, EditedFields, WithFileFields
  <2>4. wished' \in Toggle
    BY <1>3, <2>1, FileOfOp DEF Write, Toggle, Toggles
  <2>5. newest' \in Definition /\ clobbered' \subseteq File
    BY <1>0, <1>3, <2>2 DEF Write
  <2>6. data' \in Data /\ parses' \in [File -> BOOLEAN]
    BY <1>3, <2>2, <2>3 DEF Write
  <2>7. /\ pc' \in [Api -> {"idle", "lock", "write", "notify"}]
        /\ UNCHANGED <<op, stamp, value, copy>> \/ Done(a)
    BY <1>3 DEF Write, Done
  <2>8. /\ op' \in [Api -> {"none", "on", "off", "add", "delete", "enable", "disable",
                          "save", "remove", "override", "reset"}]
        /\ stamp' \in [Api -> Definition] /\ value' \in [Api -> Toggle] /\ copy' \in [Api -> Data]
    BY <1>0, <2>7 DEF Done, Toggle
  <2> QED BY <1>3, <2>4, <2>5, <2>6, <2>7, <2>8 DEF Write
<1>4. ASSUME NEW a \in Api, WriteFails(a) \/ Notify(a) PROVE TypeOK'
  <2>1. CASE WriteFails(a)
    <3>1. faults' \in 0..MaxFaults
      BY <2>1 DEF WriteFails
    <3> QED BY <1>0, <2>1, <3>1 DEF WriteFails, Done, Toggle
  <2>2. CASE Notify(a)
    BY <1>0, <2>2 DEF Notify, Done, Toggle
  <2> QED BY <1>4, <2>1, <2>2
<1>5. CASE Build \/ Reload \/ ProxyEnds \/ BackoffOver
  <2>1. OnFile \in Definition
    BY <1>0 DEF OnFile, Data
  <2>2. CASE Build
    BY <2>1, <2>2 DEF Build
  <2>3. CASE Reload
    BY <2>3 DEF Reload
  <2>4. CASE ProxyEnds
    <3>1. faults' \in 0..MaxFaults
      BY <2>4 DEF ProxyEnds
    <3> QED BY <2>4, <3>1 DEF ProxyEnds
  <2>5. CASE BackoffOver
    BY <2>5 DEF BackoffOver
  <2> QED BY <1>5, <2>2, <2>3, <2>4, <2>5
<1>6. CASE OutsideToggle
  <2>1. Toggling \subseteq Api
    BY DEF Toggling
  <2>2. \A x \in Toggle : [data EXCEPT !.plugin = x] \in Data
    BY DEF Data
  <2> QED BY <1>6, <2>1, <2>2 DEF OutsideToggle, Outside, Toggle
<1>7. CASE OutsideAdd
  <2>1. calls + outside + 1 \in Definition
    BY <1>7 DEF OutsideAdd, Outside, Definition
  <2>2. [data EXCEPT !.live = calls + outside + 1] \in Data
    BY <2>1 DEF Data
  <2> QED BY <1>7, <2>1, <2>2 DEF OutsideAdd, Outside
<1>8. ASSUME NEW f \in File, OutsideBreak(f) PROVE TypeOK'
  <2>1. Toggling \subseteq Api
    BY DEF Toggling
  <2>2. "unset" \in Toggle
    BY DEF Toggle
  <2>3. parses' \in [File -> BOOLEAN]
    <3>1. parses' = [parses EXCEPT ![f] = ~parses[f]]
      BY <1>8 DEF OutsideBreak
    <3> QED BY <3>1, Zenon DEF TypeOK
  <2>4. wished' \in Toggle /\ overtaken' \subseteq Api /\ unnoticed' \in BOOLEAN
    BY <1>8, <2>1, <2>2 DEF OutsideBreak
  <2> QED BY <1>8, <2>3, <2>4 DEF OutsideBreak, Outside
<1>9. CASE Restart
  <2>1. faults' \in 0..MaxFaults
    BY <1>9 DEF Restart
  <2> QED BY <1>0, <1>9, <2>1 DEF Restart, Toggle
<1>10. CASE UNCHANGED vars
  BY <1>10 DEF vars
<1> QED BY <1>1, <1>2, <1>3, <1>4, <1>5, <1>6, <1>7, <1>8, <1>9, <1>10 DEF Next

-----------------------------------------------------------------------------
(* Requests and their locks. *)

\* What the supervisor and an edit from outside leave alone.
LEMMA ApiKept ==
    ASSUME Build \/ Reload \/ ProxyEnds \/ BackoffOver \/ OutsideToggle \/ OutsideAdd
           \/ (\E f \in File : OutsideBreak(f)) \/ UNCHANGED vars
    PROVE  UNCHANGED api_vars
BY DEF Build, Reload, ProxyEnds, BackoffOver, OutsideToggle, OutsideAdd, OutsideBreak, vars

\* Every step keeps what is known of the requests and the locks.
LEMMA RequestsNext ==
    ASSUME TypeOK, OpsKnown, LockHeld, [Next]_vars
    PROVE  OpsKnown' /\ LockHeld'
<1> USE DEF TypeOK, OpsKnown, LockHeld
<1>1. ASSUME NEW a \in Api, NEW o \in {"on", "off", "add", "delete", "enable", "disable",
                                       "save", "remove", "override", "reset"}, Begin(a, o)
      PROVE  OpsKnown' /\ LockHeld'
  BY <1>1 DEF Begin
<1>2. ASSUME NEW a \in Api, Read(a) PROVE OpsKnown' /\ LockHeld'
  BY <1>2 DEF Read, Locked, Done
<1>3. ASSUME NEW a \in Api, Write(a) PROVE OpsKnown' /\ LockHeld'
  <2>1. op[a] # "none"
    BY <1>3 DEF Write
  <2>2. FileOf(op[a]) = "providers" => op[a] \in {"save", "remove"}
    BY <2>1, FileOfOp
  <2> QED BY <1>3, <2>2 DEF Write, Done
<1>4. ASSUME NEW a \in Api, WriteFails(a) \/ Notify(a) PROVE OpsKnown' /\ LockHeld'
  BY <1>4 DEF WriteFails, Notify, Done
<1>5. CASE Restart
  BY <1>5 DEF Restart
<1>6. CASE UNCHANGED api_vars
  BY <1>6 DEF api_vars
<1> QED BY <1>1, <1>2, <1>3, <1>4, <1>5, <1>6, ApiKept DEF Next

-----------------------------------------------------------------------------
(* What a request has read still holds. *)

\* What a write changes of the data: the keys of the file of the request.
LEMMA WriteFields ==
    ASSUME TypeOK, OpsKnown, NEW a \in Api, Write(a)
    PROVE  LET f == FileOf(op[a])
               e == Edited(a)
           IN /\ op[a] # "none" /\ f \in File /\ e \in Data /\ data' \in Data
              /\ data'.plugin = IF f = "local" THEN e.plugin ELSE data.plugin
              /\ data'.live = IF f = "claude" THEN e.live ELSE data.live
              /\ data'.parked = IF f = "claude" THEN e.parked ELSE data.parked
              /\ data'.provider = IF f = "providers" THEN e.provider ELSE data.provider
              /\ parses' = [parses EXCEPT ![f] = TRUE]
<1>1. op[a] # "none"
  BY DEF Write, OpsKnown
<1>2. FileOf(op[a]) \in File
  BY <1>1, FileOfOp DEF TypeOK
<1>3. Edited(a) \in Data
  BY <1>1, EditedFields
<1>4. data \in Data
  BY DEF TypeOK
<1>5. data' = WithFile(FileOf(op[a]), data, Edited(a)) /\ parses' = [parses EXCEPT ![FileOf(op[a])] = TRUE]
  BY DEF Write
<1> QED BY <1>1, <1>2, <1>3, <1>4, <1>5, WithFileFields

\* No step changes a file behind a request that has read it.
LEMMA CopyNext ==
    ASSUME TypeOK, OpsKnown, LockHeld, CopyFresh, [Next]_vars
    PROVE  CopyFresh'
<1> USE DEF TypeOK, CopyFresh
<1>1. ASSUME NEW a \in Api, NEW o \in {"on", "off", "add", "delete", "enable", "disable",
                                       "save", "remove", "override", "reset"}, Begin(a, o)
      PROVE  CopyFresh'
  BY <1>1 DEF Begin
<1>2. ASSUME NEW a \in Api, Read(a) PROVE CopyFresh'
  <2>1. op[a] # "none"
    BY <1>2 DEF Read, OpsKnown
  <2>2. /\ FileOf(op[a]) \in File
        /\ FileOf(op[a]) = "claude" <=> op[a] \in Servers
    BY <2>1, FileOfOp
  <2>3. Empty \in Data
    BY ConfigAssumption DEF ConfigAssumption, Empty, Data, Toggle, Definition
  <2>4. LET w == WithFile(FileOf(op[a]), Empty, data) IN
        op[a] \in Servers => w.live = data.live /\ w.parked = data.parked
    BY <2>2, <2>3, WithFileFields
  <2>5. CASE parses[FileOf(op[a])]
    BY <1>2, <2>4, <2>5 DEF Read
  <2>6. CASE ~parses[FileOf(op[a])]
    BY <1>2, <2>6 DEF Read, Done
  <2> QED BY <2>5, <2>6
<1>3. ASSUME NEW a \in Api, Write(a) PROVE CopyFresh'
  <2> SUFFICES ASSUME NEW b \in Api, pc'[b] = "write"
               PROVE  /\ parses'[FileOf(op'[b])]
                      /\ op'[b] \in Servers => copy'[b].live = data'.live /\ copy'[b].parked = data'.parked
    OBVIOUS
  <2>1. b # a /\ pc[b] = "write" /\ op'[b] = op[b] /\ copy'[b] = copy[b] /\ pc[a] = "write"
    BY <1>3 DEF Write, Done
  <2>2. FileOf(op[b]) # FileOf(op[a])
    BY <2>1 DEF LockHeld
  <2>3. op[b] # "none"
    BY <2>1 DEF OpsKnown
  <2>4. FileOf(op[b]) \in File /\ (FileOf(op[b]) = "claude" <=> op[b] \in Servers)
    BY <2>3, FileOfOp
  <2>5. parses'[FileOf(op[b])] = parses[FileOf(op[b])]
    BY <1>3, <2>2, <2>4, WriteFields
  <2>6. op[b] \in Servers => data'.live = data.live /\ data'.parked = data.parked
    BY <1>3, <2>2, <2>4, WriteFields
  <2> QED BY <2>1, <2>5, <2>6
<1>4. ASSUME NEW a \in Api, WriteFails(a) \/ Notify(a) PROVE CopyFresh'
  BY <1>4 DEF WriteFails, Notify, Done
<1>5. CASE Build \/ Reload \/ ProxyEnds \/ BackoffOver \/ UNCHANGED vars
  BY <1>5 DEF Build, Reload, ProxyEnds, BackoffOver, vars, api_vars
<1>6. CASE OutsideToggle
  <2>1. data'.live = data.live /\ data'.parked = data.parked
    BY <1>6 DEF OutsideToggle, Data
  <2> QED BY <1>6, <2>1 DEF OutsideToggle, api_vars
<1>7. CASE OutsideAdd
  <2>1. \A b \in Api : pc[b] = "write" => op[b] \notin Servers
    <3>1. \A b \in Api : pc[b] = "write" => op[b] # "none" /\ FileOf(op[b]) # "claude"
      BY <1>7 DEF OutsideAdd, Locked, OpsKnown
    <3> QED BY <3>1, FileOfOp
  <2> QED BY <1>7, <2>1 DEF OutsideAdd, api_vars
<1>8. ASSUME NEW f \in File, OutsideBreak(f) PROVE CopyFresh'
  <2>1. \A b \in Api : pc[b] = "write" => op[b] # "none" /\ FileOf(op[b]) # f
    BY <1>8 DEF OutsideBreak, Locked, OpsKnown
  <2>2. \A b \in Api : pc[b] = "write" => FileOf(op[b]) \in File
    BY <2>1, FileOfOp
  <2>3. \A g \in File : g # f => parses'[g] = parses[g]
    BY <1>8 DEF OutsideBreak
  <2>4. UNCHANGED <<pc, op, copy, data>>
    BY <1>8 DEF OutsideBreak, api_vars
  <2> QED BY <2>1, <2>2, <2>3, <2>4
<1>9. CASE Restart
  BY <1>9 DEF Restart
<1> QED BY <1>1, <1>2, <1>3, <1>4, <1>5, <1>6, <1>7, <1>8, <1>9 DEF Next

\* A toggle's decision outlives every step but an edit.
LEMMA ValueNext ==
    ASSUME TypeOK, OpsKnown, ValueFresh, [Next]_vars
    PROVE  ValueFresh'
<1> USE DEF TypeOK, ValueFresh, Toggles, ToggleValue
<1>1. ASSUME NEW a \in Api, NEW o \in {"on", "off", "add", "delete", "enable", "disable",
                                       "save", "remove", "override", "reset"}, Begin(a, o)
      PROVE  ValueFresh'
  <2>1. calls + outside + 1 # 0
    BY ConfigAssumption DEF ConfigAssumption
  <2> QED BY <1>1, <2>1 DEF Begin
<1>2. ASSUME NEW a \in Api, Read(a) PROVE ValueFresh'
  BY <1>2 DEF Read, Done, history
<1>3. ASSUME NEW a \in Api, Write(a) PROVE ValueFresh'
  <2>1. UNCHANGED <<base, overtaken>>
    BY <1>3 DEF Write
  <2>2. UNCHANGED <<op, stamp, value>> \/ Done(a)
    BY <1>3 DEF Write
  <2> QED BY <2>1, <2>2 DEF Done
<1>4. ASSUME NEW a \in Api, WriteFails(a) \/ Notify(a) PROVE ValueFresh'
  BY <1>4 DEF WriteFails, Notify, Done, history
<1>5. CASE Build \/ Reload \/ ProxyEnds \/ BackoffOver \/ UNCHANGED vars
  BY <1>5 DEF Build, Reload, ProxyEnds, BackoffOver, vars, api_vars, history
<1>6. CASE OutsideToggle
  BY <1>6 DEF OutsideToggle, Toggling, api_vars
<1>7. CASE OutsideAdd
  BY <1>7 DEF OutsideAdd, api_vars
<1>8. ASSUME NEW f \in File, OutsideBreak(f) PROVE ValueFresh'
  BY <1>8 DEF OutsideBreak, Toggling, api_vars
<1>9. CASE Restart
  BY <1>9 DEF Restart
<1> QED BY <1>1, <1>2, <1>3, <1>4, <1>5, <1>6, <1>7, <1>8, <1>9 DEF Next

-----------------------------------------------------------------------------
(* The properties. *)

\* No step writes over a file that does not parse.
LEMMA UnreadableNext ==
    ASSUME CopyFresh, UnreadableKept, [Next]_vars
    PROVE  UnreadableKept'
<1> USE DEF UnreadableKept
<1>1. ASSUME NEW a \in Api, Write(a) PROVE UnreadableKept'
  BY <1>1 DEF Write, CopyFresh
<1>2. CASE \A a \in Api : ~Write(a)
  BY <1>2 DEF Next, Begin, Read, WriteFails, Notify, Build, Reload, ProxyEnds, BackoffOver,
     OutsideToggle, OutsideAdd, OutsideBreak, Restart, vars, history
<1> QED BY <1>1, <1>2

\* Every step keeps the newest definition in use.
LEMMA DefinitionNext ==
    ASSUME TypeOK, OpsKnown, CopyFresh, ValueFresh, DefinitionInUse, [Next]_vars
    PROVE  DefinitionInUse'
<1> USE DEF DefinitionInUse
<1>1. ASSUME NEW a \in Api, Write(a) PROVE DefinitionInUse'
  <2>1. /\ op[a] # "none"
        /\ newest' = CASE op[a] = "add" -> stamp[a] [] op[a] = "delete" -> 0 [] OTHER -> newest
    BY <1>1, WriteFields DEF Write
  <2>2. op[a] \in {"on", "off", "add", "delete", "enable", "disable", "save", "remove",
                   "override", "reset"}
    BY <2>1 DEF TypeOK
  <2>3. op[a] \in Servers => copy[a].live = data.live /\ copy[a].parked = data.parked
    BY <1>1 DEF Write, CopyFresh
  <2>4. CASE op[a] = "add"
    <3>1. data'.live = stamp[a] /\ stamp[a] # 0
      BY <1>1, <2>4, WriteFields, EditedFields, FileOfOp DEF ValueFresh, Servers
    <3> QED BY <2>1, <2>4, <3>1
  <2>5. CASE op[a] = "delete"
    BY <2>1, <2>5
  <2>6. CASE op[a] \in {"enable", "disable"}
    <3>1. FileOf(op[a]) = "claude" /\ op[a] \in Servers
      BY <2>6, FileOfOp DEF Servers
    <3>2. data'.live = Edited(a).live /\ data'.parked = Edited(a).parked
      BY <1>1, <3>1, WriteFields
    <3>3. CASE op[a] = "enable"
      BY <2>1, <2>3, <3>1, <3>2, <3>3, EditedFields
    <3>4. CASE op[a] = "disable"
      BY <2>1, <2>3, <3>1, <3>2, <3>4, EditedFields
    <3> QED BY <2>6, <3>3, <3>4
  <2>7. CASE op[a] \notin Servers
    <3>1. data'.live = data.live /\ data'.parked = data.parked
      BY <1>1, <2>2, <2>7, WriteFields, FileOfOp
    <3> QED BY <2>1, <2>7, <3>1 DEF Servers
  <2> QED BY <2>4, <2>5, <2>6, <2>7 DEF Servers
<1>2. CASE OutsideAdd
  <2>1. calls + outside + 1 # 0
    BY ConfigAssumption DEF ConfigAssumption, TypeOK
  <2>2. data'.live = calls + outside + 1 /\ newest' = calls + outside + 1
    BY <1>2 DEF OutsideAdd, TypeOK, Data
  <2> QED BY <2>1, <2>2
<1>3. CASE OutsideToggle
  BY <1>3 DEF OutsideToggle, TypeOK, Data
<1>4. CASE ~(OutsideAdd \/ OutsideToggle) /\ \A a \in Api : ~Write(a)
  <2>1. UNCHANGED <<data, newest>>
    BY <1>4 DEF Next, Begin, Read, WriteFails, Notify, Build, Reload, ProxyEnds, BackoffOver,
       OutsideBreak, Restart, vars, history
  <2> QED BY <2>1
<1> QED BY <1>1, <1>2, <1>3, <1>4

\* Every step keeps the last toggle on the file.
LEMMA ToggleNext ==
    ASSUME TypeOK, OpsKnown, CopyFresh, ValueFresh, ToggleOnFile, [Next]_vars
    PROVE  ToggleOnFile'
<1> USE DEF ToggleOnFile, PluginEnabled
<1>1. ASSUME NEW a \in Api, Write(a) PROVE ToggleOnFile'
  <2>1. op[a] \in {"on", "off", "add", "delete", "enable", "disable", "save", "remove",
                   "override", "reset"}
    BY <1>1, WriteFields DEF TypeOK
  <2>2. base' = base /\ wished' = CASE FileOf(op[a]) # "local" -> wished
                                    [] a \in overtaken -> "unset" [] OTHER -> op[a]
    BY <1>1 DEF Write
  <2>3. CASE op[a] \in Toggles
    <3>1. FileOf(op[a]) = "local"
      BY <2>1, <2>3, FileOfOp
    <3>2. data'.plugin = value[a] /\ parses'["local"]
      BY <1>1, <2>1, <2>3, <3>1, WriteFields, EditedFields DEF TypeOK, File
    <3>3. CASE a \in overtaken
      BY <2>2, <3>1, <3>3
    <3>4. CASE a \notin overtaken
      <4>1. value[a] = ToggleValue(op[a] = "on") /\ wished' = op[a]
        BY <2>2, <2>3, <3>1, <3>4 DEF ValueFresh
      <4> QED BY <2>2, <2>3, <3>2, <4>1 DEF ToggleValue, Toggles
    <3> QED BY <3>3, <3>4
  <2>4. CASE op[a] \notin Toggles
    <3>1. FileOf(op[a]) # "local"
      BY <2>1, <2>4, FileOfOp
    <3>2. data'.plugin = data.plugin /\ parses'["local"] = parses["local"]
      BY <1>1, <3>1, WriteFields DEF TypeOK, File
    <3> QED BY <2>2, <3>1, <3>2
  <2> QED BY <2>3, <2>4
<1>2. CASE OutsideAdd
  <2>1. data'.plugin = data.plugin
    BY <1>2 DEF OutsideAdd, TypeOK, Data
  <2> QED BY <1>2, <2>1 DEF OutsideAdd
<1>3. CASE OutsideToggle
  BY <1>3 DEF OutsideToggle
<1>4. ASSUME NEW f \in File, OutsideBreak(f) PROVE ToggleOnFile'
  <2>1. CASE f = "local"
    BY <1>4, <2>1 DEF OutsideBreak
  <2>2. CASE f # "local"
    <3>1. parses'["local"] = parses["local"]
      BY <1>4, <2>2 DEF OutsideBreak, TypeOK, File
    <3>2. UNCHANGED <<base, data, wished>>
      BY <1>4, <2>2 DEF OutsideBreak
    <3> QED BY <3>1, <3>2
  <2> QED BY <2>1, <2>2
<1>5. CASE ~(OutsideAdd \/ OutsideToggle) /\ (\A a \in Api : ~Write(a)) /\ \A f \in File : ~OutsideBreak(f)
  <2>1. UNCHANGED <<base, data, parses, wished>>
    BY <1>5 DEF Next, Begin, Read, WriteFails, Notify, Build, Reload, ProxyEnds, BackoffOver,
       Restart, vars, history
  <2> QED BY <2>1
<1> QED BY <1>1, <1>2, <1>3, <1>4, <1>5

\* Every step keeps the reload that is due.
LEMMA ReloadNext ==
    ASSUME TypeOK, OpsKnown, ReloadNotLost, [Next]_vars
    PROVE  ReloadNotLost'
<1> USE DEF ReloadNotLost, OnFile
<1>1. ASSUME NEW a \in Api, NEW o \in {"on", "off", "add", "delete", "enable", "disable",
                                       "save", "remove", "override", "reset"}, Begin(a, o)
      PROVE  ReloadNotLost'
  BY <1>1 DEF Begin, TypeOK, proxy_vars
<1>2. ASSUME NEW a \in Api, Read(a) PROVE ReloadNotLost'
  BY <1>2 DEF Read, Done, TypeOK, proxy_vars, history
<1>3. ASSUME NEW a \in Api, Write(a) PROVE ReloadNotLost'
  <2>1. UNCHANGED <<proxy, serving, permit, unnoticed>>
    BY <1>3 DEF Write, proxy_vars
  <2>2. CASE FileOf(op[a]) = "providers"
    BY <1>3, <2>2 DEF Write, TypeOK
  <2>3. CASE FileOf(op[a]) # "providers"
    <3>1. data'.provider = data.provider /\ parses'["providers"] = parses["providers"]
      BY <1>3, <2>3, WriteFields DEF TypeOK, File
    <3>2. \A b \in Api : pc[b] = "notify" => pc'[b] = "notify"
      BY <1>3, <2>3 DEF Write, Done, TypeOK
    <3> QED BY <2>1, <3>1, <3>2
  <2> QED BY <2>2, <2>3
<1>4. ASSUME NEW a \in Api, WriteFails(a) \/ Notify(a) PROVE ReloadNotLost'
  BY <1>4 DEF WriteFails, Notify, Done, TypeOK, proxy_vars, history
<1>5. CASE Build
  BY <1>5 DEF Build
<1>6. CASE Reload \/ ProxyEnds \/ BackoffOver \/ Restart
  BY <1>6 DEF Reload, ProxyEnds, BackoffOver, Restart
<1>7. CASE OutsideToggle \/ OutsideAdd
  <2>1. data'.provider = data.provider
    BY <1>7 DEF OutsideToggle, OutsideAdd, TypeOK, Data
  <2> QED BY <1>7, <2>1 DEF OutsideToggle, OutsideAdd, api_vars, proxy_vars
<1>8. ASSUME NEW f \in File, OutsideBreak(f) PROVE ReloadNotLost'
  <2>1. f # "providers" => parses'["providers"] = parses["providers"]
    BY <1>8 DEF OutsideBreak, TypeOK, File
  <2> QED BY <1>8, <2>1 DEF OutsideBreak, api_vars, proxy_vars
<1>9. CASE UNCHANGED vars
  BY <1>9 DEF vars, api_vars, proxy_vars, history
<1> QED BY <1>1, <1>2, <1>3, <1>4, <1>5, <1>6, <1>7, <1>8, <1>9 DEF Next

-----------------------------------------------------------------------------
(* The inductive invariant. *)

\* The invariant holds at first, every step keeps it, and so it always holds.
LEMMA InvInit == Init => Inv
<1> SUFFICES ASSUME Init PROVE Inv
  OBVIOUS
<1>1. OpsKnown /\ LockHeld /\ CopyFresh /\ ValueFresh
  BY DEF Init, OpsKnown, LockHeld, CopyFresh, ValueFresh, Toggles
<1>2. UnreadableKept /\ DefinitionInUse /\ ToggleOnFile /\ ReloadNotLost
  BY DEF Init, UnreadableKept, DefinitionInUse, ToggleOnFile, ReloadNotLost
<1> QED BY TypeInit, <1>1, <1>2 DEF Inv

LEMMA InvNext == Inv /\ [Next]_vars => Inv'
BY TypeNext, RequestsNext, CopyNext, ValueNext, UnreadableNext, DefinitionNext, ToggleNext,
   ReloadNext DEF Inv

LEMMA InvAlways == Spec => []Inv
BY InvInit, InvNext, PTL DEF Spec

\* Every variable has its type, whatever requests, edits and faults come.
THEOREM ConfigTypes == Spec => []TypeOK
<1>1. Inv => TypeOK
  BY DEF Inv
<1> QED BY <1>1, InvAlways, PTL

\* providers.rs:566, global_settings.rs:82, user_config.rs:22: a file the server could not
\* read is never written over: it was read under the lock the write is made under.
THEOREM UnreadableSafe == Spec => []UnreadableKept
<1>1. Inv => UnreadableKept
  BY DEF Inv
<1> QED BY <1>1, InvAlways, PTL

\* global_settings.rs:183: a toggle that succeeded holds until the settings are edited
\* outside, though it decides from settings.json before it has the lock.
THEOREM ToggleSafe == Spec => []ToggleHolds
<1>1. Inv => ToggleHolds
  BY DEF Inv, ToggleOnFile, ToggleHolds
<1> QED BY <1>1, InvAlways, PTL

\* user_config.rs:226: the newest definition of a server is never lost between the two
\* parts of the file.
THEOREM DefinitionSafe == Spec => []DefinitionSurvives
<1>1. Inv => DefinitionSurvives
  BY DEF Inv, DefinitionInUse, DefinitionSurvives
<1> QED BY <1>1, InvAlways, PTL

\* litellm.rs:125: a supervisor that waits serves the providers on file, or has been or will
\* be told to read them again.
THEOREM ReloadSafe == Spec => []ReloadNotLost
<1>1. Inv => ReloadNotLost
  BY DEF Inv
<1> QED BY <1>1, InvAlways, PTL

-----------------------------------------------------------------------------
(* Sets of numbers. *)

\* Every set of numbers that is not empty has a least one, and a greatest one if it is bounded.
LEMMA LeastExists ==
    ASSUME NEW S, S \subseteq Nat, S # {}
    PROVE  \E x \in S : \A y \in S : x <= y
  <1>1. PICK x \in S : \A y \in S : ~ (<<y, x>> \in OpToRel(<, Nat))
    BY NatLessThanWellFounded, WFMin
  <1>2. \A y \in S : ~ (y < x)
    BY <1>1 DEF OpToRel
  <1>3. QED BY <1>2

\* What Min and Max of the community module choose.
LEMMA MinIsLeast ==
    ASSUME NEW S, S \subseteq Nat, S # {}
    PROVE  Min(S) \in S /\ \A y \in S : Min(S) <= y
  BY LeastExists DEF Min

LEMMA MaxIsGreatest ==
    ASSUME NEW n \in Nat, NEW S, S \subseteq 0..n, S # {}
    PROVE  Max(S) \in S /\ \A y \in S : y <= Max(S)
  <1> DEFINE T == {k \in Nat : \E x \in S : k = n - x}
  <1>1. T # {}
    <2>1. PICK x \in S : x \in 0..n
      OBVIOUS
    <2>2. n - x \in T
      BY <2>1
    <2>3. QED BY <2>2
  <1>2. PICK k \in T : \A j \in T : k <= j
    BY <1>1, LeastExists
  <1>3. PICK x \in S : k = n - x
    OBVIOUS
  <1>4. ASSUME NEW y \in S
        PROVE  y <= x
    <2>1. y \in 0..n /\ x \in 0..n
      OBVIOUS
    <2>2. n - y \in T
      BY <2>1
    <2>3. QED BY <1>2, <1>3, <2>1, <2>2
  <1>5. \E z \in S : \A y \in S : z >= y
    BY <1>4
  <1>6. Max(S) \in S /\ \A y \in S : Max(S) >= y
    BY <1>5 DEF Max
  <1>7. QED BY <1>6

-----------------------------------------------------------------------------
(* The skills. *)

\* Where a call holds the lock.
Holding == {"write", "park", "publish", "restore"}

\* Where a call that takes no lock can be, and how one ends.
Manual == {"mkdir", "fill", "resolve", "remove", "rmdir"}
Ended == {"done", "absent", "refused", "failed", "unrestored"}

Contents == {"none", "empty", "part", "whole", "mixed"}

\* The types of the store of skills.
SkillTypes(d) ==
    /\ d \in [kind : [SkillCall -> {"install", "update", "add", "delete"}],
              pc : [SkillCall -> {"start"} \cup Holding \cup Manual \cup Ended],
              lock : SkillCall \cup {0}, first : Versions, target : SkillCall \cup {d.first, 0},
              tmp : [SkillCall -> SkillCall \cup {0}], old : [SkillCall -> SkillCall \cup {d.first, 0}],
              holds : [SkillCall \cup {d.first} -> Contents]]
    /\ \A c \in SkillCall :
          /\ d.pc[c] \in Holding \cup {"unrestored"} => d.kind[c] \in {"install", "update"}
          /\ d.pc[c] \in Manual => d.kind[c] \in {"add", "delete"}
          /\ d.pc[c] \in {"resolve", "remove", "rmdir"} => d.kind[c] = "delete"

\* The lock has one holder, and what is put aside was put aside by a call that holds it, or
\* held it; a name without a directory is one whose old version is put aside, or one that may
\* be missing.
SkillInv(d) ==
    /\ \A c \in SkillCall : d.pc[c] \in Holding <=> d.lock = c
    /\ \A c \in SkillCall :
          /\ d.old[c] # 0 => d.pc[c] \in {"publish", "restore", "unrestored", "done"}
          /\ d.pc[c] \in {"restore", "unrestored"} => d.old[c] # 0
    /\ d.target = 0 => Missing(d) \/ \E c \in SkillCall : d.lock = c /\ d.old[c] # 0

\* As long as nobody adds or deletes the skill by hand, the directories that are or were
\* published have all their files, and so has the one that a call is about to publish.
Quiet(d) == \A c \in SkillCall : d.kind[c] \in {"add", "delete"} => d.pc[c] = "start"
Published(d, v) == v # 0 /\ (v = d.target \/ \E c \in SkillCall : d.old[c] = v)
SkillQuiet(d) ==
    Quiet(d) =>
        /\ \A v \in SkillCall \cup {d.first} : Published(d, v) => d.holds[v] = "whole"
        /\ \A c \in SkillCall : Published(d, c) => d.pc[c] = "done"
        /\ \A c \in SkillCall : d.pc[c] \in {"park", "publish", "restore"} => d.holds[c] = "whole"

\* What a step of a call does to the store keeps the invariant.
SkillKept(d, e) ==
    SkillTypes(d) /\ SkillInv(d) /\ SkillQuiet(d) => SkillTypes(e) /\ SkillInv(e) /\ SkillQuiet(e)

\* One lemma for each step of a call.
LEMMA EnterKeeps ==
    ASSUME NEW d, NEW c \in SkillCall, d.pc[c] = "start", d.kind[c] \in {"install", "update"},
       NEW e \in Enter(d, c)
    PROVE  SkillKept(d, e)
  <1> SUFFICES ASSUME SkillTypes(d), SkillInv(d), SkillQuiet(d)
               PROVE  SkillTypes(e) /\ SkillInv(e) /\ SkillQuiet(e)
    BY DEF SkillKept
  <1>1. CASE e = At(d, c, "refused")
    <2>1. SkillTypes(e)
      BY <1>1, SkillAssumption DEF At, SkillTypes, Contents, Holding, Manual, Ended
    <2>2. SkillInv(e)
      BY <1>1, SkillAssumption DEF At, SkillTypes, SkillInv, Holding, Missing, Manual, Ended
    <2>3. SkillQuiet(e)
      BY <1>1, SkillAssumption DEF At, SkillTypes, SkillInv, SkillQuiet, Quiet, Published,
         Holding, Manual, Ended
    <2>4. QED BY <2>1, <2>2, <2>3
  <1>2. CASE /\ e = [At(d, c, "write") EXCEPT !.lock = c]
            /\ d.lock = 0 /\ (d.target # 0 => d.kind[c] = "update")
    <2>1. SkillTypes(e)
      BY <1>2, SkillAssumption, ZenonT(60) DEF At, SkillTypes, Contents, Holding, Manual, Ended
    <2>2. SkillInv(e)
      BY <1>2, SkillAssumption DEF At, SkillTypes, SkillInv, Holding, Missing, Manual, Ended
    <2>3. SkillQuiet(e)
      BY <1>2, SkillAssumption DEF At, SkillTypes, SkillInv, SkillQuiet, Quiet, Published,
         Holding, Manual, Ended
    <2>4. QED BY <2>1, <2>2, <2>3
  <1>3. QED BY <1>1, <1>2 DEF Enter

LEMMA WriteKeeps ==
    ASSUME NEW d, NEW c \in SkillCall, d.pc[c] = "write", NEW e \in WriteFiles(d, c)
    PROVE  SkillKept(d, e)
  <1> SUFFICES ASSUME SkillTypes(d), SkillInv(d), SkillQuiet(d)
               PROVE  SkillTypes(e) /\ SkillInv(e) /\ SkillQuiet(e)
    BY DEF SkillKept
  <1>1. CASE e = [At(d, c, "park") EXCEPT !.tmp[c] = c, !.holds[c] = "whole"]
    <2>1. SkillTypes(e)
      BY <1>1, SkillAssumption, ZenonT(60) DEF At, SkillTypes, Contents, Holding, Manual, Ended
    <2>2. SkillInv(e)
      BY <1>1, SkillAssumption DEF At, SkillTypes, SkillInv, Holding, Missing, Manual, Ended
    <2>3. SkillQuiet(e)
      BY <1>1, SkillAssumption DEF At, SkillTypes, SkillInv, SkillQuiet, Quiet, Published,
         Holding, Manual, Ended
    <2>4. QED BY <2>1, <2>2, <2>3
  <1>2. CASE \E left \in {0, c} :
            e = [At([d EXCEPT !.tmp[c] = c, !.holds[c] = "part"], c, "failed") EXCEPT !.lock = 0, !.tmp[c] = left]
    <2>1. PICK left \in {0, c} :
              e = [At([d EXCEPT !.tmp[c] = c, !.holds[c] = "part"], c, "failed") EXCEPT !.lock = 0, !.tmp[c] = left]
      BY <1>2
    <2>2. left \in SkillCall \cup {0}
      BY <2>1, SkillAssumption DEF SkillTypes, Ended, Manual
    <2>3. SkillTypes(e)
      BY <1>2, <2>1, <2>2, SkillAssumption, ZenonT(60) DEF At, SkillTypes, Holding, Manual, Ended, Contents
    <2>4. SkillInv(e)
      BY <1>2, <2>1, SkillAssumption DEF At, SkillTypes, SkillInv, Holding, Missing, Manual, Ended
    <2>5. SkillQuiet(e)
      BY <1>2, <2>1, SkillAssumption DEF At, SkillTypes, SkillInv, SkillQuiet, Quiet, Published,
         Holding, Manual, Ended
    <2>6. QED BY <2>3, <2>4, <2>5
  <1>3. QED BY <1>1, <1>2 DEF WriteFiles, Over, SkillTypes

LEMMA ParkKeeps ==
    ASSUME NEW d, NEW c \in SkillCall, d.pc[c] = "park", NEW e \in Park(d, c)
    PROVE  SkillKept(d, e)
  <1> SUFFICES ASSUME SkillTypes(d), SkillInv(d), SkillQuiet(d)
               PROVE  SkillTypes(e) /\ SkillInv(e) /\ SkillQuiet(e)
    BY DEF SkillKept
  <1>1. CASE d.target # 0 /\ e = [At(d, c, "publish") EXCEPT !.old[c] = d.target, !.target = 0]
    <2>1. SkillTypes(e)
      BY <1>1, SkillAssumption, ZenonT(60) DEF At, SkillTypes, Contents, Holding, Manual, Ended
    <2>2. SkillInv(e)
      BY <1>1, SkillAssumption DEF At, SkillTypes, SkillInv, Holding, Missing, Manual, Ended
    <2>3. SkillQuiet(e)
      BY <1>1, SkillAssumption DEF At, SkillTypes, SkillInv, SkillQuiet, Quiet, Published,
         Holding, Manual, Ended
    <2>4. QED BY <2>1, <2>2, <2>3
  <1>2. CASE \E left \in {0, d.tmp[c]} : e = [At(d, c, "failed") EXCEPT !.lock = 0, !.tmp[c] = left]
    <2>1. PICK left \in {0, d.tmp[c]} :
              e = [At(d, c, "failed") EXCEPT !.lock = 0, !.tmp[c] = left]
      BY <1>2
    <2>2. left \in SkillCall \cup {0}
      BY <2>1, SkillAssumption DEF SkillTypes, Ended, Manual
    <2>3. SkillTypes(e)
      BY <1>2, <2>1, <2>2, SkillAssumption, ZenonT(60) DEF At, SkillTypes, Holding, Manual, Ended
    <2>4. SkillInv(e)
      BY <1>2, <2>1, SkillAssumption DEF At, SkillTypes, SkillInv, Holding, Missing, Manual, Ended
    <2>5. SkillQuiet(e)
      BY <1>2, <2>1, SkillAssumption DEF At, SkillTypes, SkillInv, SkillQuiet, Quiet, Published,
         Holding, Manual, Ended
    <2>6. QED BY <2>3, <2>4, <2>5
  <1>3. CASE e = At(d, c, "publish")
    <2>1. SkillTypes(e)
      BY <1>3, SkillAssumption DEF At, SkillTypes, Contents, Holding, Manual, Ended
    <2>2. SkillInv(e)
      BY <1>3, SkillAssumption DEF At, SkillTypes, SkillInv, Holding, Missing, Manual, Ended
    <2>3. SkillQuiet(e)
      BY <1>3, SkillAssumption DEF At, SkillTypes, SkillInv, SkillQuiet, Quiet, Published,
         Holding, Manual, Ended
    <2>4. QED BY <2>1, <2>2, <2>3
  <1>4. QED BY <1>1, <1>2, <1>3 DEF Park, Over

LEMMA PublishKeeps ==
    ASSUME NEW d, NEW c \in SkillCall, d.pc[c] = "publish", NEW e \in Publish(d, c)
    PROVE  SkillKept(d, e)
  <1> SUFFICES ASSUME SkillTypes(d), SkillInv(d), SkillQuiet(d)
               PROVE  SkillTypes(e) /\ SkillInv(e) /\ SkillQuiet(e)
    BY DEF SkillKept
  <1>1. CASE d.old[c] # 0 /\ e = At(d, c, "restore")
    <2>1. SkillTypes(e)
      BY <1>1, SkillAssumption DEF At, SkillTypes, Contents, Holding, Manual, Ended
    <2>2. SkillInv(e)
      BY <1>1, SkillAssumption DEF At, SkillTypes, SkillInv, Holding, Missing, Manual, Ended
    <2>3. SkillQuiet(e)
      BY <1>1, SkillAssumption DEF At, SkillTypes, SkillInv, SkillQuiet, Quiet, Published,
         Holding, Manual, Ended
    <2>4. QED BY <2>1, <2>2, <2>3
  <1>2. CASE /\ d.old[c] = 0
            /\ \E left \in {0, d.tmp[c]} : e = [At(d, c, "failed") EXCEPT !.lock = 0, !.tmp[c] = left]
    <2>1. PICK left \in {0, d.tmp[c]} :
              e = [At(d, c, "failed") EXCEPT !.lock = 0, !.tmp[c] = left]
      BY <1>2
    <2>2. left \in SkillCall \cup {0}
      BY <2>1, SkillAssumption DEF SkillTypes, Ended, Manual
    <2>3. SkillTypes(e)
      BY <1>2, <2>1, <2>2, SkillAssumption, ZenonT(60) DEF At, SkillTypes, Holding, Manual, Ended
    <2>4. SkillInv(e)
      BY <1>2, <2>1, SkillAssumption DEF At, SkillTypes, SkillInv, Holding, Missing, Manual, Ended
    <2>5. SkillQuiet(e)
      BY <1>2, <2>1, SkillAssumption DEF At, SkillTypes, SkillInv, SkillQuiet, Quiet, Published,
         Holding, Manual, Ended
    <2>6. QED BY <2>3, <2>4, <2>5
  <1>3. CASE \E left \in {0, d.old[c]} :
            e = [At(d, c, "done") EXCEPT !.target = c, !.lock = 0, !.tmp[c] = 0, !.old[c] = left]
    <2>1. PICK left \in {0, d.old[c]} :
              e = [At(d, c, "done") EXCEPT !.target = c, !.lock = 0, !.tmp[c] = 0, !.old[c] = left]
      BY <1>3
    <2>2. left \in SkillCall \cup {0, d.first}
      BY <2>1, SkillAssumption DEF SkillTypes, Ended, Manual
    <2>3. SkillTypes(e)
      <3>1. e.first = d.first /\ e.kind = d.kind /\ e.holds = d.holds
        BY <2>1 DEF At, SkillTypes
      <3>2. e.pc = [d.pc EXCEPT ![c] = "done"] /\ e.tmp = [d.tmp EXCEPT ![c] = 0]
        BY <2>1 DEF At, SkillTypes
      <3>3. e.old = [d.old EXCEPT ![c] = left] /\ e.lock = 0 /\ e.target = c
        BY <2>1 DEF At, SkillTypes
      <3>4. e = [kind |-> e.kind, pc |-> e.pc, lock |-> e.lock, target |-> e.target,
                 first |-> e.first, tmp |-> e.tmp, old |-> e.old, holds |-> e.holds]
        BY <2>1 DEF At, SkillTypes
      <3>5. QED BY <2>2, <3>1, <3>2, <3>3, <3>4 DEF SkillTypes, Holding, Manual, Ended
    <2>4. SkillInv(e)
      BY <1>3, <2>1, SkillAssumption DEF At, SkillTypes, SkillInv, Holding, Missing, Manual, Ended
    <2>5. SkillQuiet(e)
      BY <1>3, <2>1, SkillAssumption DEF At, SkillTypes, SkillInv, SkillQuiet, Quiet, Published,
         Holding, Manual, Ended
    <2>6. QED BY <2>3, <2>4, <2>5
  <1>4. QED BY <1>1, <1>2, <1>3 DEF Publish, Over

LEMMA RestoreKeeps ==
    ASSUME NEW d, NEW c \in SkillCall, d.pc[c] = "restore", NEW e \in Restore(d, c)
    PROVE  SkillKept(d, e)
  <1> SUFFICES ASSUME SkillTypes(d), SkillInv(d), SkillQuiet(d)
               PROVE  SkillTypes(e) /\ SkillInv(e) /\ SkillQuiet(e)
    BY DEF SkillKept
  <1>1. CASE \E left \in {0, d.tmp[c]} : e = [At(d, c, "unrestored") EXCEPT !.lock = 0, !.tmp[c] = left]
    <2>1. PICK left \in {0, d.tmp[c]} :
              e = [At(d, c, "unrestored") EXCEPT !.lock = 0, !.tmp[c] = left]
      BY <1>1
    <2>2. left \in SkillCall \cup {0}
      BY <2>1, SkillAssumption DEF SkillTypes, Ended, Manual
    <2>3. SkillTypes(e)
      BY <1>1, <2>1, <2>2, SkillAssumption, ZenonT(60) DEF At, SkillTypes, Holding, Manual, Ended
    <2>4. SkillInv(e)
      BY <1>1, <2>1, SkillAssumption DEF At, SkillTypes, SkillInv, Holding, Missing, Manual, Ended
    <2>5. SkillQuiet(e)
      BY <1>1, <2>1, SkillAssumption DEF At, SkillTypes, SkillInv, SkillQuiet, Quiet, Published,
         Holding, Manual, Ended
    <2>6. QED BY <2>3, <2>4, <2>5
  <1>2. CASE \E left \in {0, d.tmp[c]} :
            e = [At([d EXCEPT !.target = d.old[c], !.old[c] = 0], c, "failed") EXCEPT !.lock = 0, !.tmp[c] = left]
    <2>1. PICK left \in {0, d.tmp[c]} :
              e = [At([d EXCEPT !.target = d.old[c], !.old[c] = 0], c, "failed") EXCEPT !.lock = 0, !.tmp[c] = left]
      BY <1>2
    <2>2. left \in SkillCall \cup {0} /\ d.old[c] \in SkillCall \cup {d.first, 0}
      BY <2>1, SkillAssumption DEF SkillTypes, Ended, Manual
    <2>3. e = [d EXCEPT !.pc[c] = "failed", !.lock = 0, !.target = d.old[c], !.tmp[c] = left, !.old[c] = 0]
      BY <2>1 DEF At, SkillTypes
    <2>4. SkillTypes(e)
      <3>1. /\ e.kind = d.kind /\ e.first = d.first /\ e.holds = d.holds
            /\ e.pc = [d.pc EXCEPT ![c] = "failed"] /\ e.lock = 0 /\ e.target = d.old[c]
            /\ e.tmp = [d.tmp EXCEPT ![c] = left] /\ e.old = [d.old EXCEPT ![c] = 0]
        BY <2>3 DEF SkillTypes
      <3>2. e.pc \in [SkillCall -> {"start"} \cup Holding \cup Manual \cup Ended]
        BY <3>1 DEF SkillTypes, Ended
      <3>3. /\ e.tmp \in [SkillCall -> SkillCall \cup {0}]
            /\ e.old \in [SkillCall -> SkillCall \cup {d.first, 0}]
        BY <2>2, <3>1 DEF SkillTypes
      <3>4. e \in [kind : [SkillCall -> {"install", "update", "add", "delete"}],
                   pc : [SkillCall -> {"start"} \cup Holding \cup Manual \cup Ended],
                   lock : SkillCall \cup {0}, first : Versions, target : SkillCall \cup {e.first, 0},
                   tmp : [SkillCall -> SkillCall \cup {0}], old : [SkillCall -> SkillCall \cup {e.first, 0}],
                   holds : [SkillCall \cup {e.first} -> Contents]]
        BY <2>2, <2>3, <3>1, <3>2, <3>3 DEF SkillTypes
      <3>5. QED BY <3>1, <3>4 DEF SkillTypes, Holding, Manual
    <2>5. SkillInv(e)
      BY <2>3, SkillAssumption DEF SkillTypes, SkillInv, Holding, Missing, Manual, Ended
    <2>6. SkillQuiet(e)
      BY <2>3, SkillAssumption DEF SkillTypes, SkillInv, SkillQuiet, Quiet, Published,
         Holding, Manual, Ended
    <2>7. QED BY <2>4, <2>5, <2>6
  <1>3. QED BY <1>1, <1>2 DEF Restore, Over, SkillTypes

LEMMA AddLookKeeps ==
    ASSUME NEW d, NEW c \in SkillCall, d.pc[c] = "start", d.kind[c] = "add", NEW e \in AddLook(d, c)
    PROVE  SkillKept(d, e)
  <1> SUFFICES ASSUME SkillTypes(d), SkillInv(d), SkillQuiet(d)
               PROVE  SkillTypes(e) /\ SkillInv(e) /\ SkillQuiet(e)
    BY DEF SkillKept
  <1>1. CASE \E how \in {"refused", "mkdir"} : e = At(d, c, how)
    <2>1. PICK how \in {"refused", "mkdir"} :
              e = At(d, c, how)
      BY <1>1
    <2>2. how \in Manual \cup Ended
      BY <2>1, SkillAssumption DEF SkillTypes, Ended, Manual
    <2>3. SkillTypes(e)
      BY <1>1, <2>1, <2>2, SkillAssumption DEF At, SkillTypes, Holding, Manual, Ended
    <2>4. SkillInv(e)
      BY <1>1, <2>1, SkillAssumption DEF At, SkillTypes, SkillInv, Holding, Missing, Manual, Ended
    <2>5. SkillQuiet(e)
      BY <1>1, <2>1, SkillAssumption DEF At, SkillTypes, SkillInv, SkillQuiet, Quiet, Published,
         Holding, Manual, Ended
    <2>6. QED BY <2>3, <2>4, <2>5
  <1>2. QED BY <1>1 DEF AddLook

LEMMA AddMakeDirKeeps ==
    ASSUME NEW d, NEW c \in SkillCall, d.pc[c] = "mkdir", NEW e \in AddMakeDir(d, c)
    PROVE  SkillKept(d, e)
  <1> SUFFICES ASSUME SkillTypes(d), SkillInv(d), SkillQuiet(d)
               PROVE  SkillTypes(e) /\ SkillInv(e) /\ SkillQuiet(e)
    BY DEF SkillKept
  <1>1. CASE \E how \in {"failed", "fill"} : e = At(d, c, how)
    <2>1. PICK how \in {"failed", "fill"} :
              e = At(d, c, how)
      BY <1>1
    <2>2. how \in Manual \cup Ended
      BY <2>1, SkillAssumption DEF SkillTypes, Ended, Manual
    <2>3. SkillTypes(e)
      BY <1>1, <2>1, <2>2, SkillAssumption, SMTT(30) DEF At, SkillTypes, Holding, Manual, Ended
    <2>4. SkillInv(e)
      BY <1>1, <2>1, SkillAssumption DEF At, SkillTypes, SkillInv, Holding, Missing, Manual, Ended
    <2>5. SkillQuiet(e)
      BY <1>1, <2>1, SkillAssumption DEF At, SkillTypes, SkillInv, SkillQuiet, Quiet, Published,
         Holding, Manual, Ended
    <2>6. QED BY <2>3, <2>4, <2>5
  <1>2. CASE d.target = 0 /\ e = [At(d, c, "fill") EXCEPT !.target = c, !.holds[c] = "empty"]
    <2>1. SkillTypes(e)
      BY <1>2, SkillAssumption, ZenonT(60) DEF At, SkillTypes, Contents, Holding, Manual, Ended
    <2>2. SkillInv(e)
      BY <1>2, SkillAssumption DEF At, SkillTypes, SkillInv, Holding, Missing, Manual, Ended
    <2>3. SkillQuiet(e)
      BY <1>2, SkillAssumption DEF At, SkillTypes, SkillInv, SkillQuiet, Quiet, Published,
         Holding, Manual, Ended
    <2>4. QED BY <2>1, <2>2, <2>3
  <1>3. QED BY <1>1, <1>2 DEF AddMakeDir

LEMMA AddWriteFileKeeps ==
    ASSUME NEW d, NEW c \in SkillCall, d.pc[c] = "fill", NEW e \in AddWriteFile(d, c)
    PROVE  SkillKept(d, e)
  <1> SUFFICES ASSUME SkillTypes(d), SkillInv(d), SkillQuiet(d)
               PROVE  SkillTypes(e) /\ SkillInv(e) /\ SkillQuiet(e)
    BY DEF SkillKept
  <1>1. CASE e = At(d, c, "failed")
    <2>1. SkillTypes(e)
      BY <1>1, SkillAssumption DEF At, SkillTypes, Contents, Holding, Manual, Ended
    <2>2. SkillInv(e)
      BY <1>1, SkillAssumption DEF At, SkillTypes, SkillInv, Holding, Missing, Manual, Ended
    <2>3. SkillQuiet(e)
      BY <1>1, SkillAssumption DEF At, SkillTypes, SkillInv, SkillQuiet, Quiet, Published,
         Holding, Manual, Ended
    <2>4. QED BY <2>1, <2>2, <2>3
  <1>2. CASE d.target # 0 /\ (\E how \in {"failed", "done"}, what \in Contents :
                                e = [At(d, c, how) EXCEPT !.holds[d.target] = what])
    <2>1. PICK how \in {"failed", "done"}, what \in Contents :
              e = [At(d, c, how) EXCEPT !.holds[d.target] = what]
      BY <1>2
    <2>2. how \in Manual \cup Ended
      BY <2>1, SkillAssumption DEF SkillTypes, Ended, Manual
    <2>3. SkillTypes(e)
      BY <1>2, <2>1, <2>2, SkillAssumption, ZenonT(60) DEF At, SkillTypes, Holding, Manual, Ended
    <2>4. SkillInv(e)
      BY <1>2, <2>1, SkillAssumption DEF At, SkillTypes, SkillInv, Holding, Missing, Manual, Ended
    <2>5. SkillQuiet(e)
      BY <1>2, <2>1, SkillAssumption DEF At, SkillTypes, SkillInv, SkillQuiet, Quiet, Published,
         Holding, Manual, Ended
    <2>6. QED BY <2>3, <2>4, <2>5
  <1>3. QED BY <1>1, <1>2 DEF AddWriteFile, Contents

LEMMA DeleteLookKeeps ==
    ASSUME NEW d, NEW c \in SkillCall, d.pc[c] = "start", d.kind[c] = "delete",
       NEW e \in DeleteLook(d, c)
    PROVE  SkillKept(d, e)
  <1> SUFFICES ASSUME SkillTypes(d), SkillInv(d), SkillQuiet(d)
               PROVE  SkillTypes(e) /\ SkillInv(e) /\ SkillQuiet(e)
    BY DEF SkillKept
  <1>1. CASE \E how \in {"absent", "resolve"} : e = At(d, c, how)
    <2>1. PICK how \in {"absent", "resolve"} :
              e = At(d, c, how)
      BY <1>1
    <2>2. how \in Manual \cup Ended
      BY <2>1, SkillAssumption DEF SkillTypes, Ended, Manual
    <2>3. SkillTypes(e)
      BY <1>1, <2>1, <2>2, SkillAssumption DEF At, SkillTypes, Holding, Manual, Ended
    <2>4. SkillInv(e)
      BY <1>1, <2>1, SkillAssumption DEF At, SkillTypes, SkillInv, Holding, Missing, Manual, Ended
    <2>5. SkillQuiet(e)
      BY <1>1, <2>1, SkillAssumption DEF At, SkillTypes, SkillInv, SkillQuiet, Quiet, Published,
         Holding, Manual, Ended
    <2>6. QED BY <2>3, <2>4, <2>5
  <1>2. QED BY <1>1 DEF DeleteLook

LEMMA DeleteResolveKeeps ==
    ASSUME NEW d, NEW c \in SkillCall, d.pc[c] = "resolve", NEW e \in DeleteResolve(d, c)
    PROVE  SkillKept(d, e)
  <1> SUFFICES ASSUME SkillTypes(d), SkillInv(d), SkillQuiet(d)
               PROVE  SkillTypes(e) /\ SkillInv(e) /\ SkillQuiet(e)
    BY DEF SkillKept
  <1>1. CASE \E how \in {"failed", "remove"} : e = At(d, c, how)
    <2>1. PICK how \in {"failed", "remove"} :
              e = At(d, c, how)
      BY <1>1
    <2>2. how \in Manual \cup Ended
      BY <2>1, SkillAssumption DEF SkillTypes, Ended, Manual
    <2>3. SkillTypes(e)
      BY <1>1, <2>1, <2>2, SkillAssumption DEF At, SkillTypes, Holding, Manual, Ended
    <2>4. SkillInv(e)
      BY <1>1, <2>1, SkillAssumption DEF At, SkillTypes, SkillInv, Holding, Missing, Manual, Ended
    <2>5. SkillQuiet(e)
      BY <1>1, <2>1, SkillAssumption DEF At, SkillTypes, SkillInv, SkillQuiet, Quiet, Published,
         Holding, Manual, Ended
    <2>6. QED BY <2>3, <2>4, <2>5
  <1>2. QED BY <1>1 DEF DeleteResolve

LEMMA DeleteFilesKeeps ==
    ASSUME NEW d, NEW c \in SkillCall, d.pc[c] = "remove", NEW e \in DeleteFiles(d, c)
    PROVE  SkillKept(d, e)
  <1> SUFFICES ASSUME SkillTypes(d), SkillInv(d), SkillQuiet(d)
               PROVE  SkillTypes(e) /\ SkillInv(e) /\ SkillQuiet(e)
    BY DEF SkillKept
  <1>1. CASE e = At(d, c, "failed")
    <2>1. SkillTypes(e)
      BY <1>1, SkillAssumption, SMTT(30) DEF At, SkillTypes, Contents, Holding, Manual, Ended
    <2>2. SkillInv(e)
      BY <1>1, SkillAssumption DEF At, SkillTypes, SkillInv, Holding, Missing, Manual, Ended
    <2>3. SkillQuiet(e)
      BY <1>1, SkillAssumption DEF At, SkillTypes, SkillInv, SkillQuiet, Quiet, Published,
         Holding, Manual, Ended
    <2>4. QED BY <2>1, <2>2, <2>3
  <1>2. CASE d.target # 0 /\ (\E how \in {"failed", "rmdir"}, what \in Contents :
                                e = [At(d, c, how) EXCEPT !.holds[d.target] = what])
    <2>1. PICK how \in {"failed", "rmdir"}, what \in Contents :
              e = [At(d, c, how) EXCEPT !.holds[d.target] = what]
      BY <1>2
    <2>2. how \in Manual \cup Ended
      BY <2>1, SkillAssumption DEF SkillTypes, Ended, Manual
    <2>3. SkillTypes(e)
      BY <1>2, <2>1, <2>2, SkillAssumption, ZenonT(60) DEF At, SkillTypes, Holding, Manual, Ended
    <2>4. SkillInv(e)
      BY <1>2, <2>1, SkillAssumption DEF At, SkillTypes, SkillInv, Holding, Missing, Manual, Ended
    <2>5. SkillQuiet(e)
      BY <1>2, <2>1, SkillAssumption DEF At, SkillTypes, SkillInv, SkillQuiet, Quiet, Published,
         Holding, Manual, Ended
    <2>6. QED BY <2>3, <2>4, <2>5
  <1>3. QED BY <1>1, <1>2 DEF DeleteFiles, Contents

LEMMA DeleteDirKeeps ==
    ASSUME NEW d, NEW c \in SkillCall, d.pc[c] = "rmdir", NEW e \in DeleteDir(d, c)
    PROVE  SkillKept(d, e)
  <1> SUFFICES ASSUME SkillTypes(d), SkillInv(d), SkillQuiet(d)
               PROVE  SkillTypes(e) /\ SkillInv(e) /\ SkillQuiet(e)
    BY DEF SkillKept
  <1>1. CASE \E how \in {"failed", "done"} : d.target = 0 /\ e = At(d, c, how)
    <2>1. PICK how \in {"failed", "done"} :
              d.target = 0 /\ e = At(d, c, how)
      BY <1>1
    <2>2. how \in Manual \cup Ended
      BY <2>1, SkillAssumption DEF SkillTypes, Ended, Manual
    <2>3. SkillTypes(e)
      BY <1>1, <2>1, <2>2, SkillAssumption DEF At, SkillTypes, Holding, Manual, Ended
    <2>4. SkillInv(e)
      BY <1>1, <2>1, SkillAssumption DEF At, SkillTypes, SkillInv, Holding, Missing, Manual, Ended
    <2>5. SkillQuiet(e)
      BY <1>1, <2>1, SkillAssumption DEF At, SkillTypes, SkillInv, SkillQuiet, Quiet, Published,
         Holding, Manual, Ended
    <2>6. QED BY <2>3, <2>4, <2>5
  <1>2. CASE e = At(d, c, "failed")
    <2>1. SkillTypes(e)
      BY <1>2, SkillAssumption, SMTT(30) DEF At, SkillTypes, Contents, Holding, Manual, Ended
    <2>2. SkillInv(e)
      BY <1>2, SkillAssumption DEF At, SkillTypes, SkillInv, Holding, Missing, Manual, Ended
    <2>3. SkillQuiet(e)
      BY <1>2, SkillAssumption DEF At, SkillTypes, SkillInv, SkillQuiet, Quiet, Published,
         Holding, Manual, Ended
    <2>4. QED BY <2>1, <2>2, <2>3
  <1>3. CASE e = [At(d, c, "done") EXCEPT !.target = 0]
    <2>1. SkillTypes(e)
      BY <1>3, SkillAssumption, ZenonT(60) DEF At, SkillTypes, Contents, Holding, Manual, Ended
    <2>2. SkillInv(e)
      BY <1>3, SkillAssumption DEF At, SkillTypes, SkillInv, Holding, Missing, Manual, Ended
    <2>3. SkillQuiet(e)
      BY <1>3, SkillAssumption DEF At, SkillTypes, SkillInv, SkillQuiet, Quiet, Published,
         Holding, Manual, Ended
    <2>4. QED BY <2>1, <2>2, <2>3
  <1>4. QED BY <1>1, <1>2, <1>3 DEF DeleteDir

\* Every step of any call keeps the invariant.
LEMMA StoreStepKeeps ==
    ASSUME NEW d, SkillTypes(d), SkillInv(d), SkillQuiet(d), NEW e \in StoreSteps(d)
    PROVE  SkillTypes(e) /\ SkillInv(e) /\ SkillQuiet(e)
  <1>1. PICK c \in SkillCall :
            e \in CASE d.pc[c] = "start" -> FirstStep(d, c)
                    [] d.pc[c] = "write" -> WriteFiles(d, c)
                    [] d.pc[c] = "park" -> Park(d, c)
                    [] d.pc[c] = "publish" -> Publish(d, c)
                    [] d.pc[c] = "restore" -> Restore(d, c)
                    [] d.pc[c] = "mkdir" -> AddMakeDir(d, c)
                    [] d.pc[c] = "fill" -> AddWriteFile(d, c)
                    [] d.pc[c] = "resolve" -> DeleteResolve(d, c)
                    [] d.pc[c] = "remove" -> DeleteFiles(d, c)
                    [] d.pc[c] = "rmdir" -> DeleteDir(d, c)
                    [] OTHER -> {}
    BY DEF StoreSteps, SkillTypes
  <1>2. CASE d.pc[c] = "start"
    <2>1. e \in FirstStep(d, c)
      BY <1>1, <1>2
    <2>2. \/ d.kind[c] = "delete" /\ e \in DeleteLook(d, c)
          \/ d.kind[c] = "add" /\ e \in AddLook(d, c)
          \/ d.kind[c] \in {"install", "update"} /\ e \in Enter(d, c)
      BY <2>1 DEF FirstStep, SkillTypes
    <2>3. SkillKept(d, e)
      BY <1>2, <2>2, EnterKeeps, AddLookKeeps, DeleteLookKeeps
    <2>4. QED BY <2>3 DEF SkillKept
  <1>3. CASE d.pc[c] # "start"
    <2>1. \/ d.pc[c] = "write" /\ e \in WriteFiles(d, c)
          \/ d.pc[c] = "park" /\ e \in Park(d, c)
          \/ d.pc[c] = "publish" /\ e \in Publish(d, c)
          \/ d.pc[c] = "restore" /\ e \in Restore(d, c)
          \/ d.pc[c] = "mkdir" /\ e \in AddMakeDir(d, c)
          \/ d.pc[c] = "fill" /\ e \in AddWriteFile(d, c)
          \/ d.pc[c] = "resolve" /\ e \in DeleteResolve(d, c)
          \/ d.pc[c] = "remove" /\ e \in DeleteFiles(d, c)
          \/ d.pc[c] = "rmdir" /\ e \in DeleteDir(d, c)
      BY <1>1, <1>3
    <2>2. SkillKept(d, e)
      BY <2>1, WriteKeeps, ParkKeeps, PublishKeeps, RestoreKeeps, AddMakeDirKeeps, AddWriteFileKeeps,
         DeleteResolveKeeps, DeleteFilesKeeps, DeleteDirKeeps
    <2>3. QED BY <2>2 DEF SkillKept
  <1>4. QED BY <1>2, <1>3

\* The invariant says what SkillStoreWhole asks for.
LEMMA SkillInvSuffices ==
    ASSUME NEW d, SkillTypes(d), SkillInv(d), SkillQuiet(d)
    PROVE  StoreWhole(d)
  <1>0. DOMAIN d.pc = SkillCall
    BY DEF SkillTypes
  <1>1. d.lock = 0 /\ d.target = 0 => Missing(d)
    BY SkillAssumption DEF SkillInv
  <1>2. ASSUME d.target # 0, d.holds[d.target] # "whole"
        PROVE  \E c \in SkillCall : d.kind[c] \in {"add", "delete"} /\ d.pc[c] # "start"
    <2>1. d.target \in SkillCall \cup {d.first} /\ Published(d, d.target)
      BY <1>2 DEF SkillTypes, Published
    <2>2. ~Quiet(d)
      BY <1>2, <2>1 DEF SkillQuiet
    <2>3. QED BY <2>2 DEF Quiet
  <1>3. QED BY <1>0, <1>1, <1>2 DEF StoreWhole

\* The invariant of the specification.
SkillInvariant == algo = "skills" => SkillTypes(inp) /\ SkillInv(inp) /\ SkillQuiet(inp)

\* skill_install.rs:388, skills.rs:58, 95: no calls on one name, however many, in whatever order
\* and whatever operation of the file system fails, lose the skill between them, but for a delete
\* or for an update that can neither publish nor put back; and without adds and deletes by hand
\* what is published is one version with all its files.
THEOREM SkillsStayWhole == ReadersSpec => []SkillStoreWhole
  <1>1. ReadersInit => SkillInvariant
    <2> SUFFICES ASSUME ReadersInit, algo = "skills"
                 PROVE  SkillTypes(inp) /\ SkillInv(inp) /\ SkillQuiet(inp)
      BY DEF SkillInvariant
    <2>1. PICK kind \in [SkillCall -> {"install", "update", "add", "delete"}], there \in Versions :
              inp = StoreInit(SkillCall, kind, there)
      BY DEF ReadersInit, StoreStarts
    <2>2. SkillTypes(inp)
      BY <2>1, SkillAssumption DEF StoreInit, SkillTypes, Contents, Holding, Manual, Ended
    <2>3. SkillInv(inp)
      BY <2>1, SkillAssumption DEF StoreInit, SkillInv, Holding, Missing
    <2>4. SkillQuiet(inp)
      BY <2>1, SkillAssumption DEF StoreInit, SkillQuiet, Published
    <2>5. QED BY <2>2, <2>3, <2>4
  <1>2. SkillInvariant /\ [ReadersNext]_readers_vars => SkillInvariant'
    <2> SUFFICES ASSUME SkillInvariant, [ReadersNext]_readers_vars, algo' = "skills"
                 PROVE  SkillTypes(inp') /\ SkillInv(inp') /\ SkillQuiet(inp')
      BY DEF SkillInvariant, SkillTypes, SkillInv, SkillQuiet, Missing, Quiet, Published
    <2>1. CASE UNCHANGED readers_vars
      BY <2>1 DEF SkillInvariant, readers_vars
    <2>2. CASE ReadersNext
      <3>1. algo = "skills" /\ inp' \in StoreSteps(inp)
        BY <2>2 DEF ReadersNext, RoutingStep, JournalStep, SkillStep, DownloadStep, GroupStep
      <3>2. QED BY <3>1, StoreStepKeeps DEF SkillInvariant
    <2>3. QED BY <2>1, <2>2
  <1>3. SkillInvariant => SkillStoreWhole
    BY SkillInvSuffices DEF SkillInvariant, SkillStoreWhole
  <1>4. QED BY <1>1, <1>2, <1>3, PTL DEF ReadersSpec

-----------------------------------------------------------------------------
(* The downloads. *)

\* The types of a download.
DownloadTypes(d) ==
    /\ d = [lens |-> d.lens, version |-> d.version, pc |-> d.pc, got |-> d.got, tag |-> d.tag,
            outcome |-> d.outcome, raced |-> d.raced]
    /\ d.lens \in FileLengths /\ d.version \in 1..Len(d.lens) /\ d.tag \in 0..d.version
    /\ d.pc \in {"ask", "open", "done"} /\ d.raced \in BOOLEAN

\* The first n bytes of version v.
FrontBytes(v, n) == [i \in 1..n |-> <<v, i>>]

\* What a download has got is the front of one version, and what the request under way will
\* send is the rest of it, as long as no rewrite fell into a request.
DownloadInv(d) ==
    LET n == Len(d.got) IN
    ~d.raced =>
        /\ n \in Nat /\ d.got = FrontBytes(d.tag, n)
        /\ n # 0 => d.tag # 0 /\ n <= d.lens[d.tag]
        /\ d.pc = "open" =>
               /\ d.tag = d.version
               /\ \/ d.outcome = <<"full">> /\ n = 0
                  \/ d.outcome = <<"slice", n, d.lens[d.tag] - 1>> /\ 0 < n /\ n < d.lens[d.tag]
        /\ d.pc = "done" => d.tag # 0 /\ n = d.lens[d.tag]

\* The bytes that follow the first n are those of a longer front.
LEMMA FrontBytesConcat ==
    ASSUME NEW v, NEW n \in Nat, NEW k \in Nat
    PROVE  /\ FrontBytes(v, n) \o [i \in 1..k |-> <<v, n + i>>] = FrontBytes(v, n + k)
           /\ Len(FrontBytes(v, n)) = n
  <1> DEFINE T == {v} \X Nat
             s == FrontBytes(v, n)
             t == [i \in 1..k |-> <<v, n + i>>]
             r == FrontBytes(v, n + k)
  <1>1. s \in [1..n -> T] /\ t \in [1..k -> T] /\ r \in [1..(n + k) -> T]
    BY DEF FrontBytes
  <1>2. s \in Seq(T) /\ t \in Seq(T) /\ r \in Seq(T)
    BY <1>1, n + k \in Nat, SeqDef
  <1>3. Len(s) = n /\ Len(t) = k /\ Len(r) = n + k
    BY <1>1, <1>2, LenProperties, n + k \in Nat
  <1>4. /\ \A i \in 1..n : s[i] = <<v, i>>
        /\ \A i \in 1..k : t[i] = <<v, n + i>>
        /\ \A i \in 1..(n + k) : r[i] = <<v, i>>
    BY DEF FrontBytes
  <1> HIDE DEF s, t, r, T
  <1>5. /\ s \o t \in Seq(T) /\ Len(s \o t) = n + k
        /\ \A i \in 1..(n + k) : (s \o t)[i] = IF i <= n THEN s[i] ELSE t[i - n]
    BY <1>2, <1>3, ConcatProperties
  <1>6. \A i \in 1..(n + k) : (s \o t)[i] = r[i]
    <2> TAKE i \in 1..(n + k)
    <2>1. CASE i <= n
      <3>1. i \in 1..n
        BY <2>1
      <3>2. QED BY <2>1, <3>1, <1>4, <1>5
    <2>2. CASE i > n
      <3>1. i - n \in 1..k /\ n + (i - n) = i
        BY <2>2
      <3>2. t[i - n] = <<v, i>>
        BY <3>1, <1>4
      <3>3. (s \o t)[i] = t[i - n]
        BY <2>2, <1>5
      <3>4. QED BY <3>2, <3>3, <1>4
    <2>3. i <= n \/ i > n
      OBVIOUS
    <2>4. QED BY <2>1, <2>2, <2>3
  <1>7. s \o t = r
    BY <1>2, <1>3, <1>5, <1>6, SeqEqual
  <1>8. QED BY <1>3, <1>7 DEF s, t, r

\* Every version has a length.
LEMMA LengthsOfVersions ==
    ASSUME NEW d, DownloadTypes(d)
    PROVE  /\ Len(d.lens) \in Nat /\ d.version \in Nat /\ d.tag \in Nat
           /\ \A v \in 1..d.version : d.lens[v] \in Nat
  <1>1. d.lens \in Seq(Nat)
    BY FileAssumption DEF DownloadTypes
  <1>2. Len(d.lens) \in Nat /\ d.lens \in [1..Len(d.lens) -> Nat]
    BY <1>1, LenProperties
  <1>3. QED BY <1>2 DEF DownloadTypes

\* One lemma for each step: the file is rewritten, a request looks at it, it is opened and sent.
LEMMA RewriteKeeps ==
    ASSUME NEW d, DownloadTypes(d), DownloadInv(d), NEW e \in Rewrite(d)
    PROVE  DownloadTypes(e) /\ DownloadInv(e)
  <1>1. /\ e = [d EXCEPT !.version = @ + 1, !.raced = @ \/ d.pc = "open"]
        /\ d.version # Len(d.lens)
    BY DEF Rewrite
  <1>2. /\ e.lens = d.lens /\ e.version = d.version + 1 /\ e.pc = d.pc /\ e.got = d.got
        /\ e.tag = d.tag /\ e.outcome = d.outcome /\ (e.raced <=> d.raced \/ d.pc = "open")
        /\ e.raced \in BOOLEAN
    BY <1>1 DEF DownloadTypes
  <1>3. DownloadTypes(e)
    <2>1. d.version + 1 \in 1..Len(d.lens) /\ d.tag \in 0..(d.version + 1)
      BY <1>1, LengthsOfVersions DEF DownloadTypes
    <2>2. e = [lens |-> e.lens, version |-> e.version, pc |-> e.pc, got |-> e.got, tag |-> e.tag,
               outcome |-> e.outcome, raced |-> e.raced]
      BY <1>1 DEF DownloadTypes
    <2>3. QED BY <1>2, <2>1, <2>2 DEF DownloadTypes
  <1>4. DownloadInv(e)
    BY <1>2 DEF DownloadInv
  <1>5. QED BY <1>3, <1>4

\* What a request for the rest of what was got is answered, when it is about the same version.
LEMMA RestIsAnswered ==
    ASSUME NEW d, DownloadTypes(d), DownloadInv(d), ~d.raced,
           NEW outcome,
           outcome = parse_range(IF d.got = <<>> THEN <<>> ELSE <<"from", Len(d.got)>>, d.tag,
                                 d.version, d.lens[d.version])
    PROVE  \/ outcome = <<"full">>
           \/ /\ d.tag = d.version /\ 0 < Len(d.got) /\ Len(d.got) < d.lens[d.tag]
              /\ outcome = <<"slice", Len(d.got), d.lens[d.tag] - 1>>
           \/ outcome = <<"unsatisfiable">>
  <1>1. PICK n \in Nat : n = Len(d.got) /\ d.got = FrontBytes(d.tag, n) /\ (n # 0 => d.tag # 0)
    BY DEF DownloadInv
  <1>2. CASE d.got = <<>>
    BY <1>2 DEF parse_range
  <1>3. CASE d.got # <<>>
    <2>1. n # 0
      BY <1>1, <1>3 DEF FrontBytes
    <2>2. d.tag # 0
      BY <1>1, <2>1
    <2>3. outcome = parse_range(<<"from", n>>, d.tag, d.version, d.lens[d.version])
      BY <1>1, <1>3
    <2>4. CASE d.tag # d.version
      BY <2>2, <2>3, <2>4 DEF parse_range
    <2>5. CASE d.tag = d.version
      <3>1. \/ n < d.lens[d.version] /\ outcome = <<"slice", n, d.lens[d.version] - 1>>
            \/ ~(n < d.lens[d.version]) /\ outcome = <<"unsatisfiable">>
        BY <2>3, <2>5 DEF parse_range
      <3>2. QED BY <3>1, <1>1, <2>1, <2>5
    <2>6. QED BY <2>4, <2>5
  <1>4. QED BY <1>2, <1>3

LEMMA FileStatKeeps ==
    ASSUME NEW d, DownloadTypes(d), DownloadInv(d), d.pc = "ask", NEW e \in FileStat(d)
    PROVE  DownloadTypes(e) /\ DownloadInv(e)
  <1> DEFINE ask == IF d.got = <<>> THEN <<>> ELSE <<"from", Len(d.got)>>
  <1>1. PICK outcome :
            /\ outcome = parse_range(ask, d.tag, d.version, d.lens[d.version])
            /\ e = IF outcome[1] = "unsatisfiable" THEN [d EXCEPT !.got = <<>>]
                   ELSE [d EXCEPT !.pc = "open", !.outcome = outcome,
                            !.tag = IF outcome[1] = "full" THEN d.version ELSE @,
                            !.got = IF outcome[1] = "full" THEN <<>> ELSE @]
    BY DEF FileStat
  <1> HIDE DEF ask
  <1>2. DownloadTypes(e) /\ e.raced = d.raced
    <2>1. CASE e = [d EXCEPT !.got = <<>>]
      BY <2>1 DEF DownloadTypes
    <2>2. CASE \E t \in {d.tag, d.version} : \E got : e = [d EXCEPT !.pc = "open", !.outcome = outcome, !.tag = t, !.got = got]
      <3>1. PICK t \in {d.tag, d.version} : \E got : e = [d EXCEPT !.pc = "open", !.outcome = outcome, !.tag = t, !.got = got]
        BY <2>2
      <3>2. t \in 0..d.version
        BY LengthsOfVersions DEF DownloadTypes
      <3>3. QED BY <3>1, <3>2 DEF DownloadTypes
    <2>3. QED BY <1>1, <2>1, <2>2
  <1>3. ASSUME ~d.raced
        PROVE  DownloadInv(e)
    <2>1. \/ outcome = <<"full">>
          \/ /\ d.tag = d.version /\ 0 < Len(d.got) /\ Len(d.got) < d.lens[d.tag]
             /\ outcome = <<"slice", Len(d.got), d.lens[d.tag] - 1>>
          \/ outcome = <<"unsatisfiable">>
      BY <1>1, <1>3, RestIsAnswered DEF ask
    <2>2. Len(<<>>) = 0 /\ \A v : <<>> = FrontBytes(v, 0)
      BY DEF FrontBytes
    <2>3. CASE outcome = <<"full">>
      <3>1. e = [d EXCEPT !.pc = "open", !.outcome = outcome, !.tag = d.version, !.got = <<>>]
        BY <1>1, <2>3
      <3>2. e.pc = "open" /\ e.outcome = <<"full">> /\ e.tag = e.version /\ e.got = <<>>
        BY <3>1, <2>3 DEF DownloadTypes
      <3>3. QED BY <3>2, <2>2 DEF DownloadInv
    <2>4. CASE outcome = <<"unsatisfiable">>
      <3>1. e = [d EXCEPT !.got = <<>>]
        BY <1>1, <2>4
      <3>2. e.got = <<>> /\ e.pc = d.pc /\ e.tag = d.tag
        BY <3>1 DEF DownloadTypes
      <3>3. QED BY <3>2, <2>2 DEF DownloadInv
    <2>5. CASE /\ d.tag = d.version /\ 0 < Len(d.got) /\ Len(d.got) < d.lens[d.tag]
               /\ outcome = <<"slice", Len(d.got), d.lens[d.tag] - 1>>
      <3>0. outcome[1] = "slice"
        BY <2>5
      <3>1. e = [d EXCEPT !.pc = "open", !.outcome = outcome, !.tag = d.tag, !.got = d.got]
        BY <1>1, <3>0
      <3>2. /\ e.pc = "open" /\ e.outcome = outcome /\ e.tag = d.tag /\ e.got = d.got
            /\ e.version = d.version /\ e.lens = d.lens
        BY <3>1 DEF DownloadTypes
      <3>3. QED BY <3>2, <2>5, <1>3 DEF DownloadInv
    <2>6. QED BY <2>1, <2>3, <2>4, <2>5
  <1>4. d.raced => DownloadInv(e)
    BY <1>2 DEF DownloadInv
  <1>5. QED BY <1>2, <1>3, <1>4

LEMMA FileSendKeeps ==
    ASSUME NEW d, DownloadTypes(d), DownloadInv(d), d.pc = "open", NEW e \in FileSend(d)
    PROVE  DownloadTypes(e) /\ DownloadInv(e)
  <1> DEFINE first == IF d.outcome[1] = "full" THEN 0 ELSE d.outcome[2]
             span == IF d.outcome[1] = "full" THEN d.lens[d.tag] ELSE d.outcome[3] - first + 1
             there == IF span < (IF d.lens[d.version] < first THEN 0 ELSE d.lens[d.version] - first)
                      THEN span ELSE IF d.lens[d.version] < first THEN 0 ELSE d.lens[d.version] - first
             sent(k) == [i \in 1..k |-> <<d.version, first + i>>]
  <1>1. PICK k \in 0..there :
            e = [d EXCEPT !.got = @ \o sent(k), !.pc = IF k = span THEN "done" ELSE "ask"]
    BY DEF FileSend, Less, Minus
  <1>2. PICK got, where : /\ e = [d EXCEPT !.got = got, !.pc = where]
                          /\ got = d.got \o sent(k) /\ where = IF k = span THEN "done" ELSE "ask"
    BY <1>1
  <1>3. /\ e.lens = d.lens /\ e.version = d.version /\ e.tag = d.tag /\ e.raced = d.raced
        /\ e.got = got /\ e.pc = where
    BY <1>2 DEF DownloadTypes
  <1>4. DownloadTypes(e)
    <2>1. where \in {"ask", "done"}
      BY <1>2
    <2>2. QED BY <1>2, <2>1 DEF DownloadTypes
  <1>5. ASSUME ~d.raced
        PROVE  DownloadInv(e)
    <2>1. PICK n \in Nat : n = Len(d.got) /\ d.got = FrontBytes(d.tag, n) /\ (n # 0 => d.tag # 0)
      BY <1>5 DEF DownloadInv
    <2>2. PICK len \in Nat : len = d.lens[d.version]
      BY LengthsOfVersions DEF DownloadTypes
    <2>3. d.tag = d.version /\ d.tag # 0
      BY <1>5 DEF DownloadInv, DownloadTypes
    <2>4. first = n /\ span = len - n /\ n <= len
      <3>1. CASE d.outcome = <<"full">> /\ n = 0
        BY <3>1, <2>2, <2>3
      <3>2. CASE d.outcome = <<"slice", n, len - 1>> /\ n < len
        <4>1. first = n /\ span = len - 1 - n + 1
          BY <3>2
        <4>2. QED BY <4>1, <3>2
      <3>3. QED BY <1>5, <2>1, <2>2, <2>3, <3>1, <3>2 DEF DownloadInv
    <2>5. k \in Nat /\ k <= len - n
      BY <2>2, <2>4
    <2>6. got = FrontBytes(d.tag, n + k)
      <3>1. sent(k) = [i \in 1..k |-> <<d.tag, n + i>>]
        BY <2>3, <2>4
      <3>2. FrontBytes(d.tag, n) \o [i \in 1..k |-> <<d.tag, n + i>>] = FrontBytes(d.tag, n + k)
        BY <2>5, FrontBytesConcat
      <3>3. got = d.got \o sent(k)
        BY <1>2
      <3> HIDE DEF sent
      <3>4. QED BY <2>1, <3>1, <3>2, <3>3
    <2>7. Len(got) = n + k /\ n + k \in Nat /\ n + k <= len
      BY <2>5, <2>6, n + k \in Nat, FrontBytesConcat
    <2>8. where = "done" <=> n + k = len
      BY <1>2, <2>4, <2>5
    <2>9. where # "open"
      BY <1>2
    <2>10. QED BY <1>3, <2>2, <2>3, <2>6, <2>7, <2>8, <2>9 DEF DownloadInv
  <1>6. d.raced => DownloadInv(e)
    BY <1>3 DEF DownloadInv
  <1>7. QED BY <1>4, <1>5, <1>6 DEF DownloadTypes

\* Every step keeps the invariant.
LEMMA DownloadStepKeeps ==
    ASSUME NEW d, DownloadTypes(d), DownloadInv(d), NEW e \in DownloadSteps(d)
    PROVE  DownloadTypes(e) /\ DownloadInv(e)
  <1>1. \/ e \in Rewrite(d)
        \/ d.pc = "ask" /\ e \in FileStat(d)
        \/ d.pc = "open" /\ e \in FileSend(d)
    BY DEF DownloadSteps
  <1>2. QED BY <1>1, RewriteKeeps, FileStatKeeps, FileSendKeeps

\* A download that is over has one whole version.
LEMMA DownloadInvSuffices ==
    ASSUME NEW d, DownloadTypes(d), DownloadInv(d)
    PROVE  OneVersionUnlessRaced(d)
  <1> SUFFICES ASSUME ~d.raced, d.pc = "done"
               PROVE  \E v \in 1..d.version : d.got = [i \in 1..d.lens[v] |-> <<v, i>>]
    BY DEF OneVersionUnlessRaced, OneVersion
  <1>1. d.got = FrontBytes(d.tag, d.lens[d.tag]) /\ d.tag # 0
    BY DEF DownloadInv
  <1>2. d.tag \in 1..d.version
    BY <1>1, LengthsOfVersions DEF DownloadTypes
  <1>3. QED BY <1>1, <1>2 DEF FrontBytes

\* The invariant of the specification.
DownloadInvariant == algo = "downloads" => DownloadTypes(inp) /\ DownloadInv(inp)

\* sessions.rs:899: a download that was broken off and resumed any number of times, of a file that
\* was rewritten any number of times, is one version of it, if no rewrite fell into a request.
THEOREM DownloadsStayWhole == ReadersSpec => []ResumedDownloadWhole
  <1>1. ReadersInit => DownloadInvariant
    <2> SUFFICES ASSUME ReadersInit, algo = "downloads" PROVE DownloadTypes(inp) /\ DownloadInv(inp)
      BY DEF DownloadInvariant
    <2>1. PICK lens \in FileLengths : inp = DownloadInit(lens)
      BY DEF ReadersInit
    <2>2. Len(lens) \in Nat \ {0}
      BY FileAssumption, EmptySeq
    <2>3. DownloadTypes(inp)
      BY <2>1, <2>2 DEF DownloadInit, DownloadTypes
    <2>4. Len(<<>>) = 0 /\ \A v : <<>> = FrontBytes(v, 0)
      BY DEF FrontBytes
    <2>5. DownloadInv(inp)
      BY <2>1, <2>4 DEF DownloadInit, DownloadInv
    <2>6. QED BY <2>3, <2>5
  <1>2. DownloadInvariant /\ [ReadersNext]_readers_vars => DownloadInvariant'
    <2> SUFFICES ASSUME DownloadInvariant, [ReadersNext]_readers_vars, algo' = "downloads"
                 PROVE  DownloadTypes(inp') /\ DownloadInv(inp')
      BY DEF DownloadInvariant, DownloadTypes, DownloadInv, FrontBytes
    <2>1. CASE UNCHANGED readers_vars
      BY <2>1 DEF DownloadInvariant, readers_vars
    <2>2. CASE ReadersNext
      <3>1. algo = "downloads" /\ inp' \in DownloadSteps(inp)
        BY <2>2 DEF ReadersNext, RoutingStep, JournalStep, SkillStep, DownloadStep, GroupStep
      <3>2. QED BY <3>1, DownloadStepKeeps DEF DownloadInvariant
    <2>3. QED BY <2>1, <2>2
  <1>3. DownloadInvariant => ResumedDownloadWhole
    BY DownloadInvSuffices DEF DownloadInvariant, ResumedDownloadWhole
  <1>4. QED BY <1>1, <1>2, <1>3, PTL DEF ReadersSpec

-----------------------------------------------------------------------------
(* The groups. *)

\* The one group of adopted sessions.
AdoptedGroup == [id |-> GroupId(NULL, Adopted), name |-> Adopted]

\* The types of the groups.
GroupsTypes(g) ==
    /\ g = [groups |-> g.groups, pc |-> g.pc, found |-> g.found, row |-> g.row,
            deleting |-> g.deleting, edits |-> g.edits]
    /\ g.edits \in Nat
    /\ g.pc = [c \in Adopter |-> g.pc[c]] /\ g.found = [c \in Adopter |-> g.found[c]]
    /\ g.row = [c \in Adopter |-> g.row[c]]

\* Until a user edits the groups there is the one or none; a call that has looked for it after
\* its own insert, or found it, has it.
GroupsInv(g) ==
    g.edits = 0 =>
        /\ g.deleting = NULL /\ g.groups \subseteq {AdoptedGroup}
        /\ \A c \in Adopter :
            /\ g.pc[c] \in {"select", "insert", "again", "create", "done"}
            /\ g.pc[c] \in {"again", "create", "done"} => g.groups # {}
            /\ g.pc[c] = "create" => g.found[c] = AdoptedGroup.id
            /\ g.pc[c] = "done" => g.row[c] = AdoptedGroup.id

\* A user's edit keeps the types, and is counted: the invariant asks for nothing after it.
LEMMA EditsCount ==
    ASSUME NEW g, GroupsTypes(g), NEW e \in UserEdits(g, MaxEdits)
    PROVE  GroupsTypes(e) /\ e.edits # 0
  <1> DEFINE Deleting(x) == [g EXCEPT !.deleting = x.id,
                                 !.row = [c \in DOMAIN @ |-> IF @[c] = x.id THEN NULL ELSE @[c]]]
             Edits == create_group(g) \cup update_group(g) \cup PutInGroup(g)
                      \cup (IF g.deleting # NULL THEN {} ELSE {Deleting(x) : x \in g.groups})
  <1>1. UserEdits(g, MaxEdits) \subseteq {[f EXCEPT !.edits = @ + 1] : f \in Edits}
    BY DEF UserEdits
  <1>2. ASSUME NEW f, f \in create_group(g)
        PROVE  GroupsTypes(f)
    BY <1>2 DEF create_group, GroupsTypes
  <1>3. ASSUME NEW f, f \in update_group(g)
        PROVE  GroupsTypes(f)
    BY <1>3 DEF update_group, GroupsTypes
  <1>4. ASSUME NEW f, f \in PutInGroup(g)
        PROVE  GroupsTypes(f)
    <2> DEFINE Group(x) == patch_session([group |-> x.id]).group
               Into(c) == {[g EXCEPT !.row[c] = Group(x)] : x \in g.groups}
    <2>1. PICK c \in {d \in DOMAIN g.pc : g.pc[d] = "done"} : f \in Into(c)
      <3>1. PutInGroup(g) = UNION {Into(c) : c \in {d \in DOMAIN g.pc : g.pc[d] = "done"}}
        BY DEF PutInGroup
      <3> HIDE DEF Into
      <3>2. QED BY <1>4, <3>1
    <2> HIDE DEF Group
    <2>2. PICK v : f = [g EXCEPT !.row[c] = v]
      BY <2>1
    <2>3. QED BY <2>2 DEF GroupsTypes
  <1>5. ASSUME NEW x
        PROVE  GroupsTypes(Deleting(x))
    <2> DEFINE row == [c \in DOMAIN g.row |-> IF g.row[c] = x.id THEN NULL ELSE g.row[c]]
    <2>1. Deleting(x) = [g EXCEPT !.deleting = x.id, !.row = row]
      OBVIOUS
    <2>2. row = [c \in Adopter |-> row[c]]
      BY DEF GroupsTypes
    <2> HIDE DEF row, Deleting
    <2>3. QED BY <2>1, <2>2 DEF GroupsTypes
  <1> HIDE DEF Deleting
  <1>6. \A f \in Edits : GroupsTypes(f)
    BY <1>2, <1>3, <1>4, <1>5
  <1> HIDE DEF Edits
  <1>7. PICK f \in Edits : e = [f EXCEPT !.edits = @ + 1]
    BY <1>1
  <1>8. GroupsTypes(f)
    BY <1>6
  <1>9. QED BY <1>7, <1>8 DEF GroupsTypes

\* One lemma for each step of a delete and of an adoption.
LEMMA DeleteGroupKeeps ==
    ASSUME NEW g, GroupsTypes(g), GroupsInv(g), NEW e \in delete_group(g)
    PROVE  GroupsTypes(e) /\ GroupsInv(e)
  <1>1. g.deleting # NULL
    BY DEF delete_group
  <1>2. e = [g EXCEPT !.deleting = NULL, !.groups = {x \in @ : x.id # g.deleting}]
    BY <1>1 DEF delete_group
  <1>3. GroupsTypes(e) /\ e.edits = g.edits
    BY <1>2 DEF GroupsTypes
  <1>4. g.edits # 0
    BY <1>1 DEF GroupsInv
  <1>5. QED BY <1>3, <1>4 DEF GroupsInv

\* A call finds the group of adopted sessions, and no other.
LEMMA FoundIsAdopted ==
    ASSUME NEW g, g.groups \subseteq {AdoptedGroup}
    PROVE  /\ Named(g, Adopted) = g.groups
           /\ \A x \in Named(g, Adopted) : x.id = AdoptedGroup.id
           /\ HasGroup(g, AdoptedGroup.id) <=> g.groups # {}
  BY DEF Named, HasGroup, AdoptedGroup

LEMMA SelectKeeps ==
    ASSUME NEW g, GroupsTypes(g), GroupsInv(g), NEW c \in Adopter, g.pc[c] = "select",
           NEW e \in Select(g, c)
    PROVE  GroupsTypes(e) /\ GroupsInv(e)
  <1>1. CASE e = [g EXCEPT !.pc[c] = "insert"]
    BY <1>1 DEF GroupsTypes, GroupsInv
  <1>2. CASE \E x \in Named(g, Adopted) : e = [g EXCEPT !.pc[c] = "create", !.found[c] = x.id]
    <2>1. PICK x \in Named(g, Adopted) : e = [g EXCEPT !.pc[c] = "create", !.found[c] = x.id]
      BY <1>2
    <2>2. GroupsTypes(e)
      BY <2>1 DEF GroupsTypes
    <2>3. ASSUME e.edits = 0
          PROVE  g.groups \subseteq {AdoptedGroup} /\ g.groups # {} /\ x.id = AdoptedGroup.id
      <3>1. g.groups \subseteq {AdoptedGroup}
        BY <2>1, <2>3 DEF GroupsInv, GroupsTypes
      <3>2. QED BY <3>1, FoundIsAdopted
    <2>4. GroupsInv(e)
      BY <2>1, <2>3 DEF GroupsInv, GroupsTypes
    <2>5. QED BY <2>2, <2>4
  <1>3. QED BY <1>1, <1>2 DEF Select

LEMMA SelectAgainKeeps ==
    ASSUME NEW g, GroupsTypes(g), GroupsInv(g), NEW c \in Adopter, g.pc[c] = "again",
           NEW e \in SelectAgain(g, c)
    PROVE  GroupsTypes(e) /\ GroupsInv(e)
  <1>1. CASE e = [g EXCEPT !.pc[c] = "failed"] /\ Named(g, Adopted) = {}
    <2>1. GroupsTypes(e)
      BY <1>1 DEF GroupsTypes
    <2>2. e.edits # 0
      <3>1. SUFFICES ASSUME e.edits = 0 PROVE FALSE
        OBVIOUS
      <3>2. g.edits = 0
        BY <1>1, <3>1 DEF GroupsTypes
      <3>3. g.groups \subseteq {AdoptedGroup} /\ g.groups # {}
        BY <3>2 DEF GroupsInv
      <3>4. QED BY <1>1, <3>3, FoundIsAdopted
    <2>3. QED BY <2>1, <2>2 DEF GroupsInv
  <1>2. CASE \E x \in Named(g, Adopted) : e = [g EXCEPT !.pc[c] = "create", !.found[c] = x.id]
    <2>1. PICK x \in Named(g, Adopted) : e = [g EXCEPT !.pc[c] = "create", !.found[c] = x.id]
      BY <1>2
    <2>2. GroupsTypes(e)
      BY <2>1 DEF GroupsTypes
    <2>3. ASSUME e.edits = 0
          PROVE  g.groups \subseteq {AdoptedGroup} /\ g.groups # {} /\ x.id = AdoptedGroup.id
      <3>1. g.groups \subseteq {AdoptedGroup}
        BY <2>1, <2>3 DEF GroupsInv, GroupsTypes
      <3>2. QED BY <3>1, FoundIsAdopted
    <2>4. GroupsInv(e)
      BY <2>1, <2>3 DEF GroupsInv, GroupsTypes
    <2>5. QED BY <2>2, <2>4
  <1>3. QED BY <1>1, <1>2 DEF SelectAgain

LEMMA InsertKeeps ==
    ASSUME NEW g, GroupsTypes(g), GroupsInv(g), NEW c \in Adopter, g.pc[c] = "insert",
           NEW e \in Insert(g, c)
    PROVE  GroupsTypes(e) /\ GroupsInv(e)
  <1>1. GroupId(c, Adopted) = AdoptedGroup.id
    BY DEF GroupId, AdoptedGroup
  <1>2. [id |-> GroupId(c, Adopted), name |-> Adopted] = AdoptedGroup
    BY DEF GroupId, AdoptedGroup
  <1>3. PICK more : /\ e = [g EXCEPT !.pc[c] = "again", !.groups = @ \cup more]
                    /\ more = IF HasGroup(g, AdoptedGroup.id) THEN {} ELSE {AdoptedGroup}
    BY <1>1, <1>2 DEF Insert
  <1>4. GroupsTypes(e)
    BY <1>3 DEF GroupsTypes
  <1>5. ASSUME e.edits = 0
        PROVE  g.edits = 0 /\ e.groups \subseteq {AdoptedGroup} /\ e.groups # {}
    <2>1. g.edits = 0 /\ e.groups = g.groups \cup more
      BY <1>3, <1>5 DEF GroupsTypes
    <2>2. g.groups \subseteq {AdoptedGroup}
      BY <2>1 DEF GroupsInv
    <2>3. QED BY <1>3, <2>1, <2>2, FoundIsAdopted
  <1>6. GroupsInv(e)
    <2>1. SUFFICES ASSUME e.edits = 0 PROVE GroupsInv(e)
      BY DEF GroupsInv
    <2>2. g.edits = 0 /\ e.groups \subseteq {AdoptedGroup} /\ e.groups # {}
      BY <1>5, <2>1
    <2>3. e.pc = [g.pc EXCEPT ![c] = "again"] /\ e.found = g.found /\ e.row = g.row /\ e.deleting = g.deleting
      BY <1>3 DEF GroupsTypes
    <2>4. QED BY <2>2, <2>3 DEF GroupsInv, GroupsTypes
  <1>7. QED BY <1>4, <1>6

LEMMA CreateRowKeeps ==
    ASSUME NEW g, GroupsTypes(g), GroupsInv(g), NEW c \in Adopter, g.pc[c] = "create",
           NEW e \in CreateRow(g, c)
    PROVE  GroupsTypes(e) /\ GroupsInv(e)
  <1>1. e = [g EXCEPT !.pc[c] = "done", !.row[c] = g.found[c]]
    BY DEF CreateRow
  <1>2. QED BY <1>1 DEF GroupsTypes, GroupsInv

\* Every step keeps the invariant.
LEMMA GroupStepKeeps ==
    ASSUME NEW g, GroupsTypes(g), GroupsInv(g), NEW e \in GroupSteps(g, MaxEdits)
    PROVE  GroupsTypes(e) /\ GroupsInv(e)
  <1>1. CASE e \in UserEdits(g, MaxEdits)
    BY <1>1, EditsCount DEF GroupsInv
  <1>2. CASE e \in delete_group(g)
    BY <1>2, DeleteGroupKeeps
  <1>3. CASE e \notin UserEdits(g, MaxEdits) /\ e \notin delete_group(g)
    <2>1. PICK c \in DOMAIN g.pc :
              e \in CASE g.pc[c] = "select" -> Select(g, c)
                      [] g.pc[c] = "insert" -> Insert(g, c)
                      [] g.pc[c] = "again" -> SelectAgain(g, c)
                      [] g.pc[c] = "create" -> CreateRow(g, c)
                      [] OTHER -> {}
      BY <1>3 DEF GroupSteps
    <2>2. c \in Adopter
      BY <2>1 DEF GroupsTypes
    <2>3. \/ g.pc[c] = "select" /\ e \in Select(g, c)
          \/ g.pc[c] = "insert" /\ e \in Insert(g, c)
          \/ g.pc[c] = "again" /\ e \in SelectAgain(g, c)
          \/ g.pc[c] = "create" /\ e \in CreateRow(g, c)
      BY <2>1
    <2>4. QED BY <2>2, <2>3, SelectKeeps, InsertKeeps, SelectAgainKeeps, CreateRowKeeps
  <1>4. QED BY <1>1, <1>2, <1>3

\* Adoptions that are over have the one group.
LEMMA GroupsInvSuffices ==
    ASSUME NEW g, GroupsTypes(g), GroupsInv(g)
    PROVE  AdoptedTogether(g)
  <1> SUFFICES ASSUME g.edits = 0
               PROVE  /\ Cardinality(Named(g, Adopted)) <= 1
                      /\ \A c \in DOMAIN g.pc : g.pc[c] # "failed" /\ (g.pc[c] = "done" => HasGroup(g, g.row[c]))
    BY DEF AdoptedTogether
  <1>1. g.groups \subseteq {AdoptedGroup}
    BY DEF GroupsInv
  <1>2. Named(g, Adopted) = g.groups /\ (HasGroup(g, AdoptedGroup.id) <=> g.groups # {})
    BY <1>1, FoundIsAdopted
  <1>3. Cardinality(Named(g, Adopted)) <= 1
    <2>1. g.groups = {} \/ g.groups = {AdoptedGroup}
      BY <1>1
    <2>2. Cardinality({}) = 0 /\ Cardinality({AdoptedGroup}) = 1
      BY FS_EmptySet, FS_Singleton
    <2>3. QED BY <1>2, <2>1, <2>2
  <1>4. ASSUME NEW c \in DOMAIN g.pc
        PROVE  g.pc[c] # "failed" /\ (g.pc[c] = "done" => HasGroup(g, g.row[c]))
    <2>1. c \in Adopter
      BY DEF GroupsTypes
    <2>2. QED BY <2>1, <1>2 DEF GroupsInv
  <1>5. QED BY <1>3, <1>4

\* The invariant of the specification.
GroupsInvariant == algo = "groups" => GroupsTypes(inp) /\ GroupsInv(inp)

\* store.rs:633: any number of adoptions that race end in one group that is there, as long as no
\* user edits the groups.
THEOREM AdoptionsMeet == ReadersSpec => []AdoptedInOneGroup
  <1>1. ReadersInit => GroupsInvariant
    <2> SUFFICES ASSUME ReadersInit, algo = "groups" PROVE GroupsTypes(inp) /\ GroupsInv(inp)
      BY DEF GroupsInvariant
    <2>1. inp = GroupsInit(Adopter)
      BY DEF ReadersInit
    <2>2. GroupsTypes(inp)
      BY <2>1 DEF GroupsInit, GroupsTypes
    <2>3. GroupsInv(inp)
      BY <2>1 DEF GroupsInit, GroupsInv
    <2>4. QED BY <2>2, <2>3
  <1>2. GroupsInvariant /\ [ReadersNext]_readers_vars => GroupsInvariant'
    <2> SUFFICES ASSUME GroupsInvariant, [ReadersNext]_readers_vars, algo' = "groups"
                 PROVE  GroupsTypes(inp') /\ GroupsInv(inp')
      BY DEF GroupsInvariant, GroupsTypes, GroupsInv, AdoptedGroup, GroupId
    <2>1. CASE UNCHANGED readers_vars
      BY <2>1 DEF GroupsInvariant, readers_vars
    <2>2. CASE ReadersNext
      <3>1. algo = "groups" /\ inp' \in GroupSteps(inp, MaxEdits)
        BY <2>2 DEF ReadersNext, RoutingStep, JournalStep, SkillStep, DownloadStep, GroupStep
      <3>2. QED BY <3>1, GroupStepKeeps DEF GroupsInvariant
    <2>3. QED BY <2>1, <2>2
  <1>3. GroupsInvariant => AdoptedInOneGroup
    BY GroupsInvSuffices DEF GroupsInvariant, AdoptedInOneGroup
  <1>4. QED BY <1>1, <1>2, <1>3, PTL DEF ReadersSpec

-----------------------------------------------------------------------------
(* The journal of the workflow runs. *)

\* A summary is written when the run is over.
Summaries == UNION {[status : {"done", "failed"}, agents : [DOMAIN f -> {"done", "failed"}]] : f \in Failures}

\* The rows of a journal.
JournalRow ==
    [kind : {"summary"}, run : WorkflowRun, agent : {""}, data : Summaries]
    \cup [kind : {"run", "meta", "line", "part"}, run : WorkflowRun, agent : Workers \cup {""},
          data : {"", "result", "started"}]

\* What is written is rows of the journal.
LEMMA WritesAreRows ==
    ASSUME NEW r \in WorkflowRun, NEW writes \in Writes(r)
    PROVE  writes \in Seq(JournalRow)
  <1>1. ASSUME NEW row \in JournalRow
        PROVE  <<row>> \in Seq(JournalRow)
    OBVIOUS
  <1>2. ASSUME NEW w \in Workers, writes = mark_agent_done(r, w)
        PROVE  writes \in Seq(JournalRow)
    <2>1. JournalWrite("line", r, w, "result") \in JournalRow
      BY DEF JournalWrite, JournalRow
    <2>2. QED BY <1>1, <1>2, <2>1 DEF mark_agent_done
  <1>3. ASSUME NEW s \in {"done", "failed"}, NEW f \in Failures, writes = write_summary(r, s, f)
        PROVE  writes \in Seq(JournalRow)
    <2> DEFINE agents == [w \in DOMAIN f |-> Outcome(f[w])]
               data0 == [status |-> s, agents |-> agents]
    <2>1. agents \in [DOMAIN f -> {"done", "failed"}]
      BY DEF Outcome
    <2> HIDE DEF agents
    <2>2. data0 \in Summaries
      BY <2>1 DEF Summaries
    <2>3. writes = <<JournalWrite("summary", r, "", data0)>>
      BY <1>3 DEF write_summary, agents
    <2> HIDE DEF data0
    <2>4. JournalWrite("summary", r, "", data0) \in JournalRow
      BY <2>2 DEF JournalWrite, JournalRow
    <2>5. QED BY <1>1, <2>3, <2>4
  <1>4. ASSUME NEW kind \in {"run", "meta", "line", "part"}, NEW w \in Workers \cup {""},
               NEW text \in {"", "result", "started"}, writes = <<JournalWrite(kind, r, w, text)>>
        PROVE  writes \in Seq(JournalRow)
    <2>1. JournalWrite(kind, r, w, text) \in JournalRow
      BY DEF JournalWrite, JournalRow
    <2>2. QED BY <1>1, <1>4, <2>1
  <1>5. ASSUME NEW order \in SetToSeqs(Workers), writes = start_live_run(r, order)
        PROVE  writes \in Seq(JournalRow)
    <2>1. PICK n \in Nat : n = Cardinality(Workers)
      BY JournalAssumption, FS_CardinalityType
    <2>2. order \in [1..n -> Workers]
      BY <2>1 DEF SetToSeqs
    <2>3. JournalWrite("run", r, "", "") \in JournalRow
      BY DEF JournalWrite, JournalRow
    <2>4. \A w \in Workers : JournalWrite("meta", r, w, "") \in JournalRow
      BY DEF JournalWrite, JournalRow
    <2> DEFINE metas == [i \in DOMAIN order |-> JournalWrite("meta", r, order[i], "")]
    <2>5. metas \in [1..n -> JournalRow]
      BY <2>2, <2>4
    <2> HIDE DEF metas
    <2>6. metas \in Seq(JournalRow)
      BY <2>1, <2>5, SeqDef
    <2>7. writes = <<JournalWrite("run", r, "", "")>> \o metas
      BY <1>5 DEF start_live_run, metas
    <2>8. QED BY <1>1, <2>3, <2>6, <2>7, ConcatProperties
  <1>6. \/ \E w \in Workers : writes = mark_agent_done(r, w)
        \/ \E s \in {"done", "failed"} : \E f \in Failures : writes = write_summary(r, s, f)
        \/ \E w \in Workers : writes = <<JournalWrite("meta", r, w, "")>>
        \/ \E w \in Workers : writes = <<JournalWrite("line", r, w, "started")>>
        \/ writes = <<JournalWrite("run", r, "", "")>>
        \/ writes = <<JournalWrite("part", r, "", "")>>
        \/ \E order \in SetToSeqs(Workers) : writes = start_live_run(r, order)
    <2> DEFINE results == {mark_agent_done(r, w) : w \in Workers}
               summaries == UNION {{write_summary(r, s, failed) : failed \in Failures} : s \in {"done", "failed"}}
               metas == {<<JournalWrite("meta", r, w, "")>> : w \in Workers}
               lines == {<<JournalWrite("line", r, w, "started")>> : w \in Workers}
               starts == {start_live_run(r, order) : order \in SetToSeqs(Workers)}
    <2>0. Writes(r) = results \cup summaries \cup metas \cup lines \cup {<<JournalWrite("run", r, "", "")>>}
                      \cup (IF Summary(inp, r) = <<>> THEN {<<JournalWrite("part", r, "", "")>>} ELSE {})
                      \cup (IF r \notin Runs(inp) THEN starts ELSE {})
      BY DEF Writes
    <2> HIDE DEF results, summaries, metas, lines, starts
    <2>1. \/ writes \in results \cup summaries \cup metas \cup lines
          \/ writes \in {<<JournalWrite("run", r, "", "")>>}
          \/ writes \in {<<JournalWrite("part", r, "", "")>>}
          \/ writes \in starts
      BY <2>0
    <2>2. QED BY <2>1 DEF results, summaries, metas, lines, starts
  <1>7. \/ \E w \in Workers : writes = mark_agent_done(r, w)
        \/ \E s \in {"done", "failed"} : \E f \in Failures : writes = write_summary(r, s, f)
        \/ \E order \in SetToSeqs(Workers) : writes = start_live_run(r, order)
        \/ \E kind \in {"run", "meta", "line", "part"}, w \in Workers \cup {""}, text \in {"", "result", "started"} :
               writes = <<JournalWrite(kind, r, w, text)>>
    BY <1>6
  <1>8. QED BY <1>2, <1>3, <1>4, <1>5, <1>7

\* A journal only grows: what was written stays where it is.
LEMMA JournalGrows ==
    ASSUME NEW j \in Seq(JournalRow), NEW writes \in Seq(JournalRow)
    PROVE  /\ j \o writes \in Seq(JournalRow)
           /\ DOMAIN j \subseteq DOMAIN (j \o writes)
           /\ \A i \in DOMAIN j : (j \o writes)[i] = j[i]
  <1>1. PICK m \in Nat, n \in Nat : m = Len(j) /\ n = Len(writes)
    BY LenProperties
  <1>2. /\ j \o writes \in Seq(JournalRow) /\ Len(j \o writes) = m + n
        /\ \A i \in 1..(m + n) : (j \o writes)[i] = IF i <= m THEN j[i] ELSE writes[i - m]
    BY <1>1, ConcatProperties
  <1>3. DOMAIN j = 1..m /\ DOMAIN (j \o writes) = 1..(m + n)
    BY <1>1, <1>2, LenProperties
  <1>4. QED BY <1>2, <1>3

\* The summary the list shows is one that was written, and so it is of a run that is over.
LEMMA SummaryIsWritten ==
    ASSUME NEW j \in Seq(JournalRow), NEW r
    PROVE  /\ Summary(j, r) # <<>> <=> Of(j, "summary", r) # {}
           /\ Summary(j, r) # <<>> => /\ Summary(j, r)[1].status \in Terminal
                                      /\ Summary(j, r)[1].status # "running"
  <1>1. CASE Of(j, "summary", r) = {}
    BY <1>1 DEF Summary
  <1>2. CASE Of(j, "summary", r) # {}
    <2>1. PICK n \in Nat : DOMAIN j = 1..n
      BY LenProperties
    <2>2. Of(j, "summary", r) \subseteq 0..n
      BY <2>1 DEF Of
    <2>3. PICK i : i = Max(Of(j, "summary", r)) /\ i \in Of(j, "summary", r)
      BY <1>2, <2>2, MaxIsGreatest
    <2>4. j[i] \in JournalRow /\ j[i].kind = "summary"
      BY <2>1, <2>3, LenProperties DEF Of
    <2>5. j[i].data.status \in {"done", "failed"}
      <3>1. \A s \in Summaries : s.status \in {"done", "failed"}
        BY DEF Summaries
      <3>2. j[i].data \in Summaries
        BY <2>4 DEF JournalRow
      <3>3. QED BY <3>1, <3>2
    <2>6. Summary(j, r) = <<j[i].data>>
      BY <1>2, <2>3 DEF Summary
    <2>7. Summary(j, r) # <<>> /\ Summary(j, r)[1] = j[i].data
      BY <2>6
    <2>8. QED BY <1>2, <2>5, <2>7 DEF Terminal
  <1>3. QED BY <1>1, <1>2

\* What a run without a summary shows.
LEMMA RunningShows ==
    ASSUME NEW j, NEW r
    PROVE  /\ read_running_run(j, r) # <<>> <=> AgentsOf(j, r) # {}
           /\ AgentsOf(j, r) # {} =>
                 /\ read_running_run(j, r)[1].status = "running"
                 /\ DOMAIN read_running_run(j, r)[1].agents = AgentsOf(j, r)
                 /\ \A w \in AgentsOf(j, r) : read_running_run(j, r)[1].agents[w] = AgentState(j, r, w)
  BY DEF read_running_run

\* More writes keep what the list had.
LEMMA MoreWritesKeepTheList ==
    ASSUME NEW j \in Seq(JournalRow), NEW writes \in Seq(JournalRow)
    PROVE  StillListed(j, j \o writes)
  <1> DEFINE k == j \o writes
  <1>1. /\ k \in Seq(JournalRow) /\ DOMAIN j \subseteq DOMAIN k /\ \A i \in DOMAIN j : k[i] = j[i]
    BY JournalGrows
  <1> HIDE DEF k
  <1>2. \A kind, r : Of(j, kind, r) \subseteq Of(k, kind, r)
    BY <1>1 DEF Of
  <1>3. \A r : AgentsOf(j, r) \subseteq AgentsOf(k, r)
    <2> TAKE r
    <2>1. ASSUME NEW w \in AgentsOf(j, r)
          PROVE  w \in AgentsOf(k, r)
      <3>1. PICK i \in Of(j, "meta", r) \cup Of(j, "line", r) : w = j[i].agent /\ w # ""
        BY DEF AgentsOf
      <3>2. i \in DOMAIN j /\ i \in Of(k, "meta", r) \cup Of(k, "line", r)
        BY <1>2, <3>1 DEF Of
      <3>3. QED BY <1>1, <3>1, <3>2 DEF AgentsOf
    <2>2. QED BY <2>1
  <1>4. \A r, w : AgentState(j, r, w) = "done" => AgentState(k, r, w) = "done"
    <2> TAKE r, w
    <2> HAVE AgentState(j, r, w) = "done"
    <2>1. PICK i \in Of(j, "line", r) : j[i].agent = w /\ j[i].data = "result"
      BY DEF AgentState
    <2>2. i \in Of(k, "line", r) /\ k[i] = j[i]
      BY <1>1, <1>2, <2>1 DEF Of
    <2>3. QED BY <2>1, <2>2 DEF AgentState
  <1>5. \A r : Summary(j, r) # <<>> => Summary(k, r) # <<>>
    BY <1>1, <1>2, SummaryIsWritten
  <1>6. ASSUME NEW r \in Runs(j), Listed(j, r) # <<>>
        PROVE  /\ r \in Runs(k) /\ Listed(k, r) # <<>>
               /\ is_workflow_terminal(Listed(j, r)[1].status) => is_workflow_terminal(Listed(k, r)[1].status)
               /\ Listed(k, r)[1].status = "running" =>
                   \A w \in DOMAIN Listed(j, r)[1].agents :
                      /\ w \in DOMAIN Listed(k, r)[1].agents
                      /\ Listed(j, r)[1].agents[w] = "done" => Listed(k, r)[1].agents[w] = "done"
    <2>1. r \in Runs(k)
      BY <1>1 DEF Runs
    <2>2. CASE Summary(k, r) # <<>>
      <3>1. Listed(k, r) = Summary(k, r)
        BY <2>2 DEF Listed
      <3>2. Listed(k, r) # <<>> /\ is_workflow_terminal(Listed(k, r)[1].status) /\ Listed(k, r)[1].status # "running"
        BY <1>1, <2>2, <3>1, SummaryIsWritten DEF is_workflow_terminal
      <3>3. QED BY <2>1, <3>2
    <2>3. CASE Summary(k, r) = <<>>
      <3>1. Summary(j, r) = <<>>
        BY <1>5, <2>3
      <3>2. Listed(j, r) = read_running_run(j, r) /\ Listed(k, r) = read_running_run(k, r)
        BY <2>3, <3>1 DEF Listed
      <3>3. AgentsOf(j, r) # {} /\ AgentsOf(k, r) # {} /\ Listed(k, r) # <<>>
        BY <1>3, <1>6, <3>2, RunningShows
      <3>4. /\ Listed(j, r)[1].status = "running"
            /\ DOMAIN Listed(j, r)[1].agents = AgentsOf(j, r) /\ DOMAIN Listed(k, r)[1].agents = AgentsOf(k, r)
            /\ \A w \in AgentsOf(j, r) : Listed(j, r)[1].agents[w] = AgentState(j, r, w)
            /\ \A w \in AgentsOf(k, r) : Listed(k, r)[1].agents[w] = AgentState(k, r, w)
        BY <3>2, <3>3, RunningShows
      <3>5. ~is_workflow_terminal(Listed(j, r)[1].status)
        BY <3>4 DEF is_workflow_terminal, Terminal
      <3>6. QED BY <1>3, <1>4, <2>1, <3>3, <3>4, <3>5
    <2>4. QED BY <2>2, <2>3
  <1>7. /\ DOMAIN list_workflows(j) = {x \in Runs(j) : Listed(j, x) # <<>>}
        /\ \A r \in DOMAIN list_workflows(j) : list_workflows(j)[r] = Listed(j, r)[1]
        /\ DOMAIN list_workflows(k) = {x \in Runs(k) : Listed(k, x) # <<>>}
        /\ \A r \in DOMAIN list_workflows(k) : list_workflows(k)[r] = Listed(k, r)[1]
    BY DEF list_workflows
  <1>8. StillListed(j, k)
    BY <1>6, <1>7 DEF StillListed
  <1>9. QED BY <1>8 DEF k

\* The invariant of the specification.
JournalInvariant == algo = "journal" => inp \in Seq(JournalRow)

\* workflows.rs:91, delegate.rs:150: whatever is written to the journal of a run, in whatever order
\* and by whomever, the run stays on the list, its agents too while it runs, and what is
\* finished stays finished.
THEOREM ListKeepsRuns == ReadersSpec => RunsStayListed
  <1>1. ReadersInit => JournalInvariant
    BY DEF ReadersInit, JournalInvariant
  <1>2. JournalInvariant /\ [ReadersNext]_readers_vars => JournalInvariant'
    <2> SUFFICES ASSUME JournalInvariant, [ReadersNext]_readers_vars, algo' = "journal"
                 PROVE  inp' \in Seq(JournalRow)
      BY DEF JournalInvariant, JournalRow, Summaries
    <2>1. CASE UNCHANGED readers_vars
      BY <2>1 DEF JournalInvariant, readers_vars
    <2>2. CASE ReadersNext
      <3>1. algo = "journal" /\ \E r \in WorkflowRun : \E writes \in Writes(r) : inp' = inp \o writes
        BY <2>2 DEF ReadersNext, RoutingStep, JournalStep, SkillStep, DownloadStep, GroupStep
      <3>2. QED BY <3>1, WritesAreRows, JournalGrows DEF JournalInvariant
    <2>3. QED BY <2>1, <2>2
  <1>3. JournalInvariant /\ [ReadersNext]_readers_vars
            => [algo = "journal" => StillListed(inp, inp')]_readers_vars
    <2> SUFFICES ASSUME JournalInvariant, ReadersNext, algo = "journal"
                 PROVE  StillListed(inp, inp')
      OBVIOUS
    <2>1. \E r \in WorkflowRun : \E writes \in Writes(r) : inp' = inp \o writes
      BY DEF ReadersNext, RoutingStep, JournalStep, SkillStep, DownloadStep, GroupStep
    <2>2. PICK r \in WorkflowRun : \E writes \in Writes(r) : inp' = inp \o writes
      BY <2>1
    <2>3. PICK writes \in Writes(r) : inp' = inp \o writes
      BY <2>2
    <2>4. QED BY <2>3, WritesAreRows, MoreWritesKeepTheList DEF JournalInvariant
  <1>4. QED BY <1>1, <1>2, <1>3, PTL DEF ReadersSpec, RunsStayListed

-----------------------------------------------------------------------------
(* The choice of a model. *)

\* A catalog as the router sees it: the values are numbers, a model has a name.
Catalog(cs) ==
    \A i \in DOMAIN cs : /\ cs[i].capability \in Int /\ cs[i].cost \in Int /\ cs[i].priority \in Int
                         /\ cs[i].model # NoModel

\* Some places, not all without end.
Places(D) == D # {} /\ D \subseteq Nat /\ \E n \in Nat : D \subseteq 1..n

\* A strict order has a maximal element in every finite set that is not empty: one with the
\* fewest above it.
LEMMA FiniteMaximal ==
    ASSUME NEW D, Places(D), NEW R,
           \A x \in D : <<x, x>> \notin R,
           \A x, y, z \in D : <<x, y>> \in R /\ <<y, z>> \in R => <<x, z>> \in R
    PROVE  \E x \in D : \A y \in D : <<y, x>> \notin R
  <1> DEFINE Above(x) == {y \in D : <<y, x>> \in R}
             counts == {Cardinality(Above(x)) : x \in D}
  <1>1. IsFiniteSet(D)
    <2>1. PICK n \in Nat : D \in SUBSET (1..n)
      BY DEF Places
    <2>2. IsFiniteSet(1..n)
      BY FS_Interval
    <2>3. QED BY <2>1, <2>2, FS_Subset
  <1>2. \A x \in D : IsFiniteSet(Above(x)) /\ Cardinality(Above(x)) \in Nat
    <2> TAKE x \in D
    <2>1. Above(x) \in SUBSET D
      OBVIOUS
    <2> HIDE DEF Above
    <2>2. QED BY <1>1, <2>1, FS_Subset, FS_CardinalityType
  <1>3. counts # {} /\ counts \subseteq Nat
    <2> HIDE DEF Above
    <2>1. \E x : x \in D
      BY DEF Places
    <2>2. QED BY <1>2, <2>1
  <1>4. PICK c \in counts : \A b \in counts : c <= b
    BY <1>3, LeastExists
  <1>5. PICK x \in D : c = Cardinality(Above(x))
    OBVIOUS
  <1>6. ASSUME NEW y \in D, <<y, x>> \in R
        PROVE  FALSE
    <2>1. Above(y) \in SUBSET Above(x) /\ y \in Above(x) /\ y \notin Above(y)
      BY <1>6
    <2>2. Cardinality(Above(y)) \in counts
      OBVIOUS
    <2> HIDE DEF Above, counts
    <2>3. Cardinality(Above(y)) <= Cardinality(Above(x)) /\ Cardinality(Above(y)) # Cardinality(Above(x))
      BY <1>2, <2>1, FS_Subset
    <2>4. QED BY <1>2, <1>4, <1>5, <1>6, <2>2, <2>3
  <1>7. QED BY <1>6

\* The values two entries are compared by, the weightiest first.
Rank(p, t) == <<p.priority, MainScore(p, t), -p.cost, p.capability, IF is_native(p) THEN 0 ELSE 1>>

\* The lexicographic order.
More(a, b) ==
    \/ a[1] > b[1]
    \/ a[1] = b[1] /\ a[2] > b[2]
    \/ a[1] = b[1] /\ a[2] = b[2] /\ a[3] > b[3]
    \/ a[1] = b[1] /\ a[2] = b[2] /\ a[3] = b[3] /\ a[4] > b[4]
    \/ a[1] = b[1] /\ a[2] = b[2] /\ a[3] = b[3] /\ a[4] = b[4] /\ a[5] > b[5]

\* Neither is more than the other.
Even(a, b) == a[1] = b[1] /\ a[2] = b[2] /\ a[3] = b[3] /\ a[4] = b[4] /\ a[5] = b[5]

\* Scores and ranks are numbers.
LEMMA ScoreIsInt ==
    ASSUME NEW p, NEW t \in Int, p.capability \in Int, p.cost \in Int
    PROVE  MainScore(p, t) \in Int
  BY DEF MainScore, Scale

LEMMA RankIsInt ==
    ASSUME NEW p, NEW t \in Int, p.capability \in Int, p.cost \in Int, p.priority \in Int
    PROVE  Rank(p, t) \in [1..5 -> Int]
  BY ScoreIsInt DEF Rank

\* The order of the code is that one.
LEMMA BetterIsMore ==
    ASSUME NEW p, NEW q, NEW t \in Int,
           p.capability \in Int, p.cost \in Int, p.priority \in Int,
           q.capability \in Int, q.cost \in Int, q.priority \in Int
    PROVE  Better(p, q, t) <=> More(Rank(p, t), Rank(q, t))
  <1>1. PICK a \in [1..5 -> Int], b \in [1..5 -> Int] : a = Rank(p, t) /\ b = Rank(q, t)
    BY RankIsInt
  <1>2. Better(p, q, t) <=> \E k \in 1..5 : a[k] > b[k] /\ \A j \in 1..(k - 1) : a[j] = b[j]
    BY <1>1 DEF Better, Rank
  <1>3. ASSUME NEW k \in 1..5, a[k] > b[k], \A j \in 1..(k - 1) : a[j] = b[j]
        PROVE  More(a, b)
    <2>1. k \in {1, 2, 3, 4, 5}
      OBVIOUS
    <2>2. /\ k > 1 => a[1] = b[1]
          /\ k > 2 => a[2] = b[2]
          /\ k > 3 => a[3] = b[3]
          /\ k > 4 => a[4] = b[4]
      BY <1>3, <2>1
    <2>3. QED BY <1>3, <2>1, <2>2 DEF More
  <1>4. ASSUME More(a, b)
        PROVE  \E k \in 1..5 : a[k] > b[k] /\ \A j \in 1..(k - 1) : a[j] = b[j]
    <2>1. \E k \in 1..5 : /\ a[k] > b[k]
                          /\ k > 1 => a[1] = b[1]
                          /\ k > 2 => a[2] = b[2]
                          /\ k > 3 => a[3] = b[3]
                          /\ k > 4 => a[4] = b[4]
      BY <1>4 DEF More
    <2>2. PICK k \in 1..5 : /\ a[k] > b[k]
                            /\ k > 1 => a[1] = b[1]
                            /\ k > 2 => a[2] = b[2]
                            /\ k > 3 => a[3] = b[3]
                            /\ k > 4 => a[4] = b[4]
      BY <2>1
    <2>3. \A j \in 1..(k - 1) : a[j] = b[j]
      <3> TAKE j \in 1..(k - 1)
      <3>1. j \in {1, 2, 3, 4} /\ j < k
        OBVIOUS
      <3>2. QED BY <2>2, <3>1
    <2>4. QED BY <2>2, <2>3
  <1>5. QED BY <1>1, <1>2, <1>3, <1>4

\* It is a strict order in which two are even or one is more.
LEMMA MoreIsStrict ==
    ASSUME NEW a \in [1..5 -> Int], NEW b \in [1..5 -> Int], NEW c \in [1..5 -> Int]
    PROVE  /\ ~More(a, a)
           /\ More(a, b) \/ More(b, a) \/ Even(a, b)
           /\ ~(More(a, b) /\ More(b, a)) /\ ~(More(a, b) /\ Even(a, b)) /\ ~(More(b, a) /\ Even(a, b))
           /\ More(a, b) /\ More(b, c) => More(a, c)
           /\ More(a, b) /\ Even(b, c) => More(a, c)
           /\ Even(a, b) /\ More(b, c) => More(a, c)
           /\ Even(a, b) /\ Even(b, c) => Even(a, c)
  BY DEF More, Even

\* Of the ablest the last.
LEMMA AblestExists ==
    ASSUME NEW cs, Catalog(cs), Places(DOMAIN cs)
    PROVE  \E i \in DOMAIN cs : \A j \in DOMAIN cs :
               cs[j].capability <= cs[i].capability /\ (j > i => cs[j].capability < cs[i].capability)
  <1> DEFINE D == DOMAIN cs
             R == {x \in D \X D : \/ cs[x[1]].capability > cs[x[2]].capability
                                  \/ cs[x[1]].capability = cs[x[2]].capability /\ x[1] > x[2]}
  <1>1. \A x, y \in D : <<x, y>> \in R <=> \/ cs[x].capability > cs[y].capability
                                           \/ cs[x].capability = cs[y].capability /\ x > y
    OBVIOUS
  <1>2. \A x \in D : cs[x].capability \in Int /\ x \in Nat
    BY DEF Catalog, Places
  <1> HIDE DEF R
  <1>3. \A x \in D : <<x, x>> \notin R
    BY <1>1, <1>2
  <1>4. \A x, y, z \in D : <<x, y>> \in R /\ <<y, z>> \in R => <<x, z>> \in R
    BY <1>1, <1>2
  <1>5. PICK i \in D : \A j \in D : <<j, i>> \notin R
    BY <1>3, <1>4, FiniteMaximal
  <1>6. ASSUME NEW j \in DOMAIN cs
        PROVE  cs[j].capability <= cs[i].capability /\ (j > i => cs[j].capability < cs[i].capability)
    <2>1. ~ \/ cs[j].capability > cs[i].capability
            \/ cs[j].capability = cs[i].capability /\ j > i
      BY <1>1, <1>5
    <2>2. QED BY <1>2, <2>1
  <1>7. QED BY <1>6

\* Of any places one has the highest score.
LEMMA BestScoreExists ==
    ASSUME NEW cs, Catalog(cs), NEW t \in Int, NEW pool, pool \subseteq DOMAIN cs, Places(pool)
    PROVE  \E i \in pool : \A j \in pool : MainScore(cs[i], t) >= MainScore(cs[j], t)
  <1> DEFINE R == {x \in pool \X pool : MainScore(cs[x[1]], t) > MainScore(cs[x[2]], t)}
  <1>1. \A x, y \in pool : <<x, y>> \in R <=> MainScore(cs[x], t) > MainScore(cs[y], t)
    OBVIOUS
  <1>2. \A x \in pool : MainScore(cs[x], t) \in Int
    BY ScoreIsInt DEF Catalog
  <1> HIDE DEF R
  <1>3. \A x \in pool : <<x, x>> \notin R
    BY <1>1, <1>2
  <1>4. \A x, y, z \in pool : <<x, y>> \in R /\ <<y, z>> \in R => <<x, z>> \in R
    BY <1>1, <1>2
  <1>5. PICK i \in pool : \A j \in pool : <<j, i>> \notin R
    BY <1>3, <1>4, FiniteMaximal
  <1>6. ASSUME NEW j \in pool
        PROVE  MainScore(cs[i], t) >= MainScore(cs[j], t)
    <2>1. ~(MainScore(cs[j], t) > MainScore(cs[i], t))
      BY <1>1, <1>5
    <2>2. QED BY <1>2, <2>1
  <1>7. QED BY <1>6

\* Of any places one that no other of them beats, ties going to the earlier.
LEMMA BestOfBandExists ==
    ASSUME NEW cs, Catalog(cs), NEW t \in Int, NEW band, band \subseteq DOMAIN cs, Places(band)
    PROVE  \E i \in band : \A j \in band \ {i} :
               Better(cs[i], cs[j], t) \/ (~Better(cs[j], cs[i], t) /\ i < j)
  <1> DEFINE Beats(i, j) == \/ More(Rank(cs[i], t), Rank(cs[j], t))
                            \/ Even(Rank(cs[i], t), Rank(cs[j], t)) /\ i < j
             R == {x \in band \X band : Beats(x[1], x[2])}
  <1>1. \A x, y \in band : <<x, y>> \in R <=> Beats(x, y)
    OBVIOUS
  <1>2. \A x \in band : Rank(cs[x], t) \in [1..5 -> Int] /\ x \in Nat
    BY RankIsInt DEF Catalog, Places
  <1>3. \A x, y \in band : Better(cs[x], cs[y], t) <=> More(Rank(cs[x], t), Rank(cs[y], t))
    BY BetterIsMore DEF Catalog
  <1>4. \A x \in band : ~Beats(x, x)
    BY <1>2, MoreIsStrict
  <1>5. \A x, y, z \in band : Beats(x, y) /\ Beats(y, z) => Beats(x, z)
    <2> TAKE x, y, z \in band
    <2>1. x \in Nat /\ y \in Nat /\ z \in Nat
      BY <1>2
    <2>2. PICK a \in [1..5 -> Int], b \in [1..5 -> Int], c \in [1..5 -> Int] :
              a = Rank(cs[x], t) /\ b = Rank(cs[y], t) /\ c = Rank(cs[z], t)
      BY <1>2
    <2>3. /\ More(a, b) /\ More(b, c) => More(a, c)
          /\ More(a, b) /\ Even(b, c) => More(a, c)
          /\ Even(a, b) /\ More(b, c) => More(a, c)
          /\ Even(a, b) /\ Even(b, c) => Even(a, c)
      BY MoreIsStrict
    <2>4. QED BY <2>1, <2>2, <2>3
  <1>6. \A x, y \in band : x # y => Beats(x, y) \/ Beats(y, x)
    <2> TAKE x, y \in band
    <2> HAVE x # y
    <2>1. x \in Nat /\ y \in Nat
      BY <1>2
    <2>2. \/ More(Rank(cs[x], t), Rank(cs[y], t)) \/ More(Rank(cs[y], t), Rank(cs[x], t))
          \/ Even(Rank(cs[x], t), Rank(cs[y], t))
      BY <1>2, MoreIsStrict
    <2>3. Even(Rank(cs[x], t), Rank(cs[y], t)) => Even(Rank(cs[y], t), Rank(cs[x], t))
      BY DEF Even
    <2>4. QED BY <2>1, <2>2, <2>3
  <1>7. \A x, y \in band : Beats(x, y) => \/ Better(cs[x], cs[y], t)
                                          \/ ~Better(cs[y], cs[x], t) /\ x < y
    BY <1>2, <1>3, MoreIsStrict
  <1> HIDE DEF Beats, R
  <1>8. PICK i \in band : \A j \in band : <<j, i>> \notin R
    BY <1>1, <1>4, <1>5, FiniteMaximal
  <1>9. QED BY <1>1, <1>6, <1>7, <1>8

\* select_with_floor(): what is chosen is able enough if any is, and near the best of those;
\* else it is the ablest.
LEMMA ChoiceIsSound ==
    ASSUME NEW cs, Catalog(cs), Places(DOMAIN cs), NEW t \in Int, NEW floor
    PROVE  LET i == select_with_floor(floor, cs, t)
               able == {j \in DOMAIN cs : cs[j].capability >= floor}
           IN /\ i \in DOMAIN cs
              /\ able # {} => /\ i \in able
                              /\ \A j \in able : MainScore(cs[i], t) + Margin >= MainScore(cs[j], t)
              /\ able = {} => \A j \in DOMAIN cs : cs[j].capability <= cs[i].capability
  <1>1. PICK top : /\ top = CHOOSE i \in DOMAIN cs : \A j \in DOMAIN cs :
                          cs[j].capability <= cs[i].capability /\ (j > i => cs[j].capability < cs[i].capability)
                   /\ top \in DOMAIN cs /\ \A j \in DOMAIN cs : cs[j].capability <= cs[top].capability
    BY AblestExists
  <1>2. PICK able : able = {j \in DOMAIN cs : cs[j].capability >= floor}
    OBVIOUS
  <1>3. PICK pool : pool = IF able = {} THEN {top} ELSE able
    OBVIOUS
  <1>4. pool \subseteq DOMAIN cs /\ Places(pool)
    BY <1>1, <1>2, <1>3 DEF Places
  <1>5. PICK band : band = {i \in pool : \A j \in pool : MainScore(cs[i], t) + Margin >= MainScore(cs[j], t)}
    OBVIOUS
  <1>6. band \subseteq DOMAIN cs /\ Places(band)
    <2>1. PICK i \in pool : \A j \in pool : MainScore(cs[i], t) >= MainScore(cs[j], t)
      BY <1>4, BestScoreExists
    <2>2. \A j \in pool : MainScore(cs[j], t) \in Int
      BY <1>4, ScoreIsInt DEF Catalog
    <2>3. i \in band
      BY <1>5, <2>1, <2>2 DEF Margin
    <2>4. QED BY <1>4, <1>5, <2>3 DEF Places
  <1>7. select_with_floor(floor, cs, t) =
            CHOOSE i \in band : \A j \in band \ {i} :
                Better(cs[i], cs[j], t) \/ (~Better(cs[j], cs[i], t) /\ i < j)
    BY <1>1, <1>2, <1>3, <1>5 DEF select_with_floor
  <1>8. PICK i : i = select_with_floor(floor, cs, t) /\ i \in band
    BY <1>6, <1>7, BestOfBandExists
  <1>9. i \in pool /\ \A j \in pool : MainScore(cs[i], t) + Margin >= MainScore(cs[j], t)
    BY <1>5, <1>8
  <1>10. QED BY <1>1, <1>2, <1>3, <1>4, <1>8, <1>9

\* An entry has the name of the model of another, as its name or as its model.
Bears(p, q) == q.model \in {p.name, p.model}

\* A model of the catalog resolves to an entry that bears its name.
LEMMA ModelResolves ==
    ASSUME NEW cs, Catalog(cs), Places(DOMAIN cs), NEW i \in DOMAIN cs
    PROVE  /\ resolve_candidate(cs, cs[i].model) \in DOMAIN cs
           /\ Bears(cs[resolve_candidate(cs, cs[i].model)], cs[i])
  <1>1. PICK exact : exact = {j \in DOMAIN cs : cs[i].model # NoModel /\ cs[i].model \in {cs[j].name, cs[j].model}}
    OBVIOUS
  <1>2. i \in exact /\ exact \subseteq Nat
    BY <1>1 DEF Catalog, Places
  <1>3. First(exact) \in exact
    BY <1>2, MinIsLeast DEF First
  <1>4. resolve_candidate(cs, cs[i].model) = First(exact)
    BY <1>1, <1>2 DEF resolve_candidate
  <1>5. QED BY <1>1, <1>3, <1>4 DEF Bears

\* The places of the entries the user has left enabled.
LEMMA CandidatesAre ==
    ASSUME NEW all
    PROVE  /\ DOMAIN candidates(all) = {j \in DOMAIN all : all[j].enabled}
           /\ \A i \in DOMAIN candidates(all) : candidates(all)[i] = all[i]
  BY DEF candidates

\* Such a task runs on a candidate of the name of the only one, or of the choice under the floor.
LEMMA WorkerIsChoice ==
    ASSUME NEW all, NEW t \in Int, NEW reply, Catalog(candidates(all)), Places(DOMAIN candidates(all))
    PROVE  LET cs == candidates(all)
               i == IF Cardinality(DOMAIN cs) = 1 THEN First(DOMAIN cs)
                    ELSE select_with_floor(Floor(cs, reply), cs, t)
           IN /\ i \in DOMAIN cs
              /\ \E j \in DOMAIN cs : /\ WorkerModel(<<NoModel>>, 1, all, t, reply) = <<cs[j]>>
                                      /\ Bears(cs[j], cs[i])
  <1>1. PICK cs : cs = candidates(all)
    OBVIOUS
  <1>2. PICK picks : picks = parse_route_response(reply, {1}, cs)
    OBVIOUS
  <1>3. PICK batch : batch = route_batch(<<NoModel>>, cs, t, reply)
    OBVIOUS
  <1>4. Unpinned(<<NoModel>>) = {1} /\ <<NoModel>>[1] = NoModel
    BY DEF Unpinned
  <1>5. DOMAIN cs # {} /\ DOMAIN cs \subseteq Nat
    BY <1>1 DEF Places
  <1>6. DOMAIN picks \subseteq {1}
    BY <1>2 DEF parse_route_response
  <1>7. ASSUME NEW i \in DOMAIN cs
        PROVE  \E j \in DOMAIN cs : /\ resolve_candidate(cs, cs[i].model) = j
                                    /\ j # 0 /\ Bears(cs[j], cs[i])
    <2>1. 0 \notin DOMAIN cs
      BY <1>1 DEF Places
    <2>2. QED BY <1>1, <1>7, <2>1, ModelResolves
  <1>8. ASSUME NEW i \in DOMAIN cs, 1 \in DOMAIN batch, batch[1] = cs[i].model
        PROVE  \E j \in DOMAIN cs : /\ WorkerModel(<<NoModel>>, 1, all, t, reply) = <<cs[j]>>
                                    /\ Bears(cs[j], cs[i])
    <2>1. PICK j \in DOMAIN cs : resolve_candidate(cs, batch[1]) = j /\ j # 0 /\ Bears(cs[j], cs[i])
      BY <1>7, <1>8
    <2>2. WorkerModel(<<NoModel>>, 1, all, t, reply) = <<cs[j]>>
      BY <1>1, <1>3, <1>4, <1>8, <2>1 DEF WorkerModel
    <2>3. QED BY <2>1, <2>2
  <1>9. CASE Cardinality(DOMAIN cs) = 1
    <2>1. First(DOMAIN cs) \in DOMAIN cs
      BY <1>5, MinIsLeast DEF First
    <2>2. batch = [k \in {1} |-> cs[First(DOMAIN cs)].model]
      BY <1>3, <1>4, <1>5, <1>9 DEF route_batch
    <2>3. QED BY <1>1, <1>8, <1>9, <2>1, <2>2
  <1>10. CASE Cardinality(DOMAIN cs) # 1
    <2>1. PICK i : i = select_with_floor(Floor(cs, reply), cs, t) /\ i \in DOMAIN cs
      BY <1>1, ChoiceIsSound
    <2>2. batch = select_from_picks(picks, cs, t)
      BY <1>2, <1>3, <1>4, <1>5, <1>10 DEF route_batch
    <2>3. CASE 1 \in DOMAIN picks
      <3>1. Floor(cs, reply) = cs[resolve_candidate(cs, picks[1])].capability
        BY <1>2, <2>3 DEF Floor
      <3>2. 1 \in DOMAIN batch /\ batch[1] = cs[i].model
        BY <2>1, <2>2, <2>3, <3>1 DEF select_from_picks
      <3>3. QED BY <1>1, <1>8, <1>10, <2>1, <3>2
    <2>4. CASE 1 \notin DOMAIN picks
      <3>1. Floor(cs, reply) = MidFloor
        BY <1>2, <2>4 DEF Floor
      <3>2. 1 \notin DOMAIN batch
        BY <2>2, <2>4 DEF select_from_picks
      <3>3. PICK j \in DOMAIN cs : resolve_candidate(cs, cs[i].model) = j /\ j # 0 /\ Bears(cs[j], cs[i])
        BY <1>7, <2>1
      <3>4. i = select_with_floor(MidFloor, cs, t)
        BY <2>1, <3>1
      <3>5. WorkerModel(<<NoModel>>, 1, all, t, reply) = <<cs[j]>>
        BY <1>1, <1>3, <1>4, <1>5, <3>2, <3>3, <3>4 DEF WorkerModel
      <3>6. QED BY <1>1, <1>10, <2>1, <3>3, <3>5
    <2>5. QED BY <2>3, <2>4
  <1>11. QED BY <1>9, <1>10

\* The choice is what the property asks for.
LEMMA WorkerIsCapable ==
    ASSUME NEW all, NEW t \in Int, NEW reply, Catalog(candidates(all)),
           DOMAIN candidates(all) # {} => Places(DOMAIN candidates(all))
    PROVE  RoutedWorkerIsCapable(all, t, reply)
  <1> SUFFICES ASSUME Places(DOMAIN candidates(all))
               PROVE  RoutedWorkerIsCapable(all, t, reply)
    BY DEF RoutedWorkerIsCapable
  <1>1. PICK cs : cs = candidates(all)
    OBVIOUS
  <1>2. PICK floor : floor = Floor(cs, reply)
    OBVIOUS
  <1>3. PICK i, j : /\ i = IF Cardinality(DOMAIN cs) = 1 THEN First(DOMAIN cs) ELSE select_with_floor(floor, cs, t)
                    /\ i \in DOMAIN cs /\ j \in DOMAIN cs /\ Bears(cs[j], cs[i])
                    /\ WorkerModel(<<NoModel>>, 1, all, t, reply) = <<cs[j]>>
    BY <1>1, <1>2, WorkerIsChoice
  <1>4. \A k \in DOMAIN cs : MainScore(cs[k], t) \in Int /\ cs[k].capability \in Int
    BY <1>1, ScoreIsInt DEF Catalog
  <1>5. PICK able : able = {k \in DOMAIN cs : cs[k].capability >= floor}
    OBVIOUS
  <1>6. /\ able # {} => i \in able /\ \A k \in able : MainScore(cs[i], t) + Margin >= MainScore(cs[k], t)
        /\ able = {} => \A k \in DOMAIN cs : cs[k].capability <= cs[i].capability
    <2>1. CASE Cardinality(DOMAIN cs) = 1
      <3>1. IsFiniteSet(DOMAIN cs)
        <4>1. PICK n \in Nat : DOMAIN cs \in SUBSET (1..n)
          BY <1>1 DEF Places
        <4>2. IsFiniteSet(1..n)
          BY FS_Interval
        <4>3. QED BY <4>1, <4>2, FS_Subset
      <3>2. DOMAIN cs = {i}
        BY <1>3, <2>1, <3>1, FS_Singleton
      <3>3. QED BY <1>4, <1>5, <3>2 DEF Margin
    <2>2. CASE Cardinality(DOMAIN cs) # 1
      BY <1>1, <1>3, <1>5, <2>2, ChoiceIsSound
    <2>3. QED BY <2>1, <2>2
  <1>7. PICK entries : entries = {cs[k] : k \in DOMAIN cs}
    OBVIOUS
  <1>8. PICK worthy : worthy = {p \in entries : p.capability >= floor}
    OBVIOUS
  <1>9. /\ cs[i] \in entries /\ cs[j] \in entries
        /\ worthy # {} => able # {}
        /\ able # {} => worthy # {}
        /\ i \in able => cs[i] \in worthy
        /\ \A p \in worthy : \E k \in able : p = cs[k]
        /\ \A p \in entries : \E k \in DOMAIN cs : p = cs[k]
    BY <1>3, <1>5, <1>7, <1>8
  <1>10. IsChoice(cs[i], entries, floor, t)
    <2>1. CASE worthy # {}
      <3>1. cs[i] \in worthy /\ \A p \in worthy : MainScore(cs[i], t) + Margin >= MainScore(p, t)
        BY <1>6, <1>9, <2>1
      <3>2. QED BY <1>8, <2>1, <3>1 DEF IsChoice
    <2>2. CASE worthy = {}
      <3>1. \A k \in DOMAIN cs : cs[i].capability >= cs[k].capability
        BY <1>3, <1>4, <1>6, <1>9, <2>2
      <3>2. \A p \in entries : cs[i].capability >= p.capability
        BY <1>9, <3>1
      <3>3. QED BY <1>8, <2>2, <3>2 DEF IsChoice
    <2>3. QED BY <2>1, <2>2
  <1>11. <<cs[j]>> # <<>> /\ <<cs[j]>>[1] = cs[j]
    OBVIOUS
  <1>12. \E p \in entries : IsChoice(p, entries, floor, t) /\ p.model \in {cs[j].name, cs[j].model}
    BY <1>3, <1>9, <1>10 DEF Bears
  <1>13. PICK worker : worker = WorkerModel(<<NoModel>>, 1, all, t, reply)
    OBVIOUS
  <1>14. worker # <<>> /\ worker[1] = cs[j] /\ worker[1] \in entries
    BY <1>3, <1>9, <1>11, <1>13
  <1>15. \E p \in entries : IsChoice(p, entries, floor, t) /\ p.model \in {worker[1].name, worker[1].model}
    BY <1>12, <1>14
  <1>16. /\ entries = {candidates(all)[k] : k \in DOMAIN candidates(all)}
         /\ floor = Floor(candidates(all), reply)
    BY <1>1, <1>2, <1>7
  <1>17. QED BY ONLY <1>13, <1>14, <1>15, <1>16, Zenon DEF RoutedWorkerIsCapable

\* What a routing instance is made of: the entries of the catalog, a tradeoff, an answer.
RoutingValues == (UNION {Offers[i] : i \in DOMAIN Offers}) \cup Tradeoffs \cup Answers

\* Piece by piece an entry for each place, a tradeoff, an answer.
RoutingInput(d) ==
    /\ d \in Seq(RoutingValues) /\ Len(d) <= Len(Offers) + 2
    /\ \A i \in DOMAIN d : /\ i <= Len(Offers) => d[i] \in Offers[i]
                           /\ i = Len(Offers) + 1 => d[i] \in Tradeoffs

\* The invariant of the specification.
RoutingInvariant == algo = "routing" => RoutingInput(inp)

\* Every step adds the next piece.
LEMMA RoutingGrows ==
    ASSUME NEW d, RoutingInput(d), NEW x,
           \/ Len(d) < Len(Offers) /\ x \in Offers[Len(d) + 1]
           \/ Len(d) = Len(Offers) /\ x \in Tradeoffs
           \/ Len(d) = Len(Offers) + 1 /\ x \in Answers
    PROVE  RoutingInput(Append(d, x))
  <1>1. PICK m \in Nat, n \in Nat : m = Len(d) /\ n = Len(Offers) /\ DOMAIN Offers = 1..n
    BY LenProperties, OffersAssumption DEF RoutingInput
  <1>2. m + 1 <= n => m + 1 \in DOMAIN Offers
    BY <1>1
  <1>3. x \in RoutingValues
    BY <1>1, <1>2 DEF RoutingValues
  <1>4. PICK e : e = Append(d, x)
    OBVIOUS
  <1>5. /\ e \in Seq(RoutingValues) /\ Len(e) = m + 1
        /\ \A i \in 1..m : e[i] = d[i]
        /\ e[m + 1] = x
    BY <1>1, <1>3, <1>4, AppendProperties DEF RoutingInput
  <1>6. DOMAIN d = 1..m /\ DOMAIN e = 1..(m + 1)
    BY <1>1, <1>5, LenProperties DEF RoutingInput
  <1>7. Len(e) <= Len(Offers) + 2
    BY <1>1, <1>5
  <1>8. ASSUME NEW i \in DOMAIN e
        PROVE  (i <= n => e[i] \in Offers[i]) /\ (i = n + 1 => e[i] \in Tradeoffs)
    <2>1. CASE i \in 1..m
      BY <1>1, <1>5, <1>6, <2>1 DEF RoutingInput
    <2>2. CASE i = m + 1
      BY <1>1, <1>5, <2>2
    <2>3. QED BY <1>6, <1>8, <2>1, <2>2
  <1>9. QED BY <1>1, <1>4, <1>5, <1>7, <1>8 DEF RoutingInput

\* The enabled entries of such a catalog.
LEMMA OffersAreCatalog ==
    ASSUME NEW d, RoutingInput(d), Len(d) = Len(Offers) + 2, NEW all, all = SubSeq(d, 1, Len(Offers))
    PROVE  /\ Catalog(candidates(all))
           /\ DOMAIN candidates(all) # {} => Places(DOMAIN candidates(all))
  <1>1. PICK n \in Nat : n = Len(Offers) /\ DOMAIN Offers = 1..n
    BY OffersAssumption
  <1>2. DOMAIN d = 1..(n + 2)
    BY <1>1, LenProperties DEF RoutingInput
  <1>3. \A i \in 1..n : d[i] \in RoutingValues /\ d[i] \in Offers[i]
    BY <1>1, <1>2, LenProperties DEF RoutingInput
  <1>4. all \in Seq(RoutingValues) /\ Len(all) = n /\ \A i \in 1..n : all[i] = d[i]
    BY <1>1, <1>3, SubSeqProperties
  <1>5. DOMAIN all = 1..n
    BY <1>4, LenProperties
  <1>6. \A i \in 1..n : all[i] \in Offers[i]
    BY <1>3, <1>4
  <1>7. PICK cs : cs = candidates(all)
    OBVIOUS
  <1>8. DOMAIN cs \subseteq 1..n /\ \A i \in DOMAIN cs : cs[i] = all[i] /\ cs[i] \in Offers[i]
    BY <1>5, <1>6, <1>7, CandidatesAre
  <1>9. \A i \in DOMAIN cs : /\ cs[i].capability \in Int /\ cs[i].cost \in Int /\ cs[i].priority \in Int
                             /\ cs[i].model # NoModel
    BY <1>1, <1>8, OffersAssumption
  <1>10. Catalog(cs)
    BY <1>9 DEF Catalog
  <1>11. DOMAIN cs # {} => Places(DOMAIN cs)
    BY <1>8 DEF Places
  <1>12. QED BY <1>7, <1>10, <1>11

\* router.rs:195, delegate.rs:985: whatever the catalog and its values are, whichever names its
\* entries share, and whatever the router answers, a task that names no model runs on an enabled
\* candidate: on the scorer's choice, as able as was asked for if any is and near the best of
\* those, or on one that bears the name of its model.
THEOREM RoutedTasksAreCapable == ReadersSpec => []RoutedWorker
  <1>1. ReadersInit => RoutingInvariant
    <2> SUFFICES ASSUME ReadersInit, algo = "routing"
                 PROVE  RoutingInput(inp)
      BY DEF RoutingInvariant
    <2>1. inp = <<>>
      BY DEF ReadersInit
    <2>2. inp \in Seq(RoutingValues) /\ Len(inp) = 0 /\ DOMAIN inp = {}
      BY <2>1
    <2>3. QED BY <2>2, OffersAssumption DEF RoutingInput
  <1>2. RoutingInvariant /\ [ReadersNext]_readers_vars => RoutingInvariant'
    <2> SUFFICES ASSUME RoutingInvariant, [ReadersNext]_readers_vars, algo' = "routing"
                 PROVE  RoutingInput(inp')
      BY DEF RoutingInvariant, RoutingInput, RoutingValues
    <2>1. CASE UNCHANGED readers_vars
      BY <2>1 DEF RoutingInvariant, readers_vars
    <2>2. CASE ReadersNext
      <3>1. /\ algo = "routing"
            /\ \/ Len(inp) < Len(Offers) /\ \E p \in Offers[Len(inp) + 1] : inp' = Append(inp, p)
               \/ Len(inp) = Len(Offers) /\ \E t \in Tradeoffs : inp' = Append(inp, t)
               \/ Len(inp) = Len(Offers) + 1 /\ \E r \in Answers : inp' = Append(inp, r)
        BY <2>2 DEF ReadersNext, RoutingStep, JournalStep, SkillStep, DownloadStep, GroupStep
      <3>2. PICK x : /\ inp' = Append(inp, x)
                     /\ \/ Len(inp) < Len(Offers) /\ x \in Offers[Len(inp) + 1]
                        \/ Len(inp) = Len(Offers) /\ x \in Tradeoffs
                        \/ Len(inp) = Len(Offers) + 1 /\ x \in Answers
        BY <3>1
      <3>3. RoutingInput(inp)
        BY <3>1 DEF RoutingInvariant
      <3>4. QED BY <3>2, <3>3, RoutingGrows
    <2>3. QED BY <2>1, <2>2
  <1>3. RoutingInvariant => RoutedWorker
    <2> SUFFICES ASSUME RoutingInput(inp), Len(inp) = Len(Offers) + 2
                 PROVE  RoutedWorkerIsCapable(SubSeq(inp, 1, Len(Offers)), inp[Len(Offers) + 1], inp[Len(Offers) + 2])
      BY DEF RoutingInvariant, RoutedWorker
    <2>1. PICK all : all = SubSeq(inp, 1, Len(Offers))
      OBVIOUS
    <2>2. Catalog(candidates(all)) /\ (DOMAIN candidates(all) # {} => Places(DOMAIN candidates(all)))
      BY <2>1, OffersAreCatalog
    <2>3. inp[Len(Offers) + 1] \in Int
      <3>1. PICK n \in Nat : n = Len(Offers)
        BY OffersAssumption
      <3>2. n + 1 \in DOMAIN inp
        BY <3>1, LenProperties DEF RoutingInput
      <3>3. QED BY <3>1, <3>2, OffersAssumption DEF RoutingInput
    <2>4. QED BY <2>1, <2>2, <2>3, WorkerIsCapable
  <1>4. QED BY <1>1, <1>2, <1>3, PTL DEF ReadersSpec

-----------------------------------------------------------------------------
(* Readers whose input is given at once. *)

\* router.rs:37: whatever providers there are, the router's calls go to one that can answer them,
\* flagged by the user where any is, and to the first such; nowhere when routing is off.
THEOREM RouterCanAnswer ==
    ASSUME NEW registry, NEW n \in Nat, DOMAIN registry = 1..n, NEW off \in BOOLEAN, NEW named
    PROVE  LET place == router_provider(registry, off, named)
               Eligible(i) == registry[i].enabled /\ registry[i].anthropic /\ registry[i].keyed
               flagged == {i \in 1..n : registry[i].router}
           IN  /\ off => place = 0
               /\ place # 0 => /\ place \in 1..n /\ Eligible(place)
                               /\ flagged # {} => place \in flagged
               /\ ~off => \A i \in flagged : Eligible(i) => place # 0 /\ place <= i
  <1>1. PICK asked : asked = {i \in 1..n :
            /\ registry[i].enabled /\ registry[i].anthropic /\ registry[i].keyed
            /\ IF \E j \in 1..n : registry[j].router THEN registry[i].router
               ELSE named # NoModel /\ registry[i].name = named}
    OBVIOUS
  <1>2. router_provider(registry, off, named) = IF off THEN 0 ELSE First(asked)
    BY <1>1 DEF router_provider
  <1>3. asked \subseteq 1..n /\ asked \subseteq Nat
    BY <1>1
  <1>4. IF asked = {} THEN First(asked) = 0
        ELSE First(asked) \in asked /\ \A i \in asked : First(asked) <= i
    BY <1>3, MinIsLeast DEF First
  <1>5. CASE off
    BY <1>2, <1>5
  <1>6. CASE ~off
    <2>1. PICK place : place = router_provider(registry, off, named) /\ place = First(asked)
      BY <1>2, <1>6
    <2>2. place # 0 => asked # {} /\ place \in asked
      BY <1>4, <2>1
    <2>3. \A i \in asked : i # 0 /\ asked # {}
      BY <1>1
    <2>4. \A i \in asked : place # 0 /\ place <= i
      BY <1>4, <2>1, <2>3
    <2>5. \A i \in 1..n : registry[i].router /\ registry[i].enabled /\ registry[i].anthropic /\ registry[i].keyed
                          => i \in asked
      BY <1>1
    <2>6. QED BY <1>1, <1>6, <2>1, <2>2, <2>4, <2>5
  <1>7. QED BY <1>5, <1>6

\* workflows.rs:61: the list of a session reads its own directory wherever it is, and those of
\* the sessions of the same project; never those of another project.
THEOREM SessionsOfAProject ==
    ASSUME NEW slugs, NEW s, s # ""
    PROVE  /\ s \in project_dirs(slugs, "") => s \in project_dirs(slugs, s)
           /\ \A t \in project_dirs(slugs, s) : \E p \in DOMAIN slugs : {s, t} \subseteq slugs[p]
  BY DEF project_dirs

\* store.rs:494, :509: an acknowledgement of an event never hides a later one, and of any two the
\* order does not count.
THEOREM AcksHideNothingLater ==
    ASSUME NEW row, row = [unread |-> row.unread, acked |-> row.acked],
           row.unread \in Nat, row.acked \in Nat, NEW m \in Nat, NEW n \in Nat
    PROVE  /\ ack_event(ack_event(row, m), n) = ack_event(ack_event(row, n), m)
           /\ row.acked <= row.unread /\ n <= row.unread =>
                LET later == ack_event(incr_unread_event_id(row), n) IN later.unread > later.acked
  <1> DEFINE Row(u, a) == [unread |-> u, acked |-> a]
             Larger(a, k) == IF k > a THEN k ELSE a
  <1>1. ASSUME NEW u \in Nat, NEW a \in Nat, NEW k \in Nat
        PROVE  /\ ack_event(Row(u, a), k) = Row(u, Larger(a, k))
               /\ incr_unread_event_id(Row(u, a)) = Row(u + 1, a)
               /\ Larger(a, k) \in Nat
    BY DEF ack_event, incr_unread_event_id
  <1>2. PICK u \in Nat, a \in Nat : row = Row(u, a) /\ u = row.unread /\ a = row.acked
    OBVIOUS
  <1>3. ack_event(ack_event(row, m), n) = ack_event(ack_event(row, n), m)
    <2>1. Larger(Larger(a, m), n) = Larger(Larger(a, n), m)
      OBVIOUS
    <2> HIDE DEF Row, Larger
    <2>2. /\ ack_event(ack_event(row, m), n) = Row(u, Larger(Larger(a, m), n))
          /\ ack_event(ack_event(row, n), m) = Row(u, Larger(Larger(a, n), m))
      BY <1>1, <1>2
    <2>3. QED BY <2>1, <2>2
  <1>4. PICK later : later = ack_event(incr_unread_event_id(row), n)
    OBVIOUS
  <1>5. later = Row(u + 1, Larger(a, n))
    <2>1. u + 1 \in Nat
      OBVIOUS
    <2> HIDE DEF Row, Larger
    <2>2. incr_unread_event_id(row) = Row(u + 1, a)
      BY <1>1, <1>2
    <2>3. ack_event(Row(u + 1, a), n) = Row(u + 1, Larger(a, n))
      BY <1>1, <2>1
    <2>4. QED BY <1>4, <2>2, <2>3
  <1>6. row.acked <= row.unread /\ n <= row.unread => later.unread > later.acked
    BY <1>2, <1>5
  <1>7. QED BY <1>3, <1>4, <1>6

\* The events between two offsets of a log.
LEMMA EventsAre ==
    ASSUME NEW r, NEW a \in Nat, NEW b \in Nat
    PROVE  EventsIn(r, a, b) = {i \in Nat : a <= i /\ i < b /\ r[i + 1] # "delta"}
  BY DEF EventsIn, Minus

\* sessions.rs:137, transcript.rs:369: whatever the log, the offset and the limits, the page before
\* an offset is all events from its start up to that offset, and starts at one; so pages that
\* follow one another neither leave an event out nor show one twice.
THEOREM OlderPagesAreAdjacent ==
    ASSUME NEW r \in Seq({"event", "delta"}), NEW before \in Nat, NEW limit \in Nat, NEW scan \in Nat
    PROVE  LET w == window_filtered_before(r, before, limit, scan)
               b == Less(before, Len(r))
           IN  /\ w.start <= b /\ w.lines = EventsIn(r, w.start, b)
               /\ w.lines # {} => w.start \in w.lines /\ w.start < b
  <1>1. PICK b \in Nat, a \in Nat, k \in Nat :
            b = Less(before, Len(r)) /\ a = Minus(b, scan) /\ k = AtLeastOne(limit) /\ a <= b
    <2>1. PICK m \in Nat : m = Len(r)
      BY LenProperties
    <2>2. PICK b \in Nat : b = Less(before, Len(r))
      BY <2>1 DEF Less
    <2>3. Minus(b, scan) \in Nat /\ Minus(b, scan) <= b /\ AtLeastOne(limit) \in Nat
      BY DEF Minus, AtLeastOne
    <2>4. QED BY <2>2, <2>3
  <1>2. PICK events : events = EventsIn(r, a, b) /\ events = {i \in Nat : a <= i /\ i < b /\ r[i + 1] # "delta"}
    BY EventsAre
  <1>3. PICK found : found = LastOf(events, k)
    OBVIOUS
  <1>4. PICK start : start = IF found = {} THEN b ELSE Min(found)
    OBVIOUS
  <1>5. /\ window_filtered_before(r, before, limit, scan).start = start
        /\ window_filtered_before(r, before, limit, scan).lines = found
    BY <1>1, <1>2, <1>3, <1>4 DEF window_filtered_before
  <1>6. found \subseteq events /\ events \subseteq Nat
    BY <1>2, <1>3 DEF LastOf
  <1>7. CASE found = {}
    <2>1. start = b /\ EventsIn(r, start, b) = {}
      BY <1>4, <1>7, EventsAre
    <2>2. QED BY <1>1, <1>5, <1>7, <2>1
  <1>8. CASE found # {}
    <2>1. start \in found /\ \A i \in found : start <= i
      BY <1>4, <1>6, <1>8, MinIsLeast
    <2>2. start \in Nat /\ a <= start /\ start < b
      BY <1>2, <1>6, <2>1
    <2>3. IsFiniteSet(events)
      <3>1. events \in SUBSET (0..b)
        BY <1>2
      <3>2. IsFiniteSet(0..b)
        BY FS_Interval
      <3>3. QED BY <3>1, <3>2, FS_Subset
    <2>4. ASSUME NEW i \in events, start <= i
          PROVE  i \in found
      <3>1. PICK above : above = {y \in events : y > i}
        OBVIOUS
      <3>2. PICK more : more = {y \in events : y > start}
        OBVIOUS
      <3>3. more \in SUBSET events /\ above \in SUBSET more
        <4>1. \A y \in events : y > i => y > start
          BY <1>6, <2>2, <2>4
        <4>2. QED BY <3>1, <3>2, <4>1
      <3>4. IsFiniteSet(more) /\ IsFiniteSet(above)
        BY <2>3, <3>3, FS_Subset
      <3>5. Cardinality(above) \in Nat /\ Cardinality(more) \in Nat /\ Cardinality(above) <= Cardinality(more)
        BY <3>3, <3>4, FS_CardinalityType, FS_Subset
      <3>6. Cardinality(more) < k
        BY <1>3, <2>1, <3>2 DEF LastOf
      <3>7. Cardinality(above) < k
        BY <3>5, <3>6
      <3>8. QED BY <1>3, <3>1, <3>7 DEF LastOf
    <2>5. found = EventsIn(r, start, b)
      <3>1. EventsIn(r, start, b) = {i \in events : start <= i}
        BY <1>2, <2>2, EventsAre
      <3>2. QED BY <1>6, <2>1, <2>4, <3>1
    <2>6. QED BY <1>1, <1>5, <2>1, <2>2, <2>5
  <1>9. QED BY <1>7, <1>8
=============================================================================
