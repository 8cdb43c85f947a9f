----------------------------- MODULE ConfigFiles -----------------------------
(***************************************************************************)
(* The files the server shares with the claude command line and with hand  *)
(* editing: settings.json and settings.local.json (global_settings.rs),    *)
(* .claude.json (user_config.rs), the providers file (providers.rs), the   *)
(* overrides of the native models (native_overrides.rs); and the LiteLLM   *)
(* proxy that runs from the providers file (litellm.rs).                   *)
(*                                                                         *)
(* One plugin, one MCP server, one openai provider and one model family.   *)
(* Every file has a lock of the process; whoever edits a file outside the  *)
(* server does not know it.  A file that is missing reads as an empty one. *)
(***************************************************************************)
EXTENDS Integers, FiniteSets

CONSTANTS
    Api,            \* concurrent requests
    MaxCalls,       \* bound on requests
    MaxOutside,     \* bound on edits from outside
    MaxFaults       \* bound on failed writes and ends of the proxy

ASSUME ConfigAssumption ==
    MaxCalls \in Nat /\ MaxOutside \in Nat /\ MaxFaults \in Nat

File == {"local", "claude", "providers", "overrides"}
Toggle == {"unset", "on", "off"}
\* A definition is known by the number of the edit that brought it; 0: none.
Definition == 0..(MaxCalls + MaxOutside)

VARIABLES
    base,       \* the plugin in settings.json
    parses,     \* of a file: it holds what the server can read
    data,       \* of a file: what it holds
    pc, op, stamp,  \* of a request: its place, what it asks, its number
    value,      \* what it decided before it took the lock
    copy,       \* what it read from the file
    proxy, serving, permit,   \* the supervisor's place, the providers it built from, the Notify
    calls, outside, faults,
    wished,     \* the last toggle that succeeded, "unset" if the plugin was edited from outside since
    newest,     \* the newest definition of the server, 0 once deleted
    overtaken,  \* requests under way when the plugin was edited from outside
    unnoticed,  \* the providers file was edited from outside since the supervisor read it
    clobbered   \* files the server wrote over although it could not read them

api_vars == <<pc, op, stamp, value, copy>>
proxy_vars == <<proxy, serving, permit>>
bound_vars == <<calls, outside, faults>>
history == <<wished, newest, overtaken, unnoticed, clobbered>>
vars == <<base, parses, data, api_vars, proxy_vars, bound_vars, history>>

Data == [plugin : Toggle, live : Definition, parked : Definition,
         provider : Definition, override : Definition]

TypeOK ==
    /\ base \in Toggle /\ parses \in [File -> BOOLEAN] /\ data \in Data
    /\ pc \in [Api -> {"idle", "lock", "write", "notify"}]
    /\ op \in [Api -> {"none", "on", "off", "add", "delete", "enable", "disable",
                       "save", "remove", "override", "reset"}]
    /\ stamp \in [Api -> Definition] /\ value \in [Api -> Toggle] /\ copy \in [Api -> Data]
    /\ proxy \in {"build", "waiting", "running", "backoff"} /\ serving \in Definition
    /\ permit \in BOOLEAN
    /\ calls \in 0..MaxCalls /\ outside \in 0..MaxOutside /\ faults \in 0..MaxFaults
    /\ wished \in Toggle /\ newest \in Definition /\ clobbered \subseteq File
    /\ overtaken \subseteq Api /\ unnoticed \in BOOLEAN

Empty == [plugin |-> "unset", live |-> 0, parked |-> 0, provider |-> 0, override |-> 0]

Init ==
    /\ base = "unset" /\ parses = [f \in File |-> TRUE] /\ data = Empty
    /\ pc = [a \in Api |-> "idle"] /\ op = [a \in Api |-> "none"]
    /\ stamp = [a \in Api |-> 0] /\ value = [a \in Api |-> "unset"]
    /\ copy = [a \in Api |-> Empty]
    /\ proxy = "build" /\ serving = 0 /\ permit = FALSE
    /\ calls = 0 /\ outside = 0 /\ faults = 0
    /\ wished = "unset" /\ newest = 0 /\ clobbered = {}
    /\ overtaken = {} /\ unnoticed = FALSE

FileOf(o) ==
    CASE o \in {"on", "off"} -> "local"
      [] o \in {"add", "delete", "enable", "disable"} -> "claude"
      [] o \in {"save", "remove"} -> "providers"
      [] o \in {"override", "reset"} -> "overrides"

\* read_global_toggles(): the local file over the base file, on by default.
PluginEnabled ==
    LET local == IF parses["local"] THEN data.plugin ELSE "unset" IN
    (IF local # "unset" THEN local ELSE base) # "off"

-----------------------------------------------------------------------------
(* A request. *)

\* An enable that always drops the local key.
ToggleDropped(on) == IF on THEN "unset" ELSE "off"

\* set_plugin_enabled(): on is the absence of a key, unless settings.json says off.
ToggleValue(on) == IF ~on THEN "off" ELSE IF base = "off" THEN "on" ELSE "unset"

\* The handler up to the lock of the file: the base file is read before it.
Begin(a, o) ==
    /\ pc[a] = "idle" /\ calls < MaxCalls /\ calls' = calls + 1
    /\ pc' = [pc EXCEPT ![a] = "lock"] /\ op' = [op EXCEPT ![a] = o]
    /\ stamp' = [stamp EXCEPT ![a] = IF o \in {"add", "save", "override"} THEN calls + outside + 1 ELSE 0]
    /\ value' = [value EXCEPT ![a] = IF o \in {"on", "off"} THEN ToggleValue(o = "on") ELSE "unset"]
    /\ overtaken' = overtaken \ {a}
    /\ UNCHANGED <<base, parses, data, copy, proxy_vars, outside, faults, wished, newest,
                   unnoticed, clobbered>>

Locked(f) == \E a \in Api : pc[a] = "write" /\ FileOf(op[a]) = f

Done(a) ==
    /\ pc' = [pc EXCEPT ![a] = "idle"] /\ op' = [op EXCEPT ![a] = "none"]
    /\ stamp' = [stamp EXCEPT ![a] = 0] /\ value' = [value EXCEPT ![a] = "unset"]
    /\ copy' = [copy EXCEPT ![a] = Empty]

\* The data with the keys of one file taken from another.
WithFile(f, d, e) ==
    CASE f = "local"     -> [d EXCEPT !.plugin = e.plugin]
      [] f = "claude"    -> [d EXCEPT !.live = e.live, !.parked = e.parked]
      [] f = "providers" -> [d EXCEPT !.provider = e.provider]
      [] f = "overrides" -> [d EXCEPT !.override = e.override]

\* A read that takes a file it cannot parse for an empty one.
ReadLossy(a) ==
    /\ pc[a] = "lock" /\ ~Locked(FileOf(op[a]))
    /\ pc' = [pc EXCEPT ![a] = "write"]
    /\ copy' = [copy EXCEPT ![a] = IF parses[FileOf(op[a])] THEN WithFile(FileOf(op[a]), Empty, data) ELSE Empty]
    /\ UNCHANGED <<base, parses, data, op, stamp, value, proxy_vars, bound_vars, history>>

\* Under the lock the file is read; one that cannot be parsed ends the request.
Read(a) ==
    /\ pc[a] = "lock" /\ ~Locked(FileOf(op[a]))
    /\ IF parses[FileOf(op[a])]
       THEN /\ pc' = [pc EXCEPT ![a] = "write"] /\ copy' = [copy EXCEPT ![a] = WithFile(FileOf(op[a]), Empty, data)]
            /\ UNCHANGED <<op, stamp, value>>
       ELSE Done(a)
    /\ UNCHANGED <<base, parses, data, proxy_vars, bound_vars, history>>

\* A move that leaves a server that is on the target side already where it is, and drops
\* what it took from the source side.
MovedNaively(d, enable) ==
    IF enable
    THEN [d EXCEPT !.parked = 0, !.live = IF @ = 0 THEN d.parked ELSE @]
    ELSE [d EXCEPT !.live = 0, !.parked = IF @ = 0 THEN d.live ELSE @]

\* set_mcp_server_enabled(): the live definition is authoritative on both ways.
Moved(d, enable) ==
    IF enable
    THEN [d EXCEPT !.parked = 0, !.live = IF @ = 0 THEN d.parked ELSE @]
    ELSE IF d.live = 0 THEN d ELSE [d EXCEPT !.live = 0, !.parked = d.live]

\* The file after the request: add_mcp_server(), delete_mcp_server(), upsert_at(),
\* remove_at() and the toggles, on what was read.
Edited(a) ==
    LET d == copy[a] IN
    CASE op[a] \in {"on", "off"} -> [d EXCEPT !.plugin = value[a]]
      [] op[a] = "add"      -> [d EXCEPT !.live = stamp[a], !.parked = 0]
      [] op[a] = "delete"   -> [d EXCEPT !.live = 0, !.parked = 0]
      [] op[a] = "enable"   -> Moved(d, TRUE)
      [] op[a] = "disable"  -> Moved(d, FALSE)
      [] op[a] = "save"     -> [d EXCEPT !.provider = stamp[a]]
      [] op[a] = "remove"   -> [d EXCEPT !.provider = 0]
      [] op[a] = "override" -> [d EXCEPT !.override = stamp[a]]
      [] op[a] = "reset"    -> [d EXCEPT !.override = 0]

\* The new content replaces the file by a rename, and the lock is released.
Write(a) ==
    LET f == FileOf(op[a]) IN
    /\ pc[a] = "write"
    /\ data' = WithFile(f, data, Edited(a)) /\ parses' = [parses EXCEPT ![f] = TRUE]
    /\ clobbered' = IF parses[f] THEN clobbered ELSE clobbered \cup {f}
    /\ wished' = CASE f # "local" -> wished
                   [] a \in overtaken -> "unset"
                   [] OTHER -> op[a]
    /\ newest' = CASE op[a] = "add" -> stamp[a]
                   [] op[a] = "delete" -> 0
                   [] OTHER -> newest
    /\ IF f = "providers"
       THEN pc' = [pc EXCEPT ![a] = "notify"] /\ UNCHANGED <<op, stamp, value, copy>>
       ELSE Done(a)
    /\ UNCHANGED <<base, proxy_vars, bound_vars, overtaken, unnoticed>>

\* The backup, the temporary file or the rename fails: the file is as it was.
WriteFails(a) ==
    /\ pc[a] = "write" /\ faults < MaxFaults /\ faults' = faults + 1 /\ Done(a)
    /\ UNCHANGED <<base, parses, data, proxy_vars, calls, outside, history>>

\* providers_post(), providers_delete(): request_reload() after the file was written.
Notify(a) ==
    /\ pc[a] = "notify" /\ permit' = TRUE /\ Done(a)
    /\ UNCHANGED <<base, parses, data, proxy, serving, bound_vars, history>>

-----------------------------------------------------------------------------
(* The supervisor of the proxy. *)

OnFile == IF parses["providers"] THEN data.provider ELSE 0

\* build_config() reads the file; without a provider the supervisor waits, with one it
\* starts the proxy.
Build ==
    /\ proxy = "build"
    /\ serving' = OnFile
    /\ proxy' = IF serving' = 0 THEN "waiting" ELSE "running"
    /\ unnoticed' = FALSE
    /\ UNCHANGED <<base, parses, data, api_vars, permit, bound_vars, wished, newest, overtaken,
                   clobbered>>

\* A reload that starts the proxy again with the configuration it had.
ReloadSameConfig ==
    /\ proxy \in {"waiting", "running"} /\ permit
    /\ permit' = FALSE /\ UNCHANGED proxy
    /\ UNCHANGED <<base, parses, data, api_vars, serving, bound_vars, history>>

\* notified(): takes the permit and starts over, the running proxy is killed.
Reload ==
    /\ proxy \in {"waiting", "running"} /\ permit
    /\ permit' = FALSE /\ proxy' = "build"
    /\ UNCHANGED <<base, parses, data, api_vars, serving, bound_vars, history>>

\* The proxy ends, or could not be started: a pause, then it starts over.
ProxyEnds ==
    /\ proxy = "running" /\ faults < MaxFaults /\ faults' = faults + 1
    /\ proxy' = "backoff"
    /\ UNCHANGED <<base, parses, data, api_vars, serving, permit, calls, outside, history>>

BackoffOver ==
    /\ proxy = "backoff" /\ proxy' = "build"
    /\ UNCHANGED <<base, parses, data, api_vars, serving, permit, bound_vars, history>>

-----------------------------------------------------------------------------
(* Edits from outside, and the restart of the server. *)

Toggling == {a \in Api : op[a] \in {"on", "off"}}

Outside == outside < MaxOutside /\ outside' = outside + 1 /\ UNCHANGED <<calls, faults>>

\* An edit of settings.json or settings.local.json.
OutsideToggle ==
    /\ Outside /\ wished' = "unset" /\ overtaken' = Toggling
    /\ \E t \in Toggle : \/ base' = t /\ UNCHANGED data
                         \/ data' = [data EXCEPT !.plugin = t] /\ UNCHANGED base
    /\ UNCHANGED <<parses, api_vars, proxy_vars, newest, unnoticed, clobbered>>

\* `claude mcp add` writes mcpServers and knows nothing of the parked ones.  It does not
\* take the lock either; the loss of an edit to that race is accepted (user_config.rs:5)
\* and left out.
OutsideAdd ==
    /\ Outside /\ ~Locked("claude") /\ parses["claude"]
    /\ data' = [data EXCEPT !.live = calls + outside + 1] /\ newest' = calls + outside + 1
    /\ UNCHANGED <<base, parses, api_vars, proxy_vars, wished, overtaken, unnoticed, clobbered>>

\* Somebody leaves a file half edited, or completes it.
OutsideBreak(f) ==
    /\ Outside /\ ~Locked(f) /\ parses' = [parses EXCEPT ![f] = ~@]
    /\ IF f = "local" THEN wished' = "unset" /\ overtaken' = Toggling ELSE UNCHANGED <<wished, overtaken>>
    /\ unnoticed' = (unnoticed \/ f = "providers")
    /\ UNCHANGED <<base, data, api_vars, proxy_vars, newest, clobbered>>

\* The requests end where they are; the supervisor starts anew.
Restart ==
    /\ faults < MaxFaults /\ faults' = faults + 1
    /\ pc' = [a \in Api |-> "idle"] /\ op' = [a \in Api |-> "none"]
    /\ stamp' = [a \in Api |-> 0] /\ value' = [a \in Api |-> "unset"]
    /\ copy' = [a \in Api |-> Empty]
    /\ proxy' = "build" /\ serving' = 0 /\ permit' = FALSE
    /\ UNCHANGED <<base, parses, data, calls, outside, history>>

Next ==
    \/ \E a \in Api :
        \/ \E o \in {"on", "off", "add", "delete", "enable", "disable", "save", "remove",
                     "override", "reset"} : Begin(a, o)
        \/ Read(a) \/ Write(a) \/ WriteFails(a) \/ Notify(a)
    \/ Build \/ Reload \/ ProxyEnds \/ BackoffOver
    \/ OutsideToggle \/ OutsideAdd \/ \E f \in File : OutsideBreak(f)
    \/ Restart

Spec == Init /\ [][Next]_vars

-----------------------------------------------------------------------------
(* Properties. *)

\* providers.rs:566, global_settings.rs:82, user_config.rs:22: a file the server could not
\* read is never written over, whatever the request that meets it.
UnreadableKept == clobbered = {}

\* global_settings.rs:183: once a toggle succeeded, the plugin is in the state asked for,
\* whatever settings.json says, until somebody edits the settings outside the server.
ToggleHolds ==
    wished # "unset" => (PluginEnabled <=> wished = "on")

\* user_config.rs:226: enabling and disabling never lose the newest definition of a
\* server, with copies on both sides, a failed write or a restart at any point.
DefinitionSurvives ==
    newest # 0 /\ parses["claude"] => newest \in {data.live, data.parked}

\* litellm.rs:125: a supervisor that waits runs the proxy for the providers on file, or
\* has been told, or will be told by the request that wrote them.  It is not told of edits
\* from outside.
ReloadNotLost ==
    proxy \in {"waiting", "running"} /\ serving # OnFile /\ ~unnoticed =>
        permit \/ \E a \in Api : pc[a] = "notify"
=============================================================================
