----------------------------- MODULE LiveStream -----------------------------
(***************************************************************************)
(* From the session log to the client: the bytes two writers append to the *)
(* log file, the shared TranscriptCache that projects it to rendered       *)
(* lines, the WebSocket loop that reads the projection at a cursor, and a  *)
(* client that reconnects with the last seq it saw.                        *)
(***************************************************************************)
EXTENDS Naturals, Sequences, FiniteSets

CONSTANTS
    Client,     \* stream clients
    Reader,     \* requests that page through the transcript
    MaxBodies,  \* bound: lines written to the log
    MaxDrops,   \* bound: connections lost
    MaxEnds     \* bound: turns that end

ASSUME StreamAssumption ==
    MaxBodies \in Nat /\ MaxDrops \in Nat /\ MaxEnds \in Nat /\ Client \cap Reader = {}

Task == Client \cup Reader

VARIABLES
    file,       \* the log: the bodies of lines, by kind, and newlines
    appends,    \* append_log calls that wrote the line and not yet its newline
    row,        \* the session: "live", "ended" (a terminal status), "absent"
    ends,       \* how many turns ended
    endmark,    \* how many rendered lines the log held when the last turn ended
    cache,      \* the cached RenderedProjection; Fresh when there is none
    cpc,        \* where handle_socket, or a request, is
    phase,      \* which read it is at: "backfill", "loop", "tail"
    proj,       \* the projection it took out of the cache
    cursor,     \* its cursor: the seq of the last line it sent
    out,        \* the lines of the current read not sent yet
    fr,         \* how many frames of the first of them were sent
    mark,       \* endmark when it read a terminal status
    recv,       \* the frames the client received: <<line, frame number>>
    last,       \* the last seq the client saw
    drops       \* how many connections were lost

logVars  == <<file, appends>>
rowVars  == <<row, ends, endmark>>
connVars == <<cpc, phase, proj, cursor, out, fr, mark>>
vars == <<logVars, rowVars, cache, connVars, recv, last, drops>>

----------------------------------------------------------------------------
(* The log. A line is named by the position of its body in the file.        *)

\* Lines a client never sees, lines of one frame, lines of two frames (an
\* assistant message with a text and a tool_use block).
Frames == [hidden |-> 0, one |-> 1, two |-> 2]
Body == DOMAIN Frames

Bodies == {q \in 1..Len(file) : file[q] \in Body}

\* A body alone between two newlines. Two bodies on one line are not JSON.
IsLine(q) ==
    /\ q \in Bodies
    /\ q > 1 => file[q - 1] = "nl"
    /\ q < Len(file) /\ file[q + 1] = "nl"

\* is_rendered, of a line whose newline is in the file.
IsRendered(q) == IsLine(q) /\ file[q] # "hidden"

Rendered == {q \in Bodies : IsRendered(q)}

\* writeLog of the bridge: line and newline in one write.
BridgeWrites ==
    /\ row # "absent" /\ Cardinality(Bodies) < MaxBodies
    /\ \E b \in Body : file' = file \o <<b, "nl">>
    /\ UNCHANGED <<appends, rowVars, cache, connVars, recv, last, drops>>

\* append_log: writeln! on an unbuffered File writes the line ...
EngineWritesLine ==
    /\ row # "absent" /\ Cardinality(Bodies) < MaxBodies
    /\ file' = Append(file, "one")
    /\ appends' = appends + 1
    /\ UNCHANGED <<rowVars, cache, connVars, recv, last, drops>>

\* ... and then its newline.
EngineWritesNewline ==
    /\ appends > 0 /\ row # "absent"
    /\ file' = Append(file, "nl")
    /\ appends' = appends - 1
    /\ UNCHANGED <<rowVars, cache, connVars, recv, last, drops>>

----------------------------------------------------------------------------
(* The session row, as the stream sees it.                                  *)

\* on_exit, kill or the watchdog write a terminal status.
TurnEnds ==
    /\ row = "live" /\ ends < MaxEnds
    /\ row' = "ended"
    /\ ends' = ends + 1
    /\ endmark' = Cardinality(Rendered)
    /\ UNCHANGED <<logVars, cache, connVars, recv, last, drops>>

\* A follow_up puts the session to work again.
Resumed ==
    /\ row = "ended"
    /\ row' = "live"
    /\ UNCHANGED <<logVars, ends, endmark, cache, connVars, recv, last, drops>>

----------------------------------------------------------------------------
(* The projection and its cache.                                            *)

\* RenderedProjection::new: nothing read, nothing rendered. Its Vec holds the
\* rendered lines in file order, so a set of positions stands for it. The carry
\* is what follows the last newline before `off`.
Fresh == [off |-> 0, rendered |-> {}]

\* A sync that forgets the carry: a line whose body was read earlier is lost.
SyncedNoCarry(p) ==
    [off |-> Len(file),
     rendered |-> p.rendered \cup {q \in Rendered : q > p.off /\ q + 1 <= Len(file)}]

\* RenderedProjection::sync: read [off, EOF) and push the rendered ones among the
\* lines completed there. A removed log changes nothing.
Synced(p) ==
    [off |-> Len(file),
     rendered |-> p.rendered \cup {q \in Rendered : q + 1 > p.off /\ q + 1 <= Len(file)}]

\* The number of a rendered line in the projection: its seq.
Seq1(p, q) == Cardinality({r \in p.rendered : r <= q})

\* slice_from(cursor)
SliceFrom(p, from) == {q \in p.rendered : Seq1(p, q) > from}

\* The LRU budget evicts the entry, when another session's is inserted.
Evict ==
    /\ cache # Fresh
    /\ cache' = Fresh
    /\ UNCHANGED <<logVars, rowVars, connVars, recv, last, drops>>

\* delete_session: the row, its log, and the cached projection.
Delete ==
    /\ row = "ended"
    /\ row' = "absent"
    /\ cache' = Fresh
    /\ UNCHANGED <<logVars, ends, endmark, connVars, recv, last, drops>>

----------------------------------------------------------------------------
(* handle_socket                                                            *)

Goto(c, pc) == cpc' = [cpc EXCEPT ![c] = pc]

Hangup(c) ==
    /\ Goto(c, "off")
    /\ proj' = [proj EXCEPT ![c] = Fresh]
    /\ out' = [out EXCEPT ![c] = {}]
    /\ fr' = [fr EXCEPT ![c] = 0]
    /\ mark' = [mark EXCEPT ![c] = 0]
    /\ phase' = [phase EXCEPT ![c] = "backfill"]
    /\ UNCHANGED cursor

\* The client opens a stream with ?since=<the last seq it saw>; subscribe, hello.
Connect(c) ==
    /\ cpc[c] = "off" /\ row # "absent"
    /\ cursor' = [cursor EXCEPT ![c] = last[c]]
    /\ phase' = [phase EXCEPT ![c] = "backfill"]
    /\ Goto(c, "take")
    /\ UNCHANGED <<logVars, rowVars, cache, proj, out, fr, mark, recv, last, drops>>

\* read_from -> TranscriptCache::with: take the projection out of the map ...
TakeOut(c) ==
    /\ cpc[c] = "take"
    /\ proj' = [proj EXCEPT ![c] = cache]
    /\ cache' = Fresh
    /\ Goto(c, "sync")
    /\ UNCHANGED <<logVars, rowVars, phase, cursor, out, fr, mark, recv, last, drops>>

\* ... read the file without the lock ...
Sync(c) ==
    /\ cpc[c] = "sync"
    /\ proj' = [proj EXCEPT ![c] = IF row = "absent" THEN @ ELSE Synced(@)]
    /\ Goto(c, "insert")
    /\ UNCHANGED <<logVars, rowVars, cache, phase, cursor, out, fr, mark, recv, last, drops>>

\* ... slice at the cursor and put the projection back.
Insert(c) ==
    /\ c \in Client /\ cpc[c] = "insert"
    /\ out' = [out EXCEPT ![c] = SliceFrom(proj[c], cursor[c])]
    /\ cache' = proj[c]
    /\ proj' = [proj EXCEPT ![c] = Fresh]
    /\ Goto(c, "send")
    /\ UNCHANGED <<logVars, rowVars, phase, cursor, fr, mark, recv, last, drops>>

\* GET /api/sessions/:id and /events: the same cache, a page of the lines.
Request(r) ==
    /\ r \in Reader /\ cpc[r] = "off" /\ row # "absent"
    /\ proj' = [proj EXCEPT ![r] = cache]
    /\ cache' = Fresh
    /\ Goto(r, "sync")
    /\ UNCHANGED <<logVars, rowVars, phase, cursor, out, fr, mark, recv, last, drops>>

Respond(r) ==
    /\ r \in Reader /\ cpc[r] = "insert"
    /\ cache' = proj[r]
    /\ proj' = [proj EXCEPT ![r] = Fresh]
    /\ Goto(r, "off")
    /\ UNCHANGED <<logVars, rowVars, phase, cursor, out, fr, mark, recv, last, drops>>

\* A loop that sends without moving its cursor.
SendStuckCursor(c) ==
    \E q \in out[c] :
      /\ cpc[c] = "send"
      /\ \A r \in out[c] : q <= r
      /\ recv' = [recv EXCEPT ![c] = Append(@, <<q, fr[c] + 1>>)]
      /\ last' = [last EXCEPT ![c] = cursor[c] + 1]
      /\ IF fr[c] + 1 = Frames[file[q]]
         THEN /\ fr' = [fr EXCEPT ![c] = 0]
              /\ out' = [out EXCEPT ![c] = @ \ {q}]
         ELSE fr' = [fr EXCEPT ![c] = @ + 1] /\ UNCHANGED out
      /\ UNCHANGED <<logVars, rowVars, cache, cpc, phase, proj, cursor, mark, drops>>

\* send_rendered: the frames of a line, one by one, each with the line's seq.
Send(c) ==
    \E q \in out[c] :
      /\ cpc[c] = "send"
      /\ \A r \in out[c] : q <= r
      /\ recv' = [recv EXCEPT ![c] = Append(@, <<q, fr[c] + 1>>)]
      /\ last' = [last EXCEPT ![c] = cursor[c] + 1]
      /\ IF fr[c] + 1 = Frames[file[q]]
         THEN /\ fr' = [fr EXCEPT ![c] = 0]
              /\ out' = [out EXCEPT ![c] = @ \ {q}]
              /\ cursor' = [cursor EXCEPT ![c] = @ + 1]
         ELSE fr' = [fr EXCEPT ![c] = @ + 1] /\ UNCHANGED <<out, cursor>>
      /\ UNCHANGED <<logVars, rowVars, cache, cpc, phase, proj, mark, drops>>

\* All sent: after the backfill the loop reads, after a read of the loop the
\* status is read, after the tail comes the engineExit frame.
SendDone(c) ==
    /\ cpc[c] = "send" /\ out[c] = {}
    /\ CASE phase[c] = "backfill" -> Goto(c, "take") /\ phase' = [phase EXCEPT ![c] = "loop"]
         [] phase[c] = "loop"     -> Goto(c, "status") /\ UNCHANGED phase
         [] phase[c] = "tail"     -> Goto(c, "exit") /\ UNCHANGED phase
    /\ UNCHANGED <<logVars, rowVars, cache, proj, cursor, out, fr, mark, recv, last, drops>>

\* A turn end that skips the tail read.
StatusNoTail(c) ==
    /\ cpc[c] = "status"
    /\ CASE row = "absent" -> Hangup(c)
         [] row = "live"   -> Goto(c, "wait") /\ UNCHANGED <<phase, proj, cursor, out, fr, mark>>
         [] row = "ended"  -> /\ Goto(c, "exit")
                              /\ mark' = [mark EXCEPT ![c] = endmark]
                              /\ UNCHANGED <<phase, proj, cursor, out, fr>>
    /\ UNCHANGED <<logVars, rowVars, cache, recv, last, drops>>

\* Re-read the status: a terminal one means one more read, the tail.
Status(c) ==
    /\ cpc[c] = "status"
    /\ CASE row = "absent" -> Hangup(c)
         [] row = "live"   -> Goto(c, "wait") /\ UNCHANGED <<phase, proj, cursor, out, fr, mark>>
         [] row = "ended"  -> /\ Goto(c, "take")
                              /\ phase' = [phase EXCEPT ![c] = "tail"]
                              /\ mark' = [mark EXCEPT ![c] = endmark]
                              /\ UNCHANGED <<proj, cursor, out, fr>>
    /\ UNCHANGED <<logVars, rowVars, cache, recv, last, drops>>

\* A heartbeat that is sent without another read.
WakeNoRead(c) ==
    /\ cpc[c] = "wait"
    /\ last' = [last EXCEPT ![c] = cursor[c]]
    /\ IF row = "absent" THEN Hangup(c)
       ELSE Goto(c, "status") /\ UNCHANGED <<phase, proj, cursor, out, fr, mark>>
    /\ UNCHANGED <<logVars, rowVars, cache, recv, drops>>

\* A poke, a live-only frame, an inbound frame or the heartbeat: back to the top
\* of the loop. What is sent on the way carries the cursor as its seq. Deleting
\* the session drops the subscription, which ends the loop.
Wake(c) ==
    /\ cpc[c] = "wait"
    /\ last' = [last EXCEPT ![c] = cursor[c]]
    /\ IF row = "absent" THEN Hangup(c)
       ELSE Goto(c, "take") /\ UNCHANGED <<phase, proj, cursor, out, fr, mark>>
    /\ UNCHANGED <<logVars, rowVars, cache, recv, drops>>

\* engineExit, which carries the cursor too, and close.
Exit(c) ==
    /\ cpc[c] = "exit"
    /\ last' = [last EXCEPT ![c] = cursor[c]]
    /\ Hangup(c)
    /\ UNCHANGED <<logVars, rowVars, cache, recv, drops>>

\* The socket fails, the client goes away, or the idle deadline passes. The
\* handler is dropped at its await, with the projection it took out.
Drop(c) ==
    /\ cpc[c] # "off" /\ drops < MaxDrops
    /\ drops' = drops + 1
    /\ Hangup(c)
    /\ UNCHANGED <<logVars, rowVars, cache, recv, last>>

SocketStep(c) ==
    \/ TakeOut(c) \/ Sync(c) \/ Insert(c) \/ Send(c) \/ SendDone(c)
    \/ Status(c) \/ Wake(c) \/ Exit(c)

Init ==
    /\ file = <<>> /\ appends = 0
    /\ row = "live" /\ ends = 0 /\ endmark = 0
    /\ cache = Fresh
    /\ cpc = [c \in Task |-> "off"]
    /\ phase = [c \in Client |-> "backfill"]
    /\ proj = [c \in Task |-> Fresh]
    /\ cursor = [c \in Client |-> 0]
    /\ out = [c \in Client |-> {}]
    /\ fr = [c \in Client |-> 0]
    /\ mark = [c \in Client |-> 0]
    /\ recv = [c \in Client |-> <<>>]
    /\ last = [c \in Client |-> 0]
    /\ drops = 0

Next ==
    \/ BridgeWrites \/ EngineWritesLine \/ EngineWritesNewline
    \/ TurnEnds \/ Resumed \/ Delete \/ Evict
    \/ \E c \in Client : Connect(c) \/ SocketStep(c) \/ Drop(c)
    \/ \E r \in Reader : Request(r) \/ Sync(r) \/ Respond(r)

Spec == Init /\ [][Next]_vars

\* The socket task runs when it can; the heartbeat interval always ticks.
Fairness == \A c \in Client : WF_vars(SocketStep(c))

FairSpec == Spec /\ Fairness

----------------------------------------------------------------------------
(* Properties *)

IsProjection(p) == p.off \in 0..Len(file) /\ p.rendered \subseteq Bodies

\* Every variable stays in its range.
TypeOK ==
    /\ file \in Seq(Body \cup {"nl"})
    /\ appends \in Nat
    /\ row \in {"live", "ended", "absent"}
    /\ ends \in Nat /\ endmark \in Nat /\ drops \in Nat
    /\ IsProjection(cache)
    /\ cpc \in [Task -> {"off", "take", "sync", "insert", "send", "status", "wait", "exit"}]
    /\ phase \in [Client -> {"backfill", "loop", "tail"}]
    /\ \A t \in Task : IsProjection(proj[t])
    /\ cursor \in [Client -> Nat] /\ last \in [Client -> Nat]
    /\ fr \in [Client -> Nat] /\ mark \in [Client -> Nat]
    /\ \A c \in Client : out[c] \subseteq Bodies
    /\ recv \in [Client -> Seq(Nat \X Nat)]

\* What a projection that read the first n items of the file should hold.
RenderedUpTo(n) == {q \in Rendered : q + 1 <= n}

\* The equivalence invariant of RenderedProjection, for the projection in the
\* cache and for those two callers took out at the same time: it is the filter
\* of the complete lines it has read, however writes and reads interleaved.
ProjectionEquivalent ==
    \A p \in {cache} \cup {proj[c] : c \in Task} : p.rendered = RenderedUpTo(p.off)

\* engineExit is the end of the turn: when it is about to be sent, the client has
\* received every line logged before the status became terminal.
ExitAfterLastLine ==
    \A c \in Client :
        cpc[c] = "exit" /\ row # "absent" => Cardinality({recv[c][i][1] : i \in 1..Len(recv[c])}) >= mark[c]

\* The numbers of a finite set, from the least to the greatest.
InOrder(S) == [k \in 1..Cardinality(S) |-> CHOOSE q \in S : Cardinality({r \in S : r <= q}) = k]

\* Where client c received the first frame of a line.
FirstFrames(c) == {i \in 1..Len(recv[c]) : recv[c][i][2] = 1}

\* The lines client c received.
Received(c) == [k \in 1..Cardinality(FirstFrames(c)) |-> recv[c][InOrder(FirstFrames(c))[k]][1]]

\* A connected client receives every line sooner or later: the heartbeat makes
\* up for the appends that poke nobody.
LinesArrive ==
    \A c \in Client, n \in 1..MaxBodies :
        (cpc[c] # "off" /\ Cardinality(Rendered) >= n)
            ~> (Len(Received(c)) >= n \/ cpc[c] = "off" \/ row = "absent")

\* stream.rs: the seq of each frame lets a client resume gap-free. Frame by frame,
\* what it received is every frame of the lines before its last seq.
ResumeIsGapFree ==
    \A c \in Client : cpc[c] = "off" =>
        \A i \in 1..Len(recv[c]) :
            LET q == recv[c][i][1] IN
            \A k \in 1..Frames[file[q]] :
                \/ \E j \in 1..Len(recv[c]) : recv[c][j] = <<q, k>>
                \/ last[c] = 0

=============================================================================
