------------------------------- MODULE HttpApi -------------------------------
(* What the HTTP handlers (src/server-rs/src/api) do beyond calling the engine: pages of a   *)
(* transcript, the checks of a new session, the statuses of errors, and file downloads that *)
(* are resumed, with the file rewritten between and within the requests.                    *)
EXTENDS Naturals, FiniteSets, Sequences, FiniteSetsExt

CONSTANTS TailEvents, MaxScan     \* events of a tail page, lines one page may look at

-----------------------------------------------------------------------------
(* Pages of a transcript: a log is a sequence of "event" and "delta" lines, a page a set of *)
(* offsets, counted from 0, and the offset the next older page ends at.                     *)

Less(a, b) == IF a < b THEN a ELSE b
AtLeastOne(n) == IF n = 0 THEN 1 ELSE n
Minus(a, b) == IF a < b THEN 0 ELSE a - b

EventsIn(r, a, b) == {i \in a..Minus(b, 1) : b > 0 /\ r[i + 1] # "delta"}
FirstOf(S, k) == {x \in S : Cardinality({y \in S : y < x}) < k}
LastOf(S, k) == {x \in S : Cardinality({y \in S : y > x}) < k}

\* The longest suffix within both budgets; its deltas cost lines and no events.
TailStart(r, events, lines) ==
    Min({s \in 0..Len(r) : Len(r) - s <= lines
                           /\ Cardinality(EventsIn(r, s, Len(r))) <= events})

window_tail_events(r, events, lines) ==
    LET s == TailStart(r, events, lines) IN [start |-> s, lines |-> s..Minus(Len(r), 1)]

window_tail_logical_events(r, events, lines) ==
    LET s == TailStart(r, events, lines) IN [start |-> s, lines |-> EventsIn(r, s, Len(r))]

window_filtered_range(r, from, limit, scan) ==
    LET a == Less(from, Len(r))
        found == FirstOf(EventsIn(r, a, Less(a + scan, Len(r))), AtLeastOne(limit))
    IN  [start |-> IF found = {} THEN a ELSE Min(found), lines |-> found]

\* Backwards from an offset; the page starts at its oldest event.
window_filtered_before(r, before, limit, scan) ==
    LET b == Less(before, Len(r))
        found == LastOf(EventsIn(r, Minus(b, scan), b), AtLeastOne(limit))
    IN  [start |-> IF found = {} THEN b ELSE Min(found), lines |-> found]

range(r, before, limit) ==
    LET b == Less(before, Len(r)) IN [start |-> Minus(b, limit), lines |-> {i \in 0..b : i < b /\ i >= Minus(b, limit)}]

\* get_session: lines before an offset, or the tail.
get_session(r, q, limit) ==
    IF q[1] = "before" THEN range(r, q[2], limit) ELSE window_tail_events(r, TailEvents, limit)

\* get_session_events: events only, before, after or around an offset, or the tail.
get_session_events(r, q, limit) ==
    LET w == CASE q[1] = "before" -> window_filtered_before(r, q[2], limit, MaxScan)
               [] q[1] = "after" -> window_filtered_range(r, q[2] + 1, limit, MaxScan)
               [] q[1] = "around" -> window_filtered_range(r, Minus(q[2], limit \div 2), limit, MaxScan)
               [] OTHER -> window_tail_logical_events(r, limit, MaxScan)
    IN  [start |-> w.start, lines |-> w.lines, more |-> w.start > 0, more_after |-> q[1] # "tail"]

\* The pages of a client that starts at the tail and asks for what is before each page; it
\* stops at the start of the log, and where a page does not get it further.
PagesBack(page) ==
    LET tail == page[<<"tail">>]
        Older[b \in 0..tail.start] ==
            IF b = 0 THEN <<>>
            ELSE LET w == page[<<"before", b>>]
                 IN  IF w.start >= b THEN <<w>> ELSE <<w>> \o Older[w.start]
    IN  <<tail>> \o Older[tail.start]

\* Such pages show every offset of S once, newest first, and reach the start of the log.
CoverOnce(pages, S) ==
    /\ UNION {pages[i].lines : i \in DOMAIN pages} = S
    /\ \A i, j \in DOMAIN pages : i < j => \A x \in pages[i].lines, y \in pages[j].lines : x > y
    /\ pages[Len(pages)].start = 0

\* What such a client may ask of a log.
Asked(r) == {<<"tail">>} \cup {<<"before", b>> : b \in 0..Len(r)}

PagesCover(r) ==
    \A limit \in 1..3 :
        /\ CoverOnce(PagesBack([q \in Asked(r) |-> get_session_events(r, q, limit)]), EventsIn(r, 0, Len(r)))
        /\ CoverOnce(PagesBack([q \in Asked(r) |-> get_session(r, q, limit)]), 0..Minus(Len(r), 1))

-----------------------------------------------------------------------------
(* Requests that are refused, and why *)

\* A server definition of a request: a name, and a command or an address ("absent", "blank").
BadServer(def) ==
    \/ def.name \in {"", "agentic"}
    \/ (def.command = "absent") = (def.url = "absent")
    \/ "blank" \in {def.command, def.url}

validate_disjoint(hidden, forced) == hidden \cap forced = {}

\* create_session: what passes goes to submit_session.
create_session(body) ==
    IF \/ body.prompt = ""
       \/ \E def \in body.servers : BadServer(def)
       \/ \E kind \in {"plugins", "skills", "mcp"} :
             ~validate_disjoint(body.hidden[kind], body.forced[kind])
    THEN 400 ELSE 200

engine_error_response(e) ==
    CASE e = "NotFound" -> 404 [] e = "SourceUnhealthy" -> 409
      [] e \in {"Store", "Internal"} -> 500 [] OTHER -> 400

\* The handlers of one session look for its row first; the answer of the engine comes last.
OnSession(found, bad_request, result) ==
    IF ~found THEN 404 ELSE IF bad_request THEN 400
    ELSE IF result = "ok" THEN 200 ELSE engine_error_response(result)

post_message(found, prompt, result) == OnSession(found, prompt = "", result)
permission_route(found, decision) == OnSession(found, decision \notin {"allow", "deny"}, "ok")
rewind_route(found, turn_index, result) == OnSession(found, turn_index = "absent", result)

-----------------------------------------------------------------------------
(* Downloads. A version of the file is a sequence of bytes <<version, i>>; its ETag is the   *)
(* version. The client keeps what it got, and asks for the rest of that version. Rewrites   *)
(* are renames of a new file, as everything here writes files.                              *)

\* If-Range left out of account.
RangeOnly(ask, if_range, etag, len) ==
    IF ask = <<>> THEN <<"full">>
    ELSE IF ask[2] < len THEN <<"slice", ask[2], len - 1>> ELSE <<"unsatisfiable">>

\* A range of the form "from an offset", "the last n" or "from, to"; <<>> where the header
\* is missing or not one of these. A range of another version than if_range (0: any) is the
\* whole file.
parse_range(ask, if_range, etag, len) ==
    IF ask = <<>> \/ if_range \notin {0, etag} \/ (ask[1] = "span" /\ ask[2] > ask[3]) THEN <<"full">>
    ELSE CASE ask[1] = "from" /\ ask[2] < len -> <<"slice", ask[2], len - 1>>
           [] ask[1] = "span" /\ ask[2] < len -> <<"slice", ask[2], Less(ask[3], len - 1)>>
           [] ask[1] = "last" /\ ask[2] > 0 /\ len > 0 -> <<"slice", Minus(len, ask[2]), len - 1>>
           [] OTHER -> <<"unsatisfiable">>

DownloadInit(lens) ==
    [lens |-> lens, version |-> 1, pc |-> "ask", got |-> <<>>, tag |-> 0, outcome |-> <<>>,
     raced |-> FALSE]

Rewrite(d) ==
    IF d.version = Len(d.lens) THEN {}
    ELSE {[d EXCEPT !.version = @ + 1, !.raced = @ \/ d.pc = "open"]}

\* file_route, up to the open: size and tag are those of the file under the name now.
FileStat(d) ==
    LET ask == IF d.got = <<>> THEN <<>> ELSE <<"from", Len(d.got)>>
        outcome == parse_range(ask, d.tag, d.version, d.lens[d.version])
    IN  {IF outcome[1] = "unsatisfiable" THEN [d EXCEPT !.got = <<>>]
         ELSE [d EXCEPT !.pc = "open", !.outcome = outcome,
                   !.tag = IF outcome[1] = "full" THEN d.version ELSE @,
                   !.got = IF outcome[1] = "full" THEN <<>> ELSE @]}

\* file_route, the rest: the bytes are those of the file under the name by then. The
\* connection may break after any of them; all that were announced end the download.
FileSend(d) ==
    LET first == IF d.outcome[1] = "full" THEN 0 ELSE d.outcome[2]
        span == IF d.outcome[1] = "full" THEN d.lens[d.tag] ELSE d.outcome[3] - first + 1
        there == Less(span, Minus(d.lens[d.version], first))
    IN  {[d EXCEPT !.got = @ \o [i \in 1..k |-> <<d.version, first + i>>],
                   !.pc = IF k = span THEN "done" ELSE "ask"] : k \in 0..there}

DownloadSteps(d) ==
    Rewrite(d) \cup CASE d.pc = "ask" -> FileStat(d) [] d.pc = "open" -> FileSend(d) [] OTHER -> {}

\* What was downloaded is the file as it was at one time.
OneVersion(d) ==
    d.pc = "done" => \E v \in 1..d.version : d.got = [i \in 1..d.lens[v] |-> <<v, i>>]

\* The same, unless the file was rewritten between the two looks of one request at it.
OneVersionUnlessRaced(d) == ~d.raced => OneVersion(d)
=============================================================================
