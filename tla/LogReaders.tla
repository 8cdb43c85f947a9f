------------------------------ MODULE LogReaders ------------------------------
(***************************************************************************)
(* What is read out of a session's log and of a message: the search of all *)
(* sessions (search.rs), the messages and the acceptance of a title        *)
(* (title.rs, title_client.rs), the seed of a fork (transcript_filter.rs), *)
(* the decision whether a transcript can be resumed (resume_gate.rs), the  *)
(* kind of an error (classify_error.rs) and the mentions of other sessions *)
(* in a message (mentions.rs).                                             *)
(*                                                                         *)
(* A text is a sequence of characters, of one byte each except those in    *)
(* Wide.  A line of a log is a record [type, text, tool, name, body,        *)
(* model, msgid]: for an assistant line the joined text blocks, its first  *)
(* tool, the name (a file, a pattern, a url) and the body (a command, a    *)
(* content) that was given, the model and whether the id is a server's.    *)
(***************************************************************************)
EXTENDS Integers, Sequences, FiniteSets, SequencesExt, FiniteSetsExt

CONSTANTS
    Wide,           \* characters of three bytes
    SnippetMax,     \* SNIPPET_MAX
    SummaryMax,     \* characters of a command shown as its summary
    DetailMax,      \* characters of a written file that are searched
    MatchCap,       \* PER_SESSION_MATCH_CAP
    RecentMax,      \* RECENT_MESSAGES_MAX
    RecentBytes,    \* RECENT_MESSAGES_MAX_BYTES
    SeedMax,        \* MAX_TRANSCRIPT_CHARS, in bytes
    TitleMax        \* TITLE_MAX_CHARS

ASSUME ReadersAssumption ==
    {SnippetMax, SummaryMax, DetailMax, MatchCap, RecentMax, RecentBytes, SeedMax, TitleMax} \subseteq Nat \ {0}

NamedTools ==
    {"Read", "Edit", "Write", "NotebookEdit", "MultiEdit", "Glob", "Grep", "WebFetch",
     "WebSearch", "TaskCreate", "TaskUpdate", "ToolSearch"}

Bytes(text) == Len(text) + 2 * Cardinality({i \in DOMAIN text : text[i] \in Wide})

Occurs(text, part) ==
    {i \in 1..(Len(text) - Len(part) + 1) : SubSeq(text, i, i + Len(part) - 1) = part}

Has(text, part) == Occurs(text, part) # {}

-----------------------------------------------------------------------------
(* Search. *)

\* derive_tool_summary(): what a call of a known tool is shown by, nothing for another.
derive_tool_summary(l) ==
    CASE l.tool = "Bash"          -> SubSeq(l.body, 1, Min({Len(l.body), SummaryMax}))
      [] l.tool \in NamedTools    -> l.name
      [] OTHER                    -> <<>>

\* derive_tool_detail(): what the call was given.
derive_tool_detail(l) ==
    CASE l.tool \in {"Bash", "Edit", "MultiEdit"} -> l.body
      [] l.tool = "Write" -> SubSeq(l.body, 1, Min({Len(l.body), DetailMax}))
      [] OTHER            -> l.name \o l.body

\* classify_rendered_line(): the field a line is shown under, "" for one not searched.
Field(l) ==
    CASE l.type = "agentic_prompt" -> "Prompt"
      [] l.type = "text_delta"     -> "Notes"
      [] l.type = "result" /\ l.text # <<>> -> "Answer"
      [] l.type = "agent_result"   -> "SpawnResult"
      [] l.type = "agentic_perm"   -> IF l.tool = "plan" THEN "Plan" ELSE "Perm"
      [] l.type = "agentic_file"   -> "Attachment"
      [] l.type = "assistant"      ->
            CASE l.tool = ""                  -> ""
              [] l.tool = "Skill"             -> "Skill"
              [] l.tool = "Workflow"          -> "Workflow"
              [] l.tool = "AskUserQuestion"   -> "Ask"
              [] l.tool \in {"Agent", "Task"} -> "SpawnDesc"
              [] OTHER                        -> "ToolName"
      [] OTHER -> ""

SearchedText(l) ==
    CASE Field(l) = "ToolName" -> derive_tool_summary(l)
      [] Field(l) \in {"Skill", "Workflow", "Ask", "SpawnDesc"} -> l.name
      [] OTHER -> l.text

\* The characters before the first match.
Center(text, query) == Min(Occurs(text, query)) - 1

\* extract_snippet(): the text, or a window of it around the match.
extract_snippet(text, query) ==
    IF Len(text) <= SnippetMax THEN text
    ELSE LET center == IF Has(text, query) THEN Center(text, query) ELSE 0
             start == Max({0, center - SnippetMax \div 2})
             end == Min({start + SnippetMax, Len(text)})
             from == Max({0, end - SnippetMax})
         IN SubSeq(text, from + 1, end)

\* metadata_match() of the fields of a session, in order.
MetaMatches(s, needle) ==
    SelectSeq(<<"Title", "Repo", "Branch", "SessionId", "Status", "Error">>,
              LAMBDA f : Has(s.meta[f], needle))

\* match_tool(): a summary and a detail that match, as far as the cap allows.
match_tool(l, needle, room) ==
    LET found == (IF Has(derive_tool_summary(l), needle) THEN <<"ToolSummary">> ELSE <<>>)
                 \o (IF Has(derive_tool_detail(l), needle) THEN <<"ToolDetail">> ELSE <<>>)
    IN SubSeq(found, 1, Min({Len(found), Max({0, room})}))

\* The matches of a session: its metadata, then the lines of the log until there are enough.
Matches(s, needle) ==
    LET Scan(ms, l) ==
            IF ms.full \/ Field(l) = "" \/ ~Has(SearchedText(l), needle) THEN ms
            ELSE LET one == Append(ms.found, Field(l))
                     all == IF Field(l) = "ToolName"
                            THEN one \o match_tool(l, needle, MatchCap - Len(one)) ELSE one
                 IN [found |-> all, full |-> Len(all) >= MatchCap]
    IN FoldLeft(Scan, [found |-> MetaMatches(s, needle), full |-> FALSE], s.log).found

Tier(fields) ==
    CASE fields \cap {"Prompt", "Title"} # {} -> 0
      [] fields \cap {"Prompt", "Title"} = {}
         /\ fields \cap {"Repo", "Branch", "SessionId", "Status", "Error"} # {} -> 1
      [] OTHER -> 2

\* search(): of the sessions that match the best ones, by tier, matches and recency; a
\* query of one character finds nothing.
search(sessions, needle, limit) ==
    LET hits == {s \in sessions : Len(needle) >= 2 /\ Matches(s, needle) # <<>>}
        Key(s) == <<-Tier(ToSet(Matches(s, needle))), Len(Matches(s, needle)), s.at>>
        Before(s, t) == \E k \in 1..3 : Key(s)[k] > Key(t)[k] /\ \A j \in 1..(k - 1) : Key(s)[j] = Key(t)[j]
        order == SetToSortSeq(hits, Before)
    IN SubSeq(order, 1, Min({Len(order), limit}))

-----------------------------------------------------------------------------
(* Titles. *)

\* is_accepted_generated_title(): short, one line, no markup, and Chinese.
is_accepted_generated_title(t) ==
    /\ t # <<>> /\ Len(t) <= TitleMax
    /\ Head(t) \notin {"#", ">", "backtick"} /\ "newline" \notin ToSet(t)
    /\ ToSet(t) \cap Wide # {}

\* generate(): an answer that is no title, an error and a timeout leave the prompt.
generate(answer, prompt) == IF is_accepted_generated_title(answer) THEN answer ELSE prompt

\* maybe_retitle(): the answer asks for a change, to another title that is acceptable.
maybe_retitle(answer, current) ==
    IF answer.change /\ answer.title # current /\ is_accepted_generated_title(answer.title)
    THEN answer.title ELSE current

\* resolve_auth_from_env() at the start, anthropic_messages() at a call: which token a call
\* is made with; that of the command line's login is read again, as it is rotated.
TokenOfCall(env, loginAtStart, loginNow) ==
    CASE env.bearer # ""                     -> env.bearer
      [] env.bearer = "" /\ env.apikey # "" -> env.apikey
      [] OTHER -> IF loginNow # "" THEN loginNow ELSE loginAtStart

MessagesOf(log) ==
    SelectSeq(log, LAMBDA l : l.type = "agentic_prompt" \/ (l.type = "assistant" /\ l.text # <<>>))

Total(ms) == FoldLeft(LAMBDA n, l : n + Bytes(l.text), 0, ms)

\* parse_recent_messages(): the last messages; of those the older ones dropped, one by
\* one, until the rest is small enough or only one is left.
parse_recent_messages(log) ==
    LET ms == MessagesOf(log)
        tail == SubSeq(ms, Max({1, Len(ms) - RecentMax + 1}), Len(ms))
        fits == {n \in 1..Len(tail) : n = Len(tail) \/ Total(SubSeq(tail, n, Len(tail))) <= RecentBytes}
    IN IF tail = <<>> THEN tail ELSE SubSeq(tail, Min(fits), Len(tail))

count_user_turns(log) == Len(SelectSeq(log, LAMBDA l : l.type = "agentic_prompt"))

-----------------------------------------------------------------------------
(* Resuming, forking, errors. *)

\* extract_model() of the last assistant line that has one.
LastModel(log) ==
    LET said == SelectSeq(log, LAMBDA l : l.type = "assistant" /\ l.model # "") IN
    IF said = <<>> THEN "" ELSE Last(said).model

\* transcript_is_resumable(): a server's message id anywhere; without one a last model
\* that is not Anthropic's.
transcript_is_resumable(log) ==
    (\E i \in DOMAIN log : log[i].msgid) \/ LastModel(log) \notin {"", "claude"}

\* filter_log_to_transcript(): what was said, cut at a character before the cap.
filter_log_to_transcript(log) ==
    LET said == SelectSeq(log, LAMBDA l : l.type \in {"user", "assistant"} /\ l.text # <<>>)
        all == FlattenSeq([i \in DOMAIN said |-> said[i].text])
        keep == Max({n \in 0..Len(all) : Bytes(SubSeq(all, 1, n)) <= SeedMax})
    IN [text |-> SubSeq(all, 1, keep), truncated |-> Bytes(all) > SeedMax]

\* classify_claude_error() of the hints in a text.
classify_claude_error(hints) ==
    CASE "rate" \in hints -> "rate_limited"
      [] "rate" \notin hints /\ "usage" \in hints -> "usage_limit"
      [] OTHER -> "claude_error"

-----------------------------------------------------------------------------
(* Mentions. *)

\* scan_prefixes(): the distinct prefixes of the tokens, in order.  A token has the prefix,
\* and tells whether it stands free of other words.
scan_prefixes(tokens) ==
    LET good == SelectSeq(tokens, LAMBDA t : t.free /\ Len(t.prefix) >= 4)
        IsFirst(i) == \A j \in 1..(i - 1) : good[j].prefix # good[i].prefix
    IN [k \in 1..Cardinality({i \in DOMAIN good : IsFirst(i)}) |->
            good[CHOOSE i \in DOMAIN good :
                     IsFirst(i) /\ Cardinality({j \in 1..i : IsFirst(j)}) = k].prefix]

\* expand_session_mentions(): a block for a prefix of one session, a note for one of
\* several, nothing for one of none.
expand_session_mentions(tokens, ids) ==
    LET prefixes == scan_prefixes(tokens)
        Known(p) == {id \in ids : IsPrefix(p, id)}
    IN SelectSeq([k \in DOMAIN prefixes |-> [prefix |-> prefixes[k], of |-> Known(prefixes[k])]],
                 LAMBDA b : b.of # {})

-----------------------------------------------------------------------------
(* Properties. *)

\* search.rs:514: the snippet of a match shows the match, in a text of wide characters
\* too, when the query is at most half as long as a snippet.
SnippetShows(text, query) ==
    (Has(text, query) /\ Len(query) <= SnippetMax \div 2) =>
        /\ Has(extract_snippet(text, query), query)
        /\ Has(text, extract_snippet(text, query))
        /\ Len(extract_snippet(text, query)) <= Max({SnippetMax, Len(query)})

\* title.rs:55: what a title is made from is the end of the conversation: the most messages
\* that are not too many and not too large, the last one in any case.
RecentIsTail(log) ==
    LET ms == MessagesOf(log)
        got == parse_recent_messages(log)
        Allowed(n) == n <= RecentMax /\ Total(SubSeq(ms, Len(ms) - n + 1, Len(ms))) <= RecentBytes
    IN /\ IsSuffix(got, ms) /\ (got = <<>> <=> ms = <<>>)
       /\ Len(got) > 1 => Allowed(Len(got))
       /\ \A n \in (Len(got) + 1)..Len(ms) : ~Allowed(n)
=============================================================================
