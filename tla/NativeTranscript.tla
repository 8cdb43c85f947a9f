-------------------------- MODULE NativeTranscript --------------------------
(***************************************************************************)
(* The reader of the transcript that claude itself keeps                   *)
(* (transcripts/native_transcript.rs): which lines are a user's prompt,    *)
(* what a line becomes in the rendered log, which transcripts can be       *)
(* adopted.                                                                *)
(*                                                                         *)
(* A line is a record [type, flag, blocks, msg, stop, at, cwd]: flag is    *)
(* TRUE for a meta, sidechain or compact line; blocks is the content of a  *)
(* user line, a sequence of block kinds (a string content is one text      *)
(* block): "text", "blank" (no characters but spaces), "command" (a local  *)
(* command of the UI), "tool" (a tool result), "image" (any other block);  *)
(* msg says whether an assistant line has a message, stop whether its stop *)
(* reason is end_turn, at is the instant and cwd a directory or "".        *)
(***************************************************************************)
EXTENDS Integers, SequencesExt

\* The texts of a user's line, joined and trimmed, begin with the first that is not
\* blank: this decides if it is a command.  "" stands for a line without a prompt.
LOCAL Texts(line) == SelectSeq(line.blocks, LAMBDA b : b \in {"text", "command", "blank"})

user_prompt_text(line) ==
    LET words == SelectSeq(Texts(line), LAMBDA b : b # "blank")
    IN  /\ line.type = "user" /\ ~line.flag
        /\ words # <<>> /\ Head(words) # "command"

\* A user's line that tells that the session is worth adopting: a text that is not a
\* command, or a block that is neither a text nor the output of a tool.
has_real_user_input(lines) ==
    \E i \in DOMAIN lines :
        /\ lines[i].type = "user" /\ ~lines[i].flag
        /\ \E j \in DOMAIN lines[i].blocks : lines[i].blocks[j] \in {"text", "image"}

\* What one line adds to the rendered log.
translate_line(line) ==
    CASE user_prompt_text(line) -> << [type |-> "agentic_prompt", at |-> line.at] >>
      [] line.type = "assistant" /\ line.msg ->
            << [type |-> "assistant", at |-> 0] >>
            \o (IF line.stop THEN << [type |-> "result", at |-> 0] >> ELSE <<>>)
      [] OTHER -> <<>>

translate_lines(native) == FlattenSeq([i \in DOMAIN native |-> translate_line(native[i])])

\* The lines from the watermark on, and the length of the whole file.
translate_range(all, from) ==
    [lines |-> IF from >= Len(all) THEN <<>> ELSE translate_lines(SubSeq(all, from + 1, Len(all))),
     total |-> Len(all)]

\* The newest prompt of the lines read, or 0: the recency of the row follows it.
max_agentic_prompt_at(rendered) ==
    FoldLeft(LAMBDA m, l : IF l.type = "agentic_prompt" /\ l.at > m THEN l.at ELSE m, 0, rendered)

\* The directory a transcript ran in is that of its first line that has one.
LOCAL Cwd(lines) ==
    LET some == SelectSeq(lines, LAMBDA l : l.cwd # "")
    IN  IF some = <<>> THEN "" ELSE Head(some).cwd

\* files: csid -> its lines and time of change.  A transcript is offered unless a row has
\* it, it is empty, it ran in a worktree of the server, or no user spoke in it.
Offered(files, known, own) ==
    { c \in DOMAIN files \ known :
        /\ files[c].lines # <<>>
        /\ Cwd(files[c].lines) \notin own
        /\ has_real_user_input(files[c].lines) }

scan_adoptable(files, known, own) ==
    SortSeq(SetToSeq(Offered(files, known, own)), LAMBDA a, b : files[a].mtime > files[b].mtime)
=============================================================================
