------------------------------- MODULE DiffView -------------------------------
(***************************************************************************)
(* The structured diffs of the client's review screen (structured_diff.rs) *)
(* from the text git prints: the changed files of a commit, the hunks of   *)
(* one file, the commit graph.                                             *)
(*                                                                         *)
(* A line of git's text is a record [k, ...] of one of the kinds           *)
(*   "added" "deleted" "renamed" "binary"   the lines before the hunks     *)
(*   "head"    a hunk header, with old, oldn, new, newn                    *)
(*   "+" "-" " "   a line of a hunk;   "\\"  no newline at end of file      *)
(*   "other"   any other line                                              *)
(***************************************************************************)
EXTENDS Integers, Sequences, FiniteSets, SequencesExt, FiniteSetsExt, Functions

CONSTANT MaxDiffLines       \* the lines of a text of MAX_DIFF_BYTES

ASSUME DiffAssumption == MaxDiffLines \in Nat

-----------------------------------------------------------------------------
(* One file. *)

\* cap_diff(): the whole lines before the cap.
cap_diff(raw) == SubSeq(raw, 1, IF Len(raw) <= MaxDiffLines THEN Len(raw) ELSE MaxDiffLines)

Truncated(raw) == Len(raw) > MaxDiffLines

StatusOf(k) == CASE k = "added" -> "Added" [] k = "deleted" -> "Deleted" [] k = "renamed" -> "Renamed"

\* parse_file_diff() of one line: a header opens a hunk and sets both counters, a line of a
\* hunk takes the number of its sides and advances them; 0 is a side it does not have.
Step(s, l) ==
    CASE l.k \in {"added", "deleted", "renamed"} -> [s EXCEPT !.status = StatusOf(l.k)]
      [] l.k = "binary" -> [s EXCEPT !.binary = TRUE]
      [] l.k = "head" -> [s EXCEPT !.hunks = Append(@, [head |-> l, lines |-> <<>>]),
                                   !.old = l.old, !.new = l.new]
      [] l.k \in {"+", "-", " "} /\ s.hunks # <<>> ->
            [s EXCEPT !.hunks[Len(s.hunks)].lines =
                          Append(@, [k |-> l.k, old |-> IF l.k = "+" THEN 0 ELSE s.old,
                                                new |-> IF l.k = "-" THEN 0 ELSE s.new]),
                      !.old = IF l.k = "+" THEN @ ELSE @ + 1,
                      !.new = IF l.k = "-" THEN @ ELSE @ + 1]
      [] OTHER -> s

\* parse_file_diff().
parse_file_diff(raw) ==
    LET end == FoldLeft(Step, [status |-> "Modified", binary |-> FALSE, hunks |-> <<>>,
                               old |-> 0, new |-> 0], cap_diff(raw))
    IN [status |-> end.status, binary |-> end.binary, truncated |-> Truncated(raw),
        hunks |-> end.hunks]

\* untracked_file_diff(): a file git does not know is all additions; n its lines.
untracked_file_diff(n, binary) ==
    LET shown == IF n <= MaxDiffLines THEN n ELSE MaxDiffLines IN
    [status |-> "Added", binary |-> binary, truncated |-> ~binary /\ n > MaxDiffLines,
     hunks |-> IF binary \/ n = 0 THEN <<>>
               ELSE <<[head |-> [k |-> "head", old |-> 0, oldn |-> 0, new |-> 1, newn |-> shown],
                       lines |-> [i \in 1..shown |-> [k |-> "+", old |-> 0, new |-> i]]]>>]

\* commit_diff_for_repo(): the file is untracked only in the working tree; a git that fails
\* or takes too long prints nothing.
commit_diff_for_repo(sha, untracked, n, binary, raw) ==
    IF sha = "working" /\ untracked THEN untracked_file_diff(n, binary) ELSE parse_file_diff(raw)

-----------------------------------------------------------------------------
(* The files of a commit, and the graph. *)

letter_to_status(l) ==
    CASE l = "A" -> "Added" [] l = "D" -> "Deleted" [] l \in {"R", "C"} -> "Renamed"
      [] l = "M" -> "Modified" [] OTHER -> "Unknown"

\* parse_name_status(): the last path of a line, so of a rename the new one.
parse_name_status(out) ==
    LET good == {i \in DOMAIN out : out[i].letter \in {"A", "C", "D", "M", "R", "T"}}
        paths == {Last(out[i].paths) : i \in good}
    IN [p \in paths |->
            letter_to_status(out[Max({i \in good : Last(out[i].paths) = p})].letter)]

\* parse_numstat(): a binary file counts nothing.
parse_numstat(out) ==
    LET paths == {out[i].path : i \in DOMAIN out} IN
    [p \in paths |->
        LET l == out[Max({i \in DOMAIN out : out[i].path = p})] IN
        IF l.binary THEN <<0, 0>> ELSE <<l.adds, l.dels>>]

\* merge_files(): every path of either, by name.
merge_files(status, numstat) ==
    [p \in DOMAIN status \cup DOMAIN numstat |->
        [status |-> IF p \in DOMAIN status THEN status[p] ELSE "Modified",
         counts |-> IF p \in DOMAIN numstat THEN numstat[p] ELSE <<0, 0>>]]

\* commit_files_for_repo(): the working tree adds the untracked files.
commit_files_for_repo(sha, names, counts, untracked) ==
    LET status == parse_name_status(names)
        more == IF sha = "working" THEN untracked \ DOMAIN status ELSE {}
    IN merge_files([p \in DOMAIN status \cup more |-> IF p \in more THEN "Added" ELSE status[p]],
                   parse_numstat(counts))

\* parse_refs() of one label of a commit, a path of words.
RefKind(label) ==
    CASE label[1] \in {"HEAD ->", "HEAD"} -> "Head"
      [] label[1] = "tag:" -> "Tag"
      [] Len(label) > 2 /\ SubSeq(label, 1, 2) = <<"refs", "remotes">> -> "Remote"
      [] Len(label) > 2 /\ SubSeq(label, 1, 2) = <<"refs", "heads">> -> "Branch"
      [] label[1] = "origin" -> "Remote"
      [] OTHER -> "Branch"

\* commit_graph_for_repo(): the newest commits from HEAD and the main lines that exist,
\* marked when base..HEAD holds them, and what git status has uncommitted.
commit_graph_for_repo(log, since, codes) ==
    LET Count(S) == Cardinality({i \in DOMAIN codes : codes[i] \in S})
        new == {"??", "A", "AM", "AD"}
        gone == {"D", "MD"}
        added == Count(new)
        deleted == Count(gone)
    IN [commits |-> [i \in DOMAIN log |->
                        [sha |-> log[i].sha, parents |-> log[i].parents,
                         isSession |-> log[i].sha \in since,
                         refs |-> [j \in DOMAIN log[i].refs |-> RefKind(log[i].refs[j])]]],
        uncommitted |-> IF codes = <<>> THEN <<>>
                        ELSE <<added, Len(codes) - added - deleted, deleted>>]

-----------------------------------------------------------------------------
(* git. *)

\* The text of the diff of an edit, a sequence of "=" (kept), "+" (added) and "-"
\* (removed) lines, with one line of context around a change.
GitText(edit) ==
    LET Near(i) == \E j \in DOMAIN edit : edit[j] # "=" /\ i - j \in {-1, 0, 1}
        kept == {i \in DOMAIN edit : Near(i)}
        Upto(i, K) == Cardinality({j \in 1..i : edit[j] \in K})
        starts == {i \in kept : i - 1 \notin kept}
        Stop(i) == Min({j \in kept : j >= i /\ j + 1 \notin kept})
        Header(i) ==
            LET oldn == Upto(Stop(i), {"=", "-"}) - Upto(i - 1, {"=", "-"})
                newn == Upto(Stop(i), {"=", "+"}) - Upto(i - 1, {"=", "+"})
            IN [k |-> "head", old |-> Upto(i - 1, {"=", "-"}) + (IF oldn = 0 THEN 0 ELSE 1), oldn |-> oldn,
                              new |-> Upto(i - 1, {"=", "+"}) + (IF newn = 0 THEN 0 ELSE 1), newn |-> newn]
        Lines(i) == (IF i \in starts THEN <<Header(i)>> ELSE <<>>)
                    \o (IF i \in kept THEN <<[k |-> IF edit[i] = "=" THEN " " ELSE edit[i]]>> ELSE <<>>)
    IN <<[k |-> "other"], [k |-> "other"]>> \o FlattenSeq([i \in DOMAIN edit |-> Lines(i)])

-----------------------------------------------------------------------------
(* Properties. *)

\* structured_diff.rs:405: the lines shown of an edit have the numbers they have in the old
\* and in the new file, in order and none left out up to the cap, and the hunks are as
\* long as their headers say.
NumbersTrue(edit) ==
    LET raw == GitText(edit)
        d == parse_file_diff(raw)
        shown == FlattenSeq([h \in DOMAIN d.hunks |-> d.hunks[h].lines])
        Upto(i, K) == Cardinality({j \in 1..i : edit[j] \in K})
        true == SelectSeq(
            [i \in DOMAIN edit |->
                [k |-> IF edit[i] = "=" THEN " " ELSE edit[i],
                 old |-> IF edit[i] = "+" THEN 0 ELSE Upto(i, {"=", "-"}),
                 new |-> IF edit[i] = "-" THEN 0 ELSE Upto(i, {"=", "+"}),
                 near |-> \E j \in DOMAIN edit : edit[j] # "=" /\ i - j \in {-1, 0, 1}]],
            LAMBDA l : l.near)
        Plain(l) == [k |-> l.k, old |-> l.old, new |-> l.new]
    IN /\ Len(shown) <= Len(true)
       /\ \A i \in DOMAIN shown : shown[i] = Plain(true[i])
       /\ ~d.truncated =>
            /\ Len(shown) = Len(true)
            /\ \A h \in DOMAIN d.hunks :
                LET On(K) == Cardinality({i \in DOMAIN d.hunks[h].lines : d.hunks[h].lines[i].k \in K})
                IN On({" ", "-"}) = d.hunks[h].head.oldn /\ On({" ", "+"}) = d.hunks[h].head.newn
=============================================================================
