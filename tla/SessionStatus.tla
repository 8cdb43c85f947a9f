--------------------------- MODULE SessionStatus ---------------------------
(***************************************************************************)
(* The session status enum and the two pure decisions taken on it: the     *)
(* legal-transition matrix and the final status an exit handler chooses.   *)
(* Source: session/status.rs and the decision tables of session/runtime.rs *)
(***************************************************************************)

\* SessionStatus: the five strings of the status column.
Status == {"pending", "running", "done", "failed", "killed"}

\* A row as the store returns it: a status, or no row: the id was not issued
\* yet, or its row was deleted. Ids are fresh uuids: a deleted one never returns.
Unborn == "unborn"
Absent == "absent"
NoRow == {Unborn, Absent}
Row == Status \cup NoRow

\* SessionStatus::terminal
Terminal == {"done", "failed", "killed"}

\* SessionStatus::legal_transition_to
Legal(from, to) ==
    \/ from = to /\ from \in {"pending", "running"}
    \/ from = "pending" /\ to \in {"running", "failed", "killed"}
    \/ from = "running" /\ to \in Terminal
    \/ from \in Terminal /\ to = "pending"

\* on_exit: a terminal status is preserved; any other is decided by the exit
\* code (ok = code 0) and by whether the row carries an error.
ExitStatus(seen, seenErr, ok) ==
    IF seen \in Terminal THEN seen
    ELSE IF ok /\ ~seenErr THEN "done" ELSE "failed"

\* on_exit: the error column after the final patch. A kill clears it; a
\* failure without one gets the neutral crash text; otherwise it is kept.
ExitError(final, seenErr, err) ==
    CASE final = "killed" -> FALSE
      [] final = "failed" /\ ~seenErr -> TRUE
      [] OTHER -> err

=============================================================================
