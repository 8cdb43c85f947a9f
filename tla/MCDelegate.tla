----------------------------- MODULE MCDelegate -----------------------------
(* Two delegate requests in a session with two repositories: one of two workers  *)
(* that write, one of a worker that reads.                                       *)
EXTENDS Delegate

CONSTANTS r1, r2

MCRun == {r1, r2}
MCTasks == [r \in MCRun |-> IF r = r1 THEN {1, 2} ELSE {1}]
MCWriter == [r \in MCRun |-> IF r = r1 THEN {1, 2} ELSE {}]
=============================================================================
