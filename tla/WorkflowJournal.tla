--------------------------- MODULE WorkflowJournal ---------------------------
(***************************************************************************)
(* The journal of workflow runs on disk (delegate.rs writes it, claude     *)
(* writes the same files for its own workflows) and its reader             *)
(* (workflows.rs).                                                         *)
(*                                                                         *)
(* A journal is the sequence of the writes to the directory of one claude  *)
(* session.  A write is a record with the fields                           *)
(*   kind  "run" (run.meta.json), "meta" (agent-<id>.meta.json), "line"    *)
(*         (of journal.jsonl), "chat" (of agent-<id>.jsonl), "part" (some  *)
(*         of a summary), "summary" (all of it, or a rename over it)       *)
(*   run   the run it is about                                             *)
(*   agent the agent, "" for a line without one                            *)
(*   data  what it holds: for a line its type, for a summary the status    *)
(*         and the state of every agent                                    *)
(***************************************************************************)
EXTENDS Integers, Sequences, FiniteSets, SequencesExt, FiniteSetsExt

Terminal == {"done", "complete", "completed", "failed", "error", "killed", "cancelled", "canceled"}

is_workflow_terminal(status) == status \in Terminal

JournalWrite(kind, run, agent, data) == [kind |-> kind, run |-> run, agent |-> agent, data |-> data]

-----------------------------------------------------------------------------
(* The writer. *)

\* start_live_run(): the run, then its workers.
start_live_run(r, workers) ==
    <<JournalWrite("run", r, "", "")>> \o [i \in DOMAIN workers |-> JournalWrite("meta", r, workers[i], "")]

mark_agent_done(r, w) == <<JournalWrite("line", r, w, "result")>>

\* The state of an agent in a summary.
Outcome(failed) == IF failed THEN "failed" ELSE "done"

\* write_summary(): renamed into place, so there is never a part of it.
write_summary(r, status, failed) ==
    <<JournalWrite("summary", r, "", [status |-> status,
                               agents |-> [w \in DOMAIN failed |-> Outcome(failed[w])]])>>

-----------------------------------------------------------------------------
(* The reader. *)

\* The writes of a kind to a run, by their places.
Of(journal, kind, r) == {i \in DOMAIN journal : journal[i].kind = kind /\ journal[i].run = r}

Runs(journal) == {journal[i].run : i \in DOMAIN journal}

\* The agents read_running_run() finds: those with a meta file, then those of a line.
AgentsOf(journal, r) ==
    {journal[i].agent : i \in Of(journal, "meta", r) \cup Of(journal, "line", r)} \ {""}

\* The state of an agent of a run without a summary.
AgentState(journal, r, w) ==
    IF \E i \in Of(journal, "line", r) : journal[i].agent = w /\ journal[i].data = "result"
    THEN "done" ELSE "running"

\* read_running_run(): nothing for a directory without agents.
read_running_run(journal, r) ==
    IF AgentsOf(journal, r) = {} THEN <<>>
    ELSE <<[status |-> "running",
            agents |-> [w \in AgentsOf(journal, r) |-> AgentState(journal, r, w)]]>>

\* A summary that is not whole does not parse; the last one is what is in the file.
Summary(journal, r) ==
    LET whole == Of(journal, "summary", r) IN
    IF whole = {} THEN <<>> ELSE <<journal[Max(whole)].data>>

\* A list that takes the name of a summary file for the run before it parses the file.
ListedByName(journal, r) ==
    CASE Summary(journal, r) # <<>> -> Summary(journal, r)
      [] Summary(journal, r) = <<>> /\ Of(journal, "part", r) # {} -> <<>>
      [] OTHER -> read_running_run(journal, r)

\* What list_workflows() has of a run: its summary, else what runs; once.
Listed(journal, r) ==
    IF Summary(journal, r) # <<>> THEN Summary(journal, r)
    ELSE read_running_run(journal, r)

list_workflows(journal) ==
    [r \in {x \in Runs(journal) : Listed(journal, x) # <<>>} |-> Listed(journal, r)[1]]

\* project_dirs(): slugs maps a project to the claude sessions it holds; all sessions of
\* the projects that hold this one are read.
project_dirs(slugs, session) ==
    UNION {slugs[p] : p \in {q \in DOMAIN slugs : session = "" \/ session \in slugs[q]}}

\* extract_summary(): what a worker said last, or its result; and whether a result was an
\* error.  A chat line is a record [role, text, error].
extract_summary(chat) ==
    LET said == SelectSeq(chat, LAMBDA l : l.role = "assistant" /\ l.text # "")
        results == SelectSeq(chat, LAMBDA l : l.role = "result")
    IN [text |-> CASE said # <<>> -> Last(said).text
                   [] said = <<>> /\ results # <<>> -> Last(results).text
                   [] OTHER -> "",
        failed |-> \E i \in DOMAIN results : results[i].error]

\* read_workflow_agent(): what the agent was told, then what it said.
read_workflow_agent(chat) ==
    LET Said(role) == SelectSeq(chat, LAMBDA l : l.role = role /\ l.text # "") IN
    Said("user") \o Said("assistant")

-----------------------------------------------------------------------------
(* Properties, of a journal and the same with more writes. *)

\* A run that is listed stays listed, an agent of it while it runs too, and what is finished
\* stays finished.
StillListed(before, after) ==
    LET old == list_workflows(before)
        new == list_workflows(after)
    IN \A r \in DOMAIN old :
        /\ r \in DOMAIN new
        /\ is_workflow_terminal(old[r].status) => is_workflow_terminal(new[r].status)
        /\ new[r].status = "running" =>
            \A w \in DOMAIN old[r].agents :
                w \in DOMAIN new[r].agents /\ (old[r].agents[w] = "done" => new[r].agents[w] = "done")
=============================================================================
