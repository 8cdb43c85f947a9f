-------------------------- MODULE MCSessionEngine --------------------------
(***************************************************************************)
(* SessionEngine on small instances: symmetric sessions, clients and       *)
(* slots, for the safety runs; a fresh server for the longer ones.         *)
(***************************************************************************)
EXTENDS SessionEngine, TLC

Symmetry == Permutations(Session) \cup Permutations(Client) \cup Permutations(Turn)

\* Sessions that were not submitted yet, or that ended some earlier turn.
MCInit == Init /\ \A s \in Session : status[s] \in {Unborn, "done"}
MCSpec == MCInit /\ [][Next]_vars

\* A fresh server: the first call submits.
MCFreshInit == Init /\ \A s \in Session : status[s] = Unborn
MCFreshSpec == MCFreshInit /\ [][Next]_vars
MCFairSpec == MCFreshSpec /\ Fairness
=============================================================================
