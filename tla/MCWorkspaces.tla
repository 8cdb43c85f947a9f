---------------------------- MODULE MCWorkspaces ----------------------------
(* SessionWorkspaces with two repositories per session. *)
EXTENDS SessionWorkspaces, TLC

CONSTANTS r1, r2

MCRepos == <<r1, r2>>

\* New sessions are told apart by what happens to them only.
MCSymmetry == Permutations(Sessions)
=============================================================================
