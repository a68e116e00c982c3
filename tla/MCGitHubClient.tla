-------------------------- MODULE MCGitHubClient --------------------------
(* Instances of GitHubClient for TLC. *)
EXTENDS GitHubClient

CONSTANTS q1, q2
=============================================================================
