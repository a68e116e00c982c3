-------------------------- MODULE MCAlertDelivery --------------------------
(* Instances of AlertDelivery for TLC. *)
EXTENDS AlertDelivery, TLC

CONSTANTS r1, r2, job1, job2, hook, check, repoA, repoB

\* One event, of a rule in repoA.
MCOneEvent == {1}
MCRuleOf == 1 :> r1 @@ 2 :> r2
MCRepoOf == 1 :> repoA @@ 2 :> repoB

\* A webhook target takes every event, a github-check target only repoA's.
MCRepoScope == hook :> AnyRepo @@ check :> repoA

\* Two jobs for one target overlap.
MCSameTarget == job1 :> hook @@ job2 :> hook
=============================================================================
