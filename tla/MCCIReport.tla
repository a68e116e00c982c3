---------------------------- MODULE MCCIReport -----------------------------
(* Instances of CICommand (and so of CIReport) for TLC. *)
EXTENDS CICommand

Row(run, reason, sha, fp, at, unit, error) ==
    [run |-> run, reason |-> reason, repo |-> "r", sha |-> sha, fp |-> fp, at |-> at,
     unit |-> unit, error |-> error]

\* 1 <- 2 is the default branch, 3 branched off from 2.
SmallHistory ==
    [c \in 1..3 |-> [repo |-> "r", time |-> c,
                     parent |-> <<0, 1, 2>>[c], fork |-> <<1, 2, 2>>[c]]]

\* Run 1 has two results in one series; runs 2 and 3 are its baselines.
SmallResults ==
    [r \in 1..5 |-> <<Row(1, "pr", 3, 1, 1, "s", FALSE), Row(1, "pr", 3, 1, 2, "s", FALSE),
                      Row(2, "pr", 2, 1, 1, "s", FALSE), Row(3, "x", 1, 1, 2, "B", FALSE),
                      Row(4, "x", 3, 2, 1, "s", TRUE)>>[r]]

SmallInitial == {1..5, {2, 3, 4}}

Query(repo, sha, runs, bases, baseline) ==
    [repo |-> repo, sha |-> sha, runIDs |-> runs, baselineRunIDs |-> bases,
     baseline |-> baseline, thresholds |-> TRUE]

SmallQueries ==
    {Query("r", 3, <<>>, <<>>, ""), Query("r", 3, <<1, 9>>, <<>>, "parent"),
     Query("r", 2, <<>>, <<>>, "latest_default"),
     Query(NoRepo, NoSha, <<1>>, <<3>>, ""), Query(NoRepo, NoSha, <<1, 2>>, <<>>, ""),
     Query("r", NoSha, <<>>, <<>>, "")}

SmallOptions ==
    {NoOptions, [check |-> FALSE, comment |-> TRUE, pr |-> FALSE]}
=============================================================================
