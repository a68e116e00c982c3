---------------------------- MODULE MCStatistics ----------------------------
EXTENDS Statistics

\* Times ascend but for commit 6, which shares commit 3's; commit 5 is on a branch.
McCommit == [c \in 1..6 |-> [time |-> IF c = 6 THEN 3 ELSE c, default |-> c # 5]]

Req(commit, at, unit, data) ==
    [commit |-> commit, at |-> at, unit |-> unit, data |-> data, error |-> FALSE]

\* A level, a spike on commit 3 or 4 and the level again; results out of order, on
\* tied commits, of another unit, without data and on a branch.
McSubmission ==
    <<{Req(1, 1, "s", <<3>>)},
      {Req(2, 3, "s", <<3, 4>>), Req(2, 3, "s", <<6, 4, 5, 9>>), Req(2, 1, "b/s", <<1, 2>>)},
      {Req(3, 2, "s", <<3>>), Req(6, 2, "s", <<9>>), Req(3, 2, "furlong", <<>>)},
      {Req(4, 4, "s", <<9>>), Req(3, 1, "s", <<3>>), Req(5, 4, "s", <<3>>)},
      {Req(4, 5, "s", <<3>>), Req(4, 5, "s", <<12>>)}>>
=============================================================================
