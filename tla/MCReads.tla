------------------------------ MODULE MCReads ------------------------------
EXTENDS Reads

\* Commit 4 shares commit 3's time, commit 5 is on a branch.
McCommit == [c \in 1..5 |-> [time |-> IF c = 4 THEN 3 ELSE c, default |-> c # 5]]

R(run, repo, fp, commit, at) ==
    [run |-> run, repo |-> repo, fp |-> fp, commit |-> commit, at |-> at, error |-> FALSE]

\* Three series, one of them old only; a failed result and one on a branch.
McRow ==
    <<R(1, 1, 1, 1, 3), R(1, 2, 2, 1, 1), R(2, 1, 1, 3, 2), R(2, 1, 3, 2, 4),
      R(3, 2, 2, 4, 5), [R(3, 1, 3, 3, 6) EXCEPT !.error = TRUE], R(3, 1, 1, 2, 1)>>

McCaseOf == <<1, 1, 2>>

Q(kind, run, repo, fp, search, cases, until) ==
    [kind |-> kind, run |-> run, repo |-> repo, fp |-> fp, search |-> search, cases |-> cases,
     since |-> Unset, until |-> until]

McQueries ==
    {Q("results", Unset, Unset, Unset, FALSE, {}, Unset), Q("results", 3, Unset, Unset, FALSE, {}, Unset),
     Q("series", Unset, Unset, Unset, FALSE, {}, Unset), Q("series", Unset, 1, Unset, FALSE, {}, 2),
     Q("series", Unset, Unset, Unset, TRUE, {1}, Unset), Q("series", Unset, Unset, Unset, TRUE, {1, 2}, Unset),
     Q("series", Unset, 1, Unset, TRUE, {1, 2}, Unset), Q("series", Unset, Unset, 1, FALSE, {}, Unset)}
=============================================================================
