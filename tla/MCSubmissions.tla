--------------------------- MODULE MCSubmissions ---------------------------
(* Instances of Submissions and SubmitStream for TLC. *)
EXTENDS SubmitStream, TLC

CONSTANTS p1, p2, p3, k1

\* p1 and p2 are in one series (p2 differs in its info and its commit); p3
\* is invalid.  All come from a cluster, so neither the info nor the hardware
\* rows are protected by a unique index.
MCNaturalKey ==
    [p \in Payloads |->
        [k \in Kinds |->
            CASE k = "info"   -> IF p = p2 THEN 2 ELSE 1
              [] k = "commit" -> IF p = p2 THEN NoSha ELSE 1
              [] OTHER        -> 1]]
MCHash == [p \in Payloads |-> "hw"]
MCRepoURL == [p \in Payloads |-> "repo"]
ClusterKinds == {"case", "context", "commit"}

MCRequests == 1..2
MCWorkers == 1..2

Keyed1 == [key |-> k1, payload |-> p1]
Keyed2 == [key |-> k1, payload |-> p2]
Plain(p) == [key |-> NoKey, payload |-> p]
Whole(items) == [items |-> items, ok |-> TRUE]
Cut(items) == [items |-> items, ok |-> FALSE]

\* One result; an array with a bad entry; two files of which one cannot be
\* read; first results of one series without keys; one key with the same
\* and with other content, more results than workers; an invalid result.
MCFileLists ==
    { <<Whole(<<Keyed1>>)>>,
      <<Cut(<<Keyed1>>)>>,
      <<Whole(<<Keyed2>>), Cut(<<>>)>>,
      <<Whole(<<Plain(p1), Plain(p2)>>)>>,
      <<Whole(<<Keyed1, Keyed1, Keyed2>>)>>,
      <<Whole(<<Plain(p3)>>), Whole(<<Keyed1>>)>> }
=============================================================================
