---------------------------- MODULE MCMigrations ----------------------------
EXTENDS Migrations

CONSTANTS m1, m2

Empty == [schema |-> FALSE, legacy |-> "none", ledger |-> FALSE, version |-> NilVersion,
          dirty |-> FALSE, columns |-> FALSE, constraint |-> "none", canonical |-> "missing",
          guard |-> "missing"]

Legacy == [Empty EXCEPT !.schema = TRUE, !.legacy = "baseline"]

VersionOne == [Empty EXCEPT !.schema = TRUE, !.ledger = TRUE, !.version = 1]

\* The databases the tests begin with: empty, handed over, unmarked, of another revision,
\* of version 1 with or without the keys and their index, current and newer.
McOrigin ==
    [empty |-> Empty, legacy |-> Legacy, unmarked |-> [Legacy EXCEPT !.legacy = "none"],
     other |-> [Legacy EXCEPT !.legacy = "other"], one |-> VersionOne,
     live |-> [VersionOne EXCEPT !.columns = TRUE, !.canonical = "correct", !.guard = "correct"],
     loose |-> [VersionOne EXCEPT !.columns = TRUE, !.canonical = "loose"],
     newer |-> [VersionOne EXCEPT !.version = 99]]
=============================================================================
