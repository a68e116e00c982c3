--------------------------- MODULE MCBackfiller ---------------------------
(* An instance of CommitRepair and its backfiller for TLC. *)
EXTENDS CommitRepair, TLC

CONSTANTS r1, r2

McBenchmarked == (r1 :> {3, 4, 5}) @@ (r2 :> {3})

\* Shas sort in an order of their own.
McScanOrder == <<<<r1, 5>>, <<r1, 3>>, <<r1, 4>>, <<r2, 3>>>>
=============================================================================
