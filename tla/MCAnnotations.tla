--------------------------- MODULE MCAnnotations ---------------------------
(* Instances of Annotations for TLC. *)
EXTENDS Annotations, TLC

CONSTANTS u1, u2, k1, k2, a, b
=============================================================================
