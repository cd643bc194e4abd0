------------------------- MODULE MCSchemaLifecycle -------------------------
(***************************************************************************)
(* Instances of SchemaLifecycle for TLC.                                   *)
(***************************************************************************)
EXTENDS SchemaLifecycle, TLC

CONSTANTS a1, a2

\* Approvals are interchangeable.
Symmetry == Permutations(Approvals)
=============================================================================
