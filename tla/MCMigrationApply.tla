-------------------------- MODULE MCMigrationApply --------------------------
(***************************************************************************)
(* Instances of MigrationApply for TLC.                                    *)
(***************************************************************************)
EXTENDS MigrationApply, TLC

CONSTANTS g1, g2, m1, m2, a1, a2

\* Migrations, managers and approvals are interchangeable.
Symmetry == Permutations(Migrations) \cup Permutations(Managers) \cup Permutations(Approvals)
=============================================================================
