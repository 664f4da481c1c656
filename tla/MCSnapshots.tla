---------------------------- MODULE MCSnapshots ----------------------------
(* Snapshots checked on two sessions and two snapshots. *)
EXTENDS Snapshots, TLC

Symmetry == Permutations(Sessions)
=============================================================================
