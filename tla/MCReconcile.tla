---------------------------- MODULE MCReconcile ----------------------------
(***************************************************************************)
(* A small instance of Reconcile, and so of ArchiveSweep, for TLC.         *)
(***************************************************************************)
EXTENDS Reconcile

CONSTANTS f1

(* A file system that keeps the time utimes is given.                      *)
Exact == [t \in 0 .. MaxClock |-> t]
=============================================================================
