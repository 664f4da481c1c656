----------------------------- MODULE MCSyncLock -----------------------------
(***************************************************************************)
(* A small instance of SyncLock for TLC.                                   *)
(***************************************************************************)
EXTENDS SyncLock

CONSTANTS p1, p2
=============================================================================
