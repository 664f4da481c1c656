---------------------------- MODULE MCPublication ----------------------------
(***************************************************************************)
(* Small instances of Publication for TLC.                                 *)
(***************************************************************************)
EXTENDS Publication, TLC

CONSTANTS p1, p2

OneGrows == (p1 :> 2) @@ (p2 :> 1)
Both == {"rclone", "cloud"}
AllFaults == {"network", "kill", "reinstall", "unreported"}
=============================================================================
