------------------------------ MODULE MCAccount ------------------------------
(***************************************************************************)
(* Small instances of Account for TLC, all in one run.                    *)
(***************************************************************************)
EXTENDS Account, TLC

Billing == [time |-> 4, events |-> 4, requests |-> 1, urls |-> 0, deleters |-> {"cron"}]
Uploads == [time |-> 3, events |-> 1, requests |-> 1, urls |-> 2, deleters |-> {"user", "retry"}]
Retries == [time |-> 2, events |-> 2, requests |-> 2, urls |-> 0, deleters |-> {"cron"}]
Three == {Billing, Uploads, Retries}

Symmetric == Permutations(Keys) \cup Permutations(Objects)
=============================================================================
