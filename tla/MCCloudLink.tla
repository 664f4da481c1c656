----------------------------- MODULE MCCloudLink -----------------------------
(***************************************************************************)
(* Small instances of CloudLink for TLC, both in one run.                  *)
(***************************************************************************)
EXTENDS CloudLink

Tokens == [ops |-> {"sync", "link", "unlink"}, outcomes |-> {"token"}, time |-> 4,
           starts |-> 2, faults |-> 2, paid |-> {TRUE}, linked |-> TRUE]
Device == [ops |-> {"link", "recover"}, outcomes |-> {"token", "pending", "slow", "network", "denied"},
           time |-> 8, starts |-> 1, faults |-> 0, paid |-> {FALSE}, linked |-> FALSE]
Both == {Tokens, Device}
=============================================================================
