-------------------------- MODULE IndexPublication --------------------------
(***************************************************************************)
(* What the upload broker promises the readers of a machine's archive.  A  *)
(* sweep commits archive objects; sealing it fixes the set of its objects; *)
(* its index is then published by a compare-and-swap on the head.  So the  *)
(* head always names an index all of whose sweep's objects are committed,  *)
(* and two machines that run as one cannot clobber each other's index.     *)
(***************************************************************************)
EXTENDS Integers, FiniteSets

CONSTANTS Machines, Sweeps, ArchiveKeys, Etags, Nil

VARIABLES
    stage,      \* of each sweep's index: open, sealed, published, abandoned
    base,       \* the head a sealed index was derived from
    committed,  \* the archive objects a sweep has committed
    head        \* the ETag of the published index

vars == <<stage, base, committed, head>>

Init ==
    /\ stage = [m \in Machines |-> [s \in Sweeps |-> "open"]]
    /\ base = [m \in Machines |-> [s \in Sweeps |-> Nil]]
    /\ committed = [m \in Machines |-> [s \in Sweeps |-> {}]]
    /\ head = [m \in Machines |-> Nil]

Commit(m, s, k) ==
    /\ stage[m][s] = "open"
    /\ k \notin committed[m][s]
    /\ committed' = [committed EXCEPT ![m][s] = @ \cup {k}]
    /\ UNCHANGED <<stage, base, head>>

(* One index at a time.                                                    *)
Seal(m, s) ==
    /\ stage[m][s] = "open"
    /\ \A t \in Sweeps : stage[m][t] # "sealed"
    /\ stage' = [stage EXCEPT ![m][s] = "sealed"]
    /\ base' = [base EXCEPT ![m][s] = head[m]]
    /\ UNCHANGED <<committed, head>>

Publish(m, s, etag) ==
    /\ stage[m][s] = "sealed"
    /\ head[m] = base[m][s]
    /\ stage' = [stage EXCEPT ![m][s] = "published"]
    /\ head' = [head EXCEPT ![m] = etag]
    /\ UNCHANGED <<base, committed>>

Abandon(m, s) ==
    /\ stage[m][s] = "sealed"
    /\ stage' = [stage EXCEPT ![m][s] = "abandoned"]
    /\ UNCHANGED <<base, committed, head>>

Next ==
    \E m \in Machines, s \in Sweeps :
        \/ \E k \in ArchiveKeys : Commit(m, s, k)
        \/ Seal(m, s)
        \/ \E etag \in Etags \ {Nil} : Publish(m, s, etag)
        \/ Abandon(m, s)

Spec == Init /\ [][Next]_vars
=============================================================================
