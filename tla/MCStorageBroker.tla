-------------------------- MODULE MCStorageBroker --------------------------
(***************************************************************************)
(* Small instances of StorageBroker for TLC.                               *)
(***************************************************************************)
EXTENDS StorageBroker, TLC

CONSTANTS m1, a1, a2, s1, s2, s3, c1, c2, c3, w1, w2

OneOnly == s1 :> {c1}
OneEach == s1 :> {c1} @@ s2 :> {c2}
ThreeInTwo == s1 :> {c1} @@ s2 :> {c2, c3}

(* Ciphertexts of one length, and of two.                                  *)
EqualBytes == [c \in Contents |-> 1]
UnequalBytes == [c \in Contents |-> IF c = c3 THEN 3 ELSE 1]

(* A sweep and its ciphertext are exchanged together.                      *)
Exchange == s1 :> s2 @@ s2 :> s1 @@ c1 :> c2 @@ c2 :> c1
WorkerSymmetry == Permutations(Workers)
SweepSymmetry == WorkerSymmetry \cup {p @@ Exchange : p \in WorkerSymmetry}
KeySymmetry == Permutations(ArchiveKeys)
=============================================================================
