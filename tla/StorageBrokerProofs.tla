------------------------ MODULE StorageBrokerProofs ------------------------
(***************************************************************************)
(* Proofs about StorageBroker, for any number of machines, keys, sweeps,   *)
(* ciphertexts and concurrent requests.                                    *)
(***************************************************************************)
EXTENDS StorageBroker, FiniteSetTheorems, WellFoundedInduction, TLAPS

(***************************************************************************)
(* Sums.  SumFunctionOnSet is defined by recursion over subsets, in the    *)
(* order CHOOSE picks; what it returns is the tally of the set: g[T], for  *)
(* every subset T, is f[x] more than g[T \ {x}] for whichever x is taken   *)
(* from T.                                                                 *)
(***************************************************************************)
LEMMA Smallest ==
    ASSUME NEW S, IsFiniteSet(S), NEW Bad, Bad \subseteq SUBSET S, Bad # {}
    PROVE  \E T \in Bad : \A U \in SUBSET T : U # T => U \notin Bad
<1>1. IsWellFoundedOn(StrictSubsetOrdering(S), FiniteSubsetsOf(S))
  BY FS_StrictSubsetOrderingWellFounded
<1>2. Bad \subseteq FiniteSubsetsOf(S)
  BY FS_FiniteSubsetsOfFinite
<1>3. \E T \in Bad : \A U \in Bad : ~(<<U, T>> \in StrictSubsetOrdering(S))
  BY <1>1, <1>2, WFMin
<1>4. PICK T \in Bad : \A U \in Bad : ~(<<U, T>> \in StrictSubsetOrdering(S))
  BY <1>3
<1>. QED
  BY <1>4 DEF StrictSubsetOrdering

(* g gives the sum of f over every subset of S.                            *)
IsTally(g, f, S) ==
    /\ g \in [SUBSET S -> Nat]
    /\ g[{}] = 0
    /\ \A T \in SUBSET S : \A x \in T : g[T] = f[x] + g[T \ {x}]

LEMMA TallyGrows ==
    ASSUME NEW f, NEW S, NEW x \in S, f[x] \in Nat, NEW g, IsTally(g, f, S \ {x}),
           \A y \in S : f[y] \in Nat
    PROVE  \E h : IsTally(h, f, S)
<1>. DEFINE h == [T \in SUBSET S |-> IF x \in T THEN f[x] + g[T \ {x}] ELSE g[T]]
<1>1. \A T \in SUBSET S : T \ {x} \in SUBSET (S \ {x}) /\ (x \notin T => T \in SUBSET (S \ {x}))
  OBVIOUS
<1>2. g \in [SUBSET (S \ {x}) -> Nat]
  BY DEF IsTally
<1>3. h \in [SUBSET S -> Nat]
  BY <1>1, <1>2
<1>4. h[{}] = 0
  BY DEF IsTally
<1>5. ASSUME NEW T \in SUBSET S, NEW y \in T
      PROVE  h[T] = f[y] + h[T \ {y}]
  <2>1. T \ {y} \in SUBSET S
    OBVIOUS
  <2>2. CASE y = x
    <3>1. h[T] = f[x] + g[T \ {x}] /\ h[T \ {x}] = g[T \ {x}]
      BY <2>1, <2>2
    <3>. QED
      BY <3>1, <2>2
  <2>3. CASE y # x /\ x \in T
    <3>1. T \ {x} \in SUBSET (S \ {x}) /\ y \in T \ {x} /\ (T \ {x}) \ {y} = (T \ {y}) \ {x}
      BY <2>3
    <3>2. g[T \ {x}] = f[y] + g[(T \ {y}) \ {x}]
      BY <3>1 DEF IsTally
    <3>3. h[T] = f[x] + g[T \ {x}] /\ h[T \ {y}] = f[x] + g[(T \ {y}) \ {x}]
      BY <2>1, <2>3
    <3>4. f[y] \in Nat /\ g[(T \ {y}) \ {x}] \in Nat
      BY <1>2, <3>1
    <3>. QED
      BY <3>2, <3>3, <3>4
  <2>4. CASE x \notin T
    <3>1. T \in SUBSET (S \ {x}) /\ h[T] = g[T] /\ h[T \ {y}] = g[T \ {y}]
      BY <2>1, <2>4
    <3>. QED
      BY <3>1 DEF IsTally
  <2>. QED
    BY <2>2, <2>3, <2>4
<1>. HIDE DEF h
<1>. QED
  BY <1>3, <1>4, <1>5 DEF IsTally

LEMMA TallyExists ==
    ASSUME NEW f, NEW S, IsFiniteSet(S), \A x \in S : f[x] \in Nat
    PROVE  \E g : IsTally(g, f, S)
<1>. DEFINE Bad == {T \in SUBSET S : ~\E g : IsTally(g, f, T)}
<1>1. SUFFICES ASSUME Bad # {} PROVE FALSE
  <2>1. S \in SUBSET S
    OBVIOUS
  <2>. QED
    BY <1>1, <2>1
<1>2. PICK T \in Bad : \A U \in SUBSET T : U # T => U \notin Bad
  <2>1. Bad \subseteq SUBSET S
    OBVIOUS
  <2>. HIDE DEF Bad
  <2>. QED
    BY <1>1, <2>1, Smallest
<1>3. T \in SUBSET S /\ ~\E g : IsTally(g, f, T)
  OBVIOUS
<1>4. CASE T = {}
  <2>1. IsTally([U \in SUBSET {} |-> 0], f, {})
    BY DEF IsTally
  <2>. QED
    BY <1>3, <1>4, <2>1
<1>5. CASE T # {}
  <2>1. PICK x \in T : TRUE
    BY <1>5
  <2>2. T \ {x} \in SUBSET T /\ T \ {x} # T /\ T \ {x} \in SUBSET S
    BY <1>3
  <2>3. \E g : IsTally(g, f, T \ {x})
    BY <1>2, <2>2
  <2>4. PICK g : IsTally(g, f, T \ {x})
    BY <2>3
  <2>5. f[x] \in Nat /\ \A y \in T : f[y] \in Nat
    BY <1>3
  <2>6. \E h : IsTally(h, f, T)
    BY <2>4, <2>5, TallyGrows
  <2>. QED
    BY <1>3, <2>6
<1>. QED
  BY <1>4, <1>5

(* The recursive definition of the sum has one solution, the tally.        *)
Adds(h, f, S) ==
    h = [s \in SUBSET S |-> IF s = {} THEN 0
                            ELSE f[CHOOSE x \in s : TRUE] + h[s \ {CHOOSE x \in s : TRUE}]]

LEMMA SumAdds ==
    ASSUME NEW f, NEW S, NEW g, Adds(g, f, S)
    PROVE  \E h : Adds(h, f, S) /\ SumFunctionOnSet(f, S) = h[S]
<1>. DEFINE h == CHOOSE h : h = [s \in SUBSET S |->
                       IF s = {} THEN 0
                       ELSE f[CHOOSE x \in s : TRUE] + h[s \ {CHOOSE x \in s : TRUE}]]
<1>1. h = [s \in SUBSET S |-> IF s = {} THEN 0
                              ELSE f[CHOOSE x \in s : TRUE] + h[s \ {CHOOSE x \in s : TRUE}]]
  BY DEF Adds
<1>2. SumFunctionOnSet(f, S) = h[S]
  BY DEF SumFunctionOnSet, FoldFunctionOnSet, MapThenFoldSet
<1>. HIDE DEF h
<1>. QED
  BY <1>1, <1>2 DEF Adds

LEMMA SumIsTally ==
    ASSUME NEW f, NEW S, IsFiniteSet(S), NEW g, IsTally(g, f, S)
    PROVE  SumFunctionOnSet(f, S) = g[S]
<1>0. \A s \in SUBSET S : s # {} => (CHOOSE x \in s : TRUE) \in s
  OBVIOUS
<1>1. Adds(g, f, S)
  <2>1. \A s \in SUBSET S : g[s] = IF s = {} THEN 0
            ELSE f[CHOOSE x \in s : TRUE] + g[s \ {CHOOSE x \in s : TRUE}]
    BY <1>0 DEF IsTally
  <2>. QED
    BY <2>1 DEF IsTally, Adds
<1>2. PICK h : Adds(h, f, S) /\ SumFunctionOnSet(f, S) = h[S]
  BY <1>1, SumAdds
<1>. DEFINE Bad == {T \in SUBSET S : h[T] # g[T]}
<1>3. Bad = {}
  <2>. SUFFICES ASSUME Bad # {} PROVE FALSE
    OBVIOUS
  <2>1. PICK T \in Bad : \A U \in SUBSET T : U # T => U \notin Bad
    <3>1. Bad \subseteq SUBSET S
      OBVIOUS
    <3>. HIDE DEF Bad
    <3>. QED
      BY <3>1, Smallest
  <2>2. T \in SUBSET S /\ h[T] # g[T]
    OBVIOUS
  <2>3. \A U \in SUBSET T : U # T => h[U] = g[U]
    BY <2>1, <2>2
  <2>. DEFINE y == CHOOSE x \in T : TRUE
  <2>4. h[T] = (IF T = {} THEN 0 ELSE f[y] + h[T \ {y}])
    BY <1>2, <2>2 DEF Adds
  <2>5. T # {} => y \in T
    BY <1>0, <2>2
  <2>. HIDE DEF y
  <2>6. T # {} => h[T \ {y}] = g[T \ {y}]
    <3>1. T \ {y} \in SUBSET T
      OBVIOUS
    <3>. QED
      BY <3>1, <2>3, <2>5
  <2>7. g[T] = (IF T = {} THEN 0 ELSE f[y] + g[T \ {y}])
    BY <2>2, <2>5 DEF IsTally
  <2>. QED
    BY <2>2, <2>4, <2>6, <2>7
<1>. QED
  BY <1>2, <1>3

(* A sum without one of its terms.                                         *)
LEMMA SumRemove ==
    ASSUME NEW f, NEW S, IsFiniteSet(S), \A y \in S : f[y] \in Nat, NEW x \in S
    PROVE  SumFunctionOnSet(f, S) = f[x] + SumFunctionOnSet(f, S \ {x})
<1>1. PICK g : IsTally(g, f, S)
  BY TallyExists
<1>. DEFINE R == S \ {x}
            h == [T \in SUBSET R |-> g[T]]
<1>2. SUBSET R \subseteq SUBSET S /\ IsFiniteSet(R)
  BY FS_RemoveElement
<1>3. IsTally(h, f, R)
  <2>1. h \in [SUBSET R -> Nat] /\ h[{}] = 0
    BY <1>1, <1>2 DEF IsTally
  <2>2. ASSUME NEW T \in SUBSET R, NEW y \in T
        PROVE  h[T] = f[y] + h[T \ {y}]
    <3>1. T \in SUBSET S /\ T \ {y} \in SUBSET R
      BY <1>2
    <3>2. g[T] = f[y] + g[T \ {y}]
      BY <1>1, <3>1 DEF IsTally
    <3>. QED
      BY <3>1, <3>2
  <2>. HIDE DEF h, R
  <2>. QED
    BY <2>1, <2>2 DEF IsTally
<1>4. h[R] = g[R]
  OBVIOUS
<1>5. g[S] = f[x] + g[R]
  BY <1>1 DEF IsTally
<1>6. SumFunctionOnSet(f, S) = g[S]
  BY <1>1, SumIsTally
<1>. HIDE DEF h, R
<1>7. SumFunctionOnSet(f, R) = h[R]
  BY <1>2, <1>3, SumIsTally
<1>8. SumFunctionOnSet(f, S) = f[x] + SumFunctionOnSet(f, R)
  BY <1>4, <1>5, <1>6, <1>7
<1>. QED
  BY <1>8 DEF R

LEMMA SumType ==
    ASSUME NEW f, NEW S, IsFiniteSet(S), \A y \in S : f[y] \in Nat
    PROVE  SumFunctionOnSet(f, S) \in Nat
<1>1. PICK g : IsTally(g, f, S)
  BY TallyExists
<1>2. SumFunctionOnSet(f, S) = g[S]
  BY <1>1, SumIsTally
<1>. QED
  BY <1>1, <1>2 DEF IsTally

LEMMA SumEmpty ==
    ASSUME NEW f
    PROVE  SumFunctionOnSet(f, {}) = 0
<1>1. IsTally([T \in SUBSET {} |-> 0], f, {})
  BY DEF IsTally
<1>. QED
  BY <1>1, SumIsTally, FS_EmptySet

(* A sum depends on its terms alone.                                       *)
LEMMA SumSame ==
    ASSUME NEW f, NEW h, NEW S, IsFiniteSet(S), \A y \in S : f[y] \in Nat /\ h[y] = f[y]
    PROVE  SumFunctionOnSet(h, S) = SumFunctionOnSet(f, S)
<1>1. PICK g : IsTally(g, f, S)
  BY TallyExists
<1>2. IsTally(g, h, S)
  BY <1>1 DEF IsTally
<1>3. SumFunctionOnSet(f, S) = g[S]
  BY <1>1, SumIsTally
<1>4. SumFunctionOnSet(h, S) = g[S]
  BY <1>2, SumIsTally
<1>. QED
  BY <1>3, <1>4

(* A term more, a term less, and a term put over another.                  *)
LEMMA SumAdd ==
    ASSUME NEW f, NEW h, NEW S, IsFiniteSet(S), NEW x, x \notin S, h[x] \in Nat,
           \A y \in S : f[y] \in Nat /\ h[y] = f[y]
    PROVE  SumFunctionOnSet(h, S \cup {x}) = SumFunctionOnSet(f, S) + h[x]
<1>1. IsFiniteSet(S \cup {x}) /\ (S \cup {x}) \ {x} = S /\ x \in S \cup {x}
  BY FS_AddElement
<1>2. \A y \in S \cup {x} : h[y] \in Nat
  OBVIOUS
<1>3. SumFunctionOnSet(h, S \cup {x}) = h[x] + SumFunctionOnSet(h, (S \cup {x}) \ {x})
  BY <1>1, <1>2, SumRemove
<1>4. SumFunctionOnSet(h, S) = SumFunctionOnSet(f, S)
  BY SumSame
<1>5. SumFunctionOnSet(f, S) \in Nat
  BY SumType
<1>6. SumFunctionOnSet(h, S \cup {x}) = h[x] + SumFunctionOnSet(h, S)
  BY <1>1, <1>3
<1>. QED
  BY <1>4, <1>5, <1>6

LEMMA SumDrop ==
    ASSUME NEW f, NEW h, NEW S, IsFiniteSet(S), NEW x \in S, NEW R, R = S \ {x},
           \A y \in S : f[y] \in Nat /\ (y # x => h[y] = f[y])
    PROVE  SumFunctionOnSet(h, R) = SumFunctionOnSet(f, S) - f[x]
<1>1. IsFiniteSet(R)
  BY FS_RemoveElement
<1>2. SumFunctionOnSet(f, S) = f[x] + SumFunctionOnSet(f, R)
  BY SumRemove
<1>3. \A y \in R : f[y] \in Nat /\ h[y] = f[y]
  OBVIOUS
<1>4. SumFunctionOnSet(h, R) = SumFunctionOnSet(f, R)
  BY <1>1, <1>3, SumSame
<1>5. SumFunctionOnSet(f, R) \in Nat
  BY <1>1, <1>3, SumType
<1>. QED
  BY <1>2, <1>4, <1>5

LEMMA SumPut ==
    ASSUME NEW f, NEW h, NEW S, IsFiniteSet(S), NEW x, f[x] \in Nat, h[x] \in Nat,
           x \notin S => f[x] = 0,
           \A y \in S : f[y] \in Nat, \A y \in S \ {x} : h[y] = f[y]
    PROVE  SumFunctionOnSet(h, S \cup {x}) = SumFunctionOnSet(f, S) - f[x] + h[x]
<1>1. CASE x \notin S
  <2>1. \A y \in S : f[y] \in Nat /\ h[y] = f[y]
    BY <1>1
  <2>2. SumFunctionOnSet(h, S \cup {x}) = SumFunctionOnSet(f, S) + h[x]
    BY <1>1, <2>1, SumAdd
  <2>3. SumFunctionOnSet(f, S) \in Nat
    BY SumType
  <2>. QED
    BY <1>1, <2>2, <2>3
<1>2. CASE x \in S
  <2>0. \A y \in S : f[y] \in Nat /\ (y # x => h[y] = f[y])
    OBVIOUS
  <2>1. SumFunctionOnSet(h, S \ {x}) = SumFunctionOnSet(f, S) - f[x]
    BY <1>2, <2>0, SumDrop
  <2>2. \A y \in S : h[y] \in Nat
    OBVIOUS
  <2>3. SumFunctionOnSet(h, S) = h[x] + SumFunctionOnSet(h, S \ {x})
    BY <1>2, <2>2, SumRemove
  <2>4. S \cup {x} = S
    BY <1>2
  <2>5. SumFunctionOnSet(f, S) \in Nat
    BY SumType
  <2>. QED
    BY <2>1, <2>3, <2>4, <2>5
<1>. QED
  BY <1>1, <1>2

-----------------------------------------------------------------------------
(***************************************************************************)
(* What a request may rely on at each of its awaits.                       *)
(***************************************************************************)
HoldsRow(q) == q.pc \in {"get", "head", "settle", "reread", "remove", "expire", "sign"}

RequestOK(q, rows) ==
    /\ HoldsRow(q) => q.slot \in Slots /\ rows[q.slot].state # "absent"
    /\ q.pc = "insert" =>
          /\ q.slot \in Slots
          /\ q.input \in Inputs
          /\ q.input.content \in Ciphertexts[q.slot.sweep]
          /\ ~IsIndex(q.slot) => q.input.expected = Nil

RequestsOK == \A w \in Workers : RequestOK(requests[w], reservations)

(***************************************************************************)
(* The steps that touch the rows, the ledger or the published index are    *)
(* three transactions; every other step leaves the three tables alone, and *)
(* the account too unless it counts it again.                              *)
(***************************************************************************)
Reserves(w) ==
    LET slot == requests[w].slot IN
    /\ At(w, "insert")
    /\ Admits(slot, requests[w].input, requests[w].at)
    /\ IsUnique(slot)
    /\ ReserveBatch(slot, requests[w].input, requests[w].at)

Completes(w) == At(w, "settle") /\ CompleteBatch(requests[w].slot, requests[w].object)

Expires(w) ==
    LET slot == requests[w].slot IN
    /\ At(w, "expire")
    /\ MayExpire(slot, requests[w].at)
    /\ ExpireBatch(slot)

Quiet == UNCHANGED <<reservations, ledger, indexEtag>>

Recounts ==
    account' = [used |-> LedgerBytes - ReplacedBytes("pending"),
                reserved |-> ExpectedBytes("pending")]
Steady == Quiet /\ (UNCHANGED account \/ Recounts)

LEMMA TableSteps ==
    ASSUME Next
    PROVE  Steady \/ \E w \in Workers : Reserves(w) \/ Completes(w) \/ Expires(w)
<1> USE DEF Steady, Quiet, tables, outside
<1>1. ASSUME NEW m \in Machines, CreateMachineRemote(m) PROVE Steady
  BY <1>1 DEF CreateMachineRemote
<1>2. ASSUME NEW w \in Workers, StartReserve(w) \/ StartCron(w) PROVE Steady
  BY <1>2 DEF StartReserve, StartCron, Start
<1>3. ASSUME NEW w \in Workers, NEW slot \in Slots, StartFinalize(w, slot) PROVE Steady
  BY <1>3 DEF StartFinalize, Start
<1>4. ASSUME NEW w \in Workers, SelectExpired(w) \/ NoneExpired(w) PROVE Steady
  BY <1>4 DEF SelectExpired, NoneExpired
<1>5. ASSUME NEW w \in Workers, GetReservation(w) \/ HeadObject(w) \/ Reread(w) PROVE Steady
  BY <1>5 DEF GetReservation, HeadObject, Reread
<1>6. ASSUME NEW w \in Workers, Complete(w) PROVE Completes(w)
  BY <1>6 DEF Complete, Completes
<1>7. ASSUME NEW w \in Workers, RemoveUnexpected(w) \/ Sign(w) \/ Abort(w) PROVE Steady
  BY <1>7 DEF RemoveUnexpected, Sign, Abort
<1>8. ASSUME NEW w \in Workers, Expire(w) PROVE Steady \/ Expires(w)
  BY <1>8 DEF Expire, Expires
<1>9. ASSUME NEW w \in Workers, NEW slot \in Slots, NEW input \in Inputs,
             Lookup(w, slot, input)
      PROVE  Steady
  BY <1>9 DEF Lookup
<1>10. ASSUME NEW w \in Workers, Insert(w) PROVE Steady \/ Reserves(w)
  BY <1>10 DEF Insert, Reserves
<1>11. ASSUME NEW w \in Workers, ReconcileAccounting(w) PROVE Steady
  BY <1>11 DEF ReconcileAccounting, Recounts
<1>12. ASSUME NEW slot \in Slots, Put(slot) PROVE Steady
  BY <1>12 DEF Put
<1>13. ASSUME Tick PROVE Steady
  BY <1>13 DEF Tick
<1>14. QED
  BY <1>1, <1>2, <1>3, <1>4, <1>5, <1>6, <1>7, <1>8, <1>9, <1>10, <1>11, <1>12, <1>13
  DEF Next, Step


(* A row, once inserted, only ever changes its state.                      *)
LEMMA RowsAreKept ==
    ASSUME TypeOK, RequestsOK, Next, NEW slot \in Slots, reservations[slot].state # "absent"
    PROVE  /\ reservations'[slot].state # "absent"
           /\ reservations'[slot].content = reservations[slot].content
           /\ reservations'[slot].replaced = reservations[slot].replaced
           /\ reservations'[slot].expected = reservations[slot].expected
           /\ reservations'[slot].count = reservations[slot].count
           /\ reservations'[slot].expiresAt = reservations[slot].expiresAt
<1> reservations \in [Slots -> Reservations]
  BY DEF TypeOK
<1> reservations[slot] \in Reservations
  OBVIOUS
<1>1. CASE Quiet
  BY <1>1 DEF Quiet
<1>2. ASSUME NEW w \in Workers, Reserves(w)
      PROVE  reservations'[slot] = reservations[slot]
  BY <1>2 DEF Reserves, ReserveBatch, IsUnique
<1>3. ASSUME NEW w \in Workers, Completes(w)
      PROVE  \/ reservations'[slot] = reservations[slot]
             \/ reservations'[slot] = [reservations[slot] EXCEPT !.state = "completed"]
  BY <1>3 DEF Completes, CompleteBatch, Record
<1>4. ASSUME NEW w \in Workers, Expires(w)
      PROVE  \/ reservations'[slot] = reservations[slot]
             \/ reservations'[slot] = [reservations[slot] EXCEPT !.state = "expired"]
  BY <1>4 DEF Expires, ExpireBatch
<1>5. QED
  BY <1>1, <1>2, <1>3, <1>4, TableSteps DEF Steady, Reservations

-----------------------------------------------------------------------------
(***************************************************************************)
(* Type correctness.                                                       *)
(***************************************************************************)
LEMMA CountType == Cardinality(ArchiveKeys) \in Nat /\ 0..Cardinality(ArchiveKeys) \subseteq Nat
BY KeysAssumption, FS_CardinalityType

LEMMA TablesTyped ==
    ASSUME TypeOK, RequestsOK, Next
    PROVE  /\ reservations' \in [Slots -> Reservations]
           /\ ledger' \in [Machines -> [Keys -> Etags]]
           /\ indexEtag' \in [Machines -> Etags]
<1> USE DEF TypeOK
<1>1. CASE Quiet
  BY <1>1 DEF Quiet
<1>2. ASSUME NEW w \in Workers, Reserves(w)
      PROVE  reservations' \in [Slots -> Reservations] /\ UNCHANGED <<ledger, indexEtag>>
  <2> DEFINE slot == requests[w].slot
             input == requests[w].input
             row == [state |-> "pending", content |-> input.content,
                     replaced |-> Committed(slot), expected |-> input.expected,
                     count |-> input.count, expiresAt |-> requests[w].at + Lifetime]
  <2>1. slot \in Slots /\ input \in Inputs
    BY <1>2 DEF RequestsOK, RequestOK, Reserves, At
  <2>2. Committed(slot) \in Etags
    BY <2>1 DEF Committed, Slots
  <2>3. requests[w].at + Lifetime \in Nat
    BY TimeAssumption DEF Requests
  <2>4. input.content \in Etags /\ input.expected \in Etags /\ input.count \in Nat
    BY <2>1, CountType DEF Inputs, Etags
  <2>5. row \in Reservations
    BY <2>2, <2>3, <2>4 DEF Reservations
  <2>6. reservations' = [reservations EXCEPT ![slot] = row] /\ UNCHANGED <<ledger, indexEtag>>
    BY <1>2 DEF Reserves, ReserveBatch
  <2>7. QED
    BY <2>1, <2>5, <2>6
<1>3. ASSUME NEW w \in Workers, Completes(w)
      PROVE  /\ reservations' \in [Slots -> Reservations]
             /\ ledger' \in [Machines -> [Keys -> Etags]]
             /\ indexEtag' \in [Machines -> Etags]
  <2> DEFINE slot == requests[w].slot
  <2>1. slot \in Slots /\ requests[w].object \in Etags
    BY <1>3 DEF RequestsOK, RequestOK, HoldsRow, Completes, At, Requests
  <2>2. slot.machine \in Machines /\ slot.key \in Keys
    BY <2>1 DEF Slots
  <2>3. \/ UNCHANGED reservations
        \/ reservations' = [reservations EXCEPT ![slot].state = "completed"]
    BY <1>3 DEF Completes, CompleteBatch, Record
  <2>4. \/ UNCHANGED ledger
        \/ ledger' = [ledger EXCEPT ![slot.machine][slot.key] = requests[w].object]
    BY <1>3 DEF Completes, CompleteBatch, Record
  <2>5. \/ UNCHANGED indexEtag
        \/ indexEtag' = [indexEtag EXCEPT ![slot.machine] = requests[w].object]
    BY <1>3 DEF Completes, CompleteBatch
  <2>6. reservations' \in [Slots -> Reservations]
    BY <2>3, <2>1 DEF Reservations
  <2>7. ledger' \in [Machines -> [Keys -> Etags]]
    <3> DEFINE m == slot.machine
               k == slot.key
               etag == requests[w].object
    <3>1. m \in Machines /\ k \in Keys /\ etag \in Etags
      BY <2>1, <2>2
    <3>2. \/ UNCHANGED ledger
          \/ ledger' = [ledger EXCEPT ![m][k] = etag]
      BY <2>4
    <3> HIDE DEF m, k, etag
    <3>3. [ledger[m] EXCEPT ![k] = etag] \in [Keys -> Etags]
      BY <3>1
    <3>4. QED
      BY <3>1, <3>2, <3>3
  <2>8. QED
    BY <2>1, <2>2, <2>5, <2>6, <2>7
<1>4. ASSUME NEW w \in Workers, Expires(w)
      PROVE  reservations' \in [Slots -> Reservations] /\ UNCHANGED <<ledger, indexEtag>>
  <2>1. reservations' = [reservations EXCEPT ![requests[w].slot].state = "expired"]
    BY <1>4 DEF Expires, ExpireBatch
  <2>2. requests[w].slot \in Slots
    BY <1>4 DEF RequestsOK, RequestOK, HoldsRow, Expires, At
  <2>3. [reservations[requests[w].slot] EXCEPT !.state = "expired"] \in Reservations
    BY <2>2 DEF Reservations
  <2>4. QED
    BY <2>1, <2>2, <2>3, <1>4 DEF Expires, ExpireBatch
<1>5. QED
  BY <1>1, <1>2, <1>3, <1>4, TableSteps DEF Steady, Quiet
(* It is enough to look at the request that moves.                         *)
LEMMA OneMoves ==
    ASSUME TypeOK, RequestsOK, Next, NEW v \in Workers,
           requests' \in [Workers -> Requests],
           \A w \in Workers \ {v} : requests'[w] = requests[w],
           RequestOK(requests'[v], reservations')
    PROVE  RequestsOK'
<1> SUFFICES ASSUME NEW w \in Workers, w # v
             PROVE  RequestOK(requests'[w], reservations')
  BY DEF RequestsOK
<1>1. RequestOK(requests[w], reservations) /\ requests'[w] = requests[w]
  BY DEF RequestsOK
<1>2. CASE HoldsRow(requests[w])
  BY <1>1, <1>2, RowsAreKept DEF RequestOK, HoldsRow
<1>3. CASE ~HoldsRow(requests[w])
  BY <1>1, <1>3 DEF RequestOK
<1>4. QED
  BY <1>2, <1>3

LEMMA RequestsTyped ==
    ASSUME TypeOK, RequestsOK, Next
    PROVE  requests' \in [Workers -> Requests] /\ RequestsOK'
<1> USE DEF tables, outside
<1> /\ requests \in [Workers -> Requests]
    /\ reservations \in [Slots -> Reservations]
    /\ clock \in Nat
  BY DEF TypeOK
<1>0. ASSUME UNCHANGED requests
      PROVE  requests' \in [Workers -> Requests] /\ RequestsOK'
  BY <1>0, RowsAreKept DEF RequestsOK, RequestOK, HoldsRow
<1> DEFINE Fine(v) == /\ requests' \in [Workers -> Requests]
                      /\ \A w \in Workers \ {v} : requests'[w] = requests[w]
                      /\ RequestOK(requests'[v], reservations')
<1>1. ASSUME NEW w \in Workers, Respond(w) PROVE Fine(w)
  <2>1. Idle \in Requests /\ RequestOK(Idle, reservations')
    BY DEF Idle, Requests, RequestOK, HoldsRow, Etags
  <2>2. QED
    BY <1>1, <2>1 DEF Respond
<1> Idle \in Requests
  BY DEF Idle, Requests, Etags
<1>2. ASSUME NEW w \in Workers, StartReserve(w) \/ StartCron(w) PROVE Fine(w)
  <2>1. PICK op \in {"reserve", "cron"} : Start(w, op, "select", NoSlot)
    BY <1>2 DEF StartReserve, StartCron
  <2> DEFINE q == [Idle EXCEPT !.pc = "select", !.op = op, !.at = clock, !.slot = NoSlot]
  <2>2. requests' = [requests EXCEPT ![w] = q]
    BY <2>1 DEF Start
  <2>3. q \in Requests /\ q.pc = "select"
    BY DEF Requests
  <2>4. RequestOK(q, reservations')
    BY <2>3 DEF RequestOK, HoldsRow
  <2> HIDE DEF q
  <2>5. QED
    BY <2>2, <2>3, <2>4
<1>3. ASSUME NEW w \in Workers, NEW slot \in Slots, StartFinalize(w, slot) PROVE Fine(w)
  <2> DEFINE q == [Idle EXCEPT !.pc = "get", !.op = "finalize", !.at = clock, !.slot = slot]
  <2>1. requests' = [requests EXCEPT ![w] = q]
    BY <1>3 DEF StartFinalize, Start
  <2>2. reservations'[slot].state # "absent"
    BY <1>3 DEF StartFinalize, Start
  <2>3. q \in Requests /\ q.pc = "get" /\ q.slot = slot
    BY DEF Requests
  <2>4. RequestOK(q, reservations')
    BY <2>2, <2>3 DEF RequestOK, HoldsRow
  <2> HIDE DEF q
  <2>5. QED
    BY <2>1, <2>3, <2>4
<1>4. ASSUME NEW w \in Workers, SelectExpired(w) PROVE Fine(w)
  <2>1. PICK r \in Lapsed(requests[w].at) :
            requests' = [requests EXCEPT ![w].pc = "head", ![w].slot = r]
    BY <1>4 DEF SelectExpired
  <2>2. r \in Slots /\ reservations[r].state # "absent" /\ UNCHANGED reservations
    BY <1>4, <2>1 DEF SelectExpired, Lapsed, MayExpire, Pending
  <2> DEFINE q == [requests[w] EXCEPT !.pc = "head", !.slot = r]
  <2>3. q \in Requests /\ q.pc = "head" /\ q.slot = r
    BY <2>2 DEF Requests
  <2>4. RequestOK(q, reservations')
    BY <2>2, <2>3 DEF RequestOK, HoldsRow
  <2>5. requests' = [requests EXCEPT ![w] = q]
    BY <2>1
  <2> HIDE DEF q
  <2>6. QED
    BY <2>3, <2>4, <2>5
<1>5. ASSUME NEW w \in Workers, NoneExpired(w) PROVE Fine(w)
  BY <1>5 DEF NoneExpired, Goto, Requests, RequestOK, HoldsRow
<1>6. ASSUME NEW w \in Workers, HoldsRow(requests[w]),
             NEW pc \in {"head", "settle", "reread", "remove", "expire"}, Goto(w, pc)
      PROVE  Fine(w)
  <2>1. requests[w].slot \in Slots /\ reservations'[requests[w].slot].state # "absent"
    BY <1>6, RowsAreKept DEF RequestsOK, RequestOK
  <2>2. QED
    BY <1>6, <2>1 DEF Goto, Requests, RequestOK, HoldsRow
<1>7. ASSUME NEW w \in Workers, GetReservation(w) PROVE Fine(w)
  BY <1>1, <1>6, <1>7 DEF GetReservation, HoldsRow, At
<1>8. ASSUME NEW w \in Workers, HoldsRow(requests[w]), ExpireOrRespond(w) PROVE Fine(w)
  BY <1>1, <1>6, <1>8 DEF ExpireOrRespond
<1>9. ASSUME NEW w \in Workers, HeadObject(w) PROVE Fine(w)
  <2> DEFINE slot == requests[w].slot
  <2>1. HoldsRow(requests[w]) /\ UNCHANGED reservations
    BY <1>9 DEF HeadObject, At, HoldsRow
  <2>2. slot \in Slots /\ reservations[slot].state # "absent"
    BY <2>1 DEF RequestsOK, RequestOK
  <2>3. CASE Stored(slot) = Nil
    BY <1>8, <1>9, <2>1, <2>3 DEF HeadObject
  <2>4. CASE Stored(slot) # Nil
    <3>1. Stored(slot) \in Etags
      BY <2>2 DEF Stored, TypeOK, Slots
    <3>2. PICK pc \in {"settle", "remove"} :
              requests' = [requests EXCEPT ![w].object = Stored(slot), ![w].pc = pc]
      BY <1>9, <2>4 DEF HeadObject
    <3> DEFINE q == [requests[w] EXCEPT !.object = Stored(slot), !.pc = pc]
    <3>3. q \in Requests /\ q.pc = pc /\ q.slot = slot
      BY <3>1 DEF Requests
    <3>4. RequestOK(q, reservations')
      BY <2>1, <2>2, <3>3 DEF RequestOK, HoldsRow
    <3>5. requests' = [requests EXCEPT ![w] = q]
      BY <3>2
    <3> HIDE DEF q
    <3>6. QED
      BY <3>3, <3>4, <3>5
  <2>5. QED
    BY <2>3, <2>4
<1>10. ASSUME NEW w \in Workers, Settled(w) PROVE Fine(w)
  <2>1. CASE requests[w].op = "finalize"
    BY <1>1, <1>10, <2>1 DEF Settled, Respond
  <2>2. CASE requests[w].op # "finalize"
    <3> DEFINE q == [requests[w] EXCEPT !.pc = "select", !.slot = NoSlot, !.object = Nil]
    <3>1. q \in Requests /\ q.pc = "select"
      BY DEF Requests, Etags
    <3>2. RequestOK(q, reservations')
      BY <3>1 DEF RequestOK, HoldsRow
    <3>3. requests' = [requests EXCEPT ![w] = q]
      BY <1>10, <2>2 DEF Settled
    <3> HIDE DEF q
    <3>4. QED
      BY <3>1, <3>2, <3>3
  <2>3. QED
    BY <2>1, <2>2
<1>11. ASSUME NEW w \in Workers, Complete(w) \/ Reread(w) PROVE Fine(w)
  BY <1>6, <1>10, <1>11 DEF Complete, Reread, HoldsRow, At
<1>12. ASSUME NEW w \in Workers, RemoveUnexpected(w) PROVE Fine(w)
  BY <1>8, <1>12 DEF RemoveUnexpected, HoldsRow, At
<1>13. ASSUME NEW w \in Workers, Expire(w) PROVE Fine(w)
  BY <1>10, <1>13 DEF Expire
<1>14. ASSUME NEW w \in Workers, NEW slot \in Slots, NEW input \in Inputs,
              Lookup(w, slot, input)
       PROVE  Fine(w)
  <2>1. CASE Respond(w)
    BY <1>1, <2>1
  <2>2. CASE requests' = [requests EXCEPT ![w].pc = "insert", ![w].slot = slot,
                                          ![w].input = input]
    BY <1>14, <2>2 DEF Lookup, Requests, RequestOK, HoldsRow
  <2>3. CASE Pending(slot) /\ requests' = [requests EXCEPT ![w].pc = "sign", ![w].slot = slot]
    BY <1>14, <2>3 DEF Lookup, Pending, Requests, RequestOK, HoldsRow
  <2>4. QED
    BY <1>14, <2>1, <2>2, <2>3 DEF Lookup
<1>15. ASSUME NEW w \in Workers, Insert(w) PROVE Fine(w)
  <2> DEFINE slot == requests[w].slot
  <2>1. slot \in Slots
    BY <1>15 DEF Insert, At, RequestsOK, RequestOK
  <2>2. CASE Respond(w)
    BY <1>1, <2>2
  <2>3. CASE /\ requests' = [requests EXCEPT ![w].pc = "sign", ![w].input = NoInput]
             /\ reservations'[slot].state # "absent"
    <3> DEFINE q == [requests[w] EXCEPT !.pc = "sign", !.input = NoInput]
    <3>1. q \in Requests /\ q.pc = "sign" /\ q.slot = slot
      BY DEF Requests
    <3>2. RequestOK(q, reservations')
      BY <2>1, <2>3, <3>1 DEF RequestOK, HoldsRow
    <3>3. requests' = [requests EXCEPT ![w] = q]
      BY <2>3
    <3> HIDE DEF q
    <3>4. QED
      BY <3>1, <3>2, <3>3
  <2>4. ReserveBatch(slot, requests[w].input, requests[w].at)
            => reservations'[slot].state # "absent"
    BY <2>1 DEF ReserveBatch
  <2>5. Pending(slot) /\ UNCHANGED tables => reservations'[slot].state # "absent"
    BY DEF Pending
  <2>6. QED
    BY <1>15, <2>2, <2>3, <2>4, <2>5 DEF Insert
<1>16. ASSUME NEW w \in Workers, Sign(w) \/ ReconcileAccounting(w) \/ Abort(w) PROVE Fine(w)
  BY <1>1, <1>16 DEF Sign, ReconcileAccounting, Abort
<1>17. ASSUME NEW m \in Machines, CreateMachineRemote(m) PROVE UNCHANGED requests
  BY <1>17 DEF CreateMachineRemote
<1>18. ASSUME NEW slot \in Slots, Put(slot) PROVE UNCHANGED requests
  BY <1>18 DEF Put
<1>19. ASSUME Tick PROVE UNCHANGED requests
  BY <1>19 DEF Tick
<1>20. (UNCHANGED requests) \/ \E w \in Workers : Fine(w)
  <2> HIDE DEF Fine
  <2>1. QED
    BY <1>2, <1>3, <1>4, <1>5, <1>7, <1>9, <1>11, <1>12, <1>13, <1>14, <1>15, <1>16,
       <1>17, <1>18, <1>19 DEF Next, Step
<1>21. QED
  BY <1>0, <1>20, OneMoves

LEMMA OthersTyped ==
    ASSUME TypeOK, RequestsOK, Next
    PROVE  /\ registered' \subseteq Machines
           /\ bucket' \in [Machines -> [Keys -> Etags]]
           /\ signed' \subseteq Slots
           /\ clock' \in Nat
<1> USE DEF tables, outside
<1>1. ASSUME NEW m \in Machines, NEW k \in Keys, NEW etag \in Etags,
             bucket' = [bucket EXCEPT ![m][k] = etag]
      PROVE  bucket' \in [Machines -> [Keys -> Etags]]
  <2>1. [bucket[m] EXCEPT ![k] = etag] \in [Keys -> Etags]
    BY DEF TypeOK
  <2>2. QED
    BY <1>1, <2>1 DEF TypeOK
<1>2. ASSUME NEW m \in Machines, CreateMachineRemote(m)
      PROVE  registered' \subseteq Machines /\ UNCHANGED <<bucket, signed, clock>>
  BY <1>2 DEF CreateMachineRemote, TypeOK
<1>3. ASSUME NEW w \in Workers, RemoveUnexpected(w)
      PROVE  /\ bucket' \in [Machines -> [Keys -> Etags]]
             /\ UNCHANGED <<registered, signed, clock>>
  <2> DEFINE slot == requests[w].slot
  <2>1. slot.machine \in Machines /\ slot.key \in Keys
    BY <1>3 DEF RemoveUnexpected, At, RequestsOK, RequestOK, HoldsRow, Slots
  <2>2. \/ UNCHANGED bucket
        \/ bucket' = [bucket EXCEPT ![slot.machine][slot.key] = Nil]
    BY <1>3 DEF RemoveUnexpected
  <2>3. QED
    BY <1>1, <1>3, <2>1, <2>2 DEF RemoveUnexpected, TypeOK, Etags
<1>4. ASSUME NEW slot \in Slots, Put(slot)
      PROVE  /\ bucket' \in [Machines -> [Keys -> Etags]]
             /\ UNCHANGED <<registered, signed, clock>>
  <2>1. /\ slot.machine \in Machines /\ slot.key \in Keys
        /\ reservations[slot].content \in Etags
    BY DEF TypeOK, Slots, Reservations
  <2>2. bucket' = [bucket EXCEPT ![slot.machine][slot.key] = reservations[slot].content]
    BY <1>4 DEF Put
  <2>3. QED
    BY <1>1, <1>4, <2>1, <2>2 DEF Put
<1>5. ASSUME NEW w \in Workers, Sign(w)
      PROVE  signed' \subseteq Slots /\ UNCHANGED <<registered, bucket, clock>>
  BY <1>5 DEF Sign, At, RequestsOK, RequestOK, HoldsRow, TypeOK
<1>6. ASSUME Tick PROVE clock' \in Nat /\ UNCHANGED <<registered, bucket, signed>>
  BY <1>6 DEF Tick, TypeOK
<1> DEFINE Still == UNCHANGED <<registered, bucket, signed, clock>>
<1>7. ASSUME NEW w \in Workers,
             \/ StartReserve(w) \/ StartCron(w) \/ SelectExpired(w) \/ NoneExpired(w)
             \/ \E slot \in Slots : StartFinalize(w, slot)
      PROVE  Still
  BY <1>7 DEF StartReserve, StartCron, StartFinalize, Start, SelectExpired, NoneExpired
<1>8. ASSUME NEW w \in Workers,
             GetReservation(w) \/ HeadObject(w) \/ Reread(w) \/ Abort(w) \/ ReconcileAccounting(w)
      PROVE  Still
  BY <1>8 DEF GetReservation, HeadObject, Reread, Abort, ReconcileAccounting
<1>9. ASSUME NEW w \in Workers, Complete(w) \/ Expire(w) PROVE Still
  BY <1>9 DEF Complete, CompleteBatch, Expire, ExpireBatch
<1>10. ASSUME NEW w \in Workers,
              Insert(w) \/ \E slot \in Slots, input \in Inputs : Lookup(w, slot, input)
       PROVE  Still
  BY <1>10 DEF Insert, ReserveBatch, Lookup
<1>11. \/ Still
       \/ \E m \in Machines : CreateMachineRemote(m)
       \/ \E w \in Workers : RemoveUnexpected(w) \/ Sign(w)
       \/ \E slot \in Slots : Put(slot)
       \/ Tick
  <2> HIDE DEF Still
  <2>1. QED
    BY <1>7, <1>8, <1>9, <1>10 DEF Next, Step
<1>12. QED
  BY <1>2, <1>3, <1>4, <1>5, <1>6, <1>11 DEF TypeOK

LEMMA InitTyped == Init => TypeOK /\ RequestsOK
<1> SUFFICES ASSUME Init PROVE TypeOK /\ RequestsOK
  OBVIOUS
<1>1. Absent \in Reservations
  BY DEF Absent, Reservations, Etags
<1>2. Idle \in Requests /\ RequestOK(Idle, reservations)
  BY DEF Idle, Requests, RequestOK, HoldsRow, Etags
<1>3. QED
  BY <1>1, <1>2 DEF Init, TypeOK, RequestsOK, Etags

LEMMA StepTyped == TypeOK /\ RequestsOK /\ [Next]_vars => (TypeOK /\ RequestsOK)'
<1>1. ASSUME TypeOK, RequestsOK, Next PROVE (TypeOK /\ RequestsOK)'
  BY <1>1, TablesTyped, RequestsTyped, OthersTyped DEF TypeOK
<1>2. ASSUME TypeOK, RequestsOK, UNCHANGED vars PROVE (TypeOK /\ RequestsOK)'
  BY <1>2 DEF vars, tables, outside, TypeOK, RequestsOK, RequestOK, HoldsRow
<1>3. QED
  BY <1>1, <1>2

(* Every state of the tables, of the bucket and of the requests is of its  *)
(* type, and a request past its lookup always holds a row that exists.     *)
THEOREM TypeCorrect == Spec => [](TypeOK /\ RequestsOK)
<1>1. QED
  BY InitTyped, StepTyped, PTL DEF Spec

-----------------------------------------------------------------------------
(***************************************************************************)
(* Archives first, index last.                                             *)
(***************************************************************************)
ArchiveRowOf(slot) ==
    {r \in Slots : r.machine = slot.machine /\ r.sweep = slot.sweep /\ ~IsIndex(r)}

LEMMA SameArchives ==
    ASSUME NEW slot \in Slots,
           \A r \in ArchiveRowOf(slot) : reservations'[r].state = reservations[r].state
    PROVE  ArchivesIn(slot)' = ArchivesIn(slot) /\ CompletedIn(slot)' = CompletedIn(slot)
BY DEF ArchiveRowOf, ArchivesIn, CompletedIn, IsIndex

LEMMA ArchivesFinite ==
    ASSUME NEW slot \in Slots
    PROVE  IsFiniteSet(ArchivesIn(slot)) /\ CompletedIn(slot) \subseteq ArchivesIn(slot)
<1> DEFINE Named == {[machine |-> slot.machine, sweep |-> slot.sweep, key |-> k] : k \in ArchiveKeys}
<1>1. IsFiniteSet(Named)
  <2> DEFINE F == [k \in ArchiveKeys |-> [machine |-> slot.machine, sweep |-> slot.sweep, key |-> k]]
  <2>1. F \in Surjection(ArchiveKeys, Named)
    BY DEF Surjection
  <2>2. QED
    BY <2>1, KeysAssumption, FS_Surjection
<1>2. ArchivesIn(slot) \subseteq Named
  BY DEF ArchivesIn, Slots, Keys, IsIndex
<1>3. QED
  BY <1>1, <1>2, FS_Subset DEF CompletedIn

(* Equal counts of a set and of its subset mean equal sets.                *)
LEMMA CountsAgree ==
    ASSUME NEW slot \in Slots, Cardinality(CompletedIn(slot)) = Cardinality(ArchivesIn(slot))
    PROVE  ArchivesIn(slot) = CompletedIn(slot)
BY ArchivesFinite, FS_Subset

LEMMA SweepStep ==
    ASSUME TypeOK, RequestsOK, SweepFrozen, Next
    PROVE  SweepFrozen'
<1> SUFFICES ASSUME NEW slot \in Slots, IsIndex(slot), reservations'[slot].state # "absent"
             PROVE  /\ ArchivesIn(slot)' = CompletedIn(slot)'
                    /\ Cardinality(ArchivesIn(slot)') = reservations'[slot].count
  BY DEF SweepFrozen, IsIndex
<1> reservations \in [Slots -> Reservations]
  BY DEF TypeOK
<1> DEFINE Unmoved == \A r \in ArchiveRowOf(slot) : reservations'[r].state = reservations[r].state
<1>1. ASSUME reservations[slot].state # "absent", Unmoved
      PROVE  /\ ArchivesIn(slot)' = CompletedIn(slot)'
             /\ Cardinality(ArchivesIn(slot)') = reservations'[slot].count
  <2>1. ArchivesIn(slot)' = ArchivesIn(slot) /\ CompletedIn(slot)' = CompletedIn(slot)
    BY <1>1, SameArchives
  <2>2. ArchivesIn(slot) = CompletedIn(slot) /\ Cardinality(ArchivesIn(slot)) = reservations[slot].count
    BY <1>1 DEF SweepFrozen
  <2>3. reservations'[slot].count = reservations[slot].count
    BY <1>1, RowsAreKept
  <2>4. QED
    BY <2>1, <2>2, <2>3
<1>2. ASSUME reservations[slot].state # "absent", NEW r \in ArchiveRowOf(slot), Pending(r)
      PROVE  FALSE
  <2>1. r \in ArchivesIn(slot) /\ r \notin CompletedIn(slot)
    BY <1>2 DEF ArchiveRowOf, ArchivesIn, CompletedIn, Pending
  <2>2. QED
    BY <1>2, <2>1 DEF SweepFrozen
<1>3. CASE Quiet
  BY <1>1, <1>3 DEF Quiet
<1>4. ASSUME NEW w \in Workers, Reserves(w)
      PROVE  /\ ArchivesIn(slot)' = CompletedIn(slot)'
             /\ Cardinality(ArchivesIn(slot)') = reservations'[slot].count
  <2> DEFINE r == requests[w].slot
             input == requests[w].input
  <2>1. r \in Slots /\ input \in Inputs
    BY <1>4 DEF RequestsOK, RequestOK, Reserves, At
  <2>2. /\ \A q \in Slots \ {r} : reservations'[q] = reservations[q]
        /\ reservations'[r].count = input.count
        /\ Admits(r, input, requests[w].at)
    BY <1>4, <2>1 DEF Reserves, ReserveBatch
  <2>3. CASE r = slot
    <3>1. ArchivesIn(slot)' = ArchivesIn(slot) /\ CompletedIn(slot)' = CompletedIn(slot)
      BY <2>2, <2>3, SameArchives DEF ArchiveRowOf
    <3>2. AdmitsIndex(slot, input, requests[w].at)
      BY <2>2, <2>3 DEF Admits
    <3>3. Cardinality(CompletedIn(slot)) = input.count /\ Cardinality(ArchivesIn(slot)) = input.count
      BY <3>2 DEF AdmitsIndex
    <3>4. QED
      BY <2>2, <2>3, <3>1, <3>3, CountsAgree
  <2>4. CASE r # slot
    <3>1. reservations[slot].state # "absent"
      BY <2>2, <2>4
    <3>2. r \notin ArchiveRowOf(slot)
      <4>1. SUFFICES ASSUME r \in ArchiveRowOf(slot) PROVE FALSE
        OBVIOUS
      <4>2. [r EXCEPT !.key = Index] = slot
        BY <2>1, <4>1 DEF ArchiveRowOf, Slots, IsIndex
      <4>3. AdmitsArchive(r, requests[w].at)
        BY <2>2, <4>1 DEF Admits, ArchiveRowOf
      <4>4. QED
        BY <3>1, <4>2, <4>3 DEF AdmitsArchive
    <3>3. QED
      BY <1>1, <2>2, <3>1, <3>2 DEF ArchiveRowOf
  <2>5. QED
    BY <2>3, <2>4
<1>5. ASSUME NEW w \in Workers, Completes(w) \/ Expires(w)
      PROVE  /\ ArchivesIn(slot)' = CompletedIn(slot)'
             /\ Cardinality(ArchivesIn(slot)') = reservations'[slot].count
  <2> DEFINE r == requests[w].slot
  <2>1. r \in Slots /\ reservations[r].state # "absent"
    BY <1>5 DEF RequestsOK, RequestOK, HoldsRow, Completes, Expires, At
  <2>2. /\ \A q \in Slots \ {r} : reservations'[q] = reservations[q]
        /\ reservations'[r] = reservations[r] \/ Pending(r)
    BY <1>5, <2>1 DEF Completes, CompleteBatch, Record, MayComplete, Expires, ExpireBatch, MayExpire
  <2>3. reservations[slot].state # "absent"
    BY <2>1, <2>2
  <2>4. Unmoved
    BY <1>2, <2>2, <2>3 DEF ArchiveRowOf
  <2>5. QED
    BY <1>1, <2>3, <2>4
<1>6. QED
  BY <1>3, <1>4, <1>5, TableSteps DEF Steady

(* Once a sweep's index is reserved, the sweep's archives are committed,   *)
(* as many as declared, and stay so: what reserveUpload's archives_pending,*)
(* sweep_incomplete, index_pending and sweep_closed refusals are for.      *)
THEOREM ArchivesBeforeIndex == Spec => []SweepFrozen
<1>1. Init => SweepFrozen
  BY DEF Init, SweepFrozen, Absent
<1>2. TypeOK /\ RequestsOK /\ SweepFrozen /\ [Next]_vars => SweepFrozen'
  <2>1. ASSUME SweepFrozen, UNCHANGED vars PROVE SweepFrozen'
    BY <2>1 DEF vars, tables, SweepFrozen, ArchivesIn, CompletedIn, IsIndex
  <2>2. QED
    BY <2>1, SweepStep
<1>3. QED
  BY <1>1, <1>2, TypeCorrect, PTL DEF Spec

-----------------------------------------------------------------------------
(***************************************************************************)
(* What a pending reservation captured stays true.  The published index    *)
(* only moves forward when finalization can tell one ciphertext from       *)
(* another: then every index reservation commits a ciphertext of its own,  *)
(* and a late finalization of a completed index can never find its         *)
(* expected ETag published again.                                          *)
(***************************************************************************)
OnePending ==
    \A r, q \in Slots : SameObject(r, q) /\ Pending(r) /\ Pending(q) => r = q

OwnCiphertext ==
    \A r \in Slots :
        reservations[r].state # "absent" => reservations[r].content \in Ciphertexts[r.sweep]

PublishedBy(p, m, etag) ==
    /\ IsIndex(p) /\ p.machine = m
    /\ reservations[p].state = "completed"
    /\ reservations[p].content = etag

HeadWasReserved ==
    \A m \in Machines : indexEtag[m] # Nil => \E p \in Slots : PublishedBy(p, m, indexEtag[m])

BaseWasPublished ==
    \A r \in Slots :
        IsIndex(r) /\ reservations[r].state # "absent" /\ reservations[r].expected # Nil =>
            \E p \in Slots \ {r} : PublishedBy(p, r.machine, reservations[r].expected)

HeadHasMoved ==
    \A r \in Slots :
        IsIndex(r) /\ reservations[r].state = "completed" =>
            indexEtag[r.machine] # reservations[r].expected

SettlesOwn ==
    \A w \in Workers :
        At(w, "settle") => requests[w].object = reservations[requests[w].slot].content

Chain == /\ OnePending /\ OwnCiphertext /\ HeadWasReserved /\ BaseWasPublished
         /\ HeadHasMoved /\ SettlesOwn

IndexInv == TypeOK /\ RequestsOK /\ Chain /\ PendingIsCurrent /\ IndexEtagIsCommitted

(* Two index reservations of one machine never share a ciphertext.         *)
LEMMA DistinctIndexes ==
    ASSUME OwnCiphertext, NEW r \in Slots, NEW p \in Slots, r # p,
           IsIndex(r), IsIndex(p), r.machine = p.machine,
           reservations[r].state # "absent", reservations[p].state # "absent"
    PROVE  reservations[r].content # reservations[p].content
<1>1. r.sweep # p.sweep
  BY DEF IsIndex, Slots
<1>2. r.sweep \in Sweeps /\ p.sweep \in Sweeps
  BY DEF Slots
<1>3. /\ reservations[r].content \in Ciphertexts[r.sweep]
      /\ reservations[p].content \in Ciphertexts[p.sweep]
  BY DEF OwnCiphertext
<1>4. QED
  BY <1>1, <1>2, <1>3, CiphertextsAssumption

LEMMA NotNil ==
    ASSUME OwnCiphertext, NEW r \in Slots, reservations[r].state # "absent"
    PROVE  reservations[r].content \in Contents /\ reservations[r].content # Nil
BY CiphertextsAssumption, NilAssumption DEF OwnCiphertext, Slots

(* A published ETag is not one that r has been reserved on, unless r's own.*)
LEMMA NeverAgain ==
    ASSUME IndexInv, NEW r \in Slots, NEW q \in Slots, IsIndex(r), IsIndex(q),
           r.machine = q.machine, reservations[r].state # "absent", Pending(q)
    PROVE  reservations[q].content # reservations[r].expected
<1> USE DEF IndexInv, Chain
<1>1. CASE reservations[r].expected = Nil
  BY <1>1, NotNil DEF Pending
<1>2. CASE reservations[r].expected # Nil
  <2>1. PICK p \in Slots : PublishedBy(p, r.machine, reservations[r].expected)
    BY <1>2 DEF BaseWasPublished
  <2>2. p # q
    BY <2>1 DEF PublishedBy, Pending
  <2>3. QED
    BY <2>1, <2>2, DistinctIndexes DEF PublishedBy, Pending
<1>3. QED
  BY <1>1, <1>2

(* A completion under the invariant: it commits the reserved ciphertext of *)
(* a pending row, or changes nothing.                                      *)
Commits(r) ==
    /\ Pending(r)
    /\ IsIndex(r) => indexEtag[r.machine] = reservations[r].expected
    /\ reservations' = [reservations EXCEPT ![r].state = "completed"]
    /\ ledger' = [ledger EXCEPT ![r.machine][r.key] = reservations[r].content]
    /\ indexEtag' = IF IsIndex(r) THEN [indexEtag EXCEPT ![r.machine] = reservations[r].content]
                                  ELSE indexEtag

LEMMA CompletesCommits ==
    ASSUME IndexInv, NEW w \in Workers, Completes(w)
    PROVE  requests[w].slot \in Slots /\ (Quiet \/ Commits(requests[w].slot))
<1> USE DEF IndexInv, Chain
<1> DEFINE r == requests[w].slot
<1>1. r \in Slots /\ reservations[r].state # "absent"
  BY DEF Completes, At, RequestsOK, RequestOK, HoldsRow
<1>2. requests[w].object = reservations[r].content
  BY DEF Completes, SettlesOwn
<1>3. CompleteBatch(r, reservations[r].content)
  BY <1>2 DEF Completes
<1> HIDE DEF r
<1>4. CASE MayComplete(r)
  <2>1. reservations'[r].state = "completed"
    BY <1>1, <1>3, <1>4 DEF CompleteBatch, Record, TypeOK, Reservations
  <2>2. MovesIndex(r, reservations'[r].state) <=> IsIndex(r)
    BY <1>4, <2>1 DEF MovesIndex, MayComplete
  <2>3. QED
    BY <1>1, <1>3, <1>4, <2>2 DEF CompleteBatch, Record, MayComplete, Commits, r
<1>5. CASE ~MayComplete(r)
  <2>1. UNCHANGED <<ledger, account, reservations>>
    BY <1>3, <1>5 DEF CompleteBatch
  <2>2. ~MovesIndex(r, reservations'[r].state)
    BY <1>1, <2>1 DEF MovesIndex, HeadHasMoved
  <2>3. QED
    BY <1>1, <1>3, <2>1, <2>2 DEF CompleteBatch, Quiet, r
<1>6. QED
  BY <1>4, <1>5

(* A request comes to settle a row with the object that head returned, if  *)
(* that matches the row.                                                   *)
LEMMA Settling ==
    ASSUME TypeOK, RequestsOK, Next, NEW u \in Workers, requests'[u].pc = "settle"
    PROVE  \/ requests'[u] = requests[u]
           \/ /\ requests'[u].slot \in Slots
              /\ reservations[requests'[u].slot].state # "absent"
              /\ requests'[u].object # Nil
              /\ Matches(requests'[u].object, reservations[requests'[u].slot])
<1> USE DEF tables, outside
<1> requests \in [Workers -> Requests] /\ Idle.pc # "settle"
  BY DEF TypeOK, Idle
<1> DEFINE Kept(v) == \A w \in Workers :
                         requests'[w].pc = "settle" => requests'[w] = requests[w]
<1>1. ASSUME NEW v \in Workers, Respond(v) PROVE Kept(v)
  BY <1>1 DEF Respond
<1>2. ASSUME NEW v \in Workers, NEW op \in {"reserve", "cron", "finalize"},
             NEW pc \in {"select", "get"}, NEW slot, Start(v, op, pc, slot)
      PROVE  Kept(v)
  BY <1>2 DEF Start, Idle
<1>3. ASSUME NEW v \in Workers, StartReserve(v) \/ StartCron(v) PROVE Kept(v)
  BY <1>2, <1>3 DEF StartReserve, StartCron
<1>4. ASSUME NEW v \in Workers, NEW slot \in Slots, StartFinalize(v, slot) PROVE Kept(v)
  BY <1>2, <1>4 DEF StartFinalize
<1>5. ASSUME NEW v \in Workers, NEW pc, pc # "settle", Goto(v, pc) PROVE Kept(v)
  BY <1>5 DEF Goto, Requests
<1>6. ASSUME NEW v \in Workers, Settled(v) PROVE Kept(v)
  BY <1>1, <1>6 DEF Settled, Requests
<1>7. ASSUME NEW v \in Workers, SelectExpired(v) PROVE Kept(v)
  BY <1>7 DEF SelectExpired, Requests
<1>8. ASSUME NEW v \in Workers, NoneExpired(v) \/ GetReservation(v) PROVE Kept(v)
  BY <1>1, <1>5, <1>8 DEF NoneExpired, GetReservation
<1>9. ASSUME NEW v \in Workers, ExpireOrRespond(v) PROVE Kept(v)
  BY <1>1, <1>5, <1>9 DEF ExpireOrRespond
<1>10. ASSUME NEW v \in Workers, Complete(v) \/ Reread(v) PROVE Kept(v)
  BY <1>5, <1>6, <1>10 DEF Complete, Reread
<1>11. ASSUME NEW v \in Workers, RemoveUnexpected(v) \/ Expire(v) PROVE Kept(v)
  BY <1>6, <1>9, <1>11 DEF RemoveUnexpected, Expire
<1>12. ASSUME NEW v \in Workers, NEW slot \in Slots, NEW input \in Inputs,
              Lookup(v, slot, input)
       PROVE  Kept(v)
  BY <1>1, <1>12 DEF Lookup, Requests
<1>13. ASSUME NEW v \in Workers, Insert(v) PROVE Kept(v)
  BY <1>1, <1>13 DEF Insert, Requests
<1>14. ASSUME NEW v \in Workers, Sign(v) \/ ReconcileAccounting(v) \/ Abort(v) PROVE Kept(v)
  BY <1>1, <1>14 DEF Sign, ReconcileAccounting, Abort
<1>15. ASSUME NEW v \in Workers, HeadObject(v), NEW w \in Workers, requests'[w].pc = "settle"
       PROVE  \/ requests'[w] = requests[w]
              \/ /\ requests'[w].slot \in Slots
                 /\ reservations[requests'[w].slot].state # "absent"
                 /\ requests'[w].object # Nil
                 /\ Matches(requests'[w].object, reservations[requests'[w].slot])
  <2> DEFINE slot == requests[v].slot
  <2>1. slot \in Slots /\ reservations[slot].state # "absent"
    BY <1>15 DEF HeadObject, At, RequestsOK, RequestOK, HoldsRow
  <2>2. CASE Stored(slot) = Nil
    BY <1>9, <1>15, <2>2 DEF HeadObject
  <2>3. CASE Stored(slot) # Nil /\ Matches(Stored(slot), reservations[slot])
    <3>1. requests' = [requests EXCEPT ![v].object = Stored(slot), ![v].pc = "settle"]
      BY <1>15, <2>3 DEF HeadObject
    <3>2. QED
      BY <1>15, <2>1, <2>3, <3>1 DEF Requests
  <2>4. CASE Stored(slot) # Nil /\ ~Matches(Stored(slot), reservations[slot])
    <3>1. requests' = [requests EXCEPT ![v].object = Stored(slot), ![v].pc = "remove"]
      BY <1>15, <2>4 DEF HeadObject
    <3>2. QED
      BY <1>15, <3>1 DEF Requests
  <2>5. QED
    BY <2>2, <2>3, <2>4
<1>16. ASSUME \/ \E m \in Machines : CreateMachineRemote(m)
              \/ \E slot \in Slots : Put(slot)
              \/ Tick
       PROVE  UNCHANGED requests
  BY <1>16 DEF CreateMachineRemote, Put, Tick
<1>. QED
  BY <1>3, <1>4, <1>7, <1>8, <1>10, <1>11, <1>12, <1>13, <1>14, <1>15, <1>16 DEF Next, Step

LEMMA SettlesOwnStep ==
    ASSUME HeadShowsChecksum, TypeOK, RequestsOK, SettlesOwn, Next
    PROVE  SettlesOwn'
<1>. SUFFICES ASSUME NEW w \in Workers, requests'[w].pc = "settle"
              PROVE  requests'[w].object = reservations'[requests'[w].slot].content
  BY DEF SettlesOwn, At
<1>1. CASE requests'[w] = requests[w]
  <2>1. requests[w].slot \in Slots /\ reservations[requests[w].slot].state # "absent"
    BY <1>1 DEF RequestsOK, RequestOK, HoldsRow
  <2>2. QED
    BY <1>1, <2>1, RowsAreKept DEF SettlesOwn, At
<1>2. CASE requests'[w] # requests[w]
  BY <1>2, Settling, RowsAreKept DEF Matches
<1>. QED
  BY <1>1, <1>2

LEMMA ReservesChain ==
    ASSUME IndexInv, Next, NEW w \in Workers, Reserves(w)
    PROVE  /\ OnePending' /\ OwnCiphertext' /\ HeadWasReserved' /\ BaseWasPublished'
           /\ HeadHasMoved' /\ PendingIsCurrent' /\ IndexEtagIsCommitted'
<1> USE DEF IndexInv, Chain
<1> DEFINE r == requests[w].slot
           input == requests[w].input
<1>1. /\ r \in Slots /\ input \in Inputs
      /\ input.content \in Ciphertexts[r.sweep]
  BY DEF RequestsOK, RequestOK, Reserves, At
<1>2. /\ reservations[r].state = "absent"
      /\ \A q \in Slots : SameObject(q, r) => ~Pending(q)
      /\ IsIndex(r) => indexEtag[r.machine] = input.expected
      /\ UNCHANGED <<ledger, indexEtag>>
  BY DEF Reserves, IsUnique, Admits, AdmitsIndex, ReserveBatch
<1>3. /\ \A q \in Slots \ {r} : reservations'[q] = reservations[q]
      /\ reservations'[r].state = "pending"
      /\ reservations'[r].content = input.content
      /\ reservations'[r].replaced = Committed(r)
      /\ reservations'[r].expected = input.expected
  BY <1>1 DEF Reserves, ReserveBatch, TypeOK
<1> HIDE DEF r, input, IndexInv, Chain
<1>4. OnePending'
  BY <1>2, <1>3 DEF IndexInv, Chain, OnePending, Pending, SameObject
<1>5. OwnCiphertext'
  BY <1>1, <1>3 DEF IndexInv, Chain, OwnCiphertext
<1>6. \A p \in Slots : reservations[p].state = "completed" =>
                          p # r /\ reservations'[p] = reservations[p]
  BY <1>2, <1>3
<1>7. HeadWasReserved'
  BY <1>2, <1>6 DEF IndexInv, Chain, HeadWasReserved, PublishedBy, IsIndex
<1>8. BaseWasPublished'
  <2> SUFFICES ASSUME NEW q \in Slots, IsIndex(q), reservations'[q].state # "absent",
                      reservations'[q].expected # Nil
               PROVE  \E p \in Slots \ {q} :
                          /\ IsIndex(p) /\ p.machine = q.machine
                          /\ reservations'[p].state = "completed"
                          /\ reservations'[p].content = reservations'[q].expected
    BY DEF BaseWasPublished, PublishedBy, IsIndex
  <2>1. CASE q = r
    <3>1. q.machine \in Machines /\ input.expected = indexEtag[q.machine]
      BY <1>2, <2>1 DEF Slots
    <3>2. PICK p \in Slots : PublishedBy(p, q.machine, indexEtag[q.machine])
      BY <1>3, <2>1, <3>1 DEF IndexInv, Chain, HeadWasReserved
    <3>3. QED
      BY <1>3, <1>6, <2>1, <3>1, <3>2 DEF PublishedBy
  <2>2. CASE q # r
    <3>1. PICK p \in Slots \ {q} : PublishedBy(p, q.machine, reservations[q].expected)
      BY <1>3, <2>2 DEF IndexInv, Chain, BaseWasPublished
    <3>2. QED
      BY <1>3, <1>6, <2>2, <3>1 DEF PublishedBy
  <2>3. QED
    BY <2>1, <2>2
<1>9. HeadHasMoved'
  BY <1>2, <1>3 DEF IndexInv, Chain, HeadHasMoved, IsIndex
<1>10. PendingIsCurrent'
  BY <1>2, <1>3 DEF IndexInv, PendingIsCurrent, Pending, Committed, IsIndex
<1>11. IndexEtagIsCommitted'
  BY <1>2 DEF IndexInv, IndexEtagIsCommitted
<1>12. QED
  BY <1>4, <1>5, <1>7, <1>8, <1>9, <1>10, <1>11

LEMMA CommitsChain ==
    ASSUME IndexInv, NEW r \in Slots, Commits(r)
    PROVE  /\ OnePending' /\ OwnCiphertext' /\ HeadWasReserved' /\ BaseWasPublished'
           /\ HeadHasMoved' /\ PendingIsCurrent' /\ IndexEtagIsCommitted'
<1> USE DEF IndexInv, Chain
<1>1. /\ \A q \in Slots \ {r} : reservations'[q] = reservations[q]
      /\ reservations'[r] = [reservations[r] EXCEPT !.state = "completed"]
      /\ Pending(r)
  BY DEF Commits, TypeOK
<1>2. /\ reservations'[r].state = "completed"
      /\ reservations'[r].content = reservations[r].content
      /\ reservations'[r].expected = reservations[r].expected
  BY <1>1 DEF TypeOK, Reservations
<1>3. r.machine \in Machines /\ r.key \in Keys
  BY DEF Slots
<1>4. \A m \in Machines, k \in Keys :
          ledger'[m][k] = IF m = r.machine /\ k = r.key THEN reservations[r].content
                                                       ELSE ledger[m][k]
  <2>1. ledger \in [Machines -> [Keys -> Etags]]
    BY DEF TypeOK
  <2>2. QED
    BY <1>3, <2>1 DEF Commits
<1>5. \A m \in Machines :
          indexEtag'[m] = IF IsIndex(r) /\ m = r.machine THEN reservations[r].content
                                                         ELSE indexEtag[m]
  BY <1>3 DEF Commits, TypeOK
<1>6. \A q \in Slots : SameObject(q, r) /\ Pending(q) => q = r
  BY <1>1 DEF OnePending
<1> HIDE DEF IndexInv, Chain
<1>7. OnePending'
  BY <1>1, <1>2 DEF IndexInv, Chain, OnePending, Pending, SameObject
<1>8. OwnCiphertext'
  BY <1>1, <1>2 DEF IndexInv, Chain, OwnCiphertext, Pending
<1>9. \A p \in Slots : reservations[p].state = "completed" =>
                          reservations'[p] = reservations[p]
  BY <1>1 DEF Pending
<1>10. HeadWasReserved'
  BY <1>2, <1>5, <1>9 DEF IndexInv, Chain, HeadWasReserved, PublishedBy, IsIndex
<1>11. BaseWasPublished'
  <2> SUFFICES ASSUME NEW q \in Slots, IsIndex(q), reservations'[q].state # "absent",
                      reservations'[q].expected # Nil
               PROVE  \E p \in Slots \ {q} :
                          /\ IsIndex(p) /\ p.machine = q.machine
                          /\ reservations'[p].state = "completed"
                          /\ reservations'[p].content = reservations'[q].expected
    BY DEF BaseWasPublished, PublishedBy, IsIndex
  <2>1. reservations'[q].expected = reservations[q].expected /\ reservations[q].state # "absent"
    BY <1>1, <1>2 DEF Pending
  <2>2. PICK p \in Slots \ {q} : PublishedBy(p, q.machine, reservations[q].expected)
    BY <2>1 DEF IndexInv, Chain, BaseWasPublished
  <2>3. QED
    BY <1>9, <2>1, <2>2 DEF PublishedBy
<1>12. HeadHasMoved'
  <2> SUFFICES ASSUME NEW q \in Slots, IsIndex(q), reservations'[q].state = "completed"
               PROVE  indexEtag'[q.machine] # reservations'[q].expected
    BY DEF HeadHasMoved, IsIndex
  <2>1. /\ reservations[q].state # "absent" /\ q.machine \in Machines
        /\ reservations'[q].expected = reservations[q].expected
    BY <1>1, <1>2 DEF Pending, Slots
  <2>2. CASE IsIndex(r) /\ q.machine = r.machine
    BY <1>1, <1>5, <2>1, <2>2, NeverAgain
  <2>3. CASE ~(IsIndex(r) /\ q.machine = r.machine)
    BY <1>1, <1>5, <2>1, <2>3 DEF IndexInv, Chain, HeadHasMoved
  <2>4. QED
    BY <2>2, <2>3
<1>13. PendingIsCurrent'
  <2> SUFFICES ASSUME NEW q \in Slots, reservations'[q].state = "pending"
               PROVE  /\ reservations'[q].replaced = ledger'[q.machine][q.key]
                      /\ IsIndex(q) => reservations'[q].expected = indexEtag'[q.machine]
    BY DEF PendingIsCurrent, Pending, Committed, IsIndex
  <2>1. q # r /\ reservations'[q] = reservations[q] /\ Pending(q)
    BY <1>1, <1>2 DEF Pending
  <2>2. ~SameObject(q, r)
    BY <1>6, <2>1
  <2>3. q.machine \in Machines /\ q.key \in Keys
    BY DEF Slots
  <2>4. ledger'[q.machine][q.key] = ledger[q.machine][q.key]
    BY <1>4, <2>2, <2>3 DEF SameObject
  <2>5. IsIndex(q) => indexEtag'[q.machine] = indexEtag[q.machine]
    BY <1>5, <2>2, <2>3 DEF SameObject, IsIndex
  <2>6. QED
    BY <2>1, <2>4, <2>5 DEF IndexInv, PendingIsCurrent, Committed
<1>14. IndexEtagIsCommitted'
  BY <1>3, <1>4, <1>5 DEF IndexInv, IndexEtagIsCommitted, IsIndex, Keys
<1>15. QED
  BY <1>7, <1>8, <1>10, <1>11, <1>12, <1>13, <1>14

LEMMA ExpiresChain ==
    ASSUME IndexInv, NEW w \in Workers, Expires(w)
    PROVE  /\ OnePending' /\ OwnCiphertext' /\ HeadWasReserved' /\ BaseWasPublished'
           /\ HeadHasMoved' /\ PendingIsCurrent' /\ IndexEtagIsCommitted'
<1> DEFINE r == requests[w].slot
<1>1. r \in Slots /\ Pending(r) /\ UNCHANGED <<ledger, indexEtag>>
  BY DEF IndexInv, RequestsOK, RequestOK, HoldsRow, Expires, At, MayExpire, ExpireBatch
<1>2. reservations' = [reservations EXCEPT ![r].state = "expired"]
  BY DEF Expires, ExpireBatch
<1> HIDE DEF r
<1>3. /\ \A q \in Slots \ {r} : reservations'[q] = reservations[q]
      /\ reservations'[r].state = "expired"
      /\ reservations'[r].content = reservations[r].content
      /\ reservations'[r].expected = reservations[r].expected
  BY <1>1, <1>2 DEF IndexInv, TypeOK, Reservations
<1>4. \A p \in Slots : reservations[p].state = "completed" =>
                          reservations'[p] = reservations[p]
  BY <1>1, <1>3 DEF Pending
<1>5. OnePending'
  BY <1>3 DEF IndexInv, Chain, OnePending, Pending, SameObject
<1>6. OwnCiphertext'
  BY <1>1, <1>3 DEF IndexInv, Chain, OwnCiphertext, Pending
<1>7. HeadWasReserved'
  BY <1>1, <1>4 DEF IndexInv, Chain, HeadWasReserved, PublishedBy, IsIndex
<1>8. BaseWasPublished'
  <2> SUFFICES ASSUME NEW q \in Slots, IsIndex(q), reservations'[q].state # "absent",
                      reservations'[q].expected # Nil
               PROVE  \E p \in Slots \ {q} :
                          /\ IsIndex(p) /\ p.machine = q.machine
                          /\ reservations'[p].state = "completed"
                          /\ reservations'[p].content = reservations'[q].expected
    BY DEF BaseWasPublished, PublishedBy, IsIndex
  <2>1. reservations'[q].expected = reservations[q].expected /\ reservations[q].state # "absent"
    BY <1>1, <1>3 DEF Pending
  <2>2. PICK p \in Slots \ {q} : PublishedBy(p, q.machine, reservations[q].expected)
    BY <2>1 DEF IndexInv, Chain, BaseWasPublished
  <2>3. QED
    BY <1>4, <2>1, <2>2 DEF PublishedBy
<1>9. HeadHasMoved'
  BY <1>1, <1>3 DEF IndexInv, Chain, HeadHasMoved, IsIndex
<1>10. PendingIsCurrent'
  BY <1>1, <1>3 DEF IndexInv, PendingIsCurrent, Pending, Committed, IsIndex
<1>11. IndexEtagIsCommitted'
  BY <1>1 DEF IndexInv, IndexEtagIsCommitted
<1>12. QED
  BY <1>5, <1>6, <1>7, <1>8, <1>9, <1>10, <1>11

LEMMA IndexStep ==
    ASSUME HeadShowsChecksum, IndexInv, Next
    PROVE  IndexInv'
<1>1. TypeOK' /\ RequestsOK' /\ SettlesOwn'
  BY StepTyped, SettlesOwnStep DEF IndexInv, Chain
<1> DEFINE Rest == /\ OnePending /\ OwnCiphertext /\ HeadWasReserved /\ BaseWasPublished
                   /\ HeadHasMoved /\ PendingIsCurrent /\ IndexEtagIsCommitted
<1>2. CASE Quiet
  <2>1. reservations' = reservations /\ ledger' = ledger /\ indexEtag' = indexEtag
    BY <1>2 DEF Quiet
  <2>2. OnePending' /\ OwnCiphertext'
    BY <2>1 DEF IndexInv, Chain, OnePending, OwnCiphertext, Pending, SameObject
  <2>3. HeadWasReserved' /\ BaseWasPublished' /\ HeadHasMoved'
    BY <2>1 DEF IndexInv, Chain, HeadWasReserved, BaseWasPublished, HeadHasMoved, PublishedBy, IsIndex
  <2>4. PendingIsCurrent' /\ IndexEtagIsCommitted'
    BY <2>1 DEF IndexInv, PendingIsCurrent, IndexEtagIsCommitted, Pending, Committed, IsIndex
  <2>5. QED
    BY <1>1, <2>2, <2>3, <2>4 DEF IndexInv, Chain
<1>3. ASSUME NEW w \in Workers, Reserves(w) PROVE Rest'
  BY <1>3, ReservesChain
<1>4. ASSUME NEW w \in Workers, Completes(w) PROVE Quiet \/ Rest'
  BY <1>4, CompletesCommits, CommitsChain
<1>5. ASSUME NEW w \in Workers, Expires(w) PROVE Rest'
  BY <1>5, ExpiresChain
<1>6. QED
  BY <1>1, <1>2, <1>3, <1>4, <1>5, TableSteps DEF Steady, IndexInv, Chain

LEMMA IndexInvariant ==
    ASSUME HeadShowsChecksum
    PROVE  Spec => []IndexInv
<1>1. Init => IndexInv
  <2> SUFFICES ASSUME Init PROVE IndexInv
    OBVIOUS
  <2>1. TypeOK /\ RequestsOK
    BY InitTyped
  <2>2. Chain
    BY DEF Init, Chain, OnePending, OwnCiphertext, HeadWasReserved, BaseWasPublished, HeadHasMoved,
           SettlesOwn, Pending, Absent, Idle, At
  <2>3. PendingIsCurrent /\ IndexEtagIsCommitted
    BY DEF Init, PendingIsCurrent, IndexEtagIsCommitted, Pending, Absent, Keys
  <2>4. QED
    BY <2>1, <2>2, <2>3 DEF IndexInv
<1>2. IndexInv /\ [Next]_vars => IndexInv'
  <2>1. ASSUME IndexInv, UNCHANGED vars PROVE IndexInv'
    <3>1. TypeOK' /\ RequestsOK'
      BY <2>1, StepTyped DEF IndexInv
    <3>2. Chain'
      BY <2>1 DEF IndexInv, vars, tables, Chain, OnePending, OwnCiphertext, HeadWasReserved,
                  BaseWasPublished, HeadHasMoved, SettlesOwn, PublishedBy, Pending, SameObject,
                  IsIndex, At
    <3>3. PendingIsCurrent' /\ IndexEtagIsCommitted'
      BY <2>1 DEF IndexInv, vars, tables, PendingIsCurrent, IndexEtagIsCommitted, Pending,
                  Committed, IsIndex
    <3>4. QED
      BY <3>1, <3>2, <3>3 DEF IndexInv
  <2>2. QED
    BY <2>1, IndexStep
<1>3. QED
  BY <1>1, <1>2, PTL DEF Spec

(* What a pending reservation captured - the object it replaces, the index *)
(* it starts from - is still what is committed, so that expireReservation  *)
(* refunds the right bytes and finalizeUpload never answers index_conflict,*)
(* whatever requests interleave and whenever PUTs land.                    *)
THEOREM CapturesStayCurrent ==
    ASSUME HeadShowsChecksum
    PROVE  Spec => []PendingIsCurrent
<1>1. IndexInv => PendingIsCurrent
  BY DEF IndexInv
<1>2. QED
  BY <1>1, IndexInvariant, PTL

(* machine_remotes.current_index_etag and the ledger's row of the index    *)
(* name the same object.                                                   *)
THEOREM IndexesAgree ==
    ASSUME HeadShowsChecksum
    PROVE  Spec => []IndexEtagIsCommitted
<1>1. IndexInv => IndexEtagIsCommitted
  BY DEF IndexInv
<1>2. QED
  BY <1>1, IndexInvariant, PTL

(* finalizeUpload and the cron job commit for a reservation the ciphertext *)
(* it was made for, whatever requests interleave and whenever PUTs land,   *)
(* as long as head shows the checksum.                                     *)
THEOREM CommitsAreOwn ==
    ASSUME HeadShowsChecksum
    PROVE  Spec => CommitsWhatWasReserved
<1>1. ASSUME IndexInv, [Next]_vars, NEW r \in Slots, Pending(r), reservations'[r].state = "completed"
      PROVE  ledger'[r.machine][r.key] = reservations[r].content
  <2>1. reservations' # reservations /\ reservations \in [Slots -> Reservations]
    BY <1>1 DEF Pending, IndexInv, TypeOK
  <2>2. Next
    BY <1>1, <2>1 DEF vars, tables
  <2>3. PICK w \in Workers : Reserves(w) \/ Completes(w) \/ Expires(w)
    BY <2>1, <2>2, TableSteps DEF Steady, Quiet
  <2>4. CASE Reserves(w)
    BY <1>1, <2>1, <2>4 DEF Reserves, ReserveBatch, IsUnique, Pending
  <2>5. CASE Completes(w)
    <3>1. requests[w].slot \in Slots /\ Commits(requests[w].slot)
      BY <1>1, <2>1, <2>5, CompletesCommits DEF Quiet
    <3>2. r = requests[w].slot
      BY <1>1, <2>1, <3>1 DEF Commits, Pending
    <3>3. r.machine \in Machines /\ r.key \in Keys
      BY DEF Slots
    <3>. QED
      BY <1>1, <3>1, <3>2, <3>3 DEF Commits, IndexInv, TypeOK
  <2>6. CASE Expires(w)
    BY <1>1, <2>1, <2>6 DEF Expires, ExpireBatch, Pending
  <2>. QED
    BY <2>3, <2>4, <2>5, <2>6
<1>2. IndexInv /\ [Next]_vars =>
        [\A slot \in Slots :
            Pending(slot) /\ reservations'[slot].state = "completed" =>
                ledger'[slot.machine][slot.key] = reservations[slot].content]_vars
  BY <1>1
<1>. QED
  BY <1>2, IndexInvariant, PTL DEF Spec, CommitsWhatWasReserved

-----------------------------------------------------------------------------
(***************************************************************************)
(* The counters of the account.                                            *)
(***************************************************************************)
LEMMA SizeType == \A etag \in Etags : Size(etag) \in Nat
BY BytesAssumption DEF Size, Etags

LEMMA RowTypes ==
    ASSUME reservations \in [Slots -> Reservations], NEW r \in Slots
    PROVE  /\ reservations[r] \in Reservations
           /\ reservations[r].replaced \in Etags /\ reservations[r].content \in Etags
           /\ Size(reservations[r].replaced) \in Nat /\ Size(reservations[r].content) \in Nat
<1>1. reservations[r].replaced \in Etags /\ reservations[r].content \in Etags
  BY DEF Reservations
<1>. QED
  BY <1>1, SizeType

LEMMA RowTypesNext ==
    ASSUME reservations' \in [Slots -> Reservations], NEW r \in Slots
    PROVE  /\ reservations'[r].replaced \in Etags /\ reservations'[r].content \in Etags
           /\ Size(reservations'[r].replaced) \in Nat /\ Size(reservations'[r].content) \in Nat
<1>1. reservations'[r].replaced \in Etags /\ reservations'[r].content \in Etags
  BY DEF Reservations
<1>. QED
  BY <1>1, SizeType

(* One row changes: what it adds to the sums over a state when it enters   *)
(* the state, takes from them when it leaves, and that it does neither     *)
(* when it was and is elsewhere.                                           *)
Moves(r) ==
    /\ reservations \in [Slots -> Reservations] /\ reservations' \in [Slots -> Reservations]
    /\ \A q \in Slots \ {r} : reservations'[q] = reservations[q]

LEMMA RowEnters ==
    ASSUME NEW state, NEW r \in Slots, Moves(r), IsFiniteSet(RowsIn(state)),
           reservations[r].state # state, reservations'[r].state = state
    PROVE  /\ IsFiniteSet(RowsIn(state)')
           /\ ReplacedBytes(state)' = ReplacedBytes(state) + Size(reservations'[r].replaced)
           /\ ExpectedBytes(state)' = ExpectedBytes(state) + Size(reservations'[r].content)
<1>. DEFINE S == RowsIn(state)
            f == [q \in Slots |-> Size(reservations[q].replaced)]
            h == [q \in Slots |-> Size(reservations'[q].replaced)]
            c == [q \in Slots |-> Size(reservations[q].content)]
            d == [q \in Slots |-> Size(reservations'[q].content)]
<1>1. /\ ReplacedBytes(state) = SumFunctionOnSet(f, S)
      /\ ReplacedBytes(state)' = SumFunctionOnSet(h, RowsIn(state)')
      /\ ExpectedBytes(state) = SumFunctionOnSet(c, S)
      /\ ExpectedBytes(state)' = SumFunctionOnSet(d, RowsIn(state)')
  BY DEF ReplacedBytes, ExpectedBytes, Size
<1>2. RowsIn(state)' = S \cup {r} /\ r \notin S /\ S \subseteq Slots
  BY DEF RowsIn, Moves
<1>3. h[r] \in Nat /\ d[r] \in Nat
  BY RowTypesNext DEF Moves
<1>4. \A q \in S : f[q] \in Nat /\ h[q] = f[q]
  BY <1>2, RowTypes DEF Moves
<1>5. \A q \in S : c[q] \in Nat /\ d[q] = c[q]
  BY <1>2, RowTypes DEF Moves
<1>6. h[r] = Size(reservations'[r].replaced) /\ d[r] = Size(reservations'[r].content)
  OBVIOUS
<1>7. IsFiniteSet(S)
  OBVIOUS
<1>. HIDE DEF S, f, h, c, d
<1>8. IsFiniteSet(S \cup {r})
  BY <1>7, FS_AddElement
<1>9. SumFunctionOnSet(h, S \cup {r}) = SumFunctionOnSet(f, S) + h[r]
  BY ONLY <1>2, <1>3, <1>4, <1>7, SumAdd
<1>10. SumFunctionOnSet(d, S \cup {r}) = SumFunctionOnSet(c, S) + d[r]
  BY ONLY <1>2, <1>3, <1>5, <1>7, SumAdd
<1>. QED
  BY <1>1, <1>2, <1>6, <1>8, <1>9, <1>10

LEMMA RowLeaves ==
    ASSUME NEW state, NEW r \in Slots, Moves(r), IsFiniteSet(RowsIn(state)),
           reservations[r].state = state, reservations'[r].state # state
    PROVE  /\ IsFiniteSet(RowsIn(state)')
           /\ ReplacedBytes(state)' = ReplacedBytes(state) - Size(reservations[r].replaced)
           /\ ExpectedBytes(state)' = ExpectedBytes(state) - Size(reservations[r].content)
<1>. DEFINE S == RowsIn(state)
            f == [q \in Slots |-> Size(reservations[q].replaced)]
            h == [q \in Slots |-> Size(reservations'[q].replaced)]
            c == [q \in Slots |-> Size(reservations[q].content)]
            d == [q \in Slots |-> Size(reservations'[q].content)]
<1>1. /\ ReplacedBytes(state) = SumFunctionOnSet(f, S)
      /\ ReplacedBytes(state)' = SumFunctionOnSet(h, RowsIn(state)')
      /\ ExpectedBytes(state) = SumFunctionOnSet(c, S)
      /\ ExpectedBytes(state)' = SumFunctionOnSet(d, RowsIn(state)')
  BY DEF ReplacedBytes, ExpectedBytes, Size
<1>2. RowsIn(state)' = S \ {r} /\ r \in S /\ S \subseteq Slots
  BY DEF RowsIn, Moves
<1>3. \A q \in S : f[q] \in Nat /\ (q # r => h[q] = f[q])
  BY <1>2, RowTypes DEF Moves
<1>4. \A q \in S : c[q] \in Nat /\ (q # r => d[q] = c[q])
  BY <1>2, RowTypes DEF Moves
<1>5. f[r] = Size(reservations[r].replaced) /\ c[r] = Size(reservations[r].content)
  OBVIOUS
<1>6. IsFiniteSet(S)
  OBVIOUS
<1>. DEFINE R == S \ {r}
<1>7. r \in S /\ R = S \ {r}
  BY <1>2
<1>. HIDE DEF S, R, f, h, c, d
<1>8. IsFiniteSet(R)
  BY <1>6, <1>7, FS_RemoveElement
<1>9. SumFunctionOnSet(h, R) = SumFunctionOnSet(f, S) - f[r]
  BY ONLY <1>7, <1>3, <1>6, SumDrop
<1>10. SumFunctionOnSet(d, R) = SumFunctionOnSet(c, S) - c[r]
  BY ONLY <1>7, <1>4, <1>6, SumDrop
<1>. QED
  BY <1>1, <1>2, <1>5, <1>7, <1>8, <1>9, <1>10

LEMMA RowElsewhere ==
    ASSUME NEW state, NEW r \in Slots, Moves(r), IsFiniteSet(RowsIn(state)),
           reservations[r].state # state, reservations'[r].state # state
    PROVE  /\ IsFiniteSet(RowsIn(state)')
           /\ ReplacedBytes(state)' = ReplacedBytes(state)
           /\ ExpectedBytes(state)' = ExpectedBytes(state)
<1>. DEFINE S == RowsIn(state)
            f == [q \in Slots |-> Size(reservations[q].replaced)]
            h == [q \in Slots |-> Size(reservations'[q].replaced)]
            c == [q \in Slots |-> Size(reservations[q].content)]
            d == [q \in Slots |-> Size(reservations'[q].content)]
<1>1. /\ ReplacedBytes(state) = SumFunctionOnSet(f, S)
      /\ ReplacedBytes(state)' = SumFunctionOnSet(h, RowsIn(state)')
      /\ ExpectedBytes(state) = SumFunctionOnSet(c, S)
      /\ ExpectedBytes(state)' = SumFunctionOnSet(d, RowsIn(state)')
  BY DEF ReplacedBytes, ExpectedBytes, Size
<1>2. RowsIn(state)' = S /\ r \notin S /\ S \subseteq Slots
  BY DEF RowsIn, Moves
<1>3. \A q \in S : f[q] \in Nat /\ h[q] = f[q]
  BY <1>2, RowTypes DEF Moves
<1>4. \A q \in S : c[q] \in Nat /\ d[q] = c[q]
  BY <1>2, RowTypes DEF Moves
<1>5. IsFiniteSet(S)
  OBVIOUS
<1>. HIDE DEF S, f, h, c, d
<1>6. SumFunctionOnSet(h, S) = SumFunctionOnSet(f, S)
  BY ONLY <1>3, <1>5, SumSame
<1>7. SumFunctionOnSet(d, S) = SumFunctionOnSet(c, S)
  BY ONLY <1>4, <1>5, SumSame
<1>. QED
  BY <1>1, <1>2, <1>5, <1>6, <1>7

LEMMA LedgerMoves ==
    ASSUME TypeOK, IsFiniteSet(LedgerRows), NEW m \in Machines, NEW k \in Keys,
           NEW etag \in Contents, ledger' = [ledger EXCEPT ![m][k] = etag]
    PROVE  /\ IsFiniteSet(LedgerRows')
           /\ LedgerBytes' = LedgerBytes - Size(ledger[m][k]) + Size(etag)
<1>. DEFINE S == LedgerRows
            f == [o \in Machines \X Keys |-> Size(ledger[o[1]][o[2]])]
            h == [o \in Machines \X Keys |-> Size(ledger'[o[1]][o[2]])]
            x == <<m, k>>
<1>1. LedgerBytes = SumFunctionOnSet(f, S) /\ LedgerBytes' = SumFunctionOnSet(h, LedgerRows')
  BY DEF LedgerBytes, Size
<1>2. \A n \in Machines, j \in Keys :
          ledger'[n][j] = IF n = m /\ j = k THEN etag ELSE ledger[n][j]
  BY DEF TypeOK
<1>3. etag # Nil /\ etag \in Etags
  BY NilAssumption DEF Etags
<1>4. LedgerRows' = S \cup {x} /\ S \subseteq Machines \X Keys
  BY <1>2, <1>3 DEF LedgerRows
<1>5. \A o \in Machines \X Keys : f[o] \in Nat
  <2>1. \A n \in Machines, j \in Keys : ledger[n][j] \in Etags
    BY DEF TypeOK
  <2>. QED
    BY <2>1, SizeType
<1>6. f[x] = Size(ledger[m][k]) /\ f[x] \in Nat
  BY <1>5
<1>7. h[x] = Size(etag) /\ h[x] \in Nat
  BY <1>2, <1>3, SizeType
<1>8. x \notin S => f[x] = 0
  BY <1>6 DEF LedgerRows, Size
<1>9. \A o \in S : f[o] \in Nat
  BY <1>4, <1>5
<1>10. \A o \in S \ {x} : h[o] = f[o]
  BY <1>2, <1>4
<1>11. IsFiniteSet(S)
  OBVIOUS
<1>. HIDE DEF S, f, h, x
<1>12. IsFiniteSet(S \cup {x})
  BY <1>11, FS_AddElement
<1>13. SumFunctionOnSet(h, S \cup {x}) = SumFunctionOnSet(f, S) - f[x] + h[x]
  BY ONLY <1>6, <1>7, <1>8, <1>9, <1>10, <1>11, SumPut
<1>. QED
  BY <1>1, <1>4, <1>6, <1>7, <1>12, <1>13

LEMMA SumsTyped ==
    ASSUME TypeOK, NEW state, IsFiniteSet(RowsIn(state)), IsFiniteSet(LedgerRows)
    PROVE  /\ ReplacedBytes(state) \in Nat /\ ExpectedBytes(state) \in Nat
           /\ LedgerBytes \in Nat
<1>. DEFINE S == RowsIn(state)
            f == [q \in Slots |-> Size(reservations[q].replaced)]
            c == [q \in Slots |-> Size(reservations[q].content)]
            L == LedgerRows
            b == [o \in Machines \X Keys |-> Size(ledger[o[1]][o[2]])]
<1>1. S \subseteq Slots /\ L \subseteq Machines \X Keys
  BY DEF RowsIn, LedgerRows
<1>2. (\A q \in S : f[q] \in Nat) /\ (\A q \in S : c[q] \in Nat)
  BY <1>1, RowTypes DEF TypeOK
<1>3. \A o \in L : b[o] \in Nat
  <2>1. \A m \in Machines, k \in Keys : ledger[m][k] \in Etags
    BY DEF TypeOK
  <2>. QED
    BY <1>1, <2>1, SizeType
<1>4. /\ ReplacedBytes(state) = SumFunctionOnSet(f, S)
      /\ ExpectedBytes(state) = SumFunctionOnSet(c, S)
      /\ LedgerBytes = SumFunctionOnSet(b, L)
  BY DEF ReplacedBytes, ExpectedBytes, LedgerBytes
<1>5. IsFiniteSet(S) /\ IsFiniteSet(L)
  OBVIOUS
<1>. HIDE DEF S, f, c, L, b
<1>6. SumFunctionOnSet(f, S) \in Nat
  BY ONLY <1>2, <1>5, SumType
<1>7. SumFunctionOnSet(c, S) \in Nat
  BY ONLY <1>2, <1>5, SumType
<1>8. SumFunctionOnSet(b, L) \in Nat
  BY ONLY <1>3, <1>5, SumType
<1>. QED
  BY <1>4, <1>6, <1>7, <1>8

(* The counters are the sums because what a pending row replaces is what   *)
(* the ledger holds, no two pending rows are of one object, and a row is   *)
(* settled with an object of its length.                                   *)
SettlesLength ==
    \A w \in Workers :
        At(w, "settle") =>
            /\ requests[w].object # Nil
            /\ Size(requests[w].object) = Size(reservations[requests[w].slot].content)

ReplacesCommitted ==
    \A r \in Slots : Pending(r) => reservations[r].replaced = Committed(r)

Countable ==
    IsFiniteSet(LedgerRows) /\ IsFiniteSet(RowsIn("pending")) /\ IsFiniteSet(RowsIn("expired"))

Counted ==
    /\ OnePending /\ ReplacesCommitted /\ Countable
    /\ account \in [used : Int, reserved : Int] /\ AccountingExact /\ WithinQuota

AccountInv == TypeOK /\ RequestsOK /\ SettlesLength /\ Counted

LEMMA SettlesLengthStep ==
    ASSUME TypeOK, RequestsOK, SettlesLength, Next
    PROVE  SettlesLength'
<1>. SUFFICES ASSUME NEW w \in Workers, requests'[w].pc = "settle"
              PROVE  /\ requests'[w].object # Nil
                     /\ Size(requests'[w].object) = Size(reservations'[requests'[w].slot].content)
  BY DEF SettlesLength, At, Size
<1>1. CASE requests'[w] = requests[w]
  <2>1. requests[w].slot \in Slots /\ reservations[requests[w].slot].state # "absent"
    BY <1>1 DEF RequestsOK, RequestOK, HoldsRow
  <2>. QED
    BY <1>1, <2>1, RowsAreKept DEF SettlesLength, At
<1>2. CASE requests'[w] # requests[w]
  BY <1>2, Settling, RowsAreKept DEF Matches
<1>. QED
  BY <1>1, <1>2

LEMMA CountersMove ==
    ASSUME account \in [used : Int, reserved : Int], NEW a \in Int, NEW b \in Int,
           account' = [account EXCEPT !.used = a, !.reserved = b]
    PROVE  /\ account'.used = a /\ account'.reserved = b
           /\ account' \in [used : Int, reserved : Int]
<1>1. account = [used |-> account.used, reserved |-> account.reserved]
  OBVIOUS
<1>2. account' = [used |-> a, reserved |-> b]
  BY <1>1
<1>. QED
  BY <1>2

LEMMA ReservesCounts ==
    ASSUME AccountInv, reservations' \in [Slots -> Reservations], NEW w \in Workers, Reserves(w)
    PROVE  Counted'
<1>. USE DEF AccountInv, Counted
<1>. DEFINE r == requests[w].slot
            input == requests[w].input
<1>1. r \in Slots /\ input \in Inputs
  BY DEF RequestsOK, RequestOK, Reserves, At
<1>2. /\ reservations[r].state = "absent"
      /\ \A q \in Slots : SameObject(q, r) => ~Pending(q)
      /\ account.used + account.reserved - Size(Committed(r)) + Size(input.content) <= Quota
      /\ account' = [account EXCEPT !.used = @ - Size(Committed(r)),
                                    !.reserved = @ + Size(input.content)]
      /\ UNCHANGED ledger
  BY DEF Reserves, IsUnique, Admits, ReserveBatch
<1>3. /\ \A q \in Slots \ {r} : reservations'[q] = reservations[q]
      /\ reservations'[r].state = "pending"
      /\ reservations'[r].content = input.content /\ reservations'[r].replaced = Committed(r)
  BY <1>1 DEF Reserves, ReserveBatch, TypeOK
<1>4. Size(Committed(r)) \in Nat /\ Size(input.content) \in Nat
  <2>1. Committed(r) \in Etags /\ input.content \in Etags
    BY <1>1 DEF Committed, TypeOK, Slots, Inputs, Etags
  <2>. QED
    BY <2>1, SizeType
<1>. HIDE DEF r, input
<1>5. Moves(r)
  BY <1>3 DEF Moves, TypeOK
<1>6. /\ IsFiniteSet(RowsIn("pending")')
      /\ ReplacedBytes("pending")' = ReplacedBytes("pending") + Size(Committed(r))
      /\ ExpectedBytes("pending")' = ExpectedBytes("pending") + Size(input.content)
  <2>1. IsFiniteSet(RowsIn("pending")) /\ reservations[r].state # "pending"
    BY <1>2 DEF Countable
  <2>2. /\ IsFiniteSet(RowsIn("pending")')
        /\ ReplacedBytes("pending")' = ReplacedBytes("pending") + Size(reservations'[r].replaced)
        /\ ExpectedBytes("pending")' = ExpectedBytes("pending") + Size(reservations'[r].content)
    BY <1>1, <1>3, <1>5, <2>1, RowEnters
  <2>. QED
    BY <1>3, <2>2
<1>7. IsFiniteSet(RowsIn("expired")') /\ ReplacedBytes("expired")' = ReplacedBytes("expired")
  <2>1. /\ IsFiniteSet(RowsIn("expired")) /\ reservations[r].state # "expired"
        /\ reservations'[r].state # "expired"
    BY <1>2, <1>3 DEF Countable
  <2>. QED
    BY <1>1, <1>5, <2>1, RowElsewhere
<1>8. LedgerRows' = LedgerRows /\ LedgerBytes' = LedgerBytes
  BY <1>2 DEF LedgerRows, LedgerBytes
<1>9. Countable'
  BY <1>6, <1>7, <1>8 DEF Countable
<1>10. /\ ReplacedBytes("pending") \in Nat /\ ExpectedBytes("pending") \in Nat
       /\ LedgerBytes \in Nat /\ ReplacedBytes("expired") \in Nat
  BY SumsTyped DEF Countable
<1>11. /\ account'.used = account.used - Size(Committed(r))
       /\ account'.reserved = account.reserved + Size(input.content)
       /\ account' \in [used : Int, reserved : Int]
  <2>1. /\ account.used - Size(Committed(r)) \in Int
        /\ account.reserved + Size(input.content) \in Int
    BY <1>4
  <2>. QED
    BY <1>2, <2>1, CountersMove
<1>12. AccountingExact'
  BY <1>4, <1>6, <1>8, <1>10, <1>11 DEF AccountingExact
<1>13. WithinQuota'
  BY <1>2, <1>4, <1>7, <1>10, <1>11, QuotaAssumption DEF WithinQuota, RefundedBytes
<1>14. OnePending'
  BY <1>1, <1>2, <1>3 DEF OnePending, Pending, SameObject
<1>15. ReplacesCommitted'
  BY <1>1, <1>2, <1>3 DEF ReplacesCommitted, Pending, Committed
<1>. QED
  BY <1>9, <1>11, <1>12, <1>13, <1>14, <1>15

LEMMA CompletesCounts ==
    ASSUME AccountInv, reservations' \in [Slots -> Reservations], NEW w \in Workers, Completes(w)
    PROVE  Counted'
<1>. USE DEF AccountInv, Counted
<1>. DEFINE r == requests[w].slot
            etag == requests[w].object
            content == reservations[r].content
<1>1. r \in Slots /\ etag \in Contents /\ Size(etag) = Size(content)
  BY DEF RequestsOK, RequestOK, HoldsRow, Completes, At, SettlesLength, TypeOK, Requests, Etags
<1>2. CASE ~MayComplete(r)
  <2>1. UNCHANGED <<ledger, account, reservations>>
    BY <1>2 DEF Completes, CompleteBatch
  <2>. QED
    BY <2>1 DEF OnePending, Pending, ReplacesCommitted, Committed, Countable, AccountingExact,
         WithinQuota, RefundedBytes, ReplacedBytes, ExpectedBytes, LedgerBytes, LedgerRows, RowsIn
<1>3. CASE MayComplete(r)
  <2>1. /\ reservations[r].state = "pending" /\ reservations[r].replaced = Committed(r)
        /\ ledger' = [ledger EXCEPT ![r.machine][r.key] = etag]
        /\ account' = [account EXCEPT !.used = @ + Size(content), !.reserved = @ - Size(content)]
        /\ reservations' = [reservations EXCEPT ![r].state = "completed"]
    BY <1>1, <1>3 DEF Completes, CompleteBatch, Record, MayComplete, Pending, ReplacesCommitted
  <2>2. /\ \A q \in Slots \ {r} : reservations'[q] = reservations[q]
        /\ reservations'[r].state = "completed"
    BY <1>1, <2>1 DEF TypeOK, Reservations
  <2>3. Size(content) \in Nat /\ Size(Committed(r)) \in Nat
    <3>1. content \in Etags
      BY <1>1, RowTypes DEF TypeOK
    <3>2. Committed(r) \in Etags
      BY <1>1 DEF TypeOK, Committed, Slots
    <3>. QED
      BY <3>1, <3>2, SizeType
  <2>4. r.machine \in Machines /\ r.key \in Keys /\ ledger[r.machine][r.key] = Committed(r)
    BY <1>1 DEF Slots, Committed
  <2>. HIDE DEF r, etag
  <2>5. Moves(r)
    BY <2>2 DEF Moves, TypeOK
  <2>6. /\ IsFiniteSet(RowsIn("pending")')
        /\ ReplacedBytes("pending")' = ReplacedBytes("pending") - Size(Committed(r))
        /\ ExpectedBytes("pending")' = ExpectedBytes("pending") - Size(content)
    <3>1. IsFiniteSet(RowsIn("pending")) /\ reservations'[r].state # "pending"
      BY <2>2 DEF Countable
    <3>2. /\ IsFiniteSet(RowsIn("pending")')
          /\ ReplacedBytes("pending")' = ReplacedBytes("pending") - Size(reservations[r].replaced)
          /\ ExpectedBytes("pending")' = ExpectedBytes("pending") - Size(reservations[r].content)
      BY <1>1, <2>1, <2>5, <3>1, RowLeaves
    <3>. QED
      BY <2>1, <3>2
  <2>7. IsFiniteSet(RowsIn("expired")') /\ ReplacedBytes("expired")' = ReplacedBytes("expired")
    <3>1. /\ IsFiniteSet(RowsIn("expired")) /\ reservations[r].state # "expired"
          /\ reservations'[r].state # "expired"
      BY <2>1, <2>2 DEF Countable
    <3>. QED
      BY <1>1, <2>5, <3>1, RowElsewhere
  <2>8. /\ IsFiniteSet(LedgerRows')
        /\ LedgerBytes' = LedgerBytes - Size(Committed(r)) + Size(content)
    <3>1. IsFiniteSet(LedgerRows)
      BY DEF Countable
    <3>2. /\ IsFiniteSet(LedgerRows')
          /\ LedgerBytes' = LedgerBytes - Size(ledger[r.machine][r.key]) + Size(etag)
      BY <1>1, <2>1, <2>4, <3>1, LedgerMoves
    <3>. QED
      BY <1>1, <2>4, <3>2
  <2>9. Countable'
    BY <2>6, <2>7, <2>8 DEF Countable
  <2>10. /\ ReplacedBytes("pending") \in Nat /\ ExpectedBytes("pending") \in Nat
         /\ LedgerBytes \in Nat /\ ReplacedBytes("expired") \in Nat
    BY SumsTyped DEF Countable
  <2>. HIDE DEF content
  <2>11. /\ account'.used = account.used + Size(content)
         /\ account'.reserved = account.reserved - Size(content)
         /\ account' \in [used : Int, reserved : Int]
    <3>1. account.used + Size(content) \in Int /\ account.reserved - Size(content) \in Int
      BY <2>3
    <3>. QED
      BY <2>1, <3>1, CountersMove
  <2>12. AccountingExact'
    BY <2>3, <2>6, <2>8, <2>10, <2>11 DEF AccountingExact
  <2>13. WithinQuota'
    BY <2>3, <2>7, <2>10, <2>11, QuotaAssumption DEF WithinQuota, RefundedBytes
  <2>14. OnePending'
    BY <1>1, <2>2 DEF OnePending, Pending, SameObject
  <2>15. ReplacesCommitted'
    <3>. SUFFICES ASSUME NEW q \in Slots, reservations'[q].state = "pending"
                  PROVE  reservations'[q].replaced = ledger'[q.machine][q.key]
      BY DEF ReplacesCommitted, Pending, Committed
    <3>1. q # r /\ reservations'[q] = reservations[q] /\ Pending(q)
      BY <2>2 DEF Pending
    <3>2. ~SameObject(q, r)
      BY <1>1, <2>1, <3>1 DEF OnePending, Pending
    <3>3. q.machine \in Machines /\ q.key \in Keys
      BY DEF Slots
    <3>4. ledger'[q.machine][q.key] = ledger[q.machine][q.key]
      BY <2>1, <2>4, <3>2, <3>3 DEF SameObject, TypeOK
    <3>. QED
      BY <3>1, <3>4 DEF ReplacesCommitted, Committed
  <2>. QED
    BY <2>9, <2>11, <2>12, <2>13, <2>14, <2>15
<1>. QED
  BY <1>2, <1>3

LEMMA ExpiresCounts ==
    ASSUME AccountInv, reservations' \in [Slots -> Reservations], NEW w \in Workers, Expires(w)
    PROVE  Counted'
<1>. USE DEF AccountInv, Counted
<1>. DEFINE r == requests[w].slot
            row == reservations[r]
<1>1. r \in Slots
  BY DEF RequestsOK, RequestOK, HoldsRow, Expires, At
<1>2. /\ row.state = "pending"
      /\ reservations' = [reservations EXCEPT ![r].state = "expired"]
      /\ account' = [account EXCEPT !.used = @ + Size(row.replaced),
                                    !.reserved = @ - Size(row.content)]
      /\ UNCHANGED ledger
  BY DEF Expires, MayExpire, Pending, ExpireBatch
<1>3. /\ \A q \in Slots \ {r} : reservations'[q] = reservations[q]
      /\ reservations'[r].state = "expired" /\ reservations'[r].replaced = row.replaced
  BY <1>1, <1>2 DEF TypeOK, Reservations
<1>4. Size(row.replaced) \in Nat /\ Size(row.content) \in Nat
  BY <1>1, RowTypes DEF TypeOK
<1>. HIDE DEF r
<1>5. Moves(r)
  BY <1>3 DEF Moves, TypeOK
<1>6. /\ IsFiniteSet(RowsIn("pending")')
      /\ ReplacedBytes("pending")' = ReplacedBytes("pending") - Size(row.replaced)
      /\ ExpectedBytes("pending")' = ExpectedBytes("pending") - Size(row.content)
  <2>1. IsFiniteSet(RowsIn("pending")) /\ reservations'[r].state # "pending"
    BY <1>3 DEF Countable
  <2>. QED
    BY <1>1, <1>2, <1>5, <2>1, RowLeaves
<1>7. /\ IsFiniteSet(RowsIn("expired")')
      /\ ReplacedBytes("expired")' = ReplacedBytes("expired") + Size(row.replaced)
  <2>1. IsFiniteSet(RowsIn("expired")) /\ reservations[r].state # "expired"
    BY <1>2 DEF Countable
  <2>2. /\ IsFiniteSet(RowsIn("expired")')
        /\ ReplacedBytes("expired")' = ReplacedBytes("expired") + Size(reservations'[r].replaced)
    BY <1>1, <1>3, <1>5, <2>1, RowEnters
  <2>. QED
    BY <1>3, <2>2
<1>8. LedgerRows' = LedgerRows /\ LedgerBytes' = LedgerBytes
  BY <1>2 DEF LedgerRows, LedgerBytes
<1>9. Countable'
  BY <1>6, <1>7, <1>8 DEF Countable
<1>10. /\ ReplacedBytes("pending") \in Nat /\ ExpectedBytes("pending") \in Nat
       /\ LedgerBytes \in Nat /\ ReplacedBytes("expired") \in Nat
  BY SumsTyped DEF Countable
<1>. HIDE DEF row
<1>11. /\ account'.used = account.used + Size(row.replaced)
       /\ account'.reserved = account.reserved - Size(row.content)
       /\ account' \in [used : Int, reserved : Int]
  <2>1. /\ account.used + Size(row.replaced) \in Int
        /\ account.reserved - Size(row.content) \in Int
    BY <1>4
  <2>. QED
    BY <1>2, <2>1, CountersMove
<1>12. AccountingExact'
  BY <1>4, <1>6, <1>8, <1>10, <1>11 DEF AccountingExact
<1>13. WithinQuota'
  BY <1>4, <1>7, <1>10, <1>11, QuotaAssumption DEF WithinQuota, RefundedBytes
<1>14. OnePending'
  BY <1>1, <1>3 DEF OnePending, Pending, SameObject
<1>15. ReplacesCommitted'
  BY <1>1, <1>2, <1>3 DEF ReplacesCommitted, Pending, Committed
<1>. QED
  BY <1>9, <1>11, <1>12, <1>13, <1>14, <1>15

LEMMA SteadyCounts ==
    ASSUME AccountInv, Steady \/ UNCHANGED vars
    PROVE  Counted'
<1>. USE DEF AccountInv, Counted
<1>1. UNCHANGED <<reservations, ledger>>
  BY DEF Steady, Quiet, vars, tables
<1>2. /\ LedgerRows' = LedgerRows /\ LedgerBytes' = LedgerBytes
      /\ RowsIn("pending")' = RowsIn("pending") /\ RowsIn("expired")' = RowsIn("expired")
      /\ ReplacedBytes("pending")' = ReplacedBytes("pending")
      /\ ReplacedBytes("expired")' = ReplacedBytes("expired")
      /\ ExpectedBytes("pending")' = ExpectedBytes("pending")
  BY <1>1 DEF LedgerRows, LedgerBytes, RowsIn, ReplacedBytes, ExpectedBytes
<1>3. UNCHANGED account
  <2>1. account = [used |-> account.used, reserved |-> account.reserved]
    OBVIOUS
  <2>. QED
    BY <2>1 DEF Steady, Recounts, AccountingExact, vars, tables
<1>. QED
  BY <1>1, <1>2, <1>3 DEF OnePending, Pending, ReplacesCommitted, Committed, Countable,
       AccountingExact, WithinQuota, RefundedBytes

LEMMA AccountInit == Init => AccountInv
<1>. SUFFICES ASSUME Init PROVE AccountInv
  OBVIOUS
<1>1. TypeOK /\ RequestsOK
  BY InitTyped
<1>2. (\A r \in Slots : reservations[r].state = "absent") /\ (\A w \in Workers : requests[w].pc = "idle")
  BY DEF Init, Absent, Idle
<1>3. LedgerRows = {} /\ RowsIn("pending") = {} /\ RowsIn("expired") = {}
  <2>1. \A m \in Machines, k \in Keys : ledger[m][k] = Nil
    BY DEF Init
  <2>. QED
    BY <1>2, <2>1 DEF LedgerRows, RowsIn
<1>4. /\ LedgerBytes = 0 /\ ReplacedBytes("pending") = 0 /\ ReplacedBytes("expired") = 0
      /\ ExpectedBytes("pending") = 0
  BY <1>3, SumEmpty DEF LedgerBytes, ReplacedBytes, ExpectedBytes
<1>5. account.used = 0 /\ account.reserved = 0 /\ account \in [used : Int, reserved : Int]
  BY DEF Init
<1>6. AccountingExact /\ WithinQuota
  BY <1>4, <1>5, QuotaAssumption DEF AccountingExact, WithinQuota, RefundedBytes
<1>7. OnePending /\ ReplacesCommitted /\ SettlesLength
  BY <1>2 DEF OnePending, ReplacesCommitted, SettlesLength, Pending, At
<1>8. Countable
  BY <1>3, FS_EmptySet DEF Countable
<1>. QED
  BY <1>1, <1>5, <1>6, <1>7, <1>8 DEF AccountInv, Counted

LEMMA AccountNext == AccountInv /\ [Next]_vars => AccountInv'
<1>. SUFFICES ASSUME AccountInv, [Next]_vars PROVE AccountInv'
  OBVIOUS
<1>1. TypeOK' /\ RequestsOK'
  BY StepTyped DEF AccountInv
<1>2. reservations' \in [Slots -> Reservations]
  BY <1>1 DEF TypeOK
<1>3. SettlesLength'
  <2>1. ASSUME UNCHANGED vars PROVE SettlesLength'
    BY <2>1 DEF AccountInv, SettlesLength, At, Size, vars, tables
  <2>. QED
    BY <2>1, SettlesLengthStep DEF AccountInv
<1>4. Counted'
  BY <1>2, TableSteps, ReservesCounts, CompletesCounts, ExpiresCounts, SteadyCounts
<1>. QED
  BY <1>1, <1>3, <1>4 DEF AccountInv

(* broker.ts, every batch: used_bytes and reserved_bytes are at any moment *)
(* what the ledger and the pending reservations add up to.                 *)
THEOREM CountersAreExact == Spec => []AccountingExact
<1>1. AccountInv => AccountingExact
  BY DEF AccountInv, Counted
<1>. QED
  BY <1>1, AccountInit, AccountNext, PTL DEF Spec

(* broker.ts, the admission of reserveUpload: the account stays within its *)
(* quota, but for what expired reservations gave back.                     *)
THEOREM QuotaIsKept == Spec => []WithinQuota
<1>1. AccountInv => WithinQuota
  BY DEF AccountInv, Counted
<1>. QED
  BY <1>1, AccountInit, AccountNext, PTL DEF Spec

-----------------------------------------------------------------------------
(***************************************************************************)
(* What is committed is in the bucket, as long as no two requests handle   *)
(* one object at a time and clients stop uploading at the expiry.          *)
(***************************************************************************)
Handles(w) == requests[w].pc \in {"head", "settle", "reread", "remove", "expire"}

Apart ==
    \A v, w \in Workers :
        v # w /\ Handles(v) /\ Handles(w) => ~SameObject(requests[v].slot, requests[w].slot)

CommittedBy(p, r, etag) ==
    SameObject(p, r) /\ reservations[p].state = "completed" /\ reservations[p].content = etag

(* A row replaces what an earlier row committed, the ledger has moved on   *)
(* from what a completed row replaced, and the PUT of a row is conditional *)
(* on what it replaces.                                                    *)
LedgerWasReserved ==
    \A r \in Slots : Committed(r) # Nil => \E p \in Slots : CommittedBy(p, r, Committed(r))

ReplacedWasCommitted ==
    \A r \in Slots :
        reservations[r].state # "absent" /\ reservations[r].replaced # Nil =>
            \E p \in Slots \ {r} : CommittedBy(p, r, reservations[r].replaced)

LedgerHasMoved ==
    \A r \in Slots : reservations[r].state = "completed" => Committed(r) # reservations[r].replaced

PutsOnReplaced ==
    \A r \in Slots : reservations[r].state # "absent" => PutCondition(r) = reservations[r].replaced

(* The bucket holds what is committed, or what a pending row has put.      *)
StoredOrPut ==
    \A m \in Machines, k \in Keys :
        \/ bucket[m][k] = ledger[m][k]
        \/ \E q \in Slots : /\ q.machine = m /\ q.key = k
                             /\ Pending(q) /\ bucket[m][k] = reservations[q].content

TimesPass ==
    /\ \A r \in Slots : reservations[r].state = "expired" => reservations[r].expiresAt <= clock
    /\ \A w \in Workers : requests[w].at <= clock
    /\ \A r \in signed : reservations[r].state # "absent"

HandlesWell(q) ==
    /\ q.pc \in {"head", "settle", "reread", "remove", "expire"} => Pending(q.slot)
    /\ q.pc # "reread"
    /\ q.pc = "settle" => Stored(q.slot) = reservations[q.slot].content
    /\ q.pc = "remove" =>
          /\ q.object # Nil /\ q.object = reservations[q.slot].replaced
          /\ reservations[q.slot].expiresAt <= q.at => Stored(q.slot) = Committed(q.slot)
    /\ q.pc = "expire" =>
          reservations[q.slot].expiresAt <= q.at /\ Stored(q.slot) = Committed(q.slot)

HandledWell == \A w \in Workers : HandlesWell(requests[w])

ObjectChain == LedgerWasReserved /\ ReplacedWasCommitted /\ LedgerHasMoved /\ PutsOnReplaced
StoredInv == IndexInv /\ ObjectChain /\ StoredOrPut /\ TimesPass /\ HandledWell

(* Rows of one object never share a ciphertext.                            *)
LEMMA DistinctRows ==
    ASSUME OwnCiphertext, NEW r \in Slots, NEW p \in Slots, r # p, SameObject(p, r),
           reservations[r].state # "absent", reservations[p].state # "absent"
    PROVE  reservations[p].content # reservations[r].content
<1>1. r.sweep # p.sweep
  BY DEF SameObject, Slots
<1>2. r.sweep \in Sweeps /\ p.sweep \in Sweeps
  BY DEF Slots
<1>3. Ciphertexts[r.sweep] \cap Ciphertexts[p.sweep] = {}
  BY <1>1, <1>2, CiphertextsAssumption
<1>. QED
  BY <1>3 DEF OwnCiphertext

(* No row has been reserved that replaces what a pending row brings.       *)
LEMMA NotReplacedYet ==
    ASSUME IndexInv, ReplacedWasCommitted, NEW r \in Slots, NEW q \in Slots, SameObject(q, r),
           Pending(q), reservations[r].state # "absent"
    PROVE  reservations[q].content # reservations[r].replaced
<1>. USE DEF IndexInv, Chain
<1>0. reservations[q].content # Nil
  BY NotNil DEF Pending
<1>1. CASE reservations[r].replaced = Nil
  BY <1>0, <1>1
<1>2. CASE reservations[r].replaced # Nil
  <2>1. PICK p \in Slots \ {r} : CommittedBy(p, r, reservations[r].replaced)
    BY <1>2 DEF ReplacedWasCommitted
  <2>2. p # q /\ SameObject(p, q) /\ reservations[p].state # "absent"
    BY <2>1 DEF CommittedBy, Pending, SameObject
  <2>3. reservations[p].content # reservations[q].content
    BY <2>2, DistinctRows DEF Pending
  <2>. QED
    BY <2>1, <2>3 DEF CommittedBy
<1>. QED
  BY <1>1, <1>2

LEMMA ReservesObjects ==
    ASSUME IndexInv, ObjectChain, NEW w \in Workers, Reserves(w)
    PROVE  ObjectChain'
<1>. USE DEF IndexInv, ObjectChain
<1>0. PICK r \in Slots, input \in Inputs : r = requests[w].slot /\ input = requests[w].input
  BY DEF RequestsOK, RequestOK, Reserves, At
<1>1. reservations[r].state = "absent" /\ UNCHANGED ledger
  BY <1>0 DEF Reserves, IsUnique, ReserveBatch
<1>2. /\ \A q \in Slots \ {r} : reservations'[q] = reservations[q]
      /\ reservations'[r].state = "pending" /\ reservations'[r].replaced = Committed(r)
      /\ reservations'[r].expected = input.expected
  BY <1>0, <1>1 DEF Reserves, ReserveBatch, TypeOK
<1>3. IsIndex(r) => input.expected = Committed(r)
  <2>1. IsIndex(r) => indexEtag[r.machine] = input.expected
    BY <1>0 DEF Reserves, Admits, AdmitsIndex
  <2>2. r.machine \in Machines
    BY <1>1 DEF Slots
  <2>. QED
    BY <2>1, <2>2 DEF IndexEtagIsCommitted, Committed, IsIndex
<1>4. \A p, q \in Slots, etag \in Etags : CommittedBy(p, q, etag) => p # r /\ CommittedBy(p, q, etag)'
  BY <1>1, <1>2 DEF CommittedBy, SameObject
<1>5. \A q \in Slots : Committed(q)' = Committed(q) /\ Committed(q) \in Etags
  BY <1>1 DEF Committed, TypeOK, Slots
<1>6. LedgerWasReserved'
  BY <1>4, <1>5 DEF LedgerWasReserved
<1>7. ReplacedWasCommitted'
  <2>. SUFFICES ASSUME NEW q \in Slots, reservations'[q].state # "absent",
                       reservations'[q].replaced # Nil
                PROVE  \E p \in Slots \ {q} : CommittedBy(p, q, reservations[q].replaced)'
    BY DEF ReplacedWasCommitted
  <2>1. CASE q = r
    <3>1. PICK p \in Slots : CommittedBy(p, r, Committed(r))
      BY <1>1, <1>2, <2>1 DEF LedgerWasReserved
    <3>2. p # r /\ CommittedBy(p, r, Committed(r))'
      BY <1>1, <1>4, <1>5, <3>1
    <3>3. CommittedBy(p, r, reservations[r].replaced)'
      BY <1>1, <1>2, <1>5, <3>2 DEF CommittedBy
    <3>. QED
      BY <2>1, <3>2, <3>3
  <2>2. CASE q # r
    <3>1. reservations'[q] = reservations[q] /\ reservations[q].replaced \in Etags
      BY <1>2, <2>2, RowTypes DEF TypeOK
    <3>2. PICK p \in Slots \ {q} : CommittedBy(p, q, reservations[q].replaced)
      BY <3>1 DEF ReplacedWasCommitted
    <3>3. CommittedBy(p, q, reservations[q].replaced)'
      BY <1>4, <3>1, <3>2 DEF CommittedBy
    <3>. QED
      BY <3>3
  <2>. QED
    BY <2>1, <2>2
<1>8. LedgerHasMoved'
  BY <1>1, <1>2, <1>5 DEF LedgerHasMoved
<1>9. PutsOnReplaced'
  BY <1>1, <1>2, <1>3, <1>5 DEF PutsOnReplaced, PutCondition, IsIndex
<1>. QED
  BY <1>6, <1>7, <1>8, <1>9

LEMMA CommitsObjects ==
    ASSUME IndexInv, ObjectChain, NEW r \in Slots, Commits(r)
    PROVE  ObjectChain'
<1>. USE DEF IndexInv, ObjectChain
<1>1. /\ \A q \in Slots \ {r} : reservations'[q] = reservations[q]
      /\ reservations[r].state = "pending" /\ reservations'[r].state = "completed"
      /\ reservations'[r].content = reservations[r].content
      /\ reservations'[r].replaced = reservations[r].replaced
      /\ reservations'[r].expected = reservations[r].expected
  BY DEF Commits, Pending, TypeOK, Reservations
<1>2. \A p, q \in Slots, etag \in Etags : CommittedBy(p, q, etag) => p # r /\ CommittedBy(p, q, etag)'
  BY <1>1 DEF CommittedBy, SameObject
<1>3. \A q \in Slots : Committed(q) \in Etags /\ reservations[q].replaced \in Etags
  BY RowTypes DEF Committed, TypeOK, Slots
<1>4. \A q \in Slots : Committed(q)' = IF SameObject(r, q) THEN reservations[r].content
                                                         ELSE Committed(q)
  <2>. DEFINE m == r.machine
              k == r.key
              etag == reservations[r].content
  <2>1. m \in Machines /\ k \in Keys /\ \A q \in Slots : q.machine \in Machines /\ q.key \in Keys
    BY DEF Slots
  <2>2. ledger' = [ledger EXCEPT ![m][k] = etag]
    BY DEF Commits
  <2>. HIDE DEF m, k, etag
  <2>3. \A n \in Machines, j \in Keys :
            ledger'[n][j] = IF n = m /\ j = k THEN etag ELSE ledger[n][j]
    BY <2>1, <2>2 DEF TypeOK
  <2>. QED
    BY <2>1, <2>3 DEF Committed, SameObject, m, k, etag
<1>5. LedgerWasReserved'
  <2>. SUFFICES ASSUME NEW q \in Slots, Committed(q)' # Nil
                PROVE  \E p \in Slots : CommittedBy(p, q, Committed(q))'
    BY DEF LedgerWasReserved
  <2>1. CASE SameObject(r, q)
    BY <1>1, <1>4, <2>1 DEF CommittedBy, SameObject
  <2>2. CASE ~SameObject(r, q)
    <3>1. Committed(q)' = Committed(q)
      BY <1>4, <2>2
    <3>2. PICK p \in Slots : CommittedBy(p, q, Committed(q))
      BY <3>1 DEF LedgerWasReserved
    <3>3. CommittedBy(p, q, Committed(q))'
      BY <1>2, <1>3, <3>1, <3>2 DEF CommittedBy
    <3>. QED
      BY <3>3
  <2>. QED
    BY <2>1, <2>2
<1>6. ReplacedWasCommitted'
  <2>. SUFFICES ASSUME NEW q \in Slots, reservations'[q].state # "absent",
                       reservations'[q].replaced # Nil
                PROVE  \E p \in Slots \ {q} : CommittedBy(p, q, reservations[q].replaced)'
    BY DEF ReplacedWasCommitted
  <2>1. reservations[q].state # "absent" /\ reservations'[q].replaced = reservations[q].replaced
    BY <1>1
  <2>2. PICK p \in Slots \ {q} : CommittedBy(p, q, reservations[q].replaced)
    BY <2>1 DEF ReplacedWasCommitted
  <2>3. CommittedBy(p, q, reservations[q].replaced)'
    BY <1>2, <1>3, <2>1, <2>2 DEF CommittedBy
  <2>. QED
    BY <2>3
<1>7. LedgerHasMoved'
  <2>. SUFFICES ASSUME NEW q \in Slots, reservations'[q].state = "completed"
                PROVE  Committed(q)' # reservations'[q].replaced
    BY DEF LedgerHasMoved
  <2>1. reservations'[q].replaced = reservations[q].replaced /\ reservations[q].state # "absent"
        /\ (q # r => reservations[q].state = "completed")
    BY <1>1
  <2>2. CASE SameObject(r, q)
    BY <1>1, <1>4, <2>1, <2>2, NotReplacedYet DEF Pending
  <2>3. CASE ~SameObject(r, q)
    BY <1>4, <2>1, <2>3 DEF LedgerHasMoved, SameObject
  <2>. QED
    BY <2>2, <2>3
<1>8. PutsOnReplaced'
  <2>. SUFFICES ASSUME NEW q \in Slots, reservations'[q].state # "absent"
                PROVE  PutCondition(q)' = reservations'[q].replaced
    BY DEF PutsOnReplaced
  <2>1. reservations[q].state # "absent" /\ reservations'[q].replaced = reservations[q].replaced
        /\ reservations'[q].expected = reservations[q].expected
    BY <1>1
  <2>. QED
    BY <2>1 DEF PutsOnReplaced, PutCondition, IsIndex
<1>. QED
  BY <1>5, <1>6, <1>7, <1>8

LEMMA ExpiresObjects ==
    ASSUME IndexInv, ObjectChain, NEW w \in Workers, Expires(w)
    PROVE  ObjectChain'
<1>. USE DEF IndexInv, ObjectChain
<1>. DEFINE r == requests[w].slot
<1>1. r \in Slots /\ Pending(r) /\ UNCHANGED ledger
  BY DEF RequestsOK, RequestOK, HoldsRow, Expires, At, MayExpire, ExpireBatch
<1>2. reservations' = [reservations EXCEPT ![r].state = "expired"]
  BY DEF Expires, ExpireBatch
<1>. HIDE DEF r
<1>3. /\ \A q \in Slots \ {r} : reservations'[q] = reservations[q]
      /\ reservations[r].state = "pending" /\ reservations'[r].state = "expired"
      /\ reservations'[r].content = reservations[r].content
      /\ reservations'[r].replaced = reservations[r].replaced
      /\ reservations'[r].expected = reservations[r].expected
  BY <1>1, <1>2 DEF Pending, TypeOK, Reservations
<1>4. \A p, q \in Slots, etag \in Etags : CommittedBy(p, q, etag) => CommittedBy(p, q, etag)'
  BY <1>3 DEF CommittedBy, SameObject
<1>5. \A q \in Slots : /\ Committed(q)' = Committed(q) /\ Committed(q) \in Etags
                       /\ reservations[q].replaced \in Etags
  BY <1>1, RowTypes DEF Committed, TypeOK, Slots
<1>6. LedgerWasReserved'
  BY <1>4, <1>5 DEF LedgerWasReserved
<1>7. ReplacedWasCommitted'
  <2>. SUFFICES ASSUME NEW q \in Slots, reservations'[q].state # "absent",
                       reservations'[q].replaced # Nil
                PROVE  \E p \in Slots \ {q} : CommittedBy(p, q, reservations[q].replaced)'
    BY DEF ReplacedWasCommitted
  <2>1. reservations[q].state # "absent" /\ reservations'[q].replaced = reservations[q].replaced
    BY <1>3
  <2>2. PICK p \in Slots \ {q} : CommittedBy(p, q, reservations[q].replaced)
    BY <2>1 DEF ReplacedWasCommitted
  <2>3. CommittedBy(p, q, reservations[q].replaced)'
    BY <1>4, <1>5, <2>1, <2>2 DEF CommittedBy
  <2>. QED
    BY <2>3
<1>8. LedgerHasMoved'
  BY <1>3, <1>5 DEF LedgerHasMoved
<1>9. PutsOnReplaced'
  <2>. SUFFICES ASSUME NEW q \in Slots, reservations'[q].state # "absent"
                PROVE  PutCondition(q)' = reservations'[q].replaced
    BY DEF PutsOnReplaced
  <2>1. reservations[q].state # "absent" /\ reservations'[q].replaced = reservations[q].replaced
        /\ reservations'[q].expected = reservations[q].expected
    BY <1>3
  <2>. QED
    BY <2>1 DEF PutsOnReplaced, PutCondition, IsIndex
<1>. QED
  BY <1>6, <1>7, <1>8, <1>9

LEMMA ObjectChainStep ==
    ASSUME IndexInv, ObjectChain, [Next]_vars
    PROVE  ObjectChain'
<1>1. ASSUME Quiet PROVE ObjectChain'
  BY <1>1 DEF Quiet, ObjectChain, LedgerWasReserved, ReplacedWasCommitted, LedgerHasMoved,
       PutsOnReplaced, PutCondition, CommittedBy, Committed, SameObject, IsIndex
<1>2. ASSUME UNCHANGED vars PROVE Quiet
  BY <1>2 DEF vars, tables, Quiet
<1>3. ASSUME NEW w \in Workers, Completes(w) PROVE ObjectChain'
  BY <1>1, <1>3, CompletesCommits, CommitsObjects
<1>. QED
  BY <1>1, <1>2, <1>3, TableSteps, ReservesObjects, ExpiresObjects DEF Steady


(* A request moves, and nothing else does.                                 *)
LEMMA RequestMoves ==
    ASSUME StoredInv, Quiet, UNCHANGED <<bucket, clock>>, NEW v \in Workers,
           \A r \in signed' : reservations[r].state # "absent",
           \A w \in Workers \ {v} : requests'[w] = requests[w],
           requests'[v].at <= clock, HandlesWell(requests'[v])
    PROVE  (StoredOrPut /\ TimesPass /\ HandledWell)'
<1>. USE DEF StoredInv, Quiet
<1>1. StoredOrPut'
  BY DEF StoredOrPut, Pending
<1>2. TimesPass'
  BY DEF TimesPass
<1>3. HandledWell'
  <2>. SUFFICES ASSUME NEW w \in Workers PROVE HandlesWell(requests[w])'
    BY DEF HandledWell
  <2>1. HandlesWell(requests'[w])
    BY DEF HandledWell
  <2>. QED
    BY <2>1 DEF HandlesWell, Pending, Stored, Committed
<1>. QED
  BY <1>1, <1>2, <1>3

(* What head finds: the object its row replaces, or the one the row brings.*)
LEMMA HeadFinds ==
    ASSUME HeadShowsChecksum, StoredInv, NEW r \in Slots, Pending(r)
    PROVE  /\ Stored(r) = Committed(r) \/ Stored(r) = reservations[r].content
           /\ reservations[r].replaced = Committed(r)
           /\ Stored(r) # Nil => (Matches(Stored(r), reservations[r]) <=>
                                     Stored(r) = reservations[r].content)
           /\ Stored(r) = Nil => Committed(r) = Nil
<1>. USE DEF StoredInv, IndexInv, Chain
<1>1. r.machine \in Machines /\ r.key \in Keys
  BY DEF Slots
<1>2. Stored(r) = Committed(r) \/ Stored(r) = reservations[r].content
  <2>1. CASE \E q \in Slots : /\ q.machine = r.machine /\ q.key = r.key /\ Pending(q)
                              /\ Stored(r) = reservations[q].content
    BY <2>1 DEF OnePending, SameObject
  <2>. QED
    BY <1>1, <2>1 DEF StoredOrPut, Stored, Committed
<1>3. reservations[r].content # Nil
  BY NotNil DEF Pending
<1>. QED
  BY <1>2, <1>3 DEF PendingIsCurrent, Matches

LEMMA RequestSteps ==
    ASSUME HeadShowsChecksum, StoredInv, Next
    PROVE  \/ (StoredOrPut /\ TimesPass /\ HandledWell)'
           \/ \E w \in Workers : Complete(w) \/ Expire(w) \/ RemoveUnexpected(w) \/ Insert(w)
           \/ \E slot \in Slots : Put(slot)
           \/ Tick
<1>. USE DEF StoredInv, IndexInv, tables, outside
<1>0. /\ requests \in [Workers -> Requests] /\ clock \in Nat
      /\ reservations \in [Slots -> Reservations]
      /\ \A w \in Workers : requests[w].at \in Nat /\ requests[w].at <= clock
  BY DEF TypeOK, TimesPass, Requests
<1>. DEFINE Done == (StoredOrPut /\ TimesPass /\ HandledWell)'
            Fine(v) == /\ \A w \in Workers \ {v} : requests'[w] = requests[w]
                       /\ requests'[v].at <= clock /\ HandlesWell(requests'[v])
            Calm == UNCHANGED <<reservations, ledger, indexEtag, bucket, clock>>
<1>1. ASSUME NEW v \in Workers, Fine(v), Calm, UNCHANGED signed PROVE Done
  <2>1. \A r \in signed' : reservations[r].state # "absent"
    BY <1>1 DEF TimesPass
  <2>. QED
    BY <1>1, <2>1, RequestMoves DEF Quiet
<1>2. Idle.pc = "idle" /\ Idle.at = 0
  BY DEF Idle
<1>3. ASSUME NEW v \in Workers, Respond(v) PROVE Fine(v)
  BY <1>0, <1>2, <1>3 DEF Respond, HandlesWell
<1>4. ASSUME NEW v \in Workers, NEW q, requests' = [requests EXCEPT ![v] = q],
             q.at = requests[v].at \/ q.at = clock,
             q.pc \in {"idle", "select", "lookup", "insert", "sign", "get", "account"}
      PROVE  Fine(v)
  <2>1. requests'[v] = q /\ \A w \in Workers \ {v} : requests'[w] = requests[w]
    BY <1>0, <1>4
  <2>2. q.at <= clock
    BY <1>0, <1>4
  <2>3. HandlesWell(q)
    BY <1>4 DEF HandlesWell
  <2>. QED
    BY <2>1, <2>2, <2>3
<1>5. ASSUME NEW v \in Workers,
             NEW pc \in {"idle", "select", "lookup", "insert", "sign", "get", "account"}, Goto(v, pc)
      PROVE  Fine(v)
  <2>. DEFINE q == [requests[v] EXCEPT !.pc = pc]
  <2>1. q.at = requests[v].at /\ q.pc = pc /\ requests' = [requests EXCEPT ![v] = q]
    BY <1>0, <1>5 DEF Goto, Requests
  <2>. HIDE DEF q
  <2>. QED
    BY <1>4, <2>1
<1>6. ASSUME NEW v \in Workers, NEW op, NEW pc \in {"select", "get"}, NEW slot, Start(v, op, pc, slot)
      PROVE  Done
  <2>. DEFINE q == [Idle EXCEPT !.pc = pc, !.op = op, !.at = clock, !.slot = slot]
  <2>1. q.at = clock /\ q.pc = pc /\ requests' = [requests EXCEPT ![v] = q]
    BY <1>6 DEF Start, Idle
  <2>2. Calm /\ UNCHANGED signed
    BY <1>6 DEF Start
  <2>. HIDE DEF q
  <2>3. Fine(v)
    BY <1>4, <2>1
  <2>. QED
    BY <1>1, <2>2, <2>3
<1>7. ASSUME NEW m \in Machines, CreateMachineRemote(m) PROVE Done
  BY <1>7 DEF CreateMachineRemote, StoredOrPut, TimesPass, HandledWell, HandlesWell, Pending,
       Stored, Committed
<1>8. ASSUME NEW v \in Workers,
             StartReserve(v) \/ StartCron(v) \/ \E slot \in Slots : StartFinalize(v, slot)
      PROVE  Done
  BY <1>6, <1>8 DEF StartReserve, StartCron, StartFinalize
<1>9. ASSUME NEW v \in Workers, SelectExpired(v) PROVE Done
  <2>1. PICK r \in Lapsed(requests[v].at) :
            requests' = [requests EXCEPT ![v].pc = "head", ![v].slot = r]
    BY <1>9 DEF SelectExpired
  <2>. DEFINE q == [requests[v] EXCEPT !.pc = "head", !.slot = r]
  <2>2. /\ requests' = [requests EXCEPT ![v] = q]
        /\ q.pc = "head" /\ q.slot = r /\ q.at = requests[v].at
    BY <1>0, <2>1 DEF Requests
  <2>. HIDE DEF q
  <2>3. Pending(r)
    BY DEF Lapsed, MayExpire
  <2>4. HandlesWell(q)
    BY <2>2, <2>3 DEF HandlesWell
  <2>5. Fine(v)
    BY <1>0, <2>2, <2>4
  <2>6. Calm /\ UNCHANGED signed
    BY <1>9 DEF SelectExpired
  <2>. QED
    BY <1>1, <2>5, <2>6
<1>10. ASSUME NEW v \in Workers, NoneExpired(v) \/ Abort(v) PROVE Done
  <2>1. Fine(v)
    BY <1>3, <1>5, <1>10 DEF NoneExpired, Abort
  <2>2. Calm /\ UNCHANGED signed
    BY <1>10 DEF NoneExpired, Abort
  <2>. QED
    BY <1>1, <2>1, <2>2
<1>11. ASSUME NEW v \in Workers, GetReservation(v) PROVE Done
  <2>1. Calm /\ UNCHANGED signed
    BY <1>11 DEF GetReservation
  <2>2. CASE ~Pending(requests[v].slot)
    <3>1. Fine(v)
      BY <1>3, <1>11, <2>2 DEF GetReservation
    <3>. QED
      BY <1>1, <2>1, <3>1
  <2>3. CASE Pending(requests[v].slot)
    <3>. DEFINE q == [requests[v] EXCEPT !.pc = "head"]
    <3>1. /\ requests' = [requests EXCEPT ![v] = q]
          /\ q.pc = "head" /\ q.slot = requests[v].slot /\ q.at = requests[v].at
      BY <1>0, <1>11, <2>3 DEF GetReservation, Goto, Requests
    <3>. HIDE DEF q
    <3>2. HandlesWell(q)
      BY <2>3, <3>1 DEF HandlesWell
    <3>3. Fine(v)
      BY <1>0, <3>1, <3>2
    <3>. QED
      BY <1>1, <2>1, <3>3
  <2>. QED
    BY <2>2, <2>3
<1>12. ASSUME NEW v \in Workers, Reread(v) PROVE Done
  BY <1>12 DEF Reread, At, HandledWell, HandlesWell
<1>13. ASSUME NEW v \in Workers, HeadObject(v) PROVE Done
  <2>. DEFINE r == requests[v].slot
  <2>0. Calm /\ UNCHANGED signed
    BY <1>13 DEF HeadObject
  <2>1. r \in Slots /\ Pending(r)
    BY <1>13 DEF HeadObject, At, RequestsOK, RequestOK, HoldsRow, HandledWell, HandlesWell
  <2>2. /\ Stored(r) = Committed(r) \/ Stored(r) = reservations[r].content
        /\ reservations[r].replaced = Committed(r)
        /\ Stored(r) # Nil => (Matches(Stored(r), reservations[r]) <=>
                                  Stored(r) = reservations[r].content)
        /\ Stored(r) = Nil => Committed(r) = Nil
    BY <2>1, HeadFinds
  <2>3. CASE Stored(r) = Nil
    <3>1. CASE reservations[r].expiresAt <= requests[v].at
      <4>. DEFINE q == [requests[v] EXCEPT !.pc = "expire"]
      <4>1. /\ requests' = [requests EXCEPT ![v] = q]
            /\ q.pc = "expire" /\ q.slot = r /\ q.at = requests[v].at
        BY <1>0, <1>13, <2>3, <3>1 DEF HeadObject, ExpireOrRespond, Goto, Requests
      <4>. HIDE DEF q, r
      <4>2. HandlesWell(q)
        BY <2>1, <2>2, <2>3, <3>1, <4>1 DEF HandlesWell
      <4>3. Fine(v)
        BY <1>0, <4>1, <4>2
      <4>. QED
        BY <1>1, <2>0, <4>3
    <3>2. CASE ~(reservations[r].expiresAt <= requests[v].at)
      <4>1. Fine(v)
        BY <1>3, <1>13, <2>3, <3>2 DEF HeadObject, ExpireOrRespond
      <4>. QED
        BY <1>1, <2>0, <4>1
    <3>. QED
      BY <3>1, <3>2
  <2>4. CASE Stored(r) # Nil /\ Stored(r) = reservations[r].content
    <3>. DEFINE q == [requests[v] EXCEPT !.object = Stored(r), !.pc = "settle"]
    <3>0. requests' = [requests EXCEPT ![v].object = Stored(r), ![v].pc = "settle"]
      BY <1>13, <2>2, <2>4 DEF HeadObject
    <3>1. /\ requests' = [requests EXCEPT ![v] = q]
          /\ q.pc = "settle" /\ q.slot = r /\ q.at = requests[v].at
      BY <1>0, <3>0 DEF Requests
    <3>. HIDE DEF q, r
    <3>2. HandlesWell(q)
      BY <2>1, <2>4, <3>1 DEF HandlesWell
    <3>3. Fine(v)
      BY <1>0, <3>1, <3>2
    <3>. QED
      BY <1>1, <2>0, <3>3
  <2>5. CASE Stored(r) # Nil /\ Stored(r) # reservations[r].content
    <3>. DEFINE q == [requests[v] EXCEPT !.object = Stored(r), !.pc = "remove"]
    <3>1. /\ requests' = [requests EXCEPT ![v] = q]
          /\ q.pc = "remove" /\ q.slot = r /\ q.at = requests[v].at /\ q.object = Stored(r)
      BY <1>0, <1>13, <2>2, <2>5 DEF HeadObject, Requests
    <3>. HIDE DEF q, r
    <3>2. HandlesWell(q)
      BY <2>1, <2>2, <2>5, <3>1 DEF HandlesWell
    <3>3. Fine(v)
      BY <1>0, <3>1, <3>2
    <3>. QED
      BY <1>1, <2>0, <3>3
  <2>. QED
    BY <2>3, <2>4, <2>5
<1>14. ASSUME NEW v \in Workers, NEW slot \in Slots, NEW input \in Inputs, Lookup(v, slot, input)
       PROVE  Done
  <2>0. Calm /\ UNCHANGED signed
    BY <1>14 DEF Lookup
  <2>1. CASE Respond(v)
    <3>1. Fine(v)
      BY <1>3, <2>1
    <3>. QED
      BY <1>1, <2>0, <3>1
  <2>2. CASE requests' = [requests EXCEPT ![v].pc = "insert", ![v].slot = slot, ![v].input = input]
    <3>. DEFINE q == [requests[v] EXCEPT !.pc = "insert", !.slot = slot, !.input = input]
    <3>1. requests' = [requests EXCEPT ![v] = q] /\ q.pc = "insert" /\ q.at = requests[v].at
      BY <1>0, <2>2 DEF Requests
    <3>. HIDE DEF q
    <3>2. Fine(v)
      BY <1>4, <3>1
    <3>. QED
      BY <1>1, <2>0, <3>2
  <2>3. CASE requests' = [requests EXCEPT ![v].pc = "sign", ![v].slot = slot]
    <3>. DEFINE q == [requests[v] EXCEPT !.pc = "sign", !.slot = slot]
    <3>1. requests' = [requests EXCEPT ![v] = q] /\ q.pc = "sign" /\ q.at = requests[v].at
      BY <1>0, <2>3 DEF Requests
    <3>. HIDE DEF q
    <3>2. Fine(v)
      BY <1>4, <3>1
    <3>. QED
      BY <1>1, <2>0, <3>2
  <2>. QED
    BY <1>14, <2>1, <2>2, <2>3 DEF Lookup
<1>15. ASSUME NEW v \in Workers, ReconcileAccounting(v) PROVE Done
  <2>1. Calm /\ UNCHANGED signed /\ Respond(v)
    BY <1>15 DEF ReconcileAccounting
  <2>2. Fine(v)
    BY <1>3, <2>1
  <2>. QED
    BY <1>1, <2>1, <2>2
<1>16. ASSUME NEW v \in Workers, Sign(v) PROVE Done
  <2>1. Calm /\ Respond(v) /\ signed' = signed \cup {requests[v].slot}
    BY <1>16 DEF Sign
  <2>2. reservations[requests[v].slot].state # "absent"
    BY <1>16 DEF Sign, At, RequestsOK, RequestOK, HoldsRow
  <2>3. \A r \in signed' : reservations[r].state # "absent"
    BY <2>1, <2>2 DEF TimesPass
  <2>4. Fine(v)
    BY <1>3, <2>1
  <2>. QED
    BY <2>1, <2>3, <2>4, RequestMoves DEF Quiet
<1>. HIDE DEF Done
<1>17. \/ Done
       \/ \E w \in Workers : Complete(w) \/ Expire(w) \/ RemoveUnexpected(w) \/ Insert(w)
       \/ \E slot \in Slots : Put(slot)
       \/ Tick
  BY <1>7, <1>8, <1>9, <1>10, <1>11, <1>12, <1>13, <1>14, <1>15, <1>16 DEF Next, Step
<1>. QED
  BY <1>17 DEF Done


(* What an expired deadline rules out: a PUT lands before the expiry of    *)
(* its row only.                                                           *)
LEMMA TickKeeps ==
    ASSUME StoredInv, Tick
    PROVE  (StoredOrPut /\ TimesPass /\ HandledWell)'
<1>. USE DEF StoredInv, IndexInv
<1>1. clock \in Nat /\ clock' = clock + 1 /\ UNCHANGED <<tables, bucket, signed, requests>>
  BY DEF Tick, TypeOK
<1>2. StoredOrPut' /\ HandledWell'
  BY <1>1 DEF tables, StoredOrPut, HandledWell, HandlesWell, Pending, Stored, Committed
<1>3. /\ \A r \in Slots : reservations[r].expiresAt \in Nat
      /\ \A w \in Workers : requests[w].at \in Nat
  BY DEF TypeOK, Reservations, Requests
<1>4. TimesPass'
  BY <1>1, <1>3 DEF TimesPass, tables
<1>. QED
  BY <1>2, <1>4

LEMMA PutKeeps ==
    ASSUME ~LatePuts, StoredInv, TypeOK', NEW r \in Slots, Put(r)
    PROVE  (StoredOrPut /\ TimesPass /\ HandledWell)'
<1>. USE DEF StoredInv, IndexInv, Chain, ObjectChain
<1>1. /\ UNCHANGED <<tables, signed, clock, requests>>
      /\ reservations[r].state # "absent" /\ clock < reservations[r].expiresAt
      /\ Stored(r) = reservations[r].replaced
      /\ bucket' = [bucket EXCEPT ![r.machine][r.key] = reservations[r].content]
  BY DEF Put, TimesPass, PutsOnReplaced
<1>2. r.machine \in Machines /\ r.key \in Keys
  BY DEF Slots
<1>3. /\ reservations[r] \in Reservations /\ clock \in Nat
      /\ \A w \in Workers : requests[w].at \in Nat /\ requests[w].at <= clock
  BY DEF TypeOK, Requests, TimesPass
<1>4. reservations[r].state # "expired" /\ reservations[r].expiresAt \in Nat
  BY <1>1, <1>3 DEF TimesPass, Reservations
<1>5. Pending(r)
  <2>. SUFFICES ASSUME reservations[r].state = "completed" PROVE FALSE
    BY <1>1, <1>3, <1>4 DEF Pending, Reservations
  <2>1. Stored(r) # Committed(r)
    BY <1>1 DEF LedgerHasMoved
  <2>2. PICK q \in Slots : SameObject(q, r) /\ Pending(q) /\ Stored(r) = reservations[q].content
    BY <1>2, <2>1 DEF StoredOrPut, Stored, Committed, SameObject
  <2>. QED
    BY <1>1, <2>2, NotReplacedYet
<1>6. reservations[r].content # reservations[r].replaced
  BY <1>1, <1>5, NotReplacedYet DEF SameObject
<1>7. \A m \in Machines, k \in Keys :
          bucket'[m][k] = IF m = r.machine /\ k = r.key THEN reservations[r].content
                                                       ELSE bucket[m][k]
  <2>. DEFINE n == r.machine
              j == r.key
              c == reservations[r].content
  <2>1. n \in Machines /\ j \in Keys /\ bucket' = [bucket EXCEPT ![n][j] = c]
    BY <1>1, <1>2
  <2>. HIDE DEF n, j, c
  <2>2. \A m \in Machines, k \in Keys :
            bucket'[m][k] = IF m = n /\ k = j THEN c ELSE bucket[m][k]
    BY <2>1 DEF TypeOK
  <2>. QED
    BY <2>2 DEF n, j, c
<1>8. StoredOrPut'
  BY <1>1, <1>5, <1>7 DEF StoredOrPut, tables, Pending
<1>9. TimesPass'
  BY <1>1 DEF TimesPass, tables
<1>10. ASSUME NEW w \in Workers PROVE HandlesWell(requests[w])'
  <2>. DEFINE q == requests[w].slot
  <2>1. HandlesWell(requests[w]) /\ requests'[w] = requests[w] /\ UNCHANGED <<reservations, ledger>>
    BY <1>1 DEF HandledWell, tables
  <2>2. CASE requests[w].pc \in {"settle", "remove", "expire"}
    <3>1. q \in Slots /\ Pending(q) /\ q.machine \in Machines /\ q.key \in Keys
      BY <2>1, <2>2 DEF HandlesWell, RequestsOK, RequestOK, HoldsRow, Slots
    <3>2. CASE q # r
      <4>1. ~(q.machine = r.machine /\ q.key = r.key)
        BY <1>5, <3>1, <3>2 DEF OnePending, SameObject
      <4>2. Stored(q)' = Stored(q)
        BY <1>7, <2>1, <3>1, <4>1 DEF Stored
      <4>. QED
        BY <2>1, <4>2 DEF HandlesWell, Pending, Committed, Stored
    <3>3. CASE q = r
      <4>1. requests[w].pc # "settle" /\ ~(reservations[r].expiresAt <= requests[w].at)
        BY <1>1, <1>3, <1>4, <1>6, <2>1, <3>3 DEF HandlesWell
      <4>. QED
        BY <2>1, <2>2, <3>3, <4>1 DEF HandlesWell, Pending
    <3>. QED
      BY <3>2, <3>3
  <2>3. CASE requests[w].pc \notin {"settle", "remove", "expire"}
    BY <2>1, <2>3 DEF HandlesWell, Pending
  <2>. QED
    BY <2>2, <2>3
<1>. QED
  BY <1>8, <1>9, <1>10 DEF HandledWell

(* A request that handles another object keeps what it relies on.          *)
LEMMA OthersKeep ==
    ASSUME StoredInv, NEW r \in Slots, NEW w \in Workers, requests'[w] = requests[w],
           \A q \in Slots \ {r} : reservations'[q] = reservations[q],
           \A q \in Slots : ~SameObject(q, r) => Committed(q)' = Committed(q),
           UNCHANGED bucket, Handles(w) => ~SameObject(requests[w].slot, r)
    PROVE  HandlesWell(requests[w])'
<1>. USE DEF StoredInv, IndexInv
<1>1. HandlesWell(requests[w])
  BY DEF HandledWell
<1>2. CASE Handles(w)
  <2>1. requests[w].slot \in Slots
    BY <1>2 DEF Handles, RequestsOK, RequestOK, HoldsRow
  <2>2. requests[w].slot # r
    BY <1>2 DEF SameObject
  <2>3. \A q \in Slots : Stored(q)' = Stored(q)
    BY DEF Stored
  <2>. QED
    BY <1>1, <1>2, <2>1, <2>2, <2>3 DEF HandlesWell, Pending, Committed, Stored
<1>3. CASE ~Handles(w)
  BY <1>1, <1>3 DEF Handles, HandlesWell
<1>. QED
  BY <1>2, <1>3

LEMMA InsertKeeps ==
    ASSUME StoredInv, NEW v \in Workers, Insert(v)
    PROVE  (StoredOrPut /\ TimesPass /\ HandledWell)'
<1>. USE DEF StoredInv, IndexInv
<1>0. /\ requests \in [Workers -> Requests] /\ clock \in Nat /\ UNCHANGED outside
      /\ \A w \in Workers : requests[w].at \in Nat /\ requests[w].at <= clock
  BY DEF TypeOK, TimesPass, Requests, Insert
<1>1. /\ \A w \in Workers \ {v} : requests'[w] = requests[w]
      /\ requests'[v].at <= clock /\ requests'[v].pc \in {"idle", "sign"}
  <2>1. CASE Respond(v)
    BY <1>0, <2>1 DEF Respond, Idle
  <2>2. CASE requests' = [requests EXCEPT ![v].pc = "sign", ![v].input = NoInput]
    BY <1>0, <2>2 DEF Requests
  <2>. QED
    BY <2>1, <2>2 DEF Insert
<1>2. CASE UNCHANGED tables
  <2>1. HandlesWell(requests'[v])
    BY <1>1 DEF HandlesWell
  <2>2. \A r \in signed' : reservations[r].state # "absent"
    BY <1>0 DEF TimesPass, outside
  <2>. QED
    BY <1>0, <1>1, <1>2, <2>1, <2>2, RequestMoves DEF Quiet, tables, outside
<1>3. CASE Reserves(v)
  <2>. DEFINE r == requests[v].slot
              input == requests[v].input
  <2>1. /\ r \in Slots /\ reservations[r].state = "absent" /\ UNCHANGED ledger
        /\ \A q \in Slots : SameObject(q, r) => ~Pending(q)
    BY <1>3 DEF RequestsOK, RequestOK, Reserves, At, IsUnique, ReserveBatch
  <2>2. /\ \A q \in Slots \ {r} : reservations'[q] = reservations[q]
        /\ reservations'[r].state = "pending"
    BY <1>3, <2>1 DEF Reserves, ReserveBatch, TypeOK
  <2>. HIDE DEF r
  <2>3. StoredOrPut'
    BY <1>0, <2>1, <2>2 DEF StoredOrPut, Pending, outside
  <2>4. TimesPass'
    <3>1. \A q \in Slots : reservations'[q].state = "expired" => reservations'[q].expiresAt <= clock
      BY <2>1, <2>2 DEF TimesPass
    <3>2. \A w \in Workers : requests'[w].at <= clock
      BY <1>0, <1>1
    <3>3. \A q \in signed : reservations'[q].state # "absent"
      BY <2>1, <2>2 DEF TimesPass, TypeOK
    <3>4. signed' = signed /\ clock' = clock
      BY <1>0 DEF outside
    <3>. QED
      BY <3>1, <3>2, <3>3, <3>4 DEF TimesPass
  <2>5. ASSUME NEW w \in Workers PROVE HandlesWell(requests[w])'
    <3>1. CASE w = v
      BY <1>1, <3>1 DEF HandlesWell
    <3>2. CASE w # v
      <4>1. requests'[w] = requests[w]
        BY <1>1, <3>2
      <4>2. Handles(w) => ~SameObject(requests[w].slot, r)
        <5>1. Handles(w) => requests[w].slot \in Slots /\ Pending(requests[w].slot)
          BY DEF Handles, HandledWell, HandlesWell, RequestsOK, RequestOK, HoldsRow
        <5>. QED
          BY <2>1, <5>1
      <4>3. (\A q \in Slots : ~SameObject(q, r) => Committed(q)' = Committed(q)) /\ UNCHANGED bucket
        BY <1>0, <2>1 DEF Committed, outside
      <4>. QED
        BY <2>1, <2>2, <4>1, <4>2, <4>3, OthersKeep
    <3>. QED
      BY <3>1, <3>2
  <2>. QED
    BY <2>3, <2>4, <2>5 DEF HandledWell
<1>4. UNCHANGED tables \/ Reserves(v)
  BY DEF Insert, Reserves
<1>. QED
  BY <1>2, <1>3, <1>4

LEMMA RemoveKeeps ==
    ASSUME StoredInv, NEW v \in Workers, RemoveUnexpected(v)
    PROVE  (StoredOrPut /\ TimesPass /\ HandledWell)'
<1>. USE DEF StoredInv, IndexInv
<1>0. /\ requests \in [Workers -> Requests] /\ clock \in Nat /\ requests[v].pc = "remove"
      /\ \A w \in Workers : requests[w].at \in Nat /\ requests[w].at <= clock
  BY DEF TypeOK, TimesPass, Requests, RemoveUnexpected, At
<1>. DEFINE r == requests[v].slot
<1>1. /\ Pending(r) /\ requests[v].object # Nil /\ requests[v].object = reservations[r].replaced
      /\ reservations[r].expiresAt <= requests[v].at => Stored(r) = Committed(r)
  BY <1>0 DEF HandledWell, HandlesWell
<1>2. Quiet /\ UNCHANGED <<bucket, clock, signed>>
  BY <1>1 DEF RemoveUnexpected, Quiet, tables
<1>3. \A x \in signed' : reservations[x].state # "absent"
  BY <1>2 DEF TimesPass
<1>4. CASE reservations[r].expiresAt <= requests[v].at
  <2>. DEFINE q == [requests[v] EXCEPT !.pc = "expire"]
  <2>1. /\ requests' = [requests EXCEPT ![v] = q]
        /\ q.pc = "expire" /\ q.slot = r /\ q.at = requests[v].at
    BY <1>0, <1>4 DEF RemoveUnexpected, ExpireOrRespond, Goto, Requests
  <2>. HIDE DEF q, r
  <2>2. HandlesWell(q)
    BY <1>1, <1>4, <2>1 DEF HandlesWell
  <2>3. /\ \A w \in Workers \ {v} : requests'[w] = requests[w]
        /\ requests'[v].at <= clock /\ HandlesWell(requests'[v])
    BY <1>0, <2>1, <2>2
  <2>. QED
    BY <1>2, <1>3, <2>3, RequestMoves
<1>5. CASE ~(reservations[r].expiresAt <= requests[v].at)
  <2>1. Respond(v)
    BY <1>5 DEF RemoveUnexpected, ExpireOrRespond
  <2>2. /\ \A w \in Workers \ {v} : requests'[w] = requests[w]
        /\ requests'[v].at <= clock /\ HandlesWell(requests'[v])
    BY <1>0, <2>1 DEF Respond, Idle, HandlesWell
  <2>. QED
    BY <1>2, <1>3, <2>2, RequestMoves
<1>. QED
  BY <1>4, <1>5

LEMMA SettledMoves ==
    ASSUME requests \in [Workers -> Requests], NEW v \in Workers, Settled(v),
           requests[v].at <= clock, clock \in Nat
    PROVE  /\ \A w \in Workers \ {v} : requests'[w] = requests[w]
           /\ requests'[v].at <= clock /\ requests'[v].pc \in {"idle", "select"}
BY DEF Settled, Idle, Requests

(* A row is settled: committed or expired, its object being what then is   *)
(* committed.                                                              *)
LEMMA SettleKeeps ==
    ASSUME StoredInv, Apart, NEW v \in Workers, Handles(v), Settled(v), NEW r \in Slots,
           r = requests[v].slot, UNCHANGED <<bucket, signed, clock>>,
           \A q \in Slots \ {r} : reservations'[q] = reservations[q],
           reservations'[r].state \in {"completed", "expired"},
           reservations'[r].state = "expired" => reservations'[r].expiresAt <= clock,
           \A m \in Machines, k \in Keys :
               ~(m = r.machine /\ k = r.key) => ledger'[m][k] = ledger[m][k],
           bucket[r.machine][r.key] = ledger'[r.machine][r.key]
    PROVE  (StoredOrPut /\ TimesPass /\ HandledWell)'
<1>. USE DEF StoredInv, IndexInv
<1>0. /\ requests \in [Workers -> Requests] /\ clock \in Nat
      /\ \A w \in Workers : requests[w].at \in Nat /\ requests[w].at <= clock
  BY DEF TypeOK, TimesPass, Requests
<1>1. /\ \A w \in Workers \ {v} : requests'[w] = requests[w]
      /\ requests'[v].at <= clock /\ requests'[v].pc \in {"idle", "select"}
  BY <1>0, SettledMoves
<1>2. StoredOrPut'
  <2>. SUFFICES ASSUME NEW m \in Machines, NEW k \in Keys, bucket'[m][k] # ledger'[m][k]
                PROVE  \E q \in Slots : /\ q.machine = m /\ q.key = k /\ Pending(q)'
                                        /\ bucket'[m][k] = reservations'[q].content
    BY DEF StoredOrPut
  <2>1. ~(m = r.machine /\ k = r.key)
    OBVIOUS
  <2>2. bucket[m][k] # ledger[m][k] /\ bucket'[m][k] = bucket[m][k]
    BY <2>1
  <2>3. PICK q \in Slots : /\ q.machine = m /\ q.key = k /\ Pending(q)
                           /\ bucket[m][k] = reservations[q].content
    BY <2>2 DEF StoredOrPut
  <2>4. q # r
    BY <2>1, <2>3
  <2>. QED
    BY <2>2, <2>3, <2>4 DEF Pending
<1>3. TimesPass'
  <2>1. \A q \in Slots : reservations'[q].state = "expired" => reservations'[q].expiresAt <= clock
    BY DEF TimesPass
  <2>2. \A w \in Workers : requests'[w].at <= clock
    BY <1>0, <1>1
  <2>3. \A q \in signed : reservations'[q].state # "absent"
    BY DEF TimesPass, TypeOK
  <2>. QED
    BY <2>1, <2>2, <2>3 DEF TimesPass
<1>4. ASSUME NEW w \in Workers PROVE HandlesWell(requests[w])'
  <2>1. CASE w = v
    BY <1>1, <2>1 DEF HandlesWell
  <2>2. CASE w # v
    <3>1. requests'[w] = requests[w]
      BY <1>1, <2>2
    <3>2. Handles(w) => ~SameObject(requests[w].slot, r)
      BY <2>2 DEF Apart
    <3>3. \A q \in Slots : ~SameObject(q, r) => Committed(q)' = Committed(q)
      BY DEF SameObject, Committed, Slots
    <3>. QED
      BY <3>1, <3>2, <3>3, OthersKeep
  <2>. QED
    BY <2>1, <2>2
<1>. QED
  BY <1>2, <1>3, <1>4 DEF HandledWell

LEMMA CompleteKeeps ==
    ASSUME StoredInv, Apart, NEW v \in Workers, Complete(v)
    PROVE  (StoredOrPut /\ TimesPass /\ HandledWell)'
<1>. USE DEF StoredInv, IndexInv, Chain
<1>. DEFINE s == requests[v].slot
<1>1. /\ s \in Slots /\ Pending(s) /\ requests[v].pc = "settle" /\ Handles(v)
      /\ Stored(s) = reservations[s].content /\ requests[v].object = reservations[s].content
  BY DEF Complete, At, Handles, RequestsOK, RequestOK, HoldsRow, HandledWell, HandlesWell, SettlesOwn
<1>2. MayComplete(s)
  BY <1>1 DEF MayComplete, PendingIsCurrent
<1>3. /\ Settled(v) /\ UNCHANGED <<bucket, signed, clock>>
      /\ ledger' = [ledger EXCEPT ![s.machine][s.key] = reservations[s].content]
      /\ reservations' = [reservations EXCEPT ![s].state = "completed"]
  BY <1>1, <1>2 DEF Complete, CompleteBatch, Record, outside
<1>4. PICK r \in Slots : r = s
  BY <1>1
<1>. HIDE DEF s
<1>5. /\ \A q \in Slots \ {r} : reservations'[q] = reservations[q]
      /\ reservations'[r].state = "completed"
  BY <1>3, <1>4 DEF TypeOK, Reservations
<1>6. \A m \in Machines, k \in Keys :
          ledger'[m][k] = IF m = r.machine /\ k = r.key THEN reservations[r].content ELSE ledger[m][k]
  <2>. DEFINE n == r.machine
              j == r.key
              c == reservations[r].content
  <2>1. n \in Machines /\ j \in Keys /\ ledger' = [ledger EXCEPT ![n][j] = c]
    BY <1>3, <1>4 DEF Slots
  <2>. HIDE DEF n, j, c
  <2>2. \A m \in Machines, k \in Keys :
            ledger'[m][k] = IF m = n /\ k = j THEN c ELSE ledger[m][k]
    BY <2>1 DEF TypeOK
  <2>. QED
    BY <2>2 DEF n, j, c
<1>7. bucket[r.machine][r.key] = ledger'[r.machine][r.key]
  BY <1>1, <1>4, <1>6 DEF Stored, Slots
<1>8. r = requests[v].slot /\ Handles(v) /\ Settled(v) /\ UNCHANGED <<bucket, signed, clock>>
  BY <1>1, <1>3, <1>4 DEF s
<1>9. /\ reservations'[r].state \in {"completed", "expired"}
      /\ reservations'[r].state = "expired" => reservations'[r].expiresAt <= clock
  BY <1>5
<1>10. \A m \in Machines, k \in Keys :
           ~(m = r.machine /\ k = r.key) => ledger'[m][k] = ledger[m][k]
  BY <1>6
<1>. QED
  BY <1>5, <1>7, <1>8, <1>9, <1>10, SettleKeeps

LEMMA ExpireKeeps ==
    ASSUME StoredInv, Apart, NEW v \in Workers, Expire(v)
    PROVE  (StoredOrPut /\ TimesPass /\ HandledWell)'
<1>. USE DEF StoredInv, IndexInv, Chain
<1>. DEFINE s == requests[v].slot
<1>1. /\ s \in Slots /\ Pending(s) /\ requests[v].pc = "expire" /\ Handles(v)
      /\ Stored(s) = Committed(s) /\ reservations[s].expiresAt <= requests[v].at
  BY DEF Expire, At, Handles, RequestsOK, RequestOK, HoldsRow, HandledWell, HandlesWell
<1>2. /\ Settled(v) /\ UNCHANGED <<bucket, signed, clock, ledger>>
      /\ reservations' = [reservations EXCEPT ![s].state = "expired"]
  BY <1>1 DEF Expire, MayExpire, ExpireBatch, outside
<1>3. PICK r \in Slots : r = s
  BY <1>1
<1>. HIDE DEF s
<1>4. /\ \A q \in Slots \ {r} : reservations'[q] = reservations[q]
      /\ reservations'[r].state = "expired"
      /\ reservations'[r].expiresAt = reservations[r].expiresAt
  BY <1>2, <1>3 DEF TypeOK, Reservations
<1>5. reservations'[r].expiresAt <= clock
  <2>1. /\ reservations[r].expiresAt \in Nat /\ requests[v].at \in Nat /\ clock \in Nat
        /\ requests[v].at <= clock
    BY DEF TypeOK, Reservations, Requests, TimesPass
  <2>. QED
    BY <1>1, <1>3, <1>4, <2>1
<1>6. /\ \A m \in Machines, k \in Keys :
             ~(m = r.machine /\ k = r.key) => ledger'[m][k] = ledger[m][k]
      /\ bucket[r.machine][r.key] = ledger'[r.machine][r.key]
  BY <1>1, <1>2, <1>3 DEF Stored, Committed
<1>. QED
  BY <1>1, <1>2, <1>3, <1>4, <1>5, <1>6, SettleKeeps DEF s

LEMMA StoredInit == Init => ObjectChain /\ StoredOrPut /\ TimesPass /\ HandledWell
<1>. SUFFICES ASSUME Init PROVE ObjectChain /\ StoredOrPut /\ TimesPass /\ HandledWell
  OBVIOUS
<1>1. /\ \A r \in Slots : reservations[r].state = "absent" /\ Committed(r) = Nil
      /\ \A m \in Machines, k \in Keys : bucket[m][k] = ledger[m][k]
      /\ signed = {} /\ clock = 0 /\ \A w \in Workers : requests[w].pc = "idle" /\ requests[w].at = 0
  BY DEF Init, Absent, Idle, Committed, Slots
<1>. QED
  BY <1>1 DEF ObjectChain, LedgerWasReserved, ReplacedWasCommitted, LedgerHasMoved,
       PutsOnReplaced, StoredOrPut, TimesPass, HandledWell, HandlesWell

(* broker.ts, removeUnexpectedObject: what is committed stays in the       *)
(* bucket, as long as no two requests are between the head and the end of  *)
(* settling rows of one object at once, clients stop uploading at the      *)
(* expiry, and head shows the checksum.                                    *)
THEOREM CommittedStaysStored ==
    ASSUME HeadShowsChecksum, ~LatePuts
    PROVE  Spec /\ []Apart => []CommittedIsStored
<1>. DEFINE More == ObjectChain /\ StoredOrPut /\ TimesPass /\ HandledWell
<1>1. Init => More
  BY StoredInit
<1>2. IndexInv /\ IndexInv' /\ Apart /\ More /\ [Next]_vars => More'
  <2>. SUFFICES ASSUME IndexInv, IndexInv', Apart, More, [Next]_vars
                PROVE  More'
    OBVIOUS
  <2>1. StoredInv /\ ObjectChain' /\ TypeOK'
    BY ObjectChainStep DEF StoredInv, IndexInv
  <2>2. CASE UNCHANGED vars
    BY <2>1, <2>2 DEF vars, tables, outside, StoredOrPut, TimesPass, HandledWell, HandlesWell,
         Pending, Stored, Committed
  <2>3. CASE Next
    BY <2>1, <2>3, RequestSteps, CompleteKeeps, ExpireKeeps, RemoveKeeps, InsertKeeps, PutKeeps,
       TickKeeps
  <2>. QED
    BY <2>2, <2>3
<1>3. IndexInv /\ More => CommittedIsStored
  <2>. SUFFICES ASSUME IndexInv, More, NEW m \in Machines, NEW k \in Keys, ledger[m][k] # Nil
                PROVE  bucket[m][k] # Nil
    BY DEF CommittedIsStored
  <2>1. CASE \E q \in Slots : Pending(q) /\ bucket[m][k] = reservations[q].content
    BY <2>1, NotNil DEF Pending, IndexInv, Chain
  <2>. QED
    BY <2>1 DEF StoredOrPut
<1>4. Spec => []IndexInv
  BY IndexInvariant
<1>. HIDE DEF More
<1>. QED
  BY <1>1, <1>2, <1>3, <1>4, PTL DEF Spec

(* One request at a time never handles an object beside another.           *)
COROLLARY OneRequestKeepsStored ==
    ASSUME HeadShowsChecksum, ~LatePuts, \A v, w \in Workers : v = w
    PROVE  Spec => []CommittedIsStored
<1>1. Apart
  BY DEF Apart
<1>. QED
  BY <1>1, CommittedStaysStored, PTL

-----------------------------------------------------------------------------
(***************************************************************************)
(* The broker implements IndexPublication, for every value of the          *)
(* constants.  A reservation of an index seals its sweep, a completion     *)
(* commits an object or publishes the index, an expiry of an index abandons*)
(* it; every other step of the broker leaves the publication as it is.     *)
(***************************************************************************)
StageOf == [m \in Machines |-> [s \in Sweeps |-> Stage(RowOf(m, s, Index).state)]]
BaseOf == [m \in Machines |-> [s \in Sweeps |-> RowOf(m, s, Index).expected]]
CommittedOf ==
    [m \in Machines |-> [s \in Sweeps |->
        {k \in ArchiveKeys : RowOf(m, s, k).state = "completed"}]]

RefinementInv == IndexInv /\ SweepFrozen

LEMMA SlotFields ==
    ASSUME NEW r \in Slots
    PROVE  /\ r.machine \in Machines /\ r.sweep \in Sweeps /\ r.key \in Keys
           /\ RowOf(r.machine, r.sweep, r.key) = reservations[r]
           /\ RowOf(r.machine, r.sweep, r.key)' = reservations'[r]
<1>1. r = [machine |-> r.machine, sweep |-> r.sweep, key |-> r.key]
  BY DEF Slots
<1>2. QED
  BY <1>1 DEF Slots, RowOf

(* Rows other than the one a step changes.                                 *)
LEMMA OtherRows ==
    ASSUME NEW r \in Slots,
           \A q \in Slots \ {r} : reservations'[q] = reservations[q],
           NEW m \in Machines, NEW s \in Sweeps, NEW k \in Keys,
           ~(m = r.machine /\ s = r.sweep /\ k = r.key)
    PROVE  RowOf(m, s, k)' = RowOf(m, s, k)
<1>1. [machine |-> m, sweep |-> s, key |-> k] \in Slots \ {r}
  BY DEF Slots
<1>2. QED
  BY <1>1 DEF RowOf

LEMMA ArchiveStep ==
    ASSUME NEW r \in Slots, ~IsIndex(r),
           \A q \in Slots \ {r} : reservations'[q] = reservations[q]
    PROVE  StageOf' = StageOf /\ BaseOf' = BaseOf
<1>1. \A m \in Machines, s \in Sweeps : RowOf(m, s, Index)' = RowOf(m, s, Index)
  BY OtherRows DEF IsIndex, Keys
<1>2. QED
  BY <1>1 DEF StageOf, BaseOf

LEMMA IndexRowStep ==
    ASSUME NEW r \in Slots, IsIndex(r),
           \A q \in Slots \ {r} : reservations'[q] = reservations[q]
    PROVE  /\ CommittedOf' = CommittedOf
           /\ StageOf' = [StageOf EXCEPT ![r.machine][r.sweep] = Stage(reservations'[r].state)]
           /\ BaseOf' = [BaseOf EXCEPT ![r.machine][r.sweep] = reservations'[r].expected]
<1>1. \A m \in Machines, s \in Sweeps, k \in ArchiveKeys : RowOf(m, s, k)' = RowOf(m, s, k)
  BY OtherRows, IndexAssumption DEF IsIndex, Keys
<1>2. CommittedOf' = CommittedOf
  BY <1>1 DEF CommittedOf
<1>3. \A m \in Machines, s \in Sweeps :
          RowOf(m, s, Index)' = IF m = r.machine /\ s = r.sweep THEN reservations'[r]
                                                              ELSE RowOf(m, s, Index)
  BY OtherRows, SlotFields DEF IsIndex, Keys
<1>4. r.machine \in Machines /\ r.sweep \in Sweeps
  BY SlotFields
<1>5. StageOf' = [StageOf EXCEPT ![r.machine][r.sweep] = Stage(reservations'[r].state)]
  <2> DEFINE a == r.machine
             b == r.sweep
             v == Stage(reservations'[r].state)
  <2>1. \A m \in Machines : StageOf[m] = [s \in Sweeps |-> StageOf[m][s]]
    BY DEF StageOf
  <2>2. \A m \in Machines :
            StageOf'[m] = [s \in Sweeps |-> IF m = a /\ s = b THEN v ELSE StageOf[m][s]]
    BY <1>3 DEF StageOf
  <2>3. StageOf = [m \in Machines |-> StageOf[m]] /\ StageOf' = [m \in Machines |-> StageOf'[m]]
    BY DEF StageOf
  <2>4. a \in Machines /\ b \in Sweeps
    BY <1>4
  <2> HIDE DEF a, b, v
  <2>5. StageOf'[a] = [StageOf[a] EXCEPT ![b] = v]
    BY <2>1, <2>2, <2>4
  <2>6. \A m \in Machines \ {a} : StageOf'[m] = StageOf[m]
    BY <2>1, <2>2
  <2>7. StageOf' = [StageOf EXCEPT ![a][b] = v]
    BY <2>3, <2>4, <2>5, <2>6
  <2>8. QED
    BY <2>7 DEF a, b, v
<1>6. BaseOf' = [BaseOf EXCEPT ![r.machine][r.sweep] = reservations'[r].expected]
  <2> DEFINE a == r.machine
             b == r.sweep
             v == reservations'[r].expected
  <2>1. \A m \in Machines : BaseOf[m] = [s \in Sweeps |-> BaseOf[m][s]]
    BY DEF BaseOf
  <2>2. \A m \in Machines :
            BaseOf'[m] = [s \in Sweeps |-> IF m = a /\ s = b THEN v ELSE BaseOf[m][s]]
    BY <1>3 DEF BaseOf
  <2>3. BaseOf = [m \in Machines |-> BaseOf[m]] /\ BaseOf' = [m \in Machines |-> BaseOf'[m]]
    BY DEF BaseOf
  <2>4. a \in Machines /\ b \in Sweeps
    BY <1>4
  <2> HIDE DEF a, b, v
  <2>5. BaseOf'[a] = [BaseOf[a] EXCEPT ![b] = v]
    BY <2>1, <2>2, <2>4
  <2>6. \A m \in Machines \ {a} : BaseOf'[m] = BaseOf[m]
    BY <2>1, <2>2
  <2>7. BaseOf' = [BaseOf EXCEPT ![a][b] = v]
    BY <2>3, <2>4, <2>5, <2>6
  <2>8. QED
    BY <2>7 DEF a, b, v
<1>7. QED
  BY <1>2, <1>5, <1>6

LEMMA ReservesMaps ==
    ASSUME RefinementInv, NEW w \in Workers, Reserves(w)
    PROVE  Publication!Next \/ UNCHANGED Publication!vars
<1> DEFINE r == requests[w].slot
           input == requests[w].input
<1>1. /\ r \in Slots /\ reservations[r].state = "absent"
      /\ \A q \in Slots : SameObject(q, r) => ~Pending(q)
      /\ IsIndex(r) => indexEtag[r.machine] = input.expected
      /\ UNCHANGED indexEtag
  BY DEF RefinementInv, IndexInv, RequestsOK, RequestOK, Reserves, At, IsUnique, Admits,
         AdmitsIndex, ReserveBatch
<1>2. /\ \A q \in Slots \ {r} : reservations'[q] = reservations[q]
      /\ reservations'[r].state = "pending"
      /\ reservations'[r].expected = input.expected
  BY <1>1 DEF Reserves, ReserveBatch, RefinementInv, IndexInv, TypeOK
<1> HIDE DEF r, input
<1>3. CASE ~IsIndex(r)
  <2>1. StageOf' = StageOf /\ BaseOf' = BaseOf
    BY <1>1, <1>2, <1>3, ArchiveStep
  <2>2. CommittedOf' = CommittedOf
    <3>1. \A m \in Machines, s \in Sweeps, k \in ArchiveKeys :
              RowOf(m, s, k)'.state = "completed" <=> RowOf(m, s, k).state = "completed"
      <4> SUFFICES ASSUME NEW m \in Machines, NEW s \in Sweeps, NEW k \in ArchiveKeys
                   PROVE  RowOf(m, s, k)'.state = "completed" <=> RowOf(m, s, k).state = "completed"
        OBVIOUS
      <4>1. CASE m = r.machine /\ s = r.sweep /\ k = r.key
        BY <1>1, <1>2, <4>1, SlotFields
      <4>2. CASE ~(m = r.machine /\ s = r.sweep /\ k = r.key)
        BY <1>1, <1>2, <4>2, OtherRows DEF Keys
      <4>3. QED
        BY <4>1, <4>2
    <3>2. QED
      BY <3>1 DEF CommittedOf
  <2>3. QED
    BY <1>1, <2>1, <2>2 DEF Publication!vars, StageOf, BaseOf, CommittedOf
<1>4. CASE IsIndex(r)
  <2>1. /\ CommittedOf' = CommittedOf
        /\ StageOf' = [StageOf EXCEPT ![r.machine][r.sweep] = "sealed"]
        /\ BaseOf' = [BaseOf EXCEPT ![r.machine][r.sweep] = indexEtag[r.machine]]
    BY <1>1, <1>2, <1>4, IndexRowStep DEF Stage
  <2>2. r.machine \in Machines /\ r.sweep \in Sweeps
    BY <1>1, SlotFields
  <2>3. StageOf[r.machine][r.sweep] = "open"
    BY <1>1, <1>4, <2>2, SlotFields DEF StageOf, Stage, IsIndex
  <2>4. \A t \in Sweeps : StageOf[r.machine][t] # "sealed"
    <3> SUFFICES ASSUME NEW t \in Sweeps PROVE StageOf[r.machine][t] # "sealed"
      OBVIOUS
    <3> DEFINE q == [machine |-> r.machine, sweep |-> t, key |-> Index]
    <3>1. q \in Slots /\ SameObject(q, r)
      BY <1>4, <2>2 DEF Slots, Keys, SameObject, IsIndex
    <3>2. reservations[q].state \in {"absent", "completed", "expired"}
      BY <1>1, <3>1 DEF Pending, RefinementInv, IndexInv, TypeOK, Reservations
    <3>3. QED
      BY <2>2, <3>2 DEF StageOf, Stage, RowOf
  <2>5. Publication!Seal(r.machine, r.sweep)
    BY <1>1, <2>1, <2>3, <2>4 DEF Publication!Seal, StageOf, BaseOf, CommittedOf
  <2>6. QED
    BY <2>2, <2>5 DEF Publication!Next
<1>5. QED
  BY <1>3, <1>4

LEMMA CommitsMaps ==
    ASSUME RefinementInv, NEW r \in Slots, Commits(r)
    PROVE  Publication!Next
<1>1. /\ \A q \in Slots \ {r} : reservations'[q] = reservations[q]
      /\ reservations'[r].state = "completed"
      /\ reservations'[r].expected = reservations[r].expected
      /\ reservations[r].state = "pending"
  BY DEF Commits, Pending, RefinementInv, IndexInv, TypeOK, Reservations
<1>2. r.machine \in Machines /\ r.sweep \in Sweeps /\ r.key \in Keys
  BY SlotFields
<1>3. CASE ~IsIndex(r)
  <2>1. StageOf' = StageOf /\ BaseOf' = BaseOf /\ indexEtag' = indexEtag
    BY <1>1, <1>3, ArchiveStep DEF Commits
  <2>2. r.key \in ArchiveKeys
    BY <1>2, <1>3 DEF Keys, IsIndex
  <2>3. StageOf[r.machine][r.sweep] = "open"
    <3> DEFINE i == [machine |-> r.machine, sweep |-> r.sweep, key |-> Index]
    <3>1. i \in Slots /\ IsIndex(i)
      BY <1>2 DEF Slots, Keys, IsIndex
    <3>2. r \in ArchivesIn(i) /\ r \notin CompletedIn(i)
      BY <1>1, <1>3 DEF ArchivesIn, CompletedIn
    <3>3. reservations[i].state = "absent"
      BY <3>1, <3>2 DEF RefinementInv, SweepFrozen
    <3>4. QED
      BY <1>2, <3>3 DEF StageOf, Stage, RowOf
  <2>4. r.key \notin CommittedOf[r.machine][r.sweep]
    BY <1>1, <1>2, <2>2, SlotFields DEF CommittedOf
  <2>5. CommittedOf' = [CommittedOf EXCEPT ![r.machine][r.sweep] = @ \cup {r.key}]
    <3> DEFINE a == r.machine
               b == r.sweep
               k0 == r.key
    <3>1. \A m \in Machines, s \in Sweeps, k \in ArchiveKeys :
              RowOf(m, s, k)'.state = "completed" <=>
                  RowOf(m, s, k).state = "completed" \/ (m = a /\ s = b /\ k = k0)
      <4> SUFFICES ASSUME NEW m \in Machines, NEW s \in Sweeps, NEW k \in ArchiveKeys
                   PROVE  RowOf(m, s, k)'.state = "completed" <=>
                            RowOf(m, s, k).state = "completed" \/ (m = a /\ s = b /\ k = k0)
        OBVIOUS
      <4>1. CASE m = a /\ s = b /\ k = k0
        BY <1>1, <4>1, SlotFields
      <4>2. CASE ~(m = a /\ s = b /\ k = k0)
        BY <1>1, <4>2, OtherRows DEF Keys
      <4>3. QED
        BY <4>1, <4>2
    <3>2. a \in Machines /\ b \in Sweeps /\ k0 \in ArchiveKeys
      BY <1>2, <2>2
    <3> HIDE DEF a, b, k0
    <3>3. \A m \in Machines : CommittedOf[m] = [s \in Sweeps |-> CommittedOf[m][s]]
      BY DEF CommittedOf
    <3>4. \A m \in Machines, s \in Sweeps :
              CommittedOf'[m][s] = IF m = a /\ s = b THEN CommittedOf[m][s] \cup {k0}
                                                    ELSE CommittedOf[m][s]
      BY <3>1, <3>2 DEF CommittedOf
    <3>5. \A m \in Machines : CommittedOf'[m] = [s \in Sweeps |-> CommittedOf'[m][s]]
      BY DEF CommittedOf
    <3>6. CommittedOf = [m \in Machines |-> CommittedOf[m]]
          /\ CommittedOf' = [m \in Machines |-> CommittedOf'[m]]
      BY DEF CommittedOf
    <3>7. CommittedOf'[a] = [CommittedOf[a] EXCEPT ![b] = @ \cup {k0}]
      BY <3>2, <3>3, <3>4, <3>5
    <3>8. \A m \in Machines \ {a} : CommittedOf'[m] = CommittedOf[m]
      BY <3>3, <3>4, <3>5
    <3>9. CommittedOf' = [CommittedOf EXCEPT ![a][b] = @ \cup {k0}]
      BY <3>2, <3>6, <3>7, <3>8
    <3>10. QED
      BY <3>9 DEF a, b, k0
  <2>6. Publication!Commit(r.machine, r.sweep, r.key)
    BY <2>1, <2>3, <2>4, <2>5 DEF Publication!Commit, StageOf, BaseOf, CommittedOf
  <2>7. QED
    BY <1>2, <2>2, <2>6 DEF Publication!Next
<1>4. CASE IsIndex(r)
  <2> DEFINE etag == reservations[r].content
  <2>1. /\ CommittedOf' = CommittedOf
        /\ StageOf' = [StageOf EXCEPT ![r.machine][r.sweep] = "published"]
        /\ BaseOf' = [BaseOf EXCEPT ![r.machine][r.sweep] = reservations[r].expected]
    BY <1>1, <1>4, IndexRowStep DEF Stage
  <2>2. BaseOf[r.machine][r.sweep] = reservations[r].expected
    BY <1>2, <1>4, SlotFields DEF BaseOf, IsIndex
  <2>3. BaseOf' = BaseOf
    <3> DEFINE a == r.machine
               b == r.sweep
               v == reservations[r].expected
    <3>1. \A m \in Machines : BaseOf[m] = [s \in Sweeps |-> BaseOf[m][s]]
      BY DEF BaseOf
    <3>2. BaseOf = [m \in Machines |-> BaseOf[m]]
      BY DEF BaseOf
    <3>3. BaseOf' = [BaseOf EXCEPT ![a][b] = v] /\ BaseOf[a][b] = v
      BY <2>1, <2>2
    <3>4. a \in Machines /\ b \in Sweeps
      BY <1>2
    <3> HIDE DEF a, b, v
    <3>5. [BaseOf[a] EXCEPT ![b] = v] = BaseOf[a]
      BY <3>1, <3>3, <3>4
    <3>6. QED
      BY <3>2, <3>3, <3>4, <3>5
  <2>4. StageOf[r.machine][r.sweep] = "sealed"
    BY <1>1, <1>2, <1>4, SlotFields DEF StageOf, Stage, IsIndex
  <2>5. /\ indexEtag[r.machine] = BaseOf[r.machine][r.sweep]
        /\ indexEtag' = [indexEtag EXCEPT ![r.machine] = etag]
    BY <1>4, <2>2 DEF Commits
  <2>6. Publication!Publish(r.machine, r.sweep, etag)
    BY <2>1, <2>3, <2>4, <2>5 DEF Publication!Publish, StageOf, BaseOf, CommittedOf
  <2>7. etag \in Etags \ {Nil}
    BY <1>1, NotNil DEF RefinementInv, IndexInv, Chain, Etags
  <2>8. QED
    BY <1>2, <2>6, <2>7 DEF Publication!Next
<1>5. QED
  BY <1>3, <1>4

LEMMA ExpiresMaps ==
    ASSUME RefinementInv, NEW w \in Workers, Expires(w)
    PROVE  Publication!Next \/ UNCHANGED Publication!vars
<1> DEFINE r == requests[w].slot
<1>1. r \in Slots /\ reservations[r].state = "pending" /\ UNCHANGED indexEtag
  BY DEF RefinementInv, IndexInv, RequestsOK, RequestOK, HoldsRow, Expires, At, MayExpire,
         ExpireBatch, Pending
<1>2. reservations' = [reservations EXCEPT ![r].state = "expired"]
  BY DEF Expires, ExpireBatch
<1> HIDE DEF r
<1>3. /\ \A q \in Slots \ {r} : reservations'[q] = reservations[q]
      /\ reservations'[r].state = "expired"
      /\ reservations'[r].expected = reservations[r].expected
  BY <1>1, <1>2 DEF RefinementInv, IndexInv, TypeOK, Reservations
<1>4. r.machine \in Machines /\ r.sweep \in Sweeps /\ r.key \in Keys
  BY <1>1, SlotFields
<1>5. CASE ~IsIndex(r)
  <2>1. StageOf' = StageOf /\ BaseOf' = BaseOf
    BY <1>1, <1>3, <1>5, ArchiveStep
  <2>2. \A m \in Machines, s \in Sweeps, k \in ArchiveKeys :
            RowOf(m, s, k)'.state = "completed" <=> RowOf(m, s, k).state = "completed"
    <3> SUFFICES ASSUME NEW m \in Machines, NEW s \in Sweeps, NEW k \in ArchiveKeys
                 PROVE  RowOf(m, s, k)'.state = "completed" <=> RowOf(m, s, k).state = "completed"
      OBVIOUS
    <3>1. CASE m = r.machine /\ s = r.sweep /\ k = r.key
      BY <1>1, <1>3, <3>1, SlotFields
    <3>2. CASE ~(m = r.machine /\ s = r.sweep /\ k = r.key)
      BY <1>1, <1>3, <3>2, OtherRows DEF Keys
    <3>3. QED
      BY <3>1, <3>2
  <2>3. CommittedOf' = CommittedOf
    BY <2>2 DEF CommittedOf
  <2>4. QED
    BY <1>1, <2>1, <2>3 DEF Publication!vars, StageOf, BaseOf, CommittedOf
<1>6. CASE IsIndex(r)
  <2>1. /\ CommittedOf' = CommittedOf
        /\ StageOf' = [StageOf EXCEPT ![r.machine][r.sweep] = "abandoned"]
    BY <1>1, <1>3, <1>6, IndexRowStep DEF Stage
  <2>2. \A m \in Machines, s \in Sweeps : RowOf(m, s, Index)'.expected = RowOf(m, s, Index).expected
    <3> SUFFICES ASSUME NEW m \in Machines, NEW s \in Sweeps
                 PROVE  RowOf(m, s, Index)'.expected = RowOf(m, s, Index).expected
      OBVIOUS
    <3>1. CASE m = r.machine /\ s = r.sweep
      BY <1>1, <1>3, <1>6, <3>1, SlotFields DEF IsIndex
    <3>2. CASE ~(m = r.machine /\ s = r.sweep)
      BY <1>1, <1>3, <3>2, OtherRows DEF Keys
    <3>3. QED
      BY <3>1, <3>2
  <2>3. BaseOf' = BaseOf
    BY <2>2 DEF BaseOf
  <2>4. StageOf[r.machine][r.sweep] = "sealed"
    BY <1>1, <1>4, <1>6, SlotFields DEF StageOf, Stage, IsIndex
  <2>5. Publication!Abandon(r.machine, r.sweep)
    BY <1>1, <2>1, <2>3, <2>4 DEF Publication!Abandon, StageOf, BaseOf, CommittedOf
  <2>6. QED
    BY <1>4, <2>5 DEF Publication!Next
<1>7. QED
  BY <1>5, <1>6

LEMMA StutterMaps == Quiet => UNCHANGED Publication!vars
BY DEF Quiet, Publication!vars, RowOf

(* The broker publishes indexes as IndexPublication does: in order, each   *)
(* over a complete sweep, each on top of the one it was derived from.      *)
THEOREM BrokerPublishesInOrder ==
    ASSUME HeadShowsChecksum
    PROVE  Spec => PublishesInOrder
<1>1. Init => Publication!Init
  <2> SUFFICES ASSUME Init PROVE Publication!Init
    OBVIOUS
  <2>1. \A m \in Machines, s \in Sweeps, k \in Keys : RowOf(m, s, k) = Absent
    BY DEF Init, RowOf, Slots
  <2>2. Index \in Keys /\ ArchiveKeys \subseteq Keys
    BY DEF Keys
  <2>3. QED
    BY <2>1, <2>2 DEF Init, Publication!Init, Absent, Stage
<1>2. RefinementInv /\ [Next]_vars => [Publication!Next]_(Publication!vars)
  <2>1. ASSUME RefinementInv, Next PROVE Publication!Next \/ UNCHANGED Publication!vars
    <3>1. ASSUME NEW w \in Workers, Completes(w)
          PROVE  Publication!Next \/ UNCHANGED Publication!vars
      BY <2>1, <3>1, CompletesCommits, CommitsMaps, StutterMaps DEF RefinementInv
    <3>2. QED
      BY <2>1, <3>1, TableSteps, ReservesMaps, ExpiresMaps, StutterMaps DEF Steady
  <2>2. ASSUME UNCHANGED vars PROVE UNCHANGED Publication!vars
    BY <2>2, StutterMaps DEF vars, tables, Quiet
  <2>3. QED
    BY <2>1, <2>2
<1>3. Spec => []RefinementInv
  BY IndexInvariant, ArchivesBeforeIndex, PTL DEF RefinementInv
<1>4. QED
  BY <1>1, <1>2, <1>3, PTL DEF Spec, PublishesInOrder, Publication!Spec

=============================================================================
