--------------------------- MODULE StorageBroker ---------------------------
(***************************************************************************)
(* The Packbat Cloud upload broker (apps/cloud/src/storage/broker.ts) for  *)
(* one account: the D1 tables it updates in atomic batches, the R2 bucket  *)
(* it only sees through head and delete, the presigned PUTs that clients   *)
(* run against the bucket behind its back, and the Worker requests that    *)
(* interleave between any two of their awaits.                             *)
(*                                                                         *)
(* An R2 ETag of a single PUT is a function of the bytes, so one value of  *)
(* Contents stands for an object's bytes, its SHA-256 and its ETag.        *)
(* users.subscription_state belongs to the billing webhook: a statement    *)
(* that reads it may find the account active or not.                       *)
(***************************************************************************)
EXTENDS Integers, FiniteSets, FiniteSetsExt

CONSTANTS
    Machines,           \* machine remotes the account may register
    ArchiveKeys,        \* logical object keys other than the index
    Index,              \* INDEX_OBJECT_KEY
    Sweeps,             \* sweep ids
    Contents,           \* ciphertexts a client may upload
    Ciphertexts,        \* those encrypted in each sweep
    Nil,                \* SQL NULL: no object, no ETag, no content
    Bytes,              \* length of each ciphertext
    Quota,              \* users.quota_bytes
    Lifetime,           \* RESERVATION_LIFETIME_SECONDS
    MaxClock,           \* bound on the clock
    Workers,            \* concurrently running Worker requests
    HeadShowsChecksum,  \* does head() expose the SHA-256 of an S3 upload?
    LatePuts            \* may a PUT land after its reservation's expiry?

Keys == ArchiveKeys \cup {Index}
Etags == Contents \cup {Nil}

ASSUME IndexAssumption == Index \notin ArchiveKeys
ASSUME NilAssumption == Nil \notin Contents
ASSUME KeysAssumption == IsFiniteSet(ArchiveKeys)

(* A sweep id is drawn for each upload run, and age encrypts every object  *)
(* of the run anew: no two sweeps share a ciphertext.                      *)
ASSUME CiphertextsAssumption ==
    /\ Ciphertexts \in [Sweeps -> SUBSET Contents]
    /\ \A s, t \in Sweeps : s # t => Ciphertexts[s] \cap Ciphertexts[t] = {}
ASSUME BytesAssumption == Bytes \in [Contents -> Nat]
ASSUME TimeAssumption == Lifetime \in Nat \ {0} /\ MaxClock \in Nat
ASSUME QuotaAssumption == Quota \in Nat

VARIABLES
    reservations,  \* upload_reservations, by its unique (machine, sweep, key)
    ledger,        \* object_ledger: the committed ETag of each object
    indexEtag,     \* machine_remotes.current_index_etag
    registered,    \* the machine_remotes rows
    account,       \* the users row: used_bytes and reserved_bytes
    bucket,        \* what R2 holds under each key
    signed,        \* reservations whose presigned PUT has been handed out
    clock,         \* seconds
    requests       \* the Worker requests

tables == <<reservations, ledger, indexEtag, registered, account>>
outside == <<bucket, signed, clock>>
vars == <<tables, outside, requests>>

(***************************************************************************)
(* Rows.  A reservation is found by the client's idempotency key, a hash   *)
(* of machine, sweep, key and checksum: by a slot and a content.  Only the *)
(* state of a row ever changes, and no row is deleted while the account    *)
(* exists.                                                                 *)
(***************************************************************************)
Slots == [machine : Machines, sweep : Sweeps, key : Keys]

Reservations ==
    [state : {"absent", "pending", "completed", "expired"},
     content : Etags,      \* checksum_sha256 and expected_bytes
     replaced : Etags,     \* replaced_etag and replaced_bytes
     expected : Etags,     \* expected_index_etag
     count : Nat,          \* expected_archive_count
     expiresAt : Nat]

Absent == [state |-> "absent", content |-> Nil, replaced |-> Nil,
           expected |-> Nil, count |-> 0, expiresAt |-> 0]

Size(etag) == IF etag = Nil THEN 0 ELSE Bytes[etag]

IsIndex(slot) == slot.key = Index
SameObject(r, slot) == r.machine = slot.machine /\ r.key = slot.key
Pending(slot) == reservations[slot].state = "pending"
Committed(slot) == ledger[slot.machine][slot.key]
Stored(slot) == bucket[slot.machine][slot.key]

ArchivesIn(slot) ==
    {r \in Slots : /\ r.machine = slot.machine
                   /\ r.sweep = slot.sweep
                   /\ ~IsIndex(r)
                   /\ reservations[r].state # "absent"}
CompletedIn(slot) ==
    {r \in ArchivesIn(slot) : reservations[r].state = "completed"}

(* The condition of the presigned PUT: If-Match on an ETag, or             *)
(* If-None-Match: * when it is Nil.                                        *)
PutCondition(slot) ==
    IF IsIndex(slot) THEN reservations[slot].expected ELSE reservations[slot].replaced

(* What finalization can tell of an object: always its length, and its     *)
(* checksum only when head() shows one.                                    *)
(* Mutant: compares the lengths alone.                                     *)
MatchesLength(object, reservation) == Size(object) = Size(reservation.content)

Matches(object, reservation) ==
    /\ Size(object) = Size(reservation.content)
    /\ HeadShowsChecksum => object = reservation.content

-----------------------------------------------------------------------------
(***************************************************************************)
(* The D1 statements.  Each batch is one transaction.                      *)
(***************************************************************************)

(* The WHERE clause of reserveUpload's INSERT ... SELECT.                  *)
LivePending(m, now) ==
    {r \in Slots : r.machine = m /\ Pending(r) /\ reservations[r].expiresAt > now}

(* Mutant: forgets that an index closes its sweep.                         *)
AdmitsArchiveAnytime(slot, now) == \A r \in LivePending(slot.machine, now) : ~IsIndex(r)

AdmitsArchive(slot, now) ==
    /\ reservations[[slot EXCEPT !.key = Index]].state = "absent"
    /\ \A r \in LivePending(slot.machine, now) : ~IsIndex(r)

(* Mutant: takes the client's word for the index it started from.          *)
AdmitsIndexOnAnyBase(slot, input, now) ==
    /\ \A r \in LivePending(slot.machine, now) : IsIndex(r)
    /\ Cardinality(CompletedIn(slot)) = input.count
    /\ Cardinality(ArchivesIn(slot)) = input.count

AdmitsIndex(slot, input, now) ==
    /\ indexEtag[slot.machine] = input.expected
    /\ \A r \in LivePending(slot.machine, now) : IsIndex(r)
    /\ Cardinality(CompletedIn(slot)) = input.count
    /\ Cardinality(ArchivesIn(slot)) = input.count

(* Mutant: reserved bytes are not counted.                                 *)
AdmitsUncounted(slot, input, now) ==
    /\ slot.machine \in registered
    /\ account.used - Size(Committed(slot)) + Size(input.content) <= Quota
    /\ IF IsIndex(slot) THEN AdmitsIndex(slot, input, now) ELSE AdmitsArchive(slot, now)

Admits(slot, input, now) ==
    /\ slot.machine \in registered
    /\ account.used + account.reserved - Size(Committed(slot)) + Size(input.content) <= Quota
    /\ IF IsIndex(slot) THEN AdmitsIndex(slot, input, now) ELSE AdmitsArchive(slot, now)

(* The unique indexes of upload_reservations: one row per object of a      *)
(* sweep, one pending row per object.                                      *)
(* Mutant: the partial index on pending rows is missing.                   *)
IsUniqueInSweep(slot) == reservations[slot].state = "absent"

IsUnique(slot) ==
    /\ reservations[slot].state = "absent"
    /\ \A r \in Slots : SameObject(r, slot) => ~Pending(r)

ReserveBatch(slot, input, now) ==
    /\ reservations' = [reservations EXCEPT ![slot] =
          [state |-> "pending", content |-> input.content, replaced |-> Committed(slot),
           expected |-> input.expected, count |-> input.count,
           expiresAt |-> now + Lifetime]]
    /\ account' = [account EXCEPT !.used = @ - Size(Committed(slot)),
                                  !.reserved = @ + Size(input.content)]
    /\ UNCHANGED <<ledger, indexEtag, registered>>

(* completeReservation: its condition is evaluated inside the batch.       *)
MayComplete(slot) ==
    /\ Pending(slot)
    /\ IsIndex(slot) => indexEtag[slot.machine] = reservations[slot].expected

Record(slot, etag) ==
    /\ ledger' = [ledger EXCEPT ![slot.machine][slot.key] = etag]
    /\ account' = [account EXCEPT !.used = @ + Size(reservations[slot].content),
                                  !.reserved = @ - Size(reservations[slot].content)]
    /\ reservations' = [reservations EXCEPT ![slot].state = "completed"]

(* The fourth statement asks for a completed row, whoever completed it.    *)
MovesIndex(slot, state) ==
    /\ IsIndex(slot) /\ state = "completed"
    /\ indexEtag[slot.machine] = reservations[slot].expected

CompleteBatch(slot, etag) ==
    /\ IF MayComplete(slot) THEN Record(slot, etag)
                            ELSE UNCHANGED <<ledger, account, reservations>>
    /\ indexEtag' = IF MovesIndex(slot, reservations'[slot].state)
                    THEN [indexEtag EXCEPT ![slot.machine] = etag] ELSE indexEtag
    /\ UNCHANGED registered

(* expireReservation                                                       *)
(* Mutant: off by one at the deadline.                                     *)
MayExpireAfter(slot, now) == Pending(slot) /\ reservations[slot].expiresAt < now

MayExpire(slot, now) == Pending(slot) /\ reservations[slot].expiresAt <= now

(* Mutant: forgets to give the replaced bytes back.                        *)
ExpireBatchWithoutRefund(slot) ==
    /\ reservations' = [reservations EXCEPT ![slot].state = "expired"]
    /\ account' = [account EXCEPT !.reserved = @ - Size(reservations[slot].content)]
    /\ UNCHANGED <<ledger, indexEtag, registered>>

ExpireBatch(slot) ==
    /\ reservations' = [reservations EXCEPT ![slot].state = "expired"]
    /\ account' = [account EXCEPT !.used = @ + Size(reservations[slot].replaced),
                                  !.reserved = @ - Size(reservations[slot].content)]
    /\ UNCHANGED <<ledger, indexEtag, registered>>

(* The sums of reconcileUsageAccounting: over the rows of object_ledger,   *)
(* and over the reservations in a state.                                   *)
LedgerRows == {o \in Machines \X Keys : ledger[o[1]][o[2]] # Nil}
RowsIn(state) == {r \in Slots : reservations[r].state = state}

LedgerBytes ==
    SumFunctionOnSet([o \in Machines \X Keys |-> Size(ledger[o[1]][o[2]])], LedgerRows)
ReplacedBytes(state) ==
    SumFunctionOnSet([r \in Slots |-> Size(reservations[r].replaced)], RowsIn(state))
ExpectedBytes(state) ==
    SumFunctionOnSet([r \in Slots |-> Size(reservations[r].content)], RowsIn(state))

-----------------------------------------------------------------------------
(***************************************************************************)
(* Worker requests.  at is the now() the route read before its first await.*)
(***************************************************************************)
Inputs == [content : Contents, expected : Etags, count : 0..Cardinality(ArchiveKeys)]
NoInput == [content |-> Nil, expected |-> Nil, count |-> 0]
NoSlot == [machine |-> Nil, sweep |-> Nil, key |-> Nil]

Requests ==
    [pc : {"idle", "select", "lookup", "insert", "sign", "get", "head", "settle",
           "reread", "remove", "expire", "account"},
     op : {"none", "reserve", "finalize", "cron"},
     at : Nat,
     slot : Slots \cup {NoSlot},      \* the reservation at hand
     input : Inputs \cup {NoInput},   \* the rest of the reserve request
     object : Etags]                  \* as head returned it

Idle == [pc |-> "idle", op |-> "none", at |-> 0, slot |-> NoSlot, input |-> NoInput,
         object |-> Nil]

Init ==
    /\ reservations = [slot \in Slots |-> Absent]
    /\ ledger = [m \in Machines |-> [k \in Keys |-> Nil]]
    /\ indexEtag = [m \in Machines |-> Nil]
    /\ registered = {}
    /\ account = [used |-> 0, reserved |-> 0]
    /\ bucket = [m \in Machines |-> [k \in Keys |-> Nil]]
    /\ signed = {}
    /\ clock = 0
    /\ requests = [w \in Workers |-> Idle]

At(w, pc) == requests[w].pc = pc
Goto(w, pc) == requests' = [requests EXCEPT ![w].pc = pc]
Respond(w) == requests' = [requests EXCEPT ![w] = Idle]

(* After settling one reservation finalizeUpload answers; the expiry loops *)
(* of reserveUpload and of the cron job select again.                      *)
Settled(w) ==
    requests' = [requests EXCEPT ![w] =
        IF @.op = "finalize" THEN Idle
        ELSE [@ EXCEPT !.pc = "select", !.slot = NoSlot, !.object = Nil]]

(* POST /v1/machines: one conditional INSERT.                              *)
CreateMachineRemote(m) ==
    /\ m \notin registered
    /\ registered' = registered \cup {m}
    /\ UNCHANGED <<reservations, ledger, indexEtag, account, requests, outside>>

Start(w, op, pc, slot) ==
    /\ At(w, "idle")
    /\ requests' = [requests EXCEPT ![w] =
          [Idle EXCEPT !.pc = pc, !.op = op, !.at = clock, !.slot = slot]]
    /\ UNCHANGED <<tables, outside>>

StartReserve(w) == Start(w, "reserve", "select", NoSlot)
StartCron(w) == Start(w, "cron", "select", NoSlot)
StartFinalize(w, slot) ==
    /\ reservations[slot].state # "absent"
    /\ Start(w, "finalize", "get", slot)

(* The body of the expiry loops: an expired row and its fresh re-read.     *)
Lapsed(now) == {r \in Slots : MayExpire(r, now)}

SelectExpired(w) ==
    /\ At(w, "select")
    /\ \E r \in Lapsed(requests[w].at) :
          requests' = [requests EXCEPT ![w].pc = "head", ![w].slot = r]
    /\ UNCHANGED <<tables, outside>>

NoneExpired(w) ==
    /\ At(w, "select")
    /\ Lapsed(requests[w].at) = {}
    /\ Goto(w, IF requests[w].op = "reserve" THEN "lookup" ELSE "account")
    /\ UNCHANGED <<tables, outside>>

(* finalizeUpload reads the reservation; only a pending one goes on.       *)
GetReservation(w) ==
    /\ At(w, "get")
    /\ IF Pending(requests[w].slot) THEN Goto(w, "head") ELSE Respond(w)
    /\ UNCHANGED <<tables, outside>>

(* finalizeUpload only expires a reservation whose time is over; an expiry *)
(* loop has selected one.                                                  *)
ExpireOrRespond(w) ==
    IF reservations[requests[w].slot].expiresAt <= requests[w].at
    THEN Goto(w, "expire") ELSE Respond(w)

HeadObject(w) ==
    LET slot == requests[w].slot IN
    /\ At(w, "head")
    /\ IF Stored(slot) = Nil
       THEN ExpireOrRespond(w)
       ELSE requests' = [requests EXCEPT
               ![w].object = Stored(slot),
               ![w].pc = IF Matches(Stored(slot), reservations[slot]) THEN "settle" ELSE "remove"]
    /\ UNCHANGED <<tables, outside>>

(* completeReservation, from finalizeUpload or from an expiry loop; when   *)
(* the batch changed nothing, an expiry loop re-reads the row.             *)
Complete(w) ==
    LET slot == requests[w].slot IN
    /\ At(w, "settle")
    /\ CompleteBatch(slot, requests[w].object)
    /\ IF MayComplete(slot) \/ requests[w].op = "finalize" THEN Settled(w) ELSE Goto(w, "reread")
    /\ UNCHANGED outside

Reread(w) ==
    /\ At(w, "reread")
    /\ IF Pending(requests[w].slot) THEN Goto(w, "remove") ELSE Settled(w)
    /\ UNCHANGED <<tables, outside>>

(* removeUnexpectedObject spares only the object the reservation replaces. *)
(* Mutant: deletes the object the reservation replaces, too.               *)
RemoveAny(w) ==
    LET slot == requests[w].slot IN
    /\ At(w, "remove")
    /\ bucket' = [bucket EXCEPT ![slot.machine][slot.key] = Nil]
    /\ ExpireOrRespond(w)
    /\ UNCHANGED <<tables, signed, clock>>

RemoveUnexpected(w) ==
    LET slot == requests[w].slot
        replaced == reservations[slot].replaced
    IN
    /\ At(w, "remove")
    /\ bucket' = IF replaced = Nil \/ requests[w].object # replaced
                 THEN [bucket EXCEPT ![slot.machine][slot.key] = Nil]
                 ELSE bucket
    /\ ExpireOrRespond(w)
    /\ UNCHANGED <<tables, signed, clock>>

Expire(w) ==
    LET slot == requests[w].slot IN
    /\ At(w, "expire")
    /\ IF MayExpire(slot, requests[w].at) THEN ExpireBatch(slot) ELSE UNCHANGED tables
    /\ Settled(w)
    /\ UNCHANGED outside

(* The idempotency lookup, where a reserve request's body is first used:   *)
(* an exact retry is answered from the first request's row, a changed one  *)
(* is refused.  An archive carries no index ETag and no count.             *)
SameRequest(slot, input) ==
    /\ reservations[slot].content = input.content
    /\ reservations[slot].expected = input.expected
    /\ reservations[slot].count = input.count

Lookup(w, slot, input) ==
    /\ At(w, "lookup")
    /\ input.content \in Ciphertexts[slot.sweep]
    /\ ~IsIndex(slot) => input.expected = Nil /\ input.count = 0
    /\ IF reservations[slot].content # input.content
       THEN requests' = [requests EXCEPT ![w].pc = "insert", ![w].slot = slot,
                                         ![w].input = input]
       ELSE \/ /\ Pending(slot) /\ SameRequest(slot, input)
               /\ requests' = [requests EXCEPT ![w].pc = "sign", ![w].slot = slot]
            \/ Respond(w)
    /\ UNCHANGED <<tables, outside>>

(* The insert batch.  A row that meets the WHERE clause but not the unique *)
(* indexes raises a constraint error, which a retry of the row's own       *)
(* request survives; every other refusal, a lapsed subscription's          *)
(* included, ends in diagnoseReservation's error.                          *)
Insert(w) ==
    LET slot == requests[w].slot
        input == requests[w].input
        admitted == Admits(slot, input, requests[w].at)
        ToSign == requests' = [requests EXCEPT ![w].pc = "sign", ![w].input = NoInput]
    IN
    /\ At(w, "insert")
    /\ \/ /\ admitted /\ IsUnique(slot)
          /\ ReserveBatch(slot, input, requests[w].at)
          /\ ToSign
       \/ /\ admitted /\ Pending(slot) /\ SameRequest(slot, input)
          /\ ToSign
          /\ UNCHANGED tables
       \/ Respond(w) /\ UNCHANGED tables
    /\ UNCHANGED outside

(* pendingResult and signUpload: any later use of the URL is the client's. *)
Sign(w) ==
    /\ At(w, "sign")
    /\ signed' = signed \cup {requests[w].slot}
    /\ Respond(w)
    /\ UNCHANGED <<tables, bucket, clock>>

(* reconcileUsageAccounting, which the cron job runs after the expiries.   *)
ReconcileAccounting(w) ==
    /\ At(w, "account")
    /\ account' = [used |-> LedgerBytes - ReplacedBytes("pending"),
                    reserved |-> ExpectedBytes("pending")]
    /\ Respond(w)
    /\ UNCHANGED <<reservations, ledger, indexEtag, registered, outside>>

(* The runtime ends a request between two awaits.                          *)
Abort(w) ==
    /\ ~At(w, "idle")
    /\ Respond(w)
    /\ UNCHANGED <<tables, outside>>

-----------------------------------------------------------------------------
(***************************************************************************)
(* The environment: clients, R2 and the clock.                             *)
(***************************************************************************)

(* A presigned PUT lands: R2 compares the ETag when the body is complete.  *)
(* It checks the URL's lifetime when the body begins, and that lifetime    *)
(* runs from the second of signing, not from the request's now(); so       *)
(* unless clients are punctual a PUT may land after its reservation's      *)
(* expiry.  A URL may be used again.                                       *)
Put(slot) ==
    /\ slot \in signed
    /\ LatePuts \/ clock < reservations[slot].expiresAt
    /\ Stored(slot) = PutCondition(slot)
    /\ bucket' = [bucket EXCEPT ![slot.machine][slot.key] = reservations[slot].content]
    /\ UNCHANGED <<tables, signed, clock, requests>>

Tick ==
    /\ clock < MaxClock
    /\ clock' = clock + 1
    /\ UNCHANGED <<tables, bucket, signed, requests>>

Step(w) ==
    \/ SelectExpired(w) \/ NoneExpired(w) \/ GetReservation(w) \/ HeadObject(w)
    \/ Complete(w) \/ Reread(w) \/ RemoveUnexpected(w) \/ Expire(w)
    \/ \E slot \in Slots, input \in Inputs : Lookup(w, slot, input)
    \/ Insert(w) \/ Sign(w) \/ ReconcileAccounting(w)

Next ==
    \/ \E m \in Machines : CreateMachineRemote(m)
    \/ \E w \in Workers :
          \/ StartReserve(w)
          \/ StartCron(w)
          \/ \E slot \in Slots : StartFinalize(w, slot)
          \/ Step(w)
          \/ Abort(w)
    \/ \E slot \in Slots : Put(slot)
    \/ Tick

Spec == Init /\ [][Next]_vars

(***************************************************************************)
(* Fairness.  The cron trigger fires again and again, and the runtime does *)
(* not cut every request short at the same await: an action that requests  *)
(* reach infinitely often is infinitely often carried out.                 *)
(***************************************************************************)
Fairness ==
    /\ WF_vars(Tick)
    /\ \A w \in Workers :
          /\ WF_vars(Step(w))
          /\ SF_vars(StartCron(w))
          /\ SF_vars(SelectExpired(w))
          /\ SF_vars(HeadObject(w))
          /\ SF_vars(Complete(w))
          /\ SF_vars(RemoveUnexpected(w))
          /\ SF_vars(Expire(w))

FairSpec == Spec /\ Fairness

-----------------------------------------------------------------------------
(* What the two counters of account hold is the subject of AccountingExact.*)
TypeOK ==
    /\ reservations \in [Slots -> Reservations]
    /\ ledger \in [Machines -> [Keys -> Etags]]
    /\ indexEtag \in [Machines -> Etags]
    /\ registered \subseteq Machines
    /\ bucket \in [Machines -> [Keys -> Etags]]
    /\ signed \subseteq Slots
    /\ clock \in Nat
    /\ requests \in [Workers -> Requests]

(* Archives first, index last: once a sweep's index is reserved, every     *)
(* archive ever reserved in that sweep is committed, there are exactly as  *)
(* many as the index declared, and this stays so whatever races in later   *)
(* (the sweep_closed, sweep_incomplete and archives_pending refusals).     *)
SweepFrozen ==
    \A slot \in Slots :
        IsIndex(slot) /\ reservations[slot].state # "absent" =>
            /\ ArchivesIn(slot) = CompletedIn(slot)
            /\ Cardinality(ArchivesIn(slot)) = reservations[slot].count

(* A pending reservation's captured replaced object and, for an index, its *)
(* expected ETag never go stale: they are still the committed ones when it *)
(* is completed or expired, so the refund of expireReservation is right    *)
(* and the index_conflict of finalizeUpload is unreachable.                *)
PendingIsCurrent ==
    \A slot \in Slots :
        Pending(slot) =>
            /\ reservations[slot].replaced = Committed(slot)
            /\ IsIndex(slot) => reservations[slot].expected = indexEtag[slot.machine]

(* The two records of the published index, machine_remotes and the object  *)
(* ledger, agree between any two transactions.                             *)
IndexEtagIsCommitted == \A m \in Machines : indexEtag[m] = ledger[m][Index]

(* used and reserved bytes are exactly what the ledger and the pending     *)
(* rows add up to, so reconcileUsageAccounting never finds drift.          *)
AccountingExact ==
    /\ account.used = LedgerBytes - ReplacedBytes("pending")
    /\ account.reserved = ExpectedBytes("pending")

(* What the broker commits for a reservation is the ciphertext that was    *)
(* reserved: finalization checks length and SHA-256 before publishing.     *)
CommitsWhatWasReserved ==
    [][\A slot \in Slots :
          Pending(slot) /\ reservations'[slot].state = "completed" =>
              ledger'[slot.machine][slot.key] = reservations[slot].content]_vars

(* A committed object is in the bucket: its download URL finds something.  *)
CommittedIsStored ==
    \A m \in Machines, k \in Keys : ledger[m][k] # Nil => bucket[m][k] # Nil

(* The broker implements IndexPublication: a sweep's stage is the state of *)
(* its index reservation, its objects are the completed archive rows, and  *)
(* the head is machine_remotes.current_index_etag.                         *)
RowOf(m, s, k) == reservations[[machine |-> m, sweep |-> s, key |-> k]]

Stage(state) ==
    CASE state = "absent" -> "open"
      [] state = "pending" -> "sealed"
      [] state = "completed" -> "published"
      [] state = "expired" -> "abandoned"

Publication == INSTANCE IndexPublication WITH
    stage <- [m \in Machines |-> [s \in Sweeps |-> Stage(RowOf(m, s, Index).state)]],
    base <- [m \in Machines |-> [s \in Sweeps |-> RowOf(m, s, Index).expected]],
    committed <- [m \in Machines |-> [s \in Sweeps |->
                    {k \in ArchiveKeys : RowOf(m, s, k).state = "completed"}]],
    head <- indexEtag

PublishesInOrder == Publication!Spec

(* "Admits concurrent reservations only while their total stays under      *)
(* quota" (storage-api.test.ts:278): committed and admitted bytes together *)
(* pass the quota by no more than what expired reservations gave back, to  *)
(* objects they were to replace, after others had been admitted.           *)
RefundedBytes == ReplacedBytes("expired")

WithinQuota == account.used + account.reserved <= Quota + RefundedBytes

(* Expired reservations are released: no reservation holds its bytes, or   *)
(* blocks its object, forever (those whose expiry MaxClock leaves room for).*)
ReservationsAreReleased ==
    \A slot \in Slots :
        (Pending(slot) /\ reservations[slot].expiresAt <= MaxClock) ~> ~Pending(slot)
=============================================================================
