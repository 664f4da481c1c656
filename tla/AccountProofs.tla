---------------------------- MODULE AccountProofs ----------------------------
(***************************************************************************)
(* Proofs about the account, for any number of checkouts, events, uploads  *)
(* and requests, in any order: who has access, which checkout is admitted, *)
(* and that no data outlives the account.                                  *)
(***************************************************************************)
EXTENDS Account, FiniteSetTheorems, TLAPS

-----------------------------------------------------------------------------
(***************************************************************************)
(* Finite sets: a family of subsets has a smallest member, hence a set of  *)
(* numbers a largest one.                                                  *)
(***************************************************************************)
LEMMA Smallest ==
    ASSUME NEW S, IsFiniteSet(S), NEW F \in SUBSET SUBSET S, F # {}
    PROVE  \E X \in F : \A Y \in F : Y \subseteq X => Y = X
<1>1. F \subseteq FiniteSubsetsOf(S)
  BY FS_FiniteSubsetsOfFinite
<1>2. IsWellFoundedOn(StrictSubsetOrdering(S), FiniteSubsetsOf(S))
  BY FS_StrictSubsetOrderingWellFounded
<1>3. PICK X \in F : \A Y \in F : ~ (<<Y, X>> \in StrictSubsetOrdering(S))
  BY <1>1, <1>2, WFMin
<1>. QED
  BY <1>3 DEF StrictSubsetOrdering

LEMMA Largest ==
    ASSUME NEW S, S \subseteq Nat, IsFiniteSet(S), S # {}
    PROVE  \E m \in S : \A s \in S : s <= m
<1>. DEFINE Above(x) == {y \in S : x <= y}
            F == {Above(x) : x \in S}
<1>1. F \in SUBSET SUBSET S /\ F # {}
  OBVIOUS
<1>2. \A X \in F : \E m \in S : X = Above(m)
  OBVIOUS
<1>3. \A x \in S : Above(x) \in F
  OBVIOUS
<1>. HIDE DEF F, Above
<1>4. PICK X \in F : \A Y \in F : Y \subseteq X => Y = X
  BY ONLY <1>1, Smallest, IsFiniteSet(S)
<1>5. PICK m \in S : X = Above(m)
  BY <1>2
<1>6. ASSUME NEW s \in S, m < s  PROVE FALSE
  <2>1. m \in Nat /\ s \in Nat /\ \A y \in S : y \in Nat
    OBVIOUS
  <2>2. Above(s) \subseteq X
    <3>1. \A y \in S : s <= y => m <= y
      BY <1>6, <2>1
    <3>. QED
      BY <1>5, <3>1 DEF Above
  <2>3. Above(s) = X
    BY <1>3, <1>4, <2>2
  <2>. QED
    BY <1>5, <1>6, <2>1, <2>3 DEF Above
<1>7. m \in Nat /\ \A s \in S : s \in Nat
  OBVIOUS
<1>. QED
  BY <1>6, <1>7

LEMMA FiniteImage ==
    ASSUME NEW S, IsFiniteSet(S), NEW f
    PROVE  IsFiniteSet({f[x] : x \in S})
<1>. DEFINE T == {f[x] : x \in S}
            g == [x \in S |-> f[x]]
<1>1. g \in Surjection(S, T)
  BY DEF Surjection
<1>. QED
  BY <1>1, FS_Surjection

-----------------------------------------------------------------------------
(***************************************************************************)
(* Types.                                                                  *)
(***************************************************************************)
LEMMA Bounds ==
    /\ CheckoutLifetime \in Nat /\ Grace \in Nat /\ UrlLifetime \in Nat
    /\ \A l \in Limits : l.deleters \subseteq {"user", "retry", "cron"}
BY BoundsAssumption

LEMMA LastUrlIsLargest ==
    ASSUME TypeOK
    PROVE  LastUrl \in Nat /\ now <= LastUrl /\ \A u \in urls : u.expires < LastUrl
<1>. DEFINE f == [u \in urls |-> u.expires + 1]
            ends == {now} \cup {u.expires + 1 : u \in urls}
<1>1. ends = {now} \cup {f[u] : u \in urls}
  OBVIOUS
<1>2. IsFiniteSet(ends)
  <2>1. IsFiniteSet({f[u] : u \in urls})
    <3>. HIDE DEF f
    <3>. QED
      BY FiniteImage DEF TypeOK
  <2>. HIDE DEF f
  <2>2. IsFiniteSet({now})
    BY FS_Singleton
  <2>. QED
    BY <1>1, <2>1, <2>2, FS_Union
<1>3. ends \in SUBSET Nat /\ ends # {} /\ now \in ends
  BY DEF TypeOK, Reservations
<1>4. PICK m \in ends : \A s \in ends : s <= m
  <2>. HIDE DEF ends
  <2>. QED
    BY <1>2, <1>3, Largest
<1>5. LastUrl \in ends /\ \A s \in ends : s <= LastUrl
  BY <1>4 DEF LastUrl
<1>6. \A u \in urls : u.expires \in Nat /\ u.expires + 1 \in ends
  BY DEF TypeOK, Reservations
<1>. HIDE DEF ends
<1>7. LastUrl \in Nat /\ \A u \in urls : u.expires + 1 <= LastUrl
  BY <1>3, <1>5, <1>6
<1>. QED
  BY <1>3, <1>5, <1>6, <1>7

LEMMA SettledUrls ==
    ASSUME TypeOK, NEW u \in readers, Settle(u)
    PROVE  urls' \subseteq Reservations /\ IsFiniteSet(urls')
<1>1. PICK state \in {"completed", "expired", "pending"} :
          urls' = {IF v.object = u.object /\ v.state = "pending" THEN [v EXCEPT !.state = state]
                   ELSE v : v \in urls}
  BY DEF Settle
<1>. DEFINE f == [v \in urls |-> IF v.object = u.object /\ v.state = "pending"
                                 THEN [v EXCEPT !.state = state] ELSE v]
<1>2. urls' = {f[v] : v \in urls}
  BY <1>1
<1>3. \A v \in Reservations : [v EXCEPT !.state = state] \in Reservations
  BY DEF Reservations
<1>4. \A v \in urls : f[v] \in Reservations
  BY <1>3 DEF TypeOK
<1>. HIDE DEF f
<1>. QED
  BY <1>2, <1>4, FiniteImage DEF TypeOK

LEMMA MarkedUrls ==
    ASSUME TypeOK, NEW d \in DOMAIN deleters, Mark(d)
    PROVE  urls' \subseteq Reservations /\ IsFiniteSet(urls')
<1>. DEFINE f == [v \in urls |-> IF /\ v.object \in deleters[d].targets /\ Exists
                                    /\ v.expires >= user.deletionAt
                                 THEN [v EXCEPT !.fenced = TRUE] ELSE v]
<1>1. urls' = {f[v] : v \in urls}
  BY DEF Mark
<1>2. \A v \in Reservations : [v EXCEPT !.fenced = TRUE] \in Reservations
  BY DEF Reservations
<1>3. \A v \in urls : f[v] \in Reservations
  BY <1>2 DEF TypeOK
<1>. HIDE DEF f
<1>. QED
  BY <1>1, <1>3, FiniteImage DEF TypeOK

LEMMA InitTyped == Init => TypeOK
<1>1. IsFiniteSet({})
  BY FS_EmptySet
<1>2. NoDeletion \in Deletions /\ NewUser \in Users
  BY DEF NoDeletion, Deletions, NewUser, Users, Times
<1>. QED
  BY <1>1, <1>2 DEF Init, TypeOK, Times, Contents
(* The actions of a deletion leave a deletion.                             *)
LEMMA DeletersTyped ==
    ASSUME TypeOK, NEW d \in DOMAIN deleters, Delete(d)
    PROVE  deleters' \in [limit.deleters -> Deletions]
<1>. USE DEF TypeOK
<1>1. d \in limit.deleters /\ deleters[d] \in Deletions /\ now \in Nat
  OBVIOUS
<1>2. NoDeletion \in Deletions
  BY DEF NoDeletion, Deletions
<1>3. CASE RequestDeletion(d)
  <2>1. PICK after : /\ after = IF user.deleteAfter = None THEN LastUrl ELSE user.deleteAfter
                     /\ deleters' = [deleters EXCEPT ![d] =
                            [NoDeletion EXCEPT !.pc = "select", !.at = now, !.after = after]]
    BY <1>3 DEF RequestDeletion
  <2>2. user \in Users
    BY <1>3 DEF RequestDeletion, MayDelete, Exists
  <2>3. after \in Nat
    BY <2>1, <2>2, LastUrlIsLargest DEF Users, Times
  <2>. QED
    BY <1>1, <2>1, <2>3 DEF NoDeletion, Deletions
<1>4. CASE Select(d)
  <2>1. Unfenced \subseteq Objects
    BY DEF Unfenced, Reservations
  <2>2. CASE deleters' = [deleters EXCEPT ![d].pc = "decide"]
    BY <1>1, <2>2 DEF Deletions
  <2>3. CASE \E batch \in SUBSET Unfenced :
               deleters' = [deleters EXCEPT ![d].pc = "fence", ![d].targets = batch,
                                            ![d].left = batch]
    <3>1. PICK batch \in SUBSET Objects :
               deleters' = [deleters EXCEPT ![d].pc = "fence", ![d].targets = batch,
                                            ![d].left = batch]
      BY <2>1, <2>3
    <3>2. [deleters[d] EXCEPT !.pc = "fence", !.targets = batch, !.left = batch] \in Deletions
      BY <1>1 DEF Deletions
    <3>. QED
      BY <1>1, <3>1, <3>2
  <2>. QED
    BY <1>4, <2>2, <2>3 DEF Select
<1>5. CASE Fence(d)
  <2>1. PICK o \in deleters[d].left, pc \in {"mark", "fence"} :
             deleters' = [deleters EXCEPT ![d].pc = pc, ![d].left = @ \ {o}]
    BY <1>5 DEF Fence
  <2>2. [deleters[d] EXCEPT !.pc = pc, !.left = @ \ {o}] \in Deletions
    BY <1>1 DEF Deletions
  <2>. QED
    BY <1>1, <2>1, <2>2
<1>6. CASE Mark(d)
  BY <1>1, <1>2, <1>6 DEF Mark, Deletions
<1>7. CASE Decide(d)
  BY <1>1, <1>2, <1>7 DEF Decide, Deletions
<1>8. CASE Remove(d)
  BY <1>1, <1>8 DEF Remove, Deletions
<1>9. CASE DropUser(d) \/ Abandon(d)
  BY <1>1, <1>2, <1>9 DEF DropUser, Abandon
<1>. QED
  BY <1>3, <1>4, <1>5, <1>6, <1>7, <1>8, <1>9 DEF Delete

LEMMA DeletionTyped ==
    ASSUME TypeOK, NEW d \in DOMAIN deleters, Delete(d)
    PROVE  TypeOK'
<1>1. deleters' \in [limit'.deleters -> Deletions]
  BY DeletersTyped DEF Delete, RequestDeletion, Select, Fence, Mark, Decide, Remove, DropUser, Abandon
<1>2. CASE RequestDeletion(d)
  <2>1. user \in Users /\ now \in Nat
    BY <1>2 DEF RequestDeletion, MayDelete, Exists, TypeOK
  <2>2. user' \in Users
    BY <1>2, <2>1, LastUrlIsLargest DEF RequestDeletion, Users, Times
  <2>. QED
    BY <1>1, <1>2, <2>2 DEF TypeOK, RequestDeletion, billing, provider, storage
<1>3. CASE Select(d) \/ Decide(d) \/ Abandon(d)
  BY <1>1, <1>3 DEF TypeOK, Select, Decide, Abandon, billing, provider, storage
<1>4. CASE Fence(d) \/ Remove(d)
  BY <1>1, <1>4 DEF TypeOK, Fence, Remove, billing, provider, Contents
<1>5. CASE Mark(d)
  BY <1>1, <1>5, MarkedUrls DEF TypeOK, Mark, billing, provider
<1>6. CASE DropUser(d)
  BY <1>1, <1>6 DEF TypeOK, DropUser, provider, storage
<1>. QED
  BY <1>2, <1>3, <1>4, <1>5, <1>6 DEF Delete

(* The second half of TypeOK, for the steps of uploads and of the clock.   *)
LEMMA UploadTyped ==
    ASSUME TypeOK,
           \/ Tick
           \/ \E o \in Objects : Reserve(o)
           \/ \E u \in urls : Put(u) \/ ReadReservation(u)
           \/ \E u \in readers : Settle(u)
    PROVE  TypeOK'
<1>1. CASE Tick
  BY <1>1 DEF TypeOK, Tick, billing, provider, storage
<1>2. ASSUME NEW o \in Objects, Reserve(o)  PROVE TypeOK'
  <2>. DEFINE u == [object |-> o, expires |-> now + UrlLifetime, replaces |-> bucket[o],
                    state |-> "pending", fenced |-> FALSE]
  <2>1. u \in Reservations
    BY Bounds DEF TypeOK, Reservations
  <2>2. urls' = urls \cup {u}
    BY <1>2 DEF Reserve
  <2>3. urls' \subseteq Reservations /\ IsFiniteSet(urls')
    <3>. HIDE DEF u
    <3>. QED
      BY <2>1, <2>2, FS_AddElement DEF TypeOK
  <2>. QED
    BY <1>2, <2>3 DEF TypeOK, Reserve, billing, provider
<1>3. ASSUME NEW u \in urls, Put(u)  PROVE TypeOK'
  BY <1>3 DEF TypeOK, Put, billing, provider, Contents
<1>4. ASSUME NEW u \in urls, ReadReservation(u)  PROVE TypeOK'
  BY <1>4 DEF TypeOK, ReadReservation, billing, provider
<1>5. ASSUME NEW u \in readers, Settle(u)  PROVE TypeOK'
  <2>1. bucket' \in [Objects -> Contents] /\ readers' \subseteq Reservations
    BY <1>5 DEF TypeOK, Settle, Contents
  <2>. QED
    BY <1>5, <2>1, SettledUrls DEF TypeOK, Settle, billing, provider
<1>. QED
  BY <1>1, <1>2, <1>3, <1>4, <1>5
(* Emit appends to the events of one subscription.                         *)
LEMMA Emitted ==
    ASSUME TypeOK, NEW k \in Keys, NEW status \in Statuses, Emit(k, status)
    PROVE  /\ history' \in [Keys -> Seq(Events)]
           /\ \A j \in Keys : j # k => history'[j] = history[j]
           /\ Len(history'[k]) = Len(history[k]) + 1
           /\ \A n \in DOMAIN history[k] : history'[k][n] = history[k][n]
           /\ history'[k][Len(history[k]) + 1] = [status |-> status, created |-> now]
           /\ \A j \in Keys : DOMAIN history[j] \subseteq DOMAIN history'[j]
<1>. DEFINE e == [status |-> status, created |-> now]
<1>1. e \in Events /\ history[k] \in Seq(Events)
  BY DEF TypeOK, Events
<1>2. history' = [history EXCEPT ![k] = Append(@, e)]
  BY DEF Emit
<1>. HIDE DEF e
<1>3. /\ Append(history[k], e) \in Seq(Events)
      /\ Len(Append(history[k], e)) = Len(history[k]) + 1
      /\ \A n \in 1 .. Len(history[k]) : Append(history[k], e)[n] = history[k][n]
      /\ Append(history[k], e)[Len(history[k]) + 1] = e
  BY <1>1
<1>4. history'[k] = Append(history[k], e) /\ \A j \in Keys : j # k => history'[j] = history[j]
  BY <1>2 DEF TypeOK
<1>5. history' \in [Keys -> Seq(Events)]
  BY <1>2, <1>3 DEF TypeOK
<1>6. /\ DOMAIN history[k] = 1 .. Len(history[k]) /\ Len(history[k]) \in Nat
      /\ DOMAIN history'[k] = 1 .. Len(history[k]) + 1
  BY <1>1, <1>3, <1>4
<1>7. \A j \in Keys : DOMAIN history[j] \subseteq DOMAIN history'[j]
  BY <1>4, <1>6
<1>. QED
  BY <1>3, <1>4, <1>5, <1>6, <1>7 DEF e

LEMMA EmitTyped ==
    ASSUME TypeOK, NEW k \in Keys, NEW status \in Statuses, Emit(k, status)
    PROVE  TypeOK'
<1>1. \A h \in handled' : \E j \in Keys : \E n \in DOMAIN history'[j] : h = <<j, n>>
  BY Emitted DEF Emit, TypeOK, billing
<1>. QED
  BY <1>1, Emitted DEF Emit, TypeOK, billing, storage

LEMMA StripeEmits ==
    ASSUME TypeOK, NEW k \in Keys, Pay(k) \/ Change(k)
    PROVE  \E status \in Statuses : Emit(k, status) /\ (history[k] = <<>> => Open(k))
<1>1. CASE Pay(k)
  BY <1>1 DEF Pay, Statuses
<1>2. CASE Change(k)
  <2>1. history[k] \in Seq(Events) /\ history[k] # <<>>
    BY <1>2 DEF Change, TypeOK
  <2>2. history[k][Len(history[k])] \in Events
    BY <2>1
  <2>3. \A s \in Statuses : Follows[s] \subseteq Statuses
    BY DEF Follows, Statuses
  <2>. QED
    BY <1>2, <2>1, <2>2, <2>3 DEF Change, Status, Events
<1>. QED
  BY <1>1, <1>2

(* A webhook delivers the event n of k, and the row becomes or stays row.  *)
Delivers(k, n, new, row) ==
    /\ new = [sub |-> k, status |-> history[k][n].status, created |-> history[k][n].created]
    /\ row = IF Supersedes(new) THEN new ELSE stored
    /\ handled' = handled \cup {<<k, n>>}
    /\ stored' = row
    /\ user' = Entitled(row, new.created)
    /\ \/ UNCHANGED admission
       \/ new.status \in Releasing /\ admission' = None

LEMMA WebhookDelivers ==
    ASSUME TypeOK, NEW k \in Keys, Webhook(k)
    PROVE  \E n \in DOMAIN history[k], new \in Subscriptions, row \in Subscriptions :
               Delivers(k, n, new, row)
<1>1. PICK n \in DOMAIN history[k] :
         \E new, row : /\ Delivers(k, n, new, row)
                       /\ new = [sub |-> k, status |-> history[k][n].status,
                                 created |-> history[k][n].created]
  BY DEF Webhook, Delivers
<1>2. PICK new, row : /\ Delivers(k, n, new, row)
                      /\ new = [sub |-> k, status |-> history[k][n].status,
                                created |-> history[k][n].created]
  BY <1>1
<1>3. history[k][n] \in Events
  BY DEF TypeOK
<1>4. new \in Subscriptions
  BY <1>2, <1>3 DEF Subscriptions, Events
<1>5. row \in Subscriptions
  BY <1>2, <1>4 DEF Delivers, Supersedes, TypeOK
<1>. QED
  BY <1>2, <1>4, <1>5

LEMMA EntitledTyped ==
    ASSUME NEW u \in Users, user = u, NEW row \in Subscriptions, NEW created \in Nat
    PROVE  Entitled(row, created) \in Users
<1>1. [u EXCEPT !.state = "active", !.activated = TRUE, !.graceEnds = None] \in Users
  BY DEF Users, Times
<1>2. [u EXCEPT !.state = "inactive", !.graceEnds = None] \in Users
  BY DEF Users, Times
<1>3. \A t \in Times : [u EXCEPT !.state = "grace", !.graceEnds = t] \in Users
  BY DEF Users
<1>4. u.graceEnds \in Times /\ created + Grace \in Times
  BY Bounds DEF Users, Times
<1>. QED
  BY <1>1, <1>2, <1>3, <1>4 DEF Entitled

LEMMA WebhookTyped ==
    ASSUME TypeOK, NEW k \in Keys, Webhook(k)
    PROVE  TypeOK'
<1>1. PICK n \in DOMAIN history[k], new \in Subscriptions, row \in Subscriptions :
          Delivers(k, n, new, row)
  BY WebhookDelivers
<1>2. user \in Users /\ new.created \in Nat
  BY DEF Webhook, Exists, TypeOK, Subscriptions
<1>3. user' \in Users
  BY <1>1, <1>2, EntitledTyped DEF Delivers
<1>4. UNCHANGED <<limit, now, requests, provider, storage, deleters>>
  BY DEF Webhook
<1>5. \A h \in handled' : \E j \in Keys : \E m \in DOMAIN history'[j] : h = <<j, m>>
  BY <1>1, <1>4 DEF Delivers, TypeOK, provider
<1>6. stored' \in Subscriptions /\ admission' \in Admissions \cup {None}
  BY <1>1 DEF Delivers, TypeOK
<1>. QED
  BY <1>3, <1>4, <1>5, <1>6 DEF TypeOK, provider, storage

LEMMA CheckoutTyped ==
    ASSUME TypeOK,
           \/ EnsureCustomer \/ PurgeAdmission
           \/ \E k \in Keys : AdmitCheckout(k)
           \/ \E r \in requests : CreateSession(r) \/ RejectCheckout(r) \/ FailCheckout(r)
    PROVE  TypeOK'
<1>1. CASE EnsureCustomer
  <2>1. user' \in Users
    BY <1>1 DEF TypeOK, EnsureCustomer, Exists, Users
  <2>. QED
    BY <1>1, <2>1 DEF TypeOK, EnsureCustomer, billing, provider, storage
<1>2. CASE PurgeAdmission
  BY <1>2 DEF TypeOK, PurgeAdmission, provider, storage
<1>3. ASSUME NEW k \in Keys, AdmitCheckout(k)  PROVE TypeOK'
  <2>. DEFINE expires == now + CheckoutLifetime
  <2>1. expires \in Nat
    BY Bounds DEF TypeOK
  <2>. HIDE DEF expires
  <2>. DEFINE typed == admission' \in Admissions \cup {None} /\ requests' \subseteq Requests
  <2>2. ASSUME /\ admission' = [key |-> k, expires |-> expires]
               /\ requests' = requests \cup {[key |-> k, acquired |-> TRUE, expires |-> expires]}
        PROVE  typed
    <3>1. [key |-> k, acquired |-> TRUE, expires |-> expires] \in Requests
      BY <2>1 DEF Requests
    <3>2. [key |-> k, expires |-> expires] \in Admissions
      BY <2>1 DEF Admissions
    <3>. QED
      BY <2>2, <3>1, <3>2 DEF TypeOK
  <2>3. ASSUME /\ admission # None /\ UNCHANGED admission
               /\ requests' = requests \cup
                      {[key |-> k, acquired |-> FALSE, expires |-> admission.expires]}
        PROVE  typed
    <3>1. admission \in Admissions
      BY <2>3 DEF TypeOK
    <3>2. [key |-> k, acquired |-> FALSE, expires |-> admission.expires] \in Requests
      BY <3>1 DEF Admissions, Requests
    <3>. QED
      BY <2>3, <3>1, <3>2 DEF TypeOK
  <2>4. typed
    BY <1>3, <2>2, <2>3 DEF AdmitCheckout, TypeOK, expires
  <2>. QED
    BY <1>3, <2>4 DEF AdmitCheckout, TypeOK, provider, storage
<1>4. ASSUME NEW r \in requests, CreateSession(r)  PROVE TypeOK'
  <2>1. sessions' \in [Keys -> Times]
    BY <1>4 DEF CreateSession, TypeOK, Times, Requests
  <2>. QED
    BY <1>4, <2>1 DEF CreateSession, TypeOK, storage
<1>5. ASSUME NEW r \in requests, RejectCheckout(r)  PROVE TypeOK'
  <2>1. /\ admission' \in Admissions \cup {None} /\ requests' \subseteq Requests
        /\ refused' \subseteq Keys
    BY <1>5 DEF RejectCheckout, Released, TypeOK, Requests
  <2>. QED
    BY <1>5, <2>1 DEF RejectCheckout, TypeOK, storage
<1>6. ASSUME NEW r \in requests, FailCheckout(r)  PROVE TypeOK'
  BY <1>6 DEF FailCheckout, TypeOK, provider, storage
<1>. QED
  BY <1>1, <1>2, <1>3, <1>4, <1>5, <1>6

LEMMA NextTyped == TypeOK /\ [Next]_vars => TypeOK'
<1>. SUFFICES ASSUME TypeOK, [Next]_vars  PROVE TypeOK'
  OBVIOUS
<1>1. ASSUME NEW k \in Keys, Pay(k) \/ Change(k)  PROVE TypeOK'
  BY <1>1, StripeEmits, EmitTyped
<1>2. CASE UNCHANGED vars
  BY <1>2 DEF TypeOK, vars, billing, provider, storage
<1>. QED
  BY <1>1, <1>2, CheckoutTyped, UploadTyped, WebhookTyped, DeletionTyped DEF Next

(* The state of the account is always well formed.                         *)
THEOREM AccountTyped == Spec => []TypeOK
<1>. QED
  BY InitTyped, NextTyped, PTL DEF Spec
-----------------------------------------------------------------------------
(***************************************************************************)
(* Deletion.  Once it is requested no upload is admitted, and the moment   *)
(* fixed then is after the last URL; so a deletion that has reached its    *)
(* listing meets no write any more, and what it lists is all there is.     *)
(***************************************************************************)
Empty(o) == bucket[o] \in {"none", "fence"}

RequestsAgree == Exists => (user.deletionAt = None <=> user.deleteAfter = None)

UrlsEnd(t) == \A u \in urls : u.expires < t

DeleterInv(d) ==
    deleters[d].pc # "idle" =>
        /\ deleters[d].at <= now
        /\ Exists => Deleting /\ deleters[d].after = user.deleteAfter
        /\ UrlsEnd(deleters[d].after)
        /\ deleters[d].pc \in {"remove", "drop"} => deleters[d].after <= deleters[d].at
        /\ deleters[d].pc = "remove" => \A o \in Objects : Empty(o) \/ o \in deleters[d].targets
        /\ deleters[d].pc = "drop" => \A o \in Objects : Empty(o)

DeletionInv ==
    /\ RequestsAgree
    /\ Deleting => UrlsEnd(user.deleteAfter)
    /\ \A d \in DOMAIN deleters : DeleterInv(d)
    /\ ~Exists => UrlsEnd(now) /\ \A o \in Objects : Empty(o)
(* What a step leaves of the three things a deletion relies on.            *)
KeepsRequest ==
    /\ Exists' <=> Exists
    /\ Exists => user'.deletionAt = user.deletionAt /\ user'.deleteAfter = user.deleteAfter
KeepsUrls == \A u \in urls' : \E v \in urls : u.expires = v.expires
KeepsEmpty == \A o \in Objects : Empty(o) => Empty(o)'

LEMMA DeleterTyped ==
    ASSUME TypeOK, NEW d \in DOMAIN deleters
    PROVE  /\ deleters[d] \in Deletions
           /\ deleters[d].at \in Nat /\ deleters[d].after \in Nat
BY DEF TypeOK, Deletions

LEMMA UrlsKept ==
    ASSUME KeepsUrls, NEW t, UrlsEnd(t)
    PROVE  \A u \in urls' : u.expires < t
BY DEF KeepsUrls, UrlsEnd

LEMMA DeleterKept ==
    ASSUME TypeOK, TypeOK', NEW d \in DOMAIN deleters, DeleterInv(d),
           deleters'[d] = deleters[d], now <= now', KeepsUrls,
           KeepsRequest \/ ~Exists',
           KeepsEmpty \/ deleters[d].pc \notin {"remove", "drop"}
    PROVE  DeleterInv(d)'
<1>. SUFFICES ASSUME deleters[d].pc # "idle"  PROVE DeleterInv(d)'
  BY DEF DeleterInv
<1>1. deleters'[d].at <= now'
  <2>1. deleters[d].at <= now /\ deleters[d].at \in Nat /\ now \in Nat /\ now' \in Nat
    BY DeleterTyped DEF DeleterInv, TypeOK
  <2>. QED
    BY <2>1
<1>2. (Exists => Deleting /\ deleters[d].after = user.deleteAfter)'
  BY DEF DeleterInv, KeepsRequest, Deleting
<1>3. UrlsEnd(deleters[d].after)'
  BY UrlsKept DEF DeleterInv, UrlsEnd
<1>4. deleters[d].pc = "remove" =>
        \A o \in Objects : Empty(o)' \/ o \in deleters[d].targets
  BY DEF DeleterInv, KeepsEmpty
<1>5. deleters[d].pc = "drop" => \A o \in Objects : Empty(o)'
  BY DEF DeleterInv, KeepsEmpty
<1>. QED
  BY <1>1, <1>2, <1>3, <1>4, <1>5 DEF DeleterInv

(* Any step that touches no deletion and admits no upload.                 *)
LEMMA QuietStep ==
    ASSUME TypeOK, TypeOK', DeletionInv, deleters' = deleters, now <= now',
           KeepsUrls, KeepsRequest,
           \/ KeepsEmpty
           \/ Exists /\ \A d \in DOMAIN deleters : deleters[d].pc \notin {"remove", "drop"}
    PROVE  DeletionInv'
<1>1. \A d \in DOMAIN deleters' : DeleterInv(d)'
  BY DeleterKept DEF DeletionInv
<1>2. RequestsAgree' /\ (Deleting => UrlsEnd(user.deleteAfter))'
  BY UrlsKept DEF DeletionInv, RequestsAgree, KeepsRequest, Deleting, UrlsEnd
<1>3. (~Exists => UrlsEnd(now) /\ \A o \in Objects : Empty(o))'
  <2>. SUFFICES ASSUME ~Exists'  PROVE UrlsEnd(now)' /\ \A o \in Objects : Empty(o)'
    OBVIOUS
  <2>1. ~Exists /\ UrlsEnd(now) /\ \A o \in Objects : Empty(o)
    BY DEF KeepsRequest, DeletionInv
  <2>2. \A u \in urls' : u.expires < now
    BY <2>1, UrlsKept
  <2>3. \A u \in urls' : u.expires \in Nat
    BY DEF TypeOK, Reservations
  <2>4. now \in Nat /\ now' \in Nat
    BY DEF TypeOK
  <2>. QED
    BY <2>1, <2>2, <2>3, <2>4 DEF UrlsEnd, KeepsEmpty
<1>. QED
  BY <1>1, <1>2, <1>3 DEF DeletionInv

LEMMA ReserveKeeps ==
    ASSUME TypeOK, TypeOK', DeletionInv, NEW o \in Objects, Reserve(o)
    PROVE  DeletionInv'
<1>1. \A d \in DOMAIN deleters : deleters[d].pc = "idle"
  BY DEF DeletionInv, DeleterInv, Reserve
<1>2. deleters' = deleters /\ user' = user
  BY DEF Reserve
<1>. QED
  BY <1>1, <1>2 DEF DeletionInv, DeleterInv, RequestsAgree, Reserve, Exists, Deleting

LEMMA PutKeeps ==
    ASSUME TypeOK, TypeOK', DeletionInv, NEW u \in urls, Put(u)
    PROVE  DeletionInv'
<1>1. u.expires \in Nat /\ now \in Nat /\ now <= u.expires
  BY DEF TypeOK, Reservations, Put
<1>2. Exists
  BY <1>1 DEF DeletionInv, UrlsEnd
<1>3. \A d \in DOMAIN deleters : deleters[d].pc \notin {"remove", "drop"}
  <2>. SUFFICES ASSUME NEW d \in DOMAIN deleters, deleters[d].pc \in {"remove", "drop"}
                PROVE  FALSE
    OBVIOUS
  <2>1. /\ u.expires < deleters[d].after /\ deleters[d].after <= deleters[d].at
        /\ deleters[d].at <= now
    BY DEF DeletionInv, DeleterInv, UrlsEnd
  <2>. QED
    BY <1>1, <2>1, DeleterTyped
<1>. QED
  BY <1>1, <1>2, <1>3, QuietStep
     DEF Put, KeepsUrls, KeepsRequest, Exists

LEMMA SettleKeeps ==
    ASSUME TypeOK, TypeOK', DeletionInv, NEW u \in readers, Settle(u)
    PROVE  DeletionInv'
<1>1. PICK state \in {"completed", "expired", "pending"} :
          urls' = {IF v.object = u.object /\ v.state = "pending" THEN [v EXCEPT !.state = state]
                   ELSE v : v \in urls}
  BY DEF Settle
<1>2. \A v \in Reservations : [v EXCEPT !.state = state].expires = v.expires
  BY DEF Reservations
<1>3. KeepsUrls
  <2>1. \A v \in urls : v \in Reservations
    BY DEF TypeOK
  <2>. QED
    BY <1>1, <1>2, <2>1 DEF KeepsUrls
<1>4. KeepsEmpty
  BY DEF Settle, KeepsEmpty, Empty, TypeOK
<1>5. now \in Nat
  BY DEF TypeOK
<1>. QED
  BY <1>3, <1>4, <1>5, QuietStep DEF Settle, KeepsRequest, Exists

(* The steps of billing leave the deletion alone.                          *)
LEMMA BillingKeeps ==
    ASSUME TypeOK, TypeOK', DeletionInv, UNCHANGED <<urls, bucket, deleters>>, now <= now',
           KeepsRequest
    PROVE  DeletionInv'
BY QuietStep DEF KeepsUrls, KeepsEmpty, Empty
LEMMA RequestKeeps ==
    ASSUME TypeOK, TypeOK', DeletionInv, NEW d \in DOMAIN deleters, RequestDeletion(d)
    PROVE  DeletionInv'
<1>. DEFINE after == IF user.deleteAfter = None THEN LastUrl ELSE user.deleteAfter
<1>1. /\ Exists /\ user \in Users /\ now \in Nat
      /\ UNCHANGED <<now, urls, bucket>>
  BY DEF RequestDeletion, MayDelete, Exists, TypeOK, storage
<1>2. /\ user' = [user EXCEPT !.deletionAt = IF @ = None THEN now ELSE @, !.deleteAfter = after]
      /\ deleters' = [deleters EXCEPT ![d] = [NoDeletion EXCEPT !.pc = "select", !.at = now,
                                                               !.after = after]]
  BY DEF RequestDeletion
<1>3. after \in Nat
  BY <1>1, LastUrlIsLargest DEF Users, Times
<1>4. UrlsEnd(after)
  BY <1>1, LastUrlIsLargest DEF DeletionInv, RequestsAgree, Deleting, UrlsEnd
<1>. HIDE DEF after
<1>5. /\ Exists' /\ user'.deletionAt # None /\ user'.deleteAfter = after /\ after # None
  <2>1. user' \in Users /\ user'.deleteAfter = after
    BY <1>1, <1>2, <1>3 DEF Users, Times
  <2>2. user'.deletionAt = IF user.deletionAt = None THEN now ELSE user.deletionAt
    BY <1>1, <1>2 DEF Users
  <2>. QED
    BY <1>1, <1>3, <2>1, <2>2, NoneAssumption DEF Exists
<1>6. DeleterInv(d)'
  <2>1. deleters'[d] = [pc |-> "select", at |-> now, after |-> after, targets |-> {}, left |-> {}]
    BY <1>2 DEF NoDeletion
  <2>. QED
    BY <1>1, <1>4, <1>5, <2>1 DEF DeleterInv, Deleting, UrlsEnd
<1>7. ASSUME NEW e \in DOMAIN deleters, e # d  PROVE DeleterInv(e)'
  <2>1. deleters'[e] = deleters[e]
    BY <1>2, <1>7
  <2>2. deleters[e].pc # "idle" => deleters[e].after = after
    BY <1>1, NoneAssumption DEF DeletionInv, DeleterInv, RequestsAgree, Deleting, after
  <2>. QED
    BY <1>1, <1>5, <2>1, <2>2 DEF DeletionInv, DeleterInv, Deleting, UrlsEnd, Empty
<1>8. DOMAIN deleters' = DOMAIN deleters
  BY <1>2
<1>. QED
  BY <1>1, <1>4, <1>5, <1>6, <1>7, <1>8 DEF DeletionInv, RequestsAgree, UrlsEnd

(* The other steps of a deletion d.                                        *)
LEMMA DeletionStep ==
    ASSUME TypeOK, TypeOK', DeletionInv, NEW d \in DOMAIN deleters,
           \A e \in DOMAIN deleters : e # d => deleters'[e] = deleters[e],
           DOMAIN deleters' = DOMAIN deleters,
           UNCHANGED <<now, user>>, KeepsUrls, KeepsEmpty, DeleterInv(d)'
    PROVE  DeletionInv'
<1>0. now \in Nat /\ KeepsRequest
  BY DEF TypeOK, KeepsRequest, Exists
<1>1. \A e \in DOMAIN deleters' : DeleterInv(e)'
  BY <1>0, DeleterKept DEF DeletionInv
<1>2. RequestsAgree' /\ (Deleting => UrlsEnd(user.deleteAfter))'
  BY UrlsKept DEF DeletionInv, RequestsAgree, Deleting, Exists, UrlsEnd
<1>3. (~Exists => UrlsEnd(now) /\ \A o \in Objects : Empty(o))'
  BY UrlsKept DEF DeletionInv, Exists, UrlsEnd, KeepsEmpty
<1>. QED
  BY <1>1, <1>2, <1>3 DEF DeletionInv

LEMMA DropKeeps ==
    ASSUME TypeOK, TypeOK', DeletionInv, NEW d \in DOMAIN deleters, DropUser(d)
    PROVE  DeletionInv'
<1>1. /\ ~Exists' /\ UNCHANGED <<now, urls, bucket>>
      /\ deleters' = [deleters EXCEPT ![d] = NoDeletion]
  BY DEF DropUser, Exists, storage
<1>2. /\ UrlsEnd(deleters[d].after) /\ deleters[d].after <= deleters[d].at /\ deleters[d].at <= now
      /\ \A o \in Objects : Empty(o)
  BY DEF DropUser, DeletionInv, DeleterInv
<1>3. UrlsEnd(now)
  <2>1. \A u \in urls : u.expires \in Nat
    BY DEF TypeOK, Reservations
  <2>. QED
    BY <1>2, <2>1, DeleterTyped DEF UrlsEnd, TypeOK
<1>4. KeepsUrls /\ KeepsEmpty /\ now <= now'
  BY <1>1 DEF KeepsUrls, KeepsEmpty, Empty, TypeOK
<1>5. ASSUME NEW e \in DOMAIN deleters', e # d  PROVE DeleterInv(e)'
  BY <1>1, <1>4, <1>5, DeleterKept DEF DeletionInv
<1>6. DeleterInv(d)'
  BY <1>1 DEF DeleterInv, NoDeletion
<1>. QED
  BY <1>1, <1>2, <1>3, <1>5, <1>6 DEF DeletionInv, RequestsAgree, Deleting, UrlsEnd, Empty

LEMMA MarkKeepsUrls ==
    ASSUME TypeOK, NEW d \in DOMAIN deleters, Mark(d)
    PROVE  KeepsUrls
<1>1. \A v \in Reservations : [v EXCEPT !.fenced = TRUE].expires = v.expires
  BY DEF Reservations
<1>2. \A v \in urls : v \in Reservations
  BY DEF TypeOK
<1>3. \A u \in urls' : \E v \in urls : u = v \/ u = [v EXCEPT !.fenced = TRUE]
  BY DEF Mark
<1>. QED
  BY <1>1, <1>2, <1>3 DEF KeepsUrls

LEMMA DeleteKeeps ==
    ASSUME TypeOK, TypeOK', DeletionInv, NEW d \in DOMAIN deleters, Delete(d)
    PROVE  DeletionInv'
<1>0. DeleterInv(d) /\ deleters[d] \in Deletions
  BY DeleterTyped DEF DeletionInv
<1>1. CASE Abandon(d)
  <2>1. DeleterInv(d)'
    BY <1>1 DEF Abandon, DeleterInv, NoDeletion
  <2>. QED
    BY <1>1, <2>1, DeletionStep DEF Abandon, storage, KeepsUrls, KeepsEmpty, Empty
<1>2. CASE Select(d)
  <2>1. /\ UNCHANGED <<now, user, urls, bucket>> /\ KeepsUrls /\ KeepsEmpty
        /\ deleters[d].pc = "select"
    BY <1>2 DEF Select, storage, KeepsUrls, KeepsEmpty, Empty
  <2>2. \/ deleters' = [deleters EXCEPT ![d].pc = "decide"]
        \/ \E batch \in SUBSET Unfenced :
              deleters' = [deleters EXCEPT ![d].pc = "fence", ![d].targets = batch,
                                           ![d].left = batch]
    BY <1>2 DEF Select
  <2>3. /\ deleters'[d].pc \in {"decide", "fence"} /\ deleters'[d].at = deleters[d].at
        /\ deleters'[d].after = deleters[d].after
        /\ \A e \in DOMAIN deleters : e # d => deleters'[e] = deleters[e]
        /\ DOMAIN deleters' = DOMAIN deleters
    <3>1. CASE deleters' = [deleters EXCEPT ![d].pc = "decide"]
      BY <1>0, <3>1 DEF Deletions
    <3>2. ASSUME NEW batch,
                 deleters' = [deleters EXCEPT ![d].pc = "fence", ![d].targets = batch,
                                              ![d].left = batch]
          PROVE  /\ deleters'[d].pc = "fence" /\ deleters'[d].at = deleters[d].at
                 /\ deleters'[d].after = deleters[d].after
                 /\ \A e \in DOMAIN deleters : e # d => deleters'[e] = deleters[e]
                 /\ DOMAIN deleters' = DOMAIN deleters
      BY <1>0, <3>2 DEF Deletions
    <3>. QED
      BY <2>2, <3>1, <3>2
  <2>4. DeleterInv(d)'
    BY <1>0, <2>1, <2>3 DEF DeleterInv, Exists, Deleting, UrlsEnd
  <2>. QED
    BY <2>1, <2>3, <2>4, DeletionStep
<1>3. CASE Fence(d)
  <2>1. PICK o \in deleters[d].left, pc \in {"mark", "fence"} :
          /\ bucket' = [bucket EXCEPT ![o] = "fence"]
          /\ deleters' = [deleters EXCEPT ![d].pc = pc, ![d].left = @ \ {o}]
    BY <1>3 DEF Fence
  <2>2. /\ deleters'[d].pc = pc /\ deleters'[d].at = deleters[d].at
        /\ deleters'[d].after = deleters[d].after
    BY <1>0, <2>1 DEF Deletions
  <2>3. UNCHANGED <<now, user, urls>> /\ deleters[d].pc = "fence"
    BY <1>3 DEF Fence
  <2>4. DeleterInv(d)'
    BY <1>0, <2>2, <2>3 DEF DeleterInv, Exists, Deleting, UrlsEnd
  <2>5. KeepsUrls /\ KeepsEmpty
    BY <2>1, <2>3 DEF KeepsUrls, KeepsEmpty, Empty, TypeOK
  <2>. QED
    BY <2>1, <2>3, <2>4, <2>5, DeletionStep
<1>4. CASE Mark(d)
  <2>1. UNCHANGED <<now, user, bucket>> /\ KeepsUrls /\ KeepsEmpty /\ deleters[d].pc = "mark"
    BY <1>4, MarkKeepsUrls DEF Mark, KeepsEmpty, Empty
  <2>2. \A t : UrlsEnd(t) => \A u \in urls' : u.expires < t
    BY <2>1, UrlsKept
  <2>3. CASE deleters' = [deleters EXCEPT ![d] = NoDeletion]
    <3>1. DeleterInv(d)'
      BY <2>3 DEF DeleterInv, NoDeletion
    <3>. QED
      BY <2>1, <2>3, <3>1, DeletionStep
  <2>4. CASE deleters' = [deleters EXCEPT ![d].pc = "decide", ![d].targets = {}]
    <3>1. /\ deleters'[d].pc = "decide" /\ deleters'[d].at = deleters[d].at
          /\ deleters'[d].after = deleters[d].after
      BY <1>0, <2>4 DEF Deletions
    <3>2. DeleterInv(d)'
      BY <1>0, <2>1, <2>2, <3>1 DEF DeleterInv, Exists, Deleting, UrlsEnd
    <3>. QED
      BY <2>1, <2>4, <3>2, DeletionStep
  <2>. QED
    BY <1>4, <2>3, <2>4 DEF Mark
<1>5. CASE Decide(d)
  <2>1. /\ UNCHANGED <<now, user, urls, bucket>> /\ KeepsUrls /\ KeepsEmpty
        /\ deleters[d].pc = "decide"
    BY <1>5 DEF Decide, storage, KeepsUrls, KeepsEmpty, Empty
  <2>2. CASE deleters' = [deleters EXCEPT ![d] = NoDeletion]
    <3>1. DeleterInv(d)'
      BY <2>2 DEF DeleterInv, NoDeletion
    <3>. QED
      BY <2>1, <2>2, <3>1, DeletionStep
  <2>3. CASE /\ ~(deleters[d].at < deleters[d].after)
             /\ deleters' = [deleters EXCEPT ![d].pc = "remove",
                                             ![d].targets = {o \in Objects : bucket[o] # "none"}]
    <3>1. /\ deleters'[d].pc = "remove" /\ deleters'[d].at = deleters[d].at
          /\ deleters'[d].after = deleters[d].after
          /\ deleters'[d].targets = {o \in Objects : bucket[o] # "none"}
      BY <1>0, <2>3 DEF Deletions
    <3>. DEFINE at == deleters[d].at
                after == deleters[d].after
    <3>0. after \in Nat /\ at \in Nat
      BY DeleterTyped
    <3>2. after <= at
      <4>1. ~(at < after)
        BY <2>3
      <4>. HIDE DEF at, after
      <4>. QED
        BY <3>0, <4>1
    <3>3. \A o \in Objects : Empty(o)' \/ o \in deleters'[d].targets
      BY <2>1, <3>1 DEF Empty
    <3>4. DeleterInv(d)'
      BY <1>0, <2>1, <3>1, <3>2, <3>3 DEF DeleterInv, Exists, Deleting, UrlsEnd
    <3>. QED
      BY <2>1, <2>3, <3>4, DeletionStep
  <2>. QED
    BY <1>5, <2>2, <2>3 DEF Decide
<1>6. CASE Remove(d)
  <2>1. /\ UNCHANGED <<now, user, urls>> /\ KeepsUrls /\ deleters[d].pc = "remove"
        /\ bucket' = [o \in Objects |-> IF o \in deleters[d].targets THEN "none" ELSE bucket[o]]
        /\ deleters' = [deleters EXCEPT ![d].pc = "drop", ![d].targets = {}]
    BY <1>6 DEF Remove, KeepsUrls
  <2>2. /\ deleters'[d].pc = "drop" /\ deleters'[d].at = deleters[d].at
        /\ deleters'[d].after = deleters[d].after
    BY <1>0, <2>1 DEF Deletions
  <2>3. KeepsEmpty /\ \A o \in Objects : Empty(o)'
    BY <1>0, <2>1 DEF KeepsEmpty, Empty, DeleterInv
  <2>4. DeleterInv(d)'
    BY <1>0, <2>1, <2>2, <2>3 DEF DeleterInv, Exists, Deleting, UrlsEnd
  <2>. QED
    BY <2>1, <2>3, <2>4, DeletionStep
<1>. QED
  BY <1>1, <1>2, <1>3, <1>4, <1>5, <1>6, RequestKeeps, DropKeeps DEF Delete
LEMMA EntitledKeeps ==
    ASSUME TypeOK, NEW k \in Keys, Webhook(k)
    PROVE  KeepsRequest
<1>1. PICK n \in DOMAIN history[k], new \in Subscriptions, row \in Subscriptions :
          Delivers(k, n, new, row)
  BY WebhookDelivers
<1>2. user \in Users /\ user' = Entitled(row, new.created) /\ Exists
  BY <1>1 DEF Webhook, Exists, TypeOK, Delivers
<1>3. user' \in Users /\ new.created \in Nat
  BY <1>2, EntitledTyped DEF Subscriptions
<1>4. user'.deletionAt = user.deletionAt /\ user'.deleteAfter = user.deleteAfter
  BY <1>2 DEF Entitled, Users
<1>. QED
  BY <1>2, <1>3, <1>4, NoneAssumption DEF KeepsRequest, Exists

LEMMA DeletionInvHolds ==
    /\ Init => DeletionInv
    /\ TypeOK /\ DeletionInv /\ [Next]_vars => DeletionInv'
<1>1. ASSUME Init  PROVE DeletionInv
  <2>0. NewUser \in Users
    BY DEF NewUser, Users, Times
  <2>1. user # None /\ user.deletionAt = None /\ user.deleteAfter = None
    BY <1>1, <2>0, NoneAssumption DEF Init, NewUser
  <2>2. \A d \in DOMAIN deleters : deleters[d].pc = "idle"
    BY <1>1 DEF Init, NoDeletion
  <2>. QED
    BY <2>1, <2>2 DEF DeletionInv, RequestsAgree, Deleting, DeleterInv, Exists
<1>2. ASSUME TypeOK, DeletionInv, [Next]_vars  PROVE DeletionInv'
  <2>0. TypeOK' /\ now \in Nat
    BY <1>2, NextTyped DEF TypeOK
  <2>1. ASSUME UNCHANGED <<user, urls, bucket, deleters>>, now' = now \/ now' = now + 1
        PROVE  DeletionInv'
    BY <1>2, <2>0, <2>1, BillingKeeps DEF KeepsRequest, Exists
  <2>2. CASE Tick
    BY <2>1, <2>2 DEF Tick, storage
  <2>3. CASE EnsureCustomer
    <3>1. user \in Users /\ user' = [user EXCEPT !.customer = TRUE]
      BY <1>2, <2>3 DEF EnsureCustomer, TypeOK, Exists
    <3>2. /\ user' \in Users /\ user'.deletionAt = user.deletionAt
          /\ user'.deleteAfter = user.deleteAfter
      BY <3>1 DEF Users
    <3>3. KeepsRequest
      BY <3>1, <3>2, NoneAssumption DEF KeepsRequest, Exists
    <3>4. UNCHANGED <<urls, bucket, deleters, now>>
      BY <2>3 DEF EnsureCustomer, storage
    <3>. QED
      BY <1>2, <2>0, <3>3, <3>4, BillingKeeps
  <2>4. CASE PurgeAdmission
    BY <2>1, <2>4 DEF PurgeAdmission, storage
  <2>5. ASSUME NEW k \in Keys, AdmitCheckout(k)  PROVE DeletionInv'
    BY <2>1, <2>5 DEF AdmitCheckout, storage
  <2>6. ASSUME NEW k \in Keys, Pay(k) \/ Change(k)  PROVE DeletionInv'
    BY <1>2, <2>1, <2>6, StripeEmits DEF Emit, storage
  <2>7. ASSUME NEW k \in Keys, Webhook(k)  PROVE DeletionInv'
    BY <1>2, <2>0, <2>7, EntitledKeeps, BillingKeeps DEF Webhook, storage
  <2>8. ASSUME NEW r \in requests, CreateSession(r) \/ RejectCheckout(r) \/ FailCheckout(r)
        PROVE  DeletionInv'
    BY <2>1, <2>8 DEF CreateSession, RejectCheckout, FailCheckout, storage
  <2>9. ASSUME NEW u \in urls, ReadReservation(u)  PROVE DeletionInv'
    BY <2>1, <2>9 DEF ReadReservation
  <2>10. CASE UNCHANGED vars
    BY <2>1, <2>10 DEF vars, storage
  <2>. QED
    BY <1>2, <2>0, <2>2, <2>3, <2>4, <2>5, <2>6, <2>7, <2>8, <2>9, <2>10,
       ReserveKeeps, PutKeeps, SettleKeeps, DeleteKeeps DEF Next
<1>. QED
  BY <1>1, <1>2

(* No data outlives the account, whatever uploads, finalizations and       *)
(* deletions run side by side.                                             *)
THEOREM AccountLeavesNothing == Spec => []NothingSurvives
<1>1. DeletionInv => NothingSurvives
  BY DEF DeletionInv, NothingSurvives, Empty
<1>. QED
  BY <1>1, InitTyped, NextTyped, DeletionInvHolds, PTL DEF Spec
-----------------------------------------------------------------------------
(***************************************************************************)
(* Checkout.  Every session that may still be paid, and every request that *)
(* may still open one, stands for the admission, unless it is excused.     *)
(***************************************************************************)
Excused(k) ==
    \/ k \in refused
    \/ \E h \in handled : h[1] # k /\ history[h[1]][h[2]].status \in Releasing

Claimed(k, e) == sessions[k] = e \/ \E r \in requests : r.key = k /\ r.expires = e

AdmittedFor(k, e) == admission # None /\ admission.key = k /\ e <= admission.expires

CheckoutInv ==
    Exists => \A k \in Keys : history[k] = <<>> =>
        Excused(k) \/ \A e \in Nat : Claimed(k, e) /\ now < e => AdmittedFor(k, e)

(* No event is forgotten.                                                  *)
HistoryKept ==
    \A j \in Keys : \A n \in DOMAIN history[j] :
        n \in DOMAIN history'[j] /\ history'[j][n] = history[j][n]

LEMMA HistoryGrows == TypeOK /\ [Next]_vars => HistoryKept
<1>. SUFFICES ASSUME TypeOK, [Next]_vars  PROVE HistoryKept
  OBVIOUS
<1>1. ASSUME history' = history  PROVE HistoryKept
  BY <1>1 DEF HistoryKept
<1>2. ASSUME NEW k \in Keys, Pay(k) \/ Change(k)  PROVE HistoryKept
  BY <1>2, StripeEmits, Emitted DEF HistoryKept
<1>3. ASSUME NEW d \in DOMAIN deleters, Delete(d)  PROVE HistoryKept
  BY <1>1, <1>3 DEF Delete, RequestDeletion, Select, Fence, Mark, Decide, Remove, DropUser,
                    Abandon, provider
<1>4. CASE \/ Tick \/ EnsureCustomer \/ PurgeAdmission
           \/ \E k \in Keys : AdmitCheckout(k) \/ Webhook(k)
           \/ \E r \in requests : CreateSession(r) \/ RejectCheckout(r) \/ FailCheckout(r)
           \/ \E o \in Objects : Reserve(o)
           \/ \E u \in urls : Put(u) \/ ReadReservation(u)
           \/ \E u \in readers : Settle(u)
           \/ UNCHANGED vars
  BY <1>1, <1>4 DEF Tick, EnsureCustomer, PurgeAdmission, AdmitCheckout, Webhook, CreateSession,
       RejectCheckout, FailCheckout, Reserve, Put, ReadReservation, Settle, vars, provider
<1>. QED
  BY <1>2, <1>3, <1>4 DEF Next

LEMMA EmptyBefore ==
    ASSUME TypeOK, HistoryKept, NEW k \in Keys, history'[k] = <<>>
    PROVE  history[k] = <<>>
<1>1. history[k] \in Seq(Events)
  BY DEF TypeOK
<1>2. \A n : n \notin DOMAIN history[k]
  BY DEF HistoryKept
<1>3. Len(history[k]) \in Nat /\ DOMAIN history[k] = 1 .. Len(history[k])
  BY <1>1
<1>4. 1 \notin DOMAIN history[k]
  BY <1>2
<1>. QED
  BY <1>1, <1>3, <1>4

LEMMA ExcusedKept ==
    ASSUME TypeOK, HistoryKept, refused \subseteq refused', handled \subseteq handled',
           NEW k \in Keys, Excused(k)
    PROVE  Excused(k)'
<1>1. CASE k \in refused
  BY <1>1 DEF Excused
<1>2. CASE \E h \in handled : h[1] # k /\ history[h[1]][h[2]].status \in Releasing
  <2>1. PICK h \in handled : h[1] # k /\ history[h[1]][h[2]].status \in Releasing
    BY <1>2
  <2>2. h[1] \in Keys /\ h[2] \in DOMAIN history[h[1]]
    BY DEF TypeOK
  <2>3. history'[h[1]][h[2]] = history[h[1]][h[2]]
    BY <2>2 DEF HistoryKept
  <2>. QED
    BY <2>1, <2>3 DEF Excused, Releasing
<1>. QED
  BY <1>1, <1>2 DEF Excused

(* A step at which each new claim is admitted, and no admission that a     *)
(* claim relies on is lost.                                                *)
LEMMA ClaimsKept ==
    ASSUME TypeOK, TypeOK', CheckoutInv, HistoryKept, Exists, now <= now',
           refused \subseteq refused', handled \subseteq handled',
           \A k \in Keys, e \in Nat : Claimed(k, e)' => Claimed(k, e) \/ AdmittedFor(k, e)',
           \A k \in Keys, e \in Nat : Claimed(k, e)' /\ now < e /\ AdmittedFor(k, e) =>
                AdmittedFor(k, e)' \/ Excused(k)'
    PROVE  CheckoutInv'
<1>. SUFFICES ASSUME NEW k \in Keys, history'[k] = <<>>, ~Excused(k)', NEW e \in Nat,
                     Claimed(k, e)', now' < e
              PROVE  AdmittedFor(k, e)'
  BY DEF CheckoutInv
<1>1. history[k] = <<>> /\ ~Excused(k)
  BY EmptyBefore, ExcusedKept
<1>2. now < e
  BY DEF TypeOK
<1>. QED
  BY <1>1, <1>2 DEF CheckoutInv

(* Steps that touch neither Stripe nor the admissions.                     *)
LEMMA ClaimsQuiet ==
    ASSUME TypeOK, TypeOK', CheckoutInv, HistoryKept, Exists' => Exists, now <= now',
           refused \subseteq refused', handled \subseteq handled',
           UNCHANGED <<admission, sessions>>, requests' \subseteq requests
    PROVE  CheckoutInv'
<1>1. CASE Exists
  <2>1. \A k \in Keys, e \in Nat : Claimed(k, e)' => Claimed(k, e)
    BY DEF Claimed
  <2>2. \A k \in Keys, e \in Nat : AdmittedFor(k, e) => AdmittedFor(k, e)'
    BY DEF AdmittedFor
  <2>. QED
    BY <1>1, <2>1, <2>2, ClaimsKept
<1>2. CASE ~Exists
  BY <1>2 DEF CheckoutInv
<1>. QED
  BY <1>1, <1>2

LEMMA AdmitKeeps ==
    ASSUME TypeOK, TypeOK', CheckoutInv, HistoryKept, NEW k \in Keys, AdmitCheckout(k)
    PROVE  CheckoutInv'
<1>. DEFINE expires == now + CheckoutLifetime
<1>0. /\ Exists /\ now \in Nat /\ expires \in Nat
      /\ UNCHANGED <<now, user, handled, sessions, history, refused>>
  BY Bounds DEF AdmitCheckout, MayAdmit, TypeOK, provider
<1>1. CASE /\ MayAdmit
           /\ admission' = [key |-> k, expires |-> expires]
           /\ requests' = requests \cup {[key |-> k, acquired |-> TRUE, expires |-> expires]}
  <2>1. \A j \in Keys, e \in Nat : AdmittedFor(j, e) => e <= now
    BY <1>0, <1>1 DEF AdmittedFor, MayAdmit, TypeOK, Admissions
  <2>2. [key |-> k, expires |-> expires] \in Admissions
    BY <1>0 DEF Admissions
  <2>3. AdmittedFor(k, expires)'
    BY <1>0, <1>1, <2>2, NoneAssumption DEF AdmittedFor
  <2>4. \A j \in Keys, e \in Nat : Claimed(j, e)' => Claimed(j, e) \/ (j = k /\ e = expires)
    BY <1>0, <1>1 DEF Claimed
  <2>5. \A j \in Keys, e \in Nat : ~(now < e /\ AdmittedFor(j, e))
    BY <1>0, <2>1
  <2>. QED
    BY <1>0, <2>3, <2>4, <2>5, ClaimsKept
<1>2. CASE /\ admission # None /\ admission.key = k
           /\ requests' = requests \cup
                  {[key |-> k, acquired |-> FALSE, expires |-> admission.expires]}
           /\ UNCHANGED admission
  <2>1. PICK t \in Nat : t = admission.expires
    BY <1>2 DEF TypeOK, Admissions
  <2>2. \A j \in Keys, e \in Nat : AdmittedFor(j, e) => AdmittedFor(j, e)'
    BY <1>2 DEF AdmittedFor
  <2>3. AdmittedFor(k, t)'
    BY <1>2, <2>1 DEF AdmittedFor
  <2>4. \A j \in Keys, e \in Nat : Claimed(j, e)' => Claimed(j, e) \/ (j = k /\ e = t)
    BY <1>0, <1>2, <2>1 DEF Claimed
  <2>5. \A j \in Keys, e \in Nat : Claimed(j, e)' => Claimed(j, e) \/ AdmittedFor(j, e)'
    BY <2>3, <2>4
  <2>. QED
    BY <1>0, <2>2, <2>5, ClaimsKept
<1>. QED
  BY <1>1, <1>2 DEF AdmitCheckout

LEMMA CreateSessionKeeps ==
    ASSUME TypeOK, TypeOK', CheckoutInv, HistoryKept, NEW r \in requests, CreateSession(r)
    PROVE  CheckoutInv'
<1>1. /\ Exists /\ now \in Nat /\ UNCHANGED <<now, user, handled, admission, refused>>
      /\ r.key \in Keys /\ requests' = requests \ {r}
      /\ sessions' = [sessions EXCEPT ![r.key] = IF @ = None THEN r.expires ELSE @]
  BY DEF CreateSession, TypeOK, Requests
<1>2. \A j \in Keys : sessions'[j] = sessions[j] \/ (j = r.key /\ sessions'[j] = r.expires)
  BY <1>1 DEF TypeOK
<1>3. \A j \in Keys, e \in Nat : Claimed(j, e)' => Claimed(j, e)
  BY <1>1, <1>2 DEF Claimed
<1>4. \A j \in Keys, e \in Nat : AdmittedFor(j, e) => AdmittedFor(j, e)'
  BY <1>1 DEF AdmittedFor
<1>. QED
  BY <1>1, <1>3, <1>4, ClaimsKept

LEMMA RejectKeeps ==
    ASSUME TypeOK, TypeOK', CheckoutInv, HistoryKept, NEW r \in requests, RejectCheckout(r)
    PROVE  CheckoutInv'
<1>1. /\ Exists /\ now \in Nat /\ UNCHANGED <<now, user, handled, sessions>>
      /\ r.key \in Keys /\ requests' = requests \ {r} /\ sessions[r.key] = None
  BY DEF RejectCheckout, TypeOK, Requests
<1>2. CASE r.acquired /\ admission # None /\ admission.key = r.key
  <2>1. refused' = refused \cup {q.key : q \in {p \in requests \ {r} : p.key = r.key}}
    BY <1>2 DEF RejectCheckout
  <2>2. \A j \in Keys, e \in Nat : Claimed(j, e)' => Claimed(j, e)
    BY <1>1 DEF Claimed
  <2>3. ASSUME NEW j \in Keys, NEW e \in Nat, Claimed(j, e)', AdmittedFor(j, e)
        PROVE  Excused(j)'
    <3>1. j = r.key
      BY <1>2, <2>3 DEF AdmittedFor
    <3>2. sessions'[j] # e
      BY <1>1, <3>1, NoneAssumption
    <3>3. PICK q \in requests \ {r} : q.key = j
      BY <1>1, <2>3, <3>2 DEF Claimed
    <3>4. j \in refused'
      BY <2>1, <3>1, <3>3
    <3>. QED
      BY <3>4 DEF Excused
  <2>. QED
    BY <1>1, <2>1, <2>2, <2>3, ClaimsKept
<1>3. CASE ~(r.acquired /\ admission # None /\ admission.key = r.key)
  <2>1. admission' = admission /\ refused \subseteq refused'
    BY <1>3 DEF RejectCheckout, Released
  <2>. QED
    BY <1>1, <2>1, ClaimsQuiet
<1>. QED
  BY <1>2, <1>3

LEMMA PurgeKeeps ==
    ASSUME TypeOK, TypeOK', CheckoutInv, HistoryKept, PurgeAdmission
    PROVE  CheckoutInv'
<1>1. /\ UNCHANGED <<now, user, handled, sessions, refused, requests>> /\ now \in Nat
      /\ admission \in Admissions /\ admission.expires <= now
  BY DEF PurgeAdmission, TypeOK, provider
<1>2. \A j \in Keys, e \in Nat : ~(now < e /\ AdmittedFor(j, e))
  BY <1>1 DEF AdmittedFor, Admissions
<1>3. \A j \in Keys, e \in Nat : Claimed(j, e)' => Claimed(j, e)
  BY <1>1 DEF Claimed
<1>4. CASE Exists
  BY <1>1, <1>2, <1>3, <1>4, ClaimsKept
<1>5. CASE ~Exists
  BY <1>1, <1>5 DEF CheckoutInv, Exists
<1>. QED
  BY <1>4, <1>5

LEMMA WebhookKeepsClaims ==
    ASSUME TypeOK, TypeOK', CheckoutInv, HistoryKept, NEW k \in Keys, Webhook(k)
    PROVE  CheckoutInv'
<1>1. PICK n \in DOMAIN history[k], new \in Subscriptions, row \in Subscriptions :
          Delivers(k, n, new, row)
  BY WebhookDelivers
<1>2. /\ Exists /\ now \in Nat /\ UNCHANGED <<now, sessions, history, refused, requests>>
      /\ handled' = handled \cup {<<k, n>>}
  BY <1>1 DEF Webhook, Delivers, TypeOK, provider
<1>3. \A j \in Keys, e \in Nat : Claimed(j, e)' => Claimed(j, e)
  BY <1>2 DEF Claimed
<1>4. CASE UNCHANGED admission
  BY <1>2, <1>3, <1>4, ClaimsKept DEF AdmittedFor
<1>5. CASE history[k][n].status \in Releasing
  <2>1. \A j \in Keys : j # k => Excused(j)'
    <3>1. <<k, n>> \in handled' /\ history'[k][n].status \in Releasing
      BY <1>2, <1>5
    <3>2. <<k, n>>[1] = k /\ <<k, n>>[2] = n
      OBVIOUS
    <3>. QED
      BY <3>1, <3>2 DEF Excused, Releasing
  <2>2. history'[k] # <<>>
    BY <1>2
  <2>. SUFFICES ASSUME NEW j \in Keys, history'[j] = <<>>, ~Excused(j)'  PROVE FALSE
    BY DEF CheckoutInv
  <2>. QED
    BY <2>1, <2>2
<1>. QED
  BY <1>1, <1>4, <1>5 DEF Delivers

LEMMA CheckoutInvHolds ==
    /\ Init => CheckoutInv
    /\ TypeOK /\ CheckoutInv /\ [Next]_vars => CheckoutInv'
<1>1. ASSUME Init  PROVE CheckoutInv
  BY <1>1, NoneAssumption DEF Init, CheckoutInv, Claimed
<1>2. ASSUME TypeOK, CheckoutInv, [Next]_vars  PROVE CheckoutInv'
  <2>0. TypeOK' /\ now \in Nat /\ HistoryKept
    BY <1>2, NextTyped, HistoryGrows DEF TypeOK
  <2>1. ASSUME Exists' => Exists, now' = now \/ now' = now + 1,
               UNCHANGED <<admission, sessions, refused, handled>>, requests' \subseteq requests
        PROVE  CheckoutInv'
    BY <1>2, <2>0, <2>1, ClaimsQuiet
  <2>2. CASE Tick
    BY <2>1, <2>2 DEF Tick, billing, provider, Exists
  <2>3. CASE EnsureCustomer
    BY <2>1, <2>3 DEF EnsureCustomer, billing, provider
  <2>4. ASSUME NEW k \in Keys, Pay(k) \/ Change(k)  PROVE CheckoutInv'
    BY <1>2, <2>1, <2>4, StripeEmits DEF Emit, billing, Exists
  <2>5. ASSUME NEW r \in requests, FailCheckout(r)  PROVE CheckoutInv'
    BY <2>1, <2>5 DEF FailCheckout, provider, Exists
  <2>6. CASE \/ \E o \in Objects : Reserve(o)
             \/ \E u \in urls : Put(u) \/ ReadReservation(u)
             \/ \E u \in readers : Settle(u)
             \/ UNCHANGED vars
    BY <2>1, <2>6 DEF Reserve, Put, ReadReservation, Settle, vars, billing, provider, Exists
  <2>7. ASSUME NEW d \in DOMAIN deleters, Delete(d)  PROVE CheckoutInv'
    <3>1. CASE DropUser(d)
      BY <3>1 DEF DropUser, CheckoutInv, Exists
    <3>2. CASE \/ RequestDeletion(d) \/ Select(d) \/ Fence(d) \/ Mark(d) \/ Decide(d)
               \/ Remove(d) \/ Abandon(d)
      BY <2>1, <3>2 DEF RequestDeletion, MayDelete, Select, Fence, Mark, Decide, Remove, Abandon,
           billing, provider, Exists
    <3>. QED
      BY <2>7, <3>1, <3>2 DEF Delete
  <2>. QED
    BY <1>2, <2>0, <2>2, <2>3, <2>4, <2>5, <2>6, <2>7, AdmitKeeps, CreateSessionKeeps,
       RejectKeeps, PurgeKeeps, WebhookKeepsClaims DEF Next
<1>. QED
  BY <1>1, <1>2

(* Every Checkout Session that can still be paid has its admission, for any*)
(* number of checkouts, requests and events.                               *)
THEOREM CheckoutsAreAdmitted == Spec => []CheckoutIsAdmitted
<1>1. TypeOK /\ CheckoutInv => CheckoutIsAdmitted
  BY DEF TypeOK, CheckoutInv, CheckoutIsAdmitted, Open, Claimed, AdmittedFor, Excused, Times
<1>. QED
  BY <1>1, InitTyped, NextTyped, CheckoutInvHolds, PTL DEF Spec

-----------------------------------------------------------------------------
(***************************************************************************)
(* The stored subscription is an event that was handled, the latest one if *)
(* there is one subscription only; and when it is active, the others of    *)
(* its second are too, unless an incomplete one is among them.             *)
(***************************************************************************)
EventsOrdered ==
    \A k \in Keys : \A n \in DOMAIN history[k] :
        /\ history[k][n].created <= now
        /\ \A m \in DOMAIN history[k] : m <= n => history[k][m].created <= history[k][n].created

StoredIsHandled ==
    Exists =>
        /\ stored = None => handled = {}
        /\ stored # None => \E n \in DOMAIN history[stored.sub] :
               /\ <<stored.sub, n>> \in handled
               /\ history[stored.sub][n] = [status |-> stored.status, created |-> stored.created]

StateAgrees ==
    Exists /\ ~Deleting => (user.state = "active" <=> stored # None /\ stored.status = "active")

Begun(k, t) == \E m \in DOMAIN history[k] : history[k][m] = [status |-> "incomplete", created |-> t]

LatestIsStored ==
    Exists => \A k \in Keys : Subscribed \subseteq {k} =>
        \A n \in DOMAIN history[k] : <<k, n>> \in handled =>
            /\ history[k][n].created <= stored.created
            /\ stored.status = "active" /\ history[k][n].created = stored.created =>
                   history[k][n].status = "active" \/ Begun(k, stored.created)

SubscriptionInv == EventsOrdered /\ StoredIsHandled /\ StateAgrees /\ LatestIsStored
LEMMA HandledPair ==
    ASSUME TypeOK, NEW k, NEW n, <<k, n>> \in handled
    PROVE  k \in Keys /\ n \in DOMAIN history[k]
<1>1. PICK j \in Keys : \E m \in DOMAIN history[j] : <<k, n>> = <<j, m>>
  BY DEF TypeOK
<1>. QED
  BY <1>1

LEMMA EventTyped ==
    ASSUME TypeOK, NEW k \in Keys, NEW n \in DOMAIN history[k]
    PROVE  /\ history[k][n] \in Events /\ history[k][n].created \in Nat
           /\ n \in 1 .. Len(history[k]) /\ Len(history[k]) \in Nat \ {0}
           /\ history[k] # <<>>
<1>1. history[k] \in Seq(Events)
  BY DEF TypeOK
<1>2. history[k][n] \in Events /\ n \in 1 .. Len(history[k]) /\ Len(history[k]) \in Nat
  BY <1>1
<1>. QED
  BY <1>1, <1>2 DEF Events

(* Steps that deliver no event.                                            *)
LEMMA SubscriptionQuiet ==
    ASSUME TypeOK, TypeOK', SubscriptionInv, HistoryKept, EventsOrdered',
           Exists' => Exists /\ stored' = stored /\ handled' = handled,
           Exists' /\ ~Deleting' => ~Deleting /\ user'.state = user.state
    PROVE  SubscriptionInv'
<1>. USE DEF SubscriptionInv
<1>. SUFFICES ASSUME Exists'  PROVE StoredIsHandled' /\ StateAgrees' /\ LatestIsStored'
  BY DEF StoredIsHandled, StateAgrees, LatestIsStored
<1>0. Exists /\ stored' = stored /\ handled' = handled
  OBVIOUS
<1>1. StoredIsHandled'
  <2>1. CASE stored = None
    BY <1>0, <2>1 DEF StoredIsHandled
  <2>2. CASE stored # None
    <3>1. PICK n \in DOMAIN history[stored.sub] :
            /\ <<stored.sub, n>> \in handled
            /\ history[stored.sub][n] = [status |-> stored.status, created |-> stored.created]
      BY <1>0, <2>2 DEF StoredIsHandled
    <3>2. /\ n \in DOMAIN history'[stored.sub]
          /\ history'[stored.sub][n] = history[stored.sub][n]
      BY <3>1, HandledPair DEF HistoryKept
    <3>. QED
      BY <1>0, <2>2, <3>1, <3>2 DEF StoredIsHandled
  <2>. QED
    BY <2>1, <2>2
<1>2. StateAgrees'
  BY <1>0 DEF StateAgrees
<1>3. LatestIsStored'
  <2>. SUFFICES ASSUME NEW k \in Keys, Subscribed' \subseteq {k},
                       NEW n \in DOMAIN history'[k], <<k, n>> \in handled
                PROVE  /\ history'[k][n].created <= stored.created
                       /\ stored.status = "active" /\ history'[k][n].created = stored.created =>
                              history'[k][n].status = "active" \/ Begun(k, stored.created)'
    BY <1>0 DEF LatestIsStored
  <2>1. n \in DOMAIN history[k] /\ history'[k][n] = history[k][n]
    BY HandledPair DEF HistoryKept
  <2>2. Subscribed \subseteq {k}
    BY EmptyBefore DEF Subscribed
  <2>3. Begun(k, stored.created) => Begun(k, stored.created)'
    BY <1>0 DEF Begun, HistoryKept
  <2>. QED
    BY <1>0, <2>1, <2>2, <2>3 DEF LatestIsStored
<1>. QED
  BY <1>1, <1>2, <1>3

(* The event n of k arrives.                                               *)
LEMMA WebhookKeepsSubscription ==
    ASSUME TypeOK, TypeOK', SubscriptionInv, NEW k \in Keys, Webhook(k)
    PROVE  SubscriptionInv'
<1>. USE DEF SubscriptionInv
<1>1. PICK n \in DOMAIN history[k], new \in Subscriptions, row \in Subscriptions :
          Delivers(k, n, new, row)
  BY WebhookDelivers
<1>2. /\ Exists /\ now \in Nat /\ UNCHANGED <<now, history>>
      /\ handled' = handled \cup {<<k, n>>} /\ stored' = row /\ row # None
      /\ user' = Entitled(row, new.created)
  BY <1>1, NoneAssumption DEF Webhook, Delivers, TypeOK, provider
<1>3. /\ new = [sub |-> k, status |-> history[k][n].status, created |-> history[k][n].created]
      /\ new.created \in Nat
      /\ history[k][n] = [status |-> new.status, created |-> new.created]
      /\ new.sub = k /\ new.status \in Statuses
  BY <1>1, EventTyped DEF Delivers, Subscriptions, Events
<1>4. row = IF Supersedes(new) THEN new ELSE stored
  BY <1>1 DEF Delivers
<1>5. stored # None => stored \in Subscriptions /\ stored.created \in Nat
  BY DEF TypeOK, Subscriptions
<1>6. EventsOrdered'
  BY <1>2 DEF EventsOrdered
<1>7. StoredIsHandled'
  <2>1. CASE row = new
    <3>1. <<new.sub, n>> \in handled' /\ n \in DOMAIN history'[new.sub]
      BY <1>2, <1>3
    <3>2. history'[new.sub][n] = [status |-> new.status, created |-> new.created]
      BY <1>2, <1>3
    <3>. QED
      BY <1>2, <2>1, <3>1, <3>2 DEF StoredIsHandled
  <2>2. CASE row = stored
    BY <1>2, <2>2 DEF StoredIsHandled
  <2>. QED
    BY <1>4, <2>1, <2>2
<1>8. StateAgrees'
  <2>1. user \in Users /\ user' \in Users
    BY <1>2, <1>3, EntitledTyped DEF Exists, TypeOK
  <2>2. CASE Deleting
    BY <1>2, <2>2 DEF Entitled, StateAgrees, Deleting, Exists
  <2>3. CASE ~Deleting
    <3>1. user'.state = "active" <=> row.status = "active"
      BY <1>2, <2>1, <2>3 DEF Entitled, Users
    <3>. QED
      BY <1>2, <3>1 DEF StateAgrees
  <2>. QED
    BY <2>2, <2>3
<1>9. LatestIsStored'
  <2>. SUFFICES ASSUME NEW j \in Keys, Subscribed \subseteq {j},
                       NEW m \in DOMAIN history[j], <<j, m>> \in handled'
                PROVE  /\ history[j][m].created <= row.created
                       /\ row.status = "active" /\ history[j][m].created = row.created =>
                              history[j][m].status = "active" \/ Begun(j, row.created)
    BY <1>2 DEF LatestIsStored, Subscribed, Begun
  <2>1. j = k
    BY <1>1, EventTyped DEF Subscribed
  <2>2. history[k][m].created \in Nat
    BY <2>1, EventTyped
  <2>3. CASE stored = None
    <3>1. row = new /\ m = n
      BY <1>2, <1>4, <2>1, <2>3 DEF Supersedes, StoredIsHandled
    <3>. QED
      BY <1>3, <2>1, <2>2, <3>1
  <2>4. CASE stored # None
    <3>1. PICK p \in DOMAIN history[stored.sub] :
            /\ <<stored.sub, p>> \in handled
            /\ history[stored.sub][p] = [status |-> stored.status, created |-> stored.created]
      BY <1>2, <2>4 DEF StoredIsHandled
    <3>2. stored.sub = k
      BY <2>1, <3>1, HandledPair, EventTyped DEF Subscribed
    <3>3. stored.status = "incomplete" => Begun(k, stored.created)
      BY <3>1, <3>2 DEF Begun
    <3>4. <<k, m>> \in handled =>
            /\ history[k][m].created <= stored.created
            /\ stored.status = "active" /\ history[k][m].created = stored.created =>
                   history[k][m].status = "active" \/ Begun(k, stored.created)
      BY <1>2, <2>1 DEF LatestIsStored
    <3>5. <<k, m>> \in handled \/ m = n
      BY <1>2, <2>1
    <3>6. CASE Supersedes(new)
      <4>1. \/ new.created > stored.created
            \/ new.created = stored.created /\ stored.status = "active" /\ new.status # "active"
            \/ /\ new.created = stored.created /\ stored.status = "incomplete"
               /\ new.status = "active"
        BY <1>3, <2>4, <3>2, <3>6 DEF Supersedes
      <4>2. row = new
        BY <1>4, <3>6
      <4>. QED
        BY <1>3, <1>5, <2>1, <2>2, <2>4, <3>3, <3>4, <3>5, <4>1, <4>2
    <3>7. CASE ~Supersedes(new)
      <4>1. /\ ~(new.created > stored.created)
            /\ new.created = stored.created /\ stored.status = "active" => new.status = "active"
        BY <1>3, <2>4, <3>2, <3>7 DEF Supersedes
      <4>2. row = stored
        BY <1>4, <3>7
      <4>. QED
        BY <1>3, <1>5, <2>1, <2>2, <2>4, <3>4, <3>5, <4>1, <4>2
    <3>. QED
      BY <3>6, <3>7
  <2>. QED
    BY <2>3, <2>4
<1>. QED
  BY <1>6, <1>7, <1>8, <1>9

LEMMA EventsStayOrdered == TypeOK /\ EventsOrdered /\ [Next]_vars => EventsOrdered'
<1>. SUFFICES ASSUME TypeOK, EventsOrdered, [Next]_vars  PROVE EventsOrdered'
  OBVIOUS
<1>0. now \in Nat
  BY DEF TypeOK
<1>1. ASSUME history' = history, now' = now \/ now' = now + 1  PROVE EventsOrdered'
  <2>1. \A k \in Keys : \A n \in DOMAIN history[k] : history[k][n].created \in Nat
    BY EventTyped
  <2>. QED
    BY <1>0, <1>1, <2>1 DEF EventsOrdered
<1>2. ASSUME NEW k \in Keys, NEW status \in Statuses, Emit(k, status)  PROVE EventsOrdered'
  <2>. DEFINE last == Len(history[k]) + 1
  <2>1. now' = now
    BY <1>2 DEF Emit
  <2>2. /\ Len(history[k]) \in Nat /\ DOMAIN history[k] = 1 .. Len(history[k])
        /\ DOMAIN history'[k] = 1 .. last
    <3>1. history[k] \in Seq(Events) /\ history'[k] \in Seq(Events)
      BY <1>2, Emitted DEF TypeOK
    <3>2. Len(history'[k]) = last
      BY <1>2, Emitted
    <3>. QED
      BY <3>1, <3>2
  <2>3. history'[k][last].created = now
    <3>1. history'[k][last] = [status |-> status, created |-> now]
      BY <1>2, Emitted
    <3>. QED
      BY <3>1
  <2>4. \A n \in DOMAIN history[k] : history'[k][n] = history[k][n]
    BY <1>2, Emitted
  <2>5. \A n \in DOMAIN history'[k] : n = last \/ n \in DOMAIN history[k]
    BY <2>2
  <2>6. last \notin DOMAIN history[k] /\ \A n \in DOMAIN history[k] : ~(last <= n)
    BY <2>2
  <2>7. ASSUME NEW n \in DOMAIN history'[k], NEW m \in DOMAIN history'[k], m <= n
        PROVE  history'[k][n].created <= now /\ history'[k][m].created <= history'[k][n].created
    <3>1. CASE n = last
      BY <1>0, <2>3, <2>4, <2>5, <3>1 DEF EventsOrdered
    <3>2. CASE n \in DOMAIN history[k]
      BY <2>4, <2>5, <2>6, <2>7, <3>2 DEF EventsOrdered
    <3>. QED
      BY <2>5, <3>1, <3>2
  <2>8. ASSUME NEW j \in Keys, j # k  PROVE history'[j] = history[j]
    BY <1>2, <2>8, Emitted
  <2>9. \A n \in DOMAIN history'[k] : n <= n
    BY <2>2
  <2>. QED
    BY <2>1, <2>7, <2>8, <2>9 DEF EventsOrdered
<1>3. ASSUME NEW k \in Keys, Pay(k) \/ Change(k)  PROVE EventsOrdered'
  BY <1>2, <1>3, StripeEmits
<1>4. ASSUME NEW d \in DOMAIN deleters, Delete(d)  PROVE EventsOrdered'
  BY <1>1, <1>4 DEF Delete, RequestDeletion, Select, Fence, Mark, Decide, Remove, DropUser,
                    Abandon, provider
<1>5. CASE \/ Tick \/ EnsureCustomer \/ PurgeAdmission
           \/ \E k \in Keys : AdmitCheckout(k) \/ Webhook(k)
           \/ \E r \in requests : CreateSession(r) \/ RejectCheckout(r) \/ FailCheckout(r)
           \/ \E o \in Objects : Reserve(o)
           \/ \E u \in urls : Put(u) \/ ReadReservation(u)
           \/ \E u \in readers : Settle(u)
           \/ UNCHANGED vars
  BY <1>1, <1>5 DEF Tick, EnsureCustomer, PurgeAdmission, AdmitCheckout, Webhook, CreateSession,
       RejectCheckout, FailCheckout, Reserve, Put, ReadReservation, Settle, vars, provider
<1>. QED
  BY <1>3, <1>4, <1>5 DEF Next
LEMMA SubscriptionInvHolds ==
    /\ Init => SubscriptionInv
    /\ TypeOK /\ SubscriptionInv /\ [Next]_vars => SubscriptionInv'
<1>1. ASSUME Init  PROVE SubscriptionInv
  <2>1. \A k \in Keys : DOMAIN history[k] = {}
    BY <1>1 DEF Init
  <2>2. handled = {} /\ stored = None /\ user.state # "active"
    BY <1>1 DEF Init, NewUser
  <2>. QED
    BY <2>1, <2>2 DEF SubscriptionInv, EventsOrdered, StoredIsHandled, StateAgrees, LatestIsStored
<1>2. ASSUME TypeOK, SubscriptionInv, [Next]_vars  PROVE SubscriptionInv'
  <2>0. TypeOK' /\ HistoryKept /\ EventsOrdered'
    BY <1>2, NextTyped, HistoryGrows, EventsStayOrdered DEF SubscriptionInv
  <2>1. ASSUME UNCHANGED <<user, stored, handled>>  PROVE SubscriptionInv'
    BY <1>2, <2>0, <2>1, SubscriptionQuiet DEF Exists, Deleting
  <2>2. CASE Tick \/ PurgeAdmission
    BY <2>1, <2>2 DEF Tick, PurgeAdmission, billing
  <2>3. CASE EnsureCustomer
    <3>1. /\ Exists /\ user \in Users /\ user' = [user EXCEPT !.customer = TRUE]
          /\ stored' = stored /\ handled' = handled
      BY <1>2, <2>3 DEF EnsureCustomer, TypeOK, Exists, billing
    <3>2. user'.deletionAt = user.deletionAt /\ user'.state = user.state
      BY <3>1 DEF Users
    <3>. QED
      BY <1>2, <2>0, <3>1, <3>2, SubscriptionQuiet DEF Deleting
  <2>4. ASSUME NEW k \in Keys, AdmitCheckout(k)  PROVE SubscriptionInv'
    BY <2>1, <2>4 DEF AdmitCheckout
  <2>5. ASSUME NEW k \in Keys, Pay(k) \/ Change(k)  PROVE SubscriptionInv'
    BY <1>2, <2>1, <2>5, StripeEmits DEF Emit, billing
  <2>6. ASSUME NEW r \in requests, CreateSession(r) \/ RejectCheckout(r) \/ FailCheckout(r)
        PROVE  SubscriptionInv'
    BY <2>1, <2>6 DEF CreateSession, RejectCheckout, FailCheckout
  <2>7. CASE \/ \E o \in Objects : Reserve(o)
             \/ \E u \in urls : Put(u) \/ ReadReservation(u)
             \/ \E u \in readers : Settle(u)
             \/ UNCHANGED vars
    BY <2>1, <2>7 DEF Reserve, Put, ReadReservation, Settle, vars, billing
  <2>8. ASSUME NEW d \in DOMAIN deleters, Delete(d)  PROVE SubscriptionInv'
    <3>1. CASE DropUser(d)
      BY <1>2, <2>0, <3>1, SubscriptionQuiet DEF DropUser, Exists, Deleting
    <3>2. CASE RequestDeletion(d)
      <4>1. /\ Exists /\ user \in Users /\ now \in Nat /\ stored' = stored /\ handled' = handled
            /\ \E after : user' = [user EXCEPT !.deletionAt = IF @ = None THEN now ELSE @,
                                              !.deleteAfter = after]
        BY <1>2, <3>2 DEF RequestDeletion, MayDelete, Exists, TypeOK, billing
      <4>2. user'.deletionAt = IF user.deletionAt = None THEN now ELSE user.deletionAt
        BY <4>1 DEF Users
      <4>3. Exists' => Deleting'
        BY <4>1, <4>2, NoneAssumption DEF Deleting
      <4>. QED
        BY <1>2, <2>0, <4>1, <4>3, SubscriptionQuiet
    <3>3. CASE Select(d) \/ Fence(d) \/ Mark(d) \/ Decide(d) \/ Remove(d) \/ Abandon(d)
      BY <2>1, <3>3 DEF Select, Fence, Mark, Decide, Remove, Abandon, billing
    <3>. QED
      BY <2>8, <3>1, <3>2, <3>3 DEF Delete
  <2>. QED
    BY <1>2, <2>0, <2>2, <2>3, <2>4, <2>5, <2>6, <2>7, <2>8, WebhookKeepsSubscription DEF Next
<1>. QED
  BY <1>1, <1>2

LEMMA AccessFollows == TypeOK /\ SubscriptionInv => AccessFollowsStripe
<1>. SUFFICES ASSUME TypeOK, SubscriptionInv, NEW k \in Keys, history[k] # <<>>,
                     Exists, ~Deleting, Subscribed = {k}, Outstanding(k) = {}
              PROVE  /\ user.state = "active" => Status(k) = "active" \/ Hurried(k)
                     /\ Ordered(k) /\ Status(k) = "active" => user.state = "active"
  BY DEF AccessFollowsStripe, Subscribed
<1>. USE DEF SubscriptionInv
<1>. DEFINE last == Len(history[k])
<1>1. history[k] \in Seq(Events)
  BY DEF TypeOK
<1>2. last \in DOMAIN history[k] /\ DOMAIN history[k] = 1 .. last /\ last \in Nat
  BY <1>1
<1>3. <<k, last>> \in handled
  BY <1>2 DEF Outstanding
<1>4. stored # None
  BY <1>3 DEF StoredIsHandled
<1>5. PICK p \in DOMAIN history[stored.sub] :
         /\ <<stored.sub, p>> \in handled
         /\ history[stored.sub][p] = [status |-> stored.status, created |-> stored.created]
  BY <1>4 DEF StoredIsHandled
<1>6. stored.sub = k
  BY <1>5, HandledPair, EventTyped DEF Subscribed
<1>7. p \in 1 .. last /\ history[k][p].created = stored.created /\ stored.created \in Nat
      /\ history[k][p].status = stored.status
  BY <1>2, <1>5, <1>6, EventTyped
<1>8. /\ history[k][last].created \in Nat
      /\ stored.created <= history[k][last].created
      /\ history[k][last].created <= stored.created
  <2>1. history[k][p].created <= history[k][last].created
    BY <1>2, <1>7 DEF EventsOrdered
  <2>2. history[k][last].created <= stored.created
    BY <1>2, <1>3 DEF LatestIsStored
  <2>. QED
    BY <1>2, <1>7, <2>1, <2>2, EventTyped
<1>9. history[k][last].created = stored.created
  BY <1>7, <1>8
<1>10. ASSUME user.state = "active"  PROVE Status(k) = "active" \/ Hurried(k)
  <2>1. stored.status = "active"
    BY <1>10 DEF StateAgrees
  <2>2. history[k][last].status = "active" \/ Begun(k, stored.created)
    BY <1>2, <1>3, <1>9, <2>1 DEF LatestIsStored
  <2>. QED
    BY <1>9, <2>2 DEF Status, Begun, Hurried
<1>11. ASSUME Ordered(k), Status(k) = "active"  PROVE user.state = "active"
  <2>1. p = last
    <3>1. ASSUME p # last  PROVE FALSE
      <4>1. p \in 1 .. last - 1
        BY <1>2, <1>7, <3>1
      <4>2. history[k][p].created < history[k][last].created
        BY <1>11, <4>1 DEF Ordered
      <4>. QED
        BY <1>7, <1>9, <4>2
    <3>. QED
      BY <3>1
  <2>2. stored.status = "active"
    BY <1>7, <1>11, <2>1 DEF Status
  <2>. QED
    BY <1>4, <2>2 DEF StateAgrees
<1>. QED
  BY <1>10, <1>11

LEMMA SubscriptionAlways == Spec => [](TypeOK /\ SubscriptionInv)
BY InitTyped, NextTyped, SubscriptionInvHolds, PTL DEF Spec

(* Whatever order the events arrive in, access follows Stripe.             *)
THEOREM StripeDecidesAccess == Spec => []AccessFollowsStripe
<1>. QED
  BY SubscriptionAlways, AccessFollows, PTL

(* The cron job begins no deletion of what is paid for.                    *)
THEOREM PaidAccountsAreKept == Spec => PaidIsKept
<1>1. ASSUME TypeOK, SubscriptionInv, Next, Exists, ~Deleting, Deleting',
             "cron" \in limit.deleters, deleters'["cron"] # deleters["cron"],
             NEW k \in Subscribed, Subscribed = {k}, Ordered(k), Status(k) = "active"
      PROVE  Outstanding(k) # {}
  <2>1. ASSUME NEW d \in DOMAIN deleters, Delete(d)  PROVE Outstanding(k) # {}
    <3>1. d = "cron"
      BY <1>1, <2>1 DEF TypeOK, Delete, RequestDeletion, Select, Fence, Mark, Decide, Remove,
                        DropUser, Abandon
    <3>2. user' # user
      BY <1>1 DEF Deleting, Exists
    <3>3. CASE RequestDeletion(d)
      <4>1. user.state = "grace"
        BY <3>1, <3>3 DEF RequestDeletion, MayDelete
      <4>. QED
        BY <1>1, <4>1, AccessFollows DEF AccessFollowsStripe
    <3>4. CASE DropUser(d)
      BY <1>1, <3>4 DEF DropUser, Deleting, Exists
    <3>. QED
      BY <2>1, <3>2, <3>3, <3>4 DEF Delete, Select, Fence, Mark, Decide, Remove, Abandon
  <2>2. ASSUME deleters' = deleters  PROVE FALSE
    BY <1>1, <2>2
  <2>3. CASE \/ Tick \/ EnsureCustomer \/ PurgeAdmission
             \/ \E j \in Keys : AdmitCheckout(j) \/ Pay(j) \/ Change(j) \/ Webhook(j)
             \/ \E r \in requests : CreateSession(r) \/ RejectCheckout(r) \/ FailCheckout(r)
             \/ \E o \in Objects : Reserve(o)
             \/ \E u \in urls : Put(u) \/ ReadReservation(u)
             \/ \E u \in readers : Settle(u)
    BY <2>2, <2>3 DEF Tick, EnsureCustomer, PurgeAdmission, AdmitCheckout, Pay, Change, Emit,
         Webhook, CreateSession, RejectCheckout, FailCheckout, Reserve, Put, ReadReservation,
         Settle
  <2>. QED
    BY <1>1, <2>1, <2>3 DEF Next
<1>2. TypeOK /\ SubscriptionInv /\ [Next]_vars =>
        [Exists /\ ~Deleting /\ Deleting' /\ "cron" \in limit.deleters
         /\ deleters'["cron"] # deleters["cron"] =>
            \A k \in Subscribed : Subscribed = {k} /\ Ordered(k) /\ Status(k) = "active" =>
                Outstanding(k) # {}]_vars
  BY <1>1
<1>. QED
  BY <1>2, SubscriptionAlways, PTL DEF Spec, PaidIsKept
=============================================================================
