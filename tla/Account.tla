------------------------------- MODULE Account -------------------------------
(***************************************************************************)
(* The life of one Packbat Cloud account: checkout, the subscription that  *)
(* Stripe reports, the grace period and the deletion of its data           *)
(* (apps/cloud/src/billing/, storage/broker.ts:813-913).                   *)
(*                                                                         *)
(* Every batch of D1 is one step, and so is every call of Stripe or R2.    *)
(* Stripe emits an event at each change of a subscription and delivers the *)
(* events in any order; a second delivery changes nothing, because the     *)
(* statements of the batch all ask for processed_at IS NULL.               *)
(***************************************************************************)
EXTENDS Integers, Sequences, FiniteSets

CONSTANTS
    Keys,              \* idempotency keys of checkouts, and their subscriptions
    Objects,           \* keys of archive objects
    None,
    CheckoutLifetime,  \* CHECKOUT_LIFETIME_SECONDS
    Grace,             \* GRACE_SECONDS
    UrlLifetime,       \* RESERVATION_LIFETIME_SECONDS
    FenceBatch,        \* DELETION_FENCE_BATCH_SIZE
    MaxDelay,          \* how late Stripe delivers an event at most
    PerSecond,         \* bound on the events of a subscription in one second
    Limits             \* other bounds, those of one instance in each element:
                       \* the clock, events of all subscriptions, checkout
                       \* requests in flight, upload reservations, who asks
                       \* for deletion

ASSUME BoundsAssumption ==
    /\ PerSecond \in Nat
    /\ {CheckoutLifetime, Grace, UrlLifetime, FenceBatch, MaxDelay} \subseteq Nat \ {0}
    /\ Limits \subseteq [time : Nat, events : Nat, requests : Nat, urls : Nat,
                         deleters : SUBSET {"user", "retry", "cron"}]

(* What the variables hold.                                                *)
Statuses == {"incomplete", "incomplete_expired", "active", "past_due", "canceled"}
Contents == {"none", "fence", "first", "second"}
Times == Nat \cup {None}
Users == [state : {"inactive", "active", "grace"}, customer : BOOLEAN, activated : BOOLEAN,
          graceEnds : Times, deletionAt : Times, deleteAfter : Times]
Subscriptions == [sub : Keys, status : Statuses, created : Nat]
Admissions == [key : Keys, expires : Nat]
Requests == [key : Keys, acquired : BOOLEAN, expires : Nat]
Events == [status : Statuses, created : Nat]
Reservations == [object : Objects, expires : Nat, replaces : Contents,
                 state : {"pending", "completed", "expired"}, fenced : BOOLEAN]
Deletions == [pc : {"idle", "select", "fence", "mark", "decide", "remove", "drop"},
              at : Nat, after : Nat, targets : SUBSET Objects, left : SUBSET Objects]

ASSUME NoneAssumption == None \notin Nat \cup Users \cup Subscriptions \cup Admissions

VARIABLES
    limit,      \* the bounds of this behaviour
    now,
    user,       \* the row of users, with that of billing_customers
    stored,     \* the row of billing_subscriptions
    admission,  \* the row of billing_checkout_admissions
    handled,    \* stripe_webhook_events
    sessions,   \* Stripe: when each Checkout Session expires
    history,    \* Stripe: the events of each subscription
    refused,    \* Stripe: the keys of which it refused the request that had
                \* the admission, with another one of the key under way
    requests,   \* createCheckout in flight
    urls,       \* upload_reservations, and the presigned URLs they stand for
    readers,    \* those a finalize or the cron job has read and not settled
    bucket,     \* the objects under the account's prefix
    deleters    \* deleteAccountData: two calls of the user's, and the cron job's

provider == <<sessions, history, refused>>
billing == <<stored, admission, handled, requests>>
storage == <<urls, readers, bucket>>
vars == <<limit, now, user, billing, provider, storage, deleters>>

(* What Stripe lets follow a status; past_due also stands for unpaid and   *)
(* paused, and trialing never occurs (no checkout asks for a trial).       *)
Follows ==
    [incomplete |-> {"active", "incomplete_expired"},
     incomplete_expired |-> {},
     active |-> {"past_due", "canceled"},
     past_due |-> {"active", "canceled"},
     canceled |-> {}]

NewUser ==
    [state |-> "inactive", customer |-> FALSE, activated |-> FALSE,
     graceEnds |-> None, deletionAt |-> None, deleteAfter |-> None]

NoDeletion == [pc |-> "idle", at |-> 0, after |-> 0, targets |-> {}, left |-> {}]

Init ==
    /\ limit \in Limits
    /\ now = 0
    /\ user = NewUser
    /\ stored = None
    /\ admission = None
    /\ handled = {}
    /\ sessions = [k \in Keys |-> None]
    /\ history = [k \in Keys |-> <<>>]
    /\ refused = {}
    /\ requests = {}
    /\ urls = {}
    /\ readers = {}
    /\ bucket = [o \in Objects |-> "none"]
    /\ deleters = [d \in limit.deleters |-> NoDeletion]

Status(k) == history[k][Len(history[k])].status
Exists == user # None
Deleting == Exists /\ user.deletionAt # None
Open(k) == sessions[k] # None /\ now < sessions[k] /\ history[k] = <<>>

Outstanding(k) == {n \in DOMAIN history[k] : <<k, n>> \notin handled}

Tick ==
    /\ now < limit.time
    /\ Exists => \A k \in Keys : \A n \in Outstanding(k) : now < history[k][n].created + MaxDelay
    /\ now' = now + 1
    /\ UNCHANGED <<limit, user, billing, provider, storage, deleters>>

-----------------------------------------------------------------------------
(***************************************************************************)
(* Checkout.                                                               *)
(***************************************************************************)
Live(row) == row # None /\ row.status \in {"incomplete", "active"}

(* Mutant: a checkout is admitted over one that is still open.             *)
MayAdmitAlways == Exists /\ ~Deleting /\ user.state # "active" /\ ~Live(stored)

MayAdmit ==
    /\ Exists /\ ~Deleting
    /\ user.state # "active"
    /\ ~Live(stored)
    /\ admission # None => admission.expires <= now

(* admitCheckout, by an INSERT or by an exact retry.                       *)
AdmitCheckout(k) ==
    /\ Cardinality(requests) < limit.requests
    /\ \/ /\ MayAdmit
          /\ admission' = [key |-> k, expires |-> now + CheckoutLifetime]
          /\ requests' = requests \cup
                 {[key |-> k, acquired |-> TRUE, expires |-> now + CheckoutLifetime]}
       \/ /\ ~MayAdmit
          /\ Exists /\ ~Deleting /\ user.state # "active"
          /\ admission # None
          /\ admission.key = k /\ admission.expires > now
          /\ requests' = requests \cup
                 {[key |-> k, acquired |-> FALSE, expires |-> admission.expires]}
          /\ UNCHANGED admission
    /\ UNCHANGED <<limit, now, user, stored, handled, provider, storage, deleters>>

(* ensureBillingCustomer, which a deletion stops if it comes first.        *)
EnsureCustomer ==
    /\ requests # {}
    /\ Exists /\ ~Deleting /\ ~user.customer
    /\ user' = [user EXCEPT !.customer = TRUE]
    /\ UNCHANGED <<limit, now, billing, provider, storage, deleters>>

(* Stripe opens the session, once for an idempotency key, and the answer   *)
(* may be lost on the way.                                                 *)
CreateSession(r) ==
    /\ Exists /\ user.customer
    /\ sessions' = [sessions EXCEPT ![r.key] = IF @ = None THEN r.expires ELSE @]
    /\ requests' = requests \ {r}
    /\ UNCHANGED <<limit, now, user, stored, admission, handled, history, refused, storage, deleters>>

(* releaseCheckoutAdmission.                                               *)
Released(k) == IF admission # None /\ admission.key = k THEN None ELSE admission

(* A 400 invalid_request_error: Stripe has opened no session.              *)
RejectCheckout(r) ==
    /\ Exists
    /\ sessions[r.key] = None
    /\ IF r.acquired
       THEN /\ admission' = Released(r.key)
            /\ refused' = refused \cup {q.key : q \in {p \in requests \ {r} : p.key = r.key}}
       ELSE UNCHANGED <<admission, refused>>
    /\ requests' = requests \ {r}
    /\ UNCHANGED <<limit, now, user, stored, handled, sessions, history, storage, deleters>>

(* Any other error keeps the admission.                                    *)
FailCheckout(r) ==
    /\ requests' = requests \ {r}
    /\ UNCHANGED <<limit, now, user, stored, admission, handled, provider, storage, deleters>>

-----------------------------------------------------------------------------
(***************************************************************************)
(* Stripe.                                                                 *)
(***************************************************************************)
Emit(k, status) ==
    /\ Cardinality(UNION {{k2} \X DOMAIN history[k2] : k2 \in Keys}) < limit.events
    /\ Cardinality({n \in DOMAIN history[k] : history[k][n].created = now}) < PerSecond
    /\ history' = [history EXCEPT ![k] = Append(@, [status |-> status, created |-> now])]
    /\ UNCHANGED <<limit, now, user, billing, sessions, refused, storage, deleters>>

Pay(k) == Open(k) /\ \E status \in {"incomplete", "active"} : Emit(k, status)

Change(k) == history[k] # <<>> /\ \E status \in Follows[Status(k)] : Emit(k, status)

(* Mutant: the last to arrive wins.                                        *)
SupersedesAlways(new) == TRUE

(* The WHERE of the upsert of billing_subscriptions.                       *)
Supersedes(new) ==
    \/ stored = None
    \/ /\ stored # None
       /\ new.sub = stored.sub
       /\ \/ new.created > stored.created
          \/ /\ new.created = stored.created
             /\ \/ stored.status = "active" /\ new.status # "active"
                \/ stored.status = "incomplete" /\ new.status = "active"
    \/ /\ stored # None
       /\ new.sub # stored.sub
       /\ new.created > stored.created
       /\ ~Live(stored)
       /\ Live(new)

(* The UPDATE of users: what the row of billing_subscriptions entitles to. *)
Entitled(row, created) ==
    IF Deleting THEN user
    ELSE IF row.status = "active"
    THEN [user EXCEPT !.state = "active", !.activated = TRUE, !.graceEnds = None]
    ELSE IF ~user.activated
    THEN [user EXCEPT !.state = "inactive", !.graceEnds = None]
    ELSE [user EXCEPT !.state = "grace",
                      !.graceEnds = IF user.state = "grace" THEN @ ELSE created + Grace]

(* The events after which a checkout is over.                              *)
Releasing == {"active", "incomplete_expired", "canceled"}

(* applySubscriptionEvent, one batch.  Without the user's row the event    *)
(* is rejected as a mismatch, and answered 200 all the same.               *)
Webhook(k) ==
    /\ Exists /\ user.customer
    /\ \E n \in DOMAIN history[k] :
         LET new == [sub |-> k, status |-> history[k][n].status, created |-> history[k][n].created]
             row == IF Supersedes(new) THEN new ELSE stored
         IN /\ <<k, n>> \notin handled
            /\ handled' = handled \cup {<<k, n>>}
            /\ stored' = row
            /\ user' = Entitled(row, new.created)
            /\ admission' = IF /\ new.status \in Releasing
                               /\ row.sub = k /\ row.status = new.status
                            THEN None ELSE admission
    /\ UNCHANGED <<limit, now, requests, provider, storage, deleters>>

(* reconcileBillingLifecycle drops what has expired.                       *)
PurgeAdmission ==
    /\ admission # None
    /\ admission.expires <= now
    /\ admission' = None
    /\ UNCHANGED <<limit, now, user, stored, handled, requests, provider, storage, deleters>>

-----------------------------------------------------------------------------
(***************************************************************************)
(* Uploads, as far as a deletion meets them (StorageBroker has the rest).  *)
(***************************************************************************)
Pending(o) == {u \in urls : u.object = o /\ u.state = "pending"}

Reserve(o) ==
    /\ Cardinality(urls) < limit.urls
    /\ Exists /\ ~Deleting /\ user.state = "active"
    /\ Pending(o) = {}
    /\ urls' = urls \cup {[object |-> o, expires |-> now + UrlLifetime, replaces |-> bucket[o],
                           state |-> "pending", fenced |-> FALSE]}
    /\ UNCHANGED <<limit, now, user, billing, provider, readers, bucket, deleters>>

(* R2 accepts a PUT before the URL expires if the object is the replaced   *)
(* one (If-Match), or if there is none (If-None-Match).                    *)
Put(u) ==
    /\ now <= u.expires
    /\ bucket[u.object] = u.replaces
    /\ bucket' = [bucket EXCEPT ![u.object] = IF @ = "first" THEN "second" ELSE "first"]
    /\ UNCHANGED <<limit, now, user, billing, provider, urls, readers, deleters>>

ReadReservation(u) ==
    /\ Exists /\ ~Deleting
    /\ u.state = "pending"
    /\ readers' = readers \cup {u}
    /\ UNCHANGED <<limit, now, user, billing, provider, urls, bucket, deleters>>

(* finalizeUpload and reconcileReservation: the object is completed, or    *)
(* removed when it is neither the reserved nor the replaced one; the row   *)
(* is completed, or released when it has expired.                          *)
Settle(u) ==
    /\ readers' = readers \ {u}
    /\ LET object == bucket[u.object]
           good == object \notin {"none", "fence", u.replaces}
           state == IF good THEN "completed" ELSE IF u.expires <= now THEN "expired" ELSE "pending"
       IN /\ bucket' = IF good \/ object = u.replaces THEN bucket
                       ELSE [bucket EXCEPT ![u.object] = "none"]
          /\ urls' = {IF v.object = u.object /\ v.state = "pending" THEN [v EXCEPT !.state = state]
                      ELSE v : v \in urls}
    /\ UNCHANGED <<limit, now, user, billing, provider, deleters>>

-----------------------------------------------------------------------------
(***************************************************************************)
(* deleteAccountDataWithGuard.                                             *)
(***************************************************************************)
MayDelete(d) ==
    /\ Exists
    /\ d = "cron" =>
         /\ user.state = "grace" /\ user.graceEnds <= now
         /\ admission # None => admission.expires <= now

(* Mutant: does not wait for the URLs to expire.                           *)
LastUrlNow == now

LastUrl ==
    LET ends == {now} \cup {u.expires + 1 : u \in urls}
    IN CHOOSE t \in ends : \A s \in ends : s <= t

RequestDeletion(d) ==
    /\ deleters[d].pc = "idle"
    /\ MayDelete(d)
    /\ LET after == IF user.deleteAfter = None THEN LastUrl ELSE user.deleteAfter IN
       /\ user' = [user EXCEPT !.deletionAt = IF @ = None THEN now ELSE @,
                               !.deleteAfter = after]
       /\ deleters' = [deleters EXCEPT ![d] = [NoDeletion EXCEPT !.pc = "select", !.at = now,
                                                                 !.after = after]]
    /\ UNCHANGED <<limit, now, billing, provider, storage>>

Unfenced == {u.object : u \in {v \in urls : ~v.fenced /\ v.expires >= user.deletionAt}}

Select(d) ==
    /\ deleters[d].pc = "select"
    /\ IF ~Exists \/ Unfenced = {}
       THEN deleters' = [deleters EXCEPT ![d].pc = "decide"]
       ELSE \E batch \in SUBSET Unfenced :
              /\ batch # {}
              /\ Cardinality(batch) <= FenceBatch
              /\ batch = Unfenced \/ Cardinality(batch) = FenceBatch
              /\ deleters' = [deleters EXCEPT ![d].pc = "fence", ![d].targets = batch,
                                                   ![d].left = batch]
    /\ UNCHANGED <<limit, now, user, billing, provider, storage>>

(* Each object is overwritten by an empty one, which no URL replaces.      *)
Fence(d) ==
    /\ deleters[d].pc = "fence"
    /\ \E o \in deleters[d].left :
         /\ bucket' = [bucket EXCEPT ![o] = "fence"]
         /\ deleters' = [deleters EXCEPT ![d].pc = IF deleters[d].left = {o} THEN "mark" ELSE "fence",
                                         ![d].left = @ \ {o}]
    /\ UNCHANGED <<limit, now, user, billing, provider, urls, readers>>

Mark(d) ==
    /\ deleters[d].pc = "mark"
    /\ urls' = {IF /\ v.object \in deleters[d].targets /\ Exists /\ v.expires >= user.deletionAt
                THEN [v EXCEPT !.fenced = TRUE] ELSE v : v \in urls}
    /\ deleters' = IF Cardinality(deleters[d].targets) = FenceBatch
                   THEN [deleters EXCEPT ![d] = NoDeletion]
                   ELSE [deleters EXCEPT ![d].pc = "decide", ![d].targets = {}]
    /\ UNCHANGED <<limit, now, user, billing, provider, readers, bucket>>

(* retryAt, or the listing of the prefix.                                  *)
Decide(d) ==
    /\ deleters[d].pc = "decide"
    /\ deleters' = IF deleters[d].at < deleters[d].after
                   THEN [deleters EXCEPT ![d] = NoDeletion]
                   ELSE [deleters EXCEPT ![d].pc = "remove",
                                         ![d].targets = {o \in Objects : bucket[o] # "none"}]
    /\ UNCHANGED <<limit, now, user, billing, provider, storage>>

Remove(d) ==
    /\ deleters[d].pc = "remove"
    /\ bucket' = [o \in Objects |-> IF o \in deleters[d].targets THEN "none" ELSE bucket[o]]
    /\ deleters' = [deleters EXCEPT ![d].pc = "drop", ![d].targets = {}]
    /\ UNCHANGED <<limit, now, user, billing, provider, urls, readers>>

(* DELETE FROM users, and by cascade every row that refers to it.          *)
DropUser(d) ==
    /\ deleters[d].pc = "drop"
    /\ user' = None
    /\ stored' = None
    /\ admission' = None
    /\ handled' = {}
    /\ deleters' = [deleters EXCEPT ![d] = NoDeletion]
    /\ UNCHANGED <<limit, now, requests, provider, storage>>

(* A call of D1 or R2 fails, or the Worker stops.                          *)
Abandon(d) ==
    /\ deleters[d].pc # "idle"
    /\ deleters' = [deleters EXCEPT ![d] = NoDeletion]
    /\ UNCHANGED <<limit, now, user, billing, provider, storage>>

Delete(d) ==
    \/ RequestDeletion(d) \/ Select(d) \/ Fence(d) \/ Mark(d) \/ Decide(d)
    \/ Remove(d) \/ DropUser(d) \/ Abandon(d)

Next ==
    \/ Tick \/ EnsureCustomer \/ PurgeAdmission
    \/ \E k \in Keys : AdmitCheckout(k) \/ Pay(k) \/ Change(k) \/ Webhook(k)
    \/ \E r \in requests : CreateSession(r) \/ RejectCheckout(r) \/ FailCheckout(r)
    \/ \E o \in Objects : Reserve(o)
    \/ \E u \in urls : Put(u) \/ ReadReservation(u)
    \/ \E u \in readers : Settle(u)
    \/ \E d \in DOMAIN deleters : Delete(d)

Spec == Init /\ [][Next]_vars

-----------------------------------------------------------------------------
(***************************************************************************)
(* Properties.                                                             *)
(***************************************************************************)
TypeOK ==
    /\ limit \in Limits /\ now \in Nat
    /\ user \in Users \cup {None}
    /\ stored \in Subscriptions \cup {None} /\ admission \in Admissions \cup {None}
    /\ requests \subseteq Requests /\ refused \subseteq Keys
    /\ sessions \in [Keys -> Times] /\ history \in [Keys -> Seq(Events)]
    /\ \A h \in handled : \E k \in Keys : \E n \in DOMAIN history[k] : h = <<k, n>>
    /\ urls \subseteq Reservations /\ IsFiniteSet(urls) /\ readers \subseteq Reservations
    /\ bucket \in [Objects -> Contents]
    /\ deleters \in [limit.deleters -> Deletions]

Subscribed == {k \in Keys : history[k] # <<>>}

(* No two events of the subscription bear the second of its last one.      *)
Ordered(k) ==
    \A n \in 1 .. Len(history[k]) - 1 : history[k][n].created < history[k][Len(history[k])].created

(* The subscription began within the second of its last event.             *)
Hurried(k) ==
    \E n \in DOMAIN history[k] :
        history[k][n] = [status |-> "incomplete", created |-> history[k][Len(history[k])].created]

(* webhook.ts:94-167: in whatever order the events of an only subscription *)
(* arrive, once all have arrived the account has access only if Stripe     *)
(* calls the subscription active, and has it if that event is the latest   *)
(* by its time.  Within one second the code fails closed, except that an   *)
(* active event replaces an incomplete one (webhook.ts:118-121) which may  *)
(* itself have kept a later past_due out.                                  *)
AccessFollowsStripe ==
    \A k \in Subscribed :
        Exists /\ ~Deleting /\ Subscribed = {k} /\ Outstanding(k) = {} =>
            /\ user.state = "active" => Status(k) = "active" \/ Hurried(k)
            /\ Ordered(k) /\ Status(k) = "active" => user.state = "active"

(* hosted.ts:78-138: a Checkout Session a customer can still pay is the one*)
(* the account's admission stands for, so that no second one is opened     *)
(* beside it; except after an event of another subscription, which takes   *)
(* the admission away whoever's it is (webhook.ts:184), and after Stripe   *)
(* refused one of two requests of the key (hosted.ts:181).                 *)
CheckoutIsAdmitted ==
    Exists => \A k \in Keys : Open(k) =>
        \/ admission # None /\ admission.key = k
        \/ k \in refused
        \/ \E h \in handled : h[1] # k /\ history[h[1]][h[2]].status \in Releasing

(* broker.ts:813-897: when the account's row is gone no data of it is left,*)
(* and none comes back: every URL that could still write has expired,      *)
(* whatever was admitted before the deletion began and however many        *)
(* deletions ran side by side.  An empty object may be left: a deletion    *)
(* that another has overtaken still writes its fences (broker.ts:862-868). *)
NothingSurvives == ~Exists => \A o \in Objects : bucket[o] \in {"none", "fence"}

(* lifecycle.ts:9-34: the cron job begins no deletion of an account whose  *)
(* only subscription Stripe calls active, unless an event is on its way.   *)
PaidIsKept ==
    [][Exists /\ ~Deleting /\ Deleting' /\ "cron" \in limit.deleters
       /\ deleters'["cron"] # deleters["cron"] =>
          \A k \in Subscribed : Subscribed = {k} /\ Ordered(k) /\ Status(k) = "active" =>
              Outstanding(k) # {}]_vars
=============================================================================
