------------------------------ MODULE CloudLink ------------------------------
(***************************************************************************)
(* How a machine gets, keeps and gives up its access to Packbat Cloud: the *)
(* device flow, the credential and its rotation, linking and unlinking     *)
(* (apps/cli/src/cloud/, apps/cloud/src/auth/, db/accounts.ts).            *)
(*                                                                         *)
(* Several packbat commands share one credential file.  A step is what one *)
(* of them does between two awaits, or what the server does for a request; *)
(* Lost names the faults: the request is served and its answer lost.       *)
(***************************************************************************)
EXTENDS Integers, FiniteSets

CONSTANTS
    Procs,            \* the packbat commands
    None,
    AccessLifetime,   \* ACCESS_TOKEN_LIFETIME_SECONDS
    RefreshLifetime,  \* REFRESH_TOKEN_LIFETIME_SECONDS
    Margin,           \* a token this close to its end is refreshed (30 s)
    LockAttempts,     \* attempts at the credential lock (100)
    DeviceLifetime,   \* expires_in of a device code
    FirstInterval,    \* interval of a device code
    SlowDown,         \* what slow_down adds to the interval (5 s)
    MaxBackoff,       \* MAX_NETWORK_BACKOFF_SECONDS
    CheckoutTimeout,  \* CHECKOUT_TIMEOUT_MS
    Limits            \* bounds, those of one instance in each element: commands
                      \* and GitHub answers that occur, clock, starts, faults,
                      \* what is paid and whether the machine is linked at first

ASSUME BoundsAssumption ==
    /\ {AccessLifetime, RefreshLifetime, LockAttempts, DeviceLifetime,
        FirstInterval, SlowDown, MaxBackoff, CheckoutTimeout} \subseteq Nat \ {0}
    /\ Margin \in Nat
    /\ Limits \subseteq
           [ops : SUBSET {"sync", "link", "recover", "unlink"},
            outcomes : SUBSET {"token", "pending", "slow", "network", "denied"},
            time : Nat, starts : Nat, faults : Nat,
            paid : SUBSET BOOLEAN, linked : BOOLEAN]

VARIABLES
    limit,     \* the bounds of this behaviour
    now,
    rows,      \* cli_credentials, numbered as they are issued
    machines,  \* how many machine_remotes there are, numbered likewise
    paid,      \* the subscription is active
    file,      \* the credential file, or None
    lock,      \* cloud-credential.lock exists
    config,    \* the machine id of the cloud remote in config.json, or None
    proc,      \* the commands
    starts,
    faults,
    lost       \* credentials rotated for a command that never stored the answer

server == <<rows, machines, paid>>
local == <<file, lock, config>>
bounds == <<limit, now, starts>>
vars == <<bounds, server, local, proc, faults, lost>>

Least(a, b) == IF a < b THEN a ELSE b

Idle == [pc |-> "idle", op |-> "sync", stage |-> "sync", first |-> FALSE, token |-> None,
         config |-> None, attempts |-> 0, interval |-> 0, demanded |-> 0, wake |-> 0, deadline |-> 0]

(* What the server stores of a credential, and what a command gets of it.  *)
NewRow == [gen |-> 1, expires |-> now + RefreshLifetime, revoked |-> FALSE]

Token(c, gen) ==
    [cred |-> c, gen |-> gen, access |-> now + AccessLifetime, refresh |-> now + RefreshLifetime]

Init ==
    /\ limit \in Limits
    /\ now = 0
    /\ rows = IF limit.linked THEN <<NewRow>> ELSE <<>>
    /\ machines = 1
    /\ paid \in limit.paid
    /\ file = IF limit.linked THEN Token(1, 1) ELSE None
    /\ lock = FALSE
    /\ config = IF limit.linked THEN 1 ELSE None
    /\ proc = [p \in Procs |-> Idle]
    /\ starts = 0
    /\ faults = 0
    /\ lost = {}

Tick ==
    /\ now < limit.time
    /\ now' = now + 1
    /\ UNCHANGED <<limit, starts, server, local, proc, faults, lost>>

(* A wait is over at the bound of the clock, too.                         *)
Passed(time) == now >= time \/ now = limit.time

Pay ==
    /\ ~paid
    /\ paid' = TRUE
    /\ UNCHANGED <<bounds, rows, machines, local, proc, faults, lost>>

-----------------------------------------------------------------------------
(***************************************************************************)
(* Steps of a command.                                                     *)
(***************************************************************************)
Ends(p) == proc' = [proc EXCEPT ![p] = Idle]

Goes(p, pc) == proc' = [proc EXCEPT ![p].pc = pc]

(* The stages of a command each ask for an access token and use it.        *)
Asks(p, stage) ==
    proc' = [proc EXCEPT ![p] = [@ EXCEPT !.pc = "read", !.stage = stage, !.first = FALSE,
                                          !.token = None]]

(* A CloudCredentialError, or a 401: ensureCloudAccount links anew,        *)
(* unlinkCloudRemote goes on, anything else fails.                         *)
Unauthorized(p) ==
    IF proc[p].first THEN Goes(p, "forget")
    ELSE IF proc[p].op = "unlink" THEN Goes(p, "remove")
    ELSE Ends(p)

Start(p, op) ==
    /\ proc[p].pc = "idle"
    /\ starts < limit.starts
    /\ op = "sync" => config # None
    /\ starts' = starts + 1
    /\ proc' = [proc EXCEPT ![p] =
           [Idle EXCEPT !.pc = "read", !.op = op, !.config = config,
                        !.first = op \in {"link", "recover"},
                        !.stage = CASE op = "sync" -> "sync"
                                    [] op = "unlink" -> "revoke"
                                    [] OTHER -> "status"]]
    /\ UNCHANGED <<limit, now, server, local, faults, lost>>

Fresh(token) == token.access > now + Margin

(* cloudAccessToken.                                                       *)
Read(p) ==
    /\ proc[p].pc = "read"
    /\ IF file = None THEN Unauthorized(p)
       ELSE IF Fresh(file)
       THEN proc' = [proc EXCEPT ![p].pc = "request", ![p].token = file]
       ELSE proc' = [proc EXCEPT ![p].pc = "lock", ![p].attempts = 0]
    /\ UNCHANGED <<bounds, server, local, faults, lost>>

(* Mutants: no lock; a lock waited for without end.                        *)
LockNothing(p) ==
    /\ proc[p].pc = "lock"
    /\ lock' = TRUE
    /\ Goes(p, "reread")
    /\ UNCHANGED <<bounds, server, file, config, faults, lost>>

LockForever(p) == ~lock /\ LockNothing(p)

(* withCredentialLock: mkdir, until it succeeds or for LockAttempts times. *)
Lock(p) ==
    /\ proc[p].pc = "lock"
    /\ IF ~lock
       THEN lock' = TRUE /\ Goes(p, "reread")
       ELSE /\ UNCHANGED lock
            /\ IF proc[p].attempts + 1 = LockAttempts THEN Ends(p)
               ELSE proc' = [proc EXCEPT ![p].attempts = @ + 1]
    /\ UNCHANGED <<bounds, server, file, config, faults, lost>>

Reread(p) ==
    /\ proc[p].pc = "reread"
    /\ IF file = None THEN lock' = FALSE /\ Unauthorized(p)
       ELSE IF Fresh(file)
       THEN /\ lock' = FALSE
            /\ proc' = [proc EXCEPT ![p].pc = "request", ![p].token = file]
       ELSE IF file.refresh <= now THEN lock' = FALSE /\ Unauthorized(p)
       ELSE UNCHANGED lock /\ proc' = [proc EXCEPT ![p].pc = "refresh", ![p].token = file]
    /\ UNCHANGED <<bounds, server, file, config, faults, lost>>

-----------------------------------------------------------------------------
(***************************************************************************)
(* Rotation.                                                               *)
(***************************************************************************)
(* credentialIsActive, and the WHERE of rotateCredential without a digest. *)
Active(c) == rows[c].expires > now /\ ~rows[c].revoked

Rotates(token) == Active(token.cred) /\ rows[token.cred].gen = token.gen

Rotated(token) ==
    LET row == rows[token.cred] IN
    [rows EXCEPT ![token.cred] = [row EXCEPT !.gen = row.gen + 1, !.expires = now + RefreshLifetime]]

Refresh(p) ==
    LET token == proc[p].token IN
    /\ proc[p].pc = "refresh"
    /\ \/ /\ Rotates(token)
          /\ rows' = Rotated(token)
          /\ proc' = [proc EXCEPT ![p].pc = "save", ![p].token = Token(token.cred, token.gen + 1)]
          /\ UNCHANGED lock
       \/ /\ ~Rotates(token)
          /\ lock' = FALSE
          /\ Unauthorized(p)
          /\ UNCHANGED rows
    /\ UNCHANGED <<bounds, machines, paid, file, config, faults, lost>>

Save(p) ==
    /\ proc[p].pc = "save"
    /\ file' = proc[p].token
    /\ lock' = FALSE
    /\ Goes(p, "request")
    /\ UNCHANGED <<bounds, server, config, faults, lost>>

-----------------------------------------------------------------------------
(***************************************************************************)
(* Authenticated requests.                                                 *)
(***************************************************************************)
Accepted(token) == token.access > now /\ Active(token.cred)

(* linkCloudRemote and addCloudRemote once the subscription is active.     *)
UploadReady(p) == IF proc[p].config = None THEN Asks(p, "machine") ELSE Ends(p)

(* addCloudRemoteFromRecoveryKit, for a kit that names the first machine.  *)
Recover(p) ==
    /\ Ends(p)
    /\ config' = IF config = None THEN 1 ELSE config

(* ensureActiveSubscription, and the loop that waits for the payment.      *)
Status(p) ==
    IF proc[p].op = "recover" THEN Recover(p)
    ELSE /\ UNCHANGED config
         /\ IF paid THEN UploadReady(p)
            ELSE IF proc[p].stage = "status"
            THEN Asks(p, "checkout")
            ELSE IF Passed(proc[p].deadline) THEN Ends(p) ELSE Asks(p, "wait")

Answer(p) ==
    CASE proc[p].stage = "sync" ->
           Ends(p) /\ UNCHANGED <<rows, machines, config>>
      [] proc[p].stage \in {"status", "wait"} ->
           Status(p) /\ UNCHANGED <<rows, machines>>
      [] proc[p].stage = "checkout" ->
           /\ proc' = [proc EXCEPT ![p] = [@ EXCEPT !.pc = "read", !.stage = "wait",
                                                    !.deadline = now + CheckoutTimeout]]
           /\ UNCHANGED <<rows, machines, config>>
      [] proc[p].stage = "machine" ->
           /\ machines' = machines + 1
           /\ config' = machines'
           /\ Ends(p)
           /\ UNCHANGED rows
      [] proc[p].stage = "revoke" ->
           /\ rows' = [rows EXCEPT ![proc[p].token.cred].revoked = TRUE]
           /\ Goes(p, "remove")
           /\ UNCHANGED <<machines, config>>

Request(p) ==
    /\ proc[p].pc = "request"
    /\ IF Accepted(proc[p].token) THEN Answer(p)
       ELSE Unauthorized(p) /\ UNCHANGED <<rows, machines, config>>
    /\ UNCHANGED <<bounds, paid, file, lock, faults, lost>>

Remove(p) ==
    /\ proc[p].pc = "remove"
    /\ file' = None
    /\ Goes(p, "forgetRemote")
    /\ UNCHANGED <<bounds, server, lock, config, faults, lost>>

ForgetRemote(p) ==
    /\ proc[p].pc = "forgetRemote"
    /\ config' = None
    /\ Ends(p)
    /\ UNCHANGED <<bounds, server, file, lock, faults, lost>>

-----------------------------------------------------------------------------
(***************************************************************************)
(* runDeviceFlow.                                                          *)
(***************************************************************************)
Forget(p) ==
    /\ proc[p].pc = "forget"
    /\ file' = None
    /\ proc' = [proc EXCEPT ![p] =
           [@ EXCEPT !.pc = "poll", !.first = FALSE, !.token = None,
                     !.interval = FirstInterval, !.demanded = FirstInterval,
                     !.wake = now + Least(FirstInterval, DeviceLifetime),
                     !.deadline = now + DeviceLifetime]]
    /\ UNCHANGED <<bounds, server, lock, config, faults, lost>>

(* Mutant: a network timeout doubles the first interval.                   *)
NextIntervalAnew(current, outcome) ==
    CASE outcome = "slow" -> current + SlowDown
      [] outcome = "network" -> FirstInterval * 2
      [] OTHER -> current

(* nextPollIntervalSeconds.                                                *)
NextInterval(current, outcome) ==
    CASE outcome = "slow" -> current + SlowDown
      [] outcome = "network" -> Least(current * 2, MaxBackoff)
      [] OTHER -> current

Poll(p) ==
    LET me == proc[p] IN
    /\ me.pc = "poll"
    /\ Passed(me.wake)
    /\ \/ Passed(me.deadline) /\ Ends(p)
       \/ /\ ~Passed(me.deadline)
          /\ \E outcome \in limit.outcomes :
               CASE outcome = "token" -> Goes(p, "exchange")
                 [] outcome = "denied" -> Ends(p)
                 [] OTHER ->
                      LET interval == NextInterval(me.interval, outcome) IN
                      proc' = [proc EXCEPT ![p] =
                          [me EXCEPT !.interval = interval,
                                     !.demanded = IF outcome = "slow" THEN me.demanded + SlowDown
                                                  ELSE me.demanded,
                                     !.wake = now + Least(interval, me.deadline - now)]]
    /\ UNCHANGED <<bounds, server, local, faults, lost>>

(* findOrCreateAccount and issueCredential.                                *)
Exchange(p) ==
    /\ proc[p].pc = "exchange"
    /\ LET c == Cardinality(DOMAIN rows) + 1 IN
       /\ rows' = [d \in 1 .. c |-> IF d = c THEN NewRow ELSE rows[d]]
       /\ proc' = [proc EXCEPT ![p].pc = "store", ![p].token = Token(c, 1)]
    /\ UNCHANGED <<bounds, machines, paid, local, faults, lost>>

Store(p) ==
    /\ proc[p].pc = "store"
    /\ file' = proc[p].token
    /\ IF proc[p].op = "recover" THEN Recover(p)
       ELSE Asks(p, "status") /\ UNCHANGED config
    /\ UNCHANGED <<bounds, server, lock, faults, lost>>

-----------------------------------------------------------------------------
(***************************************************************************)
(* Faults.                                                                 *)
(***************************************************************************)
InsideLock == {"reread", "refresh", "save"}

Unstored(p) == IF proc[p].pc = "save" THEN {proc[p].token.cred} ELSE {}

(* A request is refused: rate limit, outdated version, internal error.     *)
Denied(p) ==
    /\ faults < limit.faults
    /\ proc[p].pc \in {"refresh", "request", "exchange"}
    /\ lock' = (lock /\ proc[p].pc # "refresh")
    /\ Ends(p)
    /\ faults' = faults + 1
    /\ UNCHANGED <<bounds, server, file, config, lost>>

(* The answer to a refresh is lost: no other answer leaves more behind     *)
(* than a kill after the request does.                                     *)
Lost(p) ==
    /\ faults < limit.faults
    /\ proc[p].pc = "save"
    /\ lock' = FALSE
    /\ Ends(p)
    /\ lost' = lost \cup Unstored(p)
    /\ faults' = faults + 1
    /\ UNCHANGED <<bounds, server, file, config>>

Kill(p) ==
    /\ faults < limit.faults
    /\ proc[p].pc # "idle"
    /\ Ends(p)
    /\ lost' = lost \cup Unstored(p)
    /\ faults' = faults + 1
    /\ UNCHANGED <<bounds, server, local>>

-----------------------------------------------------------------------------
Step(p) ==
    \/ Read(p) \/ Lock(p) \/ Reread(p) \/ Refresh(p) \/ Save(p) \/ Request(p)
    \/ Remove(p) \/ ForgetRemote(p) \/ Forget(p) \/ Poll(p) \/ Exchange(p) \/ Store(p)

Next ==
    \/ Tick \/ Pay
    \/ \E p \in Procs :
         \/ Step(p) \/ Denied(p) \/ Lost(p) \/ Kill(p)
         \/ \E op \in limit.ops : Start(p, op)

(* The clock advances, and the operating system and the network let every  *)
(* command take its next step.                                             *)
Fairness == WF_vars(Tick) /\ \A p \in Procs : WF_vars(Step(p))

Spec == Init /\ [][Next]_vars /\ Fairness

-----------------------------------------------------------------------------
(***************************************************************************)
(* Properties.                                                             *)
(***************************************************************************)
(* What is presented to the server, and the commands that bear a token.    *)
IssuedTokens == [cred : DOMAIN rows, gen : Nat, access : Nat, refresh : Nat]
Rows == [gen : Nat, expires : Nat, revoked : BOOLEAN]
Issued == Cardinality(DOMAIN rows)

Commands ==
    [pc : {"idle", "read", "lock", "reread", "refresh", "save", "request", "remove",
           "forgetRemote", "forget", "poll", "exchange", "store"},
     op : {"sync", "link", "recover", "unlink"},
     stage : {"sync", "revoke", "status", "checkout", "wait", "machine"},
     first : BOOLEAN, token : IssuedTokens \cup {None}, config : Nat \cup {None},
     attempts : Nat, interval : Nat, demanded : Nat, wake : Nat, deadline : Nat]

Bearing == {p \in Procs : proc[p].pc \in {"refresh", "save", "request", "store"}}

(* The variables keep their types, the credentials of the tokens are ones  *)
(* the server has issued, and whoever presents a token has one.            *)
TypeOK ==
    /\ limit \in Limits /\ now \in Nat
    /\ Issued \in Nat /\ rows \in [1 .. Issued -> Rows]
    /\ machines \in Nat /\ paid \in BOOLEAN
    /\ file \in IssuedTokens \cup {None} /\ lock \in BOOLEAN /\ config \in Nat \cup {None}
    /\ proc \in [Procs -> Commands]
    /\ \A p \in Bearing : proc[p].token \in IssuedTokens
    /\ starts \in Nat /\ faults \in Nat /\ lost \subseteq DOMAIN rows

(* credentials.ts:89-143, accounts.ts:78-106: whatever commands overlap,   *)
(* no refresh presents a token that another refresh has used up, which the *)
(* server would refuse; and the stored token is the last one issued, unless*)
(* a command is about to store it.  Only a lost answer or a kill leaves a  *)
(* live credential that nothing can rotate any more.                       *)
TokenIsCurrent ==
    /\ \A p \in Procs : proc[p].pc = "refresh" =>
           rows[proc[p].token.cred].gen = proc[p].token.gen \/ proc[p].token.cred \in lost
    /\ file # None =>
           \/ rows[file.cred].gen = file.gen
           \/ \E p \in Procs : proc[p].pc = "save" /\ proc[p].token.cred = file.cred
           \/ file.cred \in lost

(* device-flow.ts:45-54: while it waits for the user, the client polls no  *)
(* faster than GitHub has asked, up to its own limit of a minute.          *)
SlowDownIsHonoured ==
    \A p \in Procs : proc[p].pc = "poll" =>
        proc[p].interval >= Least(proc[p].demanded, MaxBackoff)

(* Every command ends, even when another was killed inside the lock, the   *)
(* user never confirms the device, or the payment never comes.             *)
EveryCallEnds == \A p \in Procs : proc[p].pc # "idle" ~> proc[p].pc = "idle"
=============================================================================
