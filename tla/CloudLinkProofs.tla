--------------------------- MODULE CloudLinkProofs ---------------------------
(***************************************************************************)
(* Proofs that the commands of a machine never present a credential token  *)
(* that another of them has used up, and that a client polls no faster     *)
(* than it was asked to: for any number of commands, lifetimes, intervals  *)
(* and faults.                                                             *)
(***************************************************************************)
EXTENDS CloudLink, FiniteSetTheorems, TLAPS

(* The steps at which a command bears no token that matters to others.     *)
Away == {"idle", "read", "lock", "remove", "forgetRemote", "forget", "poll", "exchange"}
Others(p) == \A q \in Procs : q # p => proc'[q] = proc[q]

(* The command p has gone to such a step.                                  *)
Left(p) == proc' \in [Procs -> Commands] /\ Others(p) /\ proc'[p].pc \in Away

LEMMA Bounds ==
    /\ AccessLifetime \in Nat /\ RefreshLifetime \in Nat /\ LockAttempts \in Nat
    /\ DeviceLifetime \in Nat /\ FirstInterval \in Nat /\ SlowDown \in Nat /\ MaxBackoff \in Nat
    /\ CheckoutTimeout \in Nat
BY BoundsAssumption

LEMMA IdleIsCommand == Idle \in Commands /\ Idle.pc = "idle"
BY DEF Idle, Commands

LEMMA EndsLeaves ==
    ASSUME TypeOK, NEW p \in Procs, Ends(p)
    PROVE  Left(p)
BY IdleIsCommand DEF Ends, Left, Away, Others, TypeOK

LEMMA GoesLeaves ==
    ASSUME TypeOK, NEW p \in Procs, NEW pc \in Away, Goes(p, pc)
    PROVE  Left(p)
<1>1. proc[p] \in Commands /\ proc' = [proc EXCEPT ![p] = [proc[p] EXCEPT !.pc = pc]]
  BY DEF Goes, TypeOK
<1>2. [proc[p] EXCEPT !.pc = pc] \in Commands /\ [proc[p] EXCEPT !.pc = pc].pc = pc
  BY <1>1 DEF Commands, Away
<1>. QED
  BY <1>1, <1>2 DEF Left, Others, TypeOK

LEMMA AsksLeaves ==
    ASSUME TypeOK, NEW p \in Procs,
           NEW stage \in {"sync", "revoke", "status", "checkout", "wait", "machine"}, Asks(p, stage)
    PROVE  Left(p)
<1>. DEFINE r == [proc[p] EXCEPT !.pc = "read", !.stage = stage, !.first = FALSE, !.token = None]
<1>1. proc[p] \in Commands /\ proc' = [proc EXCEPT ![p] = r]
  BY DEF Asks, TypeOK
<1>2. r \in Commands /\ r.pc = "read"
  BY <1>1 DEF Commands
<1>. QED
  BY <1>1, <1>2 DEF Left, Others, TypeOK, Away

LEMMA UnauthorizedLeaves ==
    ASSUME TypeOK, NEW p \in Procs, Unauthorized(p)
    PROVE  Left(p)
BY EndsLeaves, GoesLeaves DEF Unauthorized, Away

LEMMA StatusLeaves ==
    ASSUME TypeOK, NEW p \in Procs, Status(p)
    PROVE  Left(p) /\ config' \in Nat \cup {None}
BY EndsLeaves, AsksLeaves DEF Status, Recover, UploadReady, TypeOK

(* A step after which every credential is still known.                     *)
LEMMA StaysTyped ==
    ASSUME TypeOK, limit' = limit, now' \in Nat, DOMAIN rows' = DOMAIN rows, rows' \in [1 .. Issued -> Rows],
           machines' \in Nat, paid' \in BOOLEAN, file' \in IssuedTokens \cup {None}, lock' \in BOOLEAN,
           config' \in Nat \cup {None}, proc' \in [Procs -> Commands],
           \A p \in Procs : proc'[p].pc \in {"refresh", "save", "request", "store"} =>
               proc'[p].token \in IssuedTokens,
           starts' \in Nat, faults' \in Nat, lost' \subseteq DOMAIN rows
    PROVE  TypeOK'
BY DEF TypeOK, IssuedTokens, Issued, Commands, Bearing

-----------------------------------------------------------------------------
Holders == {"refresh", "save", "store"}

(* One command at a time is inside the lock.                               *)
Excluded ==
    /\ \A p \in Procs : proc[p].pc \in InsideLock => lock
    /\ \A p, q \in Procs : proc[p].pc \in InsideLock /\ proc[q].pc \in InsideLock => p = q

(* What a command is about to store is the newest token of its credential, *)
(* and a credential that was never stored is nobody else's.                *)
Newest ==
    \A p \in Procs : proc[p].pc \in {"save", "store"} =>
        rows[proc[p].token.cred].gen = proc[p].token.gen
Unshared ==
    \A p \in Procs : proc[p].pc = "store" =>
        /\ file # None => file.cred # proc[p].token.cred
        /\ \A q \in Procs : q # p /\ proc[q].pc \in Holders => proc[q].token.cred # proc[p].token.cred

LinkInv == TypeOK /\ Excluded /\ Newest /\ Unshared /\ TokenIsCurrent

(* Every step but those that take a token under the lock, or a new one.    *)
LEMMA QuietKeeps ==
    ASSUME LinkInv, TypeOK', NEW p \in Procs, Others(p), proc'[p].pc \notin {"reread"} \cup Holders,
           \A c \in DOMAIN rows : rows'[c].gen = rows[c].gen,
           file' = file \/ file' = None, lost \subseteq lost',
           proc[p].pc = "save" => proc[p].token.cred \in lost',
           lock' = lock \/ proc[p].pc \in InsideLock
    PROVE  LinkInv'
<1>. USE DEF LinkInv, Others, Holders, InsideLock
<1>0. \A q \in Procs : proc'[q].pc \in {"reread"} \cup Holders => q # p /\ proc'[q] = proc[q]
  OBVIOUS
<1>1. \A q \in Procs : proc[q].pc \in Holders => proc[q].token.cred \in DOMAIN rows
  BY DEF TypeOK, Bearing, IssuedTokens
<1>2. file # None => file.cred \in DOMAIN rows
  BY DEF TypeOK, IssuedTokens
<1>3. Excluded'
  BY <1>0 DEF Excluded
<1>4. Newest'
  BY <1>0, <1>1 DEF Newest
<1>5. Unshared'
  BY <1>0 DEF Unshared
<1>6. TokenIsCurrent'
  <2>1. \A q \in Procs : proc'[q].pc = "refresh" =>
           rows'[proc'[q].token.cred].gen = proc'[q].token.gen \/ proc'[q].token.cred \in lost'
    BY <1>0, <1>1 DEF TokenIsCurrent
  <2>2. ASSUME file' # None
        PROVE  \/ rows'[file'.cred].gen = file'.gen
               \/ \E q \in Procs : proc'[q].pc = "save" /\ proc'[q].token.cred = file'.cred
               \/ file'.cred \in lost'
    <3>0. file' = file /\ file # None /\ file.cred \in DOMAIN rows
      BY <1>2, <2>2
    <3>1. CASE rows[file.cred].gen = file.gen \/ file.cred \in lost
      BY <3>0, <3>1
    <3>2. ASSUME NEW q \in Procs, proc[q].pc = "save", proc[q].token.cred = file.cred
          PROVE  q # p => proc'[q].pc = "save" /\ proc'[q].token.cred = file'.cred
      BY <3>0, <3>2
    <3>. QED
      BY <3>0, <3>1, <3>2 DEF TokenIsCurrent
  <2>. QED
    BY <2>1, <2>2 DEF TokenIsCurrent
<1>. QED
  BY <1>3, <1>4, <1>5, <1>6

(* A step of the clock, of the payment, or of nobody.                      *)
LEMMA NobodyKeeps ==
    ASSUME LinkInv, TypeOK', UNCHANGED <<rows, file, lock, proc, lost>>
    PROVE  LinkInv'
BY DEF LinkInv, Excluded, Newest, Unshared, TokenIsCurrent

-----------------------------------------------------------------------------
LEMMA StartKeeps ==
    ASSUME LinkInv, NEW p \in Procs, NEW op \in limit.ops, Start(p, op)
    PROVE  LinkInv'
<1>. DEFINE first == op \in {"link", "recover"}
            stage == CASE op = "sync" -> "sync" [] op = "unlink" -> "revoke" [] OTHER -> "status"
            r == [Idle EXCEPT !.pc = "read", !.op = op, !.config = config, !.first = first, !.stage = stage]
<1>0. TypeOK
  BY DEF LinkInv
<1>1. op \in {"sync", "link", "recover", "unlink"}
  BY <1>0, BoundsAssumption DEF TypeOK
<1>2. r \in Commands /\ r.pc = "read"
  <2>1. first \in BOOLEAN /\ stage \in {"sync", "revoke", "status"} /\ config \in Nat \cup {None}
    BY <1>0, <1>1 DEF TypeOK
  <2>. HIDE DEF first, stage
  <2>. QED
    BY <1>1, <2>1 DEF Idle, Commands
<1>3. proc' = [proc EXCEPT ![p] = r] /\ proc[p].pc = "idle"
      /\ starts' = starts + 1 /\ UNCHANGED <<limit, now, rows, machines, paid, file, lock, config, faults, lost>>
  BY DEF Start, server, local
<1>4. Left(p)
  BY <1>0, <1>2, <1>3 DEF Left, Others, TypeOK, Away
<1>5. TypeOK'
  BY <1>0, <1>3, <1>4, StaysTyped DEF Left, Others, TypeOK, Away, Bearing
<1>. QED
  BY <1>3, <1>4, <1>5, QuietKeeps DEF Left, Away, Holders

LEMMA AwayKeeps ==
    ASSUME LinkInv, NEW p \in Procs, Left(p), limit' = limit, now' = now, paid' = paid, starts' = starts,
           DOMAIN rows' = DOMAIN rows, rows' \in [1 .. Issued -> Rows],
           \A c \in DOMAIN rows : rows'[c].gen = rows[c].gen,
           file' = file \/ file' = None, lost \subseteq lost', lost' \subseteq DOMAIN rows,
           proc[p].pc = "save" => proc[p].token.cred \in lost',
           lock' = lock \/ (proc[p].pc \in InsideLock /\ lock' = FALSE),
           machines' \in Nat, config' \in Nat \cup {None}, faults' \in Nat
    PROVE  LinkInv'
<1>0. TypeOK
  BY DEF LinkInv
<1>1. TypeOK'
  BY <1>0, StaysTyped DEF Left, Others, TypeOK, Away, Bearing
<1>. QED
  BY <1>1, QuietKeeps DEF Left, Away, Holders

LEMMA FaultKeeps ==
    ASSUME LinkInv, NEW p \in Procs, Denied(p) \/ Lost(p) \/ Kill(p)
    PROVE  LinkInv'
<1>0. TypeOK
  BY DEF LinkInv
<1>1. Ends(p) /\ faults' = faults + 1 /\ UNCHANGED <<limit, now, starts, rows, machines, paid, file, config>>
  BY DEF Denied, Lost, Kill, bounds, server, local
<1>2. Left(p)
  BY <1>0, <1>1, EndsLeaves
<1>3. lock' = lock \/ (proc[p].pc \in InsideLock /\ lock' = FALSE)
  BY <1>0 DEF Denied, Lost, Kill, local, InsideLock, TypeOK
<1>4. lost' = lost \/ lost' = lost \cup Unstored(p)
  BY DEF Denied, Lost, Kill
<1>5. proc[p].pc = "save" => proc[p].token.cred \in lost'
  BY DEF Denied, Lost, Kill, Unstored
<1>6. Unstored(p) \subseteq DOMAIN rows
  BY <1>0 DEF Unstored, TypeOK, Bearing, IssuedTokens
<1>7. lost \subseteq lost' /\ lost' \subseteq DOMAIN rows
  BY <1>0, <1>4, <1>6 DEF TypeOK
<1>8. rows \in [1 .. Issued -> Rows] /\ machines \in Nat /\ config \in Nat \cup {None} /\ faults' \in Nat
  BY <1>0, <1>1 DEF TypeOK
<1>. QED
  BY <1>1, <1>2, <1>3, <1>5, <1>7, <1>8, AwayKeeps

-----------------------------------------------------------------------------
(* cloudAccessToken and the lock.                                          *)
LEMMA Takes ==
    ASSUME TypeOK, NEW p \in Procs, NEW pc \in {"request", "refresh"}, file # None,
           proc' = [proc EXCEPT ![p].pc = pc, ![p].token = file]
    PROVE  /\ proc' \in [Procs -> Commands] /\ Others(p)
           /\ proc'[p].pc = pc /\ proc'[p].token = file /\ file \in IssuedTokens
<1>. DEFINE r == [proc[p] EXCEPT !.pc = pc, !.token = file]
<1>1. proc[p] \in Commands /\ proc' = [proc EXCEPT ![p] = r]
  BY DEF TypeOK
<1>2. r \in Commands /\ r.pc = pc /\ r.token = file
  BY <1>1 DEF Commands, TypeOK
<1>. QED
  BY <1>1, <1>2 DEF Others, TypeOK

LEMMA RequestsKeep ==
    ASSUME LinkInv, NEW p \in Procs, file # None,
           proc' = [proc EXCEPT ![p].pc = "request", ![p].token = file],
           UNCHANGED <<bounds, server, file, config, faults, lost>>,
           proc[p].pc # "save", lock' = lock \/ (proc[p].pc \in InsideLock /\ lock' = FALSE)
    PROVE  LinkInv'
<1>0. TypeOK
  BY DEF LinkInv
<1>1. /\ proc' \in [Procs -> Commands] /\ Others(p) /\ file \in IssuedTokens
      /\ proc'[p].pc = "request" /\ proc'[p].token = file
  BY <1>0, Takes
<1>2. /\ limit' = limit /\ now' = now /\ starts' = starts /\ rows' = rows /\ machines' = machines
      /\ paid' = paid /\ file' = file /\ config' = config /\ faults' = faults /\ lost' = lost
  BY DEF bounds, server
<1>3. TypeOK'
  BY <1>0, <1>1, <1>2, StaysTyped DEF Others, TypeOK, Bearing
<1>. QED
  BY <1>1, <1>2, <1>3, QuietKeeps DEF Holders

LEMMA AwayOnlyKeeps ==
    ASSUME LinkInv, NEW p \in Procs, Left(p), proc[p].pc # "save",
           UNCHANGED <<bounds, server, config, faults, lost>>, file' = file \/ file' = None,
           lock' = lock \/ (proc[p].pc \in InsideLock /\ lock' = FALSE)
    PROVE  LinkInv'
<1>1. /\ limit' = limit /\ now' = now /\ starts' = starts /\ rows' = rows /\ machines' = machines
      /\ paid' = paid /\ config' = config /\ faults' = faults /\ lost' = lost
  BY DEF bounds, server
<1>2. /\ rows \in [1 .. Issued -> Rows] /\ machines \in Nat /\ config \in Nat \cup {None} /\ faults \in Nat
      /\ lost \subseteq DOMAIN rows
  BY DEF LinkInv, TypeOK
<1>. QED
  BY <1>1, <1>2, AwayKeeps

LEMMA ReadKeeps ==
    ASSUME LinkInv, NEW p \in Procs, Read(p)
    PROVE  LinkInv'
<1>0. TypeOK /\ proc[p].pc = "read" /\ UNCHANGED <<bounds, server, file, lock, config, faults, lost>>
  BY DEF LinkInv, Read, local
<1>1. CASE file = None
  <2>1. Left(p)
    BY <1>0, <1>1, UnauthorizedLeaves DEF Read
  <2>. QED
    BY <1>0, <2>1, AwayOnlyKeeps
<1>2. CASE file # None /\ Fresh(file)
  <2>1. proc' = [proc EXCEPT ![p].pc = "request", ![p].token = file]
    BY <1>2 DEF Read
  <2>. QED
    BY <1>0, <1>2, <2>1, RequestsKeep
<1>3. CASE file # None /\ ~Fresh(file)
  <2>. DEFINE r == [proc[p] EXCEPT !.pc = "lock", !.attempts = 0]
  <2>1. proc[p] \in Commands /\ proc' = [proc EXCEPT ![p] = r]
    BY <1>0, <1>3 DEF Read, TypeOK
  <2>2. r \in Commands /\ r.pc = "lock"
    BY <2>1 DEF Commands
  <2>3. Left(p)
    BY <1>0, <2>1, <2>2 DEF Left, Others, TypeOK, Away
  <2>. QED
    BY <1>0, <2>3, AwayOnlyKeeps
<1>. QED
  BY <1>1, <1>2, <1>3

LEMMA LockKeeps ==
    ASSUME LinkInv, NEW p \in Procs, Lock(p)
    PROVE  LinkInv'
<1>0. TypeOK /\ proc[p].pc = "lock" /\ proc[p] \in Commands
      /\ UNCHANGED <<bounds, server, file, config, faults, lost>>
  BY DEF LinkInv, TypeOK, Lock
<1>1. CASE ~lock
  <2>. DEFINE r == [proc[p] EXCEPT !.pc = "reread"]
  <2>1. proc' = [proc EXCEPT ![p] = r] /\ lock' = TRUE
    BY <1>0, <1>1 DEF Lock, Goes
  <2>2. r \in Commands /\ r.pc = "reread" /\ r.token = proc[p].token
    BY <1>0 DEF Commands
  <2>3. proc' \in [Procs -> Commands] /\ proc'[p] = r /\ Others(p)
    BY <1>0, <2>1, <2>2 DEF TypeOK, Others
  <2>4. /\ limit' = limit /\ now' = now /\ starts' = starts /\ rows' = rows /\ machines' = machines
        /\ paid' = paid /\ file' = file /\ config' = config /\ faults' = faults /\ lost' = lost
    BY <1>0 DEF bounds, server
  <2>5. TypeOK'
    BY <1>0, <2>1, <2>2, <2>3, <2>4, StaysTyped DEF Others, TypeOK, Bearing
  <2>6. \A q \in Procs : proc[q].pc \notin InsideLock
    BY <1>1 DEF LinkInv, Excluded
  <2>7. Excluded'
    BY <2>1, <2>2, <2>3, <2>6 DEF Excluded, Others
  <2>8. \A q \in Procs : proc'[q].pc \in Holders => proc'[q] = proc[q] /\ q # p
    BY <2>2, <2>3 DEF Others, Holders
  <2>9. Newest' /\ Unshared' /\ TokenIsCurrent'
    BY <1>0, <2>3, <2>4, <2>6, <2>8 DEF LinkInv, Newest, Unshared, TokenIsCurrent, Holders, InsideLock, Others
  <2>. QED
    BY <2>5, <2>7, <2>9 DEF LinkInv
<1>2. CASE lock
  <2>1. Left(p)
    <3>1. CASE Ends(p)
      BY <1>0, <3>1, EndsLeaves
    <3>2. CASE proc' = [proc EXCEPT ![p].attempts = @ + 1]
      <4>. DEFINE r == [proc[p] EXCEPT !.attempts = @ + 1]
      <4>1. r \in Commands /\ r.pc = "lock"
        BY <1>0 DEF Commands
      <4>2. proc' = [proc EXCEPT ![p] = r]
        BY <3>2
      <4>. QED
        BY <1>0, <4>1, <4>2 DEF Left, Others, TypeOK, Away
    <3>. QED
      BY <1>2, <3>1, <3>2 DEF Lock
  <2>2. lock' = lock
    BY <1>2 DEF Lock
  <2>. QED
    BY <1>0, <2>1, <2>2, AwayOnlyKeeps
<1>. QED
  BY <1>0, <1>1, <1>2

LEMMA RereadKeeps ==
    ASSUME LinkInv, NEW p \in Procs, Reread(p)
    PROVE  LinkInv'
<1>0. TypeOK /\ proc[p].pc = "reread" /\ UNCHANGED <<bounds, server, file, config, faults, lost>>
      /\ proc[p].pc \in InsideLock
  BY DEF LinkInv, Reread, InsideLock
<1>1. CASE lock' = FALSE /\ Unauthorized(p)
  <2>1. Left(p)
    BY <1>0, <1>1, UnauthorizedLeaves
  <2>. QED
    BY <1>0, <1>1, <2>1, AwayOnlyKeeps
<1>2. CASE lock' = FALSE /\ file # None /\ proc' = [proc EXCEPT ![p].pc = "request", ![p].token = file]
  BY <1>0, <1>2, RequestsKeep
<1>3. CASE lock' = lock /\ file # None /\ proc' = [proc EXCEPT ![p].pc = "refresh", ![p].token = file]
  <2>1. /\ proc' \in [Procs -> Commands] /\ Others(p) /\ file \in IssuedTokens
        /\ proc'[p].pc = "refresh" /\ proc'[p].token = file
    BY <1>0, <1>3, Takes
  <2>2. /\ limit' = limit /\ now' = now /\ starts' = starts /\ rows' = rows /\ machines' = machines
        /\ paid' = paid /\ file' = file /\ config' = config /\ faults' = faults /\ lost' = lost
    BY <1>0 DEF bounds, server
  <2>3. TypeOK'
    BY <1>0, <1>3, <2>1, <2>2, StaysTyped DEF Others, TypeOK, Bearing
  <2>4. \A q \in Procs : q # p => proc[q].pc \notin InsideLock /\ proc'[q].pc \notin InsideLock
    BY <1>0, <2>1 DEF LinkInv, Excluded, Others
  <2>5. Excluded'
    BY <1>0, <1>3, <2>1, <2>4 DEF LinkInv, Excluded, InsideLock
  <2>6. Newest'
    BY <2>1, <2>2 DEF LinkInv, Newest, Others
  <2>7. Unshared'
    BY <1>3, <2>1, <2>2 DEF LinkInv, Unshared, Others, Holders
  <2>8. rows[file.cred].gen = file.gen \/ file.cred \in lost
    BY <1>0, <1>3, <2>4 DEF LinkInv, TokenIsCurrent, InsideLock
  <2>9. TokenIsCurrent'
    BY <2>1, <2>2, <2>4, <2>8 DEF TokenIsCurrent, Others, InsideLock
  <2>. QED
    BY <2>3, <2>5, <2>6, <2>7, <2>9 DEF LinkInv
<1>. QED
  BY <1>1, <1>2, <1>3 DEF Reread

-----------------------------------------------------------------------------
(* The rotation: the command inside the lock bears the stored token.       *)
LEMMA RefreshKeeps ==
    ASSUME LinkInv, NEW p \in Procs, Refresh(p)
    PROVE  LinkInv'
<1>. DEFINE token == proc[p].token
<1>0. /\ TypeOK /\ proc[p].pc = "refresh" /\ proc[p].pc \in InsideLock
      /\ proc[p] \in Commands /\ token \in IssuedTokens
      /\ UNCHANGED <<bounds, machines, paid, file, config, faults, lost>>
  BY DEF LinkInv, TypeOK, Refresh, Bearing, InsideLock
<1>1. CASE ~Rotates(token)
  <2>1. Left(p) /\ lock' = FALSE /\ rows' = rows
    BY <1>0, <1>1, UnauthorizedLeaves DEF Refresh
  <2>2. UNCHANGED server
    BY <1>0, <2>1 DEF server
  <2>. QED
    BY <1>0, <2>1, <2>2, AwayOnlyKeeps
<1>2. CASE Rotates(token)
  <2>. DEFINE c == token.cred
              new == Token(c, token.gen + 1)
              r == [proc[p] EXCEPT !.pc = "save", !.token = new]
  <2>1. c \in DOMAIN rows /\ token.gen \in Nat /\ rows[c].gen = token.gen /\ rows[c] \in Rows /\ now \in Nat
    BY <1>0, <1>2 DEF IssuedTokens, Rotates, TypeOK
  <2>2. /\ proc' = [proc EXCEPT ![p].pc = "save", ![p].token = new] /\ lock' = lock
        /\ rows' = [rows EXCEPT ![c] = [rows[c] EXCEPT !.gen = rows[c].gen + 1,
                                                !.expires = now + RefreshLifetime]]
    BY <1>0, <1>2 DEF Refresh, Rotated
  <2>3. /\ rows' \in [1 .. Issued -> Rows] /\ DOMAIN rows' = DOMAIN rows
        /\ rows'[c].gen = token.gen + 1
        /\ \A d \in DOMAIN rows : d # c => rows'[d] = rows[d]
    <3>. DEFINE gen == rows[c].gen + 1
                expires == now + RefreshLifetime
                row == [rows[c] EXCEPT !.gen = gen, !.expires = expires]
    <3>1. gen \in Nat /\ expires \in Nat
      BY <2>1, Bounds
    <3>2. rows' = [rows EXCEPT ![c] = row]
      BY <2>2
    <3>3. row \in Rows /\ row.gen = token.gen + 1
      <4>1. gen = token.gen + 1
        BY <2>1
      <4>. HIDE DEF gen, expires, c
      <4>. QED
        BY <2>1, <3>1, <4>1 DEF Rows
    <3>4. rows \in [1 .. Issued -> Rows] /\ DOMAIN rows = 1 .. Issued
      BY <1>0 DEF TypeOK
    <3>. HIDE DEF c, row
    <3>. QED
      BY <2>1, <3>2, <3>3, <3>4
  <2>4. new \in IssuedTokens /\ new.cred = c /\ new.gen = token.gen + 1
    BY <2>1, Bounds DEF Token, IssuedTokens
  <2>5. r \in Commands /\ r.pc = "save" /\ r.token = new
    <3>. HIDE DEF new
    <3>. QED
      BY <1>0, <2>4 DEF Commands
  <2>6. proc' \in [Procs -> Commands] /\ Others(p) /\ proc'[p] = r
    BY <1>0, <2>2, <2>5 DEF TypeOK, Others
  <2>. HIDE DEF r, new, c, token
  <2>7. /\ limit' = limit /\ now' = now /\ starts' = starts /\ machines' = machines
        /\ paid' = paid /\ file' = file /\ config' = config /\ faults' = faults /\ lost' = lost
    BY <1>0 DEF bounds
  <2>8. TypeOK'
    BY <1>0, <2>2, <2>3, <2>4, <2>5, <2>6, <2>7, StaysTyped DEF Others, TypeOK, Bearing
  <2>9. \A q \in Procs : q # p => proc[q].pc \notin InsideLock /\ proc'[q].pc \notin InsideLock
    BY <1>0, <2>6 DEF LinkInv, Excluded, Others
  <2>10. Excluded'
    BY <1>0, <2>2, <2>5, <2>6, <2>9 DEF LinkInv, Excluded, InsideLock
  <2>11. \A q \in Procs : proc[q].pc = "store" => q # p /\ proc'[q] = proc[q] /\ proc[q].token.cred # c
                                                   /\ proc[q].token.cred \in DOMAIN rows
    BY <1>0, <2>6 DEF LinkInv, Unshared, Others, Holders, TypeOK, Bearing, IssuedTokens, c, token
  <2>12. Newest'
    BY <2>3, <2>4, <2>5, <2>6, <2>9, <2>11 DEF LinkInv, Newest, Others, InsideLock
  <2>13. Unshared'
    BY <2>4, <2>5, <2>6, <2>7, <2>11 DEF LinkInv, Unshared, Others, Holders
  <2>14. TokenIsCurrent'
    <3>1. \A q \in Procs : proc'[q].pc # "refresh"
      BY <2>5, <2>6, <2>9 DEF InsideLock
    <3>2. ASSUME file # None
          PROVE  \/ rows'[file.cred].gen = file.gen
                 \/ \E q \in Procs : proc'[q].pc = "save" /\ proc'[q].token.cred = file.cred
                 \/ file.cred \in lost
      <4>1. file.cred \in DOMAIN rows
        BY <1>0, <3>2 DEF TypeOK, IssuedTokens
      <4>2. CASE file.cred = c
        BY <2>4, <2>5, <2>6, <4>2
      <4>3. CASE file.cred # c
        <5>1. \A q \in Procs : proc[q].pc # "save"
          BY <1>0, <2>9 DEF InsideLock
        <5>. QED
          BY <2>3, <3>2, <4>1, <4>3, <5>1 DEF LinkInv, TokenIsCurrent
      <4>. QED
        BY <4>2, <4>3
    <3>. QED
      BY <2>7, <3>1, <3>2 DEF TokenIsCurrent
  <2>. QED
    BY <2>8, <2>10, <2>12, <2>13, <2>14 DEF LinkInv
<1>. QED
  BY <1>1, <1>2

(* A step that stores the newest token of a credential.                    *)
LEMMA StoresKeep ==
    ASSUME LinkInv, TypeOK', NEW p \in Procs, Others(p), proc[p].pc \in {"save", "store"},
           proc'[p].pc \notin {"reread"} \cup Holders, file' = proc[p].token,
           rows' = rows, lost' = lost, lock' = lock \/ proc[p].pc \in InsideLock
    PROVE  LinkInv'
<1>0. \A q \in Procs : proc'[q].pc \in {"reread"} \cup Holders => q # p /\ proc'[q] = proc[q]
  BY DEF Others
<1>1. Excluded'
  BY <1>0 DEF LinkInv, Excluded, InsideLock, Holders
<1>2. Newest'
  BY <1>0 DEF LinkInv, Newest, Holders
<1>3. Unshared'
  BY <1>0 DEF LinkInv, Unshared, Holders
<1>4. rows'[file'.cred].gen = file'.gen
  BY DEF LinkInv, Newest
<1>5. TokenIsCurrent'
  BY <1>0, <1>4 DEF LinkInv, TokenIsCurrent, Holders
<1>. QED
  BY <1>1, <1>2, <1>3, <1>5 DEF LinkInv

LEMMA SaveKeeps ==
    ASSUME LinkInv, NEW p \in Procs, Save(p)
    PROVE  LinkInv'
<1>. DEFINE r == [proc[p] EXCEPT !.pc = "request"]
<1>0. /\ TypeOK /\ proc[p].pc = "save" /\ proc[p].pc \in InsideLock /\ proc[p] \in Commands
      /\ proc[p].token \in IssuedTokens /\ file' = proc[p].token /\ lock' = FALSE
      /\ proc' = [proc EXCEPT ![p] = r]
  BY DEF LinkInv, TypeOK, Save, Goes, Bearing, InsideLock
<1>1. r \in Commands /\ r.pc = "request" /\ r.token = proc[p].token
  BY <1>0 DEF Commands
<1>2. proc' \in [Procs -> Commands] /\ Others(p) /\ proc'[p] = r
  BY <1>0, <1>1 DEF TypeOK, Others
<1>3. /\ limit' = limit /\ now' = now /\ starts' = starts /\ rows' = rows /\ machines' = machines
      /\ paid' = paid /\ config' = config /\ faults' = faults /\ lost' = lost
  BY DEF Save, bounds, server
<1>4. TypeOK'
  BY <1>0, <1>1, <1>2, <1>3, StaysTyped DEF Others, TypeOK, Bearing
<1>. QED
  BY <1>0, <1>1, <1>2, <1>3, <1>4, StoresKeep DEF Holders

LEMMA StoreKeeps ==
    ASSUME LinkInv, NEW p \in Procs, Store(p)
    PROVE  LinkInv'
<1>0. /\ TypeOK /\ proc[p].pc = "store" /\ proc[p].token \in IssuedTokens /\ file' = proc[p].token
  BY DEF LinkInv, TypeOK, Store, Bearing
<1>1. Left(p) /\ config' \in Nat \cup {None}
  BY <1>0, EndsLeaves, AsksLeaves DEF Store, Recover, TypeOK
<1>2. /\ limit' = limit /\ now' = now /\ starts' = starts /\ rows' = rows /\ machines' = machines
      /\ paid' = paid /\ lock' = lock /\ faults' = faults /\ lost' = lost
  BY DEF Store, bounds, server
<1>3. TypeOK'
  BY <1>0, <1>1, <1>2, StaysTyped DEF Left, Others, TypeOK, Away, Bearing
<1>. QED
  BY <1>0, <1>1, <1>2, <1>3, StoresKeep DEF Left, Away, Holders

-----------------------------------------------------------------------------
(* The authenticated requests.                                             *)
LEMMA AnswerLeaves ==
    ASSUME TypeOK, NEW p \in Procs, proc[p].pc = "request", Answer(p)
    PROVE  /\ Left(p) /\ DOMAIN rows' = DOMAIN rows /\ rows' \in [1 .. Issued -> Rows]
           /\ \A c \in DOMAIN rows : rows'[c].gen = rows[c].gen
           /\ machines' \in Nat /\ config' \in Nat \cup {None}
<1>0. proc[p] \in Commands /\ proc[p].token \in IssuedTokens /\ rows \in [1 .. Issued -> Rows]
      /\ machines \in Nat /\ config \in Nat \cup {None} /\ now \in Nat
  BY DEF TypeOK, Bearing
<1>1. CASE proc[p].stage = "sync"
  BY <1>0, <1>1, EndsLeaves DEF Answer
<1>2. CASE proc[p].stage \in {"status", "wait"}
  BY <1>0, <1>2, StatusLeaves DEF Answer
<1>3. CASE proc[p].stage = "checkout"
  <2>. DEFINE deadline == now + CheckoutTimeout
              r == [proc[p] EXCEPT !.pc = "read", !.stage = "wait", !.deadline = deadline]
  <2>1. proc' = [proc EXCEPT ![p] = r] /\ UNCHANGED <<rows, machines, config>>
    BY <1>3 DEF Answer
  <2>2. r \in Commands /\ r.pc = "read"
    <3>1. deadline \in Nat
      BY <1>0, Bounds
    <3>. HIDE DEF deadline
    <3>. QED
      BY <1>0, <3>1 DEF Commands
  <2>3. Left(p)
    BY <2>1, <2>2 DEF Left, Others, TypeOK, Away
  <2>. QED
    BY <1>0, <2>1, <2>3
<1>4. CASE proc[p].stage = "machine"
  BY <1>0, <1>4, EndsLeaves DEF Answer
<1>5. CASE proc[p].stage = "revoke"
  <2>. DEFINE c == proc[p].token.cred
  <2>1. c \in DOMAIN rows /\ rows[c] \in Rows
    BY <1>0 DEF IssuedTokens
  <2>2. rows' = [rows EXCEPT ![c].revoked = TRUE] /\ Goes(p, "remove") /\ UNCHANGED <<machines, config>>
    BY <1>5 DEF Answer
  <2>3. [rows[c] EXCEPT !.revoked = TRUE] \in Rows /\ [rows[c] EXCEPT !.revoked = TRUE].gen = rows[c].gen
    BY <2>1 DEF Rows
  <2>4. Left(p)
    BY <2>2, GoesLeaves DEF Away
  <2>. HIDE DEF c
  <2>5. rows' \in [1 .. Issued -> Rows] /\ \A d \in DOMAIN rows : rows'[d].gen = rows[d].gen
    BY <1>0, <2>1, <2>2, <2>3
  <2>. QED
    BY <1>0, <2>2, <2>4, <2>5
<1>. QED
  BY <1>0, <1>1, <1>2, <1>3, <1>4, <1>5 DEF Commands

LEMMA RequestKeeps ==
    ASSUME LinkInv, NEW p \in Procs, Request(p)
    PROVE  LinkInv'
<1>0. TypeOK /\ proc[p].pc = "request"
  BY DEF LinkInv, Request
<1>1. /\ limit' = limit /\ now' = now /\ starts' = starts /\ paid' = paid /\ file' = file
      /\ lock' = lock /\ faults' = faults /\ lost' = lost
  BY DEF Request, bounds
<1>2. rows \in [1 .. Issued -> Rows] /\ machines \in Nat /\ config \in Nat \cup {None} /\ faults \in Nat
      /\ lost \subseteq DOMAIN rows
  BY <1>0 DEF TypeOK
<1>3. CASE Accepted(proc[p].token)
  <2>1. Answer(p)
    BY <1>3 DEF Request
  <2>. QED
    BY <1>0, <1>1, <1>2, <2>1, AnswerLeaves, AwayKeeps
<1>4. CASE ~Accepted(proc[p].token)
  <2>1. Left(p) /\ UNCHANGED <<rows, machines, config>>
    BY <1>0, <1>4, UnauthorizedLeaves DEF Request
  <2>. QED
    BY <1>0, <1>1, <1>2, <2>1, AwayKeeps
<1>. QED
  BY <1>3, <1>4

LEMMA RemovesKeep ==
    ASSUME LinkInv, NEW p \in Procs, Remove(p) \/ ForgetRemote(p)
    PROVE  LinkInv'
<1>0. TypeOK
  BY DEF LinkInv
<1>1. Left(p) /\ proc[p].pc # "save"
  BY <1>0, EndsLeaves, GoesLeaves DEF Remove, ForgetRemote, Away
<1>2. /\ limit' = limit /\ now' = now /\ starts' = starts /\ rows' = rows /\ machines' = machines
      /\ paid' = paid /\ lock' = lock /\ faults' = faults /\ lost' = lost
      /\ (file' = file \/ file' = None) /\ (config' = config \/ config' = None)
  BY DEF Remove, ForgetRemote, bounds, server
<1>3. rows \in [1 .. Issued -> Rows] /\ machines \in Nat /\ config' \in Nat \cup {None} /\ faults \in Nat
      /\ lost \subseteq DOMAIN rows
  BY <1>0, <1>2 DEF TypeOK
<1>. QED
  BY <1>1, <1>2, <1>3, AwayKeeps

-----------------------------------------------------------------------------
(* The device flow.                                                        *)
LEMMA LeastIsNatural == \A a, b \in Nat : Least(a, b) \in Nat
BY DEF Least

LEMMA ForgetKeeps ==
    ASSUME LinkInv, NEW p \in Procs, Forget(p)
    PROVE  LinkInv'
<1>. DEFINE wake == now + Least(FirstInterval, DeviceLifetime)
            deadline == now + DeviceLifetime
            r == [proc[p] EXCEPT !.pc = "poll", !.first = FALSE, !.token = None,
                     !.interval = FirstInterval, !.demanded = FirstInterval,
                     !.wake = wake, !.deadline = deadline]
<1>0. TypeOK /\ proc[p] \in Commands /\ now \in Nat /\ proc[p].pc = "forget" /\ file' = None
      /\ proc' = [proc EXCEPT ![p] = r] /\ UNCHANGED <<bounds, server, lock, config, faults, lost>>
  BY DEF LinkInv, TypeOK, Forget
<1>1. wake \in Nat /\ deadline \in Nat
  BY <1>0, Bounds, LeastIsNatural
<1>. HIDE DEF wake, deadline
<1>2. r \in Commands /\ r.pc = "poll"
  BY <1>0, <1>1, Bounds DEF Commands
<1>3. Left(p)
  BY <1>0, <1>2 DEF Left, Others, TypeOK, Away
<1>. QED
  BY <1>0, <1>3, AwayOnlyKeeps

LEMMA PollKeeps ==
    ASSUME LinkInv, NEW p \in Procs, Poll(p)
    PROVE  LinkInv'
<1>0. TypeOK /\ proc[p] \in Commands /\ now \in Nat /\ proc[p].pc = "poll"
      /\ UNCHANGED <<bounds, server, local, faults, lost>>
  BY DEF LinkInv, TypeOK, Poll
<1>1. CASE Ends(p) \/ Goes(p, "exchange")
  BY <1>0, <1>1, EndsLeaves, GoesLeaves, AwayOnlyKeeps DEF Away, local
<1>2. ASSUME NEW outcome \in limit.outcomes, ~Passed(proc[p].deadline),
             proc' = [proc EXCEPT ![p] =
                          [proc[p] EXCEPT
                              !.interval = NextInterval(proc[p].interval, outcome),
                              !.demanded = IF outcome = "slow" THEN proc[p].demanded + SlowDown
                                           ELSE proc[p].demanded,
                              !.wake = now + Least(NextInterval(proc[p].interval, outcome),
                                                   proc[p].deadline - now)]]
      PROVE  LinkInv'
  <2>. DEFINE interval == NextInterval(proc[p].interval, outcome)
              demanded == IF outcome = "slow" THEN proc[p].demanded + SlowDown ELSE proc[p].demanded
              wake == now + Least(interval, proc[p].deadline - now)
              r == [proc[p] EXCEPT !.interval = interval, !.demanded = demanded, !.wake = wake]
  <2>1. proc[p].interval \in Nat /\ proc[p].demanded \in Nat /\ proc[p].deadline \in Nat
    BY <1>0 DEF Commands
  <2>2. interval \in Nat
    BY <2>1, Bounds, LeastIsNatural DEF NextInterval
  <2>3. demanded \in Nat
    BY <2>1, Bounds
  <2>4. proc[p].deadline - now \in Nat
    BY <1>0, <1>2, <2>1 DEF Passed
  <2>5. wake \in Nat
    <3>. HIDE DEF interval
    <3>1. Least(interval, proc[p].deadline - now) \in Nat
      BY <2>2, <2>4, LeastIsNatural
    <3>. QED
      BY <1>0, <3>1
  <2>6. proc' = [proc EXCEPT ![p] = r]
    BY <1>2
  <2>. HIDE DEF interval, demanded, wake
  <2>7. r \in Commands /\ r.pc = "poll"
    BY <1>0, <2>2, <2>3, <2>5 DEF Commands
  <2>8. Left(p)
    BY <1>0, <2>6, <2>7 DEF Left, Others, TypeOK, Away
  <2>. QED
    BY <1>0, <2>8, AwayOnlyKeeps DEF local
<1>. QED
  BY <1>1, <1>2 DEF Poll

LEMMA ExchangeKeeps ==
    ASSUME LinkInv, NEW p \in Procs, Exchange(p)
    PROVE  LinkInv'
<1>. DEFINE c == Issued + 1
            new == Token(c, 1)
            r == [proc[p] EXCEPT !.pc = "store", !.token = new]
<1>0. /\ TypeOK /\ proc[p] \in Commands /\ now \in Nat /\ Issued \in Nat /\ rows \in [1 .. Issued -> Rows]
      /\ proc[p].pc = "exchange" /\ UNCHANGED <<bounds, machines, paid, local, faults, lost>>
  BY DEF LinkInv, TypeOK, Exchange
<1>1. /\ rows' = [d \in 1 .. c |-> IF d = c THEN NewRow ELSE rows[d]]
      /\ proc' = [proc EXCEPT ![p].pc = "store", ![p].token = new]
  BY DEF Exchange, Issued
<1>2. NewRow \in Rows /\ NewRow.gen = 1
  BY <1>0, Bounds DEF NewRow, Rows
<1>3. /\ DOMAIN rows = 1 .. Issued /\ DOMAIN rows' = 1 .. c /\ c \in Nat /\ c \notin DOMAIN rows
      /\ DOMAIN rows \subseteq DOMAIN rows' /\ c \in DOMAIN rows'
  BY <1>0, <1>1
<1>4. rows' \in [1 .. c -> Rows] /\ rows'[c].gen = 1 /\ \A d \in DOMAIN rows : rows'[d] = rows[d]
  BY <1>0, <1>1, <1>2
<1>5. Issued' = c
  BY <1>0, <1>3, FS_Interval DEF Issued
<1>6. IssuedTokens \subseteq IssuedTokens'
  BY <1>3 DEF IssuedTokens
<1>7. new \in IssuedTokens' /\ new.cred = c /\ new.gen = 1
  BY <1>0, <1>3, Bounds DEF Token, IssuedTokens
<1>. HIDE DEF new, c
<1>8. r \in Commands' /\ r.pc = "store" /\ r.token = new
  BY <1>0, <1>6, <1>7 DEF Commands
<1>9. Commands \subseteq Commands'
  BY <1>6 DEF Commands
<1>10. proc' \in [Procs -> Commands'] /\ Others(p) /\ proc'[p] = r
  BY <1>0, <1>1, <1>8, <1>9 DEF TypeOK, Others
<1>11. /\ limit' = limit /\ now' = now /\ starts' = starts /\ machines' = machines /\ lock' = lock
       /\ paid' = paid /\ file' = file /\ config' = config /\ faults' = faults /\ lost' = lost
  BY <1>0 DEF bounds, local
<1>12. TypeOK'
  <2>1. \A q \in Procs : proc'[q].pc \in {"refresh", "save", "request", "store"} =>
            proc'[q].token \in IssuedTokens'
    BY <1>0, <1>6, <1>7, <1>8, <1>10 DEF Others, TypeOK, Bearing
  <2>2. Issued' \in Nat /\ rows' \in [1 .. Issued' -> Rows']
    BY <1>3, <1>4, <1>5 DEF Rows
  <2>3. file' \in IssuedTokens' \cup {None} /\ lost' \subseteq DOMAIN rows'
    BY <1>0, <1>3, <1>6, <1>11 DEF TypeOK
  <2>. QED
    BY <1>0, <1>10, <1>11, <2>1, <2>2, <2>3 DEF TypeOK, Bearing
<1>13. \A q \in Procs : q # p => proc'[q] = proc[q]
                              /\ (proc[q].pc \in Holders => proc[q].token.cred \in DOMAIN rows)
  BY <1>0, <1>10 DEF Others, TypeOK, Bearing, Holders, IssuedTokens
<1>14. file # None => file.cred \in DOMAIN rows
  BY <1>0 DEF TypeOK, IssuedTokens
<1>15. Excluded'
  BY <1>8, <1>10, <1>11, <1>13 DEF LinkInv, Excluded, InsideLock
<1>16. Newest'
  <2>1. rows'[proc'[p].token.cred].gen = proc'[p].token.gen
    BY <1>4, <1>7, <1>8, <1>10
  <2>2. \A q \in Procs : q # p /\ proc'[q].pc \in {"save", "store"} =>
            rows'[proc'[q].token.cred].gen = proc'[q].token.gen
    BY <1>4, <1>13 DEF LinkInv, Newest, Holders
  <2>. QED
    BY <2>1, <2>2 DEF Newest
<1>17. Unshared'
  <2>1. proc'[p].token.cred = c /\ (file' # None => file'.cred # c)
    BY <1>3, <1>7, <1>8, <1>10, <1>11, <1>14
  <2>2. \A q \in Procs : q # p /\ proc'[q].pc \in Holders => proc'[q].token.cred # c
    BY <1>3, <1>13
  <2>3. \A q \in Procs : q # p /\ proc'[q].pc = "store" =>
            /\ file' # None => file'.cred # proc'[q].token.cred
            /\ \A o \in Procs : o # q /\ o # p /\ proc'[o].pc \in Holders =>
                   proc'[o].token.cred # proc'[q].token.cred
    BY <1>11, <1>13 DEF LinkInv, Unshared
  <2>4. \A q \in Procs : q # p /\ proc'[q].pc = "store" => proc'[p].token.cred # proc'[q].token.cred
    BY <2>1, <2>2 DEF Holders
  <2>. QED
    BY <2>1, <2>2, <2>3, <2>4 DEF Unshared
<1>18. TokenIsCurrent'
  <2>1. \A q \in Procs : proc'[q].pc = "refresh" =>
           rows'[proc'[q].token.cred].gen = proc'[q].token.gen \/ proc'[q].token.cred \in lost'
    <3>. TAKE q \in Procs
    <3>1. CASE q = p
      BY <1>8, <1>10, <3>1
    <3>2. CASE q # p
      <4>1. proc'[q] = proc[q] /\ (proc[q].pc = "refresh" => proc[q].token.cred \in DOMAIN rows)
        BY <1>13, <3>2 DEF Holders
      <4>2. proc[q].pc = "refresh" =>
              rows[proc[q].token.cred].gen = proc[q].token.gen \/ proc[q].token.cred \in lost
        BY DEF LinkInv, TokenIsCurrent
      <4>. QED
        BY <1>4, <1>11, <4>1, <4>2
    <3>. QED
      BY <3>1, <3>2
  <2>2. \A q \in Procs : proc[q].pc = "save" => proc'[q] = proc[q]
    BY <1>0, <1>13
  <2>3. file # None => \/ rows'[file.cred].gen = file.gen
                       \/ \E q \in Procs : proc'[q].pc = "save" /\ proc'[q].token.cred = file.cred
                       \/ file.cred \in lost
    BY <1>4, <1>14, <2>2 DEF LinkInv, TokenIsCurrent
  <2>. QED
    BY <1>11, <2>1, <2>3 DEF TokenIsCurrent
<1>. QED
  BY <1>12, <1>15, <1>16, <1>17, <1>18 DEF LinkInv

-----------------------------------------------------------------------------
LEMMA InitLinked == Init => LinkInv
<1>. SUFFICES ASSUME Init
              PROVE  LinkInv
  OBVIOUS
<1>1. /\ limit \in Limits /\ now = 0 /\ machines = 1 /\ paid \in BOOLEAN /\ lock = FALSE /\ starts = 0
      /\ faults = 0 /\ lost = {} /\ proc = [p \in Procs |-> Idle] /\ config \in Nat \cup {None}
  BY BoundsAssumption DEF Init
<1>2. proc \in [Procs -> Commands] /\ \A p \in Procs : proc[p].pc = "idle"
  BY <1>1, IdleIsCommand
<1>3. Excluded /\ Newest /\ Unshared
  BY <1>2 DEF Excluded, Newest, Unshared, InsideLock
<1>4. NewRow \in Rows /\ NewRow.gen = 1
  BY <1>1, Bounds DEF NewRow, Rows
<1>5. CASE limit.linked
  <2>1. rows = <<NewRow>> /\ file = Token(1, 1)
    BY <1>5 DEF Init
  <2>. HIDE DEF NewRow
  <2>2. DOMAIN rows = 1 .. 1 /\ rows \in [1 .. 1 -> Rows] /\ rows[1].gen = 1
    BY <1>4, <2>1
  <2>3. Issued = 1
    <3>1. DOMAIN rows = {1}
      BY <2>2
    <3>. QED
      BY <3>1, FS_Singleton DEF Issued
  <2>4. file \in IssuedTokens /\ file.cred = 1 /\ file.gen = 1
    BY <1>1, <2>1, <2>2, Bounds DEF Token, IssuedTokens
  <2>5. TypeOK
    BY <1>1, <1>2, <2>2, <2>3, <2>4 DEF TypeOK, Bearing
  <2>6. TokenIsCurrent
    BY <1>2, <2>2, <2>4 DEF TokenIsCurrent
  <2>. QED
    BY <1>3, <2>5, <2>6 DEF LinkInv
<1>6. CASE ~limit.linked
  <2>1. rows = <<>> /\ file = None
    BY <1>6 DEF Init
  <2>2. DOMAIN rows = 1 .. 0 /\ rows \in [1 .. 0 -> Rows]
    BY <2>1
  <2>3. Issued = 0
    <3>1. DOMAIN rows = {}
      BY <2>2
    <3>. QED
      BY <3>1, FS_EmptySet DEF Issued
  <2>5. TypeOK
    BY <1>1, <1>2, <2>1, <2>2, <2>3 DEF TypeOK, Bearing
  <2>6. TokenIsCurrent
    BY <1>2, <2>1 DEF TokenIsCurrent
  <2>. QED
    BY <1>3, <2>5, <2>6 DEF LinkInv
<1>. QED
  BY <1>5, <1>6

LEMMA ClockKeeps ==
    ASSUME LinkInv, Tick \/ Pay \/ UNCHANGED vars
    PROVE  LinkInv'
<1>0. TypeOK
  BY DEF LinkInv
<1>1. /\ limit' = limit /\ rows' = rows /\ machines' = machines /\ file' = file /\ lock' = lock
      /\ config' = config /\ proc' = proc /\ starts' = starts /\ faults' = faults /\ lost' = lost
  BY DEF Tick, Pay, vars, bounds, server, local
<1>2. now' \in Nat /\ paid' \in BOOLEAN
  <2>1. now \in Nat /\ paid \in BOOLEAN
    BY <1>0 DEF TypeOK
  <2>2. CASE Tick
    BY <2>1, <2>2 DEF Tick, server
  <2>3. CASE Pay \/ UNCHANGED vars
    BY <2>1, <2>3 DEF Pay, vars, bounds, server
  <2>. QED
    BY <2>2, <2>3
<1>3. TypeOK'
  BY <1>0, <1>1, <1>2, StaysTyped DEF TypeOK, Bearing
<1>. QED
  BY <1>1, <1>3, NobodyKeeps

LEMMA LinkNext == LinkInv /\ [Next]_vars => LinkInv'
<1>. SUFFICES ASSUME LinkInv, [Next]_vars
              PROVE  LinkInv'
  OBVIOUS
<1>1. CASE Tick \/ Pay \/ UNCHANGED vars
  BY <1>1, ClockKeeps
<1>2. ASSUME NEW p \in Procs, Step(p)
      PROVE  LinkInv'
  BY <1>2, ReadKeeps, LockKeeps, RereadKeeps, RefreshKeeps, SaveKeeps, RequestKeeps, RemovesKeep,
     ForgetKeeps, PollKeeps, ExchangeKeeps, StoreKeeps DEF Step
<1>3. ASSUME NEW p \in Procs, Denied(p) \/ Lost(p) \/ Kill(p)
      PROVE  LinkInv'
  BY <1>3, FaultKeeps
<1>4. ASSUME NEW p \in Procs, NEW op \in limit.ops, Start(p, op)
      PROVE  LinkInv'
  BY <1>4, StartKeeps
<1>. QED
  BY <1>1, <1>2, <1>3, <1>4 DEF Next

(* The variables keep their types, and every token names a credential that *)
(* the server has issued: the whole behaviour of the link is well defined. *)
THEOREM LinkTypes == Spec => []TypeOK
<1>1. LinkInv => TypeOK
  BY DEF LinkInv
<1>. QED
  BY <1>1, InitLinked, LinkNext, PTL DEF Spec

(* credentials.ts:89-143: no refresh presents a used token, and the stored *)
(* one is the newest but for a lost answer or a kill.                      *)
THEOREM TokensStayCurrent == Spec => []TokenIsCurrent
<1>1. LinkInv => TokenIsCurrent
  BY DEF LinkInv
<1>. QED
  BY <1>1, InitLinked, LinkNext, PTL DEF Spec

-----------------------------------------------------------------------------
(* Whoever does not poll after a step did not start to by that step.       *)
Apart(p) == Others(p) /\ (proc'[p].pc = "poll" => proc'[p] = proc[p])

LEMMA CommandsOf == TypeOK => \A p \in Procs : proc[p] \in Commands /\ proc \in [Procs -> Commands]
BY DEF TypeOK

LEMMA EndsApart ==
    ASSUME TypeOK, NEW p \in Procs, Ends(p)
    PROVE  Apart(p)
BY IdleIsCommand DEF TypeOK, Ends, Apart, Others

LEMMA GoesApart ==
    ASSUME TypeOK, NEW p \in Procs, NEW pc, pc # "poll", Goes(p, pc)
    PROVE  Apart(p)
BY CommandsOf DEF Goes, Apart, Others, Commands

LEMMA AsksApart ==
    ASSUME TypeOK, NEW p \in Procs, NEW stage, Asks(p, stage)
    PROVE  Apart(p)
BY CommandsOf DEF Asks, Apart, Others, Commands

LEMMA UnauthorizedApart ==
    ASSUME TypeOK, NEW p \in Procs, Unauthorized(p)
    PROVE  Apart(p)
<1>1. "forget" # "poll" /\ "remove" # "poll"
  OBVIOUS
<1>. QED
  BY <1>1, EndsApart, GoesApart DEF Unauthorized

LEMMA StatusApart ==
    ASSUME TypeOK, NEW p \in Procs, Status(p)
    PROVE  Apart(p)
BY EndsApart, AsksApart DEF Status, Recover, UploadReady

LEMMA AnswerApart ==
    ASSUME TypeOK, NEW p \in Procs, Answer(p)
    PROVE  Apart(p)
<1>0. proc[p] \in Commands /\ proc \in [Procs -> Commands] /\ "remove" # "poll"
  BY CommandsOf
<1>1. CASE proc[p].stage = "sync"
  BY <1>1, EndsApart DEF Answer
<1>2. CASE proc[p].stage \in {"status", "wait"}
  BY <1>2, StatusApart DEF Answer
<1>3. CASE proc[p].stage = "checkout"
  <2>1. proc' = [proc EXCEPT ![p] = [@ EXCEPT !.pc = "read", !.stage = "wait",
                                              !.deadline = now + CheckoutTimeout]]
    BY <1>3 DEF Answer
  <2>. QED
    BY <1>0, <2>1 DEF Apart, Others, Commands
<1>4. CASE proc[p].stage = "machine"
  BY <1>4, EndsApart DEF Answer
<1>5. CASE proc[p].stage = "revoke"
  <2>1. Goes(p, "remove")
    BY <1>5 DEF Answer
  <2>. QED
    BY <1>0, <2>1, GoesApart
<1>. QED
  BY <1>0, <1>1, <1>2, <1>3, <1>4, <1>5 DEF Commands

(* Every step but those of the device flow itself.                         *)
LEMMA StepsApart ==
    ASSUME TypeOK, NEW p \in Procs,
           \/ Read(p) \/ Lock(p) \/ Reread(p) \/ Refresh(p) \/ Save(p) \/ Request(p)
           \/ Remove(p) \/ ForgetRemote(p) \/ Exchange(p) \/ Store(p)
           \/ Denied(p) \/ Lost(p) \/ Kill(p) \/ \E op \in limit.ops : Start(p, op)
    PROVE  Apart(p)
<1>0. proc[p] \in Commands /\ proc \in [Procs -> Commands]
      /\ "reread" # "poll" /\ "request" # "poll" /\ "forgetRemote" # "poll"
  BY CommandsOf
<1>1. CASE Read(p) \/ Lock(p)
  <2>1. ASSUME proc' = [proc EXCEPT ![p].pc = "request", ![p].token = file]
               \/ proc' = [proc EXCEPT ![p].pc = "lock", ![p].attempts = 0]
               \/ (proc' = [proc EXCEPT ![p].attempts = @ + 1] /\ proc[p].pc = "lock")
        PROVE  Apart(p)
    BY <1>0, <2>1 DEF Apart, Others, Commands
  <2>. QED
    BY <1>0, <1>1, <2>1, EndsApart, GoesApart, UnauthorizedApart DEF Read, Lock
<1>2. CASE Reread(p) \/ Refresh(p)
  <2>1. ASSUME NEW token,
               \/ proc' = [proc EXCEPT ![p].pc = "request", ![p].token = token]
               \/ proc' = [proc EXCEPT ![p].pc = "refresh", ![p].token = token]
               \/ proc' = [proc EXCEPT ![p].pc = "save", ![p].token = token]
        PROVE  Apart(p)
    BY <1>0, <2>1 DEF Apart, Others, Commands
  <2>. QED
    BY <1>2, <2>1, UnauthorizedApart DEF Reread, Refresh
<1>3. CASE Save(p) \/ Remove(p)
  BY <1>0, <1>3, GoesApart DEF Save, Remove
<1>4. CASE Request(p)
  BY <1>4, AnswerApart, UnauthorizedApart DEF Request
<1>5. CASE ForgetRemote(p) \/ Denied(p) \/ Lost(p) \/ Kill(p)
  BY <1>5, EndsApart DEF ForgetRemote, Denied, Lost, Kill
<1>6. CASE Exchange(p)
  <2>1. ASSUME NEW token, proc' = [proc EXCEPT ![p].pc = "store", ![p].token = token]
        PROVE  Apart(p)
    BY <1>0, <2>1 DEF Apart, Others, Commands
  <2>. QED
    BY <1>6, <2>1 DEF Exchange
<1>7. CASE Store(p)
  BY <1>7, EndsApart, AsksApart DEF Store, Recover
<1>8. CASE \E op \in limit.ops : Start(p, op)
  <2>1. PICK op \in limit.ops : Start(p, op)
    BY <1>8
  <2>. DEFINE stage == CASE op = "sync" -> "sync" [] op = "unlink" -> "revoke" [] OTHER -> "status"
              r == [Idle EXCEPT !.pc = "read", !.op = op, !.config = config,
                                !.first = op \in {"link", "recover"}, !.stage = stage]
  <2>2. proc' = [proc EXCEPT ![p] = r]
    BY <2>1 DEF Start
  <2>3. r.pc = "read"
    BY DEF Idle
  <2>. HIDE DEF r
  <2>. QED
    BY <1>0, <2>2, <2>3 DEF Apart, Others
<1>. QED
  BY <1>1, <1>2, <1>3, <1>4, <1>5, <1>6, <1>7, <1>8

(* A network error may not bring the interval below what was asked for,    *)
(* nor below the limit of the client.                                      *)
LEMMA BackoffKeepsUp ==
    ASSUME NEW current \in Nat, NEW demanded \in Nat, current >= Least(demanded, MaxBackoff)
    PROVE  /\ current + SlowDown >= Least(demanded + SlowDown, MaxBackoff)
           /\ Least(current * 2, MaxBackoff) >= Least(demanded, MaxBackoff)
BY Bounds DEF Least

LEMMA HonouredNext == TypeOK /\ SlowDownIsHonoured /\ [Next]_vars => SlowDownIsHonoured'
<1>. SUFFICES ASSUME TypeOK, SlowDownIsHonoured, [Next]_vars,
                     NEW q \in Procs, proc'[q].pc = "poll"
              PROVE  proc'[q].interval >= Least(proc'[q].demanded, MaxBackoff)
  BY DEF SlowDownIsHonoured
<1>0. proc[q] \in Commands /\ proc \in [Procs -> Commands]
  BY CommandsOf
<1>1. CASE proc'[q] = proc[q]
  BY <1>1 DEF SlowDownIsHonoured
<1>2. CASE Forget(q)
  <2>1. proc'[q].interval = FirstInterval /\ proc'[q].demanded = FirstInterval
    BY <1>0, <1>2 DEF Forget, Commands
  <2>. QED
    BY <2>1, Bounds DEF Least
<1>3. CASE Poll(q) /\ proc'[q] # proc[q]
  <2>1. proc[q].pc = "poll"
    BY <1>3 DEF Poll
  <2>2. proc[q].interval >= Least(proc[q].demanded, MaxBackoff)
    BY <2>1 DEF SlowDownIsHonoured
  <2>3. ~Ends(q) /\ ~Goes(q, "exchange")
    BY <1>0, IdleIsCommand DEF Ends, Goes, Commands
  <2>4. PICK outcome \in limit.outcomes :
          LET interval == NextInterval(proc[q].interval, outcome) IN
          proc' = [proc EXCEPT ![q] =
                     [proc[q] EXCEPT !.interval = interval,
                                     !.demanded = IF outcome = "slow" THEN proc[q].demanded + SlowDown
                                                  ELSE proc[q].demanded,
                                     !.wake = now + Least(interval, proc[q].deadline - now)]]
    BY <1>3, <2>3 DEF Poll
  <2>5. /\ proc'[q].interval = NextInterval(proc[q].interval, outcome)
        /\ proc'[q].demanded = IF outcome = "slow" THEN proc[q].demanded + SlowDown ELSE proc[q].demanded
    BY <1>0, <2>4 DEF Commands
  <2>6. proc[q].interval \in Nat /\ proc[q].demanded \in Nat
    BY <1>0 DEF Commands
  <2>7. /\ proc[q].interval + SlowDown >= Least(proc[q].demanded + SlowDown, MaxBackoff)
        /\ Least(proc[q].interval * 2, MaxBackoff) >= Least(proc[q].demanded, MaxBackoff)
    BY <2>2, <2>6, BackoffKeepsUp
  <2>8. CASE outcome = "slow"
    BY <2>5, <2>7, <2>8 DEF NextInterval
  <2>9. CASE outcome = "network"
    BY <2>5, <2>7, <2>9 DEF NextInterval
  <2>10. CASE outcome \notin {"slow", "network"}
    BY <2>2, <2>5, <2>10 DEF NextInterval
  <2>. QED
    BY <2>8, <2>9, <2>10
<1>4. CASE UNCHANGED proc
  BY <1>4 DEF SlowDownIsHonoured
<1>5. CASE \E p \in Procs : Apart(p)
  <2>1. proc'[q] = proc[q]
    BY <1>5 DEF Apart, Others
  <2>. QED
    BY <2>1, <1>1
<1>6. CASE \E p \in Procs : Forget(p) \/ Poll(p)
  <2>1. PICK p \in Procs : Forget(p) \/ Poll(p)
    BY <1>6
  <2>2. CASE p = q
    BY <1>1, <1>2, <1>3, <2>1, <2>2
  <2>3. CASE p # q
    <3>1. proc'[q] = proc[q]
      BY <1>0, <2>1, <2>3 DEF Forget, Poll, Ends, Goes
    <3>. QED
      BY <1>1, <3>1
  <2>. QED
    BY <2>2, <2>3
<1>7. \/ UNCHANGED proc
      \/ \E p \in Procs : Apart(p)
      \/ \E p \in Procs : Forget(p) \/ Poll(p)
  <2>1. CASE Tick \/ Pay \/ UNCHANGED vars
    BY <2>1 DEF Tick, Pay, vars
  <2>2. CASE \E p \in Procs : \/ Step(p) \/ Denied(p) \/ Lost(p) \/ Kill(p)
                              \/ \E op \in limit.ops : Start(p, op)
    BY <2>2, StepsApart DEF Step
  <2>. QED
    BY <2>1, <2>2 DEF Next
<1>. QED
  BY <1>4, <1>5, <1>6, <1>7

(* A client polls no faster than GitHub has asked it to (device-flow.ts:   *)
(* 45), up to its own limit, in every order of answers and errors.         *)
THEOREM PollsAreHonoured == Spec => []SlowDownIsHonoured
<1>1. Init => SlowDownIsHonoured
  <2>1. Init => \A p \in Procs : proc[p].pc = "idle"
    BY IdleIsCommand DEF Init
  <2>. QED
    BY <2>1 DEF SlowDownIsHonoured
<1>2. LinkInv => TypeOK
  BY DEF LinkInv
<1>. QED
  BY <1>1, <1>2, InitLinked, LinkNext, HonouredNext, PTL DEF Spec
=============================================================================
