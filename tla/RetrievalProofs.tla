-------------------------- MODULE RetrievalProofs --------------------------
(* Proofs about SyncLock, for any number of processes and of polls, and about
   Retrieval, for any files, layouts, versions and commands and for any
   bounds.  In Retrieval the lock is held or free; what its file goes through
   is SyncLock's.                                                           *)
EXTENDS SyncLock, Retrieval, SequenceTheorems, WellFoundedInduction, TLAPS

-----------------------------------------------------------------------------
(* The lock file: who holds it, and what a caller has learnt on its way      *)

(* As long as no file has been taken away, whoever is inside owns it.      *)
HoldsFile == ~stolen => \A p \in Processes : Inside(p) => lockFile = p

(* Somebody has been let in: once true, this stays true.                   *)
Somebody == \E q \in Processes : pc[q] \in {"fn", "ran", "crashed"}

(* What a process has learnt on its way to being turned away.              *)
GhostStaysDead == Ghost \notin running
OwnerWasIn == \A p \in Processes : owner[p] \in Processes => Somebody
JudgesSomeone == \A p \in Processes : pc[p] = "judge" => owner[p] # Nobody
WaitsForSomebody ==
    \A p \in Processes : pc[p] \in {"poll", "refused"} \/ polls[p] > 0 => Somebody
GhostIsBroken == \A p \in Processes : pc[p] = "retry" => lockFile # Ghost

Learnt == OwnerWasIn /\ JudgesSomeone /\ GhostIsBroken
LetIn == GhostStaysDead /\ WaitsForSomebody

-----------------------------------------------------------------------------
(* Every value of every variable has its type.                             *)
LEMMA LockTypeStep == LockTypeOK /\ [LockNext]_lockVars => LockTypeOK'
<1>. SUFFICES ASSUME LockTypeOK, [LockNext]_lockVars PROVE LockTypeOK'
  OBVIOUS
<1>. USE PidsAssumption, MaxPollsAssumption DEF LockTypeOK, Pids, Before, Ended, Goto
<1>1. CASE UNCHANGED lockVars
  BY <1>1 DEF lockVars, local
<1>2. ASSUME NEW p \in Processes, Invoke(p) PROVE LockTypeOK'
  <2>1. PICK m \in Modes : waits' = [waits EXCEPT ![p] = m = "wait"]
    BY <1>2 DEF Invoke
  <2>2. (m = "wait") \in BOOLEAN
    OBVIOUS
  <2>3. waits' \in [Processes -> BOOLEAN]
    BY <2>1, <2>2, Zenon
  <2>. QED
    BY <1>2, <2>3 DEF Invoke
<1>3. ASSUME NEW p \in Processes, LockStep(p) PROVE LockTypeOK'
  <2>1. CASE TryAcquire(p)
    BY <2>1 DEF TryAcquire, Link, local
  <2>2. CASE ReadOwner(p)
    BY <2>2 DEF ReadOwner
  <2>3. CASE JudgeOwner(p)
    BY <2>3 DEF JudgeOwner, local
  <2>4. CASE BreakLock(p)
    <3>1. (\E q \in Processes : lockFile = q /\ Inside(q)) \in BOOLEAN
      OBVIOUS
    <3>2. stolen' \in BOOLEAN
      BY <2>4, <3>1, Zenon DEF BreakLock
    <3>. QED
      BY <2>4, <3>2 DEF BreakLock, local
  <2>5. CASE RetryAcquire(p)
    BY <2>5 DEF RetryAcquire, Link, local
  <2>6. CASE Poll(p)
    BY <2>6 DEF Poll, Link
  <2>7. CASE GiveUpLock(p)
    BY <2>7 DEF GiveUpLock, local
  <2>. QED
    BY <1>3, <2>1, <2>2, <2>3, <2>4, <2>5, <2>6, <2>7 DEF LockStep
<1>4. ASSUME NEW p \in Processes, Leave(p) PROVE LockTypeOK'
  BY <1>4 DEF Leave, local, Inside
<1>5. ASSUME NEW p \in Processes, WaitInstead(p) PROVE LockTypeOK'
  BY <1>5 DEF WaitInstead
<1>6. ASSUME NEW p \in Processes, Exit(p) PROVE LockTypeOK'
  BY <1>6 DEF Exit, local
<1>7. ASSUME NEW p \in Processes, Crash(p) PROVE LockTypeOK'
  BY <1>7 DEF Crash, local
<1>8. CASE ReusePid
  BY <1>8 DEF ReusePid, local, Dead, Killed
<1>9. CASE OtherProgramEnds
  BY <1>9 DEF OtherProgramEnds, local
<1>. QED
  BY <1>1, <1>2, <1>3, <1>4, <1>5, <1>6, <1>7, <1>8, <1>9 DEF LockNext

-----------------------------------------------------------------------------
(***************************************************************************)
(* Every step, seen from the lock file and the program counters, is one of *)
(* five: a process links the file, breaks it, leaves, is killed, or goes   *)
(* somewhere else outside of fn.                                           *)
(***************************************************************************)
Elsewhere == (Before \cup {"refused"}) \ {"retry"}

Links(p) ==
    /\ lockFile = Nobody
    /\ lockFile' = p
    /\ pc[p] \in Before
    /\ pc' = [pc EXCEPT ![p] = "fn"]
    /\ UNCHANGED stolen

Moves(p) ==
    /\ pc[p] \notin {"fn", "ran", "crashed"}
    /\ \E there \in Elsewhere : pc' = [pc EXCEPT ![p] = there]
    /\ UNCHANGED <<lockFile, stolen>>

LEMMA LockShapes ==
    ASSUME LockTypeOK, [LockNext]_lockVars
    PROVE  \/ UNCHANGED <<lockFile, pc, stolen>>
           \/ \E p \in Processes :
                Links(p) \/ BreakLock(p) \/ Leave(p) \/ Crash(p) \/ Moves(p)
<1>. USE DEF LockTypeOK, Goto, Before, Elsewhere
<1>1. CASE UNCHANGED lockVars
  BY <1>1 DEF lockVars
<1>2. ASSUME NEW p \in Processes, Invoke(p) PROVE Moves(p)
  BY <1>2 DEF Invoke, Moves
<1>3. ASSUME NEW p \in Processes, TryAcquire(p) PROVE Links(p) \/ Moves(p)
  BY <1>3 DEF TryAcquire, Link, Links, Moves
<1>4. ASSUME NEW p \in Processes, ReadOwner(p) PROVE Moves(p)
  BY <1>4 DEF ReadOwner, Moves
<1>5. ASSUME NEW p \in Processes, JudgeOwner(p) PROVE Moves(p)
  BY <1>5 DEF JudgeOwner, Moves
<1>6. ASSUME NEW p \in Processes, RetryAcquire(p) PROVE Links(p) \/ Moves(p)
  BY <1>6 DEF RetryAcquire, Link, Links, Moves
<1>7. ASSUME NEW p \in Processes, Poll(p) PROVE Links(p) \/ Moves(p)
  BY <1>7 DEF Poll, Link, Links, Moves
<1>8. ASSUME NEW p \in Processes, GiveUpLock(p) PROVE Moves(p)
  BY <1>8 DEF GiveUpLock, Moves
<1>9. ASSUME NEW p \in Processes, WaitInstead(p) PROVE Moves(p)
  BY <1>9 DEF WaitInstead, Moves
<1>10. ASSUME NEW p \in Processes, Exit(p) PROVE UNCHANGED <<lockFile, pc, stolen>>
  BY <1>10 DEF Exit
<1>11. CASE ReusePid \/ OtherProgramEnds
  BY <1>11 DEF ReusePid, OtherProgramEnds
<1>. QED
  BY <1>1, <1>2, <1>3, <1>4, <1>5, <1>6, <1>7, <1>8, <1>9, <1>10, <1>11 DEF LockNext, LockStep

-----------------------------------------------------------------------------
(* The two invariants about the file and who is inside.                    *)
FileInv == LeftOnlyByCrash /\ HoldsFile

LEMMA FileStep == LockTypeOK /\ FileInv /\ [LockNext]_lockVars => FileInv'
<1>. SUFFICES ASSUME LockTypeOK, FileInv, [LockNext]_lockVars PROVE FileInv'
  OBVIOUS
<1>. USE DEF FileInv, LeftOnlyByCrash, HoldsFile, Inside, LockTypeOK
<1>1. CASE UNCHANGED <<lockFile, pc, stolen>>
  BY <1>1
<1>2. ASSUME NEW p \in Processes, Links(p) PROVE FileInv'
  BY <1>2, PidsAssumption DEF Links, Before
<1>3. ASSUME NEW p \in Processes, BreakLock(p) PROVE FileInv'
  <2>1. /\ lockFile' = Nobody
        /\ pc' = [pc EXCEPT ![p] = "retry"]
        /\ pc[p] = "break"
    BY <1>3 DEF BreakLock, Goto
  <2>2. ~stolen' => ~stolen /\ \A q \in Processes : ~(lockFile = q /\ Inside(q))
    BY <1>3, Zenon DEF BreakLock
  <2>. QED
    BY <2>1, <2>2, PidsAssumption
<1>4. ASSUME NEW p \in Processes, Leave(p) PROVE FileInv'
  BY <1>4, PidsAssumption DEF Leave, Goto
<1>5. ASSUME NEW p \in Processes, Crash(p) PROVE FileInv'
  <2>1. pc' = [pc EXCEPT ![p] = "crashed"] /\ UNCHANGED <<lockFile, stolen>>
    BY <1>5 DEF Crash, Goto
  <2>. QED
    BY <2>1
<1>6. ASSUME NEW p \in Processes, Moves(p) PROVE FileInv'
  <2>1. PICK there \in Elsewhere : pc' = [pc EXCEPT ![p] = there]
    BY <1>6 DEF Moves
  <2>2. there \notin {"fn", "ran", "crashed"}
    BY DEF Elsewhere, Before
  <2>3. pc[p] \notin {"fn", "ran", "crashed"} /\ UNCHANGED <<lockFile, stolen>>
    BY <1>6 DEF Moves
  <2>. QED
    BY <2>1, <2>2, <2>3
<1>. QED
  BY LockShapes, <1>1, <1>2, <1>3, <1>4, <1>5, <1>6

(* Somebody who was let in stays let in.                                   *)
LEMMA SomebodyStays ==
    ASSUME LockTypeOK, [LockNext]_lockVars, Somebody PROVE Somebody'
<1>. USE DEF Somebody, LockTypeOK
<1>1. PICK q \in Processes : pc[q] \in {"fn", "ran", "crashed"}
  OBVIOUS
<1>2. CASE UNCHANGED <<lockFile, pc, stolen>>
  BY <1>1, <1>2
<1>3. ASSUME NEW p \in Processes, Links(p) PROVE pc'[q] \in {"fn", "ran", "crashed"}
  BY <1>1, <1>3 DEF Links
<1>4. ASSUME NEW p \in Processes, BreakLock(p) PROVE pc'[q] \in {"fn", "ran", "crashed"}
  BY <1>1, <1>4 DEF BreakLock, Goto
<1>5. ASSUME NEW p \in Processes, Leave(p) PROVE pc'[q] \in {"fn", "ran", "crashed"}
  BY <1>1, <1>5 DEF Leave, Goto
<1>6. ASSUME NEW p \in Processes, Crash(p) PROVE pc'[q] \in {"fn", "ran", "crashed"}
  BY <1>1, <1>6 DEF Crash, Goto
<1>7. ASSUME NEW p \in Processes, Moves(p) PROVE pc'[q] \in {"fn", "ran", "crashed"}
  <2>1. pc[p] \notin {"fn", "ran", "crashed"}
    BY <1>7 DEF Moves
  <2>2. pc'[q] = pc[q]
    BY <1>1, <1>7, <2>1 DEF Moves
  <2>. QED
    BY <1>1, <2>2
<1>. QED
  BY LockShapes, <1>2, <1>3, <1>4, <1>5, <1>6, <1>7

(* The pid a process has read is that of a process that was let in.        *)
LEMMA LearntStep ==
    LockTypeOK /\ FileInv /\ Learnt /\ [LockNext]_lockVars => Learnt'
<1>. SUFFICES ASSUME LockTypeOK, FileInv, Learnt, [LockNext]_lockVars PROVE Learnt'
  OBVIOUS
<1>1. lockFile \in Processes => Somebody
  BY DEF FileInv, LeftOnlyByCrash, Somebody
<1>2. OwnerWasIn'
  <2>1. SUFFICES ASSUME NEW p \in Processes, owner'[p] \in Processes PROVE Somebody'
    BY DEF OwnerWasIn
  <2>2. owner'[p] = owner[p] \/ owner'[p] = lockFile
    BY DEF LockTypeOK, LockNext, LockStep, lockVars, local, Invoke, TryAcquire, ReadOwner, JudgeOwner,
           BreakLock, RetryAcquire, Poll, GiveUpLock, Leave, WaitInstead, Exit, Crash,
           ReusePid, OtherProgramEnds
  <2>. QED
    BY <1>1, <2>1, <2>2, SomebodyStays DEF Learnt, OwnerWasIn
<1>3. JudgesSomeone'
  <2>1. SUFFICES ASSUME NEW p \in Processes, pc'[p] = "judge" PROVE owner'[p] # Nobody
    BY DEF JudgesSomeone
  <2>2. CASE pc[p] = "judge"
    <3>1. UNCHANGED owner \/ \E q \in Processes : ReadOwner(q)
      BY DEF LockNext, LockStep, lockVars, local, Invoke, TryAcquire, JudgeOwner,
             BreakLock, RetryAcquire, Poll, GiveUpLock, Leave, WaitInstead, Exit, Crash,
             ReusePid, OtherProgramEnds
    <3>2. owner'[p] = owner[p]
      BY <2>2, <3>1 DEF ReadOwner, LockTypeOK
    <3>. QED
      BY <2>2, <3>2 DEF Learnt, JudgesSomeone
  <2>3. CASE pc[p] # "judge"
    <3>1. ReadOwner(p)
      BY <2>1, <2>3 DEF LockTypeOK, LockNext, LockStep, lockVars, local, Invoke, TryAcquire, ReadOwner,
             JudgeOwner, BreakLock, RetryAcquire, Link, Goto, Poll, GiveUpLock, Leave,
             WaitInstead, Exit, Crash, ReusePid, OtherProgramEnds
    <3>. QED
      BY <2>1, <3>1 DEF ReadOwner, Goto, LockTypeOK
  <2>. QED
    BY <2>2, <2>3
<1>4. GhostIsBroken'
  <2>. USE DEF LockTypeOK, Goto
  <2>1. SUFFICES ASSUME NEW p \in Processes, pc'[p] = "retry" PROVE lockFile' # Ghost
    BY DEF GhostIsBroken
  <2>2. lockFile # Ghost => lockFile' # Ghost
    BY LockShapes, PidsAssumption DEF Links, BreakLock, Leave, Crash, Moves
  <2>3. CASE pc[p] = "retry"
    BY <2>2, <2>3 DEF Learnt, GhostIsBroken
  <2>4. CASE pc[p] # "retry"
    <3>1. \A q \in Processes : ~(Links(q) \/ Leave(q) \/ Crash(q) \/ Moves(q))
      BY <2>1, <2>4 DEF Links, Leave, Crash, Moves, Elsewhere
    <3>2. \E q \in Processes : BreakLock(q)
      BY <2>1, <2>4, <3>1, LockShapes
    <3>. QED
      BY <3>2, PidsAssumption DEF BreakLock
  <2>. QED
    BY <2>3, <2>4
<1>. QED
  BY <1>2, <1>3, <1>4 DEF Learnt

(* While pids are not reused, every way of being turned away, or of being  *)
(* kept waiting, goes through a process that was let in.                   *)
LEMMA LetInStep ==
    LockTypeOK /\ FileInv /\ Learnt /\ (~reused => LetIn) /\ [LockNext]_lockVars => (~reused' => LetIn')
<1>. SUFFICES ASSUME LockTypeOK, FileInv, Learnt, ~reused => LetIn, [LockNext]_lockVars, ~reused'
              PROVE  LetIn'
  OBVIOUS
<1>0. LetIn
  BY DEF LockTypeOK, LockNext, LockStep, lockVars, local, Invoke, TryAcquire, ReadOwner, JudgeOwner, BreakLock,
     RetryAcquire, Poll, GiveUpLock, Leave, WaitInstead, Exit, Crash, ReusePid, OtherProgramEnds
<1>. USE <1>0
<1>1. lockFile \in Processes => Somebody
  BY DEF FileInv, LeftOnlyByCrash, Somebody
<1>2. GhostStaysDead'
  BY PidsAssumption DEF LetIn, GhostStaysDead, LockNext, LockStep, lockVars, local, Invoke, TryAcquire,
     ReadOwner, JudgeOwner, BreakLock, RetryAcquire, Poll, GiveUpLock, Leave, WaitInstead,
     Exit, Crash, ReusePid, OtherProgramEnds
<1>3. WaitsForSomebody'
  <2>. USE DEF LockTypeOK, Goto
  <2>1. SUFFICES ASSUME NEW p \in Processes,
                        pc'[p] \in {"poll", "refused"} \/ polls'[p] > 0,
                        ~Somebody
                 PROVE  FALSE
    BY SomebodyStays DEF WaitsForSomebody
  <2>2. pc[p] \notin {"poll", "refused"} /\ polls[p] = 0
    BY <2>1 DEF LetIn, WaitsForSomebody
  <2>3. \A q \in Processes : pc[q] \notin {"poll", "refused"}
    BY <2>1 DEF LetIn, WaitsForSomebody
  <2>4. lockFile \in {Ghost, Nobody}
    BY <1>1, <2>1 DEF Pids
  <2>5. ~JudgeOwner(p)
    <3>1. SUFFICES ASSUME JudgeOwner(p) PROVE FALSE
      OBVIOUS
    <3>2. owner[p] \in {Ghost}
      BY <3>1, <2>1 DEF JudgeOwner, Learnt, OwnerWasIn, JudgesSomeone, Pids
    <3>3. owner[p] \notin running
      BY <3>2 DEF LetIn, GhostStaysDead
    <3>. QED
      BY <2>1, <2>2, <3>1, <3>3 DEF JudgeOwner, local
  <2>6. ~RetryAcquire(p)
    <3>1. SUFFICES ASSUME RetryAcquire(p) PROVE FALSE
      OBVIOUS
    <3>2. lockFile = Nobody
      BY <2>4, <3>1 DEF RetryAcquire, Learnt, GhostIsBroken
    <3>. QED
      BY <2>1, <2>2, <3>1, <3>2 DEF RetryAcquire, Link, local
  <2>7. ASSUME NEW q \in Processes, q # p,
               Invoke(q) \/ LockStep(q) \/ Leave(q) \/ WaitInstead(q) \/ Exit(q) \/ Crash(q)
        PROVE  pc'[p] = pc[p] /\ polls'[p] = polls[p]
    BY <2>7 DEF LockStep, local, Invoke, TryAcquire, ReadOwner, JudgeOwner, BreakLock,
       RetryAcquire, Link, Poll, GiveUpLock, Leave, WaitInstead, Exit, Crash
  <2>8. CASE UNCHANGED lockVars \/ ReusePid \/ OtherProgramEnds
    BY <2>1, <2>2, <2>8 DEF lockVars, local, ReusePid, OtherProgramEnds
  <2>9. ~(Invoke(p) \/ TryAcquire(p) \/ ReadOwner(p) \/ BreakLock(p) \/ Poll(p)
            \/ GiveUpLock(p) \/ Leave(p) \/ WaitInstead(p) \/ Exit(p) \/ Crash(p))
    BY <2>1, <2>2 DEF Invoke, TryAcquire, Link, ReadOwner, BreakLock, Poll, GiveUpLock,
       Leave, WaitInstead, Exit, Crash, local
  <2>. QED
    BY <2>1, <2>2, <2>5, <2>6, <2>7, <2>8, <2>9 DEF LockNext, LockStep
<1>. QED
  BY <1>2, <1>3 DEF LetIn

-----------------------------------------------------------------------------
LEMMA LockInitially == LockInit => LockTypeOK /\ FileInv /\ Learnt /\ LetIn
<1>. SUFFICES ASSUME LockInit PROVE LockTypeOK /\ FileInv /\ Learnt /\ LetIn
  OBVIOUS
<1>1. LockTypeOK
  <2>1. waits \in [Processes -> BOOLEAN] /\ stolen \in BOOLEAN /\ reused \in BOOLEAN
    BY Zenon DEF LockInit
  <2>2. polls \in [Processes -> 0 .. MaxPolls] /\ 0 \in 0 .. MaxPolls
    BY MaxPollsAssumption DEF LockInit
  <2>3. pc \in [Processes -> Before \cup Ended \cup {"idle", "fn"}]
    BY DEF LockInit
  <2>4. lockFile \in Pids \cup {Nobody} /\ running \subseteq Pids
    BY DEF LockInit, Pids
  <2>5. owner \in [Processes -> Pids \cup {Nobody}]
    BY DEF LockInit
  <2>. QED
    BY <2>1, <2>2, <2>3, <2>4, <2>5 DEF LockTypeOK
<1>2. FileInv
  BY PidsAssumption DEF LockInit, FileInv, LeftOnlyByCrash, HoldsFile, Inside
<1>3. Learnt
  BY PidsAssumption DEF LockInit, Learnt, OwnerWasIn, JudgesSomeone, GhostIsBroken
<1>4. LetIn
  BY DEF LockInit, LetIn, GhostStaysDead, WaitsForSomebody
<1>. QED
  BY <1>1, <1>2, <1>3, <1>4

LEMMA LockInvariant == LockSpec => [](LockTypeOK /\ FileInv /\ Learnt)
<1>1. LockInit => LockTypeOK /\ FileInv /\ Learnt
  BY LockInitially
<1>2. LockTypeOK /\ FileInv /\ Learnt /\ [LockNext]_lockVars => (LockTypeOK /\ FileInv /\ Learnt)'
  BY LockTypeStep, FileStep, LearntStep
<1>. QED
  BY <1>1, <1>2, PTL DEF LockSpec

(* Only the breaking of a live owner's file lets two processes in at once, *)
(* for any number of callers of withLock, whatever crashes and reused pids.*)
THEOREM TheftOnly == LockSpec => []OverlapOnlyByTheft
<1>1. FileInv => OverlapOnlyByTheft
  BY DEF FileInv, HoldsFile, OverlapOnlyByTheft, OneAtATime
<1>. QED
  BY <1>1, LockInvariant, PTL

(* A lock file outlives its owner's run only by a crash (withLock's finally*)
(* removes it, or somebody else's that has taken its place).               *)
THEOREM FileIsRemoved == LockSpec => []LeftOnlyByCrash
<1>1. FileInv => LeftOnlyByCrash
  BY DEF FileInv
<1>. QED
  BY <1>1, LockInvariant, PTL

(* Callers are turned away only after somebody was let in, unless the pid  *)
(* of a dead owner is reused (the refusals of withLock).                   *)
THEOREM NeverAllRefused == LockSpec => []RefusedForAnother
<1>1. LockInit => LockTypeOK /\ FileInv /\ Learnt /\ (~reused => LetIn)
  BY LockInitially
<1>2. LockTypeOK /\ FileInv /\ Learnt /\ (~reused => LetIn) /\ [LockNext]_lockVars
          => (LockTypeOK /\ FileInv /\ Learnt /\ (~reused => LetIn))'
  BY LockTypeStep, FileStep, LearntStep, LetInStep
<1>3. (~reused => LetIn) => RefusedForAnother
  BY DEF LetIn, WaitsForSomebody, RefusedForAnother, Somebody
<1>. QED
  BY <1>1, <1>2, <1>3, PTL DEF LockSpec

-----------------------------------------------------------------------------
(* Types *)

Told  == UNION {{turns[i] : i \in DOMAIN turns} : turns \in Texts}
Pages == [shown : Seq(Told), next : {None} \cup [from : Nat, to : Int]]

Works ==
    [pc : {"idle", "done"} \cup Working, kind : Kinds \cup {"show", None}, fresh : BOOLEAN,
     cat : [Files -> {None} \cup Signatures \cup Versions], todo : SUBSET Nat, rows : Databases,
     answer : {None} \cup [Files -> Contents],
     of : {None} \cup [unit : Nat, turns : Texts, kept : BOOLEAN], pages : Seq(Pages),
     during : [Files -> SUBSET Contents], spoiled : BOOLEAN]

TypeOK ==
    /\ layout \in Layouts
    /\ archive \in [Files -> Versions \cup {None}] /\ record \in [Files -> Versions \cup {None}]
    /\ latest \in [Files -> Versions]
    /\ bad \subseteq Files /\ lost \subseteq Files /\ known \subseteq Files
    /\ main \in Databases \cup {None, Foreign} /\ wal \in Databases \cup {None}
    /\ lock \in Commands \cup {None} /\ opened \subseteq Commands
    /\ cmds \in [Commands -> Works] /\ mixed \in BOOLEAN
    /\ left \in [changes : Nat, faults : Nat, runs : Nat, kinds : SUBSET Kinds]

\* The catalog of a command is of records, then of signatures
CatIsTyped ==
    \A p \in Commands :
        /\ cmds[p].pc = "stat" => cmds[p].cat \in [Files -> Versions \cup {None}]
        /\ cmds[p].pc \in {"hash", "units"} => cmds[p].cat \in [Files -> {None} \cup Signatures]

\* Who pages reads a unit, and has shown a page of it
PagesAreTyped ==
    \A p \in Commands : cmds[p].pc = "page" =>
        /\ cmds[p].of \in [unit : Nat, turns : Texts, kept : BOOLEAN] /\ cmds[p].of.unit \in Units
        /\ cmds[p].pages # <<>>

-----------------------------------------------------------------------------
(* The archive, and who has the cache *)

ArchiveInv ==
    /\ \A f \in Files : archive[f] # None => archive[f] = latest[f]
    /\ \A f \in bad : archive[f] # None
    /\ bad \subseteq lost
    /\ \A f \in known : archive[f] # None

Locked == {"open", "stat", "hash", "units"}
Refreshes(p) == cmds[p].pc \in Working \ {"page"}

LockInv ==
    \A p \in Commands :
        /\ cmds[p].pc \in Locked => lock = p
        /\ Refreshes(p) => cmds[p].kind \in Kinds
        /\ cmds[p].pc = "reread" => cmds[p].kind = "query"

CacheInv ==
    /\ ~Servable => wal = None
    /\ opened # {} => Servable
    /\ \A p \in Commands :
         /\ cmds[p].pc \in {"stat", "units"} /\ ~cmds[p].fresh => Servable
         /\ cmds[p].pc = "hash" => cmds[p].fresh
         /\ cmds[p].pc \in {"stat", "hash"} /\ cmds[p].kind = "rebuild" => cmds[p].fresh
         /\ cmds[p].pc \notin {"units", "reread"} => \A f \in Files : cmds[p].rows[f] = None
         /\ cmds[p].pc # "done" => cmds[p].answer = None

-----------------------------------------------------------------------------
(* What the rows say *)

SeenInv == \A p \in Commands : Refreshes(p) => \A f \in Files : Held(f) \in cmds[p].during[f]

CatInv ==
    \A p \in Commands : cmds[p].pc \in {"hash", "units"} =>
        \A f \in Files :
            /\ cmds[p].cat[f] = None => None \in cmds[p].during[f]
            /\ cmds[p].cat[f] # None =>
                  /\ cmds[p].during[f] # {None}
                  /\ f \notin Raw => cmds[p].cat[f].stat \in Nat /\ cmds[p].cat[f].stat <= latest[f]
            /\ f \in known => cmds[p].cat[f] # None

\* By what is lost and what is the latest
SoundBy(f, row, gone, newest) ==
    row # None =>
        \/ f \in gone
        \/ /\ row.bytes \in Versions /\ row.bytes <= newest[f]
           /\ f \notin Raw => row.sig.stat <= row.bytes

SoundRow(f, row) == SoundBy(f, row, lost, latest)

RowsInv ==
    \A f \in Files :
        /\ Servable => SoundRow(f, main[f])
        /\ wal # None => SoundRow(f, wal[f])
        /\ \A p \in Commands : SoundRow(f, cmds[p].rows[f])

\* What a command of a kind may answer for a file it has seen so
GoodBy(kind, seen, gone, f, bytes) ==
    \/ bytes \in seen
    \/ /\ kind # "rebuild"
       /\ f \in gone \/ (f \in Raw /\ bytes # None /\ seen # {None})

Good(p, f, bytes) == GoodBy(cmds[p].kind, cmds[p].during[f], lost, f, bytes)

\* A row that is as it should be, after its unit's turn
GoodRow(p, f, row) ==
    /\ cmds[p].cat[f] = None => row = None
    /\ cmds[p].cat[f] # None => row # None /\ Good(p, f, row.bytes)

WorkInv ==
    \A p \in Commands : cmds[p].pc = "units" /\ (cmds[p].fresh \/ ~mixed) =>
        \A f \in Files : unitOf[f] \notin cmds[p].todo => GoodRow(p, f, Rows(p)[f])

\* While a query waits to read, others may replace what it reads
FreshRows ==
    \A p, q \in Commands : cmds[p].pc = "reread" /\ cmds[q].pc \in {"hash", "units"} =>
        \A f \in Files :
            /\ cmds[q].cat[f] = None => None \in cmds[p].during[f]
            /\ cmds[q].fresh /\ cmds[q].rows[f] # None => cmds[q].rows[f].bytes \in cmds[p].during[f]

RereadInv ==
    \A p \in Commands : cmds[p].pc = "reread" /\ ~mixed /\ Servable =>
        \A f \in Files : Good(p, f, Bytes(Opened)[f])

-----------------------------------------------------------------------------
(* What a reader has been shown *)

\* Where a page ends, and the i-th of several
EndOf(turns, page)     == IF page.next = None THEN Len(turns) ELSE page.next.from
CutAt(turns, pages, i) == IF i = 0 THEN 0 ELSE EndOf(turns, pages[i])

\* One page begins where the one before it ends
Follows(turns, pages) ==
    \A i \in 1 .. Len(pages) :
        /\ CutAt(turns, pages, i - 1) \in 0 .. Len(turns)
        /\ CutAt(turns, pages, i) \in CutAt(turns, pages, i - 1) .. Len(turns)
        /\ pages[i].shown = SubSeq(turns, CutAt(turns, pages, i - 1) + 1, CutAt(turns, pages, i))
        /\ pages[i].next # None => pages[i].next.to = Len(turns) - 1

PagesInv ==
    \A p \in Commands : cmds[p].pc = "page" /\ cmds[p].of.kept => Follows(cmds[p].of.turns, cmds[p].pages)

-----------------------------------------------------------------------------
(* Types are kept *)

Base == TypeOK /\ CatIsTyped /\ PagesAreTyped /\ LockInv /\ CacheInv

LEMMA Constants ==
    /\ None \notin Versions /\ Rotten \notin Versions /\ None # Rotten /\ None \notin Signatures
    /\ None \notin [sig : Signatures, bytes : Contents]
    /\ None \notin Databases /\ Foreign \notin Databases /\ None \notin Commands
    /\ "show" \notin Kinds /\ Versions \subseteq Contents /\ Versions \subseteq Nat
BY NoneAssumption, RetrievalAssumption DEF Versions, Kinds, Contents

LEMMA HeldIsContent == ASSUME TypeOK, NEW f \in Files PROVE Held(f) \in Contents
BY DEF TypeOK, Held, Contents

LEMMA DatabaseOpened ==
    ASSUME TypeOK, Servable
    PROVE  Opened \in Databases
BY DEF TypeOK, Servable, Opened

LEMMA ReplacedIsDatabase ==
    ASSUME TypeOK, NEW rows \in Databases, NEW unit, NEW cat \in [Files -> {None} \cup Signatures]
    PROVE  Replaced(rows, unit, cat) \in Databases
<1>. \A f \in Files : Held(f) \in Contents
  BY HeldIsContent
<1>. QED
  BY DEF Replaced, Databases

LEMMA BytesAreContents ==
    ASSUME NEW rows \in Databases
    PROVE  Bytes(rows) \in [Files -> Contents]
<1>. None \in Contents
  BY DEF Contents
<1>. QED
  BY DEF Bytes, Databases

LEMMA IdleIsTyped == Idle \in Works
<1>. <<>> \in Seq(Pages)
  OBVIOUS
<1>. [f \in Files |-> None] \in Databases
  BY DEF Databases
<1>. QED
  BY DEF Idle, Works

\* Closing a connection changes where the rows are, not what they are
SameCache ==
    /\ Servable' <=> Servable
    /\ Opened' = Opened
    /\ wal' \in {wal, None} /\ main' \in {main, Opened}
    /\ ~Servable => main' = main /\ wal' = wal

LEMMA ClosingKeepsRows ==
    ASSUME Base, NEW p \in Commands,
           CloseWriter(p) \/ CloseReader(p) \/ UNCHANGED <<main, wal>>
    PROVE  SameCache
<1>. USE Constants DEF SameCache, Servable, Opened
<1>1. CASE UNCHANGED <<main, wal>>
  BY <1>1
<1>2. CASE CloseReader(p)
  BY <1>2 DEF CloseReader
<1>3. CASE CloseWriter(p)
  BY <1>3 DEF CloseWriter, Base, TypeOK, CacheInv
<1>. QED
  BY <1>1, <1>2, <1>3

LEMMA BeginIsTyped ==
    ASSUME Base, NEW p \in Commands, NEW kind \in Kinds, Begin(p, kind)
    PROVE  TypeOK'
<1>1. [f \in Files |-> {Held(f)}] \in [Files -> SUBSET Contents]
  BY HeldIsContent DEF Base
<1>2. [Idle EXCEPT !.pc = "lock", !.kind = kind, !.during = [f \in Files |-> {Held(f)}]] \in Works
  BY <1>1, IdleIsTyped DEF Works, Working
<1>. QED
  BY <1>2 DEF Begin, TypeOK, Base, world, cache

LEMMA EndsIsTyped ==
    ASSUME Base, NEW p \in Commands, NEW answer \in {None} \cup [Files -> Contents], Ends(p, answer)
    PROVE  cmds' \in [Commands -> Works] /\ lock' \in Commands \cup {None}
<1>1. cmds[p] \in Works /\ mixed \in BOOLEAN
  BY DEF Base, TypeOK
<1>2. [Idle EXCEPT !.pc = "done", !.kind = cmds[p].kind, !.answer = answer, !.during = cmds[p].during,
                   !.spoiled = mixed] \in Works
  BY <1>1, IdleIsTyped DEF Works, Working
<1>. QED
  BY <1>2, IdleIsTyped DEF Ends, TypeOK, Base

LEMMA GoesIsTyped ==
    ASSUME Base, NEW p \in Commands, NEW place \in Working, Goes(p, place)
    PROVE  cmds' \in [Commands -> Works]
<1>1. cmds[p] \in Works
  BY DEF Base, TypeOK
<1>2. [cmds[p] EXCEPT !.pc = place] \in Works
  BY <1>1 DEF Works
<1>. QED
  BY <1>2 DEF Goes, Base, TypeOK

LEMMA CatalogIsTyped ==
    ASSUME Base
    PROVE  /\ Recorded \in [Files -> Versions \cup {None}]
           /\ \A records \in [Files -> Versions \cup {None}] :
                  Catalogued(records) \in [Files -> {None} \cup Signatures]
           /\ \A cat \in [Files -> {None} \cup Signatures] :
                  Hashed(cat) \in [Files -> {None} \cup Signatures]
<1>. \A f \in Files : Held(f) \in Contents
  BY HeldIsContent DEF Base
<1>1. Recorded \in [Files -> Versions \cup {None}]
  BY DEF Base, TypeOK, Recorded
<1>2. ASSUME NEW records \in [Files -> Versions \cup {None}], NEW f \in Files
      PROVE  Catalogued(records)[f] \in {None} \cup Signatures
  <2>1. archive[f] # None => StatOf(f, archive[f]) \in Nat
    BY Constants DEF Base, TypeOK, StatOf
  <2>2. records[f] \in Contents
    BY DEF Contents
  <2>. QED
    BY <2>1, <2>2 DEF Catalogued, Signatures
<1>3. ASSUME NEW cat \in [Files -> {None} \cup Signatures], NEW f \in Files
      PROVE  Hashed(cat)[f] \in {None} \cup Signatures
  BY DEF Hashed, Signatures
<1>. QED
  BY <1>1, <1>2, <1>3 DEF Catalogued, Hashed

LEMMA UnitsAreNumbers == ASSUME TypeOK PROVE Units \subseteq Nat
BY RetrievalAssumption DEF TypeOK, Units, unitOf

LEMMA ChangedAreNumbers ==
    ASSUME TypeOK, NEW cat, NEW rows
    PROVE  Changed(cat, rows) \subseteq Nat
BY UnitsAreNumbers DEF Changed, Units

LEMMA PageIsTyped ==
    ASSUME NEW turns \in Texts, NEW from \in Nat, NEW to \in Int,
           NEW page \in Page(turns, from, to)
    PROVE  page \in Pages
<1>1. turns \in Seq(Told)
  <2>1. {turns[i] : i \in DOMAIN turns} \subseteq Told
    BY DEF Told
  <2>2. turns \in Seq({turns[i] : i \in DOMAIN turns})
    BY TurnsAssumption
  <2>. QED
    BY <2>1, <2>2, SeqMonotonic
<1>. DEFINE last == IF to < Len(turns) THEN to ELSE Len(turns) - 1
<1>2. Len(turns) \in Nat /\ last \in Int /\ last < Len(turns)
  BY <1>1
<1>3. PICK n \in 1 .. last - from + 1 : page = Cut(turns, from, last, n)
  BY DEF Page
<1>. HIDE DEF last
<1>4. SubSeq(turns, from + 1, from + n) \in Seq(Told)
  BY <1>1, <1>2, <1>3, SubSeqProperties
<1>5. [from |-> from + n, to |-> last] \in [from : Nat, to : Int]
  BY <1>2, <1>3
<1>. QED
  BY <1>2, <1>3, <1>4, <1>5 DEF Cut, Pages

LEMMA TurnsAreText == ASSUME TypeOK, NEW u \in Units PROVE Turns(u) \in Texts
<1>1. PICK f \in Files : u = layout.unit[f]
  BY DEF Units, unitOf
<1>2. layout \in Layouts /\ archive \in [Files -> Versions \cup {None}] /\ bad \in SUBSET Files
  BY DEF TypeOK
<1>3. Readings[layout][archive][bad][layout.unit[f]].turns \in Texts
  <2>1. Readings[layout][archive][bad][layout.unit[f]].turns \in TextsOf(layout, archive, bad)
    BY DEF TextsOf
  <2>2. TextsOf(layout, archive, bad) \in
           {TextsOf(l, held, damaged) :
               l \in Layouts, held \in [Files -> Versions \cup {None}], damaged \in SUBSET Files}
    BY <1>2
  <2>. QED
    BY <2>1, <2>2 DEF Texts
<1>. QED
  BY <1>1, <1>3 DEF Turns, ReadNow

LEMMA ShowIsTyped ==
    ASSUME Base, NEW p \in Commands, NEW u \in Units, Show(p, u)
    PROVE  TypeOK'
<1>1. u \in Nat /\ Turns(u) \in Texts
  BY UnitsAreNumbers, TurnsAreText DEF Base
<1>2. Len(Turns(u)) - 1 \in Int
  BY <1>1, TurnsAssumption
<1>3. PICK page \in Page(Turns(u), 0, Len(Turns(u)) - 1) :
         cmds' = [cmds EXCEPT ![p] = [Idle EXCEPT !.pc = "page", !.kind = "show", !.pages = <<page>>,
                                        !.of = [unit |-> u, turns |-> Turns(u), kept |-> TRUE]]]
  BY DEF Show
<1>4. page \in Pages
  BY <1>1, <1>2, PageIsTyped
<1>5. [unit |-> u, turns |-> Turns(u), kept |-> TRUE] \in [unit : Nat, turns : Texts, kept : BOOLEAN]
  BY <1>1
<1>6. <<page>> \in Seq(Pages)
  BY <1>4
<1>7. [Idle EXCEPT !.pc = "page", !.kind = "show", !.pages = <<page>>,
                   !.of = [unit |-> u, turns |-> Turns(u), kept |-> TRUE]] \in Works
  BY <1>5, <1>6, IdleIsTyped DEF Works, Working
<1>. QED
  BY <1>3, <1>7 DEF Show, Base, TypeOK, world, cache

\* The page a reader goes on from, and what it goes on with
LEMMA GoesOn ==
    ASSUME Base, NEW p \in Commands, cmds[p].pc = "page", Legible(p)
    PROVE  /\ cmds[p] \in Works /\ cmds[p].of \in [unit : Nat, turns : Texts, kept : BOOLEAN]
           /\ LastPage(p) \in Pages /\ LastPage(p).next \in [from : Nat, to : Int]
           /\ Turns(cmds[p].of.unit) \in Texts
<1>1. cmds[p] \in Works
  BY DEF Base, TypeOK
<1>2. cmds[p].of \in [unit : Nat, turns : Texts, kept : BOOLEAN] /\ cmds[p].of.unit \in Units
      /\ cmds[p].pages # <<>>
  BY DEF Base, PagesAreTyped
<1>3. cmds[p].pages \in Seq(Pages)
  BY <1>1 DEF Works
<1>4. LastPage(p) \in Pages
  BY <1>2, <1>3 DEF LastPage
<1>5. LastPage(p).next \in [from : Nat, to : Int]
  BY <1>4 DEF Pages, Legible
<1>6. Turns(cmds[p].of.unit) \in Texts
  BY <1>2, TurnsAreText DEF Base
<1>. QED
  BY <1>1, <1>2, <1>4, <1>5, <1>6

LEMMA ContinueIsTyped ==
    ASSUME Base, NEW p \in Commands, Continue(p)
    PROVE  TypeOK'
<1>1. cmds[p].pc = "page" /\ Legible(p)
  BY DEF Continue
<1>2. /\ cmds[p] \in Works /\ cmds[p].of \in [unit : Nat, turns : Texts, kept : BOOLEAN]
      /\ LastPage(p) \in Pages /\ LastPage(p).next \in [from : Nat, to : Int]
      /\ Turns(cmds[p].of.unit) \in Texts
  BY <1>1, GoesOn
<1>3. PICK page \in Page(Turns(cmds[p].of.unit), LastPage(p).next.from, LastPage(p).next.to) :
          cmds' = [cmds EXCEPT ![p].pages = Append(@, page), ![p].of.kept = @ /\ Kept(p)]
  BY DEF Continue
<1>4. page \in Pages
  BY <1>2, <1>3, PageIsTyped
<1>5. cmds[p].pages \in Seq(Pages)
  BY <1>2 DEF Works
<1>6. Append(cmds[p].pages, page) \in Seq(Pages)
  BY <1>4, <1>5
<1>. DEFINE kept == cmds[p].of.kept /\ Kept(p)
<1>7. kept \in BOOLEAN
  OBVIOUS
<1>8. cmds' = [cmds EXCEPT ![p] = [[cmds[p] EXCEPT !.pages = Append(cmds[p].pages, page)]
                                     EXCEPT !.of = [cmds[p].of EXCEPT !.kept = kept]]]
  BY <1>2, <1>3 DEF Base, TypeOK, Works
<1>. HIDE DEF kept
<1>9. [cmds[p].of EXCEPT !.kept = kept] \in [unit : Nat, turns : Texts, kept : BOOLEAN]
  BY <1>2, <1>7
<1>10. [[cmds[p] EXCEPT !.pages = Append(cmds[p].pages, page)]
           EXCEPT !.of = [cmds[p].of EXCEPT !.kept = kept]] \in Works
  BY <1>2, <1>6, <1>9 DEF Works
<1>. QED
  BY <1>8, <1>10 DEF Continue, Base, TypeOK, world, cache

LEMMA SameCacheIsTyped ==
    ASSUME Base, SameCache
    PROVE  main' \in Databases \cup {None, Foreign} /\ wal' \in Databases \cup {None}
BY DEF Base, TypeOK, SameCache, Opened

LEMMA ChangeIsTyped ==
    ASSUME Base, NEW f \in Files, NEW version \in Versions \cup {None}, NEW rotten \in BOOLEAN,
           Change(f, version, rotten)
    PROVE  TypeOK'
<1>1. left' \in [changes : Nat, faults : Nat, runs : Nat, kinds : SUBSET Kinds]
  <2>1. left \in [changes : Nat, faults : Nat, runs : Nat, kinds : SUBSET Kinds]
    BY DEF Base, TypeOK
  <2>2. CASE rotten
    BY <2>1, <2>2 DEF Change
  <2>3. CASE ~rotten
    BY <2>1, <2>3 DEF Change
  <2>. QED
    BY <2>2, <2>3
<1>2. cmds' \in [Commands -> Works]
  <2>. DEFINE bytes == IF rotten THEN Rotten ELSE version
  <2>1. bytes \in Contents
    BY DEF Contents
  <2>2. Witnessed(f, bytes)
    BY DEF Change
  <2>. HIDE DEF bytes
  <2>3. ASSUME NEW p \in Commands
        PROVE  [cmds[p] EXCEPT !.during[f] = @ \cup {bytes}] \in Works
    <3>1. cmds[p] \in Works
      BY DEF Base, TypeOK
    <3>2. [cmds[p].during EXCEPT ![f] = @ \cup {bytes}] \in [Files -> SUBSET Contents]
      BY <2>1, <3>1 DEF Works
    <3>. QED
      BY <3>1, <3>2 DEF Works
  <2>. QED
    BY <2>2, <2>3 DEF Witnessed, Base, TypeOK
<1>3. /\ archive' \in [Files -> Versions \cup {None}] /\ latest' \in [Files -> Versions]
      /\ bad' \subseteq Files /\ lost' \subseteq Files /\ known' \subseteq Files
  BY DEF Change, Base, TypeOK
<1>. QED
  BY <1>1, <1>2, <1>3 DEF Change, Base, TypeOK

LEMMA WorldIsTyped ==
    ASSUME Base, NEW f \in Files, NEW v \in Versions, Copy(f, v) \/ Erase(f) \/ Rot(f) \/ Index(f)
    PROVE  TypeOK'
<1>1. archive[f] \in Versions \cup {None}
  BY DEF Base, TypeOK
<1>2. CASE Copy(f, v)
  BY <1>2, ChangeIsTyped DEF Copy
<1>3. CASE Erase(f)
  BY <1>3, ChangeIsTyped DEF Erase
<1>4. CASE Rot(f)
  BY <1>1, <1>4, ChangeIsTyped DEF Rot
<1>5. CASE Index(f)
  BY <1>1, <1>5 DEF Index, Base, TypeOK, cache
<1>. QED
  BY <1>2, <1>3, <1>4, <1>5

\* A command on its way to the cache, or away from it
LEMMA WaitingIsTyped ==
    ASSUME Base, NEW p \in Commands,
           \/ Lock(p) \/ Refused(p) \/ ServeStale(p) \/ StaleAnswered(p) \/ NothingServable(p)
           \/ GiveUp(p) \/ Reread(p) \/ Kill(p) \/ Shown(p)
    PROVE  TypeOK'
<1>. USE DEF world, cache
<1>1. CASE Lock(p)
  BY <1>1, GoesIsTyped DEF Lock, Base, TypeOK, Working
<1>2. CASE Refused(p)
  <2>1. \E place \in Working : Goes(p, place)
    BY <1>2 DEF Refused, Working
  <2>. QED
    BY <1>2, <2>1, GoesIsTyped DEF Refused, Base, TypeOK
<1>3. CASE ServeStale(p)
  BY <1>3 DEF ServeStale, Base, TypeOK
<1>4. CASE StaleAnswered(p)
  BY <1>4, EndsIsTyped DEF StaleAnswered, CloseReader, Base, TypeOK
<1>5. CASE NothingServable(p)
  BY <1>5, GoesIsTyped DEF NothingServable, Base, TypeOK, Working
<1>6. CASE GiveUp(p)
  BY <1>6, EndsIsTyped DEF GiveUp, Base, TypeOK
<1>7. CASE Reread(p)
  BY <1>7, EndsIsTyped DEF Reread, Base, TypeOK
<1>8. CASE Kill(p)
  BY <1>8, EndsIsTyped DEF Kill, Base, TypeOK
<1>9. CASE Shown(p)
  BY <1>9, EndsIsTyped DEF Shown, Base, TypeOK
<1>. QED
  BY <1>1, <1>2, <1>3, <1>4, <1>5, <1>6, <1>7, <1>8, <1>9

LEMMA FailIsTyped == ASSUME Base, NEW p \in Commands, Fail(p) PROVE TypeOK'
<1>1. main' \in Databases \cup {None, Foreign} /\ wal' \in Databases \cup {None}
  BY ClosingKeepsRows, SameCacheIsTyped DEF Fail
<1>2. cmds' \in [Commands -> Works] /\ lock' \in Commands \cup {None}
  BY EndsIsTyped DEF Fail
<1>3. opened' \subseteq Commands
  BY DEF Fail, CloseWriter, CloseReader, Base, TypeOK
<1>. QED
  BY <1>1, <1>2, <1>3 DEF Fail, Base, TypeOK, world

LEMMA OpenIsTyped ==
    ASSUME Base, NEW p \in Commands, Open(p) \/ Stat(p) \/ Hash(p)
    PROVE  TypeOK'
<1>0. cmds[p] \in Works
  BY DEF Base, TypeOK
<1>. USE DEF world, cache
<1>1. CASE Open(p)
  <2>. DEFINE fresh == cmds[p].kind = "rebuild" \/ ~Servable
  <2>1. fresh \in BOOLEAN
    OBVIOUS
  <2>2. cmds' = [cmds EXCEPT ![p] = [cmds[p] EXCEPT !.pc = "stat", !.fresh = fresh, !.cat = Recorded]]
    BY <1>0, <1>1 DEF Open, Base, TypeOK
  <2>. HIDE DEF fresh
  <2>3. [cmds[p] EXCEPT !.pc = "stat", !.fresh = fresh, !.cat = Recorded] \in Works
    BY <1>0, <2>1, CatalogIsTyped DEF Works, Working
  <2>4. cmds' \in [Commands -> Works]
    BY <2>2, <2>3 DEF Base, TypeOK
  <2>5. opened' \subseteq Commands /\ UNCHANGED <<world, cache, lock, left>>
    BY <1>1 DEF Open, Base, TypeOK
  <2>. QED
    BY <2>4, <2>5 DEF Base, TypeOK
<1>2. CASE Stat(p)
  <2>. DEFINE cat == Catalogued(cmds[p].cat)
              todo == IF cmds[p].fresh THEN {} ELSE Changed(cat, Rows(p))
              place == IF cmds[p].fresh THEN "hash" ELSE "units"
  <2>1. cmds[p].pc = "stat"
    BY <1>2 DEF Stat
  <2>2. cat \in [Files -> {None} \cup Signatures] /\ todo \subseteq Nat /\ place \in Working
    BY <2>1, CatalogIsTyped, ChangedAreNumbers DEF Base, CatIsTyped, Working
  <2>3. cmds' = [cmds EXCEPT ![p] = [cmds[p] EXCEPT !.pc = place, !.cat = cat, !.todo = todo]]
    BY <1>0, <1>2 DEF Stat, Base, TypeOK
  <2>. HIDE DEF cat, todo, place
  <2>4. [cmds[p] EXCEPT !.pc = place, !.cat = cat, !.todo = todo] \in Works
    BY <1>0, <2>2 DEF Works
  <2>5. cmds' \in [Commands -> Works]
    BY <2>3, <2>4 DEF Base, TypeOK
  <2>6. UNCHANGED <<world, cache, lock, opened, left>>
    BY <1>2 DEF Stat
  <2>. QED
    BY <2>5, <2>6 DEF Base, TypeOK
<1>3. CASE Hash(p)
  <2>. DEFINE cat == Hashed(cmds[p].cat)
              todo == Changed(cat, Rows(p))
  <2>1. cmds[p].pc = "hash"
    BY <1>3 DEF Hash
  <2>2. cat \in [Files -> {None} \cup Signatures] /\ todo \subseteq Nat
    BY <2>1, CatalogIsTyped, ChangedAreNumbers DEF Base, CatIsTyped
  <2>3. cmds' = [cmds EXCEPT ![p] = [cmds[p] EXCEPT !.pc = "units", !.cat = cat, !.todo = todo]]
    BY <1>0, <1>3 DEF Hash, Base, TypeOK
  <2>. HIDE DEF cat, todo
  <2>4. [cmds[p] EXCEPT !.pc = "units", !.cat = cat, !.todo = todo] \in Works
    BY <1>0, <2>2 DEF Works, Working
  <2>. QED
    BY <1>3, <2>3, <2>4 DEF Hash, Base, TypeOK
<1>. QED
  BY <1>1, <1>2, <1>3

LEMMA RefreshIsTyped ==
    ASSUME Base, NEW p \in Commands,
           (\E unit \in Units : Replace(p, unit)) \/ Rename(p) \/ Answer(p) \/ Queried(p)
    PROVE  TypeOK'
<1>0. cmds[p] \in Works
  BY DEF Base, TypeOK
<1>. USE DEF world, cache
<1>1. ASSUME NEW unit \in Units, Replace(p, unit) PROVE TypeOK'
  <2>. DEFINE rows == Replaced(Rows(p), unit, cmds[p].cat)
              todo == cmds[p].todo \ {unit}
              new  == IF cmds[p].fresh THEN rows ELSE cmds[p].rows
  <2>1. cmds[p].pc = "units" /\ cmds[p].cat \in [Files -> {None} \cup Signatures]
    BY <1>1 DEF Replace, Base, CatIsTyped
  <2>2. Rows(p) \in Databases
    BY <1>0, <2>1, DatabaseOpened DEF Rows, Works, Base, CacheInv
  <2>3. rows \in Databases /\ new \in Databases /\ todo \subseteq Nat
    BY <1>0, <2>1, <2>2, ReplacedIsDatabase DEF Works, Base
  <2>4. cmds' = [cmds EXCEPT ![p] = [cmds[p] EXCEPT !.todo = todo, !.rows = new]]
    BY <1>0, <1>1 DEF Replace, Base, TypeOK, Works
  <2>5. wal' \in Databases \cup {None}
    BY <1>1, <2>3 DEF Replace, Base, TypeOK
  <2>. HIDE DEF rows, todo, new
  <2>6. [cmds[p] EXCEPT !.todo = todo, !.rows = new] \in Works
    BY <1>0, <2>3 DEF Works
  <2>7. cmds' \in [Commands -> Works]
    BY <2>4, <2>6 DEF Base, TypeOK
  <2>. QED
    BY <1>1, <2>5, <2>7 DEF Replace, Base, TypeOK
<1>2. CASE Rename(p)
  <2>1. [cmds[p] EXCEPT !.fresh = FALSE] \in Works
    BY <1>0 DEF Works
  <2>2. cmds' \in [Commands -> Works]
    BY <1>2, <2>1 DEF Rename, Base, TypeOK
  <2>3. cmds[p].rows \in Databases
    BY <1>0 DEF Works
  <2>. QED
    BY <1>2, <2>2, <2>3 DEF Rename, Seen, Base, TypeOK
<1>3. CASE Answer(p)
  <2>1. CloseWriter(p) \/ CloseReader(p) \/ UNCHANGED <<main, wal>>
    BY <1>3 DEF Answer
  <2>2. main' \in Databases \cup {None, Foreign} /\ wal' \in Databases \cup {None}
    BY <2>1, ClosingKeepsRows, SameCacheIsTyped
  <2>3. Bytes(Opened) \in [Files -> Contents]
    BY <1>3, DatabaseOpened, BytesAreContents DEF Answer, Ready, Base, CacheInv
  <2>4. cmds' \in [Commands -> Works] /\ lock' \in Commands \cup {None}
    BY <1>3, <2>3, EndsIsTyped, GoesIsTyped DEF Answer, Working
  <2>5. opened' \subseteq Commands /\ known' \subseteq Files
    BY <1>3 DEF Answer, CloseWriter, Seen, Base, TypeOK
  <2>. QED
    BY <1>3, <2>2, <2>4, <2>5 DEF Answer, Base, TypeOK
<1>4. CASE Queried(p)
  <2>1. Bytes(Opened) \in [Files -> Contents]
    BY <1>4, DatabaseOpened, BytesAreContents DEF Queried, Base, CacheInv
  <2>2. cmds' \in [Commands -> Works] /\ lock' \in Commands \cup {None}
    BY <1>4, <2>1, EndsIsTyped DEF Queried
  <2>. QED
    BY <1>4, <2>2 DEF Queried, CloseReader, Base, TypeOK
<1>. QED
  BY <1>1, <1>2, <1>3, <1>4

LEMMA TypeStep == ASSUME Base, [Next]_vars PROVE TypeOK'
<1>1. CASE UNCHANGED vars
  BY <1>1 DEF vars, world, cache, Base, TypeOK
<1>2. ASSUME NEW p \in Commands, Step(p) PROVE TypeOK'
  <2>1. CASE RunSearch(p) \/ RunQuery(p) \/ RunRebuild(p) \/ RefreshRetrievalIndex(p)
    BY <2>1, BeginIsTyped DEF RunSearch, RunQuery, RunRebuild, RefreshRetrievalIndex, Kinds
  <2>. QED
    BY <1>2, <2>1, ShowIsTyped, ContinueIsTyped, WaitingIsTyped, FailIsTyped, OpenIsTyped, RefreshIsTyped
       DEF Step
<1>3. 1 \in Versions
  BY RetrievalAssumption DEF Versions
<1>4. ASSUME NEW f \in Files, (\E v \in Versions : Copy(f, v)) \/ Erase(f) \/ Rot(f) \/ Index(f) PROVE TypeOK'
  BY <1>3, <1>4, WorldIsTyped
<1>5. CASE Upgrade
  BY <1>5 DEF Upgrade, Base, TypeOK, world
<1>. QED
  BY <1>1, <1>2, <1>4, <1>5 DEF Next

-----------------------------------------------------------------------------
(* Most steps change neither the archive nor what the cache says, and leave
   their command away from it: before its catalog, or after its answer      *)

SameArchive == UNCHANGED <<layout, archive, latest, bad, lost>>

Away(p) ==
    /\ cmds'[p].pc \notin {"hash", "units", "reread"}
    /\ cmds'[p].pc \in {"open", "stat"} => lock' = p
    /\ cmds'[p].pc \in Working \ {"page"} =>
          cmds'[p].kind \in Kinds /\ \A f \in Files : Held(f) \in cmds'[p].during[f]
    /\ cmds'[p].pc = "stat" =>
          /\ cmds'[p].cat \in [Files -> Versions \cup {None}]
          /\ ~cmds'[p].fresh => Servable /\ cmds'[p].kind # "rebuild"
    /\ cmds'[p].pc = "page" =>
          /\ cmds'[p].of \in [unit : Nat, turns : Texts, kept : BOOLEAN] /\ cmds'[p].of.unit \in Units
          /\ cmds'[p].pages # <<>>
    /\ \A f \in Files : cmds'[p].rows[f] = None
    /\ cmds'[p].pc # "done" => cmds'[p].answer = None

GivesAnswer(p) == (Answer(p) \/ Queried(p)) /\ Ends(p, Bytes(Opened))
TurnsPage(p)   == (\E u \in Units : Show(p, u)) \/ Continue(p)

Still(p) ==
    /\ SameArchive /\ SameCache /\ mixed' = mixed /\ (opened' # {} => Servable)
    /\ known' = known \/ (p \in Commands /\ lock = p /\ Ready(p) /\ ~cmds[p].fresh /\ known' = Seen(p))
    /\ \/ lock' = lock
       \/ lock = p /\ lock' = None /\ cmds'[p].pc \notin Locked
       \/ lock = None /\ lock' = p
    /\ \A q \in Commands :
          \/ cmds'[q] = cmds[q]
          \/ /\ q = p /\ Away(q)
             /\ cmds'[q].pc = "done" => GivesAnswer(q)
             /\ cmds'[q].pc = "page" => TurnsPage(q)

LEMMA StillKeepsBase ==
    ASSUME Base, NEW p, Still(p)
    PROVE  CatIsTyped' /\ PagesAreTyped' /\ LockInv' /\ CacheInv'
<1>. USE DEF Still, SameArchive, Base
<1>1. CatIsTyped'
  BY DEF CatIsTyped, Away
<1>2. PagesAreTyped'
  BY DEF PagesAreTyped, Away, Units, unitOf
<1>3. LockInv'
  BY Constants DEF LockInv, Away, Locked, Refreshes
<1>4. CacheInv'
  BY DEF CacheInv, Away, SameCache
<1>. QED
  BY <1>1, <1>2, <1>3, <1>4

\* What a command is after an action that gives it an answer, or none
LEMMA EndsAway ==
    ASSUME Base, NEW p \in Commands, NEW answer, Ends(p, answer)
    PROVE  /\ Away(p) /\ cmds'[p].pc \in {"idle", "done"}
           /\ \A q \in Commands : q # p => cmds'[q] = cmds[q]
           /\ lock' = IF lock = p THEN None ELSE lock
           /\ cmds'[p].pc = "done" => answer # None
           /\ cmds'[p].answer = None
              \/ /\ cmds'[p].answer = answer /\ cmds'[p].spoiled = mixed
                 /\ cmds'[p].kind = cmds[p].kind /\ cmds'[p].during = cmds[p].during
<1>1. cmds'[p] = IF answer = None THEN Idle
                 ELSE [Idle EXCEPT !.pc = "done", !.kind = cmds[p].kind, !.answer = answer,
                                   !.during = cmds[p].during, !.spoiled = mixed]
  BY DEF Ends, Base, TypeOK
<1>2. /\ Idle.pc = "idle" /\ Idle.answer = None /\ \A f \in Files : Idle.rows[f] = None
  BY DEF Idle
<1>3. CASE answer = None
  <2>1. cmds'[p] = Idle
    BY <1>1, <1>3
  <2>2. Away(p) /\ cmds'[p].pc = "idle" /\ cmds'[p].answer = None
    BY <1>2, <2>1 DEF Away, Working
  <2>. QED
    BY <2>2 DEF Ends, Base, TypeOK
<1>4. CASE answer # None
  <2>1. /\ cmds'[p].pc = "done" /\ cmds'[p].kind = cmds[p].kind /\ cmds'[p].answer = answer
        /\ cmds'[p].during = cmds[p].during /\ cmds'[p].spoiled = mixed /\ cmds'[p].rows = Idle.rows
    BY <1>1, <1>4 DEF Idle
  <2>2. Away(p)
    BY <1>2, <2>1 DEF Away, Working
  <2>. QED
    BY <1>4, <2>1, <2>2 DEF Ends, Base, TypeOK
<1>. QED
  BY <1>3, <1>4

LEMMA EndingIsStill ==
    ASSUME Base, NEW p \in Commands,
           \/ StaleAnswered(p) \/ GiveUp(p) \/ Fail(p) \/ Kill(p) \/ Shown(p) \/ Queried(p)
           \/ Answer(p) /\ cmds[p].kind # "query"
    PROVE  Still(p)
<1>1. PICK answer : Ends(p, answer) /\ (answer # None => GivesAnswer(p))
  BY DEF StaleAnswered, GiveUp, Fail, Kill, Shown, Queried, Answer, GivesAnswer
<1>2. CloseWriter(p) \/ CloseReader(p) \/ UNCHANGED <<main, wal>>
  BY DEF StaleAnswered, GiveUp, Fail, Kill, Shown, Queried, Answer, cache
<1>3. SameCache
  BY <1>2, ClosingKeepsRows
<1>4. SameArchive /\ mixed' = mixed
  BY DEF StaleAnswered, GiveUp, Fail, Kill, Shown, Queried, Answer, cache, world, SameArchive
<1>5. opened' \subseteq opened
  BY DEF StaleAnswered, GiveUp, Fail, Kill, Shown, Queried, Answer, CloseWriter, CloseReader
<1>6. opened' # {} => Servable
  BY <1>5 DEF Base, CacheInv
<1>7. known' = known \/ (p \in Commands /\ lock = p /\ Ready(p) /\ ~cmds[p].fresh /\ known' = Seen(p))
  BY DEF StaleAnswered, GiveUp, Fail, Kill, Shown, Queried, Answer, cache, Ready, Base, LockInv, Locked
<1>. QED
  BY <1>1, <1>3, <1>4, <1>6, <1>7, EndsAway DEF Still, Locked

LEMMA UntouchedIsSame == ASSUME UNCHANGED <<main, wal>> PROVE SameCache
BY DEF SameCache, Servable, Opened

LEMMA ConnectingIsStill ==
    ASSUME Base, NEW p \in Commands, ServeStale(p) \/ Reread(p)
    PROVE  Still(p)
<1>1. SameCache /\ SameArchive /\ mixed' = mixed /\ known' = known
  BY UntouchedIsSame DEF ServeStale, Reread, cache, world, SameArchive
<1>2. CASE UNCHANGED <<cmds, lock>> /\ Servable
  BY <1>1, <1>2 DEF Still
<1>3. CASE Ends(p, None) /\ UNCHANGED opened
  BY <1>1, <1>3, EndsAway DEF Still, Locked, Base, CacheInv
<1>. QED
  BY <1>2, <1>3 DEF ServeStale, Reread

LEMMA BeginningIsStill ==
    ASSUME Base, NEW p \in Commands,
           \/ RunSearch(p) \/ RunQuery(p) \/ RunRebuild(p) \/ RefreshRetrievalIndex(p)
           \/ \E u \in Units : Show(p, u)
           \/ Continue(p)
    PROVE  Still(p)
<1>1. SameCache /\ SameArchive /\ mixed' = mixed /\ known' = known /\ UNCHANGED <<lock, opened>>
  BY UntouchedIsSame
     DEF RunSearch, RunQuery, RunRebuild, RefreshRetrievalIndex, Begin, Show, Continue, cache, world, SameArchive
<1>2. SUFFICES Away(p) /\ cmds'[p].pc # "done" /\ (cmds'[p].pc = "page" => TurnsPage(p))
               /\ \A q \in Commands : q # p => cmds'[q] = cmds[q]
  BY <1>1 DEF Still, Base, CacheInv
<1>3. Idle.answer = None /\ \A f \in Files : Idle.rows[f] = None
  BY DEF Idle
<1>4. ASSUME NEW kind \in Kinds, Begin(p, kind)
      PROVE  Away(p) /\ cmds'[p].pc \notin {"done", "page"} /\ \A q \in Commands : q # p => cmds'[q] = cmds[q]
  <2>1. /\ \A q \in Commands : q # p => cmds'[q] = cmds[q]
        /\ cmds'[p] = [Idle EXCEPT !.pc = "lock", !.kind = kind, !.during = [f \in Files |-> {Held(f)}]]
    BY <1>4 DEF Begin, Base, TypeOK
  <2>2. /\ cmds'[p].pc = "lock" /\ cmds'[p].kind = kind /\ cmds'[p].during = [f \in Files |-> {Held(f)}]
        /\ cmds'[p].rows = Idle.rows /\ cmds'[p].answer = Idle.answer
    BY <2>1 DEF Idle
  <2>. QED
    BY <1>3, <2>1, <2>2 DEF Away
<1>5. CASE RunSearch(p) \/ RunQuery(p) \/ RunRebuild(p) \/ RefreshRetrievalIndex(p)
  BY <1>4, <1>5 DEF RunSearch, RunQuery, RunRebuild, RefreshRetrievalIndex, Kinds
<1>6. ASSUME NEW u \in Units, Show(p, u)
      PROVE  Away(p) /\ cmds'[p].pc # "done" /\ \A q \in Commands : q # p => cmds'[q] = cmds[q]
  <2>1. PICK page : cmds' = [cmds EXCEPT ![p] = [Idle EXCEPT !.pc = "page", !.kind = "show", !.pages = <<page>>,
                                        !.of = [unit |-> u, turns |-> Turns(u), kept |-> TRUE]]]
    BY <1>6 DEF Show
  <2>2. /\ \A q \in Commands : q # p => cmds'[q] = cmds[q]
        /\ cmds'[p] = [Idle EXCEPT !.pc = "page", !.kind = "show", !.pages = <<page>>,
                                   !.of = [unit |-> u, turns |-> Turns(u), kept |-> TRUE]]
    BY <2>1 DEF Base, TypeOK
  <2>3. /\ cmds'[p].pc = "page" /\ cmds'[p].pages = <<page>> /\ cmds'[p].rows = Idle.rows /\ cmds'[p].answer = Idle.answer
        /\ cmds'[p].of = [unit |-> u, turns |-> Turns(u), kept |-> TRUE]
    BY <2>2 DEF Idle
  <2>4. u \in Nat /\ Turns(u) \in Texts
    BY UnitsAreNumbers, TurnsAreText DEF Base
  <2>. QED
    BY <1>3, <2>2, <2>3, <2>4 DEF Away
<1>7. CASE Continue(p)
  <2>1. cmds[p].pc = "page" /\ Legible(p) /\ cmds[p] \in Works /\ cmds'[p] \in Works
    BY <1>7, ContinueIsTyped DEF Continue, Base, TypeOK
  <2>2. PICK page \in Page(Turns(cmds[p].of.unit), LastPage(p).next.from, LastPage(p).next.to) :
            cmds' = [cmds EXCEPT ![p].pages = Append(@, page), ![p].of.kept = @ /\ Kept(p)]
    BY <1>7 DEF Continue
  <2>3. /\ \A q \in Commands : q # p => cmds'[q] = cmds[q]
        /\ cmds'[p].pc = "page" /\ cmds'[p].pages = Append(cmds[p].pages, page)
        /\ cmds'[p].of = [cmds[p].of EXCEPT !.kept = @ /\ Kept(p)] /\ cmds'[p].rows = cmds[p].rows
        /\ cmds'[p].answer = cmds[p].answer
    BY <2>1, <2>2 DEF Base, TypeOK, Works
  <2>4. cmds[p].of \in [unit : Nat, turns : Texts, kept : BOOLEAN] /\ cmds[p].of.unit \in Units
    BY <2>1 DEF Base, PagesAreTyped
  <2>5. /\ cmds'[p].of \in [unit : Nat, turns : Texts, kept : BOOLEAN] /\ cmds'[p].of.unit = cmds[p].of.unit
    <3>1. (cmds[p].of.kept /\ Kept(p)) \in BOOLEAN
      OBVIOUS
    <3>. QED
      BY <2>3, <2>4, <3>1
  <2>6. cmds'[p].pages # <<>>
    <3>1. page \in Pages
      BY <2>1, <2>2, GoesOn, PageIsTyped
    <3>2. cmds[p].pages \in Seq(Pages)
      BY <2>1 DEF Works
    <3>3. Append(cmds[p].pages, page) # <<>>
      BY <3>1, <3>2
    <3>. QED
      BY <2>3, <3>3
  <2>7. cmds'[p].answer = None /\ \A f \in Files : cmds'[p].rows[f] = None
    BY <2>1, <2>3 DEF Base, CacheInv
  <2>. QED
    BY <1>7, <2>3, <2>4, <2>5, <2>6, <2>7 DEF Away, TurnsPage
<1>. QED
  BY <1>5, <1>6, <1>7 DEF TurnsPage

LEMMA MovingIsStill ==
    ASSUME Base, SeenInv, NEW p \in Commands, Lock(p) \/ Refused(p) \/ NothingServable(p) \/ Open(p)
    PROVE  Still(p)
<1>1. SameCache /\ SameArchive /\ mixed' = mixed /\ known' = known
  BY UntouchedIsSame DEF Lock, Refused, NothingServable, Open, cache, world, SameArchive
<1>2. cmds[p] \in Works /\ cmds[p].pc \in {"lock", "wait", "stale", "open"}
  BY DEF Lock, Refused, NothingServable, Open, Base, TypeOK
<1>3. /\ cmds[p].kind \in Kinds /\ \A f \in Files : Held(f) \in cmds[p].during[f]
      /\ cmds[p].answer = None /\ \A f \in Files : cmds[p].rows[f] = None
  BY <1>2 DEF Base, LockInv, SeenInv, CacheInv, Refreshes, Working
<1>4. ASSUME NEW place \in {"wait", "stale", "open"}, Goes(p, place), place = "open" => lock' = p
      PROVE  Away(p) /\ cmds'[p].pc = place /\ \A q \in Commands : q # p => cmds'[q] = cmds[q]
  <2>1. /\ \A q \in Commands : q # p => cmds'[q] = cmds[q]
        /\ cmds'[p].pc = place /\ cmds'[p].kind = cmds[p].kind
        /\ cmds'[p].during = cmds[p].during /\ cmds'[p].rows = cmds[p].rows
        /\ cmds'[p].answer = cmds[p].answer
    BY <1>2, <1>4 DEF Goes, Base, TypeOK, Works
  <2>. QED
    BY <1>3, <2>1, <1>4 DEF Away
<1>5. CASE Lock(p)
  <2>1. Away(p) /\ cmds'[p].pc \notin {"done", "page"} /\ \A q \in Commands : q # p => cmds'[q] = cmds[q]
    BY <1>4, <1>5 DEF Lock
  <2>. QED
    BY <1>1, <1>5, <2>1 DEF Lock, Still, Base, CacheInv
<1>6. CASE Refused(p) \/ NothingServable(p)
  <2>1. PICK place \in {"wait", "stale"} : Goes(p, place)
    BY <1>6 DEF Refused, NothingServable
  <2>2. Away(p) /\ cmds'[p].pc \notin {"done", "page"} /\ \A q \in Commands : q # p => cmds'[q] = cmds[q]
    BY <1>4, <2>1
  <2>. QED
    BY <1>1, <1>6, <2>2 DEF Refused, NothingServable, Still, Base, CacheInv
<1>7. CASE Open(p)
  <2>. DEFINE fresh == cmds[p].kind = "rebuild" \/ ~Servable
  <2>1. /\ \A q \in Commands : q # p => cmds'[q] = cmds[q]
        /\ cmds'[p].pc = "stat" /\ cmds'[p].kind = cmds[p].kind /\ cmds'[p].fresh = fresh
        /\ cmds'[p].during = cmds[p].during /\ cmds'[p].rows = cmds[p].rows /\ cmds'[p].cat = Recorded
        /\ cmds'[p].answer = cmds[p].answer
    BY <1>2, <1>7 DEF Open, Base, TypeOK, Works
  <2>2. lock = p /\ lock' = lock
    BY <1>7 DEF Open, Base, LockInv, Locked
  <2>3. Away(p)
    BY <1>3, <2>1, <2>2, CatalogIsTyped DEF Away
  <2>4. opened' # {} => Servable
    BY <1>7 DEF Open, Base, CacheInv
  <2>. QED
    BY <1>1, <2>1, <2>2, <2>3, <2>4 DEF Still
<1>. QED
  BY <1>5, <1>6, <1>7

\* Index changes only what index.jsonl says
LEMMA IndexIsStill ==
    ASSUME Base, UNCHANGED vars \/ \E f \in Files : Index(f)
    PROVE  Still(None)
BY UntouchedIsSame DEF vars, Index, cache, world, Still, SameArchive, Base, CacheInv

-----------------------------------------------------------------------------
(* The steps that do change the archive or what the cache says, field by field *)

Busy(p) ==
    /\ UNCHANGED <<layout, archive, latest, bad>>
    /\ \A q \in Commands : q # p => cmds'[q] = cmds[q]
    /\ lock = p /\ cmds'[p].kind = cmds[p].kind /\ cmds'[p].during = cmds[p].during
    /\ cmds'[p].answer = cmds[p].answer

AsksAgain(p) == Answer(p) /\ cmds[p].kind = "query"

LEMMA StatFields ==
    ASSUME Base, NEW p \in Commands, Stat(p)
    PROVE  /\ Busy(p) /\ cmds[p].pc = "stat" /\ UNCHANGED <<lost, cache, lock, opened>>
           /\ cmds'[p].pc = (IF cmds[p].fresh THEN "hash" ELSE "units")
           /\ cmds'[p].cat = Catalogued(cmds[p].cat)
           /\ cmds'[p].todo = (IF cmds[p].fresh THEN {} ELSE Changed(Catalogued(cmds[p].cat), Rows(p)))
           /\ cmds'[p].fresh = cmds[p].fresh /\ cmds'[p].rows = cmds[p].rows
BY DEF Stat, Busy, Base, TypeOK, Works, LockInv, Locked, world

LEMMA HashFields ==
    ASSUME Base, NEW p \in Commands, Hash(p)
    PROVE  /\ Busy(p) /\ cmds[p].pc = "hash" /\ UNCHANGED <<lost, cache, lock, opened>>
           /\ cmds'[p].pc = "units" /\ cmds'[p].cat = Hashed(cmds[p].cat)
           /\ cmds'[p].todo = Changed(Hashed(cmds[p].cat), Rows(p))
           /\ cmds[p].fresh /\ cmds'[p].fresh /\ cmds'[p].rows = cmds[p].rows
           /\ \A f \in Files : cmds[p].cat[f] # None => archive[f] # None
BY DEF Hash, Busy, Base, TypeOK, Works, LockInv, CacheInv, Locked, world

LEMMA ReplaceFields ==
    ASSUME Base, NEW p \in Commands, NEW unit \in Units, Replace(p, unit)
    PROVE  /\ Busy(p) /\ cmds[p].pc = "units" /\ UNCHANGED <<main, known, mixed, lock, opened>>
           /\ lost' = lost \cup {f \in Files : unitOf[f] = unit /\ cmds[p].cat[f] # None /\ archive[f] = None}
           /\ cmds'[p].pc = "units" /\ cmds'[p].cat = cmds[p].cat
           /\ cmds'[p].todo = cmds[p].todo \ {unit} /\ cmds'[p].fresh = cmds[p].fresh
           /\ cmds[p].fresh =>
                 wal' = wal /\ cmds'[p].rows = Replaced(Rows(p), unit, cmds[p].cat)
           /\ ~cmds[p].fresh =>
                 wal' = Replaced(Rows(p), unit, cmds[p].cat) /\ cmds'[p].rows = cmds[p].rows
BY DEF Replace, Busy, Base, TypeOK, Works, LockInv, Locked

LEMMA RenameFields ==
    ASSUME Base, NEW p \in Commands, Rename(p)
    PROVE  /\ Busy(p) /\ cmds[p].pc = "units" /\ cmds[p].todo = {} /\ cmds[p].fresh
           /\ UNCHANGED <<lost, wal, lock>>
           /\ main' = cmds[p].rows /\ main' \in Databases /\ Servable' /\ mixed' = (wal # None)
           /\ known' = Seen(p)
           /\ cmds'[p].pc = "units" /\ cmds'[p].cat = cmds[p].cat /\ cmds'[p].todo = {} /\ ~cmds'[p].fresh
           /\ cmds'[p].rows = cmds[p].rows
BY Constants DEF Rename, Ready, Busy, Base, TypeOK, Works, LockInv, Locked, world, Servable

LEMMA AsksFields ==
    ASSUME Base, NEW p \in Commands, AsksAgain(p)
    PROVE  /\ Busy(p) /\ cmds[p].pc = "units" /\ cmds[p].todo = {} /\ ~cmds[p].fresh
           /\ SameCache /\ UNCHANGED <<lost, mixed>> /\ lock' = None /\ opened' \subseteq opened
           /\ known' = Seen(p)
           /\ cmds'[p].pc = "reread" /\ cmds'[p].cat = cmds[p].cat /\ cmds'[p].rows = cmds[p].rows
<1>1. SameCache
  BY ClosingKeepsRows DEF AsksAgain, Answer
<1>2. opened' \subseteq opened
  BY DEF AsksAgain, Answer, CloseWriter
<1>. QED
  BY <1>1, <1>2 DEF AsksAgain, Answer, Ready, Goes, Busy, Base, TypeOK, Works, LockInv, Locked, world

\* A change of the archive, as every command sees it
Changes(f, version, rotten) ==
    LET bytes == IF rotten THEN Rotten ELSE version IN
    /\ UNCHANGED <<layout, main, wal, mixed, lock, opened>>
    /\ archive' = [archive EXCEPT ![f] = version]
    /\ latest' = IF version = None THEN latest ELSE [latest EXCEPT ![f] = version]
    /\ bad' = (IF rotten THEN bad \cup {f} ELSE bad \ {f})
    /\ lost' = (IF rotten THEN lost \cup {f} ELSE lost)
    /\ known' = (IF version = None THEN known \ {f} ELSE known)
    /\ version \in Versions \cup {None}
    /\ rotten => version = archive[f] /\ version # None
    /\ ~rotten /\ version # None => latest[f] <= version
    /\ \A p \in Commands :
          /\ cmds'[p].pc = cmds[p].pc /\ cmds'[p].kind = cmds[p].kind /\ cmds'[p].fresh = cmds[p].fresh
          /\ cmds'[p].cat = cmds[p].cat /\ cmds'[p].todo = cmds[p].todo /\ cmds'[p].rows = cmds[p].rows
          /\ cmds'[p].answer = cmds[p].answer /\ cmds'[p].of = cmds[p].of /\ cmds'[p].pages = cmds[p].pages
          /\ cmds'[p].spoiled = cmds[p].spoiled
          /\ cmds'[p] = cmds[p] \/ p \in Running
          /\ \A g \in Files : g # f => cmds'[p].during[g] = cmds[p].during[g]
          /\ Refreshes(p) => cmds'[p].during[f] = cmds[p].during[f] \cup {bytes}
          /\ cmds'[p].during[f] \in {cmds[p].during[f], cmds[p].during[f] \cup {bytes}}

LEMMA ChangeFields ==
    ASSUME Base, NEW f \in Files, Erase(f) \/ Rot(f) \/ \E v \in Versions : Copy(f, v)
    PROVE  \E version \in Versions \cup {None}, rotten \in BOOLEAN : Changes(f, version, rotten)
<1>1. PICK version \in Versions \cup {None}, rotten \in BOOLEAN :
         /\ Change(f, version, rotten)
         /\ rotten => version = archive[f] /\ version # None
         /\ ~rotten /\ version # None => latest[f] <= version
  BY DEF Erase, Rot, Copy, Base, TypeOK
<1>. DEFINE bytes == IF rotten THEN Rotten ELSE version
<1>2. Witnessed(f, bytes)
  BY <1>1 DEF Change
<1>. HIDE DEF bytes
<1>3. ASSUME NEW p \in Commands
      PROVE  /\ cmds'[p].pc = cmds[p].pc /\ cmds'[p].kind = cmds[p].kind /\ cmds'[p].fresh = cmds[p].fresh
             /\ cmds'[p].cat = cmds[p].cat /\ cmds'[p].todo = cmds[p].todo /\ cmds'[p].rows = cmds[p].rows
             /\ cmds'[p].answer = cmds[p].answer /\ cmds'[p].of = cmds[p].of /\ cmds'[p].pages = cmds[p].pages
             /\ cmds'[p].spoiled = cmds[p].spoiled
             /\ cmds'[p] = cmds[p] \/ p \in Running
             /\ \A g \in Files : g # f => cmds'[p].during[g] = cmds[p].during[g]
             /\ Refreshes(p) => cmds'[p].during[f] = cmds[p].during[f] \cup {bytes}
             /\ cmds'[p].during[f] \in {cmds[p].during[f], cmds[p].during[f] \cup {bytes}}
  <2>1. cmds[p] \in Works
    BY DEF Base, TypeOK
  <2>2. cmds'[p] = IF p \in Running /\ cmds[p].kind # "show"
                   THEN [cmds[p] EXCEPT !.during[f] = @ \cup {bytes}] ELSE cmds[p]
    BY <1>2 DEF Witnessed
  <2>3. Refreshes(p) => p \in Running /\ cmds[p].kind # "show"
    BY Constants DEF Refreshes, Running, Base, LockInv
  <2>4. cmds[p].during \in [Files -> SUBSET Contents]
    BY <2>1 DEF Works
  <2>. QED
    BY <2>1, <2>2, <2>3, <2>4 DEF Works
<1>. QED
  BY <1>1, <1>3 DEF Change, Changes, bytes

\* Every step is one of these
Shapes ==
    \/ \E p : Still(p)
    \/ \E p \in Commands : \/ Stat(p) \/ Hash(p) \/ Rename(p) \/ AsksAgain(p)
                           \/ \E unit \in Units : Replace(p, unit)
    \/ \E f \in Files : \E version \in Versions \cup {None}, rotten \in BOOLEAN : Changes(f, version, rotten)
    \/ Upgrade

LEMMA StepShapes == ASSUME Base, SeenInv, [Next]_vars PROVE Shapes
<1>1. CASE UNCHANGED vars
  BY <1>1, IndexIsStill DEF Shapes
<1>2. ASSUME NEW p \in Commands, Step(p) PROVE Shapes
  <2>1. CASE RunSearch(p) \/ RunQuery(p) \/ RunRebuild(p) \/ RefreshRetrievalIndex(p)
             \/ (\E u \in Units : Show(p, u)) \/ Continue(p)
    BY <2>1, BeginningIsStill DEF Shapes
  <2>2. CASE Lock(p) \/ Refused(p) \/ NothingServable(p) \/ Open(p)
    BY <2>2, MovingIsStill DEF Shapes
  <2>3. CASE ServeStale(p) \/ Reread(p)
    BY <2>3, ConnectingIsStill DEF Shapes
  <2>4. CASE StaleAnswered(p) \/ GiveUp(p) \/ Fail(p) \/ Kill(p) \/ Shown(p) \/ Queried(p)
    BY <2>4, EndingIsStill DEF Shapes
  <2>5. CASE Answer(p)
    BY <2>5, EndingIsStill DEF Shapes, AsksAgain
  <2>. QED
    BY <1>2, <2>1, <2>2, <2>3, <2>4, <2>5 DEF Step, Shapes
<1>3. ASSUME NEW f \in Files, (\E v \in Versions : Copy(f, v)) \/ Erase(f) \/ Rot(f) \/ Index(f) PROVE Shapes
  BY <1>3, ChangeFields, IndexIsStill DEF Shapes
<1>. QED
  BY <1>1, <1>2, <1>3 DEF Next, Shapes

LEMMA BaseStep == ASSUME Base, SeenInv, [Next]_vars PROVE Base'
<1>. SUFFICES CatIsTyped' /\ PagesAreTyped' /\ LockInv' /\ CacheInv'
  BY TypeStep DEF Base
<1>1. CASE \E p : Still(p)
  BY <1>1, StillKeepsBase
<1>2. ASSUME NEW p \in Commands, Stat(p)
      PROVE  CatIsTyped' /\ PagesAreTyped' /\ LockInv' /\ CacheInv'
  <2>1. /\ Busy(p) /\ cmds[p].pc = "stat" /\ UNCHANGED <<cache, lock, opened>>
        /\ cmds'[p].pc = (IF cmds[p].fresh THEN "hash" ELSE "units")
        /\ cmds'[p].cat = Catalogued(cmds[p].cat)
        /\ cmds'[p].fresh = cmds[p].fresh /\ cmds'[p].rows = cmds[p].rows
    BY <1>2, StatFields
  <2>2. cmds'[p].cat \in [Files -> {None} \cup Signatures]
    BY <2>1, CatalogIsTyped DEF Base, CatIsTyped
  <2>. QED
    BY <2>1, <2>2 DEF Busy, Base, CatIsTyped, PagesAreTyped, LockInv, CacheInv, Units, unitOf, Servable, cache,
                      Locked, Refreshes, Working
<1>3. ASSUME NEW p \in Commands, Hash(p)
      PROVE  CatIsTyped' /\ PagesAreTyped' /\ LockInv' /\ CacheInv'
  <2>1. /\ Busy(p) /\ cmds[p].pc = "hash" /\ UNCHANGED <<cache, lock, opened>>
        /\ cmds'[p].pc = "units" /\ cmds'[p].cat = Hashed(cmds[p].cat)
        /\ cmds'[p].fresh /\ cmds'[p].rows = cmds[p].rows
    BY <1>3, HashFields
  <2>2. cmds'[p].cat \in [Files -> {None} \cup Signatures]
    BY <2>1, CatalogIsTyped DEF Base, CatIsTyped
  <2>. QED
    BY <2>1, <2>2 DEF Busy, Base, CatIsTyped, PagesAreTyped, LockInv, CacheInv, Units, unitOf, Servable, cache,
                      Locked, Refreshes, Working
<1>4. ASSUME NEW p \in Commands, NEW unit \in Units, Replace(p, unit)
      PROVE  CatIsTyped' /\ PagesAreTyped' /\ LockInv' /\ CacheInv'
  <2>1. /\ Busy(p) /\ cmds[p].pc = "units" /\ UNCHANGED <<main, known, mixed, lock, opened>>
        /\ cmds'[p].pc = "units" /\ cmds'[p].cat = cmds[p].cat /\ cmds'[p].fresh = cmds[p].fresh
        /\ cmds[p].fresh => wal' = wal
    BY <1>4, ReplaceFields
  <2>. QED
    BY <2>1 DEF Busy, Base, CatIsTyped, PagesAreTyped, LockInv, CacheInv, Units, unitOf, Servable, Locked,
                Refreshes, Working
<1>5. ASSUME NEW p \in Commands, Rename(p)
      PROVE  CatIsTyped' /\ PagesAreTyped' /\ LockInv' /\ CacheInv'
  <2>1. /\ Busy(p) /\ cmds[p].pc = "units" /\ UNCHANGED <<wal, lock>> /\ Servable'
        /\ cmds'[p].pc = "units" /\ cmds'[p].cat = cmds[p].cat
    BY <1>5, RenameFields
  <2>. QED
    BY <2>1 DEF Busy, Base, CatIsTyped, PagesAreTyped, LockInv, CacheInv, Units, unitOf, Locked,
                Refreshes, Working
<1>6. ASSUME NEW p \in Commands, AsksAgain(p)
      PROVE  CatIsTyped' /\ PagesAreTyped' /\ LockInv' /\ CacheInv'
  <2>1. /\ Busy(p) /\ cmds[p].pc = "units" /\ SameCache /\ opened' \subseteq opened
        /\ cmds'[p].pc = "reread" /\ lock' = None
    BY <1>6, AsksFields
  <2>2. cmds[p].kind = "query"
    BY <1>6 DEF AsksAgain
  <2>. QED
    BY <2>1, <2>2 DEF Busy, Base, CatIsTyped, PagesAreTyped, LockInv, CacheInv, Units, unitOf, Locked,
                      Refreshes, Working, SameCache, Kinds
<1>7. ASSUME NEW f \in Files, NEW version \in Versions \cup {None}, NEW rotten \in BOOLEAN,
             Changes(f, version, rotten)
      PROVE  CatIsTyped' /\ PagesAreTyped' /\ LockInv' /\ CacheInv'
  BY <1>7 DEF Changes, Base, CatIsTyped, PagesAreTyped, LockInv, CacheInv, Units, unitOf, Refreshes, Servable
<1>8. CASE Upgrade
  <2>1. UNCHANGED <<layout, cmds, lock, opened>> /\ lock = None /\ opened = {} /\ wal' = None
    BY <1>8 DEF Upgrade, world
  <2>. QED
    BY <2>1, Constants DEF Base, CatIsTyped, PagesAreTyped, LockInv, CacheInv, Units, unitOf, Refreshes, Locked
<1>. QED
  BY <1>1, <1>2, <1>3, <1>4, <1>5, <1>6, <1>7, <1>8, StepShapes DEF Shapes

-----------------------------------------------------------------------------
(* The archive and what running commands have seen of it *)

LEMMA ArchiveStep == ASSUME Base, ArchiveInv, SeenInv, [Next]_vars PROVE ArchiveInv'
<1>1. ASSUME NEW p, Still(p) PROVE ArchiveInv'
  BY <1>1 DEF Still, SameArchive, ArchiveInv, Seen
<1>2. ASSUME NEW p \in Commands, Stat(p) \/ Hash(p) PROVE ArchiveInv'
  <2>1. Busy(p) /\ UNCHANGED <<lost, cache>>
    BY <1>2, StatFields, HashFields
  <2>. QED
    BY <2>1 DEF Busy, ArchiveInv, cache
<1>3. ASSUME NEW p \in Commands, Rename(p) \/ AsksAgain(p) PROVE ArchiveInv'
  <2>1. Busy(p) /\ UNCHANGED lost /\ known' = Seen(p)
    BY <1>3, RenameFields, AsksFields
  <2>. QED
    BY <2>1 DEF Busy, ArchiveInv, Seen
<1>4. ASSUME NEW p \in Commands, NEW unit \in Units, Replace(p, unit) PROVE ArchiveInv'
  <2>1. Busy(p) /\ UNCHANGED known /\ lost \subseteq lost'
    BY <1>4, ReplaceFields
  <2>. QED
    BY <2>1 DEF Busy, ArchiveInv
<1>5. ASSUME NEW f \in Files, NEW version \in Versions \cup {None}, NEW rotten \in BOOLEAN,
             Changes(f, version, rotten)
      PROVE  ArchiveInv'
  <2>1. /\ archive' = [archive EXCEPT ![f] = version]
        /\ latest' = IF version = None THEN latest ELSE [latest EXCEPT ![f] = version]
        /\ bad' = (IF rotten THEN bad \cup {f} ELSE bad \ {f})
        /\ lost' = (IF rotten THEN lost \cup {f} ELSE lost)
        /\ known' = (IF version = None THEN known \ {f} ELSE known)
        /\ rotten => version = archive[f] /\ version # None
    BY <1>5 DEF Changes
  <2>2. archive \in [Files -> Versions \cup {None}] /\ latest \in [Files -> Versions]
    BY DEF Base, TypeOK
  <2>. QED
    BY <2>1, <2>2 DEF ArchiveInv
<1>6. CASE Upgrade
  BY <1>6 DEF Upgrade, world, ArchiveInv
<1>. QED
  BY <1>1, <1>2, <1>3, <1>4, <1>5, <1>6, StepShapes DEF Shapes

LEMMA SeenStep == ASSUME Base, SeenInv, [Next]_vars PROVE SeenInv'
<1>1. ASSUME NEW p, Still(p) PROVE SeenInv'
  BY <1>1 DEF Still, SameArchive, Away, SeenInv, Refreshes, Held
<1>2. ASSUME NEW p \in Commands, Busy(p), Refreshes(p) PROVE SeenInv'
  BY <1>2 DEF Busy, SeenInv, Refreshes, Held
<1>3. ASSUME NEW p \in Commands, \/ Stat(p) \/ Hash(p) \/ Rename(p) \/ AsksAgain(p)
                                 \/ \E unit \in Units : Replace(p, unit)
      PROVE  Busy(p) /\ Refreshes(p)
  BY <1>3, StatFields, HashFields, RenameFields, AsksFields, ReplaceFields DEF Refreshes, Working
<1>4. ASSUME NEW f \in Files, NEW version \in Versions \cup {None}, NEW rotten \in BOOLEAN,
             Changes(f, version, rotten)
      PROVE  SeenInv'
  <2>. DEFINE bytes == IF rotten THEN Rotten ELSE version
  <2>1. /\ archive' = [archive EXCEPT ![f] = version]
        /\ bad' = (IF rotten THEN bad \cup {f} ELSE bad \ {f})
    BY <1>4 DEF Changes
  <2>2. archive \in [Files -> Versions \cup {None}]
    BY DEF Base, TypeOK
  <2>3. Held(f)' = bytes /\ \A g \in Files : g # f => Held(g)' = Held(g)
    BY <2>1, <2>2 DEF Held
  <2>4. \A p \in Commands :
          /\ cmds'[p].pc = cmds[p].pc
          /\ \A g \in Files : g # f => cmds'[p].during[g] = cmds[p].during[g]
          /\ Refreshes(p) => cmds'[p].during[f] = cmds[p].during[f] \cup {bytes}
    BY <1>4 DEF Changes
  <2>. HIDE DEF bytes
  <2>. QED
    BY <2>3, <2>4 DEF SeenInv, Refreshes
<1>5. CASE Upgrade
  BY <1>5 DEF Upgrade, world, SeenInv, Refreshes, Held
<1>. QED
  BY <1>1, <1>2, <1>3, <1>4, <1>5, StepShapes DEF Shapes

-----------------------------------------------------------------------------
(* Catalogs and rows *)

Core == Base /\ ArchiveInv /\ SeenInv

LEMMA HeldIsSomething ==
    ASSUME Core, NEW f \in Files
    PROVE  Held(f) = None <=> archive[f] = None
BY Constants DEF Core, ArchiveInv, Held

LEMMA LatestGrows ==
    ASSUME Core, [Next]_vars
    PROVE  /\ \A f \in Files : latest[f] \in Versions /\ latest'[f] \in Versions /\ latest[f] <= latest'[f]
           /\ lost \subseteq lost'
<1>1. latest \in [Files -> Versions] /\ latest' \in [Files -> Versions]
  BY TypeStep DEF Core, Base, TypeOK
<1>2. \A f \in Files : latest[f] \in Nat /\ latest'[f] \in Nat /\ latest[f] <= latest[f]
  <2>1. \A f \in Files : latest[f] \in Nat /\ latest'[f] \in Nat
    BY <1>1, Constants
  <2>. QED
    BY <2>1
<1>3. CASE latest' = latest /\ lost \subseteq lost'
  BY <1>2, <1>1, <1>3
<1>4. ASSUME NEW f \in Files, NEW version \in Versions \cup {None}, NEW rotten \in BOOLEAN,
             Changes(f, version, rotten)
      PROVE  /\ \A g \in Files : latest[g] <= latest'[g]
             /\ lost \subseteq lost'
  <2>1. /\ latest' = IF version = None THEN latest ELSE [latest EXCEPT ![f] = version]
        /\ lost' = (IF rotten THEN lost \cup {f} ELSE lost)
        /\ rotten => version = archive[f] /\ version # None
        /\ ~rotten /\ version # None => latest[f] <= version
    BY <1>4 DEF Changes
  <2>2. version # None => latest[f] <= version
    BY <1>2, <2>1 DEF Core, ArchiveInv
  <2>. QED
    BY <1>2, <1>1, <2>1, <2>2
<1>5. CASE \/ \E p : Still(p)
           \/ \E p \in Commands : \/ Stat(p) \/ Hash(p) \/ Rename(p) \/ AsksAgain(p)
                                  \/ \E unit \in Units : Replace(p, unit)
           \/ Upgrade
  BY <1>3, <1>5, StatFields, HashFields, RenameFields, AsksFields, ReplaceFields
     DEF Core, Still, SameArchive, Busy, Upgrade, world
<1>. QED
  BY <1>1, <1>4, <1>5, StepShapes DEF Shapes, Core

\* A catalog lists just the files that are there
LEMMA CatalogLists ==
    ASSUME Core, NEW f \in Files
    PROVE  /\ \A records \in [Files -> Versions \cup {None}] :
                 /\ Catalogued(records)[f] = None <=> archive[f] = None
                 /\ archive[f] # None => Catalogued(records)[f].stat = StatOf(f, archive[f])
           /\ \A cat \in [Files -> {None} \cup Signatures] :
                 /\ Hashed(cat)[f] = None <=> cat[f] = None
                 /\ cat[f] # None => Hashed(cat)[f].stat = cat[f].stat
<1>1. ASSUME NEW records \in [Files -> Versions \cup {None}]
      PROVE  /\ Catalogued(records)[f] = None <=> archive[f] = None
             /\ archive[f] # None => Catalogued(records)[f].stat = StatOf(f, archive[f])
  <2>1. ASSUME archive[f] # None
        PROVE  [stat |-> StatOf(f, archive[f]), sha |-> records[f]] \in Signatures
    <3>1. StatOf(f, archive[f]) \in Nat
      BY <2>1, Constants DEF StatOf, Core, Base, TypeOK
    <3>. QED
      BY <3>1 DEF Signatures, Contents
  <2>. QED
    BY <2>1, Constants DEF Catalogued
<1>2. ASSUME NEW cat \in [Files -> {None} \cup Signatures]
      PROVE  /\ Hashed(cat)[f] = None <=> cat[f] = None
             /\ cat[f] # None => Hashed(cat)[f].stat = cat[f].stat
  <2>1. CASE cat[f] = None
    BY <2>1 DEF Hashed
  <2>2. CASE cat[f] # None
    <3>1. cat[f] \in Signatures
      BY <2>2
    <3>2. Hashed(cat)[f] = [cat[f] EXCEPT !.sha = Held(f)]
      BY <2>2 DEF Hashed
    <3>3. [cat[f] EXCEPT !.sha = Held(f)] \in Signatures
      BY <3>1, HeldIsContent DEF Signatures, Core, Base
    <3>. QED
      BY <2>2, <3>1, <3>2, <3>3, Constants DEF Signatures
  <2>. QED
    BY <2>1, <2>2
<1>. QED
  BY <1>1, <1>2

\* What a command has catalogued it has seen, and the catalog lists all that is known
LEMMA CatStep == ASSUME Core, CatInv, [Next]_vars PROVE CatInv'
<1>0. /\ \A f \in Files : latest[f] \in Nat /\ latest'[f] \in Nat /\ latest[f] <= latest'[f]
  BY LatestGrows, Constants
<1>1. ASSUME NEW p, Still(p) PROVE CatInv'
  <2>1. SUFFICES ASSUME NEW q \in Commands, cmds'[q].pc \in {"hash", "units"}, NEW f \in known'
                 PROVE  cmds'[q].cat[f] # None
    BY <1>1, <2>1 DEF Still, SameArchive, Away, CatInv
  <2>2. cmds'[q] = cmds[q] /\ lock = q
    BY <1>1, <2>1 DEF Still, Away, Core, Base, LockInv, Locked
  <2>. QED
    BY <1>1, <2>1, <2>2 DEF Still, CatInv, Seen, Core, Base, TypeOK
<1>2. ASSUME NEW p \in Commands, Stat(p) PROVE CatInv'
  <2>1. /\ Busy(p) /\ cmds[p].pc = "stat" /\ UNCHANGED <<lost, cache, lock, opened>>
        /\ cmds'[p].cat = Catalogued(cmds[p].cat)
    BY <1>2, StatFields DEF Core
  <2>2. ASSUME NEW f \in Files
        PROVE  /\ cmds'[p].cat[f] = None => None \in cmds'[p].during[f]
               /\ cmds'[p].cat[f] # None =>
                     /\ cmds'[p].during[f] # {None}
                     /\ f \notin Raw => cmds'[p].cat[f].stat \in Nat /\ cmds'[p].cat[f].stat <= latest'[f]
               /\ f \in known' => cmds'[p].cat[f] # None
    <3>1. Held(f) \in cmds'[p].during[f]
      BY <2>1 DEF Busy, Core, SeenInv, Refreshes, Working
    <3>2. cmds[p].cat \in [Files -> Versions \cup {None}]
      BY <2>1 DEF Core, Base, CatIsTyped
    <3>3. /\ cmds'[p].cat[f] = None <=> archive[f] = None
          /\ archive[f] # None => cmds'[p].cat[f].stat = StatOf(f, archive[f])
      BY <2>1, <3>2, CatalogLists
    <3>4. known' = known /\ latest'[f] = latest[f]
      BY <2>1 DEF cache, Busy
    <3>5. archive[f] # None => archive[f] = latest[f]
      BY DEF Core, ArchiveInv
    <3>6. f \in known => archive[f] # None
      BY DEF Core, ArchiveInv
    <3>7. cmds'[p].cat[f] # None /\ f \notin Raw =>
              cmds'[p].cat[f].stat \in Nat /\ cmds'[p].cat[f].stat <= latest'[f]
      BY <1>0, <3>3, <3>4, <3>5 DEF StatOf
    <3>. QED
      BY <3>1, <3>3, <3>4, <3>6, <3>7, HeldIsSomething
  <2>. QED
    BY <2>1, <2>2 DEF Busy, CatInv, cache
<1>3. ASSUME NEW p \in Commands, Hash(p) PROVE CatInv'
  <2>1. /\ Busy(p) /\ cmds[p].pc = "hash" /\ UNCHANGED <<lost, cache, lock, opened>>
        /\ cmds'[p].cat = Hashed(cmds[p].cat)
    BY <1>3, HashFields DEF Core
  <2>2. cmds[p].cat \in [Files -> {None} \cup Signatures]
    BY <2>1 DEF Core, Base, CatIsTyped
  <2>3. \A f \in Files :
            /\ cmds'[p].cat[f] = None <=> cmds[p].cat[f] = None
            /\ cmds[p].cat[f] # None => cmds'[p].cat[f].stat = cmds[p].cat[f].stat
    BY <2>1, <2>2, CatalogLists
  <2>4. \A f \in Files :
            /\ cmds'[p].cat[f] = None => None \in cmds'[p].during[f]
            /\ cmds'[p].cat[f] # None =>
                  /\ cmds'[p].during[f] # {None}
                  /\ f \notin Raw => cmds'[p].cat[f].stat \in Nat /\ cmds'[p].cat[f].stat <= latest'[f]
            /\ f \in known' => cmds'[p].cat[f] # None
    BY <2>1, <2>3 DEF Busy, CatInv, cache
  <2>. QED
    BY <2>1, <2>4 DEF Busy, CatInv, cache
<1>4. ASSUME NEW p \in Commands, Busy(p), cmds[p].pc = "units", cmds'[p].cat = cmds[p].cat,
             known' = known \/ known' = Seen(p)
      PROVE  CatInv'
  <2>1. \A q \in Commands : q # p => cmds[q].pc \notin {"hash", "units"}
    BY <1>4 DEF Busy, Core, Base, LockInv, Locked
  <2>. QED
    BY <1>4, <2>1 DEF Busy, CatInv, Seen
<1>5. ASSUME NEW p \in Commands, Rename(p) \/ AsksAgain(p) \/ \E unit \in Units : Replace(p, unit)
      PROVE  CatInv'
  BY <1>4, <1>5, RenameFields, AsksFields, ReplaceFields DEF Core
<1>6. ASSUME NEW g \in Files, NEW version \in Versions \cup {None}, NEW rotten \in BOOLEAN,
             Changes(g, version, rotten)
      PROVE  CatInv'
  <2>1. SUFFICES ASSUME NEW p \in Commands, cmds'[p].pc \in {"hash", "units"}, NEW f \in Files
                 PROVE  /\ cmds'[p].cat[f] = None => None \in cmds'[p].during[f]
                        /\ cmds'[p].cat[f] # None =>
                              /\ cmds'[p].during[f] # {None}
                              /\ f \notin Raw => cmds'[p].cat[f].stat \in Nat /\ cmds'[p].cat[f].stat <= latest'[f]
                        /\ f \in known' => cmds'[p].cat[f] # None
    BY <2>1 DEF CatInv
  <2>2. /\ cmds[p].pc \in {"hash", "units"} /\ cmds'[p].cat = cmds[p].cat /\ known' \subseteq known
        /\ cmds[p].during[f] \subseteq cmds'[p].during[f]
    BY <1>6, <2>1 DEF Changes
  <2>3. Held(f) \in cmds[p].during[f]
    BY <2>2 DEF Core, SeenInv, Refreshes, Working
  <2>4. cmds[p].during[f] # {None} => cmds'[p].during[f] # {None}
    BY <2>2, <2>3
  <2>. QED
    BY <1>0, <2>2, <2>4 DEF CatInv
<1>7. CASE Upgrade
  BY <1>7 DEF Upgrade, world, CatInv
<1>. QED
  BY <1>1, <1>2, <1>3, <1>5, <1>6, <1>7, StepShapes DEF Shapes, Core

LEMMA SoundStaysSound ==
    ASSUME Core, [Next]_vars, NEW f \in Files, NEW row, SoundRow(f, row)
    PROVE  SoundBy(f, row, lost', latest')
<1>1. latest[f] \in Nat /\ latest'[f] \in Nat /\ latest[f] <= latest'[f] /\ lost \subseteq lost'
  BY LatestGrows, Constants
<1>2. row.bytes \in Versions /\ row.bytes <= latest[f] => row.bytes <= latest'[f]
  <2>1. ASSUME row.bytes \in Versions PROVE row.bytes \in Nat
    BY <2>1, Constants
  <2>. QED
    BY <1>1, <2>1
<1>. QED
  BY <1>1, <1>2 DEF SoundRow, SoundBy

LEMMA RowsOfAreSound ==
    ASSUME Core, RowsInv, NEW p \in Commands, cmds[p].pc = "units", NEW f \in Files
    PROVE  SoundRow(f, Rows(p)[f])
BY DEF Core, Base, CacheInv, RowsInv, Rows, Opened

LEMMA ReplacedIsSound ==
    ASSUME Core, CatInv, RowsInv, [Next]_vars, NEW p \in Commands, NEW unit \in Units, Replace(p, unit),
           NEW f \in Files
    PROVE  SoundBy(f, Replaced(Rows(p), unit, cmds[p].cat)[f], lost', latest')
<1>1. /\ Busy(p) /\ cmds[p].pc = "units"
      /\ lost' = lost \cup {g \in Files : unitOf[g] = unit /\ cmds[p].cat[g] # None /\ archive[g] = None}
  BY ReplaceFields DEF Core
<1>2. PICK row : row = Replaced(Rows(p), unit, cmds[p].cat)[f]
  OBVIOUS
<1>3. row = IF unitOf[f] # unit THEN Rows(p)[f]
            ELSE IF cmds[p].cat[f] = None THEN None
            ELSE [sig |-> cmds[p].cat[f], bytes |-> Held(f)]
  BY <1>2 DEF Replaced
<1>4. CASE unitOf[f] # unit
  BY <1>1, <1>2, <1>3, <1>4, RowsOfAreSound, SoundStaysSound
<1>5. CASE cmds[p].cat[f] = None /\ unitOf[f] = unit
  BY <1>2, <1>3, <1>5 DEF SoundBy
<1>6. CASE cmds[p].cat[f] # None /\ unitOf[f] = unit
  <2>1. row.bytes = Held(f) /\ row.sig = cmds[p].cat[f]
    BY <1>3, <1>6
  <2>2. archive[f] = None => f \in lost'
    BY <1>1, <1>6
  <2>3. f \in bad => f \in lost'
    BY <1>1 DEF Core, ArchiveInv
  <2>4. archive[f] # None /\ f \notin bad => Held(f) = latest[f]
    BY DEF Held, Core, ArchiveInv
  <2>5. latest'[f] = latest[f] /\ latest[f] \in Versions /\ latest[f] <= latest'[f]
    BY <1>1, LatestGrows DEF Busy
  <2>6. f \notin Raw => cmds[p].cat[f].stat <= latest[f]
    BY <1>1, <1>6 DEF CatInv
  <2>. QED
    BY <1>2, <2>1, <2>2, <2>3, <2>4, <2>5, <2>6 DEF SoundBy
<1>. QED
  BY <1>4, <1>5, <1>6

\* A row says what its file once held, no older than the time it is signed with
LEMMA RowsStep == ASSUME Core, CatInv, RowsInv, [Next]_vars PROVE RowsInv'
<1>1. SUFFICES ASSUME NEW f \in Files
               PROVE  /\ Servable' => SoundBy(f, main'[f], lost', latest')
                      /\ wal' # None => SoundBy(f, wal'[f], lost', latest')
                      /\ \A q \in Commands : SoundBy(f, cmds'[q].rows[f], lost', latest')
  BY DEF RowsInv, SoundRow
<1>2. /\ Servable => SoundBy(f, main[f], lost', latest')
      /\ wal # None => SoundBy(f, wal[f], lost', latest')
      /\ \A q \in Commands : SoundBy(f, cmds[q].rows[f], lost', latest')
      /\ SoundBy(f, None, lost', latest')
  BY SoundStaysSound DEF RowsInv, SoundBy
<1>3. ASSUME SameCache
      PROVE  /\ Servable' => SoundBy(f, main'[f], lost', latest')
             /\ wal' # None => SoundBy(f, wal'[f], lost', latest')
  BY <1>2, <1>3 DEF SameCache, Opened
<1>4. ASSUME NEW p, Still(p)
      PROVE  SameCache /\ \A q \in Commands : SoundBy(f, cmds'[q].rows[f], lost', latest')
  BY <1>2, <1>4 DEF Still, Away
<1>5. ASSUME NEW p \in Commands, Stat(p) \/ Hash(p) \/ AsksAgain(p)
      PROVE  SameCache /\ \A q \in Commands : SoundBy(f, cmds'[q].rows[f], lost', latest')
  <2>1. Busy(p) /\ cmds'[p].rows = cmds[p].rows /\ (SameCache \/ UNCHANGED <<main, wal>>)
    BY <1>5, StatFields, HashFields, AsksFields DEF Core, cache
  <2>. QED
    BY <1>2, <2>1, UntouchedIsSame DEF Busy
<1>6. ASSUME NEW p \in Commands, NEW unit \in Units, Replace(p, unit)
      PROVE  /\ Servable' => SoundBy(f, main'[f], lost', latest')
             /\ wal' # None => SoundBy(f, wal'[f], lost', latest')
             /\ \A q \in Commands : SoundBy(f, cmds'[q].rows[f], lost', latest')
  <2>. DEFINE rows == Replaced(Rows(p), unit, cmds[p].cat)
  <2>1. SoundBy(f, rows[f], lost', latest')
    BY <1>6, ReplacedIsSound
  <2>2. /\ Busy(p) /\ main' = main
        /\ (wal' = wal /\ cmds'[p].rows = rows) \/ (wal' = rows /\ cmds'[p].rows = cmds[p].rows)
    BY <1>6, ReplaceFields DEF Core
  <2>. HIDE DEF rows
  <2>. QED
    BY <1>2, <2>1, <2>2 DEF Busy, Servable
<1>7. ASSUME NEW p \in Commands, Rename(p)
      PROVE  /\ Servable' => SoundBy(f, main'[f], lost', latest')
             /\ wal' # None => SoundBy(f, wal'[f], lost', latest')
             /\ \A q \in Commands : SoundBy(f, cmds'[q].rows[f], lost', latest')
  <2>1. Busy(p) /\ main' = cmds[p].rows /\ wal' = wal /\ cmds'[p].rows = cmds[p].rows
    BY <1>7, RenameFields DEF Core
  <2>. QED
    BY <1>2, <2>1 DEF Busy
<1>8. ASSUME NEW g \in Files, NEW version \in Versions \cup {None}, NEW rotten \in BOOLEAN,
             Changes(g, version, rotten)
      PROVE  SameCache /\ \A q \in Commands : SoundBy(f, cmds'[q].rows[f], lost', latest')
  BY <1>2, <1>8, UntouchedIsSame DEF Changes
<1>9. CASE Upgrade
  BY <1>2, <1>9 DEF Upgrade, Servable
<1>. QED
  BY <1>3, <1>4, <1>5, <1>6, <1>7, <1>8, <1>9, StepShapes DEF Shapes, Core

-----------------------------------------------------------------------------
(* The rows a command has been through are as they should be *)

LEMMA GoodStaysGood ==
    ASSUME NEW kind, NEW seen, NEW more, NEW gone, NEW others, NEW f, NEW bytes,
           GoodBy(kind, seen, gone, f, bytes), seen # {}, seen \subseteq more, gone \subseteq others
    PROVE  GoodBy(kind, more, others, f, bytes)
BY DEF GoodBy

\* One step at the cache is the step of one command
LEMMA BusySteps ==
    ASSUME Core, NEW p \in Commands,
           Stat(p) \/ Hash(p) \/ Rename(p) \/ AsksAgain(p) \/ \E unit \in Units : Replace(p, unit)
    PROVE  /\ Busy(p) /\ cmds[p].pc \in {"stat", "hash", "units"}
           /\ \A q \in Commands : cmds[q].pc \in {"hash", "units"} => q = p
BY StatFields, HashFields, RenameFields, AsksFields, ReplaceFields DEF Core, Base, LockInv, Locked, Busy

\* What a command has seen of a file only grows while it is at the cache
LEMMA SeenGrows ==
    ASSUME Core, [Next]_vars, NEW p \in Commands, cmds'[p].pc \in {"hash", "units", "reread"}, NEW f \in Files
    PROVE  /\ cmds[p].during[f] # {} /\ cmds[p].during[f] \subseteq cmds'[p].during[f]
           /\ cmds'[p].kind = cmds[p].kind /\ lost \subseteq lost'
<1>1. lost \subseteq lost'
  BY LatestGrows
<1>2. SUFFICES /\ cmds[p].pc \in {"stat", "hash", "units", "reread"}
               /\ cmds[p].during[f] \subseteq cmds'[p].during[f] /\ cmds'[p].kind = cmds[p].kind
  BY <1>1 DEF Core, SeenInv, Refreshes, Working
<1>3. ASSUME NEW q, Still(q) PROVE cmds'[p] = cmds[p]
  BY <1>3 DEF Still, Away
<1>4. ASSUME NEW q \in Commands,
             Stat(q) \/ Hash(q) \/ Rename(q) \/ AsksAgain(q) \/ \E unit \in Units : Replace(q, unit)
      PROVE  /\ cmds[p].pc \in {"stat", "hash", "units", "reread"}
             /\ cmds'[p].during = cmds[p].during /\ cmds'[p].kind = cmds[p].kind
  BY <1>4, BusySteps DEF Busy
<1>5. ASSUME NEW g \in Files, NEW version \in Versions \cup {None}, NEW rotten \in BOOLEAN,
             Changes(g, version, rotten)
      PROVE  /\ cmds[p].pc \in {"stat", "hash", "units", "reread"}
             /\ cmds[p].during[f] \subseteq cmds'[p].during[f] /\ cmds'[p].kind = cmds[p].kind
  BY <1>5 DEF Changes
<1>6. CASE Upgrade
  BY <1>6 DEF Upgrade
<1>. QED
  BY <1>3, <1>4, <1>5, <1>6, StepShapes DEF Shapes, Core

\* A row that is not replaced though its unit was looked at says what the file held
LEMMA UnchangedIsGood ==
    ASSUME Core, CatInv, CatInv', RowsInv, NEW p \in Commands, Stat(p), ~cmds[p].fresh,
           NEW f \in Files, unitOf[f] \notin cmds'[p].todo
    PROVE  /\ cmds'[p].cat[f] = None => Opened[f] = None
           /\ cmds'[p].cat[f] # None =>
                 Opened[f] # None /\ GoodBy(cmds[p].kind, cmds[p].during[f], lost, f, Opened[f].bytes)
<1>1. /\ Busy(p) /\ cmds[p].pc = "stat" /\ cmds'[p].pc = "units"
      /\ cmds'[p].cat = Catalogued(cmds[p].cat) /\ cmds'[p].todo = Changed(cmds'[p].cat, Opened)
      /\ UNCHANGED lost
  BY StatFields DEF Core, Rows
<1>2. /\ cmds'[p].cat[f] = None => Opened[f] = None
      /\ cmds'[p].cat[f] # None => Opened[f] # None /\ Opened[f].sig = cmds'[p].cat[f]
  BY <1>1 DEF Changed, IsChanged
<1>3. ASSUME cmds'[p].cat[f] # None
      PROVE  GoodBy(cmds[p].kind, cmds[p].during[f], lost, f, Opened[f].bytes)
  <2>1. cmds[p].kind # "rebuild"
    BY <1>1 DEF Core, Base, CacheInv
  <2>2. SoundRow(f, Opened[f])
    BY <1>1 DEF Core, Base, CacheInv, RowsInv, Opened
  <2>3. CASE f \in lost
    BY <2>1, <2>3 DEF GoodBy
  <2>4. ASSUME f \notin lost
        PROVE  /\ Opened[f].bytes \in Versions /\ Opened[f].bytes <= latest[f]
               /\ f \notin Raw => Opened[f].sig.stat <= Opened[f].bytes
    BY <1>2, <1>3, <2>2, <2>4 DEF SoundRow, SoundBy
  <2>5. CASE f \notin lost /\ f \in Raw
    <3>1. cmds'[p].during[f] # {None}
      BY <1>1, <1>3 DEF CatInv
    <3>2. Opened[f].bytes # None
      BY <2>4, <2>5, Constants
    <3>. QED
      BY <1>1, <2>1, <2>5, <3>1, <3>2 DEF GoodBy, Busy
  <2>6. CASE f \notin lost /\ f \notin Raw
    <3>1. archive[f] # None /\ cmds'[p].cat[f].stat = archive[f]
      BY <1>1, <1>3, <2>6 DEF Catalogued, StatOf
    <3>2. archive[f] = latest[f] /\ f \notin bad /\ Held(f) = archive[f]
      BY <2>6, <3>1 DEF Core, ArchiveInv, Held
    <3>3. latest[f] \in Nat /\ Opened[f].bytes \in Nat
      BY <2>4, <2>6, Constants DEF Core, Base, TypeOK
    <3>4. Opened[f].bytes = Held(f)
      BY <1>2, <1>3, <2>4, <2>6, <3>1, <3>2, <3>3
    <3>5. Held(f) \in cmds[p].during[f]
      BY <1>1 DEF Core, SeenInv, Refreshes, Working
    <3>. QED
      BY <3>4, <3>5 DEF GoodBy
  <2>. QED
    BY <2>3, <2>5, <2>6
<1>. QED
  BY <1>2, <1>3

LEMMA ReplacedRow ==
    ASSUME Core, NEW p \in Commands, NEW unit \in Units, Replace(p, unit), NEW f \in Files
    PROVE  /\ unitOf[f] # unit => Rows(p)'[f] = Rows(p)[f]
           /\ unitOf[f] = unit /\ cmds[p].cat[f] = None => Rows(p)'[f] = None
           /\ unitOf[f] = unit /\ cmds[p].cat[f] # None => Rows(p)'[f] # None /\ Rows(p)'[f].bytes = Held(f)
<1>1. /\ cmds[p].pc = "units" /\ cmds'[p].fresh = cmds[p].fresh
      /\ cmds[p].fresh => wal' = wal /\ cmds'[p].rows = Replaced(Rows(p), unit, cmds[p].cat)
      /\ ~cmds[p].fresh => wal' = Replaced(Rows(p), unit, cmds[p].cat) /\ cmds'[p].rows = cmds[p].rows
  BY ReplaceFields DEF Core
<1>2. cmds[p].cat \in [Files -> {None} \cup Signatures]
  BY <1>1 DEF Core, Base, CatIsTyped
<1>3. Rows(p) \in Databases
  BY <1>1, DatabaseOpened DEF Rows, Works, Core, Base, TypeOK, CacheInv
<1>4. Replaced(Rows(p), unit, cmds[p].cat) \in Databases
  BY <1>2, <1>3, ReplacedIsDatabase DEF Core, Base
<1>5. Rows(p)' = Replaced(Rows(p), unit, cmds[p].cat)
  BY <1>1, <1>4, Constants DEF Rows, Opened
<1>6. Held(f) \in Contents
  BY HeldIsContent DEF Core, Base
<1>7. cmds[p].cat[f] # None =>
          [sig |-> cmds[p].cat[f], bytes |-> Held(f)] \in [sig : Signatures, bytes : Contents]
  BY <1>2, <1>6
<1>. QED
  BY <1>5, <1>7, Constants DEF Replaced

LEMMA WorkStep == ASSUME Core, CatInv, CatInv', RowsInv, WorkInv, [Next]_vars PROVE WorkInv'
<1>1. SUFFICES ASSUME NEW p \in Commands, cmds'[p].pc = "units", cmds'[p].fresh \/ ~mixed',
                      NEW f \in Files, unitOf'[f] \notin cmds'[p].todo
               PROVE  /\ cmds'[p].cat[f] = None => Rows(p)'[f] = None
                      /\ cmds'[p].cat[f] # None =>
                            /\ Rows(p)'[f] # None
                            /\ GoodBy(cmds'[p].kind, cmds'[p].during[f], lost', f, Rows(p)'[f].bytes)
  BY DEF WorkInv, GoodRow, Good
<1>2. /\ cmds[p].during[f] # {} /\ cmds[p].during[f] \subseteq cmds'[p].during[f]
      /\ cmds'[p].kind = cmds[p].kind /\ lost \subseteq lost'
  BY <1>1, SeenGrows
<1>3. ASSUME cmds[p].pc = "units", cmds[p].fresh \/ ~mixed, unitOf[f] \notin cmds[p].todo,
             cmds'[p].cat = cmds[p].cat, Rows(p)'[f] = Rows(p)[f]
      PROVE  /\ cmds'[p].cat[f] = None => Rows(p)'[f] = None
             /\ cmds'[p].cat[f] # None =>
                   /\ Rows(p)'[f] # None
                   /\ GoodBy(cmds'[p].kind, cmds'[p].during[f], lost', f, Rows(p)'[f].bytes)
  <2>1. GoodRow(p, f, Rows(p)[f])
    BY <1>3 DEF WorkInv
  <2>. QED
    BY <1>2, <1>3, <2>1, GoodStaysGood DEF GoodRow, Good
<1>4. ASSUME NEW q, Still(q)
      PROVE  /\ cmds[p].pc = "units" /\ (cmds[p].fresh \/ ~mixed) /\ unitOf[f] \notin cmds[p].todo
             /\ cmds'[p].cat = cmds[p].cat /\ Rows(p)'[f] = Rows(p)[f]
  BY <1>1, <1>4 DEF Still, SameArchive, SameCache, Away, Rows, unitOf
<1>5. ASSUME NEW g \in Files, NEW version \in Versions \cup {None}, NEW rotten \in BOOLEAN,
             Changes(g, version, rotten)
      PROVE  /\ cmds[p].pc = "units" /\ (cmds[p].fresh \/ ~mixed) /\ unitOf[f] \notin cmds[p].todo
             /\ cmds'[p].cat = cmds[p].cat /\ Rows(p)'[f] = Rows(p)[f]
  BY <1>1, <1>5 DEF Changes, Rows, Opened, unitOf
<1>6. ~Upgrade
  BY <1>1, Constants DEF Upgrade, Core, Base, LockInv, Locked
<1>7. ASSUME NEW q \in Commands,
             Stat(q) \/ Hash(q) \/ Rename(q) \/ AsksAgain(q) \/ \E unit \in Units : Replace(q, unit)
      PROVE  q = p /\ unitOf' = unitOf /\ cmds'[p].during = cmds[p].during
  BY <1>1, <1>7, BusySteps DEF Busy, unitOf
<1>8. ASSUME Stat(p)
      PROVE  /\ cmds'[p].cat[f] = None => Rows(p)'[f] = None
             /\ cmds'[p].cat[f] # None =>
                   /\ Rows(p)'[f] # None
                   /\ GoodBy(cmds'[p].kind, cmds'[p].during[f], lost', f, Rows(p)'[f].bytes)
  <2>1. ~cmds[p].fresh /\ Rows(p)' = Opened /\ lost' = lost
    BY <1>1, <1>8, StatFields DEF Core, Rows, Opened, cache
  <2>. QED
    BY <1>1, <1>2, <1>7, <1>8, <2>1, UnchangedIsGood
<1>9. ASSUME Hash(p)
      PROVE  cmds'[p].cat[f] = None /\ Rows(p)'[f] = None
  <2>1. /\ cmds[p].pc = "hash" /\ cmds[p].fresh /\ cmds'[p].fresh /\ cmds'[p].rows = cmds[p].rows
        /\ cmds'[p].todo = Changed(cmds'[p].cat, cmds[p].rows)
    BY <1>9, HashFields DEF Core, Rows
  <2>2. cmds[p].rows[f] = None
    BY <2>1 DEF Core, Base, CacheInv
  <2>. QED
    BY <1>1, <1>7, <1>9, <2>1, <2>2 DEF Changed, IsChanged, Rows
<1>10. ASSUME NEW unit \in Units, Replace(p, unit)
       PROVE  /\ cmds'[p].cat[f] = None => Rows(p)'[f] = None
              /\ cmds'[p].cat[f] # None =>
                    /\ Rows(p)'[f] # None
                    /\ GoodBy(cmds'[p].kind, cmds'[p].during[f], lost', f, Rows(p)'[f].bytes)
  <2>1. /\ cmds[p].pc = "units" /\ mixed' = mixed /\ cmds'[p].cat = cmds[p].cat
        /\ cmds'[p].todo = cmds[p].todo \ {unit} /\ cmds'[p].fresh = cmds[p].fresh
    BY <1>10, ReplaceFields DEF Core
  <2>2. CASE unitOf[f] # unit
    BY <1>1, <1>3, <1>7, <1>10, <2>1, <2>2, ReplacedRow
  <2>3. CASE unitOf[f] = unit
    <3>1. Held(f) \in cmds[p].during[f]
      BY <2>1 DEF Core, SeenInv, Refreshes, Working
    <3>. QED
      BY <1>2, <1>10, <2>1, <2>3, <3>1, ReplacedRow DEF GoodBy
  <2>. QED
    BY <2>2, <2>3
<1>11. ASSUME Rename(p)
       PROVE  /\ cmds[p].pc = "units" /\ (cmds[p].fresh \/ ~mixed) /\ unitOf[f] \notin cmds[p].todo
              /\ cmds'[p].cat = cmds[p].cat /\ Rows(p)'[f] = Rows(p)[f]
  BY <1>1, <1>11, RenameFields DEF Core, Rows, Opened
<1>12. ~AsksAgain(p)
  BY <1>1, AsksFields DEF Core
<1>. QED
  BY <1>3, <1>4, <1>5, <1>6, <1>7, <1>8, <1>9, <1>10, <1>11, <1>12, StepShapes DEF Shapes, Core

-----------------------------------------------------------------------------
(* What a query may find when it reads again *)

LEMMA FreshStep == ASSUME Core, FreshRows, [Next]_vars PROVE FreshRows'
<1>1. SUFFICES ASSUME NEW p \in Commands, NEW q \in Commands,
                      cmds'[p].pc = "reread", cmds'[q].pc \in {"hash", "units"}, NEW f \in Files
               PROVE  /\ cmds'[q].cat[f] = None => None \in cmds'[p].during[f]
                      /\ cmds'[q].fresh /\ cmds'[q].rows[f] # None =>
                            cmds'[q].rows[f].bytes \in cmds'[p].during[f]
  BY DEF FreshRows
<1>2. cmds[p].during[f] \subseteq cmds'[p].during[f]
  BY <1>1, SeenGrows
<1>3. ASSUME cmds[p].pc = "reread", cmds[q].pc \in {"hash", "units"}, cmds'[q].cat[f] = None => cmds[q].cat[f] = None,
             cmds'[q].fresh => cmds[q].fresh, cmds'[q].rows[f] = cmds[q].rows[f]
      PROVE  /\ cmds'[q].cat[f] = None => None \in cmds'[p].during[f]
             /\ cmds'[q].fresh /\ cmds'[q].rows[f] # None =>
                   cmds'[q].rows[f].bytes \in cmds'[p].during[f]
  BY <1>2, <1>3 DEF FreshRows
<1>4. ASSUME \/ \E r : Still(r)
             \/ \E g \in Files : \E version \in Versions \cup {None}, rotten \in BOOLEAN : Changes(g, version, rotten)
             \/ Upgrade
      PROVE  /\ cmds[p].pc = "reread" /\ cmds[q].pc \in {"hash", "units"} /\ cmds'[q].cat = cmds[q].cat
             /\ cmds'[q].fresh = cmds[q].fresh /\ cmds'[q].rows = cmds[q].rows
  BY <1>1, <1>4 DEF Still, Away, Changes, Upgrade
<1>5. ASSUME NEW r \in Commands,
             Stat(r) \/ Hash(r) \/ Rename(r) \/ AsksAgain(r) \/ \E unit \in Units : Replace(r, unit)
      PROVE  r = q /\ ~AsksAgain(q) /\ p # q /\ cmds[p].pc = "reread" /\ cmds'[p] = cmds[p]
             /\ Held(f) \in cmds[p].during[f]
  <2>1. Busy(r) /\ cmds[r].pc \in {"stat", "hash", "units"}
        /\ \A c \in Commands : cmds[c].pc \in {"hash", "units"} => c = r
    BY <1>5, BusySteps
  <2>2. r = q
    BY <1>1, <2>1 DEF Busy
  <2>3. ~AsksAgain(q)
    BY <1>1, AsksFields DEF Core
  <2>4. cmds[p].pc = "reread" /\ cmds'[p] = cmds[p] /\ p # q
    BY <1>1, <2>1, <2>2 DEF Busy
  <2>. QED
    BY <2>2, <2>3, <2>4 DEF Core, SeenInv, Refreshes, Working
<1>6. ASSUME Stat(q), Held(f) \in cmds[p].during[f], cmds'[p] = cmds[p]
      PROVE  /\ cmds'[q].cat[f] = None => None \in cmds'[p].during[f]
             /\ cmds'[q].rows[f] = None
  <2>1. cmds[q].pc = "stat" /\ cmds'[q].cat = Catalogued(cmds[q].cat) /\ cmds'[q].rows = cmds[q].rows
    BY <1>6, StatFields DEF Core
  <2>2. cmds'[q].rows[f] = None
    BY <2>1 DEF Core, Base, CacheInv
  <2>3. cmds'[q].cat[f] = None <=> archive[f] = None
    BY <2>1, CatalogLists DEF Core, Base, CatIsTyped
  <2>. QED
    BY <1>6, <2>2, <2>3, HeldIsSomething
<1>7. ASSUME Hash(q)
      PROVE  /\ cmds[q].pc = "hash"
             /\ cmds'[q].cat[f] = None => cmds[q].cat[f] = None
             /\ cmds[q].fresh /\ cmds'[q].rows = cmds[q].rows
  BY <1>7, HashFields, CatalogLists DEF Core, Base, CatIsTyped
<1>8. ASSUME Rename(q)
      PROVE  cmds[q].pc = "units" /\ cmds'[q].cat = cmds[q].cat /\ cmds[q].fresh /\ cmds'[q].rows = cmds[q].rows
  BY <1>8, RenameFields DEF Core
<1>9. ASSUME NEW unit \in Units, Replace(q, unit), Held(f) \in cmds[p].during[f], cmds'[p] = cmds[p],
             cmds[p].pc = "reread"
      PROVE  /\ cmds'[q].cat[f] = None => None \in cmds'[p].during[f]
             /\ cmds'[q].fresh /\ cmds'[q].rows[f] # None =>
                   cmds'[q].rows[f].bytes \in cmds'[p].during[f]
  <2>1. /\ cmds[q].pc = "units" /\ cmds'[q].cat = cmds[q].cat /\ cmds'[q].fresh = cmds[q].fresh
    BY <1>9, ReplaceFields DEF Core
  <2>2. /\ cmds[q].cat[f] = None => None \in cmds[p].during[f]
        /\ cmds[q].fresh /\ cmds[q].rows[f] # None => cmds[q].rows[f].bytes \in cmds[p].during[f]
    BY <1>9, <2>1 DEF FreshRows
  <2>. QED
    BY <1>9, <2>1, <2>2, ReplacedRow DEF Rows
<1>. QED
  BY <1>3, <1>4, <1>5, <1>6, <1>7, <1>8, <1>9, StepShapes DEF Shapes, Core

\* A refresh that is through answers with what it should
LEMMA ReadyIsGood ==
    ASSUME Core, CatInv, WorkInv, NEW p \in Commands, Ready(p), ~cmds[p].fresh, ~mixed, NEW f \in Files
    PROVE  /\ Good(p, f, Bytes(Opened)[f])
           /\ cmds[p].cat[f] # None => Opened[f] # None
<1>1. cmds[p].pc = "units" /\ GoodRow(p, f, Opened[f])
  BY DEF Ready, WorkInv, Rows
<1>2. cmds[p].cat[f] = None => None \in cmds[p].during[f]
  BY <1>1 DEF CatInv
<1>3. CASE cmds[p].cat[f] = None
  BY <1>1, <1>2, <1>3 DEF GoodRow, Good, GoodBy, Bytes
<1>4. CASE cmds[p].cat[f] # None
  BY <1>1, <1>4 DEF GoodRow, Bytes
<1>. QED
  BY <1>3, <1>4

LEMMA RereadStep ==
    ASSUME Core, CatInv, WorkInv, FreshRows, RereadInv, [Next]_vars
    PROVE  RereadInv'
<1>1. SUFFICES ASSUME NEW p \in Commands, cmds'[p].pc = "reread", ~mixed', Servable', NEW f \in Files
               PROVE  GoodBy(cmds'[p].kind, cmds'[p].during[f], lost', f, Bytes(Opened)'[f])
  BY DEF RereadInv, Good
<1>2. /\ cmds[p].during[f] # {} /\ cmds[p].during[f] \subseteq cmds'[p].during[f]
      /\ cmds'[p].kind = cmds[p].kind /\ lost \subseteq lost'
  BY <1>1, SeenGrows
<1>3. ASSUME cmds[p].pc = "reread", ~mixed, Servable, Opened'[f] = Opened[f]
      PROVE  GoodBy(cmds'[p].kind, cmds'[p].during[f], lost', f, Bytes(Opened)'[f])
  <2>1. Good(p, f, Bytes(Opened)[f]) /\ Bytes(Opened)'[f] = Bytes(Opened)[f]
    BY <1>3 DEF RereadInv, Bytes
  <2>. QED
    BY <1>2, <2>1, GoodStaysGood DEF Good
<1>4. ASSUME NEW q, Still(q)
      PROVE  cmds[p].pc = "reread" /\ ~mixed /\ Servable /\ Opened' = Opened
  BY <1>1, <1>4 DEF Still, SameCache, Away
<1>5. ASSUME NEW g \in Files, NEW version \in Versions \cup {None}, NEW rotten \in BOOLEAN,
             Changes(g, version, rotten)
      PROVE  cmds[p].pc = "reread" /\ ~mixed /\ Servable /\ Opened' = Opened
  BY <1>1, <1>5 DEF Changes, Servable, Opened
<1>6. ~Upgrade
  BY <1>1 DEF Upgrade, Servable
<1>7. ASSUME NEW q \in Commands, Stat(q) \/ Hash(q)
      PROVE  cmds[p].pc = "reread" /\ ~mixed /\ Servable /\ Opened' = Opened
  <2>1. Busy(q) /\ cmds'[q].pc \in {"hash", "units"} /\ UNCHANGED cache
    BY <1>7, StatFields, HashFields DEF Core
  <2>. QED
    BY <1>1, <2>1 DEF Busy, cache, Servable, Opened
<1>8. ASSUME NEW q \in Commands, NEW unit \in Units, Replace(q, unit)
      PROVE  GoodBy(cmds'[p].kind, cmds'[p].during[f], lost', f, Bytes(Opened)'[f])
  <2>1. /\ Busy(q) /\ cmds[q].pc = "units" /\ cmds'[q].pc = "units" /\ mixed' = mixed /\ main' = main
        /\ cmds'[q].fresh = cmds[q].fresh
        /\ cmds[q].fresh => wal' = wal
    BY <1>8, ReplaceFields DEF Core
  <2>2. cmds[p].pc = "reread" /\ cmds'[p] = cmds[p] /\ ~mixed /\ Servable
    BY <1>1, <2>1 DEF Busy, Servable
  <2>3. CASE cmds[q].fresh \/ unitOf[f] # unit
    <3>1. Opened'[f] = Opened[f]
      BY <1>8, <2>1, <2>3, ReplacedRow DEF Rows, Opened
    <3>. QED
      BY <1>3, <2>2, <3>1
  <2>4. CASE ~cmds[q].fresh /\ unitOf[f] = unit
    <3>1. Held(f) \in cmds[p].during[f]
      BY <2>2 DEF Core, SeenInv, Refreshes, Working
    <3>2. cmds[q].cat[f] = None => None \in cmds[p].during[f]
      BY <2>1, <2>2 DEF FreshRows
    <3>3. /\ cmds[q].cat[f] = None => Opened'[f] = None
          /\ cmds[q].cat[f] # None => Opened'[f] # None /\ Opened'[f].bytes = Held(f)
      BY <1>8, <2>1, <2>4, ReplacedRow DEF Rows
    <3>4. Bytes(Opened)'[f] \in cmds[p].during[f]
      BY <3>1, <3>2, <3>3 DEF Bytes
    <3>. QED
      BY <2>2, <3>4 DEF GoodBy
  <2>. QED
    BY <2>3, <2>4
<1>9. ASSUME NEW q \in Commands, Rename(q)
      PROVE  GoodBy(cmds'[p].kind, cmds'[p].during[f], lost', f, Bytes(Opened)'[f])
  <2>1. /\ Busy(q) /\ cmds[q].pc = "units" /\ cmds[q].todo = {} /\ cmds[q].fresh /\ cmds'[q].pc = "units"
        /\ main' = cmds[q].rows /\ wal' = wal /\ mixed' = (wal # None)
    BY <1>9, RenameFields DEF Core
  <2>2. cmds[p].pc = "reread" /\ cmds'[p] = cmds[p]
    BY <1>1, <2>1 DEF Busy
  <2>3. Opened' = cmds[q].rows
    BY <1>1, <2>1 DEF Opened
  <2>4. GoodRow(q, f, cmds[q].rows[f])
    BY <2>1 DEF WorkInv, Rows
  <2>5. /\ cmds[q].cat[f] = None => None \in cmds[p].during[f]
        /\ cmds[q].rows[f] # None => cmds[q].rows[f].bytes \in cmds[p].during[f]
    BY <2>1, <2>2 DEF FreshRows
  <2>6. Bytes(Opened)'[f] \in cmds[p].during[f]
    BY <2>3, <2>4, <2>5 DEF GoodRow, Bytes
  <2>. QED
    BY <2>2, <2>6 DEF GoodBy
<1>10. ASSUME NEW q \in Commands, AsksAgain(q)
       PROVE  GoodBy(cmds'[p].kind, cmds'[p].during[f], lost', f, Bytes(Opened)'[f])
  <2>1. /\ Busy(q) /\ Ready(q) /\ ~cmds[q].fresh /\ SameCache /\ mixed' = mixed /\ lost' = lost
    BY <1>10, AsksFields DEF Core, Ready
  <2>2. ~mixed /\ Servable /\ Opened' = Opened
    BY <1>1, <2>1 DEF SameCache
  <2>3. CASE p = q
    <3>1. Good(p, f, Bytes(Opened)[f]) /\ Bytes(Opened)'[f] = Bytes(Opened)[f]
      BY <2>1, <2>2, <2>3, ReadyIsGood DEF Bytes
    <3>. QED
      BY <1>2, <3>1, GoodStaysGood DEF Good
  <2>4. CASE p # q
    BY <1>1, <1>3, <2>1, <2>2, <2>4 DEF Busy
  <2>. QED
    BY <2>3, <2>4
<1>. QED
  BY <1>3, <1>4, <1>5, <1>6, <1>7, <1>8, <1>9, <1>10, StepShapes DEF Shapes, Core

-----------------------------------------------------------------------------
(* Answers, and what stays in the cache *)

LEMMA AnswerStep ==
    ASSUME Core, CatInv, WorkInv, RereadInv, AnswerIsCurrent, [Next]_vars
    PROVE  AnswerIsCurrent'
<1>1. SUFFICES ASSUME NEW p \in Commands, cmds'[p].answer # None, ~cmds'[p].spoiled, NEW f \in Files
               PROVE  GoodBy(cmds'[p].kind, cmds'[p].during[f], lost', f, cmds'[p].answer[f])
  BY DEF AnswerIsCurrent, GoodBy
<1>2. lost \subseteq lost'
  BY LatestGrows
<1>3. ASSUME cmds'[p] = cmds[p]
      PROVE  GoodBy(cmds'[p].kind, cmds'[p].during[f], lost', f, cmds'[p].answer[f])
  BY <1>1, <1>2, <1>3 DEF AnswerIsCurrent, GoodBy
<1>4. ASSUME NEW q, Still(q), cmds'[p] # cmds[p]
      PROVE  GoodBy(cmds'[p].kind, cmds'[p].during[f], lost', f, cmds'[p].answer[f])
  <2>1. GivesAnswer(p) /\ lost' = lost
    BY <1>1, <1>4 DEF Still, SameArchive, Away
  <2>2. /\ cmds'[p].answer = Bytes(Opened) /\ cmds'[p].spoiled = mixed
        /\ cmds'[p].kind = cmds[p].kind /\ cmds'[p].during = cmds[p].during
    BY <1>1, <2>1, EndsAway DEF GivesAnswer, Core
  <2>3. CASE Answer(p)
    <3>1. Ready(p) /\ ~cmds[p].fresh
      BY <2>3 DEF Answer
    <3>. QED
      BY <1>1, <2>1, <2>2, <3>1, ReadyIsGood DEF Good
  <2>4. CASE Queried(p)
    <3>1. cmds[p].pc = "reread" /\ Servable
      BY <2>4 DEF Queried, Core, Base, CacheInv
    <3>2. Good(p, f, Bytes(Opened)[f])
      BY <1>1, <2>2, <3>1 DEF RereadInv
    <3>. QED
      BY <2>1, <2>2, <3>2 DEF Good
  <2>. QED
    BY <2>1, <2>3, <2>4 DEF GivesAnswer
<1>5. ASSUME NEW q \in Commands,
             Stat(q) \/ Hash(q) \/ Rename(q) \/ AsksAgain(q) \/ \E unit \in Units : Replace(q, unit)
      PROVE  cmds'[p] = cmds[p]
  <2>1. Busy(q) /\ cmds[q].pc \in {"stat", "hash", "units"}
    BY <1>5, BusySteps
  <2>2. cmds'[q].answer = None
    BY <2>1 DEF Busy, Core, Base, CacheInv
  <2>. QED
    BY <1>1, <2>1, <2>2 DEF Busy
<1>6. ASSUME NEW g \in Files, NEW version \in Versions \cup {None}, NEW rotten \in BOOLEAN,
             Changes(g, version, rotten)
      PROVE  cmds'[p] = cmds[p]
  <2>1. cmds[p].answer # None
    BY <1>1, <1>6 DEF Changes
  <2>2. cmds[p].pc = "done"
    BY <2>1 DEF Core, Base, CacheInv
  <2>. QED
    BY <1>6, <2>2 DEF Changes, Running, Working
<1>7. CASE Upgrade
  BY <1>3, <1>7 DEF Upgrade
<1>. QED
  BY <1>3, <1>4, <1>5, <1>6, <1>7, StepShapes DEF Shapes, Core

LEMMA ForgottenStep ==
    ASSUME Core, CatInv, WorkInv, NothingIsForgotten, [Next]_vars
    PROVE  NothingIsForgotten'
<1>1. SUFFICES ASSUME Servable', ~mixed', NEW f \in Files, f \in known'
               PROVE  Opened'[f] # None
  <2>1. known' \subseteq Files
    BY TypeStep DEF Core, Base, TypeOK
  <2>. QED
    BY <2>1 DEF NothingIsForgotten
<1>2. ASSUME Servable, ~mixed, Opened' = Opened, f \in known
      PROVE  Opened'[f] # None
  BY <1>2 DEF NothingIsForgotten
<1>3. ASSUME NEW p \in Commands, Ready(p), ~cmds[p].fresh, ~mixed, Opened' = Opened, known' = Seen(p)
      PROVE  Opened'[f] # None
  BY <1>1, <1>3, ReadyIsGood DEF Seen
<1>4. ASSUME NEW p, Still(p)
      PROVE  Opened'[f] # None
  <2>1. Servable /\ ~mixed /\ Opened' = Opened
    BY <1>1, <1>4 DEF Still, SameCache
  <2>2. CASE known' = known
    BY <1>1, <1>2, <2>1, <2>2
  <2>3. CASE p \in Commands /\ Ready(p) /\ ~cmds[p].fresh /\ known' = Seen(p)
    BY <1>3, <2>1, <2>3
  <2>. QED
    BY <1>4, <2>2, <2>3 DEF Still
<1>5. ASSUME NEW p \in Commands, Stat(p) \/ Hash(p)
      PROVE  Opened'[f] # None
  <2>1. UNCHANGED cache
    BY <1>5, StatFields, HashFields DEF Core
  <2>. QED
    BY <1>1, <1>2, <2>1 DEF cache, Servable, Opened
<1>6. ASSUME NEW p \in Commands, NEW unit \in Units, Replace(p, unit)
      PROVE  Opened'[f] # None
  <2>1. /\ cmds[p].pc = "units" /\ UNCHANGED <<main, known, mixed>> /\ cmds'[p].fresh = cmds[p].fresh
        /\ cmds[p].fresh => wal' = wal
    BY <1>6, ReplaceFields DEF Core
  <2>2. Servable /\ Opened[f] # None /\ cmds[p].cat[f] # None
    BY <1>1, <2>1 DEF Servable, NothingIsForgotten, CatInv
  <2>3. CASE cmds[p].fresh
    BY <2>1, <2>2, <2>3 DEF Opened
  <2>4. CASE ~cmds[p].fresh
    BY <1>6, <2>1, <2>2, <2>4, ReplacedRow DEF Rows
  <2>. QED
    BY <2>3, <2>4
<1>7. ASSUME NEW p \in Commands, Rename(p)
      PROVE  Opened'[f] # None
  <2>1. /\ cmds[p].pc = "units" /\ cmds[p].todo = {} /\ cmds[p].fresh /\ known' = Seen(p)
        /\ main' = cmds[p].rows /\ wal' = wal /\ mixed' = (wal # None)
    BY <1>7, RenameFields DEF Core
  <2>2. Opened' = cmds[p].rows
    BY <1>1, <2>1 DEF Opened
  <2>3. GoodRow(p, f, cmds[p].rows[f])
    BY <2>1 DEF WorkInv, Rows
  <2>. QED
    BY <1>1, <2>1, <2>2, <2>3 DEF GoodRow, Seen
<1>8. ASSUME NEW p \in Commands, AsksAgain(p)
      PROVE  Opened'[f] # None
  <2>1. Ready(p) /\ ~cmds[p].fresh /\ SameCache /\ mixed' = mixed /\ known' = Seen(p)
    BY <1>8, AsksFields DEF Core, Ready
  <2>. QED
    BY <1>1, <1>3, <2>1 DEF SameCache
<1>9. ASSUME NEW g \in Files, NEW version \in Versions \cup {None}, NEW rotten \in BOOLEAN,
             Changes(g, version, rotten)
      PROVE  Opened'[f] # None
  BY <1>1, <1>2, <1>9 DEF Changes, Servable, Opened
<1>10. ~Upgrade
  BY <1>1 DEF Upgrade, Servable
<1>. QED
  BY <1>4, <1>5, <1>6, <1>7, <1>8, <1>9, <1>10, StepShapes DEF Shapes, Core

-----------------------------------------------------------------------------
(* Pages follow each other *)

LEMMA Least ==
    ASSUME NEW S \in SUBSET Nat, S # {}
    PROVE  \E m \in S : \A k \in S : m <= k
<1>. DEFINE Earlier == {ss \in Nat \X Nat : ss[1] < ss[2]}
<1>1. IsWellFoundedOn(Earlier, Nat)
  BY NatLessThanWellFounded DEF OpToRel
<1>2. \A k, m \in Nat : k < m => <<k, m>> \in Earlier
  OBVIOUS
<1>. HIDE DEF Earlier
<1>3. \E m \in S : \A k \in S : ~(<<k, m>> \in Earlier)
  BY <1>1, WFMin
<1>4. PICK m \in S : \A k \in S : ~(<<k, m>> \in Earlier)
  BY <1>3
<1>5. \A k \in S : k \in Nat /\ m \in Nat /\ ~(k < m)
  BY <1>2, <1>4
<1>. QED
  BY <1>5

LEMMA TextIsSequence == ASSUME NEW turns \in Texts PROVE turns \in Seq(Told) /\ Len(turns) \in Nat
<1>1. {turns[i] : i \in DOMAIN turns} \subseteq Told
  BY DEF Told
<1>2. turns \in Seq({turns[i] : i \in DOMAIN turns})
  BY TurnsAssumption
<1>. QED
  BY <1>1, <1>2, SeqMonotonic

\* A page of a text that has grown is a page of what it was
LEMMA PageOfLonger ==
    ASSUME NEW turns \in Texts, NEW now \in Texts,
           Len(turns) <= Len(now), SubSeq(now, 1, Len(turns)) = turns,
           NEW from \in Nat, NEW page \in Page(now, from, Len(turns) - 1)
    PROVE  /\ EndOf(turns, page) \in from .. Len(turns)
           /\ page.shown = SubSeq(turns, from + 1, EndOf(turns, page))
           /\ page.next # None => page.next.to = Len(turns) - 1
<1>. DEFINE length == Len(turns)
<1>1. now \in Seq(Told) /\ length \in Nat /\ length <= Len(now) /\ Len(now) \in Nat
  BY TextIsSequence
<1>2. Page(now, from, length - 1) =
         {Cut(now, from, length - 1, n) : n \in 1 .. (length - 1) - from + 1}
      /\ page \in Page(now, from, length - 1) /\ SubSeq(now, 1, length) = turns
  BY <1>1 DEF Page
<1>. HIDE DEF length
<1>3. PICK n \in 1 .. length - from : page = Cut(now, from, length - 1, n)
  BY <1>1, <1>2
<1>4. n \in Nat \ {0} /\ from + n <= length /\ from + 1 \in Int /\ from + n \in Int
  BY <1>1, <1>3
<1>5. /\ page.shown = SubSeq(now, from + 1, from + n)
      /\ page.next = IF n = (length - 1) - from + 1 THEN None ELSE [from |-> from + n, to |-> length - 1]
  BY <1>3 DEF Cut
<1>6. SubSeq(now, from + 1, from + n) = SubSeq(turns, from + 1, from + n)
  <2>1. 1 \in 1 .. Len(now) /\ length \in 1 .. Len(now)
        /\ from + 1 \in 1 .. length - 1 + 1 /\ from + n \in 1 .. length - 1 + 1
    BY <1>1, <1>4
  <2>2. SubSeq(SubSeq(now, 1, length), from + 1, from + n) = SubSeq(now, 1 + (from + 1) - 1, 1 + (from + n) - 1)
    BY <1>1, <2>1, SubSeqOfSubSeq
  <2>3. 1 + (from + 1) - 1 = from + 1 /\ 1 + (from + n) - 1 = from + n
    BY <1>4
  <2>4. SubSeq(SubSeq(now, 1, length), from + 1, from + n) = SubSeq(now, from + 1, from + n)
    BY <2>2, <2>3
  <2>. QED
    BY <1>2, <2>4, Zenon
<1>7. [from |-> from + n, to |-> length - 1] # None
  BY <1>1, <1>4, NoneAssumption
<1>8. EndOf(turns, page) = from + n /\ (page.next # None => page.next.to = length - 1)
  <2>1. CASE n = (length - 1) - from + 1
    <3>1. page.next = None
      BY <1>5, <2>1
    <3>2. length = from + n
      BY <1>1, <1>4, <2>1
    <3>. QED
      BY <3>1, <3>2 DEF EndOf, length
  <2>2. CASE n # (length - 1) - from + 1
    <3>1. page.next = [from |-> from + n, to |-> length - 1] /\ page.next # None
      BY <1>5, <1>7, <2>2
    <3>. QED
      BY <3>1 DEF EndOf
  <2>. QED
    BY <2>1, <2>2
<1>9. EndOf(turns, page) \in from .. length
  BY <1>1, <1>4, <1>8
<1>. QED
  BY <1>5, <1>6, <1>8, <1>9 DEF length

LEMMA FirstPage ==
    ASSUME NEW turns \in Texts, NEW page \in Page(turns, 0, Len(turns) - 1)
    PROVE  Follows(turns, <<page>>)
<1>1. turns \in Seq(Told) /\ Len(turns) \in Nat
  BY TextIsSequence
<1>2. Len(turns) <= Len(turns) /\ SubSeq(turns, 1, Len(turns)) = turns
  BY <1>1, SubSeqFull
<1>3. /\ EndOf(turns, page) \in 0 .. Len(turns)
      /\ page.shown = SubSeq(turns, 0 + 1, EndOf(turns, page))
      /\ page.next # None => page.next.to = Len(turns) - 1
  BY <1>2, PageOfLonger
<1>4. Len(<<page>>) = 1 /\ <<page>>[1] = page
  OBVIOUS
<1>5. CutAt(turns, <<page>>, 0) = 0 /\ CutAt(turns, <<page>>, 1) = EndOf(turns, page)
  BY <1>4 DEF CutAt
<1>. QED
  BY <1>1, <1>3, <1>4, <1>5 DEF Follows

LEMMA NextPage ==
    ASSUME NEW turns \in Texts, NEW now \in Texts,
           Len(turns) <= Len(now), SubSeq(now, 1, Len(turns)) = turns,
           NEW pages \in Seq(Pages), pages # <<>>, Follows(turns, pages),
           pages[Len(pages)].next # None,
           NEW page \in Page(now, pages[Len(pages)].next.from, pages[Len(pages)].next.to), page \in Pages
    PROVE  Follows(turns, Append(pages, page))
<1>. DEFINE n == Len(pages)
            more == Append(pages, page)
<1>1. n \in Nat \ {0} /\ Len(turns) \in Nat
  BY TextIsSequence
<1>2. /\ more \in Seq(Pages) /\ Len(more) = n + 1 /\ more[n + 1] = page
      /\ \A i \in 1 .. n : more[i] = pages[i]
  BY AppendProperties
<1>. HIDE DEF more
<1>3. \A i \in 0 .. n : CutAt(turns, more, i) = CutAt(turns, pages, i)
  BY <1>1, <1>2 DEF CutAt
<1>4. CutAt(turns, pages, n) = pages[n].next.from /\ CutAt(turns, pages, n) \in 0 .. Len(turns)
      /\ pages[n].next.to = Len(turns) - 1
  <2>1. n \in 1 .. n
    BY <1>1
  <2>2. /\ CutAt(turns, pages, n - 1) \in 0 .. Len(turns)
        /\ CutAt(turns, pages, n) \in CutAt(turns, pages, n - 1) .. Len(turns)
        /\ pages[n].next # None => pages[n].next.to = Len(turns) - 1
    BY <2>1 DEF Follows
  <2>. QED
    BY <1>1, <2>2 DEF CutAt, EndOf
<1>. DEFINE from == CutAt(turns, pages, n)
<1>5. from \in Nat /\ page \in Page(now, from, Len(turns) - 1)
  BY <1>1, <1>4
<1>6. /\ EndOf(turns, page) \in from .. Len(turns)
      /\ page.shown = SubSeq(turns, from + 1, EndOf(turns, page))
      /\ page.next # None => page.next.to = Len(turns) - 1
  BY <1>5, PageOfLonger
<1>7. CutAt(turns, more, n + 1) = EndOf(turns, page) /\ CutAt(turns, more, n) = from
  BY <1>1, <1>2, <1>3 DEF CutAt
<1>8. ASSUME NEW i \in 1 .. n + 1
      PROVE  /\ CutAt(turns, more, i - 1) \in 0 .. Len(turns)
             /\ CutAt(turns, more, i) \in CutAt(turns, more, i - 1) .. Len(turns)
             /\ more[i].shown = SubSeq(turns, CutAt(turns, more, i - 1) + 1, CutAt(turns, more, i))
             /\ more[i].next # None => more[i].next.to = Len(turns) - 1
  <2>1. CASE i = n + 1
    <3>1. i - 1 = n
      BY <1>1, <2>1
    <3>. QED
      BY <1>2, <1>4, <1>6, <1>7, <2>1, <3>1
  <2>2. CASE i # n + 1
    <3>1. i \in 1 .. n /\ i - 1 \in 0 .. n /\ i \in 0 .. n
      BY <1>1, <2>2
    <3>. QED
      BY <1>2, <1>3, <3>1 DEF Follows
  <2>. QED
    BY <2>1, <2>2
<1>. QED
  BY <1>2, <1>8 DEF Follows, more

LEMMA PagesStep == ASSUME Core, PagesInv, [Next]_vars PROVE PagesInv'
<1>1. SUFFICES ASSUME NEW p \in Commands, cmds'[p].pc = "page", cmds'[p].of.kept
               PROVE  Follows(cmds'[p].of.turns, cmds'[p].pages)
  BY DEF PagesInv
<1>2. ASSUME cmds[p].pc = "page", cmds'[p].of = cmds[p].of, cmds'[p].pages = cmds[p].pages
      PROVE  Follows(cmds'[p].of.turns, cmds'[p].pages)
  BY <1>1, <1>2 DEF PagesInv
<1>3. ASSUME NEW u \in Units, Show(p, u)
      PROVE  Follows(cmds'[p].of.turns, cmds'[p].pages)
  <2>1. PICK page \in Page(Turns(u), 0, Len(Turns(u)) - 1) :
           cmds' = [cmds EXCEPT ![p] = [Idle EXCEPT !.pc = "page", !.kind = "show", !.pages = <<page>>,
                                          !.of = [unit |-> u, turns |-> Turns(u), kept |-> TRUE]]]
    BY <1>3 DEF Show
  <2>2. cmds'[p].pages = <<page>> /\ cmds'[p].of.turns = Turns(u)
    BY <2>1 DEF Core, Base, TypeOK, Idle
  <2>3. Turns(u) \in Texts
    BY TurnsAreText DEF Core, Base
  <2>. QED
    BY <2>1, <2>2, <2>3, FirstPage
<1>4. ASSUME Continue(p)
      PROVE  Follows(cmds'[p].of.turns, cmds'[p].pages)
  <2>. DEFINE turns == cmds[p].of.turns
              now   == Turns(cmds[p].of.unit)
  <2>1. /\ cmds[p].pc = "page" /\ cmds[p] \in Works /\ cmds[p].of \in [unit : Nat, turns : Texts, kept : BOOLEAN]
        /\ LastPage(p) \in Pages /\ LastPage(p).next \in [from : Nat, to : Int]
        /\ now \in Texts /\ turns \in Texts /\ LastPage(p).next # None
    BY <1>4, GoesOn DEF Continue, Legible, Core
  <2>2. PICK page \in Page(now, LastPage(p).next.from, LastPage(p).next.to) :
           cmds' = [cmds EXCEPT ![p].pages = Append(@, page), ![p].of.kept = @ /\ Kept(p)]
    BY <1>4 DEF Continue
  <2>3. /\ cmds'[p].pages = Append(cmds[p].pages, page) /\ cmds'[p].of.turns = turns
        /\ cmds'[p].of.kept = (cmds[p].of.kept /\ Kept(p))
    BY <2>1, <2>2 DEF Core, Base, TypeOK, Works
  <2>4. Len(turns) <= Len(now) /\ SubSeq(now, 1, Len(turns)) = turns
    BY <1>1, <2>3 DEF Kept
  <2>5. page \in Pages
    BY <2>1, <2>2, PageIsTyped
  <2>6. cmds[p].pages \in Seq(Pages) /\ cmds[p].pages # <<>> /\ Follows(turns, cmds[p].pages)
    BY <1>1, <2>1, <2>3 DEF Works, Core, Base, PagesAreTyped, PagesInv
  <2>7. cmds[p].pages[Len(cmds[p].pages)] = LastPage(p)
    BY DEF LastPage
  <2>. HIDE DEF turns, now
  <2>8. Follows(turns, Append(cmds[p].pages, page))
    BY <2>1, <2>2, <2>4, <2>5, <2>6, <2>7, NextPage
  <2>. QED
    BY <2>3, <2>8
<1>5. ASSUME NEW q, Still(q)
      PROVE  Follows(cmds'[p].of.turns, cmds'[p].pages)
  BY <1>1, <1>2, <1>3, <1>4, <1>5 DEF Still, TurnsPage
<1>6. ASSUME NEW q \in Commands,
             Stat(q) \/ Hash(q) \/ Rename(q) \/ AsksAgain(q) \/ \E unit \in Units : Replace(q, unit)
      PROVE  cmds'[p] = cmds[p]
  BY <1>1, <1>6, BusySteps, StatFields, HashFields, RenameFields, AsksFields, ReplaceFields DEF Busy, Core
<1>7. ASSUME NEW f \in Files, NEW version \in Versions \cup {None}, NEW rotten \in BOOLEAN,
             Changes(f, version, rotten)
      PROVE  cmds[p].pc = "page" /\ cmds'[p].of = cmds[p].of /\ cmds'[p].pages = cmds[p].pages
  BY <1>1, <1>7 DEF Changes
<1>8. CASE Upgrade
  BY <1>1, <1>2, <1>8 DEF Upgrade
<1>. QED
  BY <1>1, <1>2, <1>5, <1>6, <1>7, <1>8, StepShapes DEF Shapes, Core

\* Pages that follow each other are, joined, the text up to where the last one ends
LEMMA PartsJoin ==
    ASSUME NEW turns \in Texts, NEW pages \in Seq(Pages), Follows(turns, pages), NEW i \in 1 .. Len(pages)
    PROVE  SubSeq(turns, 1, CutAt(turns, pages, i - 1)) \o pages[i].shown =
               SubSeq(turns, 1, CutAt(turns, pages, i))
<1>1. turns \in Seq(Told) /\ Len(turns) \in Nat
  BY TextIsSequence
<1>2. /\ CutAt(turns, pages, i - 1) \in 0 .. Len(turns)
      /\ CutAt(turns, pages, i) \in CutAt(turns, pages, i - 1) .. Len(turns)
      /\ pages[i].shown = SubSeq(turns, CutAt(turns, pages, i - 1) + 1, CutAt(turns, pages, i))
  BY DEF Follows
<1>3. 1 \in 1 .. Len(turns) + 1 /\ CutAt(turns, pages, i - 1) \in 1 - 1 .. Len(turns)
  BY <1>1, <1>2
<1>. QED
  BY <1>1, <1>2, <1>3, ConcatAdjacentSubSeq

LEMMA NoPageIsNothing ==
    ASSUME NEW turns \in Texts, NEW pages
    PROVE  SubSeq(turns, 1, CutAt(turns, pages, 0)) = <<>>
<1>1. CutAt(turns, pages, 0) = 0
  BY DEF CutAt
<1>. QED
  BY <1>1, SubSeqEmpty

LEMMA PagesJoin ==
    ASSUME NEW turns \in Texts, NEW pages \in Seq(Pages), Follows(turns, pages), NEW joined,
           joined = [i \in 0 .. Len(pages) |-> IF i = 0 THEN <<>> ELSE joined[i - 1] \o pages[i].shown]
    PROVE  joined[Len(pages)] = SubSeq(turns, 1, CutAt(turns, pages, Len(pages)))
<1>. DEFINE n == Len(pages)
            Upto(i) == SubSeq(turns, 1, CutAt(turns, pages, i))
            wrong == {i \in 0 .. n : joined[i] # Upto(i)}
<1>1. n \in Nat
  OBVIOUS
<1>2. joined[0] = <<>> /\ Upto(0) = <<>>
  BY <1>1, NoPageIsNothing
<1>3. ASSUME NEW i \in 1 .. n
      PROVE  /\ joined[i] = joined[i - 1] \o pages[i].shown
             /\ Upto(i - 1) \o pages[i].shown = Upto(i)
  <2>1. i # 0 /\ i \in 0 .. n
    BY <1>1
  <2>. QED
    BY <2>1, PartsJoin
<1>. HIDE DEF Upto
<1>4. wrong = {}
  <2>1. SUFFICES ASSUME wrong # {} PROVE FALSE
    OBVIOUS
  <2>2. PICK m \in wrong : \A k \in wrong : m <= k
    BY <1>1, <2>1, Least
  <2>3. m \in 1 .. n /\ m - 1 \in 0 .. n /\ ~(m <= m - 1)
    BY <1>1, <1>2, <2>2
  <2>4. joined[m - 1] = Upto(m - 1)
    BY <2>2, <2>3
  <2>. QED
    BY <1>3, <2>2, <2>3, <2>4
<1>. QED
  BY <1>1, <1>4 DEF Upto

-----------------------------------------------------------------------------
(* The theorems *)

Whole == CatInv /\ RowsInv /\ WorkInv /\ FreshRows /\ RereadInv

LEMMA Initially == Init => Core /\ Whole /\ PagesInv /\ AnswerIsCurrent /\ NothingIsForgotten
<1>. SUFFICES ASSUME Init PROVE Core /\ Whole /\ PagesInv /\ AnswerIsCurrent /\ NothingIsForgotten
  OBVIOUS
<1>1. /\ cmds = [p \in Commands |-> Idle] /\ layout \in Layouts
      /\ archive = [f \in Files |-> 1] /\ latest = archive /\ bad = {} /\ lost = {}
      /\ record = [f \in Files |-> IF f \in Raw THEN None ELSE 1]
      /\ main \in {None, Fresh} /\ wal = None /\ lock = None /\ opened = {} /\ mixed = FALSE
      /\ known = (IF main = None THEN {} ELSE Files) /\ left \in Bounds
  BY DEF Init
<1>2. /\ Idle.pc = "idle" /\ Idle.answer = None /\ \A f \in Files : Idle.rows[f] = None
  BY DEF Idle
<1>3. 1 \in Versions
  BY RetrievalAssumption DEF Versions
<1>4. /\ Fresh \in Databases /\ \A f \in Files : Fresh[f] # None /\ Fresh[f].bytes = 1
      /\ \A f \in Files : f \notin Raw => Fresh[f].sig.stat = 1
  <2>1. \A f \in Files : Fresh[f] = [sig |-> [stat |-> StatOf(f, 1), sha |-> IF f \in Raw THEN None ELSE 1],
                                     bytes |-> 1]
    BY DEF Fresh
  <2>2. \A f \in Files : [stat |-> StatOf(f, 1), sha |-> IF f \in Raw THEN None ELSE 1] \in Signatures
    BY <1>3 DEF Signatures, Contents, StatOf
  <2>3. \A f \in Files : Fresh[f] \in [sig : Signatures, bytes : Contents]
    <3>1. 1 \in Contents
      BY <1>3, Constants
    <3>2. \A sig \in Signatures : [sig |-> sig, bytes |-> 1] \in [sig : Signatures, bytes : Contents]
      BY <3>1
    <3>. QED
      BY <2>1, <2>2, <3>2
  <2>4. \A f \in Files : Fresh[f] # None
    BY <2>3, Constants
  <2>. QED
    BY <2>1, <2>3, <2>4 DEF Databases, StatOf, Fresh
<1>5. TypeOK
  <2>1. Idle \in Works /\ left \in [changes : Nat, faults : Nat, runs : Nat, kinds : SUBSET Kinds]
    BY <1>1, IdleIsTyped, RetrievalAssumption
  <2>. QED
    BY <1>1, <1>3, <1>4, <2>1 DEF TypeOK
<1>6. \A p \in Commands : cmds[p] = Idle
  BY <1>1
<1>7. CatIsTyped /\ PagesAreTyped /\ LockInv
  BY <1>2, <1>6 DEF CatIsTyped, PagesAreTyped, LockInv, Locked, Refreshes, Working
<1>8. CacheInv
  BY <1>1, <1>2, <1>6 DEF CacheInv
<1>9. ArchiveInv /\ SeenInv
  BY <1>1, <1>2, <1>3, <1>6, Constants DEF ArchiveInv, SeenInv, Refreshes, Working
<1>10. CatInv /\ WorkInv /\ FreshRows /\ RereadInv /\ PagesInv /\ AnswerIsCurrent
  BY <1>2, <1>6 DEF CatInv, WorkInv, FreshRows, RereadInv, PagesInv, AnswerIsCurrent
<1>11. RowsInv
  BY <1>1, <1>2, <1>3, <1>4, <1>6 DEF RowsInv, SoundRow, SoundBy, Servable
<1>12. NothingIsForgotten
  BY <1>1, <1>4 DEF NothingIsForgotten, Opened
<1>. QED
  BY <1>5, <1>7, <1>8, <1>9, <1>10, <1>11, <1>12 DEF Core, Base, Whole

LEMMA Invariants == Spec => [](Core /\ Whole /\ PagesInv /\ AnswerIsCurrent /\ NothingIsForgotten)
<1>1. ASSUME Core, Whole, PagesInv, AnswerIsCurrent, NothingIsForgotten, [Next]_vars
      PROVE  (Core /\ Whole /\ PagesInv /\ AnswerIsCurrent /\ NothingIsForgotten)'
  <2>1. Core'
    BY <1>1, BaseStep, ArchiveStep, SeenStep DEF Core
  <2>2. CatInv'
    BY <1>1, CatStep DEF Whole
  <2>3. RowsInv' /\ WorkInv'
    BY <1>1, <2>2, RowsStep, WorkStep DEF Whole
  <2>4. FreshRows' /\ RereadInv'
    BY <1>1, FreshStep, RereadStep DEF Whole
  <2>5. AnswerIsCurrent' /\ NothingIsForgotten'
    BY <1>1, AnswerStep, ForgottenStep DEF Whole
  <2>6. PagesInv'
    BY <1>1, PagesStep
  <2>. QED
    BY <2>1, <2>2, <2>3, <2>4, <2>5, <2>6 DEF Whole
<1>. QED
  BY <1>1, Initially, PTL DEF Spec

\* The states of the model have their types.
THEOREM RetrievalTypes == Spec => []TypeOK
<1>1. Core => TypeOK
  BY DEF Core, Base
<1>. QED
  BY <1>1, Invariants, PTL

\* Whatever commands, sweeps and kills do meanwhile, a command answers with what
\* the archive held while it ran, except where no signature shows the change.
THEOREM AnswersAreCurrent == Spec => []AnswerIsCurrent
BY Invariants, PTL

\* What a finished refresh put into the cache stays there as long as its file
\* stays in the archive, whoever replaces, rebuilds or renames.
THEOREM CacheForgetsNothing == Spec => []NothingIsForgotten
BY Invariants, PTL

\* Whoever follows the pages of a session to their end has read it whole, once and
\* in order, however often it grew on the way.
THEOREM PagesReadWhole == Spec => []PagesAreWhole
<1>1. ASSUME Core, PagesInv PROVE PagesAreWhole
  <2>1. SUFFICES ASSUME NEW p \in Commands, cmds[p].pc = "page", LastPage(p).next = None, cmds[p].of.kept
                 PROVE  LET joined[i \in 0 .. Len(cmds[p].pages)] ==
                                IF i = 0 THEN <<>> ELSE joined[i - 1] \o cmds[p].pages[i].shown
                        IN  joined[Len(cmds[p].pages)] = cmds[p].of.turns
    BY DEF PagesAreWhole
  <2>. DEFINE turns == cmds[p].of.turns
              pages == cmds[p].pages
              joined[i \in 0 .. Len(pages)] == IF i = 0 THEN <<>> ELSE joined[i - 1] \o pages[i].shown
              Joins(g) == g = [i \in 0 .. Len(pages) |-> IF i = 0 THEN <<>> ELSE g[i - 1] \o pages[i].shown]
              parts == [i \in 0 .. Len(pages) |-> SubSeq(turns, 1, CutAt(turns, pages, i))]
  <2>2. turns \in Texts /\ pages \in Seq(Pages) /\ pages # <<>> /\ Follows(turns, pages)
    BY <1>1, <2>1 DEF Core, Base, TypeOK, Works, PagesAreTyped, PagesInv
  <2>3. Len(pages) \in Nat \ {0} /\ turns \in Seq(Told) /\ Len(turns) \in Nat
    BY <2>2, TextIsSequence
  <2>4. Joins(parts)
    <3>1. ASSUME NEW i \in 0 .. Len(pages)
          PROVE  SubSeq(turns, 1, CutAt(turns, pages, i)) =
                     IF i = 0 THEN <<>> ELSE parts[i - 1] \o pages[i].shown
      <4>1. CASE i = 0
        BY <2>2, <4>1, NoPageIsNothing
      <4>2. CASE i # 0
        <5>1. i \in 1 .. Len(pages) /\ i - 1 \in 0 .. Len(pages)
          BY <2>3, <4>2
        <5>. QED
          BY <2>2, <4>2, <5>1, PartsJoin
      <4>. QED
        BY <4>1, <4>2
    <3>. QED
      BY <3>1
  <2>5. joined = CHOOSE g : Joins(g)
    BY DEF joined
  <2>6. Joins(joined)
    BY <2>4, <2>5
  <2>7. joined[Len(pages)] = SubSeq(turns, 1, CutAt(turns, pages, Len(pages)))
    BY <2>2, <2>6, PagesJoin
  <2>8. CutAt(turns, pages, Len(pages)) = Len(turns)
    BY <2>1, <2>3 DEF CutAt, EndOf, LastPage
  <2>9. joined[Len(pages)] = turns
    BY <2>3, <2>7, <2>8, SubSeqFull
  <2>. QED
    BY <2>9
<1>. QED
  BY <1>1, Invariants, PTL
=============================================================================
