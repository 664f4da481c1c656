------------------------------ MODULE SyncLock ------------------------------
(***************************************************************************)
(* The lock file of the command line tool (apps/cli/src/core/lock.ts):     *)
(* state/sync.lock for syncs, state/retrieval.lock for the retrieval cache *)
(* refresh.  The file holds its owner's pid; it is created by hard-linking *)
(* a finished temporary file, so it is never seen half-written, and a      *)
(* caller that finds a dead owner removes it and tries again.              *)
(*                                                                         *)
(* Every file or process operation of withLock is a step of its own: other *)
(* processes run between any two of them, and a process may be killed.     *)
(***************************************************************************)
EXTENDS Naturals, FiniteSets

CONSTANTS
    Processes,  \* processes that call withLock, each named by its pid
    Ghost,      \* pid of a process killed before the first of them began
    Nobody,     \* no pid
    Modes,      \* which of the three callers' modes are in use
    MaxPolls    \* RETRIEVAL_LOCK_WAIT_TIMEOUT_MS / RETRIEVAL_LOCK_POLL_INTERVAL_MS

(* withSyncLock gives up at once, withRetrievalLock waits, and a caller of *)
(* tryRetrievalLock that cannot serve a stale cache then waits as well.    *)
ASSUME ModesAssumption == Modes \subseteq {"skip", "wait", "skipThenWait"}
ASSUME PidsAssumption ==
    /\ Ghost \notin Processes
    /\ Nobody \notin Processes \cup {Ghost}
ASSUME MaxPollsAssumption == MaxPolls \in Nat \ {0}

VARIABLES
    lockFile,  \* pid in the lock file, Nobody when there is no file
    running,   \* pids that kill(pid, 0) finds
    pc,        \* where each process is in withLock
    waits,     \* waitForLiveOwner of its call
    polls,     \* polls of the lock it has made
    owner,     \* pid it has read from the lock file
    stolen,    \* history: has the file of a process inside fn been broken?
    reused     \* history: has the pid of a dead process been given away?

local == <<waits, polls, owner>>
lockVars == <<lockFile, running, pc, local, stolen, reused>>

Pids == Processes \cup {Ghost}
Inside(p) == pc[p] = "fn"
Before == {"try", "read", "judge", "break", "retry", "poll"}
Ended == {"ran", "refused", "crashed"}

-----------------------------------------------------------------------------
LockInit ==
    /\ lockFile \in {Nobody, Ghost}
    /\ running = {}
    /\ pc = [p \in Processes |-> "idle"]
    /\ waits = [p \in Processes |-> FALSE]
    /\ polls = [p \in Processes |-> 0]
    /\ owner = [p \in Processes |-> Nobody]
    /\ stolen = FALSE
    /\ reused = FALSE

Goto(p, there) == pc' = [pc EXCEPT ![p] = there]

(* link(temporary, path) either creates the file or fails with EEXIST.     *)
(* Mutant: the file is written over whatever is there.                     *)
LinkOverwriting(p, otherwise) ==
    /\ lockFile' = p
    /\ Goto(p, "fn")

Link(p, otherwise) ==
    IF lockFile = Nobody
    THEN lockFile' = p /\ Goto(p, "fn")
    ELSE UNCHANGED lockFile /\ Goto(p, otherwise)

-----------------------------------------------------------------------------
Invoke(p) ==
    /\ pc[p] = "idle"
    /\ \E m \in Modes : waits' = [waits EXCEPT ![p] = m = "wait"]
    /\ running' = running \cup {p}
    /\ Goto(p, "try")
    /\ UNCHANGED <<lockFile, polls, owner, stolen, reused>>

TryAcquire(p) ==
    /\ pc[p] = "try"
    /\ Link(p, "read")
    /\ UNCHANGED <<running, local, stolen, reused>>

(* lockOwnerIsAlive, in two steps: a file that is gone has no live owner.  *)
ReadOwner(p) ==
    /\ pc[p] = "read"
    /\ owner' = [owner EXCEPT ![p] = lockFile]
    /\ Goto(p, IF lockFile = Nobody THEN "break" ELSE "judge")
    /\ UNCHANGED <<lockFile, running, waits, polls, stolen, reused>>

(* Mutant: an owner is taken to be alive whoever it is.                    *)
JudgeAlwaysAlive(p) ==
    /\ pc[p] = "judge"
    /\ Goto(p, IF polls[p] = 0 /\ ~waits[p] THEN "refused" ELSE "poll")
    /\ UNCHANGED <<lockFile, running, local, stolen, reused>>

JudgeOwner(p) ==
    /\ pc[p] = "judge"
    /\ Goto(p, IF owner[p] \notin running THEN "break"
               ELSE IF polls[p] = 0 /\ ~waits[p] THEN "refused" ELSE "poll")
    /\ UNCHANGED <<lockFile, running, local, stolen, reused>>

(* rm(path, { force: true }) removes the file whoever it names by now.     *)
BreakLock(p) ==
    /\ pc[p] = "break"
    /\ lockFile' = Nobody
    /\ stolen' = (stolen \/ \E q \in Processes : lockFile = q /\ Inside(q))
    /\ Goto(p, "retry")
    /\ UNCHANGED <<running, local, reused>>

(* Outside of the polling loop a second failure is final.                  *)
RetryAcquire(p) ==
    /\ pc[p] = "retry"
    /\ Link(p, IF polls[p] = 0 THEN "refused" ELSE "poll")
    /\ UNCHANGED <<running, local, stolen, reused>>

(* Mutant: a waiter polls for ever.                                        *)
PollForever(p) ==
    /\ pc[p] = "poll"
    /\ Link(p, "read")
    /\ UNCHANGED <<running, local, stolen, reused>>

Poll(p) ==
    /\ pc[p] = "poll"
    /\ polls[p] < MaxPolls
    /\ polls' = [polls EXCEPT ![p] = @ + 1]
    /\ Link(p, "read")
    /\ UNCHANGED <<running, waits, owner, stolen, reused>>

(* The deadline is on the clock: it may come before the last poll.         *)
GiveUpLock(p) ==
    /\ pc[p] = "poll"
    /\ polls[p] > 0
    /\ Goto(p, "refused")
    /\ UNCHANGED <<lockFile, running, local, stolen, reused>>

(* fn returns or throws; its finally removes the file.                     *)
Leave(p) ==
    /\ Inside(p)
    /\ lockFile' = Nobody
    /\ Goto(p, "ran")
    /\ UNCHANGED <<running, local, stolen, reused>>

(* A reader that was turned away and has no cache to serve.                *)
WaitInstead(p) ==
    /\ "skipThenWait" \in Modes
    /\ pc[p] = "refused"
    /\ p \in running
    /\ ~waits[p]
    /\ waits' = [waits EXCEPT ![p] = TRUE]
    /\ Goto(p, "try")
    /\ UNCHANGED <<lockFile, running, polls, owner, stolen, reused>>

Exit(p) ==
    /\ pc[p] \in {"ran", "refused"}
    /\ p \in running
    /\ running' = running \ {p}
    /\ UNCHANGED <<lockFile, pc, local, stolen, reused>>

Crash(p) ==
    /\ pc[p] \in Before \cup {"fn"}
    /\ running' = running \ {p}
    /\ Goto(p, "crashed")
    /\ UNCHANGED <<lockFile, local, stolen, reused>>

(* The system gives the pid of a dead process to another program, which    *)
(* may itself end.  The pid of a process that was turned away is in nobody *)
(* else's hands.                                                           *)
Killed == {Ghost} \cup {p \in Processes : pc[p] = "crashed"}
Dead == (Killed \cup {p \in Processes : pc[p] = "ran"}) \ running

ReusePid ==
    /\ \E p \in Dead : running' = running \cup {p}
    /\ reused' = TRUE
    /\ UNCHANGED <<lockFile, pc, local, stolen>>

OtherProgramEnds ==
    /\ \E p \in Killed \cap running : running' = running \ {p}
    /\ UNCHANGED <<lockFile, pc, local, stolen, reused>>

(* The steps a running process takes of its own accord.                    *)
LockStep(p) ==
    \/ TryAcquire(p) \/ ReadOwner(p) \/ JudgeOwner(p)
    \/ BreakLock(p) \/ RetryAcquire(p) \/ Poll(p) \/ GiveUpLock(p)

LockNext ==
    \/ \E p \in Processes :
        Invoke(p) \/ LockStep(p) \/ Leave(p) \/ WaitInstead(p) \/ Exit(p) \/ Crash(p)
    \/ ReusePid
    \/ OtherProgramEnds

LockSpec == LockInit /\ [][LockNext]_lockVars

(* A scheduled process runs; what it runs under the lock may hang.         *)
FairSpec == LockSpec /\ \A p \in Processes : WF_lockVars(LockStep(p))

-----------------------------------------------------------------------------
LockTypeOK ==
    /\ lockFile \in Pids \cup {Nobody}
    /\ running \subseteq Pids
    /\ pc \in [Processes -> Before \cup Ended \cup {"idle", "fn"}]
    /\ waits \in [Processes -> BOOLEAN]
    /\ polls \in [Processes -> 0 .. MaxPolls]
    /\ owner \in [Processes -> Pids \cup {Nobody}]
    /\ stolen \in BOOLEAN
    /\ reused \in BOOLEAN

(* "If one sync is already running, another exits without competing for    *)
(* the archive" (how-it-works.tsx:40): two processes are never inside the  *)
(* lock at once.                                                           *)
OneAtATime == \A p, q \in Processes : Inside(p) /\ Inside(q) => p = q

(* Nothing but the removal of a live owner's file by a process that judged *)
(* an earlier owner dead lets a second process in: links, polls, retries,  *)
(* crashes and reused pids alone never do (tryAcquire's link).             *)
OverlapOnlyByTheft == ~stolen => OneAtATime

(* A lock file outlives its owner's run only by a crash: even when owners  *)
(* have removed each other's files, none is left behind to turn later      *)
(* callers away (the finally of withLock).                                 *)
LeftOnlyByCrash ==
    lockFile \in Processes => pc[lockFile] \in {"fn", "crashed"}

(* As long as the pids of dead processes stay dead, callers are not all    *)
(* turned away: somebody was let in since the first call, whatever stale file it  *)
(* found and however many callers broke it together.                       *)
RefusedForAnother ==
    ~reused /\ (\E p \in Processes : pc[p] = "refused")
        => \E q \in Processes : pc[q] \in {"fn", "ran", "crashed"}

(* A call enters or is turned away, even if the owner hangs inside fn or   *)
(* its pid now belongs to a program that never ends (the 15 s deadline).   *)
EveryCallDecides ==
    \A p \in Processes : pc[p] = "try" ~> pc[p] \in Ended \cup {"fn"}
=============================================================================
