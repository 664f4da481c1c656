------------------------------ MODULE Restore ------------------------------
(* Restoring a session into a live store: core/restore.ts, commands/restore.ts
   and offbox/remote-restore.ts, among the actors that go on meanwhile: the
   harness that owns the store, the sweep of this machine, the publication of
   its archive and the mirror of another machine's.

   One unit of one harness is restored. The contents of a file are the set of
   the turns written into it, so that a version is part of a later one exactly
   when its turns are a subset; a checksum is told by the contents. An archive
   is a set of copies and the index records that describe them; there are three
   to restore from: this machine's, the mirror of another machine's, and what
   was published off-box, where a restore stages what it needs first.       *)
EXTENDS Integers, Sequences, FiniteSets

CONSTANTS
    None,       \* no file, no record
    Instances   \* what is checked: the unit's harness, the archives beside this
                \* machine's own, and the bounds

AllHarnesses == {"claude-code", "codex", "gemini"}
AllSources   == {"mirror", "remote"}
AllFiles     == {"main", "sidecar", "active", "archived", "marker"}

\* A version of a file is its turns and its time; of archivedAt a record keeps
\* whether it is the last of its index
Versions == [turns : SUBSET Nat, at : Nat]
Records  == [turns : SUBSET Nat, at : Nat, last : BOOLEAN]

ASSUME NoneAssumption == None \notin Versions \cup Records \cup AllFiles

\* Bounds: the last tick of the file systems' clock, turns written, prunings of
\* the store, restores started, kills of a sweep or of a restore
ASSUME InstancesAssumption ==
    Instances \subseteq [harness : AllHarnesses, sources : SUBSET AllSources, time : Nat,
                        turns : Nat, prunings : Nat, restores : Nat, kills : Nat]

VARIABLES
    instance, \* the one of Instances this behaviour is of
    now,      \* the clock of the file systems
    turn,     \* turns written so far
    live,     \* the live store: a version of each file, or None
    store,    \* the archives: copies and the latest record of each file
    sweeping, \* the file the sweep has copied and not yet recorded, or None
    job,      \* the restore
    raced,    \* history: the files written after this restore looked at them
    left      \* prunings, restores and kills that may still happen

vars == <<instance, now, turn, live, store, sweeping, job, raced, left>>


harness == instance.harness
Sources == instance.sources
Places  == {"own"} \cup Sources
Files   == CASE harness = "claude-code" -> {"main", "sidecar"}
             [] harness = "codex"       -> {"active", "archived"}
             [] harness = "gemini"      -> {"main", "marker"}
NoFiles == [f \in Files |-> None]
Idle == [pc |-> "idle", place |-> "own", force |-> FALSE, records |-> NoFiles,
         stage |-> NoFiles, plans |-> <<>>, at |-> 1, offends |-> FALSE]

-----------------------------------------------------------------------------
(* What a restore makes of the index *)

PrefersActive(f, r, g, s) == f = "active" /\ g # f /\ r # s

CompareRecordRecency(f, r, g, s) ==
    \/ r.at > s.at
    \/ r.at = s.at /\ r.last /\ ~s.last
    \/ r.at = s.at /\ r.last = s.last /\ f = "active" /\ g # f

\* Of the two places of a Codex session, the one of the newest record
SelectCodexState(recs) ==
    LET known == {f \in Files : recs[f] # None} IN
    IF Cardinality(known) < 2 THEN known
    ELSE {f \in known : \A g \in known \ {f} : CompareRecordRecency(f, recs[f], g, recs[g])}

\* The project's marker belongs to every session of the project
AttachGeminiProjectMarkers(recs) ==
    IF recs["main"] = None THEN {} ELSE {f \in Files : recs[f] # None}

UnitFiles(recs) ==
    CASE harness = "codex"  -> SelectCodexState(recs)
      [] harness = "gemini" -> AttachGeminiProjectMarkers(recs)
      [] OTHER              -> {f \in Files : recs[f] # None}

IsMain(f) == f \in {"main", "active", "archived"}

\* The files in order, the main file first; there are at most two, so that this
\* is one sequence
ToArchivedUnit(recs) ==
    {plans \in [1 .. Cardinality(UnitFiles(recs)) -> UnitFiles(recs)] :
        /\ \A m, n \in DOMAIN plans : plans[m] = plans[n] => m = n
        /\ \A n \in DOMAIN plans : IsMain(plans[n]) => n = 1}

-----------------------------------------------------------------------------
(* The harness *)

Touch(fs) == raced' = IF job.pc = "idle" THEN {} ELSE raced \cup fs

NewVersion(turns) == [turns |-> turns, at |-> now]

\* A session is written to where it is; a Codex session has one place
Writes(f) ==
    /\ turn < instance.turns
    /\ f # "archived"
    /\ harness = "codex" => live["archived"] = None
    /\ turn' = turn + 1
    /\ live' = [live EXCEPT ![f] =
                  NewVersion((IF @ = None THEN {} ELSE @.turns) \cup {turn + 1})]
    /\ Touch({f})
    /\ UNCHANGED <<instance, now, store, sweeping, job, left>>

\* codex archive renames; codex unarchive renames back and touches
Move(f, g) ==
    /\ harness = "codex" /\ {f, g} = Files /\ f # g
    /\ live[f] # None
    /\ live' = [live EXCEPT ![f] = None,
                            ![g] = IF g = "active" THEN [live[f] EXCEPT !.at = now] ELSE live[f]]
    /\ Touch(Files)
    /\ UNCHANGED <<instance, now, turn, store, sweeping, job, left>>

\* Retention, or the user
Prune ==
    /\ live # NoFiles /\ left.prunings > 0
    /\ live' = NoFiles
    /\ Touch(Files)
    /\ left' = [left EXCEPT !.prunings = @ - 1]
    /\ UNCHANGED <<instance, now, turn, store, sweeping, job>>

Tick ==
    /\ now < instance.time
    /\ now' = now + 1
    /\ UNCHANGED <<instance, turn, live, store, sweeping, job, raced, left>>

-----------------------------------------------------------------------------
(* The archives *)

\* A record appended to an index takes the place of the file's earlier one
Recorded(recs, f, version) ==
    [g \in Files |-> IF g = f THEN [turns |-> version.turns, at |-> version.at, last |-> TRUE]
                    ELSE IF recs[g] = None THEN None ELSE [recs[g] EXCEPT !.last = FALSE]]

ShouldArchive(f) ==
    LET stored == store["own"].copy[f]
        rec    == store["own"].rec[f]
    IN  \/ stored = None
        \/ stored # None /\ live[f].at > stored.at
        \/ /\ stored # None /\ rec # None
           /\ live[f].at = stored.at /\ Cardinality(live[f].turns) # Cardinality(rec.turns)

SweepCopies(f) ==
    /\ sweeping = None /\ live[f] # None /\ ShouldArchive(f)
    /\ store' = [store EXCEPT !["own"].copy[f] = live[f]]
    /\ sweeping' = f
    /\ UNCHANGED <<instance, now, turn, live, job, raced, left>>

SweepRecords ==
    /\ sweeping # None
    /\ store' = [store EXCEPT !["own"].rec =
                   Recorded(@, sweeping, store["own"].copy[sweeping])]
    /\ sweeping' = None
    /\ UNCHANGED <<instance, now, turn, live, job, raced, left>>

SweepRepairs(f) ==
    /\ sweeping = None /\ live[f] # None /\ ~ShouldArchive(f)
    /\ \/ store["own"].rec[f] = None
       \/ store["own"].rec[f] # None /\ store["own"].rec[f].at # store["own"].copy[f].at
    /\ store' = [store EXCEPT !["own"].rec = Recorded(@, f, store["own"].copy[f])]
    /\ UNCHANGED <<instance, now, turn, live, sweeping, job, raced, left>>

KillSweep ==
    /\ sweeping # None /\ left.kills > 0
    /\ sweeping' = None
    /\ left' = [left EXCEPT !.kills = @ - 1]
    /\ UNCHANGED <<instance, now, turn, live, store, job, raced>>

\* Objects go off-box one at a time and the index after them
PublishObject(f) ==
    /\ "remote" \in Sources /\ sweeping = None
    /\ store["own"].copy[f] # store["remote"].copy[f]
    /\ store' = [store EXCEPT !["remote"].copy[f] = store["own"].copy[f]]
    /\ UNCHANGED <<instance, now, turn, live, sweeping, job, raced, left>>

PublishIndex ==
    /\ "remote" \in Sources /\ sweeping = None
    /\ store["remote"].copy = store["own"].copy
    /\ store["remote"].rec # store["own"].rec
    /\ store' = [store EXCEPT !["remote"].rec = store["own"].rec]
    /\ UNCHANGED <<instance, now, turn, live, sweeping, job, raced, left>>

\* The other machine has the session from here or from before, and went on with it
MirrorObject(f) ==
    /\ "mirror" \in Sources /\ turn < instance.turns /\ f # "archived"
    /\ \E from \in {"own", "mirror"} :
         LET base == store[from].copy[f] IN
         store' = [store EXCEPT !["mirror"].copy[f] =
                     NewVersion((IF base = None THEN {} ELSE base.turns) \cup {turn + 1})]
    /\ turn' = turn + 1
    /\ UNCHANGED <<instance, now, live, sweeping, job, raced, left>>

\* Its index is replaced after the objects it names
MirrorIndex ==
    /\ "mirror" \in Sources
    /\ LET copy == store["mirror"].copy
           recs == [f \in Files |-> IF copy[f] = None THEN None
                                   ELSE [turns |-> copy[f].turns, at |-> copy[f].at, last |-> FALSE]]
       IN  /\ recs # store["mirror"].rec
           /\ store' = [store EXCEPT !["mirror"].rec = recs]
    /\ UNCHANGED <<instance, now, turn, live, sweeping, job, raced, left>>

-----------------------------------------------------------------------------
(* The restore *)

File  == job.plans[job.at]
Last  == job.at = Len(job.plans)
Fails == job' = [job EXCEPT !.pc = "failed"]

\* The next file, or after the last one the next phase
Advance(j, pc) == IF Last THEN [j EXCEPT !.pc = pc, !.at = 1] ELSE [j EXCEPT !.at = @ + 1]

\* The unit an index resolves to: its files in order, or no file
ResolveArchivedUnit(place) == ToArchivedUnit(store[place].rec)

\* Off-box, the index is pulled first and the objects after it
RunRestore(place, force) ==
    /\ job.pc = "idle" /\ left.restores > 0
    /\ left' = [left EXCEPT !.restores = @ - 1]
    /\ \E plans \in ResolveArchivedUnit(place) :
         job' = IF plans = <<>> THEN [Idle EXCEPT !.pc = "failed"]
                ELSE [Idle EXCEPT !.pc = IF place = "remote" THEN "pull" ELSE "check",
                        !.place = place, !.force = force, !.records = store[place].rec,
                        !.plans = plans]
    /\ raced' = {}
    /\ UNCHANGED <<instance, now, turn, live, store, sweeping>>

PullAndDecryptFile ==
    /\ job.pc = "pull"
    /\ LET object == store["remote"].copy[File] IN
         IF object = None THEN Fails
         ELSE job' = Advance([job EXCEPT !.stage[File] = object], "check")
    /\ UNCHANGED <<instance, now, turn, live, store, sweeping, raced, left>>

\* liveMtime of each target, then the decision
Newer(f) == live[f] # None /\ live[f].at > job.records[f].at

RefusesIfFirst(offends) == ~job.force /\ offends /\ Len(job.plans) = 1

Refuses(offends) == ~job.force /\ offends

CheckTarget ==
    /\ job.pc = "check"
    /\ LET offends == job.offends \/ Newer(File) IN
         job' = IF Last /\ Refuses(offends) THEN [job EXCEPT !.pc = "failed"]
                ELSE Advance([job EXCEPT !.offends = offends], "write")
    /\ raced' = raced \ {File}
    /\ UNCHANGED <<instance, now, turn, live, store, sweeping, left>>

ArchivedBytes(f) == IF job.place = "remote" THEN job.stage[f] ELSE store[job.place].copy[f]

VerifiedIfForeign(f) ==
    job.place # "own" => ArchivedBytes(f).turns = job.records[f].turns

Verified(f) == ArchivedBytes(f).turns = job.records[f].turns

\* writeRestoredFile up to the rename: the file is dated when it was written
WriteRestoredFile ==
    /\ job.pc = "write"
    /\ IF ArchivedBytes(File) = None \/ (ArchivedBytes(File) # None /\ ~Verified(File))
       THEN Fails /\ UNCHANGED <<live, raced>>
       ELSE /\ live' = [live EXCEPT ![File] = NewVersion(ArchivedBytes(File).turns)]
            /\ job' = [job EXCEPT !.pc = "stamp"]
            /\ raced' = raced \ {File}
    /\ UNCHANGED <<instance, now, turn, store, sweeping, left>>

StampedTime == job.records[File].at

\* utimes, on whatever is there by now
StampRestoredFile ==
    /\ job.pc = "stamp"
    /\ IF live[File] = None THEN Fails /\ UNCHANGED live
       ELSE /\ live' = [live EXCEPT ![File].at = StampedTime]
            /\ job' = Advance([job EXCEPT !.pc = "write"], "done")
    /\ UNCHANGED <<instance, now, turn, store, sweeping, raced, left>>

\* The command returns, or is killed; what it staged is never read again
Return ==
    /\ job.pc \in {"done", "failed"}
    /\ job' = Idle /\ raced' = {}
    /\ UNCHANGED <<instance, now, turn, live, store, sweeping, left>>

KillRestore ==
    /\ job.pc \in {"pull", "check", "write", "stamp"} /\ left.kills > 0
    /\ job' = Idle /\ raced' = {}
    /\ left' = [left EXCEPT !.kills = @ - 1]
    /\ UNCHANGED <<instance, now, turn, live, store, sweeping>>

-----------------------------------------------------------------------------
Init ==
    /\ instance \in Instances
    /\ now = 0 /\ turn = 0
    /\ live = NoFiles
    /\ store = [p \in Places |-> [copy |-> NoFiles, rec |-> NoFiles]]
    /\ sweeping = None
    /\ job = Idle
    /\ raced = {}
    /\ left = [prunings |-> instance.prunings, restores |-> instance.restores, kills |-> instance.kills]

Next ==
    \/ \E f \in Files : \/ Writes(f) \/ SweepCopies(f) \/ SweepRepairs(f)
                        \/ PublishObject(f) \/ MirrorObject(f)
                        \/ \E g \in Files : Move(f, g)
    \/ Prune \/ Tick \/ SweepRecords \/ KillSweep \/ PublishIndex \/ MirrorIndex
    \/ \E p \in Places, force \in BOOLEAN : RunRestore(p, force)
    \/ PullAndDecryptFile \/ CheckTarget \/ WriteRestoredFile \/ StampRestoredFile
    \/ Return \/ KillRestore

Spec == Init /\ [][Next]_vars

-----------------------------------------------------------------------------
\* The files that hold the same session
Twins(f) == IF harness = "codex" THEN Files ELSE {f}

AllVersions(f) ==
    ({live[g] : g \in Twins(f)} \cup {job.stage[g] : g \in Twins(f)} \cup {job.records[g] : g \in Twins(f)}
     \cup UNION {{store[p].copy[g], store[p].rec[g]} : p \in Places, g \in Twins(f)}) \ {None}

\* A session has one history: of two versions of it one continues the other
OneHistory(f) ==
    \A v, w \in AllVersions(f) : v.turns \subseteq w.turns \/ w.turns \subseteq v.turns

(* A restore that succeeded left every file of the unit as it was recorded,
   contents and time, unless the harness has written it since; whatever the
   sweep, the publication or the mirror replaced while it ran
   (restore.ts:283, :298). *)
RestoredAsRecorded ==
    job.pc = "done" =>
        \A i \in DOMAIN job.plans :
            LET f == job.plans[i] IN
            f \notin raced => live[f] = [turns |-> job.records[f].turns, at |-> job.records[f].at]

\* No restore has been here before the one that runs
FirstRestore == left.restores = instance.restores - 1

(* Without --force the first restore takes no turn out of the live store, as
   long as the session has one history: comparing times stands for comparing
   contents (restore.ts:412-423). Not covered, and no code covers it: a turn
   written after the file was looked at, or in the tick its record is dated,
   and a later restore. An earlier one, forced or not, may have put an older
   version beside a newer one or under a later time: the file is dated when it
   was renamed until utimes dates it (restore.ts:297-299), and what a sweep, a
   write, a move or a kill makes of it in between keeps the wrong time. *)
UnforcedLosesNothing ==
    [][ \A f \in Files :
          (/\ job.pc = "write" /\ job'.pc = "stamp" /\ File = f /\ ~job.force
           /\ FirstRestore /\ OneHistory(f) /\ f \notin raced
           /\ live[f] # None /\ live[f].at # job.records[f].at)
          => live[f].turns \subseteq live'[f].turns ]_vars

(* What the first restore of a Codex session leaves aside as superseded holds
   no turn that the restored file lacks, however the session was moved between
   its two places or continued, while it has one history and the two are not
   dated in one tick (restore.ts:64-100). *)
SupersededHoldsNothingMore ==
    (/\ job.pc = "done" /\ harness = "codex" /\ FirstRestore
     /\ OneHistory(job.plans[1])) =>
        \A g \in Files :
            (job.records[g] # None /\ job.records[g].at # job.records[job.plans[1]].at)
            => job.records[g].turns \subseteq job.records[job.plans[1]].turns
=============================================================================
