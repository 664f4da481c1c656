---------------------------- MODULE ArchiveSweep ----------------------------
(***************************************************************************)
(* The sweep of one machine's session files into its local archive         *)
(* (apps/cli/src/core/archive.ts, with compress.ts and index.ts): harnesses *)
(* append to their session files at any time, a sweep copies those that    *)
(* look newer than their archived copy and appends a record of each copy   *)
(* to index.jsonl, and may be killed between any two file operations.      *)
(*                                                                         *)
(* Session files only grow: the n-th version of a file has size n, and n   *)
(* stands for its bytes and their checksum.  The sync lock admits one      *)
(* sweep at a time (SyncLock says when it does not).                       *)
(***************************************************************************)
EXTENDS Integers, FiniteSets

CONSTANTS
    Files,       \* session files of the machine
    None,        \* no file, no record
    MaxClock,    \* bound on the clock, in the unit of stat's mtimeMs
    MaxVersion,  \* bound on the writes to a file
    Stamp,       \* the modification time utimes leaves when asked for one
    MaxFaults,   \* bound on kills and deletions of the index
    Faults       \* those considered: "kill", "deleteIndex"

ASSUME BoundsAssumption ==
    /\ MaxClock \in Nat
    /\ MaxVersion \in Nat
    /\ MaxFaults \in Nat
ASSUME FaultsAssumption == Faults \subseteq {"kill", "deleteIndex"}

VARIABLES
    clock,
    source,   \* the harness's files: mtime and version
    gone,     \* those it has removed
    stored,   \* the archived copies: mtime and version of the content
    index,    \* the last record of each file in a whole line of index.jsonl
    tail,     \* the unterminated last line of index.jsonl, left by a kill:
              \* a record that lacks its line feed, or a fragment (record = None)
    faults,   \* how many there have been
    pc,       \* where the sweep is
    todo,     \* listed files it has not looked at yet
    listing,  \* what enumerate saw of each file
    records,  \* index.records, its copy of the index
    job       \* the copy or the record it is making

archive == <<stored, index, tail>>
sweep == <<pc, todo, listing, records, job>>
harness == <<clock, source, gone>>
vars == <<harness, archive, faults, sweep>>

Times == 0 .. MaxClock
Versions == 1 .. MaxVersion

(* What stat tells of a file, its size being its version.                  *)
Stats == [mtime : Times, version : Versions]


(* utimes takes seconds: it may round the time down, never up.             *)
ASSUME StampAssumption == Stamp \in [Times -> Times] /\ \A t \in Times : Stamp[t] <= t

(* sourceMtimeMs, sourceSize and sha256 of an index record.                *)
Records == [mtime : Times, size : Versions, version : Versions]

Jobs == [file : Files, record : Records]

ASSUME NoneAssumption == None \notin Stats \cup Records

(* Where the sweep is when it works on a file.                             *)
Busy == {"stat", "read", "rename", "utimes", "append"}

-----------------------------------------------------------------------------
Init ==
    /\ clock = 0
    /\ source = [f \in Files |-> None]
    /\ gone = {}
    /\ stored = [f \in Files |-> None]
    /\ index = [f \in Files |-> None]
    /\ tail = None
    /\ faults = 0
    /\ pc = "idle"
    /\ todo = {}
    /\ listing = source
    /\ records = index
    /\ job = None

(* Mutant: a change of size in the same tick goes unnoticed.               *)
ShouldArchiveNewer(file, copy, record) ==
    copy = None \/ file.mtime > copy.mtime

(* Mutant: a file with the archived modification time is copied again.     *)
ShouldArchiveNotOlder(file, copy, record) ==
    copy = None \/ file.mtime >= copy.mtime

ShouldArchive(file, copy, record) ==
    \/ copy = None
    \/ file.mtime > copy.mtime
    \/ /\ file.mtime = copy.mtime
       /\ record # None
       /\ file.version # record.size

(* Mutant: only a record that is missing altogether is repaired.           *)
NeedsRecordIfMissing(copy, record) == record = None

NeedsRecord(copy, record) ==
    copy # None /\ (record = None \/ record.mtime # copy.mtime)

(* parseIndex: the last valid line of each path.                           *)
Read ==
    [f \in Files |->
        IF tail # None /\ tail.file = f /\ tail.record # None
        THEN tail.record ELSE index[f]]

(* appendFile after an unterminated line makes one corrupt line of both.   *)
AppendLine(f, record) ==
    /\ index' = IF tail = None THEN [index EXCEPT ![f] = record] ELSE index
    /\ tail' = None

-----------------------------------------------------------------------------
(***************************************************************************)
(* The harnesses and the file system, outside of the sweep.                *)
(***************************************************************************)
Tick ==
    /\ clock < MaxClock
    /\ clock' = clock + 1
    /\ UNCHANGED <<source, gone, archive, faults, sweep>>

Size(f) == IF source[f] = None THEN 0 ELSE source[f].version

Write(f) ==
    /\ f \notin gone
    /\ Size(f) < MaxVersion
    /\ source' = [source EXCEPT ![f] = [mtime |-> clock, version |-> Size(f) + 1]]
    /\ UNCHANGED <<clock, gone, archive, faults, sweep>>

(* The harness cleans up an old session.                                   *)
Vanish(f) ==
    /\ source[f] # None
    /\ source' = [source EXCEPT ![f] = None]
    /\ gone' = gone \cup {f}
    /\ UNCHANGED <<clock, archive, faults, sweep>>

(* index.jsonl is a derived file: it may be deleted between two sweeps.    *)
DeleteIndex ==
    /\ "deleteIndex" \in Faults
    /\ faults < MaxFaults
    /\ pc = "idle"
    /\ faults' = faults + 1
    /\ index' = [f \in Files |-> None]
    /\ tail' = None
    /\ UNCHANGED <<harness, stored, sweep>>

-----------------------------------------------------------------------------
(***************************************************************************)
(* The sweep.                                                              *)
(***************************************************************************)
ReadIndex ==
    /\ pc = "idle"
    /\ records' = Read
    /\ pc' = "enumerate"
    /\ UNCHANGED <<harness, archive, faults, todo, listing, job>>

Enumerate ==
    /\ pc = "enumerate"
    /\ listing' = source
    /\ todo' = {f \in Files : source[f] # None}
    /\ pc' = "next"
    /\ UNCHANGED <<harness, archive, faults, records, job>>

Finish ==
    /\ pc = "next"
    /\ todo = {}
    /\ pc' = "idle"
    /\ UNCHANGED <<harness, archive, faults, todo, listing, records, job>>

(* The record in job is the one the file would get if nothing changed from *)
(* now on.                                                                 *)
Job(f, mtime, size, version) ==
    [file |-> f, record |-> [mtime |-> mtime, size |-> size, version |-> version]]

(* The copy is compared with what enumerate saw, not with the file.        *)
Decide(f) ==
    /\ pc = "next"
    /\ f \in todo
    /\ todo' = todo \ {f}
    /\ IF ShouldArchive(listing[f], stored[f], records[f])
       THEN /\ pc' = "stat"
            /\ job' = Job(f, listing[f].mtime, listing[f].version, listing[f].version)
       ELSE IF NeedsRecord(stored[f], records[f])
       THEN /\ pc' = "append"
            /\ job' = Job(f, stored[f].mtime, listing[f].version, stored[f].version)
       ELSE UNCHANGED <<pc, job>>
    /\ UNCHANGED <<harness, archive, faults, listing, records>>

(* stat, then readFile: either fails when the harness removed the file.    *)
Stat ==
    /\ pc = "stat"
    /\ LET file == source[job.file] IN
       IF file = None
       THEN pc' = "next" /\ UNCHANGED job
       ELSE /\ pc' = "read"
            /\ job' = Job(job.file, file.mtime, file.version, file.version)
    /\ UNCHANGED <<harness, archive, faults, todo, listing, records>>

ReadSource ==
    /\ pc = "read"
    /\ LET file == source[job.file] IN
       IF file = None
       THEN pc' = "next" /\ UNCHANGED job
       ELSE /\ pc' = "rename"
            /\ job' = Job(job.file, job.record.mtime, job.record.size, file.version)
    /\ UNCHANGED <<harness, archive, faults, todo, listing, records>>

(* The new copy replaces the old one; its modification time is now.        *)
Rename ==
    /\ pc = "rename"
    /\ stored' = [stored EXCEPT ![job.file] =
                    [mtime |-> clock, version |-> job.record.version]]
    /\ pc' = "utimes"
    /\ UNCHANGED <<harness, index, tail, faults, todo, listing, records, job>>

(* Mutant: the copy keeps the time at which it was written.                *)
UtimesForgotten ==
    /\ pc = "utimes"
    /\ pc' = "append"
    /\ UNCHANGED <<harness, archive, faults, todo, listing, records, job>>

Utimes ==
    /\ pc = "utimes"
    /\ stored' = [stored EXCEPT ![job.file] =
                    [mtime |-> Stamp[job.record.mtime], version |-> @.version]]
    /\ pc' = "append"
    /\ UNCHANGED <<harness, index, tail, faults, todo, listing, records, job>>

Append ==
    /\ pc = "append"
    /\ AppendLine(job.file, job.record)
    /\ records' = [records EXCEPT ![job.file] = job.record]
    /\ pc' = "next"
    /\ UNCHANGED <<harness, stored, faults, todo, listing, job>>

(* A kill in the middle of appendFile leaves part of the line.             *)
Kill ==
    /\ "kill" \in Faults
    /\ faults < MaxFaults
    /\ pc # "idle"
    /\ faults' = faults + 1
    /\ pc' = "idle"
    /\ \/ UNCHANGED tail
       \/ /\ pc = "append"
          /\ tail' = [file |-> job.file, record |-> None]
       \/ /\ pc = "append"
          /\ tail = None
          /\ tail' = job
    /\ UNCHANGED <<harness, stored, index, todo, listing, records, job>>

Step ==
    \/ ReadIndex \/ Enumerate \/ Finish
    \/ \E f \in Files : Decide(f)
    \/ Stat \/ ReadSource \/ Rename \/ Utimes \/ Append

Next ==
    \/ Tick
    \/ \E f \in Files : Write(f) \/ Vanish(f)
    \/ DeleteIndex
    \/ Step
    \/ Kill

Spec == Init /\ [][Next]_vars

(* The schedule runs a sweep every hour, and a running sweep goes on.      *)
FairSpec == Spec /\ WF_vars(Step)

-----------------------------------------------------------------------------
TypeOK ==
    /\ clock \in Times
    /\ source \in [Files -> {None} \cup Stats]
    /\ gone \subseteq Files
    /\ stored \in [Files -> {None} \cup Stats]
    /\ index \in [Files -> {None} \cup Records]
    /\ tail \in {None} \cup [file : Files, record : {None} \cup Records]
    /\ faults \in 0 .. MaxFaults
    /\ pc \in {"idle", "enumerate", "next"} \cup Busy
    /\ todo \subseteq Files
    /\ listing \in [Files -> {None} \cup Stats]
    /\ records \in [Files -> {None} \cup Records]
    /\ job \in {None} \cup Jobs
    /\ pc \in Busy => job \in Jobs
    /\ pc = "utimes" => stored[job.file] \in Stats
    /\ \A f \in todo : listing[f] \in Stats

(* "Every sync finds new and changed session files" (how-it-works.tsx:14): *)
(* between sweeps, a session that the next one would skip is archived as   *)
(* it is, although the decision only sees times and sizes, and a source    *)
(* may have grown between any two steps of the copy.  After a kill between *)
(* rename and utimes it need not be so: the copy is dated too late.        *)
SkipsOnlyArchived ==
    pc = "idle" /\ faults = 0 =>
        \A f \in Files :
            source[f] # None /\ ~ShouldArchive(source[f], stored[f], Read[f])
                => stored[f].version = source[f].version

(* A session that is quiet, and that its harness keeps, ends up archived   *)
(* as it is by the hourly sweeps, whatever was appended during the copies  *)
(* before.                                                                 *)
EverySessionIsArchived ==
    \A f \in Files :
        <>[](faults > 0 \/ source[f] = None
                \/ (stored[f] # None /\ stored[f].version = source[f].version))

(* "Everything else stays untouched": once the sessions are quiet, sweeps  *)
(* stop rewriting the archive, even after kills.                           *)
ArchiveSettles == <>[][stored' = stored]_vars

(* Kills, torn lines and deletions of the index are repaired by later      *)
(* sweeps: the record of every session still in its store ends up being    *)
(* that of its archived bytes (the repair branch of archiveSessions).      *)
IndexIsRepaired ==
    \A f \in Files :
        <>[](source[f] = None \/ stored[f] = None
                \/ (Read[f] # None /\ Read[f].version = stored[f].version))
=============================================================================
