----------------------------- MODULE Snapshots -----------------------------
(* A harness that keeps all sessions in one SQLite database: the snapshots a
   sweep takes of it (archiveDatabaseSnapshot in core/archive.ts, the OpenCode
   adapter) and the restore of one into an absent database
   (restoreDatabaseSnapshot in core/restore.ts), while the harness runs.

   The contents of a database are the sessions in it. A database is its main
   file and the write-ahead log beside it, which SQLite applies on top. A
   snapshot is a directory with a payload and, written after it, a manifest;
   directories are numbered in the order of their timestamps.               *)
EXTENDS Integers, FiniteSets

CONSTANTS
    NoFile,       \* no file
    Rotten,       \* bytes that fail their checksum
    Sessions,     \* sessions of the harness
    MaxSnapshots, \* bound: snapshot directories
    MaxDamages,   \* bound: payloads that rot
    MaxKills,     \* bound: kills of a sweep or of a restore
    MaxRestores   \* bound: restores started

ASSUME SnapshotsAssumption ==
    /\ NoFile # Rotten /\ NoFile \notin Sessions
    /\ {MaxSnapshots, MaxDamages, MaxKills, MaxRestores} \subseteq Nat

VARIABLES
    main,   \* the main database file, or None
    wal,    \* what the write-ahead log beside it makes of it, or None
    snaps,  \* the snapshot directories
    index,  \* the snapshots index.jsonl has a record of
    sweep,  \* the archiving of the database
    install, \* the restore
    overtaken, \* history: the harness made a database after the restore's last look
    remaining \* damages, kills and restores that may still happen

databaseVars == <<main, wal, snaps, index, sweep, install, overtaken, remaining>>

Contents == [sessions : SUBSET Sessions]
Empty    == [sessions |-> {}]
Ids      == 1 .. MaxSnapshots
Absent   == [dir |-> FALSE, payload |-> NoFile, manifest |-> NoFile]
NoSweep  == [pc |-> "idle", capture |-> Empty, id |-> 0]
NoInstall == [pc |-> "idle", session |-> NoFile, id |-> 0, bytes |-> NoFile]

Opened == IF wal = NoFile THEN main ELSE wal

-----------------------------------------------------------------------------
(* The harness *)

\* A start makes the database if there is none; a log without one is discarded
Start ==
    /\ main = NoFile
    /\ main' = Empty /\ wal' = NoFile
    /\ overtaken' = (overtaken \/ install.pc \in {"clear", "rename", "done"})
    /\ UNCHANGED <<snaps, index, sweep, install, remaining>>

\* Sessions are created and deleted in the log, and checkpointed at some time
Commit(session) ==
    /\ main # NoFile
    /\ wal' = [sessions |-> IF session \in Opened.sessions THEN Opened.sessions \ {session}
                            ELSE Opened.sessions \cup {session}]
    /\ overtaken' = (overtaken \/ install.pc = "done")
    /\ UNCHANGED <<main, snaps, index, sweep, install, remaining>>

Checkpoint ==
    /\ main # NoFile /\ wal # NoFile
    /\ main' = wal /\ wal' = NoFile
    /\ UNCHANGED <<snaps, index, sweep, install, overtaken, remaining>>

\* The user removes the database, and maybe not what is beside it
Remove ==
    /\ main # NoFile
    /\ main' = NoFile /\ wal' \in {wal, NoFile}
    /\ overtaken' = (overtaken \/ install.pc = "done")
    /\ UNCHANGED <<snaps, index, sweep, install, remaining>>

Rot(i) ==
    /\ remaining.damages > 0 /\ sweep.pc = "idle" /\ snaps[i].payload \in Contents
    /\ snaps' = [snaps EXCEPT ![i].payload = Rotten]
    /\ remaining' = [remaining EXCEPT !.damages = @ - 1]
    /\ UNCHANGED <<main, wal, index, sweep, install, overtaken>>

-----------------------------------------------------------------------------
(* The sweep *)

Kept == UNCHANGED <<main, wal, install, overtaken, remaining>>

\* The online backup is one consistent view, with the log applied
Capture ==
    /\ sweep.pc = "idle" /\ main # NoFile
    /\ sweep' = [NoSweep EXCEPT !.pc = "compare", !.capture = Opened]
    /\ UNCHANGED <<snaps, index>> /\ Kept

Readable(i) == snaps[i].manifest # NoFile /\ snaps[i].payload # NoFile

PayloadExists(i) == snaps[i].payload # NoFile

Intact(i) == snaps[i].payload = snaps[i].manifest

\* The last directory that has both files, unless its payload is damaged
NewestSnapshot ==
    {i \in Ids : /\ Readable(i) /\ Intact(i)
                 /\ \A j \in Ids : j > i => ~Readable(j)}

\* The record of a snapshot that has none is made of its manifest and payload
Repaired(i) == index \cup {i}

\* The same contents again: only a record that is missing is appended
Unchanged ==
    /\ sweep.pc = "compare"
    /\ \E i \in NewestSnapshot :
         /\ snaps[i].manifest = sweep.capture
         /\ index' = Repaired(i)
    /\ sweep' = [sweep EXCEPT !.pc = "done"]
    /\ UNCHANGED snaps /\ Kept

MakeDirectory ==
    /\ sweep.pc = "compare"
    /\ \A i \in NewestSnapshot : snaps[i].manifest # sweep.capture
    /\ \E i \in Ids :
         /\ ~snaps[i].dir /\ \A j \in Ids : j < i => snaps[j].dir
         /\ snaps' = [snaps EXCEPT ![i].dir = TRUE]
         /\ sweep' = [sweep EXCEPT !.pc = "payload", !.id = i]
    /\ UNCHANGED index /\ Kept

WritePayload ==
    /\ sweep.pc = "payload"
    /\ snaps' = [snaps EXCEPT ![sweep.id].payload = sweep.capture]
    /\ sweep' = [sweep EXCEPT !.pc = "manifest"]
    /\ UNCHANGED index /\ Kept

WriteManifest ==
    /\ sweep.pc = "manifest"
    /\ snaps' = [snaps EXCEPT ![sweep.id].manifest = sweep.capture]
    /\ sweep' = [sweep EXCEPT !.pc = "append"]
    /\ UNCHANGED index /\ Kept

AppendIndex ==
    /\ sweep.pc = "append"
    /\ index' = index \cup {sweep.id}
    /\ sweep' = [sweep EXCEPT !.pc = "done"]
    /\ UNCHANGED snaps /\ Kept

EndSweep ==
    /\ sweep.pc = "done"
    /\ sweep' = NoSweep
    /\ UNCHANGED <<snaps, index>> /\ Kept

KillArchiving ==
    /\ sweep.pc \notin {"idle", "done"} /\ remaining.kills > 0
    /\ sweep' = NoSweep
    /\ remaining' = [remaining EXCEPT !.kills = @ - 1]
    /\ UNCHANGED <<main, wal, snaps, index, install, overtaken>>

-----------------------------------------------------------------------------
(* The restore *)

RestKept == UNCHANGED <<snaps, index, sweep, remaining>>
Rejects  == install' = NoInstall

\* The derived index: the records, and what the manifests beside payloads say
Listed == index \cup {i \in Ids : Readable(i)}

\* The newest listed snapshot that names the session
NewestWith(session) ==
    {i \in Listed : /\ session \in snaps[i].manifest.sessions
                    /\ \A j \in Listed : j > i => session \notin snaps[j].manifest.sessions}

RunDatabaseRestore(session) ==
    /\ install.pc = "idle" /\ remaining.restores > 0
    /\ \E i \in NewestWith(session) :
         install' = [NoInstall EXCEPT !.pc = "look", !.session = session, !.id = i]
    /\ remaining' = [remaining EXCEPT !.restores = @ - 1]
    /\ overtaken' = FALSE
    /\ UNCHANGED <<main, wal, snaps, index, sweep>>

LookFirst ==
    /\ install.pc = "look"
    /\ IF main # NoFile THEN Rejects ELSE install' = [install EXCEPT !.pc = "read"]
    /\ UNCHANGED <<main, wal, overtaken>> /\ RestKept

\* The stored and the database's checksum, then a sibling temporary file
ArchivedPayload ==
    /\ install.pc = "read"
    /\ IF snaps[install.id].payload = snaps[install.id].manifest
       THEN install' = [install EXCEPT !.pc = "validate", !.bytes = snaps[install.id].payload]
       ELSE Rejects
    /\ UNCHANGED <<main, wal, overtaken>> /\ RestKept

ValidateSnapshot ==
    /\ install.pc = "validate"
    /\ IF install.session \in install.bytes.sessions
       THEN install' = [install EXCEPT !.pc = "lookAgain"]
       ELSE Rejects
    /\ UNCHANGED <<main, wal, overtaken>> /\ RestKept

TargetIsAbsent == main = NoFile

LookAgain ==
    /\ install.pc = "lookAgain"
    /\ IF TargetIsAbsent THEN install' = [install EXCEPT !.pc = "clear"] ELSE Rejects
    /\ UNCHANGED <<main, wal, overtaken>> /\ RestKept

LogIsLeft == wal

LogAfterClearing == NoFile

\* The log and the shared memory of an earlier database go first
ClearSidecars ==
    /\ install.pc = "clear"
    /\ wal' = LogAfterClearing
    /\ install' = [install EXCEPT !.pc = "rename"]
    /\ UNCHANGED <<main, overtaken>> /\ RestKept

RenameIntoPlace ==
    /\ install.pc = "rename"
    /\ main' = install.bytes
    /\ install' = [install EXCEPT !.pc = "done"]
    /\ UNCHANGED <<wal, overtaken>> /\ RestKept

ReportInstalled ==
    /\ install.pc = "done"
    /\ install' = NoInstall /\ overtaken' = FALSE
    /\ UNCHANGED <<main, wal>> /\ RestKept

KillInstall ==
    /\ install.pc \notin {"idle", "done"} /\ remaining.kills > 0
    /\ install' = NoInstall /\ overtaken' = FALSE
    /\ remaining' = [remaining EXCEPT !.kills = @ - 1]
    /\ UNCHANGED <<main, wal, snaps, index, sweep>>

-----------------------------------------------------------------------------
DatabaseInit ==
    /\ main = NoFile /\ wal = NoFile
    /\ snaps = [i \in Ids |-> Absent] /\ index = {}
    /\ sweep = NoSweep /\ install = NoInstall /\ overtaken = FALSE
    /\ remaining = [damages |-> MaxDamages, kills |-> MaxKills, restores |-> MaxRestores]

Harness == Start \/ Checkpoint \/ Remove \/ \E s \in Sessions : Commit(s)

Sweeps == \/ Capture \/ Unchanged \/ MakeDirectory \/ WritePayload \/ WriteManifest
          \/ AppendIndex \/ EndSweep \/ KillArchiving

Restores == \/ \E s \in Sessions : RunDatabaseRestore(s)
            \/ LookFirst \/ ArchivedPayload \/ ValidateSnapshot \/ LookAgain
            \/ ClearSidecars \/ RenameIntoPlace \/ ReportInstalled \/ KillInstall

DatabaseNext == Harness \/ Sweeps \/ Restores \/ \E i \in Ids : Rot(i)

DatabaseSpec == DatabaseInit /\ [][DatabaseNext]_databaseVars

-----------------------------------------------------------------------------
Directories == [dir : BOOLEAN, payload : Contents \cup {NoFile, Rotten},
                manifest : Contents \cup {NoFile}]
Sweepings   == [pc : {"idle", "compare", "payload", "manifest", "append", "done"},
                capture : Contents, id : 0 .. MaxSnapshots]
Installs    == [pc : {"idle", "look", "read", "validate", "lookAgain", "clear", "rename", "done"},
                session : Sessions \cup {NoFile}, id : 0 .. MaxSnapshots, bytes : Contents \cup {NoFile}]

DatabaseTypeOK ==
    /\ main \in Contents \cup {NoFile} /\ wal \in Contents \cup {NoFile}
    /\ snaps \in [Ids -> Directories] /\ index \subseteq Ids
    /\ sweep \in Sweepings /\ install \in Installs /\ overtaken \in BOOLEAN
    /\ sweep.pc \in {"payload", "manifest", "append"} => sweep.id \in Ids
    /\ install.pc # "idle" => install.id \in Ids
    /\ remaining \in [damages : 0 .. MaxDamages, kills : 0 .. MaxKills, restores : 0 .. MaxRestores]

(* A sweep that says the database is archived or unchanged leaves a snapshot
   of what it captured that a restore accepts, with its record in the index,
   whatever kills and damage went before; no payload rots while it runs
   (archive.ts:101-150, :189-199). *)
SweptIsHeld ==
    sweep.pc = "done" =>
        \E i \in index : snaps[i].payload = sweep.capture /\ snaps[i].manifest = sweep.capture

(* A restore never replaces a database: one the harness makes while the
   snapshot is read and validated is seen. Not covered, and no code covers it:
   one made between the last look and the rename (restore.ts:359-367). *)
LiveDatabaseIsKept ==
    [][ (install.pc = "rename" /\ install'.pc = "done" /\ ~overtaken) => main = NoFile ]_databaseVars

(* What the harness opens after a restore is the snapshot, with the session
   asked for, and not what the log of an earlier database makes of it, in
   whatever state the earlier one was removed (restore.ts:366). *)
RestoredIsTheSnapshot ==
    (install.pc = "done" /\ ~overtaken) => Opened = install.bytes /\ install.session \in Opened.sessions
=============================================================================
