----------------------------- MODULE Publication -----------------------------
(***************************************************************************)
(* The off-box copy of a machine's archive, end to end: publishRemote      *)
(* (apps/cli/src/offbox/outbox.ts, remote.ts, cloud/client.ts, rclone.ts)  *)
(* uploads what has changed and then the index, over an rclone remote or   *)
(* over Packbat Cloud; mirrorMachine (mirror.ts) of another machine pulls  *)
(* them.  Requests fail or lose their answer, either process is killed     *)
(* anywhere, and the machine may be set up again under its name.           *)
(*                                                                         *)
(* A version stands for the bytes of an archived session and for their     *)
(* SHA-256.  The sync lock keeps a sweep and a publication of one machine  *)
(* apart, so the archive does not change while it is being published.      *)
(***************************************************************************)
EXTENDS Integers, FiniteSets

CONSTANTS
    Paths,        \* archived sessions
    None,         \* no file, no record, no index
    Now,          \* the modification time of a file nobody has dated
    MaxVersion,   \* bound on the versions of each session
    Kinds,        \* kinds of remote considered: "rclone", "cloud"
    Workers,      \* CLOUD_UPLOAD_CONCURRENCY, or rclone's transfers
    MaxFaults,    \* bound on failures, kills and reinstallations
    Faults        \* those considered

ASSUME BoundsAssumption ==
    /\ MaxVersion \in [Paths -> Nat]
    /\ Workers \in Nat
    /\ MaxFaults \in Nat
ASSUME PathsAssumption == Paths # {}
ASSUME KindsAssumption == Kinds \subseteq {"rclone", "cloud"}

Versions == UNION {1 .. MaxVersion[p] : p \in Paths}
Times == {0} \cup Versions
Copies == [mtime : Times, version : Versions]
Indexes == [Paths -> {None} \cup Copies]

ASSUME NoneAssumption ==
    /\ None \notin Nat \cup Indexes /\ Now \notin Nat
    /\ None \notin [mtime : Nat \cup {Now}, version : Nat]

VARIABLES
    kind,       \* the type of the remote
    copies,     \* the machine's archived sessions, recorded in its index.jsonl
    latest,     \* the last version of each session, whatever became of it
    blinded,    \* has this installation taken an error of rclone for "no such file"?
    objects,    \* what the remote holds under each path
    head,       \* the published index
    uploaded,   \* uploaded.jsonl: mtimeMs of the last record of each path
    savedIndex, \* index.json: the hash of the index last published
    succeeded,  \* last-success.json exists
    knowsHead,  \* does cloud.json hold the broker's current_index_etag?
    run,        \* a run of publishRemote
    pull,       \* a run of mirrorMachine on the other machine
    mirror,     \* the other machine's copies
    mirrorIndex,\* and its index.jsonl for this machine
    faults

archive == <<kind, copies, latest, blinded>>
remote == <<objects, head>>
state == <<uploaded, savedIndex, succeeded, knowsHead>>
reader == <<pull, mirror, mirrorIndex>>
vars == <<archive, remote, state, run, reader, faults>>

Empty == [p \in Paths |-> None]

(* What a run of publishRemote keeps in memory, and its outbox.            *)
NoRun ==
    [pc |-> "idle",
     outbox |-> Empty,   \* the sessions it encrypted
     todo |-> {},        \* those no worker has taken
     flying |-> {},      \* those being uploaded
     landed |-> {},      \* those stored, not checkpointed yet
     silent |-> {},      \* those stored without a word from rclone
     failed |-> FALSE]   \* failure !== undefined

NoPull ==
    [pc |-> "idle",
     index |-> Empty,    \* the index it has downloaded
     unlisted |-> {},    \* keys beyond the cursor
     pending |-> {},     \* listed objects it has not looked at
     verified |-> {},    \* verifiedRecords
     errors |-> FALSE]   \* errors.length > 0

Init ==
    /\ kind \in Kinds
    /\ copies = Empty
    /\ latest = [p \in Paths |-> 0]
    /\ blinded = FALSE
    /\ objects = Empty
    /\ head = None
    /\ uploaded = Empty
    /\ savedIndex = None
    /\ succeeded = FALSE
    /\ knowsHead = TRUE
    /\ run = NoRun
    /\ pull = NoPull
    /\ mirror = Empty
    /\ mirrorIndex = None
    /\ faults = 0

Fault(fault) == fault \in Faults /\ faults < MaxFaults /\ faults' = faults + 1
Idle == run.pc = "idle"

-----------------------------------------------------------------------------
(***************************************************************************)
(* The sweep, which runs before the publication and under the same lock.   *)
(***************************************************************************)
(* A session that changes again within one tick of its file system is      *)
(* archived again, by its size, under the same modification time.          *)
Archive(p) ==
    /\ Idle
    /\ latest[p] < MaxVersion[p]
    /\ latest' = [latest EXCEPT ![p] = @ + 1]
    /\ \E t \in {latest[p] + 1} \cup (IF copies[p] = None THEN {} ELSE {copies[p].mtime}) :
            copies' = [copies EXCEPT ![p] = [mtime |-> t, version |-> latest[p] + 1]]
    /\ UNCHANGED <<kind, blinded, remote, state, run, reader, faults>>

(* The machine is set up anew, its archive and its state directory gone.   *)
Reinstall ==
    /\ Idle
    /\ Fault("reinstall")
    /\ copies' = Empty
    /\ blinded' = FALSE
    /\ uploaded' = Empty
    /\ savedIndex' = None
    /\ succeeded' = FALSE
    /\ knowsHead' = (head = None)
    /\ UNCHANGED <<kind, latest, remote, run, reader>>

-----------------------------------------------------------------------------
(***************************************************************************)
(* publishRemote.                                                          *)
(***************************************************************************)
HasPublished == uploaded # Empty \/ savedIndex # None \/ succeeded

(* remoteFileExists takes every failure of rclone for "no such file"; only *)
(* a machine that has no memory of publishing asks.                        *)
SeesIndex(seen, blind) ==
    \/ seen = (head # None) /\ ~blind
    \/ kind = "rclone" /\ ~HasPublished /\ head # None /\ ~seen /\ blind

(* Mutant: publishes over whatever the remote holds.                       *)
MayPublishUnchecked(seen) == TRUE

(* A machine that has no memory of publishing stays away from an archive   *)
(* that bears its name.                                                    *)
MayPublish(seen) == HasPublished \/ ~seen

(* Mutant: a copy is uploaded once.                                        *)
ChangedOnce(p) == copies[p] # None /\ uploaded[p] = None

Changed(p) == copies[p] # None /\ (uploaded[p] = None \/ copies[p].mtime > uploaded[p])

Start ==
    /\ Idle
    /\ \E seen, blind \in BOOLEAN :
          /\ SeesIndex(seen, blind) /\ MayPublish(seen)
          /\ blinded' = (blinded \/ blind)
          /\ LET changed == {p \in Paths : Changed(p)} IN
             run' = [NoRun EXCEPT
                !.pc = IF changed = {} THEN "index" ELSE "upload", !.todo = changed,
                !.outbox = [p \in Paths |-> IF p \in changed THEN copies[p] ELSE None]]
    /\ UNCHANGED <<kind, copies, latest, remote, state, reader, faults>>

(* The cloud workers stop at the first failure; rclone goes on.            *)
GoesOn == kind = "cloud" => ~run.failed

Take(p) ==
    /\ p \in run.todo
    /\ GoesOn
    /\ Cardinality(run.flying) < Workers
    /\ run' = [run EXCEPT !.todo = @ \ {p}, !.flying = @ \cup {p}]
    /\ UNCHANGED <<archive, remote, state, reader, faults>>

Land(p) ==
    /\ p \in run.flying
    /\ objects' = [objects EXCEPT ![p] = run.outbox[p]]
    /\ run' = [run EXCEPT !.flying = @ \ {p}, !.landed = @ \cup {p}]
    /\ UNCHANGED <<archive, head, state, reader, faults>>

(* onObject: the append to uploaded.jsonl.                                 *)
Checkpoint(p) ==
    /\ p \in run.landed
    /\ run' = [run EXCEPT !.landed = @ \ {p}]
    /\ uploaded' = [uploaded EXCEPT ![p] = run.outbox[p].mtime]
    /\ UNCHANGED <<archive, remote, savedIndex, succeeded, knowsHead, reader, faults>>

(* rclone has copied the object and logged no line that says so.           *)
Unreported(p) ==
    /\ kind = "rclone"
    /\ p \in run.landed
    /\ Fault("unreported")
    /\ run' = [run EXCEPT !.landed = @ \ {p}, !.silent = @ \cup {p}]
    /\ UNCHANGED <<archive, remote, state, reader>>

(* Before the object is stored, or after: the answer to finalize is lost.  *)
FailUpload(p) ==
    /\ p \in run.flying \cup run.landed
    /\ Fault("network")
    /\ run' = [run EXCEPT !.flying = @ \ {p}, !.landed = @ \ {p}, !.failed = TRUE]
    /\ UNCHANGED <<archive, remote, state, reader>>

UploadsOver ==
    /\ run.pc = "upload"
    /\ run.flying = {} /\ run.landed = {}
    /\ run.todo = {} \/ ~GoesOn

(* Mutant: publishes the index although an upload has failed.              *)
UploadsEndAnyhow ==
    /\ UploadsOver
    /\ run' = [run EXCEPT !.pc = "index", !.todo = {}]
    /\ UNCHANGED <<archive, remote, state, reader, faults>>

(* putArchiveObjects returns, or throws what has failed.                   *)
UploadsEnd ==
    /\ UploadsOver
    /\ run' = IF run.failed THEN NoRun ELSE [run EXCEPT !.pc = "index"]
    /\ UNCHANGED <<archive, remote, state, reader, faults>>

(* The hash of index.jsonl against that of index.json.                     *)
IndexUnchanged ==
    /\ run.pc = "index"
    /\ savedIndex = copies
    /\ run' = [run EXCEPT !.pc = "saveRest"]
    /\ UNCHANGED <<archive, remote, state, reader, faults>>

(* The broker compares expectedIndexEtag with its own; rclone just copies. *)
Conflicts == kind = "cloud" /\ ~knowsHead

PutIndex ==
    /\ run.pc = "index"
    /\ savedIndex # copies
    /\ ~Conflicts
    /\ head' = copies
    /\ knowsHead' = (kind = "rclone")
    /\ \/ /\ run' = [run EXCEPT !.pc = IF kind = "cloud" THEN "saveEtag" ELSE "saveRest"]
          /\ UNCHANGED faults
       \/ run' = NoRun /\ Fault("network")   \* the answer is lost
    /\ UNCHANGED <<archive, objects, uploaded, savedIndex, succeeded, reader>>

FailIndex ==
    /\ run.pc = "index"
    /\ savedIndex # copies
    /\ (Conflicts /\ UNCHANGED faults) \/ Fault("network")
    /\ run' = NoRun
    /\ UNCHANGED <<archive, remote, state, reader>>

SaveEtag ==
    /\ run.pc = "saveEtag"
    /\ knowsHead' = TRUE
    /\ run' = [run EXCEPT !.pc = "saveRest"]
    /\ UNCHANGED <<archive, remote, uploaded, savedIndex, succeeded, reader, faults>>

(* The changed files that no checkpoint was written for.                   *)
SaveRest ==
    /\ run.pc = "saveRest"
    /\ uploaded' = [p \in Paths |->
                      IF p \in run.silent THEN run.outbox[p].mtime ELSE uploaded[p]]
    /\ run' = [run EXCEPT !.pc = "saveIndex"]
    /\ UNCHANGED <<archive, remote, savedIndex, succeeded, knowsHead, reader, faults>>

SaveIndex ==
    /\ run.pc = "saveIndex"
    /\ savedIndex' = copies
    /\ run' = [run EXCEPT !.pc = "saveSuccess"]
    /\ UNCHANGED <<archive, remote, uploaded, succeeded, knowsHead, reader, faults>>

SaveSuccess ==
    /\ run.pc = "saveSuccess"
    /\ succeeded' = TRUE
    /\ run' = NoRun
    /\ UNCHANGED <<archive, remote, uploaded, savedIndex, knowsHead, reader, faults>>

Kill ==
    /\ ~Idle
    /\ Fault("kill")
    /\ run' = NoRun
    /\ UNCHANGED <<archive, remote, state, reader>>

Publish ==
    \/ Start
    \/ \E p \in Paths : Take(p) \/ Land(p) \/ Checkpoint(p)
    \/ UploadsEnd \/ IndexUnchanged \/ PutIndex \/ FailIndex
    \/ SaveEtag \/ SaveRest \/ SaveIndex \/ SaveSuccess

-----------------------------------------------------------------------------
(***************************************************************************)
(* mirrorMachine, on another machine that knows the identity.              *)
(***************************************************************************)
GetIndex ==
    /\ pull.pc = "idle"
    /\ head # None
    /\ pull' = [NoPull EXCEPT !.pc = "list", !.index = head, !.unlisted = Paths]
    /\ UNCHANGED <<archive, remote, state, run, mirror, mirrorIndex, faults>>

(* A listing takes several pages in the order of the keys, here of one key *)
(* each, and objects appear between them.                                  *)
ListPage ==
    /\ pull.pc = "list"
    /\ LET key == CHOOSE p \in pull.unlisted : TRUE
           rest == pull.unlisted \ {key}
       IN pull' = [pull EXCEPT !.unlisted = rest,
                               !.pending = IF objects[key] # None THEN @ \cup {key} ELSE @,
                               !.pc = IF rest = {} THEN "pull" ELSE "list"]
    /\ UNCHANGED <<archive, remote, state, run, mirror, mirrorIndex, faults>>

(* A file with the recorded time is taken for the recorded one, and one    *)
(* with the recorded bytes is given the time.                              *)
IsCurrent(file, record) ==
    /\ file # None
    /\ record # None => (file.mtime = record.mtime \/ file.version = record.version)

Dated(version, record) ==
    [mtime |-> IF record = None THEN Now ELSE record.mtime, version |-> version]

(* The hash of what was downloaded is not that of the record.              *)
Mismatch(p) == pull.index[p] # None /\ pull.index[p].version # objects[p].version

Seen(p) == [pull EXCEPT !.pending = @ \ {p}, !.verified = @ \cup {p}]
Refused(p) == [pull EXCEPT !.pending = @ \ {p}, !.errors = TRUE]

Keep(p) ==
    /\ pull.pc = "pull"
    /\ p \in pull.pending
    /\ IsCurrent(mirror[p], pull.index[p])
    /\ mirror' = IF pull.index[p] = None THEN mirror
                 ELSE [mirror EXCEPT ![p] = Dated(@.version, pull.index[p])]
    /\ pull' = Seen(p)
    /\ UNCHANGED <<archive, remote, state, run, mirrorIndex, faults>>

Pull(p) ==
    /\ pull.pc = "pull"
    /\ p \in pull.pending
    /\ ~IsCurrent(mirror[p], pull.index[p])
    /\ IF Mismatch(p)
       THEN pull' = Refused(p) /\ UNCHANGED mirror
       ELSE /\ pull' = Seen(p)
            /\ mirror' = [mirror EXCEPT ![p] = Dated(objects[p].version, pull.index[p])]
    /\ UNCHANGED <<archive, remote, state, run, mirrorIndex, faults>>

FailPull(p) ==
    /\ pull.pc = "pull"
    /\ p \in pull.pending
    /\ ~IsCurrent(mirror[p], pull.index[p])
    /\ Fault("network")
    /\ pull' = Refused(p)
    /\ UNCHANGED <<archive, remote, state, run, mirror, mirrorIndex>>

Recorded(i) == {p \in Paths : i[p] # None}

(* Mutant: the index follows whatever was pulled.                          *)
CompleteAnyhow == TRUE

Complete ==
    /\ ~pull.errors
    /\ Recorded(pull.index) \subseteq pull.verified
    /\ mirrorIndex # None => Recorded(mirrorIndex) \subseteq Recorded(pull.index)

ReplaceIndex ==
    /\ pull.pc = "pull"
    /\ pull.pending = {}
    /\ mirrorIndex' = IF Complete THEN pull.index ELSE mirrorIndex
    /\ pull' = NoPull
    /\ UNCHANGED <<archive, remote, state, run, mirror, faults>>

KillMirror ==
    /\ pull.pc # "idle"
    /\ Fault("kill")
    /\ pull' = NoPull
    /\ UNCHANGED <<archive, remote, state, run, mirror, mirrorIndex>>

MirrorMachine ==
    \/ GetIndex \/ ListPage \/ ReplaceIndex
    \/ \E p \in Paths : Keep(p) \/ Pull(p)

Next ==
    \/ Reinstall \/ Publish \/ Kill \/ MirrorMachine \/ KillMirror
    \/ \E p \in Paths : Archive(p) \/ Unreported(p) \/ FailUpload(p) \/ FailPull(p)

Spec == Init /\ [][Next]_vars

(* Each machine syncs every hour and its sync, once started, goes on.      *)
FairSpec == Spec /\ WF_vars(Publish) /\ WF_vars(MirrorMachine)

-----------------------------------------------------------------------------
(* A record of bytes that were written in the tick of the bytes before     *)
(* them: it bears their time, and Changed finds nothing to upload.         *)
Blurred(record) == record.mtime # record.version

(* The published index names only uploaded bytes, those it records or      *)
(* newer ones, whatever fails or is killed: putArchiveObjects comes before *)
(* putIndex, and the ledger that lets a later sync skip an object is       *)
(* written after the object.  Not covered, and no code covers it: two      *)
(* versions of one tick (outbox.ts:208 compares times alone).              *)
IndexNamesUploaded ==
    head # None =>
        \A p \in Paths :
            head[p] # None =>
                objects[p] # None /\ (objects[p].version >= head[p].version \/ Blurred(head[p]))

(* A machine's mirrored index never runs ahead of its files: every session *)
(* it records is there, in the recorded bytes or newer ones, although the  *)
(* other machine publishes between the download of the index, the listing  *)
(* and each pull ("errors.length === 0", mirror.ts:241).  Two versions of  *)
(* one tick are one to the mirror, too (mirror.ts:82).                     *)
MirrorIsBacked ==
    mirrorIndex # None =>
        \A p \in Paths :
            mirrorIndex[p] # None =>
                /\ mirror[p] # None
                /\ mirror[p].version >= mirrorIndex[p].version \/ Blurred(mirrorIndex[p])

(* No publication takes a session out of the published index, not even one *)
(* of a machine that was set up anew under the same name ("an archive for  *)
(* machine ... already exists at the remote", outbox.ts:196); except once  *)
(* rclone's failure to look passed for an empty remote (rclone.ts:204).    *)
PublishedIsKept ==
    [][head # None /\ ~blinded => Recorded(head) \subseteq Recorded(head')]_vars

(* What keeps a machine from ever publishing again: cloud.json misses the  *)
(* ETag of the published index, and every index is refused as a conflict;  *)
(* or the machine has no memory of publishing and the remote has an index. *)
LockedOut ==
    \/ kind = "cloud" /\ ~knowsHead
    \/ ~HasPublished /\ head # None

(* A mirror follows no index that misses a session of its own.             *)
HasShrunk ==
    mirrorIndex # None /\ head # None /\ ~(Recorded(mirrorIndex) \subseteq Recorded(head))

(* Every archived version of a session ends up in the mirrored index of    *)
(* the other machine, or a later one, unless the machine is locked out     *)
(* from then on, its archive was deleted, a blind publication has taken    *)
(* sessions out of its index, or the bytes of some session were written in *)
(* the tick of those before them.                                          *)
SessionsReachTheMirror ==
    \A p \in Paths : \A v \in 1 .. MaxVersion[p] :
        latest[p] = v ~>
            \/ mirrorIndex # None /\ mirrorIndex[p] # None /\ mirrorIndex[p].version >= v
            \/ copies[p] = None
            \/ HasShrunk
            \/ \E q \in Paths : copies[q] # None /\ Blurred(copies[q])
            \/ []LockedOut
=============================================================================
