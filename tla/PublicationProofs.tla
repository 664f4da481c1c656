------------------------- MODULE PublicationProofs -------------------------
(***************************************************************************)
(* Proofs that the published index names only what was uploaded, and that  *)
(* the index a mirror holds is backed by the files it mirrored: for any    *)
(* sessions, versions, workers, faults and kinds of remote.                *)
(***************************************************************************)
EXTENDS Publication, TLAPS

Copy == [mtime : Nat, version : Nat]
Files == [Paths -> {None} \cup Copy]
Runs == [pc : {"idle", "upload", "index", "saveEtag", "saveRest", "saveIndex", "saveSuccess"},
         outbox : Files, todo : SUBSET Paths, flying : SUBSET Paths, landed : SUBSET Paths,
         silent : SUBSET Paths, failed : BOOLEAN]

Typed ==
    /\ copies \in Files /\ objects \in Files /\ head \in {None} \cup Files
    /\ latest \in [Paths -> Nat] /\ uploaded \in [Paths -> {None} \cup Nat] /\ run \in Runs

(* The archive holds the last version of a session, dated then or before,  *)
(* and the remote no later one.                                            *)
Ordered ==
    \A p \in Paths :
        /\ copies[p] # None => copies[p].mtime <= copies[p].version /\ copies[p].version = latest[p]
        /\ objects[p] # None => objects[p].version <= latest[p]

(* What the ledger of a machine says was uploaded is there.                *)
Ledgered ==
    \A p \in Paths : uploaded[p] # None => objects[p] # None /\ objects[p].version >= uploaded[p]

(* The outbox of a run holds every changed copy as it is in the archive,   *)
(* and what is neither waiting nor flying nor failed has been stored.      *)
Boxed ==
    run.pc # "idle" => \A p \in Paths :
        IF run.outbox[p] = None
        THEN copies[p] = None \/ (uploaded[p] # None /\ copies[p].mtime <= uploaded[p])
        ELSE run.outbox[p] = copies[p]

Carried ==
    /\ run.todo \cup run.flying \cup run.landed \cup run.silent
          \subseteq {p \in Paths : run.outbox[p] # None}
    /\ \A p \in Paths : run.outbox[p] # None =>
          \/ p \in run.todo \cup run.flying
          \/ objects[p] = run.outbox[p]
          \/ run.failed /\ p \notin run.landed \cup run.silent
    /\ \A p \in run.landed \cup run.silent : objects[p] = run.outbox[p]
    /\ run.pc \notin {"idle", "upload"} =>
          ~run.failed /\ run.todo = {} /\ run.flying = {} /\ run.landed = {}
    /\ run.pc = "idle" => run = NoRun

Inv == Typed /\ Ordered /\ Ledgered /\ Boxed /\ Carried /\ IndexNamesUploaded

-----------------------------------------------------------------------------
LEMMA EmptyIsTyped == Empty \in Files /\ NoRun \in Runs
<1>1. Empty \in Files
  BY DEF Empty, Files
<1>. QED
  BY <1>1 DEF NoRun, Runs

LEMMA NoRunCarries == run' = NoRun => Boxed' /\ Carried'
BY DEF NoRun, Boxed, Carried, Empty

LEMMA InvInit == Init => Inv
<1>. SUFFICES ASSUME Init PROVE Inv
  OBVIOUS
<1>1. Typed
  BY EmptyIsTyped DEF Init, Typed, Empty, Files
<1>2. Ordered /\ Ledgered
  BY DEF Init, Ordered, Ledgered, Empty
<1>3. Boxed /\ Carried
  BY DEF Init, NoRun, Boxed, Carried, Empty
<1>. QED
  BY <1>1, <1>2, <1>3 DEF Init, Inv, IndexNamesUploaded

(* A run that only moves between its steps, or ends, disturbs nothing.     *)
LEMMA RunEnds ==
    ASSUME Inv, run' = NoRun, UNCHANGED <<copies, latest, objects, head, uploaded>>
    PROVE  Inv'
<1>1. Typed'
  BY EmptyIsTyped DEF Inv, Typed
<1>2. Ordered' /\ Ledgered' /\ IndexNamesUploaded'
  BY DEF Inv, Ordered, Ledgered, IndexNamesUploaded
<1>. QED
  BY <1>1, <1>2, NoRunCarries DEF Inv

LEMMA RunGoesOn ==
    ASSUME Inv, NEW pc \in {"index", "saveEtag", "saveRest", "saveIndex", "saveSuccess"},
           run.pc # "idle", ~run.failed, run.todo = {}, run.flying = {}, run.landed = {},
           run' = [run EXCEPT !.pc = pc], UNCHANGED <<copies, latest, objects, head, uploaded>>
    PROVE  Inv'
<1>0. run \in Runs
  BY DEF Inv, Typed
<1>1. Typed'
  BY <1>0 DEF Inv, Typed, Runs
<1>2. Ordered' /\ Ledgered' /\ IndexNamesUploaded'
  BY DEF Inv, Ordered, Ledgered, IndexNamesUploaded
<1>3. /\ run'.pc = pc /\ run'.outbox = run.outbox /\ run'.todo = {} /\ run'.flying = {}
      /\ run'.landed = {} /\ run'.silent = run.silent /\ ~run'.failed
  BY <1>0 DEF Runs
<1>4. Boxed'
  BY <1>3 DEF Inv, Boxed
<1>5. Carried'
  BY <1>3 DEF Inv, Carried
<1>. QED
  BY <1>1, <1>2, <1>4, <1>5 DEF Inv

-----------------------------------------------------------------------------
LEMMA StutterKeeps ==
    ASSUME Inv, UNCHANGED <<copies, latest, objects, head, uploaded, run>>
    PROVE  Inv'
BY DEF Inv, Typed, Ordered, Ledgered, Boxed, Carried, IndexNamesUploaded

LEMMA ArchiveKeeps ==
    ASSUME Inv, NEW p \in Paths, Archive(p)
    PROVE  Inv'
<1>0. run = NoRun /\ run' = NoRun
  BY DEF Archive, Idle, Inv, Carried
<1>1. copies \in Files /\ latest \in [Paths -> Nat]
  BY DEF Inv, Typed
<1>2. PICK t \in {latest[p] + 1} \cup (IF copies[p] = None THEN {} ELSE {copies[p].mtime}) :
        copies' = [copies EXCEPT ![p] = [mtime |-> t, version |-> latest[p] + 1]]
  BY DEF Archive
<1>3. latest' = [latest EXCEPT ![p] = @ + 1]
  BY DEF Archive
<1>4. t \in Nat /\ t <= latest[p] + 1
  <2>1. CASE copies[p] = None
    BY <1>1, <1>2, <2>1
  <2>2. CASE copies[p] # None
    <3>1. copies[p] \in Copy /\ copies[p].mtime <= copies[p].version /\ copies[p].version = latest[p]
      BY <1>1, <2>2 DEF Inv, Ordered, Files
    <3>. QED
      BY <1>1, <1>2, <2>2, <3>1 DEF Copy
  <2>. QED
    BY <2>1, <2>2
<1>5. [mtime |-> t, version |-> latest[p] + 1] \in Copy
  BY <1>1, <1>4 DEF Copy
<1>6. Typed'
  <2>1. copies' \in Files
    BY <1>1, <1>2, <1>5 DEF Files
  <2>2. latest' \in [Paths -> Nat]
    BY <1>1, <1>3
  <2>. QED
    BY <2>1, <2>2, <1>0, EmptyIsTyped DEF Inv, Typed, Archive, remote, state
<1>7. Ordered'
  <2>. SUFFICES ASSUME NEW q \in Paths
                PROVE  /\ copies'[q] # None => copies'[q].mtime <= copies'[q].version /\ copies'[q].version = latest'[q]
                       /\ objects'[q] # None => objects'[q].version <= latest'[q]
    BY DEF Ordered
  <2>1. objects' = objects /\ (objects[q] # None => objects[q].version <= latest[q] /\ objects[q].version \in Nat)
    BY DEF Archive, remote, Inv, Typed, Ordered, Files, Copy
  <2>2. objects'[q] # None => objects'[q].version <= latest'[q]
    BY <1>1, <1>3, <2>1
  <2>3. CASE q = p
    BY <1>1, <1>2, <1>3, <1>4, <2>2, <2>3 DEF Files
  <2>4. CASE q # p
    <3>1. copies'[q] = copies[q] /\ latest'[q] = latest[q]
      BY <1>1, <1>2, <1>3, <2>4 DEF Files
    <3>. QED
      BY <2>2, <3>1 DEF Inv, Ordered
  <2>. QED
    BY <2>3, <2>4
<1>8. Ledgered' /\ IndexNamesUploaded'
  BY DEF Archive, remote, state, Inv, Ledgered, IndexNamesUploaded
<1>. QED
  BY <1>0, <1>6, <1>7, <1>8, NoRunCarries DEF Inv

LEMMA ReinstallKeeps ==
    ASSUME Inv, Reinstall
    PROVE  Inv'
<1>0. run' = NoRun
  BY DEF Reinstall, Idle, Inv, Carried
<1>1. Typed'
  BY <1>0, EmptyIsTyped DEF Reinstall, remote, Inv, Typed, Empty
<1>2. Ordered' /\ Ledgered' /\ IndexNamesUploaded'
  BY DEF Reinstall, remote, Empty, Inv, Ordered, Ledgered, IndexNamesUploaded
<1>. QED
  BY <1>0, <1>1, <1>2, NoRunCarries DEF Inv

LEMMA StartKeeps ==
    ASSUME Inv, Start
    PROVE  Inv'
<1>. DEFINE changed == {p \in Paths : Changed(p)}
            box == [p \in Paths |-> IF p \in changed THEN copies[p] ELSE None]
<1>1. run' = [NoRun EXCEPT !.pc = IF changed = {} THEN "index" ELSE "upload",
                           !.todo = changed, !.outbox = box]
  BY DEF Start
<1>2. /\ run'.pc = (IF changed = {} THEN "index" ELSE "upload") /\ run'.outbox = box
      /\ run'.todo = changed /\ run'.flying = {} /\ run'.landed = {} /\ run'.silent = {}
      /\ run'.failed = FALSE
  BY <1>1 DEF NoRun
<1>3. copies \in Files /\ uploaded \in [Paths -> {None} \cup Nat]
  BY DEF Inv, Typed
<1>4. box \in Files
  BY <1>3 DEF Files
<1>5. UNCHANGED <<copies, latest, objects, head, uploaded>>
  BY DEF Start, remote, state
<1>6. Typed'
  <2>1. run' \in Runs
    BY <1>1, <1>4 DEF NoRun, Runs
  <2>. QED
    BY <1>5, <2>1 DEF Inv, Typed
<1>7. Ordered' /\ Ledgered' /\ IndexNamesUploaded'
  BY <1>5 DEF Inv, Ordered, Ledgered, IndexNamesUploaded
<1>8. \A p \in Paths : box[p] # None => p \in changed /\ box[p] = copies[p]
  OBVIOUS
<1>9. Boxed'
  <2>. SUFFICES ASSUME NEW p \in Paths
                PROVE  IF box[p] = None
                       THEN copies[p] = None \/ (uploaded[p] # None /\ copies[p].mtime <= uploaded[p])
                       ELSE box[p] = copies[p]
    BY <1>2, <1>5 DEF Boxed
  <2>1. CASE p \in changed
    BY <2>1 DEF Changed
  <2>2. CASE p \notin changed /\ copies[p] # None
    <3>1. uploaded[p] # None /\ ~(copies[p].mtime > uploaded[p])
      BY <2>2 DEF Changed
    <3>2. uploaded[p] \in Nat /\ copies[p].mtime \in Nat
      BY <1>3, <2>2, <3>1 DEF Files, Copy
    <3>. QED
      BY <2>2, <3>1, <3>2
  <2>3. CASE p \notin changed /\ copies[p] = None
    BY <2>3
  <2>. QED
    BY <2>1, <2>2, <2>3
<1>10. \A p \in changed : box[p] # None
  BY DEF Changed
<1>11. Carried'
  BY <1>2, <1>8, <1>10 DEF Carried
<1>. QED
  BY <1>6, <1>7, <1>9, <1>11 DEF Inv

-----------------------------------------------------------------------------
(* A run that has work, or has stored something, is uploading.             *)
LEMMA Uploading ==
    ASSUME Inv, NEW p \in run.todo \cup run.flying \cup run.landed
    PROVE  /\ run.pc = "upload" /\ p \in Paths
           /\ run.outbox[p] # None /\ run.outbox[p] = copies[p] /\ copies[p] \in Copy
<1>1. run.pc # "idle"
  BY DEF Inv, Carried, NoRun
<1>2. run.pc = "upload"
  BY <1>1 DEF Inv, Carried
<1>3. p \in Paths /\ run.outbox[p] # None
  BY DEF Inv, Carried
<1>4. run.outbox[p] = copies[p]
  BY <1>1, <1>3 DEF Inv, Boxed
<1>. QED
  BY <1>2, <1>3, <1>4 DEF Inv, Typed, Files

(* The steps of the workers touch neither the archive nor the outbox.      *)
LEMMA WorkerKeeps ==
    ASSUME Inv, run' \in Runs, objects' \in Files,
           copies' = copies, latest' = latest, uploaded' = uploaded, head' = head,
           run.pc = "upload", run'.pc = "upload", run'.outbox = run.outbox,
           \A p \in Paths : objects'[p] = objects[p]
                             \/ (run.outbox[p] # None /\ objects'[p] = run.outbox[p]),
           Carried'
    PROVE  Inv'
<1>1. Typed' /\ Boxed'
  BY DEF Inv, Typed, Boxed
<1>2. \A p \in Paths : objects'[p] # objects[p] =>
         /\ objects'[p] # None /\ objects'[p].version = latest[p] /\ latest[p] \in Nat
         /\ objects'[p].mtime <= objects'[p].version
         /\ objects[p] # None => objects[p].version <= latest[p] /\ objects[p].version \in Nat
  BY DEF Inv, Boxed, Ordered, Typed, Files, Copy
<1>3. \A p \in Paths : objects[p] # None =>
         objects'[p] # None /\ objects'[p].version >= objects[p].version
         /\ objects'[p].version \in Nat /\ objects[p].version \in Nat
  BY <1>2 DEF Inv, Typed, Files, Copy
<1>4. Ordered'
  <2>. SUFFICES ASSUME NEW p \in Paths
                PROVE  objects'[p] # None => objects'[p].version <= latest[p]
    BY DEF Inv, Ordered
  <2>. QED
    BY <1>2 DEF Inv, Ordered
<1>5. Ledgered'
  <2>. SUFFICES ASSUME NEW p \in Paths, uploaded[p] # None
                PROVE  objects'[p] # None /\ objects'[p].version >= uploaded[p]
    BY DEF Ledgered
  <2>1. uploaded[p] \in Nat /\ objects[p] # None /\ objects[p].version >= uploaded[p]
    BY DEF Inv, Typed, Ledgered
  <2>. QED
    BY <1>3, <2>1
<1>6. IndexNamesUploaded'
  <2>. SUFFICES ASSUME NEW p \in Paths, head # None, head[p] # None
                PROVE  objects'[p] # None /\ (objects'[p].version >= head[p].version \/ Blurred(head[p]))
    BY DEF IndexNamesUploaded, Blurred
  <2>1. objects[p] # None /\ (objects[p].version >= head[p].version \/ Blurred(head[p]))
    BY DEF Inv, IndexNamesUploaded
  <2>2. head[p].version \in Nat
    BY DEF Inv, Typed, Files, Copy
  <2>. QED
    BY <1>3, <2>1, <2>2
<1>. QED
  BY <1>1, <1>4, <1>5, <1>6 DEF Inv

LEMMA TakeKeeps ==
    ASSUME Inv, NEW p \in Paths, Take(p)
    PROVE  Inv'
<1>0. run \in Runs /\ objects \in Files /\ run.pc = "upload"
  BY Uploading DEF Inv, Typed, Take
<1>1. UNCHANGED <<copies, latest, uploaded, objects, head>>
  BY DEF Take, archive, remote, state
<1>2. /\ run'.pc = run.pc /\ run'.outbox = run.outbox
      /\ run'.todo = run.todo \ {p} /\ run'.flying = run.flying \cup {p}
      /\ run'.landed = run.landed /\ run'.silent = run.silent /\ run'.failed = run.failed
      /\ run' \in Runs /\ p \in run.todo
  BY <1>0 DEF Take, Runs
<1>3. Carried'
  BY <1>0, <1>1, <1>2 DEF Inv, Carried
<1>. QED
  BY <1>0, <1>1, <1>2, <1>3, WorkerKeeps

LEMMA LandKeeps ==
    ASSUME Inv, NEW p \in Paths, Land(p)
    PROVE  Inv'
<1>0. /\ run \in Runs /\ objects \in Files /\ run.pc = "upload"
      /\ run.outbox[p] \in Copy /\ run.outbox[p] # None
  BY Uploading DEF Inv, Typed, Land
<1>1. UNCHANGED <<copies, latest, uploaded, head>>
  BY DEF Land, archive, state
<1>2. /\ run'.pc = run.pc /\ run'.outbox = run.outbox
      /\ run'.todo = run.todo /\ run'.flying = run.flying \ {p}
      /\ run'.landed = run.landed \cup {p} /\ run'.silent = run.silent /\ run'.failed = run.failed
      /\ run' \in Runs /\ p \in run.flying
  BY <1>0 DEF Land, Runs
<1>3. /\ objects' \in Files
      /\ \A q \in Paths : objects'[q] = IF q = p THEN run.outbox[p] ELSE objects[q]
  BY <1>0 DEF Land, Files
<1>4. Carried'
  BY <1>0, <1>2, <1>3 DEF Inv, Carried
<1>. QED
  BY <1>0, <1>1, <1>2, <1>3, <1>4, WorkerKeeps

LEMMA UnreportedKeeps ==
    ASSUME Inv, NEW p \in Paths, Unreported(p)
    PROVE  Inv'
<1>0. run \in Runs /\ objects \in Files /\ run.pc = "upload"
  BY Uploading DEF Inv, Typed, Unreported
<1>1. UNCHANGED <<copies, latest, uploaded, objects, head>>
  BY DEF Unreported, archive, remote, state
<1>2. /\ run'.pc = run.pc /\ run'.outbox = run.outbox
      /\ run'.todo = run.todo /\ run'.flying = run.flying
      /\ run'.landed = run.landed \ {p} /\ run'.silent = run.silent \cup {p}
      /\ run'.failed = run.failed /\ run' \in Runs /\ p \in run.landed
  BY <1>0 DEF Unreported, Runs
<1>3. Carried'
  BY <1>0, <1>1, <1>2 DEF Inv, Carried
<1>. QED
  BY <1>0, <1>1, <1>2, <1>3, WorkerKeeps

LEMMA FailUploadKeeps ==
    ASSUME Inv, NEW p \in Paths, FailUpload(p)
    PROVE  Inv'
<1>0. run \in Runs /\ objects \in Files /\ run.pc = "upload"
  BY Uploading DEF Inv, Typed, FailUpload
<1>1. UNCHANGED <<copies, latest, uploaded, objects, head>>
  BY DEF FailUpload, archive, remote, state
<1>2. /\ run'.pc = run.pc /\ run'.outbox = run.outbox
      /\ run'.todo = run.todo /\ run'.flying = run.flying \ {p}
      /\ run'.landed = run.landed \ {p} /\ run'.silent = run.silent
      /\ run'.failed = TRUE /\ run' \in Runs
  BY <1>0 DEF FailUpload, Runs
<1>3. Carried'
  BY <1>0, <1>1, <1>2 DEF Inv, Carried
<1>. QED
  BY <1>0, <1>1, <1>2, <1>3, WorkerKeeps

(* A checkpoint enters the date of a copy that is stored.                  *)
LEMMA Entered ==
    ASSUME Inv, NEW p \in Paths, run.pc # "idle", run.outbox[p] # None, objects[p] = run.outbox[p]
    PROVE  run.outbox[p].mtime \in Nat /\ objects[p] # None
           /\ objects[p].version >= run.outbox[p].mtime
<1>1. run.outbox[p] = copies[p] /\ copies[p] \in Copy
  BY DEF Inv, Boxed, Typed, Files
<1>2. copies[p].mtime <= copies[p].version
  BY <1>1 DEF Inv, Ordered
<1>. QED
  BY <1>1, <1>2 DEF Copy

LEMMA CheckpointKeeps ==
    ASSUME Inv, NEW p \in Paths, Checkpoint(p)
    PROVE  Inv'
<1>0. run \in Runs /\ run.pc = "upload" /\ run.outbox[p] # None
  BY Uploading DEF Inv, Typed, Checkpoint
<1>1. UNCHANGED <<copies, latest, objects, head>>
  BY DEF Checkpoint, archive, remote
<1>2. /\ run'.pc = run.pc /\ run'.outbox = run.outbox
      /\ run'.todo = run.todo /\ run'.flying = run.flying
      /\ run'.landed = run.landed \ {p} /\ run'.silent = run.silent
      /\ run'.failed = run.failed /\ run' \in Runs /\ p \in run.landed
  BY <1>0 DEF Checkpoint, Runs
<1>3. objects[p] = run.outbox[p]
  BY <1>2 DEF Inv, Carried
<1>4. run.outbox[p].mtime \in Nat /\ objects[p] # None /\ objects[p].version >= run.outbox[p].mtime
  BY <1>0, <1>3, Entered
<1>5. /\ uploaded' \in [Paths -> {None} \cup Nat]
      /\ \A q \in Paths : uploaded'[q] = IF q = p THEN run.outbox[p].mtime ELSE uploaded[q]
  BY <1>4 DEF Checkpoint, Inv, Typed
<1>6. Typed'
  BY <1>1, <1>2, <1>5 DEF Inv, Typed
<1>7. Ordered' /\ IndexNamesUploaded' /\ Carried'
  BY <1>0, <1>1, <1>2 DEF Inv, Ordered, IndexNamesUploaded, Carried
<1>8. Ledgered'
  BY <1>1, <1>4, <1>5 DEF Inv, Ledgered
<1>9. Boxed'
  BY <1>0, <1>1, <1>2, <1>5 DEF Inv, Boxed
<1>. QED
  BY <1>6, <1>7, <1>8, <1>9 DEF Inv

LEMMA SaveRestKeeps ==
    ASSUME Inv, SaveRest
    PROVE  Inv'
<1>0. run \in Runs /\ run.pc = "saveRest"
  BY DEF SaveRest, Inv, Typed
<1>1. UNCHANGED <<copies, latest, objects, head>>
  BY DEF SaveRest, archive, remote
<1>2. /\ run'.pc = "saveIndex" /\ run'.outbox = run.outbox
      /\ run'.todo = run.todo /\ run'.flying = run.flying
      /\ run'.landed = run.landed /\ run'.silent = run.silent
      /\ run'.failed = run.failed /\ run' \in Runs
  BY <1>0 DEF SaveRest, Runs
<1>3. \A p \in run.silent : p \in Paths /\ run.outbox[p] # None /\ objects[p] = run.outbox[p]
  BY DEF Inv, Carried
<1>4. \A p \in run.silent : /\ run.outbox[p].mtime \in Nat /\ objects[p] # None
                             /\ objects[p].version >= run.outbox[p].mtime
  BY <1>0, <1>3, Entered
<1>5. \A p \in Paths : uploaded'[p] = IF p \in run.silent THEN run.outbox[p].mtime ELSE uploaded[p]
  BY DEF SaveRest
<1>6. Typed'
  <2>1. uploaded' \in [Paths -> {None} \cup Nat]
    BY <1>4 DEF SaveRest, Inv, Typed
  <2>. QED
    BY <1>1, <1>2, <2>1 DEF Inv, Typed
<1>7. Ordered' /\ IndexNamesUploaded' /\ Carried'
  BY <1>0, <1>1, <1>2 DEF Inv, Ordered, IndexNamesUploaded, Carried
<1>8. Ledgered'
  BY <1>1, <1>4, <1>5 DEF Inv, Ledgered
<1>9. Boxed'
  BY <1>0, <1>1, <1>2, <1>3, <1>5 DEF Inv, Boxed
<1>. QED
  BY <1>6, <1>7, <1>8, <1>9 DEF Inv

LEMMA UploadsEndKeeps ==
    ASSUME Inv, UploadsEnd
    PROVE  Inv'
<1>0. run.pc = "upload" /\ run.flying = {} /\ run.landed = {} /\ (run.todo = {} \/ run.failed)
  BY DEF UploadsEnd, UploadsOver, GoesOn
<1>1. UNCHANGED <<copies, latest, objects, head, uploaded>>
  BY DEF UploadsEnd, archive, remote, state
<1>2. CASE run.failed
  <2>1. run' = NoRun
    BY <1>2 DEF UploadsEnd
  <2>. QED
    BY <1>1, <2>1, RunEnds
<1>3. CASE ~run.failed
  <2>1. run' = [run EXCEPT !.pc = "index"] /\ run.todo = {}
    BY <1>0, <1>3 DEF UploadsEnd
  <2>2. run.pc # "idle" /\ "index" \in {"index", "saveEtag", "saveRest", "saveIndex", "saveSuccess"}
    BY <1>0
  <2>. QED
    BY <1>0, <1>1, <1>3, <2>1, <2>2, RunGoesOn
<1>. QED
  BY <1>2, <1>3

(* After the uploads only the step of the run changes, but for the index.  *)
LEMMA Publishing ==
    ASSUME Inv, run.pc \notin {"idle", "upload"}
    PROVE  run.pc # "idle" /\ ~run.failed /\ run.todo = {} /\ run.flying = {} /\ run.landed = {}
BY DEF Inv, Carried

LEMMA IndexUnchangedKeeps ==
    ASSUME Inv, IndexUnchanged
    PROVE  Inv'
<1>1. run' = [run EXCEPT !.pc = "saveRest"] /\ run.pc \notin {"idle", "upload"}
      /\ "saveRest" \in {"index", "saveEtag", "saveRest", "saveIndex", "saveSuccess"}
      /\ UNCHANGED <<copies, latest, objects, head, uploaded>>
  BY DEF IndexUnchanged, archive, remote, state
<1>. QED
  BY <1>1, Publishing, RunGoesOn

LEMMA SaveEtagKeeps ==
    ASSUME Inv, SaveEtag
    PROVE  Inv'
<1>1. run' = [run EXCEPT !.pc = "saveRest"] /\ run.pc \notin {"idle", "upload"}
      /\ "saveRest" \in {"index", "saveEtag", "saveRest", "saveIndex", "saveSuccess"}
      /\ UNCHANGED <<copies, latest, objects, head, uploaded>>
  BY DEF SaveEtag, archive, remote
<1>. QED
  BY <1>1, Publishing, RunGoesOn

LEMMA SaveIndexKeeps ==
    ASSUME Inv, SaveIndex
    PROVE  Inv'
<1>1. run' = [run EXCEPT !.pc = "saveSuccess"] /\ run.pc \notin {"idle", "upload"}
      /\ "saveSuccess" \in {"index", "saveEtag", "saveRest", "saveIndex", "saveSuccess"}
      /\ UNCHANGED <<copies, latest, objects, head, uploaded>>
  BY DEF SaveIndex, archive, remote
<1>. QED
  BY <1>1, Publishing, RunGoesOn

LEMMA EndsKeep ==
    ASSUME Inv, FailIndex \/ SaveSuccess \/ Kill
    PROVE  Inv'
<1>1. run' = NoRun /\ UNCHANGED <<copies, latest, objects, head, uploaded>>
  BY DEF FailIndex, SaveSuccess, Kill, archive, remote, state
<1>. QED
  BY <1>1, RunEnds

(* The heart of the matter: once the uploads are over, every copy that the *)
(* archive records is stored, in its bytes or, when the ledger says its    *)
(* date was uploaded, in newer ones or in others of the same tick.         *)
LEMMA AllIsStored ==
    ASSUME Inv, run.pc = "index", NEW p \in Paths, copies[p] # None
    PROVE  objects[p] # None /\ (objects[p].version >= copies[p].version \/ Blurred(copies[p]))
<1>1. copies[p] \in Copy /\ copies[p].mtime <= copies[p].version
  BY DEF Inv, Typed, Files, Ordered
<1>2. CASE run.outbox[p] = None
  <2>1. uploaded[p] # None /\ copies[p].mtime <= uploaded[p]
    BY <1>2 DEF Inv, Boxed
  <2>2. objects[p] # None /\ objects[p].version >= uploaded[p] /\ uploaded[p] \in Nat
    BY <2>1 DEF Inv, Ledgered, Typed
  <2>3. objects[p].version \in Nat
    BY <2>2 DEF Inv, Typed, Files, Copy
  <2>. QED
    BY <1>1, <2>1, <2>2, <2>3 DEF Blurred, Copy
<1>3. CASE run.outbox[p] # None
  <2>1. run.outbox[p] = copies[p]
    BY <1>3 DEF Inv, Boxed
  <2>2. objects[p] = run.outbox[p]
    BY <1>3, Publishing DEF Inv, Carried
  <2>. QED
    BY <1>1, <1>3, <2>1, <2>2 DEF Copy
<1>. QED
  BY <1>2, <1>3

LEMMA PutIndexKeeps ==
    ASSUME Inv, PutIndex
    PROVE  Inv'
<1>0. run.pc = "index" /\ run \in Runs /\ head' = copies
      /\ copies' = copies /\ latest' = latest /\ objects' = objects /\ uploaded' = uploaded
  BY DEF PutIndex, Inv, Typed, archive
<1>1. Ordered' /\ Ledgered'
  BY <1>0 DEF Inv, Ordered, Ledgered
<1>2. IndexNamesUploaded'
  <2>. SUFFICES ASSUME NEW p \in Paths, copies[p] # None
                PROVE  objects[p] # None /\ (objects[p].version >= copies[p].version \/ Blurred(copies[p]))
    BY <1>0 DEF IndexNamesUploaded, Blurred
  <2>. QED
    BY <1>0, AllIsStored
<1>3. CASE run' = NoRun
  <2>1. Typed'
    BY <1>0, <1>3, EmptyIsTyped DEF Inv, Typed
  <2>. QED
    BY <1>1, <1>2, <1>3, <2>1, NoRunCarries DEF Inv
<1>4. CASE run' = [run EXCEPT !.pc = IF kind = "cloud" THEN "saveEtag" ELSE "saveRest"]
  <2>1. /\ run'.pc \in {"saveEtag", "saveRest"} /\ run'.outbox = run.outbox /\ run'.todo = run.todo
        /\ run'.flying = run.flying /\ run'.landed = run.landed /\ run'.silent = run.silent
        /\ run'.failed = run.failed /\ run' \in Runs
    BY <1>0, <1>4 DEF Runs
  <2>2. Typed'
    BY <1>0, <2>1 DEF Inv, Typed
  <2>3. Boxed'
    BY <1>0, <2>1 DEF Inv, Boxed
  <2>4. Carried'
    BY <1>0, <2>1, Publishing DEF Inv, Carried
  <2>. QED
    BY <1>1, <1>2, <2>2, <2>3, <2>4 DEF Inv
<1>. QED
  BY <1>3, <1>4 DEF PutIndex

-----------------------------------------------------------------------------
LEMMA InvNext == Inv /\ [Next]_vars => Inv'
<1>. SUFFICES ASSUME Inv, [Next]_vars PROVE Inv'
  OBVIOUS
<1>1. CASE Reinstall
  BY <1>1, ReinstallKeeps
<1>2. CASE Publish
  <2>1. CASE Start
    BY <2>1, StartKeeps
  <2>2. CASE \E p \in Paths : Take(p) \/ Land(p) \/ Checkpoint(p)
    BY <2>2, TakeKeeps, LandKeeps, CheckpointKeeps
  <2>3. CASE UploadsEnd \/ IndexUnchanged \/ PutIndex
    BY <2>3, UploadsEndKeeps, IndexUnchangedKeeps, PutIndexKeeps
  <2>4. CASE SaveEtag \/ SaveRest \/ SaveIndex
    BY <2>4, SaveEtagKeeps, SaveRestKeeps, SaveIndexKeeps
  <2>5. CASE FailIndex \/ SaveSuccess
    BY <2>5, EndsKeep
  <2>. QED
    BY <1>2, <2>1, <2>2, <2>3, <2>4, <2>5 DEF Publish
<1>3. CASE Kill
  BY <1>3, EndsKeep
<1>4. CASE MirrorMachine \/ KillMirror \/ \E p \in Paths : FailPull(p)
  <2>1. UNCHANGED <<copies, latest, objects, head, uploaded, run>>
    BY <1>4 DEF MirrorMachine, GetIndex, ListPage, ReplaceIndex, Keep, Pull, KillMirror, FailPull,
                archive, remote, state
  <2>. QED
    BY <2>1, StutterKeeps
<1>5. CASE \E p \in Paths : Archive(p) \/ Unreported(p) \/ FailUpload(p)
  BY <1>5, ArchiveKeeps, UnreportedKeeps, FailUploadKeeps
<1>6. CASE UNCHANGED vars
  <2>1. UNCHANGED <<copies, latest, objects, head, uploaded, run>>
    BY <1>6 DEF vars, archive, remote, state
  <2>. QED
    BY <2>1, StutterKeeps
<1>. QED
  BY <1>1, <1>2, <1>3, <1>4, <1>5, <1>6 DEF Next

(* The published index names only what was uploaded (outbox.ts:181), in    *)
(* every order of the workers' steps and whatever fails or is killed.      *)
THEOREM IndexIsBacked == Spec => []IndexNamesUploaded
<1>1. Spec => []Inv
  BY InvInit, InvNext, PTL DEF Spec
<1>2. Inv => IndexNamesUploaded
  BY DEF Inv
<1>. QED
  BY <1>1, <1>2, PTL

-----------------------------------------------------------------------------
(* An installation that publishes, or remembers having published, has      *)
(* every session of the published index in its archive.                    *)
Owned ==
    ~blinded /\ (HasPublished \/ ~Idle) /\ head # None => Recorded(head) \subseteq Recorded(copies)

LEMMA ArchiveOwns ==
    ASSUME Inv, Owned, NEW p \in Paths, Archive(p)
    PROVE  Owned'
<1>1. UNCHANGED <<blinded, head, uploaded, savedIndex, succeeded, run>>
  BY DEF Archive, remote, state
<1>2. copies \in Files /\ latest[p] \in Nat
  BY DEF Inv, Typed
<1>3. PICK t \in {latest[p] + 1} \cup (IF copies[p] = None THEN {} ELSE {copies[p].mtime}) :
        copies' = [copies EXCEPT ![p] = [mtime |-> t, version |-> latest[p] + 1]]
  BY DEF Archive
<1>4. t \in Nat
  <2>1. copies[p] # None => copies[p] \in Copy
    BY <1>2 DEF Files
  <2>. QED
    BY <1>2, <1>3, <2>1 DEF Copy
<1>6. [mtime |-> t, version |-> latest[p] + 1] # None
  <2>. DEFINE written == [mtime |-> t, version |-> latest[p] + 1]
  <2>1. written \in [mtime : Nat \cup {Now}, version : Nat]
    BY <1>2, <1>4
  <2>. QED
    BY <2>1, NoneAssumption
<1>7. Recorded(copies) \subseteq Recorded(copies')
  BY <1>2, <1>3, <1>6 DEF Recorded, Files
<1>. QED
  BY <1>1, <1>7 DEF Owned, HasPublished, Idle, Recorded

LEMMA StartOwns ==
    ASSUME Inv, Owned, Start
    PROVE  Owned'
<1>1. PICK seen, blind \in BOOLEAN :
        SeesIndex(seen, blind) /\ MayPublish(seen) /\ blinded' = (blinded \/ blind)
  BY DEF Start
<1>2. UNCHANGED <<copies, head>>
  BY DEF Start, remote
<1>3. CASE HasPublished
  BY <1>1, <1>2, <1>3 DEF Owned, Recorded
<1>4. CASE ~HasPublished /\ ~blind
  BY <1>1, <1>2, <1>4 DEF Owned, SeesIndex, MayPublish
<1>5. CASE blind
  BY <1>1, <1>5 DEF Owned
<1>. QED
  BY <1>3, <1>4, <1>5

LEMMA PublishOwns ==
    ASSUME Inv, Owned, UNCHANGED <<copies, blinded>>, ~Idle, UNCHANGED head \/ head' = copies
    PROVE  Owned'
BY DEF Owned, Recorded

LEMMA Working ==
    ASSUME Inv, NEW p \in Paths,
           Take(p) \/ Land(p) \/ Checkpoint(p) \/ Unreported(p) \/ FailUpload(p)
    PROVE  ~Idle /\ UNCHANGED <<copies, blinded, head>>
<1>1. p \in run.todo \cup run.flying \cup run.landed
  BY DEF Take, Land, Checkpoint, Unreported, FailUpload
<1>2. run.pc = "upload"
  BY <1>1, Uploading
<1>. QED
  BY <1>2 DEF Idle, Take, Land, Checkpoint, Unreported, FailUpload, archive, remote

LEMMA Mirroring ==
    ASSUME MirrorMachine \/ KillMirror \/ \E p \in Paths : FailPull(p)
    PROVE  UNCHANGED <<copies, blinded, head, uploaded, savedIndex, succeeded, run>>
BY DEF MirrorMachine, GetIndex, ListPage, ReplaceIndex, Keep, Pull, KillMirror, FailPull,
       archive, remote, state

(* Only PutIndex writes the index.                                         *)
LEMMA OwnedNext == Inv /\ Owned /\ [Next]_vars =>
    /\ Owned'
    /\ head # None /\ ~blinded => Recorded(head) \subseteq Recorded(head')
<1>. SUFFICES ASSUME Inv, Owned, [Next]_vars
              PROVE  /\ Owned'
                     /\ head # None /\ ~blinded => Recorded(head) \subseteq Recorded(head')
  OBVIOUS
<1>1. CASE Reinstall
  <2>1. ~HasPublished'
    BY <1>1 DEF Reinstall, HasPublished, Empty
  <2>2. Idle' /\ head' = head
    BY <1>1 DEF Reinstall, Idle, remote
  <2>. QED
    BY <2>1, <2>2 DEF Owned, Recorded
<1>2. CASE Start
  <2>1. head' = head
    BY <1>2 DEF Start, remote
  <2>. QED
    BY <1>2, <2>1, StartOwns DEF Recorded
<1>3. CASE PutIndex
  <2>1. head' = copies /\ UNCHANGED <<copies, blinded>> /\ ~Idle
    BY <1>3 DEF PutIndex, Idle, archive
  <2>2. Owned'
    BY <2>1, PublishOwns
  <2>3. head # None /\ ~blinded => Recorded(head) \subseteq Recorded(copies)
    BY <2>1 DEF Owned
  <2>. QED
    BY <2>1, <2>2, <2>3
<1>4. CASE \/ UploadsEnd \/ IndexUnchanged \/ FailIndex \/ Kill
           \/ SaveEtag \/ SaveRest \/ SaveIndex \/ SaveSuccess
           \/ \E p \in Paths : Take(p) \/ Land(p) \/ Checkpoint(p) \/ Unreported(p) \/ FailUpload(p)
  <2>1. ~Idle /\ UNCHANGED <<copies, blinded, head>>
    <3>1. CASE \E p \in Paths : Take(p) \/ Land(p) \/ Checkpoint(p) \/ Unreported(p) \/ FailUpload(p)
      BY <3>1, Working
    <3>2. CASE UploadsEnd \/ IndexUnchanged \/ FailIndex
      BY <3>2 DEF Idle, UploadsEnd, UploadsOver, IndexUnchanged, FailIndex, archive, remote
    <3>3. CASE SaveEtag \/ SaveRest \/ SaveIndex \/ SaveSuccess \/ Kill
      BY <3>3 DEF Idle, SaveEtag, SaveRest, SaveIndex, SaveSuccess, Kill, archive, remote
    <3>. QED
      BY <1>4, <3>1, <3>2, <3>3
  <2>2. Owned'
    BY <2>1, PublishOwns
  <2>. QED
    BY <2>1, <2>2 DEF Recorded
<1>5. CASE \E p \in Paths : Archive(p)
  <2>1. head' = head
    BY <1>5 DEF Archive, remote
  <2>. QED
    BY <1>5, <2>1, ArchiveOwns DEF Recorded
<1>6. CASE \/ MirrorMachine \/ KillMirror \/ (\E p \in Paths : FailPull(p))
           \/ UNCHANGED vars
  <2>1. UNCHANGED <<copies, blinded, head, uploaded, savedIndex, succeeded, run>>
    BY <1>6, Mirroring DEF vars, archive, remote, state
  <2>. QED
    BY <2>1 DEF Owned, HasPublished, Idle, Recorded
<1>. QED
  BY <1>1, <1>2, <1>3, <1>4, <1>5, <1>6 DEF Next, Publish

(* No publication takes a session out of the published index (outbox.ts:   *)
(* 193), unless rclone failed to look; with any number of failures, kills  *)
(* and reinstallations.                                                    *)
THEOREM PublicationKeeps == Spec => PublishedIsKept
<1>1. Init => Owned
  BY DEF Init, Owned
<1>2. Spec => [](Inv /\ Owned)
  BY <1>1, InvInit, InvNext, OwnedNext, PTL DEF Spec
<1>3. Inv /\ Owned /\ [Next]_vars =>
        [head # None /\ ~blinded => Recorded(head) \subseteq Recorded(head')]_vars
  BY OwnedNext
<1>. QED
  BY <1>2, <1>3, PTL DEF Spec, PublishedIsKept

-----------------------------------------------------------------------------
(* The mirror: its copies, the index it keeps of them, and the run that    *)
(* pulls them.                                                             *)
Mirrors == [Paths -> {None} \cup [mtime : Nat \cup {Now}, version : Nat]]
Pulls == [pc : {"idle", "list", "pull"}, index : Files, unlisted : SUBSET Paths,
          pending : SUBSET Paths, verified : SUBSET Paths, errors : BOOLEAN]

MirrorTyped ==
    /\ mirror \in Mirrors /\ mirrorIndex \in {None} \cup Files /\ pull \in Pulls
    /\ pull.pc = "list" => pull.unlisted # {}

(* No index dates a copy after its bytes.                                  *)
Dates(i) == \A p \in Paths : i[p] # None => i[p].mtime <= i[p].version

(* The mirror is behind the remote, and its dates behind its bytes.        *)
Behind ==
    \A p \in Paths : mirror[p] # None =>
        /\ objects[p] # None /\ mirror[p].version <= objects[p].version
        /\ mirror[p].mtime # Now => mirror[p].mtime <= mirror[p].version

(* What MirrorIsBacked asks of a record, asked of an index.                *)
Backs(i, paths) ==
    \A p \in paths : i[p] # None =>
        mirror[p] # None /\ (mirror[p].version >= i[p].version \/ Blurred(i[p]))

(* A run has looked at the files it has verified, and the objects it has   *)
(* listed are there.                                                       *)
Pulled ==
    /\ Dates(pull.index) /\ Backs(pull.index, pull.verified)
    /\ \A p \in pull.pending : objects[p] # None

MirrorInv == MirrorTyped /\ Behind /\ (head # None => Dates(head)) /\ Pulled /\ MirrorIsBacked

LEMMA NoPullIsTyped == NoPull \in Pulls /\ Dates(NoPull.index) /\ NoPull.verified = {} /\ NoPull.pending = {}
BY EmptyIsTyped DEF NoPull, Pulls, Dates, Empty

LEMMA MirrorInit == Init => MirrorInv
<1>. SUFFICES ASSUME Init PROVE MirrorInv
  OBVIOUS
<1>1. MirrorTyped
  BY NoPullIsTyped DEF Init, MirrorTyped, Mirrors, Empty, NoPull
<1>2. Behind /\ MirrorIsBacked /\ head = None
  BY DEF Init, Behind, MirrorIsBacked, Empty
<1>3. Pulled
  BY NoPullIsTyped DEF Init, Pulled, Backs
<1>. QED
  BY <1>1, <1>2, <1>3 DEF MirrorInv

(* Under any step the remote's copies only get newer.                      *)
LEMMA ObjectsGrow ==
    ASSUME Inv, [Next]_vars, NEW p \in Paths, objects[p] # None
    PROVE  objects'[p] # None /\ objects'[p].version >= objects[p].version
<1>0. objects \in Files /\ objects[p].version \in Nat /\ latest \in [Paths -> Nat]
  BY DEF Inv, Typed, Files, Copy
<1>1. CASE \E q \in Paths : Land(q)
  <2>1. PICK q \in Paths : Land(q)
    BY <1>1
  <2>2. run.outbox[q] # None /\ run.outbox[q] = copies[q] /\ copies[q] # None
    BY <2>1, Uploading DEF Land
  <2>3. copies[q].version = latest[q] /\ objects[p].version <= latest[p]
    BY <2>2 DEF Inv, Ordered
  <2>4. objects'[p] = IF q = p THEN copies[q] ELSE objects[p]
    BY <1>0, <2>1, <2>2 DEF Land, Files
  <2>. QED
    BY <1>0, <2>2, <2>3, <2>4
<1>2. CASE objects' = objects
  BY <1>0, <1>2
<1>3. (\E q \in Paths : Land(q)) \/ objects' = objects
  BY DEF Next, Publish, MirrorMachine, vars, remote, Reinstall, Start, Take, Checkpoint, UploadsEnd,
         IndexUnchanged, PutIndex, FailIndex, SaveEtag, SaveRest, SaveIndex, SaveSuccess, Kill,
         GetIndex, ListPage, ReplaceIndex, Keep, Pull, KillMirror, Archive, Unreported, FailUpload, FailPull
<1>. QED
  BY <1>1, <1>2, <1>3

LEMMA MirrorWaits ==
    ASSUME Inv, MirrorInv, [Next]_vars, UNCHANGED reader
    PROVE  MirrorInv'
<1>1. UNCHANGED <<pull, mirror, mirrorIndex>>
  BY DEF reader
<1>2. MirrorTyped' /\ MirrorIsBacked'
  BY <1>1 DEF MirrorInv, MirrorTyped, MirrorIsBacked, Blurred
<1>3. Behind'
  <2>. SUFFICES ASSUME NEW p \in Paths, mirror[p] # None
                PROVE  /\ objects'[p] # None /\ mirror[p].version <= objects'[p].version
                       /\ mirror[p].mtime # Now => mirror[p].mtime <= mirror[p].version
    BY <1>1 DEF Behind
  <2>1. /\ objects[p] # None /\ mirror[p].version <= objects[p].version
        /\ mirror[p].mtime # Now => mirror[p].mtime <= mirror[p].version
    BY DEF MirrorInv, Behind
  <2>2. objects'[p] # None /\ objects'[p].version >= objects[p].version
    BY <2>1, ObjectsGrow
  <2>3. mirror[p].version \in Nat /\ objects[p].version \in Nat
    BY <2>1 DEF MirrorInv, MirrorTyped, Mirrors, Inv, Typed, Files, Copy
  <2>4. objects'[p].version \in Nat
    BY <2>2, InvNext DEF Inv, Typed, Files, Copy
  <2>. QED
    BY <2>1, <2>2, <2>3, <2>4
<1>4. head' = head \/ head' = copies
  BY DEF Next, Publish, MirrorMachine, vars, remote, Reinstall, Start, Take, Land, Checkpoint, UploadsEnd,
         IndexUnchanged, PutIndex, FailIndex, SaveEtag, SaveRest, SaveIndex, SaveSuccess, Kill,
         GetIndex, ListPage, ReplaceIndex, Keep, Pull, KillMirror, Archive, Unreported, FailUpload, FailPull
<1>5. head' # None => Dates(head')
  BY <1>4 DEF MirrorInv, Dates, Inv, Ordered
<1>6. \A p \in pull.pending : objects'[p] # None
  BY ObjectsGrow DEF MirrorInv, MirrorTyped, Pulls, Pulled
<1>7. Pulled'
  BY <1>1, <1>6 DEF MirrorInv, Pulled, Dates, Backs, Blurred
<1>. QED
  BY <1>2, <1>3, <1>5, <1>7 DEF MirrorInv, Dates

(* The mirror's own steps leave the remote alone; what they have to keep.  *)
LEMMA MirrorSteps ==
    ASSUME Inv, MirrorInv, UNCHANGED <<objects, head>>,
           mirror' = mirror, MirrorTyped', Pulled', MirrorIsBacked'
    PROVE  MirrorInv'
BY DEF MirrorInv, Behind, Dates

LEMMA RunForgotten ==
    ASSUME MirrorInv, UNCHANGED <<objects, mirror>>, pull' = NoPull, mirrorIndex' \in {None} \cup Files
    PROVE  MirrorTyped' /\ Pulled'
<1>1. MirrorTyped'
  BY NoPullIsTyped DEF MirrorInv, MirrorTyped, NoPull
<1>2. Pulled'
  BY NoPullIsTyped DEF Pulled, Backs
<1>. QED
  BY <1>1, <1>2

LEMMA GetIndexMirrors ==
    ASSUME Inv, MirrorInv, GetIndex
    PROVE  MirrorInv'
<1>1. UNCHANGED <<objects, head, mirror, mirrorIndex>> /\ head # None /\ head \in Files
  BY DEF GetIndex, remote, Inv, Typed
<1>2. /\ pull' \in Pulls /\ pull'.index = head /\ pull'.verified = {} /\ pull'.pending = {}
      /\ pull'.unlisted = Paths
  BY <1>1, NoPullIsTyped DEF GetIndex, NoPull, Pulls
<1>3. MirrorTyped'
  BY <1>1, <1>2, PathsAssumption DEF MirrorInv, MirrorTyped
<1>4. Pulled'
  BY <1>1, <1>2 DEF MirrorInv, Pulled, Backs, Dates
<1>5. MirrorIsBacked'
  BY <1>1 DEF MirrorInv, MirrorIsBacked
<1>. QED
  BY <1>1, <1>3, <1>4, <1>5, MirrorSteps

LEMMA ListPageMirrors ==
    ASSUME Inv, MirrorInv, ListPage
    PROVE  MirrorInv'
<1>. DEFINE key == CHOOSE p \in pull.unlisted : TRUE
            rest == pull.unlisted \ {key}
<1>1. UNCHANGED <<objects, head, mirror, mirrorIndex>> /\ pull \in Pulls /\ pull.unlisted # {}
  BY DEF ListPage, remote, MirrorInv, MirrorTyped
<1>2. key \in pull.unlisted /\ key \in Paths
  BY <1>1 DEF Pulls
<1>3. pull' = [pull EXCEPT !.unlisted = rest,
                           !.pending = IF objects[key] # None THEN @ \cup {key} ELSE @,
                           !.pc = IF rest = {} THEN "pull" ELSE "list"]
  BY DEF ListPage
<1>. HIDE DEF key
<1>4. /\ pull'.index = pull.index /\ pull'.verified = pull.verified
      /\ pull'.pending = (IF objects[key] # None THEN pull.pending \cup {key} ELSE pull.pending)
      /\ pull'.pc = (IF rest = {} THEN "pull" ELSE "list") /\ pull'.unlisted = rest
      /\ pull' \in Pulls
  BY <1>1, <1>2, <1>3 DEF Pulls
<1>5. MirrorTyped'
  BY <1>1, <1>4 DEF MirrorInv, MirrorTyped
<1>6. Pulled'
  BY <1>1, <1>4 DEF MirrorInv, Pulled, Backs, Dates
<1>7. MirrorIsBacked'
  BY <1>1 DEF MirrorInv, MirrorIsBacked
<1>. QED
  BY <1>1, <1>5, <1>6, <1>7, MirrorSteps

(* A file the run has looked at is the recorded one or a newer one.        *)
LEMMA LookedAt ==
    ASSUME Inv, MirrorInv, NEW p \in Paths, pull' = Seen(p), p \in pull.pending,
           UNCHANGED <<objects, head, mirrorIndex>>, pull.pc = "pull",
           mirror' \in Mirrors,
           \A q \in Paths : q # p => mirror'[q] = mirror[q],
           mirror[p] # None => mirror'[p] # None /\ mirror'[p].version >= mirror[p].version,
           mirror'[p] # None => /\ mirror'[p].version <= objects[p].version
                                /\ mirror'[p].mtime # Now => mirror'[p].mtime <= mirror'[p].version,
           pull.index[p] # None =>
              mirror'[p] # None /\ (mirror'[p].version >= pull.index[p].version \/ Blurred(pull.index[p]))
    PROVE  MirrorInv'
<1>0. pull \in Pulls /\ mirror \in Mirrors
  BY DEF MirrorInv, MirrorTyped
<1>1. /\ pull'.index = pull.index /\ pull'.pc = "pull" /\ pull'.verified = pull.verified \cup {p}
      /\ pull'.pending = pull.pending \ {p} /\ pull' \in Pulls
  BY <1>0 DEF Seen, Pulls
<1>2. \A q \in Paths : mirror[q] # None => mirror'[q] # None /\ mirror'[q].version >= mirror[q].version
                            /\ mirror'[q].version \in Nat /\ mirror[q].version \in Nat
  BY <1>0 DEF Mirrors
<1>3. MirrorTyped'
  BY <1>1 DEF MirrorInv, MirrorTyped
<1>4. Behind'
  BY DEF MirrorInv, Behind, Pulled
<1>5. \A q \in Paths : \A record \in {None} \cup Copy :
         (record # None => mirror[q] # None /\ (mirror[q].version >= record.version \/ Blurred(record)))
           => (record # None => mirror'[q] # None /\ (mirror'[q].version >= record.version \/ Blurred(record)))
  BY <1>2 DEF Copy
<1>6. Pulled'
  <2>1. \A q \in pull.verified : q \in Paths /\ pull.index[q] \in {None} \cup Copy
    BY <1>0 DEF Pulls, Files
  <2>2. Backs(pull.index, pull.verified)'
    BY <1>1, <1>5, <2>1 DEF MirrorInv, Pulled, Backs, Blurred
  <2>. QED
    BY <1>1, <2>2 DEF MirrorInv, Pulled, Dates, Backs, Blurred
<1>7. MirrorIsBacked'
  <2>1. mirrorIndex # None => \A q \in Paths : mirrorIndex[q] \in {None} \cup Copy
    BY DEF MirrorInv, MirrorTyped, Files
  <2>. QED
    BY <1>5, <2>1 DEF MirrorInv, MirrorIsBacked, Blurred
<1>. QED
  BY <1>3, <1>4, <1>6, <1>7 DEF MirrorInv, Dates

LEMMA KeepMirrors ==
    ASSUME Inv, MirrorInv, NEW p \in Paths, Keep(p)
    PROVE  MirrorInv'
<1>. DEFINE record == pull.index[p]
            file == mirror[p]
<1>0. /\ pull' = Seen(p) /\ p \in pull.pending /\ pull.pc = "pull"
      /\ UNCHANGED <<objects, head, mirrorIndex>> /\ IsCurrent(file, record)
      /\ mirror' = IF record = None THEN mirror ELSE [mirror EXCEPT ![p] = Dated(@.version, record)]
  BY DEF Keep, remote
<1>1. /\ mirror \in Mirrors /\ file # None /\ file \in [mtime : Nat \cup {Now}, version : Nat]
      /\ record \in {None} \cup Copy /\ file.version <= objects[p].version
      /\ file.mtime # Now => file.mtime <= file.version
      /\ record # None => record.mtime <= record.version
  BY <1>0 DEF IsCurrent, MirrorInv, MirrorTyped, Mirrors, Pulls, Files, Behind, Pulled, Dates
<1>2. CASE record = None
  <2>1. mirror' = mirror
    BY <1>0, <1>2
  <2>. QED
    BY <1>0, <1>1, <1>2, <2>1, LookedAt
<1>3. CASE record # None
  <2>. DEFINE new == [mtime |-> record.mtime, version |-> file.version]
  <2>1. record \in Copy /\ record.mtime \in Nat /\ record.version \in Nat
    BY <1>1, <1>3 DEF Copy
  <2>2. new \in [mtime : Nat \cup {Now}, version : Nat]
    BY <1>1, <2>1
  <2>3. new # None
    BY <2>2, NoneAssumption
  <2>4. mirror' = [mirror EXCEPT ![p] = new]
    BY <1>0, <1>3 DEF Dated
  <2>5. mirror' \in Mirrors /\ mirror'[p] = new /\ \A q \in Paths : q # p => mirror'[q] = mirror[q]
    BY <1>1, <2>2, <2>4 DEF Mirrors
  <2>6. new.version = file.version /\ new.mtime = record.mtime /\ file.version \in Nat
    BY <1>1
  <2>7. record.mtime # Now
    BY <2>1, NoneAssumption
  <2>8. file.mtime = record.mtime \/ file.version = record.version
    BY <1>0, <1>3 DEF IsCurrent
  <2>9. file.version >= record.version \/ Blurred(record)
    BY <1>1, <2>1, <2>6, <2>7, <2>8 DEF Blurred
  <2>10. new.mtime <= new.version
    BY <1>1, <1>3, <2>1, <2>6, <2>7, <2>8
  <2>11. mirror'[p] # None /\ mirror'[p].version = file.version /\ mirror'[p].mtime <= mirror'[p].version
    BY <2>3, <2>5, <2>6, <2>10
  <2>12. mirror[p] # None => mirror'[p] # None /\ mirror'[p].version >= mirror[p].version
    BY <2>6, <2>11
  <2>13. mirror'[p] # None => /\ mirror'[p].version <= objects[p].version
                              /\ mirror'[p].mtime # Now => mirror'[p].mtime <= mirror'[p].version
    BY <1>1, <2>11
  <2>14. pull.index[p] # None =>
            mirror'[p] # None /\ (mirror'[p].version >= pull.index[p].version \/ Blurred(pull.index[p]))
    BY <2>9, <2>11
  <2>. QED
    BY ONLY <1>0, <2>5, <2>12, <2>13, <2>14, LookedAt, Inv, MirrorInv, p \in Paths
<1>. QED
  BY <1>2, <1>3

(* A refused object leaves the mirror as it was, and the run without hope. *)
LEMMA RefusedMirrors ==
    ASSUME Inv, MirrorInv, NEW p \in Paths, pull' = Refused(p), pull.pc = "pull",
           UNCHANGED <<objects, head, mirror, mirrorIndex>>
    PROVE  MirrorInv'
<1>0. pull \in Pulls
  BY DEF MirrorInv, MirrorTyped
<1>1. /\ pull'.index = pull.index /\ pull'.pc = "pull" /\ pull'.verified = pull.verified
      /\ pull'.pending = pull.pending \ {p} /\ pull' \in Pulls
  BY <1>0 DEF Refused, Pulls
<1>2. MirrorTyped'
  BY <1>1 DEF MirrorInv, MirrorTyped
<1>3. Pulled'
  BY <1>1 DEF MirrorInv, Pulled, Dates, Backs
<1>4. MirrorIsBacked'
  BY DEF MirrorInv, MirrorIsBacked
<1>. QED
  BY <1>2, <1>3, <1>4, MirrorSteps

LEMMA PullMirrors ==
    ASSUME Inv, MirrorInv, NEW p \in Paths, Pull(p)
    PROVE  MirrorInv'
<1>. DEFINE record == pull.index[p]
            file == mirror[p]
            new == Dated(objects[p].version, record)
<1>0. p \in pull.pending /\ pull.pc = "pull" /\ UNCHANGED <<objects, head, mirrorIndex>>
  BY DEF Pull, remote
<1>1. CASE Mismatch(p)
  <2>1. pull' = Refused(p) /\ mirror' = mirror
    BY <1>1 DEF Pull
  <2>. QED
    BY <1>0, <2>1, RefusedMirrors
<1>2. CASE ~Mismatch(p)
  <2>1. pull' = Seen(p) /\ mirror' = [mirror EXCEPT ![p] = new]
    BY <1>2 DEF Pull
  <2>2. /\ mirror \in Mirrors /\ record \in {None} \cup Copy /\ objects[p].version \in Nat
        /\ record # None => record.mtime <= record.version /\ record.version = objects[p].version
        /\ file # None => file.version <= objects[p].version
    BY <1>0, <1>2 DEF MirrorInv, MirrorTyped, Pulls, Files, Copy, Behind, Pulled, Dates, Mismatch, Inv, Typed
  <2>3. /\ new \in [mtime : Nat \cup {Now}, version : Nat] /\ new.version = objects[p].version
        /\ new.mtime # Now => new.mtime <= new.version
    BY <2>2 DEF Dated, Copy
  <2>4. new # None
    BY <2>3, NoneAssumption
  <2>5. mirror' \in Mirrors /\ mirror'[p] = new /\ \A q \in Paths : q # p => mirror'[q] = mirror[q]
    BY <2>1, <2>2, <2>3 DEF Mirrors
  <2>6. file # None => file.version \in Nat
    BY <2>2 DEF Mirrors
  <2>7. mirror'[p] # None /\ mirror'[p].version = objects[p].version
        /\ (mirror'[p].mtime # Now => mirror'[p].mtime <= mirror'[p].version)
    BY <2>3, <2>4, <2>5
  <2>8. mirror[p] # None => mirror'[p] # None /\ mirror'[p].version >= mirror[p].version
    BY <2>2, <2>6, <2>7
  <2>9. mirror'[p] # None => /\ mirror'[p].version <= objects[p].version
                             /\ mirror'[p].mtime # Now => mirror'[p].mtime <= mirror'[p].version
    BY <2>2, <2>7
  <2>10. pull.index[p] # None =>
            mirror'[p] # None /\ (mirror'[p].version >= pull.index[p].version \/ Blurred(pull.index[p]))
    BY <2>2, <2>7
  <2>. QED
    BY ONLY <1>0, <2>1, <2>5, <2>8, <2>9, <2>10, LookedAt, Inv, MirrorInv, p \in Paths
<1>. QED
  BY <1>1, <1>2

LEMMA FailPullMirrors ==
    ASSUME Inv, MirrorInv, NEW p \in Paths, FailPull(p)
    PROVE  MirrorInv'
<1>1. pull' = Refused(p) /\ pull.pc = "pull" /\ UNCHANGED <<objects, head, mirror, mirrorIndex>>
  BY DEF FailPull, remote
<1>. QED
  BY <1>1, RefusedMirrors

(* The index is replaced only by one whose every record was looked at.     *)
LEMMA ReplaceIndexMirrors ==
    ASSUME Inv, MirrorInv, ReplaceIndex
    PROVE  MirrorInv'
<1>1. /\ UNCHANGED <<objects, head, mirror>> /\ pull' = NoPull
      /\ mirrorIndex' = IF Complete THEN pull.index ELSE mirrorIndex
  BY DEF ReplaceIndex, remote
<1>2. mirrorIndex' \in {None} \cup Files
  BY <1>1 DEF MirrorInv, MirrorTyped, Pulls
<1>3. MirrorTyped' /\ Pulled'
  BY <1>1, <1>2, RunForgotten
<1>4. CASE Complete
  <2>1. \A p \in Paths : pull.index[p] # None => p \in pull.verified
    BY <1>4 DEF Complete, Recorded
  <2>2. MirrorIsBacked'
    BY <1>1, <1>4, <2>1 DEF MirrorInv, Pulled, Backs, MirrorIsBacked, Blurred
  <2>. QED
    BY <1>1, <1>3, <2>2, MirrorSteps
<1>5. CASE ~Complete
  <2>1. MirrorIsBacked'
    BY <1>1, <1>5 DEF MirrorInv, MirrorIsBacked, Blurred
  <2>. QED
    BY <1>1, <1>3, <2>1, MirrorSteps
<1>. QED
  BY <1>4, <1>5

LEMMA KillMirrorMirrors ==
    ASSUME Inv, MirrorInv, KillMirror
    PROVE  MirrorInv'
<1>1. UNCHANGED <<objects, head, mirror, mirrorIndex>> /\ pull' = NoPull
  BY DEF KillMirror, remote
<1>2. mirrorIndex' \in {None} \cup Files
  BY <1>1 DEF MirrorInv, MirrorTyped
<1>3. MirrorTyped' /\ Pulled'
  BY <1>1, <1>2, RunForgotten
<1>4. MirrorIsBacked'
  BY <1>1 DEF MirrorInv, MirrorIsBacked
<1>. QED
  BY <1>1, <1>3, <1>4, MirrorSteps

LEMMA MirrorNext == Inv /\ MirrorInv /\ [Next]_vars => MirrorInv'
<1>. SUFFICES ASSUME Inv, MirrorInv, [Next]_vars PROVE MirrorInv'
  OBVIOUS
<1>1. CASE MirrorMachine
  BY <1>1, GetIndexMirrors, ListPageMirrors, ReplaceIndexMirrors, KeepMirrors, PullMirrors DEF MirrorMachine
<1>2. CASE KillMirror \/ \E p \in Paths : FailPull(p)
  BY <1>2, KillMirrorMirrors, FailPullMirrors
<1>3. CASE \/ Reinstall \/ Publish \/ Kill \/ UNCHANGED vars
           \/ \E p \in Paths : Archive(p) \/ Unreported(p) \/ FailUpload(p)
  <2>1. UNCHANGED reader
    BY <1>3 DEF vars, Publish, Reinstall, Start, Take, Land, Checkpoint, UploadsEnd, IndexUnchanged,
                PutIndex, FailIndex, SaveEtag, SaveRest, SaveIndex, SaveSuccess, Kill,
                Archive, Unreported, FailUpload
  <2>. QED
    BY <2>1, MirrorWaits
<1>. QED
  BY <1>1, <1>2, <1>3 DEF Next

(* The mirrored index never runs ahead of the mirrored files (mirror.ts:   *)
(* 241), although the other machine publishes between the download of the  *)
(* index, each page of the listing and each pull, and whatever fails.      *)
THEOREM MirrorFollows == Spec => []MirrorIsBacked
<1>1. Spec => [](Inv /\ MirrorInv)
  BY InvInit, InvNext, MirrorInit, MirrorNext, PTL DEF Spec
<1>2. Inv /\ MirrorInv => MirrorIsBacked
  BY DEF MirrorInv
<1>. QED
  BY <1>1, <1>2, PTL
=============================================================================
