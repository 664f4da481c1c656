----------------------------- MODULE Retrieval -----------------------------
(* The cache that search, sessions and query answer from: a SQLite database
   derived from the archive (retrieval/database.ts, catalog.ts), refreshed or
   rebuilt under the retrieval lock by any number of commands while sweeps
   and users change the archive, and read without the lock while another
   command refreshes it.  show and outline page through the archive itself.

   The n-th version of an archived file stands for its bytes and checksum;
   what its lines are is for the readers alone, which show reads it with.
   The rows of a file in the cache are the signature it was read under and
   the bytes that were read.  A database is its main file and the log beside
   it, which SQLite applies on top of whatever main file it finds.          *)
EXTENDS Readers   \* None: no file, no record, no row, no answer

CONSTANTS
    Rotten,      \* bytes that no reader can decompress
    Foreign,     \* a file that is no database of this schema
    Files,       \* archived files, of a session or beside one
    Layouts,     \* the harness of the files and the unit each is of, by the
                 \* place of the unit's key
    Lines,       \* by harness, the lines of each version of a file
    Raw,         \* the files index.jsonl never has a record of
    Commands,    \* processes
    MaxVersion,  \* bound: versions of a file
    Bounds       \* bounds, one of them chosen at the start: changes of the
                 \* archive, faults (damage, kills, changes of schema, files that go
                 \* under a listing) and runs of commands, of the kinds there are

\* What a command needs the cache for
Kinds == {"read", "query", "rebuild", "sync"}

ASSUME RetrievalAssumption ==
    /\ MaxVersion \in Nat \ {0} /\ Bounds \subseteq [changes : Nat, faults : Nat, runs : Nat, kinds : SUBSET Kinds]
    /\ Raw \subseteq Files /\ \A l \in Layouts : l.unit \in [Files -> Nat]
    /\ None \notin Files \cup Commands

Versions   == 1 .. MaxVersion
Contents   == Versions \cup {None, Rotten}
Signatures == [stat : Nat, sha : Contents]
Databases  == [Files -> {None} \cup [sig : Signatures, bytes : Contents]]

ASSUME NoneAssumption ==
    /\ None \notin Nat \cup {Rotten, Foreign} \cup Signatures \cup [sig : Signatures, bytes : Contents]
                         \cup [from : Nat, to : Int]
    /\ Rotten \notin Nat /\ {None, Foreign} \cap Databases = {}

VARIABLES
    layout,   \* the unit of each file, and their harness
    archive,  \* the version each file has in the archive, or None
    latest,   \* the newest version it has had there
    bad,      \* the files whose bytes are damaged there
    record,   \* the version index.jsonl has a record of, or None
    main,     \* the cache: its rows, Foreign or None
    wal,      \* what the log beside it makes of it, or None
    lock,     \* the command that has the retrieval lock, or None
    opened,   \* the commands with a connection to the cache
    cmds,     \* the commands; history: the bytes each file has had during them, and
              \* whether the cache they answered from was a mixed one
    lost,     \* history: the files that were damaged, or gone when they were read
    known,    \* history: the files a finished refresh has seen and that stayed
    mixed,    \* history: the cache was replaced under the log of another
    left      \* changes, faults and runs that may still happen

world == <<layout, archive, latest, bad, record, lost>>
cache == <<main, wal, known, mixed>>
vars  == <<world, cache, lock, opened, cmds, left>>

unitOf   == layout.unit
Units    == {unitOf[f] : f \in Files}
Working  == {"lock", "wait", "stale", "open", "stat", "hash", "units",
             "reread", "page"}
Idle     == [pc |-> "idle", kind |-> None, fresh |-> FALSE, cat |-> [f \in Files |-> None],
             todo |-> {}, rows |-> [f \in Files |-> None], answer |-> None, of |-> None, pages |-> <<>>,
             during |-> [f \in Files |-> {}], spoiled |-> FALSE]

Held(f)  == IF f \in bad THEN Rotten ELSE archive[f]
Running  == {p \in Commands : cmds[p].pc \in Working}

\* A sweep gives a file the time of its source, which moves when it grows;
\* a copy made by other means may keep both size and time
StatOf(f, v) == IF f \in Raw THEN 0 ELSE v

\* An archive with or without the cache of it
Fresh == [f \in Files |-> [sig |-> [stat |-> StatOf(f, 1), sha |-> IF f \in Raw THEN None ELSE 1],
                           bytes |-> 1]]

Init ==
    /\ layout \in Layouts
    /\ archive = [f \in Files |-> 1] /\ latest = archive /\ bad = {}
    /\ record = [f \in Files |-> IF f \in Raw THEN None ELSE 1]
    /\ main \in {None, Fresh} /\ wal = None
    /\ lock = None /\ opened = {}
    /\ cmds = [p \in Commands |-> Idle]
    /\ lost = {} /\ known = (IF main = None THEN {} ELSE Files) /\ mixed = FALSE
    /\ left \in Bounds

-----------------------------------------------------------------------------
(* The archive, whose changes every running command may see *)

Witnessed(f, bytes) ==
    cmds' = [p \in Commands |-> IF p \in Running /\ cmds[p].kind # "show"
                 THEN [cmds[p] EXCEPT !.during[f] = @ \cup {bytes}] ELSE cmds[p]]

Change(f, version, rotten) ==
    /\ LET cost == IF rotten THEN "faults" ELSE "changes" IN
       left[cost] > 0 /\ left' = [left EXCEPT ![cost] = @ - 1]
    /\ archive' = [archive EXCEPT ![f] = version]
    /\ latest' = IF version = None THEN latest ELSE [latest EXCEPT ![f] = version]
    /\ bad' = IF rotten THEN bad \cup {f} ELSE bad \ {f}
    /\ lost' = IF rotten THEN lost \cup {f} ELSE lost
    /\ known' = IF version = None THEN known \ {f} ELSE known
    /\ Witnessed(f, IF rotten THEN Rotten ELSE version)
    /\ UNCHANGED <<layout, record, main, wal, mixed, lock, opened>>

\* A sweep renames a copy over the file; its record is appended later, or never
Copy(f, v) == archive[f] # v /\ v >= latest[f] /\ Change(f, v, FALSE)
Erase(f)   == archive[f] # None /\ Change(f, None, FALSE)
Rot(f)     == archive[f] # None /\ f \notin bad /\ Change(f, archive[f], TRUE)

Index(f) ==
    /\ f \notin Raw /\ archive[f] # None /\ record[f] # archive[f]
    /\ left.changes > 0 /\ left' = [left EXCEPT !.changes = @ - 1]
    /\ record' = [record EXCEPT ![f] = archive[f]]
    /\ UNCHANGED <<layout, archive, latest, bad, lost, cache, lock, opened, cmds>>

\* Another release of the program leaves a cache of its own schema
Upgrade ==
    /\ left.faults > 0 /\ main # None /\ main # Foreign /\ opened = {} /\ lock = None
    /\ main' = Foreign /\ wal' = None
    /\ left' = [left EXCEPT !.faults = @ - 1]
    /\ UNCHANGED <<world, known, mixed, lock, opened, cmds>>

-----------------------------------------------------------------------------
(* SQLite *)

Opened == IF wal = None THEN main ELSE wal

Servable == main # None /\ main # Foreign

\* The last connection to close moves the log into the main file, unless it
\* was opened to read only
CloseWriter(p) ==
    /\ opened' = opened \ {p}
    /\ IF opened \subseteq {p}
       THEN main' = Opened /\ wal' = None
       ELSE UNCHANGED <<main, wal>>

CloseReader(p) == opened' = opened \ {p} /\ UNCHANGED <<main, wal>>

-----------------------------------------------------------------------------
(* The catalog *)

\* index.jsonl is read first, the files are listed and looked at after it
Recorded == [f \in Files |-> record[f]]
Catalogued(records) ==
    [f \in Files |-> IF archive[f] = None THEN None
                     ELSE [stat |-> StatOf(f, archive[f]), sha |-> records[f]]]
Hashed(cat) ==
    [f \in Files |-> IF cat[f] = None THEN None ELSE [cat[f] EXCEPT !.sha = Held(f)]]

IsChangedByRecord(entry, row) == row = None \/ (row # None => row.sig.sha # entry.sha)
IsChanged(entry, row) == row = None \/ (row # None => row.sig # entry)

\* The units with a file that is new or changed, and those of rows without a file
Changed(cat, rows) ==
    {unitOf[f] : f \in {f \in Files : \/ cat[f] # None /\ IsChanged(cat[f], rows[f])
                                      \/ cat[f] = None /\ rows[f] # None}}

ReplacedHarness(rows, unit, cat) ==
    [f \in Files |-> IF unitOf[f] # unit \/ cat[f] = None THEN None
                     ELSE [sig |-> cat[f], bytes |-> Held(f)]]

\* One transaction: the rows of the unit go, those of its files are inserted
Replaced(rows, unit, cat) ==
    [f \in Files |-> IF unitOf[f] # unit THEN rows[f]
                     ELSE IF cat[f] = None THEN None
                     ELSE [sig |-> cat[f], bytes |-> Held(f)]]

-----------------------------------------------------------------------------
(* A command that needs the cache *)

Goes(p, pc) == cmds' = [cmds EXCEPT ![p].pc = pc]

Begin(p, kind) ==
    /\ left.runs > 0 /\ kind \in left.kinds /\ cmds[p].pc \notin Working
    /\ cmds' = [cmds EXCEPT ![p] = [Idle EXCEPT !.pc = "lock", !.kind = kind,
                                     !.during = [f \in Files |-> {Held(f)}]]]
    /\ left' = [left EXCEPT !.runs = @ - 1]
    /\ UNCHANGED <<world, cache, lock, opened>>

\* search and sessions, which differ in what they select from the rows
RunSearch(p)  == Begin(p, "read")
RunQuery(p)   == Begin(p, "query")
RunRebuild(p) == Begin(p, "rebuild")
\* after a sweep
RefreshRetrievalIndex(p) == Begin(p, "sync")

Ends(p, answer) ==
    /\ cmds' = [cmds EXCEPT ![p] = IF answer = None THEN Idle
                  ELSE [Idle EXCEPT !.pc = "done", !.kind = cmds[p].kind,
                                    !.answer = answer, !.during = cmds[p].during,
                                    !.spoiled = mixed]]
    /\ lock' = IF lock = p THEN None ELSE lock

\* tryRetrievalLock and the first attempt of withRetrievalLock
Lock(p) ==
    /\ cmds[p].pc \in {"lock", "wait"} /\ lock = None
    /\ lock' = p /\ Goes(p, "open")
    /\ UNCHANGED <<world, cache, opened, left>>

Refused(p) ==
    /\ cmds[p].pc = "lock" /\ lock # None
    /\ Goes(p, IF cmds[p].kind \in {"read", "query"} THEN "stale" ELSE "wait")
    /\ UNCHANGED <<world, cache, lock, opened, left>>

\* openStaleRetrieval, then the answer of what was committed
ServeStale(p) ==
    /\ cmds[p].pc = "stale" /\ p \notin opened /\ Servable
    /\ opened' = opened \cup {p}
    /\ UNCHANGED <<world, cache, lock, cmds, left>>

StaleAnswered(p) ==
    /\ cmds[p].pc = "stale" /\ p \in opened
    /\ CloseReader(p) /\ Ends(p, None)
    /\ UNCHANGED <<world, known, mixed, left>>

NothingServable(p) ==
    /\ cmds[p].pc = "stale" /\ p \notin opened /\ ~Servable
    /\ Goes(p, "wait")
    /\ UNCHANGED <<world, cache, lock, opened, left>>

\* "the retrieval index is being built", after 15 seconds
GiveUp(p) ==
    /\ cmds[p].pc = "wait" /\ lock # None
    /\ Ends(p, None)
    /\ UNCHANGED <<world, cache, opened, left>>

\* openCurrent: a missing cache, or one of another schema, is rebuilt. The
\* catalog begins with index.jsonl
Open(p) ==
    /\ cmds[p].pc = "open"
    /\ LET fresh == cmds[p].kind = "rebuild" \/ ~Servable IN
       /\ cmds' = [cmds EXCEPT ![p].pc = "stat", ![p].fresh = fresh, ![p].cat = Recorded]
       /\ opened' = IF fresh THEN opened ELSE opened \cup {p}
    /\ UNCHANGED <<world, cache, lock, left>>

\* The rows a refresh works on are those of the database it has open
Rows(p) == IF cmds[p].fresh THEN cmds[p].rows ELSE Opened

Stat(p) ==
    /\ cmds[p].pc = "stat"
    /\ LET cat == Catalogued(cmds[p].cat) IN
       cmds' = [cmds EXCEPT ![p].pc = IF cmds[p].fresh THEN "hash" ELSE "units", ![p].cat = cat,
                            ![p].todo = IF cmds[p].fresh THEN {} ELSE Changed(cat, Rows(p))]
    /\ UNCHANGED <<world, cache, lock, opened, left>>

\* A rebuild hashes the files instead of believing the index
Hash(p) ==
    /\ cmds[p].pc = "hash" /\ \A f \in Files : cmds[p].cat[f] # None => archive[f] # None
    /\ LET cat == Hashed(cmds[p].cat) IN
       cmds' = [cmds EXCEPT ![p].pc = "units", ![p].cat = cat, ![p].todo = Changed(cat, Rows(p))]
    /\ UNCHANGED <<world, cache, lock, opened, left>>

\* A file that went between the listing and its stat or hash fails the
\* command; a rebuild leaves the old cache, a refresh its connection
Fail(p) ==
    /\ cmds[p].pc = "stat" \/ (cmds[p].pc = "hash"
                               /\ \E f \in Files : cmds[p].cat[f] # None /\ archive[f] = None)
    /\ left.faults > 0 /\ left' = [left EXCEPT !.faults = @ - 1]
    /\ \/ CloseWriter(p)
       \/ CloseReader(p)
    /\ Ends(p, None)
    /\ UNCHANGED <<world, known, mixed>>

\* Units in the order of their keys
Replace(p, unit) ==
    /\ cmds[p].pc = "units" /\ unit \in cmds[p].todo /\ \A u \in cmds[p].todo : unit <= u
    /\ LET rows == Replaced(Rows(p), unit, cmds[p].cat) IN
       IF cmds[p].fresh
       THEN /\ cmds' = [cmds EXCEPT ![p].todo = @ \ {unit}, ![p].rows = rows]
            /\ UNCHANGED wal
       ELSE /\ cmds' = [cmds EXCEPT ![p].todo = @ \ {unit}]
            /\ wal' = rows
    /\ lost' = lost \cup {f \in Files : unitOf[f] = unit /\ cmds[p].cat[f] # None /\ archive[f] = None}
    /\ UNCHANGED <<layout, archive, latest, bad, record, main, known, mixed, lock, opened, left>>

Ready(p) == cmds[p].pc = "units" /\ cmds[p].todo = {}
Seen(p)  == {f \in Files : cmds[p].cat[f] # None /\ archive[f] # None}

\* The finished temporary database is renamed over the cache; the log of the
\* cache, if one was left, now lies beside it
Rename(p) ==
    /\ Ready(p) /\ cmds[p].fresh
    /\ main' = cmds[p].rows /\ mixed' = (wal # None)
    /\ known' = Seen(p)
    /\ opened' = IF cmds[p].kind = "rebuild" THEN opened ELSE opened \cup {p}
    /\ cmds' = [cmds EXCEPT ![p].fresh = FALSE]
    /\ UNCHANGED <<world, wal, lock, left>>

Bytes(rows) == [f \in Files |-> IF rows[f] = None THEN None ELSE rows[f].bytes]

\* What any search, listing or statement can see of the cache
Answer(p) ==
    /\ Ready(p) /\ ~cmds[p].fresh
    /\ known' = Seen(p)
    /\ IF cmds[p].kind = "query"
       THEN Goes(p, "reread") /\ lock' = None
       ELSE Ends(p, Bytes(Opened))
    /\ IF p \in opened THEN CloseWriter(p) ELSE UNCHANGED <<main, wal, opened>>
    /\ UNCHANGED <<world, mixed, left>>

\* query reopens the cache to read only, with the lock released: whatever is there
Reread(p) ==
    /\ cmds[p].pc = "reread" /\ p \notin opened
    /\ IF Servable THEN opened' = opened \cup {p} /\ UNCHANGED <<cmds, lock>>
                   ELSE Ends(p, None) /\ UNCHANGED opened
    /\ UNCHANGED <<world, cache, left>>

Queried(p) ==
    /\ cmds[p].pc = "reread" /\ p \in opened
    /\ CloseReader(p) /\ Ends(p, Bytes(Opened))
    /\ UNCHANGED <<world, known, mixed, left>>

\* The file of a dead owner's lock is removed by the next caller; a temporary
\* database stays on disk and is never looked at again
Kill(p) ==
    /\ left.faults > 0 /\ cmds[p].pc \in Working \ {"page"}
    /\ opened' = opened \ {p} /\ Ends(p, None)
    /\ left' = [left EXCEPT !.faults = @ - 1]
    /\ UNCHANGED <<world, cache>>

-----------------------------------------------------------------------------
(* show and outline: a reader follows "continue with" through a session that
   may grow; every page is a command that reads the archive anew            *)

\* The files of a unit as its reader gets them, in the order of their paths
Unit(l, u, held, damaged) ==
    LET there == {f \in Files : l.unit[f] = u /\ held[f] # None}
        File(f) == [path |-> Lines[l.harness][f].path, jsonl |-> TRUE, corrupt |-> f \in damaged,
                    lines |-> Lines[l.harness][f].versions[held[f]]]
        place[n \in 1 .. Cardinality(there)] ==
            CHOOSE f \in there : Cardinality({g \in there : File(g).path <= File(f).path}) = n
    IN  [id |-> u, files |-> [n \in 1 .. Cardinality(there) |-> File(place[n])]]

\* What the reader makes of the units, whatever is in the archive of them
Readings ==
    [l \in Layouts |-> [held \in [Files -> Versions \cup {None}] |-> [damaged \in SUBSET Files |->
        [u \in {l.unit[f] : f \in Files} |-> ReadUnit(l.harness, Unit(l, u, held, damaged))]]]]

\* Every text a unit can be read as
TextsOf(l, held, damaged) == {Readings[l][held][damaged][l.unit[f]].turns : f \in Files}
Texts ==
    UNION {TextsOf(l, held, damaged) :
               l \in Layouts, held \in [Files -> Versions \cup {None}], damaged \in SUBSET Files}

\* A reader gives a sequence of turns, whatever it reads
ASSUME TurnsAssumption == \A turns \in Texts : turns \in Seq({turns[i] : i \in DOMAIN turns})

ReadNow(u) == Readings[layout][archive][bad][u]
Turns(u)   == ReadNow(u).turns

\* Some file of the unit must have been read
AssertServeable(u) == \E n \in DOMAIN ReadNow(u).files : ReadNow(u).files[n] \notin {"unsupported", "corrupt"}

Cut(turns, from, last, n) ==
    [shown |-> SubSeq(turns, from + 1, from + n),
     next  |-> IF n = last - from + 1 THEN None ELSE [from |-> from + n, to |-> last]]

PageToTheEnd(turns, from, to) ==
    LET last == Len(turns) - 1 IN {Cut(turns, from, last, n) : n \in 1 .. last - from + 1}

\* As many turns as the budget of text or of lines lets through, but one at least
Page(turns, from, to) ==
    LET last == IF to < Len(turns) THEN to ELSE Len(turns) - 1
    IN  {Cut(turns, from, last, n) : n \in 1 .. last - from + 1}

\* They share nothing with the other commands: explored before any has run
Show(p, u) ==
    /\ left.runs > 0 /\ main = None /\ Running = {}
    /\ AssertServeable(u) /\ Turns(u) # <<>>
    /\ left' = [left EXCEPT !.runs = @ - 1]
    /\ \E page \in Page(Turns(u), 0, Len(Turns(u)) - 1) :
         cmds' = [cmds EXCEPT ![p] = [Idle EXCEPT !.pc = "page", !.kind = "show", !.pages = <<page>>,
                                        !.of = [unit |-> u, turns |-> Turns(u), kept |-> TRUE]]]
    /\ UNCHANGED <<world, cache, lock, opened>>

LastPage(p) == cmds[p].pages[Len(cmds[p].pages)]
Kept(p) ==
    LET before == cmds[p].of.turns
        now    == Turns(cmds[p].of.unit)
    IN  Len(before) <= Len(now) /\ SubSeq(now, 1, Len(before)) = before

\* The range asked for must begin within the session, and the session be legible
Legible(p) ==
    LET u == cmds[p].of.unit
    IN  LastPage(p).next # None /\ AssertServeable(u) /\ LastPage(p).next.from < Len(Turns(u))

Continue(p) ==
    /\ cmds[p].pc = "page" /\ Legible(p)
    /\ \E page \in Page(Turns(cmds[p].of.unit), LastPage(p).next.from, LastPage(p).next.to) :
          cmds' = [cmds EXCEPT ![p].pages = Append(@, page), ![p].of.kept = @ /\ Kept(p)]
    /\ UNCHANGED <<world, cache, lock, opened, left>>

Shown(p) ==
    /\ cmds[p].pc = "page" /\ ~Legible(p)
    /\ Ends(p, None)
    /\ UNCHANGED <<world, cache, opened, left>>

-----------------------------------------------------------------------------
Step(p) ==
    \/ RunSearch(p) \/ RunQuery(p) \/ RunRebuild(p) \/ RefreshRetrievalIndex(p)
    \/ Lock(p) \/ Refused(p) \/ ServeStale(p) \/ StaleAnswered(p) \/ NothingServable(p) \/ GiveUp(p)
    \/ Open(p) \/ Stat(p) \/ Hash(p) \/ Fail(p)
    \/ \E unit \in Units : Replace(p, unit)
    \/ Rename(p) \/ Answer(p) \/ Reread(p) \/ Queried(p) \/ Kill(p)
    \/ \E u \in Units : Show(p, u)
    \/ Continue(p) \/ Shown(p)

Next ==
    \/ \E p \in Commands : Step(p)
    \/ \E f \in Files : \/ \E v \in Versions : Copy(f, v)
                        \/ Erase(f) \/ Rot(f) \/ Index(f)
    \/ Upgrade

Spec == Init /\ [][Next]_vars

-----------------------------------------------------------------------------
(* The properties *)

\* "search refreshes changed units before querying": what a command that was
\* not refused the lock answers is, for every file, something the file held
\* while the command ran. Excepted are the replacements no signature shows: a
\* copy without a record that keeps size and time, and bytes once damaged. An
\* explicit rebuild, which hashes and reads every file, closes both; only a log
\* left beside the database it replaces spoils its effect.
AnswerIsCurrent ==
    \A p \in Commands : cmds[p].answer # None /\ ~cmds[p].spoiled =>
        \A f \in Files :
            \/ cmds[p].answer[f] \in cmds[p].during[f]
            \/ /\ cmds[p].kind # "rebuild"
               /\ \/ f \in lost
                  \/ f \in Raw /\ cmds[p].answer[f] # None /\ cmds[p].during[f] # {None}

\* A cache is never served half-built, or missing what it once had: as long as
\* a file stays in the archive, its rows stay in the database that readers
\* open, through refreshes, rebuilds, their failures and kills.
NothingIsForgotten ==
    (Servable /\ ~mixed) => \A f \in known : Opened[f] # None

\* Whoever follows the cursors of show or outline to the end has seen every
\* turn the session had at the first page, once and in order, however it grows
\* meanwhile. Excepted are sessions whose turns moved: a turn has no identity
\* but its number, and a file archived late brings turns that belong between.
PagesAreWhole ==
    \A p \in Commands : (cmds[p].pc = "page" /\ LastPage(p).next = None /\ cmds[p].of.kept) =>
        LET joined[i \in 0 .. Len(cmds[p].pages)] ==
                IF i = 0 THEN <<>> ELSE joined[i - 1] \o cmds[p].pages[i].shown
        IN  joined[Len(cmds[p].pages)] = cmds[p].of.turns
=============================================================================
