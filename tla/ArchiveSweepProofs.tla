------------------------- MODULE ArchiveSweepProofs -------------------------
(***************************************************************************)
(* Proofs about ArchiveSweep, for any set of files, any lengths of the     *)
(* clock and of the files, and any rounding of utimes; then about Reconcile, *)
(* for any interval of the schedule.                                       *)
(***************************************************************************)
EXTENDS Reconcile, TLAPS

-----------------------------------------------------------------------------
(* A record made of the parts the sweep has read has its type.             *)
LEMMA JobType ==
    ASSUME NEW f \in Files, NEW t \in Times, NEW s \in Versions, NEW v \in Versions
    PROVE  Job(f, t, s, v) \in Jobs
BY DEF Job, Jobs, Records

(* Every value of every variable has its type.                             *)
LEMMA TypeStep == TypeOK /\ [Next]_vars => TypeOK'
<1>. SUFFICES ASSUME TypeOK, [Next]_vars PROVE TypeOK'
  OBVIOUS
<1>. USE DEF TypeOK, archive, harness, sweep, Busy
<1>1. CASE UNCHANGED vars
  BY <1>1 DEF vars
<1>2. CASE Tick
  BY <1>2, BoundsAssumption DEF Tick, Times
<1>3. ASSUME NEW f \in Files, Write(f) PROVE TypeOK'
  <2>1. Size(f) + 1 \in Versions
    BY <1>3, BoundsAssumption DEF Write, Size, Versions, Stats
  <2>2. [mtime |-> clock, version |-> Size(f) + 1] \in Stats
    BY <2>1 DEF Stats
  <2>. QED
    BY <1>3, <2>2 DEF Write, Stats
<1>4. ASSUME NEW f \in Files, Vanish(f) PROVE TypeOK'
  BY <1>4 DEF Vanish
<1>5. CASE DeleteIndex
  BY <1>5, BoundsAssumption DEF DeleteIndex
<1>6. CASE ReadIndex
  <2>1. Read \in [Files -> {None} \cup Records]
    BY DEF Read
  <2>. QED
    BY <1>6, <2>1 DEF ReadIndex
<1>7. CASE Enumerate
  BY <1>7 DEF Enumerate
<1>8. CASE Finish
  BY <1>8 DEF Finish
<1>9. ASSUME NEW f \in Files, Decide(f) PROVE TypeOK'
  <2>1. listing[f] \in Stats /\ stored[f] \in {None} \cup Stats
    BY <1>9 DEF Decide
  <2>2. Job(f, listing[f].mtime, listing[f].version, listing[f].version) \in Jobs
    BY <2>1, JobType DEF Stats
  <2>3. stored[f] # None
            => Job(f, stored[f].mtime, listing[f].version, stored[f].version) \in Jobs
    BY <2>1, JobType DEF Stats
  <2>4. pc' \in {"next", "stat", "append"} /\ job' \in {None} \cup Jobs
    BY <1>9, <2>2, <2>3 DEF Decide, NeedsRecord
  <2>5. pc' \in Busy => job' \in Jobs
    BY <1>9, <2>2, <2>3 DEF Decide, NeedsRecord
  <2>. QED
    BY <1>9, <2>4, <2>5 DEF Decide
<1>10. CASE Stat
  <2>1. job \in Jobs
    BY <1>10 DEF Stat
  <2>2. job.file \in Files /\ job.record \in Records
    BY <2>1 DEF Jobs
  <2>3. source[job.file] # None => source[job.file] \in Stats
    BY <2>2 DEF Stats
  <2>4. job' \in Jobs /\ pc' \in {"next", "read"}
    BY <1>10, <2>1, <2>2, <2>3, JobType DEF Stat, Stats
  <2>. QED
    BY <1>10, <2>4 DEF Stat
<1>11. CASE ReadSource
  <2>1. job \in Jobs
    BY <1>11 DEF ReadSource
  <2>2. job.file \in Files /\ job.record \in Records
    BY <2>1 DEF Jobs
  <2>3. source[job.file] # None => source[job.file] \in Stats
    BY <2>2 DEF Stats
  <2>4. job' \in Jobs /\ pc' \in {"next", "rename"}
    BY <1>11, <2>1, <2>2, <2>3, JobType DEF ReadSource, Stats, Records
  <2>. QED
    BY <1>11, <2>4 DEF ReadSource
<1>12. CASE Rename
  <2>1. job.file \in Files /\ job.record \in Records
    BY <1>12 DEF Rename, Jobs
  <2>2. [mtime |-> clock, version |-> job.record.version] \in Stats
    BY <2>1 DEF Stats, Records
  <2>. QED
    BY <1>12, <2>1, <2>2 DEF Rename, Stats
<1>13. CASE Utimes
  <2>1. job.file \in Files /\ job.record \in Records
    BY <1>13 DEF Utimes, Jobs
  <2>2. Stamp[job.record.mtime] \in Times
    BY <2>1, StampAssumption DEF Records
  <2>3. stored[job.file].version \in Versions
    BY <1>13, <2>1 DEF Utimes, Stats
  <2>4. stored' \in [Files -> {None} \cup Stats]
    BY <1>13, <2>1, <2>2, <2>3 DEF Utimes, Stats
  <2>. QED
    BY <1>13, <2>4 DEF Utimes
<1>14. CASE Append
  <2>1. job.file \in Files /\ job.record \in Records
    BY <1>14 DEF Append, Jobs
  <2>. QED
    BY <1>14, <2>1 DEF Append, AppendLine
<1>15. CASE Kill
  <2>1. faults' \in 0 .. MaxFaults
    BY <1>15, BoundsAssumption DEF Kill
  <2>2. pc = "append" => job \in Jobs
    OBVIOUS
  <2>3. pc = "append" => [file |-> job.file, record |-> None] \in [file : Files, record : {None} \cup Records]
    BY <2>2 DEF Jobs
  <2>4. tail' \in {None} \cup [file : Files, record : {None} \cup Records]
    BY <1>15, <2>2, <2>3 DEF Kill, Jobs
  <2>. QED
    BY <1>15, <2>1, <2>4 DEF Kill
<1>. QED
  BY <1>1, <1>2, <1>3, <1>4, <1>5, <1>6, <1>7, <1>8, <1>9, <1>10, <1>11, <1>12,
     <1>13, <1>14, <1>15 DEF Next, Step

-----------------------------------------------------------------------------
(***************************************************************************)
(* The inductive invariant, when no sweep is killed and the index is not   *)
(* deleted.                                                                *)
(***************************************************************************)

(* The stored copy of f is new and has no record yet.                      *)
InFlight(f) == pc \in {"utimes", "append"} /\ job.file = f

(* No file is modified in the future.                                      *)
SourcesArePast == \A f \in Files : source[f] # None => source[f].mtime <= clock

(* The index has whole lines only, the sweep's copy of it is up to date,   *)
(* and nothing is left to do between sweeps.                               *)
IndexIsWhole ==
    /\ tail = None
    /\ pc # "idle" => records = index
    /\ pc \in {"idle", "enumerate"} => todo = {}

(* What the sweep knows of a file comes from the file.                     *)
KnownFromSource ==
    \A f \in Files : source[f] = None /\ f \notin gone =>
        stored[f] = None /\ f \notin todo /\ ~(pc \in Busy /\ job.file = f)

(* Copy and record of a settled file: the copy's time is at most the       *)
(* record's, which is at most the source's; the record's size is at most   *)
(* the copy's, which is at most the source's.                              *)
Orderly(f) ==
    stored[f] # None /\ ~InFlight(f) =>
        /\ index[f] # None
        /\ stored[f].mtime <= index[f].mtime
        /\ index[f].size <= stored[f].version
        /\ source[f] # None =>
            /\ index[f].mtime <= source[f].mtime
            /\ stored[f].version <= source[f].version
AllOrderly == \A f \in Files : Orderly(f)

(* A listed file is not older than its record, and not being worked on.    *)
Listed ==
    \A f \in todo :
        /\ ~(pc \in Busy /\ job.file = f)
        /\ stored[f] # None => index[f].mtime <= listing[f].mtime
        /\ source[f] # None =>
            /\ listing[f].mtime <= source[f].mtime
            /\ listing[f].version <= source[f].version

(* The record in the making lags the source, and its size its content.     *)
JobLags ==
    LET record == job.record
        file == source[job.file]
    IN  /\ pc = "read" /\ file # None =>
            record.mtime <= file.mtime /\ record.size <= file.version
        /\ pc \in {"rename", "utimes", "append"} =>
            /\ record.size <= record.version
            /\ file # None => record.mtime <= file.mtime /\ record.version <= file.version
        /\ pc \in {"utimes", "append"} =>
            stored[job.file] # None /\ stored[job.file].version = record.version
        /\ pc = "append" => stored[job.file].mtime <= record.mtime

SweepInv ==
    TypeOK /\ SourcesArePast /\ IndexIsWhole /\ KnownFromSource
        /\ AllOrderly /\ Listed /\ JobLags

(* Without faults a sweep never repairs: a file that is not archived again *)
(* has the record of its copy.                                             *)
LEMMA NoRepair ==
    ASSUME SweepInv, NEW f \in Files, Decide(f),
           ~ShouldArchive(listing[f], stored[f], records[f])
    PROVE  ~NeedsRecord(stored[f], records[f])
<1>. SUFFICES ASSUME stored[f] # None
              PROVE  records[f] # None /\ records[f].mtime = stored[f].mtime
  BY DEF NeedsRecord
<1>1. f \in todo /\ pc = "next" /\ records = index
  BY DEF Decide, SweepInv, IndexIsWhole
<1>2. index[f] # None /\ stored[f].mtime <= index[f].mtime
  BY <1>1 DEF SweepInv, AllOrderly, Orderly, InFlight
<1>3. index[f].mtime <= listing[f].mtime
  BY <1>1 DEF SweepInv, Listed
<1>4. listing[f].mtime \in Int /\ stored[f].mtime \in Int /\ index[f].mtime \in Int
  BY <1>1, <1>2, BoundsAssumption DEF SweepInv, TypeOK, Stats, Records, Times
<1>5. listing[f].mtime <= stored[f].mtime
  BY <1>4 DEF ShouldArchive
<1>. QED
  BY <1>1, <1>2, <1>3, <1>4, <1>5

LEMMA SweepStep == SweepInv /\ [Next]_vars /\ faults' = 0 => SweepInv'
<1>. SUFFICES ASSUME SweepInv, [Next]_vars, faults' = 0 PROVE SweepInv'
  OBVIOUS
<1>0. TypeOK /\ TypeOK'
  BY TypeStep DEF SweepInv
<1>. USE <1>0 DEF archive, harness, sweep
<1>1. CASE UNCHANGED vars
  BY <1>1 DEF vars, SweepInv, SourcesArePast, IndexIsWhole, KnownFromSource, AllOrderly,
     Orderly, InFlight, Listed, JobLags
<1>2. CASE Tick
  <2>1. SourcesArePast'
    BY <1>2, BoundsAssumption DEF SweepInv, Tick, SourcesArePast, TypeOK, Busy,
       Stats, Jobs, Records, Times, Versions
  <2>2. IndexIsWhole'
    BY <1>2 DEF SweepInv, Tick, IndexIsWhole, Busy
  <2>3. KnownFromSource'
    BY <1>2 DEF SweepInv, Tick, KnownFromSource, Busy
  <2>4. AllOrderly'
    BY <1>2 DEF SweepInv, Tick, AllOrderly, Orderly, InFlight
  <2>5. Listed'
    BY <1>2 DEF SweepInv, Tick, Listed, Busy
  <2>6. JobLags'
    BY <1>2 DEF SweepInv, Tick, JobLags
  <2>. QED
    BY <2>1, <2>2, <2>3, <2>4, <2>5, <2>6 DEF SweepInv
<1>3. ASSUME NEW f \in Files, Write(f) PROVE SweepInv'
  <2>1. SourcesArePast'
    BY <1>3, BoundsAssumption DEF SweepInv, Write, Size, SourcesArePast, TypeOK,
       Busy, Stats, Jobs, Records, Times, Versions
  <2>2. IndexIsWhole'
    BY <1>3 DEF SweepInv, Write, Size, IndexIsWhole, Busy
  <2>3. KnownFromSource'
    BY <1>3, BoundsAssumption, NoneAssumption DEF SweepInv, Write, Size,
       KnownFromSource, Busy, TypeOK, Stats, Jobs, Records, Times, Versions
  <2>4. AllOrderly'
    BY <1>3, BoundsAssumption, NoneAssumption DEF SweepInv, Write, Size,
       AllOrderly, Orderly, InFlight, TypeOK, Busy, Stats, Jobs, Records, Times,
       Versions, SourcesArePast, IndexIsWhole, KnownFromSource, Listed, JobLags
  <2>5. Listed'
    BY <1>3, BoundsAssumption, NoneAssumption DEF SweepInv, Write, Size, Listed,
       Busy, TypeOK, Stats, Jobs, Records, Times, Versions, SourcesArePast,
       IndexIsWhole, KnownFromSource, AllOrderly, JobLags, Orderly, InFlight
  <2>6. JobLags'
    BY <1>3, BoundsAssumption, NoneAssumption DEF SweepInv, Write, Size, JobLags,
       TypeOK, Busy, Stats, Jobs, Records, Times, Versions, SourcesArePast,
       IndexIsWhole, KnownFromSource, AllOrderly, Listed, Orderly, InFlight
  <2>. QED
    BY <2>1, <2>2, <2>3, <2>4, <2>5, <2>6 DEF SweepInv
<1>4. ASSUME NEW f \in Files, Vanish(f) PROVE SweepInv'
  <2>1. SourcesArePast'
    BY <1>4 DEF SweepInv, Vanish, SourcesArePast
  <2>2. IndexIsWhole'
    BY <1>4 DEF SweepInv, Vanish, IndexIsWhole, Busy
  <2>3. KnownFromSource'
    BY <1>4 DEF SweepInv, Vanish, KnownFromSource, Busy
  <2>4. AllOrderly'
    BY <1>4 DEF SweepInv, Vanish, AllOrderly, Orderly, InFlight
  <2>5. Listed'
    BY <1>4 DEF SweepInv, Vanish, Listed, Busy
  <2>6. JobLags'
    BY <1>4 DEF SweepInv, Vanish, JobLags
  <2>. QED
    BY <2>1, <2>2, <2>3, <2>4, <2>5, <2>6 DEF SweepInv
<1>5. CASE ReadIndex
  <2>1. SourcesArePast'
    BY <1>5 DEF SweepInv, ReadIndex, Read, SourcesArePast
  <2>2. IndexIsWhole'
    BY <1>5 DEF SweepInv, ReadIndex, Read, IndexIsWhole, Busy, TypeOK, Stats, Jobs,
       Records
  <2>3. KnownFromSource'
    BY <1>5 DEF SweepInv, ReadIndex, Read, KnownFromSource, Busy
  <2>4. AllOrderly'
    BY <1>5 DEF SweepInv, ReadIndex, Read, AllOrderly, Orderly, InFlight
  <2>5. Listed'
    BY <1>5 DEF SweepInv, ReadIndex, Read, Listed, Busy
  <2>6. JobLags'
    BY <1>5 DEF SweepInv, ReadIndex, Read, JobLags
  <2>. QED
    BY <2>1, <2>2, <2>3, <2>4, <2>5, <2>6 DEF SweepInv
<1>6. CASE Enumerate
  <2>1. SourcesArePast'
    BY <1>6 DEF SweepInv, Enumerate, SourcesArePast
  <2>2. IndexIsWhole'
    BY <1>6 DEF SweepInv, Enumerate, IndexIsWhole, Busy
  <2>3. KnownFromSource'
    BY <1>6 DEF SweepInv, Enumerate, KnownFromSource, Busy
  <2>4. AllOrderly'
    BY <1>6 DEF SweepInv, Enumerate, AllOrderly, Orderly, InFlight
  <2>5. Listed'
    BY <1>6, BoundsAssumption, NoneAssumption DEF SweepInv, Enumerate, Listed,
       Busy, TypeOK, Stats, Jobs, Records, Times, Versions, SourcesArePast,
       IndexIsWhole, KnownFromSource, AllOrderly, JobLags, Orderly, InFlight
  <2>6. JobLags'
    BY <1>6 DEF SweepInv, Enumerate, JobLags
  <2>. QED
    BY <2>1, <2>2, <2>3, <2>4, <2>5, <2>6 DEF SweepInv
<1>7. CASE Finish
  <2>1. SourcesArePast'
    BY <1>7 DEF SweepInv, Finish, SourcesArePast
  <2>2. IndexIsWhole'
    BY <1>7 DEF SweepInv, Finish, IndexIsWhole, Busy
  <2>3. KnownFromSource'
    BY <1>7 DEF SweepInv, Finish, KnownFromSource, Busy
  <2>4. AllOrderly'
    BY <1>7 DEF SweepInv, Finish, AllOrderly, Orderly, InFlight
  <2>5. Listed'
    BY <1>7 DEF SweepInv, Finish, Listed, Busy
  <2>6. JobLags'
    BY <1>7 DEF SweepInv, Finish, JobLags
  <2>. QED
    BY <2>1, <2>2, <2>3, <2>4, <2>5, <2>6 DEF SweepInv
<1>8. ASSUME NEW f \in Files, Decide(f) PROVE SweepInv'
  <2>1. SourcesArePast'
    BY <1>8, NoRepair DEF SweepInv, Decide, Job, SourcesArePast
  <2>2. IndexIsWhole'
    BY <1>8, NoRepair DEF SweepInv, Decide, Job, IndexIsWhole, Busy
  <2>3. KnownFromSource'
    BY <1>8, NoRepair DEF SweepInv, Decide, Job, KnownFromSource, Busy
  <2>4. AllOrderly'
    BY <1>8, NoRepair DEF SweepInv, Decide, Job, AllOrderly, Orderly, InFlight
  <2>5. Listed'
    BY <1>8, NoRepair DEF SweepInv, Decide, Job, Listed, Busy
  <2>6. JobLags'
    BY <1>8, NoRepair DEF SweepInv, Decide, Job, JobLags
  <2>. QED
    BY <2>1, <2>2, <2>3, <2>4, <2>5, <2>6 DEF SweepInv
<1>9. CASE Stat
  <2>1. SourcesArePast'
    BY <1>9 DEF SweepInv, Stat, Job, SourcesArePast
  <2>2. IndexIsWhole'
    BY <1>9 DEF SweepInv, Stat, Job, IndexIsWhole, Busy
  <2>3. KnownFromSource'
    BY <1>9 DEF SweepInv, Stat, Job, KnownFromSource, Busy
  <2>4. AllOrderly'
    BY <1>9 DEF SweepInv, Stat, Job, AllOrderly, Orderly, InFlight
  <2>5. Listed'
    BY <1>9 DEF SweepInv, Stat, Job, Listed, Busy
  <2>6. JobLags'
    BY <1>9, BoundsAssumption DEF SweepInv, Stat, Job, JobLags, TypeOK, Busy,
       Stats, Jobs, Records, Times, Versions
  <2>. QED
    BY <2>1, <2>2, <2>3, <2>4, <2>5, <2>6 DEF SweepInv
<1>10. CASE ReadSource
  <2>1. SourcesArePast'
    BY <1>10 DEF SweepInv, ReadSource, Job, SourcesArePast
  <2>2. IndexIsWhole'
    BY <1>10 DEF SweepInv, ReadSource, Job, IndexIsWhole, Busy
  <2>3. KnownFromSource'
    BY <1>10 DEF SweepInv, ReadSource, Job, KnownFromSource, Busy
  <2>4. AllOrderly'
    BY <1>10 DEF SweepInv, ReadSource, Job, AllOrderly, Orderly, InFlight
  <2>5. Listed'
    BY <1>10 DEF SweepInv, ReadSource, Job, Listed, Busy
  <2>6. JobLags'
    BY <1>10, BoundsAssumption DEF SweepInv, ReadSource, Job, JobLags, TypeOK,
       Busy, Stats, Jobs, Records, Times, Versions
  <2>. QED
    BY <2>1, <2>2, <2>3, <2>4, <2>5, <2>6 DEF SweepInv
<1>11. CASE Rename
  <2>1. SourcesArePast'
    BY <1>11 DEF SweepInv, Rename, SourcesArePast
  <2>2. IndexIsWhole'
    BY <1>11 DEF SweepInv, Rename, IndexIsWhole, Busy
  <2>3. KnownFromSource'
    BY <1>11 DEF SweepInv, Rename, KnownFromSource, Busy
  <2>4. AllOrderly'
    BY <1>11 DEF SweepInv, Rename, AllOrderly, Orderly, InFlight
  <2>5. Listed'
    BY <1>11 DEF SweepInv, Rename, Listed, Busy
  <2>6. JobLags'
    BY <1>11, BoundsAssumption, NoneAssumption DEF SweepInv, Rename, JobLags,
       TypeOK, Busy, Stats, Jobs, Records, Times, Versions
  <2>. QED
    BY <2>1, <2>2, <2>3, <2>4, <2>5, <2>6 DEF SweepInv
<1>12. CASE Utimes
  <2>1. SourcesArePast'
    BY <1>12 DEF SweepInv, Utimes, SourcesArePast
  <2>2. IndexIsWhole'
    BY <1>12 DEF SweepInv, Utimes, IndexIsWhole, Busy
  <2>3. KnownFromSource'
    BY <1>12 DEF SweepInv, Utimes, KnownFromSource, Busy
  <2>4. AllOrderly'
    BY <1>12 DEF SweepInv, Utimes, AllOrderly, Orderly, InFlight
  <2>5. Listed'
    BY <1>12 DEF SweepInv, Utimes, Listed, Busy
  <2>6. JobLags'
    <3>1. job.file \in Files /\ job.record.mtime \in Times /\ stored[job.file] \in Stats
      BY <1>12 DEF Utimes, TypeOK, Busy, Jobs, Records
    <3>2. stored'[job.file] =
              [mtime |-> Stamp[job.record.mtime], version |-> stored[job.file].version]
      BY <1>12, <3>1 DEF Utimes, TypeOK
    <3>3. Stamp[job.record.mtime] \in Times /\ Stamp[job.record.mtime] <= job.record.mtime
      BY <3>1, StampAssumption
    <3>4. stored'[job.file] # None
      BY <3>1, <3>2, <3>3, NoneAssumption DEF Stats
    <3>. QED
      BY <1>12, <3>2, <3>3, <3>4 DEF SweepInv, JobLags, Utimes
  <2>. QED
    BY <2>1, <2>2, <2>3, <2>4, <2>5, <2>6 DEF SweepInv
<1>13. CASE Append
  <2>1. SourcesArePast'
    BY <1>13 DEF SweepInv, Append, AppendLine, SourcesArePast
  <2>2. IndexIsWhole'
    BY <1>13 DEF SweepInv, Append, AppendLine, IndexIsWhole, Busy
  <2>3. KnownFromSource'
    BY <1>13 DEF SweepInv, Append, AppendLine, KnownFromSource, Busy
  <2>4. AllOrderly'
    BY <1>13, BoundsAssumption, NoneAssumption DEF SweepInv, Append, AppendLine,
       AllOrderly, Orderly, InFlight, TypeOK, Busy, Stats, Jobs, Records, Times,
       Versions, SourcesArePast, IndexIsWhole, KnownFromSource, Listed, JobLags
  <2>5. Listed'
    BY <1>13 DEF SweepInv, Append, AppendLine, Listed, Busy
  <2>6. JobLags'
    BY <1>13 DEF SweepInv, Append, AppendLine, JobLags
  <2>. QED
    BY <2>1, <2>2, <2>3, <2>4, <2>5, <2>6 DEF SweepInv
<1>14. ~DeleteIndex /\ ~Kill
  BY DEF DeleteIndex, Kill, TypeOK
<1>. QED
  BY <1>1, <1>2, <1>3, <1>4, <1>5, <1>6, <1>7, <1>8, <1>9, <1>10, <1>11, <1>12,
     <1>13, <1>14 DEF Next, Step

-----------------------------------------------------------------------------
LEMMA SweepInitially == Init => SweepInv
<1>. SUFFICES ASSUME Init PROVE SweepInv
  OBVIOUS
<1>1. TypeOK
  BY BoundsAssumption DEF Init, TypeOK, Times, Busy
<1>2. SourcesArePast /\ IndexIsWhole /\ KnownFromSource /\ AllOrderly /\ Listed /\ JobLags
  BY DEF Init, SourcesArePast, IndexIsWhole, KnownFromSource, AllOrderly, Orderly, Listed,
     JobLags, Busy
<1>. QED
  BY <1>1, <1>2 DEF SweepInv

(* Every variable keeps its type, kills and deletions of the index         *)
(* included.                                                               *)
THEOREM SweepTypes == Spec => []TypeOK
<1>1. Init => TypeOK
  BY SweepInitially DEF SweepInv
<1>. QED
  BY <1>1, TypeStep, PTL DEF Spec

(* No step takes a fault back.                                             *)
LEMMA FaultsStay == TypeOK /\ [Next]_vars /\ faults' = 0 => faults = 0
<1>. SUFFICES ASSUME TypeOK, [Next]_vars, faults' = 0, faults # 0 PROVE FALSE
  OBVIOUS
<1>1. UNCHANGED faults \/ faults' = faults + 1
  BY DEF Next, vars, Tick, Write, Vanish, DeleteIndex, Kill, Step, ReadIndex, Enumerate,
     Finish, Decide, Stat, ReadSource, Rename, Utimes, Append
<1>. QED
  BY <1>1 DEF TypeOK

(* Until a fault, the invariant holds.                                     *)
UntilFault == TypeOK /\ (faults = 0 => SweepInv)

(* Until a sweep is killed or the index deleted, the sweep decides by times *)
(* and sizes alone and still skips only sessions that are archived as they *)
(* are: for any number of files, growing between any two steps of the copy, *)
(* and any rounding of their times.                                        *)
THEOREM SkipsAreSafe == Spec => []SkipsOnlyArchived
<1>1. UntilFault /\ [Next]_vars => UntilFault'
  BY SweepStep, TypeStep, FaultsStay DEF UntilFault
<1>2. UntilFault => SkipsOnlyArchived
  <2>. SUFFICES ASSUME SweepInv, pc = "idle",
                       NEW f \in Files, source[f] # None,
                       ~ShouldArchive(source[f], stored[f], Read[f])
                PROVE  stored[f].version = source[f].version
    BY DEF SkipsOnlyArchived, UntilFault
  <2>1. stored[f] # None /\ Read[f] = index[f]
    BY DEF ShouldArchive, Read, SweepInv, IndexIsWhole
  <2>2. /\ index[f] # None
        /\ stored[f].mtime <= index[f].mtime /\ index[f].mtime <= source[f].mtime
        /\ index[f].size <= stored[f].version /\ stored[f].version <= source[f].version
    BY <2>1 DEF SweepInv, AllOrderly, Orderly, InFlight
  <2>3. source[f] \in Stats /\ stored[f] \in Stats /\ index[f] \in Records
    BY <2>1, <2>2 DEF SweepInv, TypeOK
  <2>4. source[f].mtime = stored[f].mtime => source[f].version = index[f].size
    BY <2>1, <2>2 DEF ShouldArchive
  <2>5. ~(source[f].mtime > stored[f].mtime)
    BY DEF ShouldArchive
  <2>. QED
    BY <2>2, <2>3, <2>4, <2>5, BoundsAssumption DEF Stats, Records, Times, Versions
<1>3. Init => UntilFault
  BY SweepInitially DEF UntilFault, SweepInv
<1>. QED
  BY <1>1, <1>2, <1>3, PTL DEF Spec
-----------------------------------------------------------------------------
(***************************************************************************)
(* Doctor beside no sweep and after no fault: what it compares at its own  *)
(* pace cannot change but in the harnesses' files, and it goes by what it  *)
(* listed of those.                                                        *)
(***************************************************************************)

(* Every field of the run has its type.                                    *)
DoctorTyped ==
    doctor # None =>
        doctor \in [now : Times,
                    sources : {None} \cup [Files -> {None} \cup Stats],
                    tree : {None} \cup SUBSET Files,
                    records : {None} \cup [Files -> {None} \cup Records],
                    todo : SUBSET Files, copies : SUBSET Files, gaps : SUBSET Files,
                    notes : BOOLEAN, status : {None} \cup Statuses,
                    alone : BOOLEAN]

(* A record is that of a copy, and of one stat of the session: it has the  *)
(* size that the session has now only if it has its time as well.          *)
OfOneStat(record, file) ==
    /\ record.size <= file.version
    /\ record.size = file.version => record.mtime = file.mtime

RecordsAreStats ==
    /\ \A f \in Files : index[f] # None =>
          stored[f] # None /\ (source[f] # None => OfOneStat(index[f], source[f]))
    /\ pc \in Busy \ {"stat"} =>
          stored[job.file] # None \/ pc \in {"read", "rename"}
    /\ pc \in Busy \ {"stat"} /\ source[job.file] # None =>
          OfOneStat(job.record, source[job.file])

(* A file system that keeps the times utimes is given.                     *)
ExactTimes == \A t \in Times : Stamp[t] = t

(* There a settled copy has the time of its record.                        *)
CopiesAreDated ==
    /\ \A f \in Files : stored[f] # None /\ ~InFlight(f) => stored[f].mtime = index[f].mtime
    /\ pc = "append" => stored[job.file].mtime = job.record.mtime

Undisturbed == doctor # None /\ doctor.alone /\ faults = 0

(* What doctor listed of a session is not behind its copy or its record.   *)
ListedLater ==
    \A f \in Files : doctor.sources[f] # None /\ stored[f] # None =>
        /\ index[f].mtime <= doctor.sources[f].mtime
        /\ stored[f].version <= doctor.sources[f].version
        /\ OfOneStat(index[f], doctor.sources[f])

(* What it has read is still so.                                           *)
ViewIsCurrent ==
    /\ doctor.tree # None => doctor.tree = {f \in Files : stored[f] # None}
    /\ doctor.records # None => doctor.records = Read

ListedSessions == {f \in Files : doctor.sources[f] # None}

(* Until it has read everything it has inspected nothing; from then on the *)
(* gaps and notes are those of the sessions and copies behind it.          *)
Progress ==
    IF doctor.tree = None \/ doctor.records = None
    THEN /\ doctor.todo = ListedSessions /\ doctor.gaps = {}
         /\ doctor.tree # None => doctor.copies = doctor.tree
    ELSE /\ doctor.todo \subseteq ListedSessions
         /\ \A f \in ListedSessions \ doctor.todo : MissingOrStale(f) =>
               doctor.notes /\ (IsPending(f) \/ f \in doctor.gaps)
         /\ \A f \in doctor.gaps :
               f \in ListedSessions /\ MissingOrStale(f) /\ ~IsPending(f)
         /\ \A f \in doctor.tree \ doctor.copies : Drifts(f) => doctor.notes

DoctorInv ==
    Undisturbed =>
        /\ pc = "idle"
        /\ doctor.sources = None =>
              /\ doctor.tree = None /\ doctor.records = None /\ doctor.status = None
              /\ doctor.gaps = {}
        /\ doctor.sources # None => ListedLater
        /\ doctor.sources # None /\ doctor.status = None => ViewIsCurrent /\ Progress

ReconcileInv ==
    /\ UntilFault /\ DoctorTyped
    /\ faults = 0 => RecordsAreStats /\ (ExactTimes => CopiesAreDated)
    /\ DoctorInv
    /\ AllClearIsTrue /\ (ExactTimes => AlarmIsTrue)

-----------------------------------------------------------------------------
(* Doctor only looks: its steps are stuttering steps of the sweep.         *)
LEMMA DoctorOnlyLooks == DoctorStep => UNCHANGED vars
BY DEF DoctorStep, CreateDoctorContext, ListSources, WalkFiles, ReadDerivedIndex,
   CheckReconciled, InspectSource, InspectCopy

LEMMA SweepOrLook == [ReconcileNext]_reconcileVars => [Next]_vars
BY DoctorOnlyLooks DEF ReconcileNext, reconcileVars, Beside

LEMMA RecordsStep ==
    SweepInv /\ RecordsAreStats /\ [Next]_vars /\ faults' = 0 => RecordsAreStats'
<1>. SUFFICES ASSUME SweepInv, RecordsAreStats, [Next]_vars, faults' = 0
              PROVE  RecordsAreStats'
  OBVIOUS
<1>0. TypeOK
  BY DEF SweepInv
<1>. USE <1>0 DEF archive, harness, sweep, RecordsAreStats, OfOneStat
<1>1. CASE UNCHANGED vars
  BY <1>1 DEF vars
<1>2. CASE Tick
  BY <1>2 DEF Tick, Busy
<1>3. ASSUME NEW f \in Files, Write(f) PROVE RecordsAreStats'
  <2>1. source[f] # None => source'[f].version = source[f].version + 1
    BY <1>3 DEF Write, Size, TypeOK
  <2>2. source[f] # None => source[f].version \in Int
    BY BoundsAssumption DEF TypeOK, Stats, Versions
  <2>3. \A g \in Files : index[g] # None => index[g].size \in Int
    BY BoundsAssumption DEF TypeOK, Records, Versions
  <2>4. pc \in Busy => job.file \in Files /\ job.record.size \in Int
    BY BoundsAssumption DEF TypeOK, Jobs, Records, Versions
  <2>5. source[f] = None => stored[f] = None /\ ~(pc \in Busy /\ job.file = f)
    BY <1>3 DEF SweepInv, KnownFromSource, Write
  <2>6. /\ \A g \in Files \ {f} : source'[g] = source[g]
        /\ UNCHANGED <<index, stored, pc, job>>
    BY <1>3 DEF Write, TypeOK
  <2>. QED
    BY <2>1, <2>2, <2>3, <2>4, <2>5, <2>6 DEF Busy
<1>4. ASSUME NEW f \in Files, Vanish(f) PROVE RecordsAreStats'
  BY <1>4 DEF Vanish, Busy, TypeOK, Jobs
<1>5. CASE ReadIndex
  BY <1>5 DEF ReadIndex, Busy
<1>6. CASE Enumerate
  BY <1>6 DEF Enumerate, Busy
<1>7. CASE Finish
  BY <1>7 DEF Finish, Busy
<1>8. ASSUME NEW f \in Files, Decide(f) PROVE RecordsAreStats'
  BY <1>8, NoRepair DEF Decide, Busy
<1>9. CASE Stat
  <2>1. job.file \in Files
    BY <1>9 DEF Stat, TypeOK, Busy, Jobs
  <2>2. source[job.file] # None => source[job.file].version \in Int
    BY <2>1, BoundsAssumption DEF TypeOK, Stats, Versions
  <2>. QED
    BY <1>9, <2>1, <2>2 DEF Stat, Job, Busy
<1>10. CASE ReadSource
  BY <1>10 DEF ReadSource, Job, Busy
<1>11. CASE Rename
  <2>1. job.file \in Files
    BY <1>11 DEF Rename, TypeOK, Busy, Jobs
  <2>2. stored'[job.file] # None /\ \A f \in Files : stored[f] # None => stored'[f] # None
    BY <1>11, <2>1, NoneAssumption DEF Rename, TypeOK, Busy, Jobs, Stats, Records
  <2>. QED
    BY <1>11, <2>1, <2>2 DEF Rename, Busy
<1>12. CASE Utimes
  <2>1. job.file \in Files
    BY <1>12 DEF Utimes, TypeOK, Busy, Jobs
  <2>2. \A f \in Files : stored[f] # None => stored'[f] # None
    <3>1. stored'[job.file] \in Stats
      BY <1>12, <2>1, StampAssumption DEF Utimes, TypeOK, Busy, Jobs, Stats, Records
    <3>. QED
      BY <1>12, <2>1, <3>1, NoneAssumption DEF Utimes, TypeOK
  <2>. QED
    BY <1>12, <2>1, <2>2 DEF Utimes, Busy
<1>13. CASE Append
  <2>1. job.file \in Files
    BY <1>13 DEF Append, TypeOK, Busy, Jobs
  <2>2. stored[job.file] # None
    BY <1>13, <2>1 DEF Append, SweepInv, JobLags
  <2>3. index' = [index EXCEPT ![job.file] = job.record]
    BY <1>13 DEF Append, AppendLine, SweepInv, IndexIsWhole
  <2>. QED
    BY <1>13, <2>1, <2>2, <2>3 DEF Append, Busy, TypeOK
<1>14. ~DeleteIndex /\ ~Kill
  BY DEF DeleteIndex, Kill, TypeOK
<1>. QED
  BY <1>1, <1>2, <1>3, <1>4, <1>5, <1>6, <1>7, <1>8, <1>9, <1>10, <1>11, <1>12,
     <1>13, <1>14 DEF Next, Step

LEMMA DatedStep ==
    ASSUME ExactTimes, SweepInv, CopiesAreDated, [Next]_vars, faults' = 0
    PROVE  CopiesAreDated'
<1>0. TypeOK
  BY DEF SweepInv
<1>. USE <1>0 DEF archive, harness, sweep, CopiesAreDated, InFlight
<1>1. CASE UNCHANGED vars
  BY <1>1 DEF vars
<1>2. CASE Tick
  BY <1>2 DEF Tick
<1>3. ASSUME NEW f \in Files, Write(f) PROVE CopiesAreDated'
  BY <1>3 DEF Write
<1>4. ASSUME NEW f \in Files, Vanish(f) PROVE CopiesAreDated'
  BY <1>4 DEF Vanish
<1>5. CASE ReadIndex
  BY <1>5 DEF ReadIndex
<1>6. CASE Enumerate
  BY <1>6 DEF Enumerate
<1>7. CASE Finish
  BY <1>7 DEF Finish
<1>8. ASSUME NEW f \in Files, Decide(f) PROVE CopiesAreDated'
  BY <1>8, NoRepair DEF Decide
<1>9. CASE Stat
  BY <1>9 DEF Stat
<1>10. CASE ReadSource
  BY <1>10 DEF ReadSource
<1>11. CASE Rename
  BY <1>11 DEF Rename, TypeOK
<1>12. CASE Utimes
  <2>1. job.file \in Files /\ job.record.mtime \in Times
    BY <1>12 DEF Utimes, TypeOK, Busy, Jobs, Records
  <2>2. stored'[job.file].mtime = job.record.mtime
    BY <1>12, <2>1 DEF Utimes, TypeOK, ExactTimes
  <2>. QED
    BY <1>12, <2>1, <2>2 DEF Utimes, TypeOK
<1>13. CASE Append
  <2>1. job.file \in Files
    BY <1>13 DEF Append, TypeOK, Busy, Jobs
  <2>2. index' = [index EXCEPT ![job.file] = job.record]
    BY <1>13 DEF Append, AppendLine, SweepInv, IndexIsWhole
  <2>. QED
    BY <1>13, <2>1, <2>2 DEF Append, TypeOK
<1>14. ~DeleteIndex /\ ~Kill
  BY DEF DeleteIndex, Kill, TypeOK
<1>. QED
  BY <1>1, <1>2, <1>3, <1>4, <1>5, <1>6, <1>7, <1>8, <1>9, <1>10, <1>11, <1>12,
     <1>13, <1>14 DEF Next, Step

-----------------------------------------------------------------------------
(* Every field of doctor's run keeps its type.                             *)
LEMMA DoctorTypedStep ==
    TypeOK /\ DoctorTyped /\ [ReconcileNext]_reconcileVars => DoctorTyped'
<1>. SUFFICES ASSUME TypeOK, DoctorTyped, [ReconcileNext]_reconcileVars PROVE DoctorTyped'
  OBVIOUS
<1>. USE DEF DoctorTyped, Reading, Inspecting
<1>1. CASE UNCHANGED doctor
  BY <1>1
<1>2. CASE Beside(Next)
  BY <1>2 DEF Beside
<1>3. CASE CreateDoctorContext
  BY <1>3 DEF CreateDoctorContext, TypeOK
<1>4. CASE ListSources
  BY <1>4 DEF ListSources, TypeOK
<1>5. CASE WalkFiles
  BY <1>5 DEF WalkFiles
<1>6. CASE ReadDerivedIndex
  <2>1. Read \in [Files -> {None} \cup Records]
    BY DEF TypeOK, Read
  <2>. QED
    BY <1>6, <2>1 DEF ReadDerivedIndex
<1>7. CASE CheckReconciled
  BY <1>7 DEF CheckReconciled, Statuses
<1>8. ASSUME NEW f \in Files, InspectSource(f) PROVE DoctorTyped'
  <2>1. (doctor.notes \/ MissingOrStale(f)) \in BOOLEAN
    BY DEF MissingOrStale, ShouldArchive
  <2>. QED
    BY <1>8, <2>1 DEF InspectSource
<1>9. ASSUME NEW f \in Files, InspectCopy(f) PROVE DoctorTyped'
  BY <1>9 DEF InspectCopy
<1>. QED
  BY <1>1, <1>2, <1>3, <1>4, <1>5, <1>6, <1>7, <1>8, <1>9
     DEF ReconcileNext, DoctorStep, reconcileVars

(* While no sweep starts only the harnesses and the clock move.            *)
LEMMA OnlyHarnesses ==
    ASSUME TypeOK, DoctorTyped, DoctorInv, Beside(Next), Undisturbed'
    PROVE  Undisturbed /\ UNCHANGED <<pc, stored, index, tail, doctor>>
<1>1. doctor # None
  BY DEF Beside, Undisturbed
<1>2. pc' = "idle" /\ UNCHANGED doctor
  BY <1>1 DEF Beside, Undisturbed, DoctorTyped
<1>3. Undisturbed
  BY <1>2, FaultsStay DEF Undisturbed, Beside
<1>4. pc = "idle"
  BY <1>3 DEF DoctorInv
<1>5. UNCHANGED <<pc, stored, index, tail>>
  BY <1>2, <1>3, <1>4 DEF Beside, Undisturbed, Next, Step, Tick, Write, Vanish, DeleteIndex, Kill,
     ReadIndex, Enumerate, Finish, Decide, Stat, ReadSource, Rename, Utimes, Append,
     archive, harness, sweep, TypeOK
<1>. QED
  BY <1>2, <1>3, <1>5

-----------------------------------------------------------------------------
(* The archive between sweeps, as the doctor compares it with its list.    *)
Settled == SweepInv /\ RecordsAreStats /\ pc = "idle"

LEMMA SettledFile ==
    ASSUME Settled, NEW f \in Files
    PROVE  /\ Read[f] = index[f]
           /\ index[f] # None => index[f] \in Records /\ stored[f] # None
           /\ stored[f] # None =>
                /\ stored[f] \in Stats /\ index[f] # None
                /\ stored[f].mtime <= index[f].mtime /\ index[f].size <= stored[f].version
BY DEF Settled, SweepInv, RecordsAreStats, IndexIsWhole, AllOrderly, Orderly, InFlight,
   TypeOK, Read

Compared ==
    /\ Settled /\ DoctorTyped /\ doctor # None /\ doctor.sources # None
    /\ ListedLater /\ doctor.records = Read

(* A session that is neither missing nor stale is archived as listed.      *)
LEMMA QuietIsArchived ==
    ASSUME Compared, NEW f \in Files, doctor.sources[f] # None, ~MissingOrStale(f)
    PROVE  stored[f] # None /\ stored[f].version >= doctor.sources[f].version
<1>. DEFINE S == doctor.sources[f]
<1>1. S \in Stats
  BY DEF Compared, DoctorTyped
<1>2. stored[f] # None /\ ~(S.mtime > stored[f].mtime)
  BY DEF MissingOrStale, ShouldArchive
<1>3. /\ doctor.records[f] = index[f] /\ index[f] # None
      /\ index[f] \in Records /\ stored[f] \in Stats
      /\ stored[f].mtime <= index[f].mtime /\ index[f].size <= stored[f].version
  BY <1>2, SettledFile DEF Compared
<1>4. index[f].mtime <= S.mtime
  BY <1>2 DEF Compared, ListedLater
<1>5. S.mtime = stored[f].mtime
  BY <1>1, <1>2, <1>3, <1>4, BoundsAssumption DEF Stats, Records, Times
<1>6. S.version = index[f].size
  BY <1>2, <1>3, <1>5 DEF MissingOrStale, ShouldArchive
<1>. QED
  BY <1>2, <1>3, <1>6, <1>1, BoundsAssumption DEF Stats, Records, Versions

(* Where copies have the times of their records, one that is stale is      *)
(* behind the session, or its record is.                                   *)
LEMMA StaleIsBehind ==
    ASSUME Compared, CopiesAreDated, NEW f \in Files, doctor.sources[f] # None, MissingOrStale(f)
    PROVE  \/ stored[f] = None
           \/ stored[f].version < doctor.sources[f].version
           \/ Read[f] # None /\ Read[f].size # doctor.sources[f].version
<1>. DEFINE S == doctor.sources[f]
<1>1. S \in Stats
  BY DEF Compared, DoctorTyped
<1>. SUFFICES ASSUME stored[f] # None, index[f].size = S.version PROVE FALSE
  BY SettledFile DEF Compared
<1>2. doctor.records[f] = index[f] /\ index[f] \in Records /\ stored[f] \in Stats
  BY SettledFile DEF Compared
<1>3. index[f].mtime = S.mtime
  BY DEF Compared, ListedLater, OfOneStat
<1>4. stored[f].mtime = index[f].mtime
  BY DEF CopiesAreDated, InFlight, Compared, Settled
<1>. QED
  BY <1>1, <1>2, <1>3, <1>4, BoundsAssumption DEF MissingOrStale, ShouldArchive, Stats, Times

(* Every record has its copy.                                              *)
LEMMA NoRecordAlone ==
    ASSUME Compared, doctor.tree = {f \in Files : stored[f] # None}
    PROVE  MissingFromTree = {}
BY SettledFile DEF Compared, MissingFromTree

-----------------------------------------------------------------------------
(* Each step of doctor keeps the invariant of its run.                     *)
LEMMA DoctorRunStep ==
    ASSUME DoctorStep, DoctorTyped, DoctorTyped', DoctorInv, Undisturbed',
           faults = 0 => SweepInv /\ RecordsAreStats,
           UNCHANGED vars
    PROVE  DoctorInv'
<1>. USE DEF DoctorTyped, Undisturbed, vars, harness, archive, sweep
<1>. SUFFICES /\ pc = "idle"
              /\ doctor'.sources = None =>
                    /\ doctor'.tree = None /\ doctor'.records = None /\ doctor'.status = None
                    /\ doctor'.gaps = {}
              /\ doctor'.sources # None => ListedLater'
              /\ doctor'.sources # None /\ doctor'.status = None => ViewIsCurrent' /\ Progress'
  BY DEF DoctorInv
<1>0. faults = 0 /\ SweepInv /\ RecordsAreStats
  OBVIOUS
<1>1. CASE CreateDoctorContext
  BY <1>1 DEF CreateDoctorContext
<1>2. ASSUME ~CreateDoctorContext
      PROVE  Undisturbed /\ pc = "idle" /\ doctor'.now = doctor.now
  BY <1>2 DEF DoctorStep, CreateDoctorContext, ListSources, WalkFiles, ReadDerivedIndex,
     CheckReconciled, InspectSource, InspectCopy, Reading, Inspecting, DoctorInv
<1>3. ASSUME ~CreateDoctorContext, ~ListSources
      PROVE  /\ doctor.sources # None /\ doctor.status = None /\ doctor'.sources = doctor.sources
             /\ ListedLater /\ ViewIsCurrent /\ Progress
  BY <1>2, <1>3 DEF DoctorStep, WalkFiles, ReadDerivedIndex, CheckReconciled, InspectSource,
     InspectCopy, Reading, Inspecting, DoctorInv
<1>4. ASSUME ~CreateDoctorContext, ~ListSources PROVE ListedLater'
  BY <1>3, <1>4 DEF ListedLater, OfOneStat
<1>5. CASE ListSources
  <2>1. ~CreateDoctorContext
    BY <1>5 DEF ListSources, CreateDoctorContext
  <2>2. /\ doctor'.sources = source /\ doctor'.tree = None /\ doctor'.records = None
        /\ doctor'.status = None /\ doctor'.gaps = {}
        /\ doctor'.todo = {f \in Files : source[f] # None}
    BY <1>2, <1>5, <2>1 DEF ListSources, DoctorInv
  <2>3. ListedLater'
    BY <1>0, <1>2, <2>1, <2>2 DEF ListedLater, SweepInv, AllOrderly, Orderly, InFlight,
       RecordsAreStats
  <2>4. ViewIsCurrent' /\ Progress'
    BY <2>2 DEF ViewIsCurrent, Progress, ListedSessions
  <2>. QED
    BY <1>2, <2>1, <2>2, <2>3, <2>4
<1>6. CASE WalkFiles
  <2>1. ~CreateDoctorContext /\ ~ListSources
    BY <1>6 DEF WalkFiles, Reading, ListSources, CreateDoctorContext
  <2>2. doctor'.tree = {f \in Files : stored[f] # None} /\ doctor'.copies = doctor'.tree
    BY <1>6 DEF WalkFiles, Reading
  <2>3. /\ doctor'.records = doctor.records /\ doctor'.todo = doctor.todo
        /\ doctor'.gaps = doctor.gaps /\ doctor.tree = None /\ doctor'.status = None
    BY <1>6 DEF WalkFiles, Reading
  <2>4. ViewIsCurrent'
    BY <1>3, <2>1, <2>2, <2>3 DEF ViewIsCurrent, Read
  <2>5. Progress'
    BY <1>3, <2>1, <2>2, <2>3 DEF Progress, ListedSessions
  <2>. QED
    BY <1>2, <1>3, <1>4, <2>1, <2>4, <2>5
<1>7. CASE ReadDerivedIndex
  <2>1. ~CreateDoctorContext /\ ~ListSources
    BY <1>7 DEF ReadDerivedIndex, Reading, ListSources, CreateDoctorContext
  <2>2. doctor'.records = Read /\ doctor'.tree = doctor.tree /\ doctor'.copies = doctor.copies
    BY <1>7 DEF ReadDerivedIndex, Reading
  <2>3. /\ doctor'.todo = doctor.todo /\ doctor'.gaps = doctor.gaps
        /\ doctor.records = None /\ doctor'.status = None
    BY <1>7 DEF ReadDerivedIndex, Reading
  <2>4. ViewIsCurrent'
    BY <1>3, <2>1, <2>2, <2>3 DEF ViewIsCurrent, Read
  <2>5. Progress'
    BY <1>3, <2>1, <2>2, <2>3 DEF Progress, ListedSessions
  <2>. QED
    BY <1>2, <1>3, <1>4, <2>1, <2>4, <2>5
<1>8. ASSUME NEW f \in Files, InspectSource(f)
      PROVE  doctor'.sources # None /\ ListedLater' /\ ViewIsCurrent' /\ Progress'
  <2>1. ~CreateDoctorContext /\ ~ListSources
    BY <1>8 DEF InspectSource, Inspecting, Reading, ListSources, CreateDoctorContext
  <2>2. /\ doctor'.records = doctor.records /\ doctor'.tree = doctor.tree
        /\ doctor'.copies = doctor.copies /\ doctor'.todo = doctor.todo \ {f}
        /\ doctor.tree # None /\ doctor.records # None
    BY <1>8 DEF InspectSource, Inspecting, Reading
  <2>3. /\ doctor'.gaps = IF MissingOrStale(f) /\ ~IsPending(f)
                          THEN doctor.gaps \cup {f} ELSE doctor.gaps
        /\ doctor'.notes = (doctor.notes \/ MissingOrStale(f))
    BY <1>8 DEF InspectSource, Inspecting, Reading
  <2>4. ViewIsCurrent'
    BY <1>3, <2>1, <2>2 DEF ViewIsCurrent, Read
  <2>5. /\ ListedSessions' = ListedSessions
        /\ \A g \in Files : /\ MissingOrStale(g)' <=> MissingOrStale(g)
                            /\ IsPending(g)' <=> IsPending(g)
                            /\ Drifts(g)' <=> Drifts(g)
    BY <1>2, <1>3, <2>1, <2>2
       DEF ListedSessions, MissingOrStale, ShouldArchive, IsPending, AgeMs, WindowMs, Drifts
  <2>6. f \in ListedSessions /\ doctor'.todo \subseteq ListedSessions'
    BY <1>3, <1>8, <2>1, <2>2, <2>5 DEF Progress, InspectSource
  <2>7. \A g \in (ListedSessions \ doctor.todo)' : MissingOrStale(g)' =>
            doctor'.notes /\ (IsPending(g)' \/ g \in doctor'.gaps)
    <3>. SUFFICES ASSUME NEW g \in Files, g \in ListedSessions, g \notin doctor.todo \/ g = f,
                         MissingOrStale(g)
                  PROVE  doctor'.notes /\ (IsPending(g) \/ g \in doctor'.gaps)
      BY <2>2, <2>5 DEF ListedSessions
    <3>. QED
      BY <1>3, <2>1, <2>2, <2>3 DEF Progress
  <2>8. \A g \in doctor'.gaps : g \in ListedSessions' /\ MissingOrStale(g)' /\ ~IsPending(g)'
    <3>. SUFFICES ASSUME NEW g \in doctor'.gaps
                  PROVE  g \in Files /\ g \in ListedSessions /\ MissingOrStale(g) /\ ~IsPending(g)
      BY <2>5
    <3>. QED
      BY <1>3, <2>1, <2>2, <2>3, <2>6 DEF Progress, ListedSessions
  <2>9. \A g \in (doctor.tree \ doctor.copies)' : Drifts(g)' => doctor'.notes
    BY <1>3, <2>1, <2>2, <2>3, <2>5 DEF Progress
  <2>10. Progress'
    BY <2>2, <2>6, <2>7, <2>8, <2>9 DEF Progress
  <2>. QED
    BY <1>3, <1>4, <2>1, <2>4, <2>10
<1>9. ASSUME NEW f \in Files, InspectCopy(f)
      PROVE  doctor'.sources # None /\ ListedLater' /\ ViewIsCurrent' /\ Progress'
  <2>1. ~CreateDoctorContext /\ ~ListSources
    BY <1>9 DEF InspectCopy, Inspecting, Reading, ListSources, CreateDoctorContext
  <2>2. /\ doctor'.records = doctor.records /\ doctor'.tree = doctor.tree
        /\ doctor'.copies = doctor.copies \ {f} /\ doctor'.todo = doctor.todo
        /\ doctor'.gaps = doctor.gaps /\ doctor.tree # None /\ doctor.records # None
    BY <1>9 DEF InspectCopy, Inspecting, Reading
  <2>3. doctor'.notes = (doctor.notes \/ Orphaned(f) \/ Drifts(f))
    BY <1>9 DEF InspectCopy, Inspecting, Reading
  <2>4. ViewIsCurrent'
    BY <1>3, <2>1, <2>2 DEF ViewIsCurrent, Read
  <2>5. /\ ListedSessions' = ListedSessions
        /\ \A g \in Files : /\ MissingOrStale(g)' <=> MissingOrStale(g)
                            /\ IsPending(g)' <=> IsPending(g)
                            /\ Drifts(g)' <=> Drifts(g)
    BY <1>2, <1>3, <2>1, <2>2
       DEF ListedSessions, MissingOrStale, ShouldArchive, IsPending, AgeMs, WindowMs, Drifts
  <2>6. \A g \in (ListedSessions \ doctor.todo)' : MissingOrStale(g)' =>
            doctor'.notes /\ (IsPending(g)' \/ g \in doctor'.gaps)
    <3>. SUFFICES ASSUME NEW g \in Files, g \in ListedSessions, g \notin doctor.todo,
                         MissingOrStale(g)
                  PROVE  doctor'.notes /\ (IsPending(g) \/ g \in doctor'.gaps)
      BY <2>2, <2>5 DEF ListedSessions
    <3>. QED
      BY <1>3, <2>1, <2>2, <2>3 DEF Progress
  <2>7. \A g \in doctor'.gaps : g \in ListedSessions' /\ MissingOrStale(g)' /\ ~IsPending(g)'
    <3>. SUFFICES ASSUME NEW g \in doctor.gaps
                  PROVE  g \in Files /\ g \in ListedSessions /\ MissingOrStale(g) /\ ~IsPending(g)
      BY <2>2, <2>5
    <3>. QED
      BY <1>3, <2>1, <2>2 DEF Progress, ListedSessions
  <2>8. \A g \in (doctor.tree \ doctor.copies)' : Drifts(g)' => doctor'.notes
    <3>. SUFFICES ASSUME NEW g \in Files, g \in doctor.tree, g \notin doctor.copies \/ g = f,
                         Drifts(g)
                  PROVE  doctor'.notes
      BY <1>3, <2>1, <2>2, <2>5 DEF ViewIsCurrent
    <3>. QED
      BY <1>3, <2>1, <2>2, <2>3 DEF Progress
  <2>9. Progress'
    BY <1>3, <2>1, <2>2, <2>5, <2>6, <2>7, <2>8 DEF Progress
  <2>. QED
    BY <1>3, <1>4, <2>1, <2>4, <2>9
<1>10. CASE CheckReconciled
  <2>1. doctor'.status # None /\ doctor'.sources = doctor.sources
    <3>1. doctor # None
      BY <1>10 DEF CheckReconciled, Inspecting, Reading
    <3>2. /\ doctor'.sources = doctor.sources
          /\ doctor'.status = IF doctor.gaps # {} \/ MissingFromTree # {} THEN "problem"
                              ELSE IF doctor.notes THEN "info" ELSE "ok"
      BY <1>10, <3>1 DEF CheckReconciled
    <3>. QED
      BY <3>2, StatusAssumption DEF Statuses
  <2>2. ~CreateDoctorContext /\ ~ListSources
    BY <1>10 DEF CheckReconciled, Inspecting, Reading, ListSources, CreateDoctorContext
  <2>. QED
    BY <1>2, <1>3, <1>4, <2>1, <2>2
<1>11. CASE \E f \in Files : InspectSource(f) \/ InspectCopy(f)
  <2>1. /\ doctor'.sources # None /\ ListedLater' /\ ViewIsCurrent' /\ Progress'
        /\ ~CreateDoctorContext
    BY <1>8, <1>9, <1>11 DEF InspectSource, InspectCopy, Inspecting, Reading, CreateDoctorContext
  <2>. QED
    BY <1>2, <2>1
<1>. QED
  BY <1>1, <1>5, <1>6, <1>7, <1>10, <1>11 DEF DoctorStep

(* What doctor concludes is right.                                         *)
LEMMA VerdictIsRight ==
    ASSUME CheckReconciled, DoctorTyped, DoctorInv, Undisturbed, UNCHANGED vars,
           SweepInv, RecordsAreStats
    PROVE  AllClearIsTrue' /\ (CopiesAreDated => AlarmIsTrue')
<1>. USE DEF DoctorTyped, Undisturbed, vars, harness, archive, sweep
<1>1. /\ doctor.sources # None /\ doctor.status = None /\ doctor.todo = {} /\ doctor.copies = {}
      /\ doctor.tree # None /\ doctor.records # None
  BY DEF CheckReconciled, Inspecting, Reading
<1>2. Compared /\ Progress /\ doctor.tree = {f \in Files : stored[f] # None}
  BY <1>1 DEF DoctorInv, Compared, Settled, ViewIsCurrent
<1>3. MissingFromTree = {}
  BY <1>2, NoRecordAlone
<1>4. /\ doctor'.sources = doctor.sources /\ doctor'.now = doctor.now
      /\ doctor'.status = IF doctor.gaps # {} THEN "problem"
                          ELSE IF doctor.notes THEN "info" ELSE "ok"
  BY <1>3 DEF CheckReconciled
<1>5. OldSources' = OldSources /\ Read' = Read
  BY <1>4 DEF OldSources, IsPending, AgeMs, WindowMs, Read
<1>6. \A f \in ListedSessions : MissingOrStale(f) => doctor.notes /\ (IsPending(f) \/ f \in doctor.gaps)
  BY <1>1, <1>2 DEF Progress
<1>7. ASSUME doctor'.status # "problem", NEW f \in OldSources
      PROVE  stored[f] # None /\ stored[f].version >= doctor.sources[f].version
  <2>1. f \in Files /\ doctor.sources[f] # None /\ ~IsPending(f)
    BY DEF OldSources
  <2>2. doctor.gaps = {}
    BY <1>4, <1>7
  <2>3. ~MissingOrStale(f)
    BY <1>6, <2>1, <2>2 DEF ListedSessions
  <2>. QED
    BY <1>2, <2>1, <2>3, QuietIsArchived
<1>8. ASSUME doctor'.status = "ok", NEW f \in Files, stored[f] # None
      PROVE  Read[f] # None /\ Read[f].version = stored[f].version
  <2>1. ~doctor.notes
    BY <1>4, <1>8
  <2>2. ~Drifts(f)
    BY <1>1, <1>2, <1>8, <2>1 DEF Progress
  <2>. QED
    BY <1>2, <2>2 DEF Drifts, Compared
<1>9. AllClearIsTrue'
  BY <1>4, <1>5, <1>7, <1>8 DEF AllClearIsTrue
<1>10. ASSUME CopiesAreDated, doctor'.status = "problem"
       PROVE  \E f \in OldSources :
                 LET listed == doctor.sources[f] IN
                 /\ doctor.now - listed.mtime >= WindowMs
                 /\ \/ stored[f] = None \/ stored[f].version < listed.version
                    \/ Read[f] # None /\ Read[f].size # listed.version
  <2>1. PICK f \in doctor.gaps : TRUE
    BY <1>4, <1>10
  <2>2. f \in Files /\ doctor.sources[f] # None /\ MissingOrStale(f) /\ ~IsPending(f)
    BY <1>1, <1>2, <2>1 DEF Progress, ListedSessions
  <2>3. doctor.now - doctor.sources[f].mtime >= WindowMs
    <3>1. doctor.now \in Nat /\ doctor.sources[f].mtime \in Nat
      <4>1. doctor.sources \in [Files -> {None} \cup Stats] /\ doctor.now \in Times
        BY <1>1
      <4>2. doctor.sources[f] \in Stats
        BY <2>2, <4>1
      <4>. QED
        BY <4>1, <4>2, BoundsAssumption DEF Stats, Times
    <3>2. ~(AgeMs(doctor.sources[f].mtime) < WindowMs)
      BY <2>2 DEF IsPending
    <3>3. WindowMs \in Nat /\ WindowMs > 0
      BY IntervalAssumption DEF WindowMs
    <3>. QED
      BY <3>1, <3>2, <3>3 DEF AgeMs
  <2>4. \/ stored[f] = None \/ stored[f].version < doctor.sources[f].version
        \/ Read[f] # None /\ Read[f].size # doctor.sources[f].version
    BY <1>2, <1>10, <2>2, StaleIsBehind
  <2>. QED
    BY <2>2, <2>3, <2>4 DEF OldSources
<1>11. CopiesAreDated => AlarmIsTrue'
  BY <1>4, <1>5, <1>10 DEF AlarmIsTrue, WindowMs
<1>. QED
  BY <1>9, <1>11

LEMMA ReconcileStep == ReconcileInv /\ [ReconcileNext]_reconcileVars => ReconcileInv'
<1>. SUFFICES ASSUME ReconcileInv, [ReconcileNext]_reconcileVars PROVE ReconcileInv'
  OBVIOUS
<1>1. [Next]_vars
  BY SweepOrLook
<1>2. TypeOK /\ TypeOK' /\ DoctorTyped /\ DoctorTyped'
  BY <1>1, TypeStep, DoctorTypedStep DEF ReconcileInv, UntilFault
<1>3. faults' = 0 =>
          /\ faults = 0 /\ SweepInv /\ SweepInv' /\ RecordsAreStats /\ RecordsAreStats'
          /\ ExactTimes => CopiesAreDated /\ CopiesAreDated'
  BY <1>1, <1>2, FaultsStay, SweepStep, RecordsStep, DatedStep DEF ReconcileInv, UntilFault
<1>4. ASSUME Undisturbed'
      PROVE  DoctorInv' /\ AllClearIsTrue' /\ (ExactTimes => AlarmIsTrue')
  <2>. USE DEF vars, harness, archive, sweep
  <2>1. ASSUME Undisturbed, UNCHANGED <<faults, pc, stored, index, tail, doctor>>
        PROVE  DoctorInv' /\ AllClearIsTrue' /\ (ExactTimes => AlarmIsTrue')
    <3>1. DoctorInv'
      BY <2>1 DEF ReconcileInv, DoctorInv, Undisturbed, ListedLater, OfOneStat, ViewIsCurrent,
         Read, Progress, ListedSessions, MissingOrStale, ShouldArchive, IsPending, AgeMs,
         WindowMs, Drifts
    <3>2. AllClearIsTrue' /\ (ExactTimes => AlarmIsTrue')
      BY <2>1 DEF ReconcileInv, AllClearIsTrue, AlarmIsTrue, Concluded, OldSources, Read,
         IsPending, AgeMs, WindowMs
    <3>. QED
      BY <3>1, <3>2
  <2>2. CASE UNCHANGED reconcileVars
    BY <1>4, <2>1, <2>2 DEF reconcileVars, Undisturbed
  <2>3. CASE Beside(Next)
    BY <1>2, <1>3, <1>4, <2>1, <2>3, OnlyHarnesses DEF ReconcileInv, Undisturbed
  <2>4. CASE DoctorStep
    <3>1. UNCHANGED vars
      BY <2>4, DoctorOnlyLooks
    <3>2. DoctorInv'
      BY <1>2, <1>3, <1>4, <2>4, <3>1, DoctorRunStep DEF ReconcileInv, Undisturbed
    <3>3. CASE CheckReconciled
      <4>1. Undisturbed
        BY <1>2, <1>3, <1>4, <3>3 DEF CheckReconciled, Inspecting, Reading, Undisturbed,
           DoctorTyped
      <4>. QED
        BY <1>2, <1>3, <1>4, <3>1, <3>2, <3>3, <4>1, VerdictIsRight DEF ReconcileInv, Undisturbed
    <3>4. CASE ~CheckReconciled
      <4>1. doctor'.status = None
        <5>1. CASE CreateDoctorContext
          BY <5>1 DEF CreateDoctorContext
        <5>2. CASE ListSources
          <6>1. Undisturbed /\ doctor.sources = None
            BY <1>2, <1>3, <1>4, <5>2 DEF ListSources, Undisturbed, DoctorTyped
          <6>2. doctor.status = None
            BY <6>1 DEF ReconcileInv, DoctorInv
          <6>. QED
            BY <1>2, <5>2, <6>2 DEF ListSources, DoctorTyped
        <5>3. CASE WalkFiles \/ ReadDerivedIndex
          BY <1>2, <5>3 DEF WalkFiles, ReadDerivedIndex, Reading, DoctorTyped
        <5>4. CASE \E f \in Files : InspectSource(f) \/ InspectCopy(f)
          BY <1>2, <5>4 DEF InspectSource, InspectCopy, Inspecting, Reading, DoctorTyped
        <5>. QED
          BY <2>4, <3>4, <5>1, <5>2, <5>3, <5>4 DEF DoctorStep
      <4>. QED
        BY <3>2, <4>1 DEF AllClearIsTrue, AlarmIsTrue, Concluded
    <3>. QED
      BY <3>3, <3>4
  <2>. QED
    BY <2>2, <2>3, <2>4 DEF ReconcileNext
<1>5. ~Undisturbed' => DoctorInv' /\ AllClearIsTrue' /\ AlarmIsTrue'
  BY DEF DoctorInv, AllClearIsTrue, AlarmIsTrue, Concluded, Undisturbed
<1>. QED
  BY <1>2, <1>3, <1>4, <1>5 DEF ReconcileInv, UntilFault

LEMMA ReconcileInitially == ReconcileInit => ReconcileInv
<1>. SUFFICES ASSUME ReconcileInit PROVE ReconcileInv
  OBVIOUS
<1>1. SweepInv /\ UntilFault
  BY SweepInitially DEF ReconcileInit, UntilFault, SweepInv
<1>2. RecordsAreStats /\ CopiesAreDated
  BY DEF ReconcileInit, Init, RecordsAreStats, CopiesAreDated, Busy
<1>3. DoctorTyped /\ DoctorInv /\ AllClearIsTrue /\ AlarmIsTrue
  BY DEF ReconcileInit, DoctorTyped, DoctorInv, AllClearIsTrue, AlarmIsTrue, Concluded,
     Undisturbed
<1>. QED
  BY <1>1, <1>2, <1>3 DEF ReconcileInv

(* Doctor beside no sweep and after no fault, for any number of sessions,  *)
(* written at any time, and any rounding of the times of the copies: if it *)
(* does not say problem, no session it listed that is older than the       *)
(* window is missing or archived short of what it listed; if it says ok,   *)
(* every copy has the record of its bytes.                                 *)
THEOREM DoctorMissesNothing == ReconcileSpec => []AllClearIsTrue
<1>1. ReconcileInv => AllClearIsTrue
  BY DEF ReconcileInv
<1>. QED
  BY <1>1, ReconcileInitially, ReconcileStep, PTL DEF ReconcileSpec

(* On a file system that keeps the times it is given doctor is right both  *)
(* ways: neither does it report a problem that is not there.               *)
THEOREM DoctorIsAccurate ==
    ASSUME ExactTimes
    PROVE  ReconcileSpec => []DoctorIsRight
<1>1. ReconcileInv => DoctorIsRight
  BY DEF ReconcileInv, DoctorIsRight
<1>. QED
  BY <1>1, ReconcileInitially, ReconcileStep, PTL DEF ReconcileSpec
=============================================================================
