--------------------------- MODULE RestoreProofs ---------------------------
(* Proofs about the two ways core/restore.ts brings a session back: Restore,
   into a store of files, for any instances: any number of turns, ticks,
   prunings, kills and restores, of any harness and from any of the archives;
   and Snapshots, into an absent database, for any sessions, snapshots, damages,
   kills and restores. The two share no state.                              *)
EXTENDS Restore, Snapshots, SequenceTheorems, FiniteSetTheorems, TLAPS

-----------------------------------------------------------------------------
(* Types *)

Phases == {"idle", "pull", "check", "write", "stamp", "done", "failed"}
Works  == {"pull", "check", "write", "stamp"}

Jobs == [pc : Phases, place : {"own"} \cup AllSources, force : BOOLEAN,
         records : [Files -> Records \cup {None}], stage : [Files -> Versions \cup {None}],
         plans : Seq(Files), at : Nat \ {0}, offends : BOOLEAN]

Archives == [copy : [Files -> Versions \cup {None}], rec : [Files -> Records \cup {None}]]

TypeOK ==
    /\ instance \in Instances /\ now \in Nat /\ turn \in Nat
    /\ live \in [Files -> Versions \cup {None}]
    /\ store \in [Places -> Archives]
    /\ sweeping \in Files \cup {None}
    /\ sweeping # None => store["own"].copy[sweeping] # None
    /\ job \in Jobs /\ raced \subseteq Files
    /\ left \in [prunings : Nat, restores : 0 .. instance.restores, kills : Nat]

\* What a restore works through: each file once, each with a record, and of a
\* Codex session the one file no record is newer than
PlansAreSound ==
    job.pc \in Works \cup {"done"} =>
        /\ job.at \in 1 .. Len(job.plans)
        /\ job.place \in Places
        /\ job.pc = "pull" => job.place = "remote"
        /\ \A m, n \in DOMAIN job.plans : job.plans[m] = job.plans[n] => m = n
        /\ \A n \in DOMAIN job.plans : job.records[job.plans[n]] # None
        /\ harness = "codex" =>
              /\ Len(job.plans) = 1
              /\ \A g \in Files : job.records[g] # None =>
                                     job.records[g].at <= job.records[job.plans[1]].at

Typed == TypeOK /\ PlansAreSound

LEMMA Frozen ==
    ASSUME [Next]_vars
    PROVE  /\ instance' = instance /\ harness' = harness /\ Files' = Files /\ Places' = Places
           /\ NoFiles' = NoFiles /\ Idle' = Idle /\ Archives' = Archives /\ Jobs' = Jobs
<1>1. instance' = instance
  BY DEF Next, vars, Writes, SweepCopies, SweepRepairs, PublishObject, MirrorObject, Move, Prune,
     Tick, SweepRecords, KillSweep, PublishIndex, MirrorIndex, RunRestore, PullAndDecryptFile,
     CheckTarget, WriteRestoredFile, StampRestoredFile, Return, KillRestore
<1>. QED
  BY <1>1 DEF harness, Files, Places, Sources, NoFiles, Idle, Archives, Jobs

LEMMA NoneIsNothing ==
    ASSUME instance \in Instances
    PROVE  /\ Files \subseteq AllFiles /\ None \notin Files
           /\ None \notin Versions /\ None \notin Records
<1>1. harness \in {"claude-code", "codex", "gemini"}
  BY InstancesAssumption DEF harness, AllHarnesses
<1>2. Files \subseteq AllFiles
  BY <1>1 DEF Files, AllFiles
<1>. QED
  BY <1>2, NoneAssumption

LEMMA StartValues ==
    /\ NoFiles \in [Files -> Versions \cup {None}] /\ NoFiles \in [Files -> Records \cup {None}]
    /\ Idle \in Jobs /\ Idle.pc = "idle"
<1>1. NoFiles \in [Files -> Versions \cup {None}] /\ NoFiles \in [Files -> Records \cup {None}]
  BY DEF NoFiles
<1>2. <<>> \in Seq(Files)
  BY EmptySeq
<1>. QED
  BY <1>1, <1>2 DEF Idle, Jobs, Phases

LEMMA CurrentFile ==
    ASSUME TypeOK, PlansAreSound, job.pc \in Works
    PROVE  /\ File \in Files /\ job.records[File] \in Records /\ job.at \in DOMAIN job.plans
           /\ Len(job.plans) \in Nat /\ DOMAIN job.plans = 1 .. Len(job.plans)
<1>1. job \in Jobs
  BY DEF TypeOK
<1>2. job.plans \in Seq(Files) /\ job.records \in [Files -> Records \cup {None}]
  BY <1>1 DEF Jobs
<1>3. Len(job.plans) \in Nat /\ DOMAIN job.plans = 1 .. Len(job.plans)
  BY <1>2, LenProperties
<1>4. job.at \in DOMAIN job.plans /\ job.records[File] # None
  BY <1>3 DEF PlansAreSound, File
<1>5. File \in Files
  BY <1>2, <1>3, <1>4, ElementOfSeq DEF File
<1>. QED
  BY <1>2, <1>3, <1>4, <1>5

LEMMA PlannedFiles ==
    ASSUME TypeOK, NEW n \in DOMAIN job.plans
    PROVE  job.plans[n] \in Files /\ n \in Nat \ {0} /\ n <= Len(job.plans) /\ Len(job.plans) \in Nat
<1>1. job.plans \in Seq(Files)
  BY DEF TypeOK, Jobs
<1>. QED
  BY <1>1, LenProperties, ElementOfSeq

-----------------------------------------------------------------------------
(* The unit a restore takes from an index *)

LEMMA FilesAreFinite == ASSUME instance \in Instances PROVE IsFiniteSet(Files)
<1>1. harness \in {"claude-code", "codex", "gemini"}
  BY InstancesAssumption DEF harness, AllHarnesses
<1>2. \/ Files = {"main"} \cup {"sidecar"}
      \/ Files = {"active"} \cup {"archived"}
      \/ Files = {"main"} \cup {"marker"}
  BY <1>1 DEF Files
<1>3. \A a, b : IsFiniteSet({a} \cup {b})
  BY FS_Singleton, FS_AddElement
<1>. QED
  BY <1>2, <1>3

\* Of a Codex session at most one place is selected, that of the newest record
LEMMA OneStateIsSelected ==
    ASSUME instance \in Instances, NEW recs \in [Files -> Records \cup {None}],
           NEW f \in SelectCodexState(recs)
    PROVE  /\ \A g \in SelectCodexState(recs) : f = g
           /\ \A g \in Files : recs[g] # None => recs[g].at <= recs[f].at
<1>. DEFINE known == {g \in Files : recs[g] # None}
<1>1. IsFiniteSet(known) /\ Cardinality(known) \in Nat
  BY FilesAreFinite, FS_Subset, FS_CardinalityType
<1>2. CASE Cardinality(known) < 2
  <2>1. ASSUME NEW g \in known, NEW h \in known, g # h PROVE FALSE
    <3>1. Cardinality({g} \cup {h}) = 2
      <4>1. IsFiniteSet({g}) /\ Cardinality({g}) = 1
        BY FS_Singleton
      <4>2. Cardinality({g} \cup {h}) = IF h \in {g} THEN Cardinality({g}) ELSE Cardinality({g}) + 1
        BY <4>1, FS_AddElement
      <4>. QED
        BY <2>1, <4>1, <4>2
    <3>2. Cardinality({g} \cup {h}) <= Cardinality(known)
      BY <1>1, <2>1, FS_Subset
    <3>. QED
      BY <1>1, <1>2, <3>1, <3>2
  <2>2. SelectCodexState(recs) = known
    BY <1>2 DEF SelectCodexState
  <2>3. f \in known /\ recs[f] \in Records
    BY <2>2
  <2>. QED
    BY <2>1, <2>2, <2>3 DEF Records
<1>3. CASE ~(Cardinality(known) < 2)
  <2>1. SelectCodexState(recs) =
          {h \in known : \A g \in known \ {h} : CompareRecordRecency(h, recs[h], g, recs[g])}
    BY <1>3 DEF SelectCodexState
  <2>2. \A g \in known : recs[g] \in Records
    OBVIOUS
  <2>3. \A g, h \in known : ~(/\ CompareRecordRecency(g, recs[g], h, recs[h])
                              /\ CompareRecordRecency(h, recs[h], g, recs[g]))
    BY <2>2 DEF CompareRecordRecency, Records
  <2>4. \A g, h \in known : CompareRecordRecency(g, recs[g], h, recs[h]) => recs[h].at <= recs[g].at
    BY <2>2 DEF CompareRecordRecency, Records
  <2>5. f \in known /\ \A g \in known \ {f} : CompareRecordRecency(f, recs[f], g, recs[g])
    BY <2>1
  <2>6. \A g \in SelectCodexState(recs) : f = g
    BY <2>1, <2>3
  <2>7. \A g \in known : recs[g].at <= recs[f].at
    BY <2>2, <2>4, <2>5 DEF Records
  <2>. QED
    BY <2>6, <2>7
<1>. QED
  BY <1>1, <1>2, <1>3

LEMMA UnitsAreSound ==
    ASSUME instance \in Instances, NEW recs \in [Files -> Records \cup {None}],
           NEW plans \in ToArchivedUnit(recs), plans # <<>>
    PROVE  /\ plans \in Seq(Files) /\ Len(plans) \in Nat \ {0}
           /\ \A m, n \in DOMAIN plans : plans[m] = plans[n] => m = n
           /\ \A n \in DOMAIN plans : recs[plans[n]] # None
           /\ harness = "codex" =>
                 /\ Len(plans) = 1
                 /\ \A g \in Files : recs[g] # None => recs[g].at <= recs[plans[1]].at
<1>. DEFINE U == UnitFiles(recs)
<1>1. U \subseteq {f \in Files : recs[f] # None}
  BY DEF UnitFiles, SelectCodexState, AttachGeminiProjectMarkers
<1>2. Cardinality(U) \in Nat
  <2>1. IsFiniteSet(U)
    BY <1>1, FilesAreFinite, FS_Subset
  <2>. QED
    BY <2>1, FS_CardinalityType
<1>3. /\ plans \in [1 .. Cardinality(U) -> U]
      /\ \A m, n \in DOMAIN plans : plans[m] = plans[n] => m = n
  BY DEF ToArchivedUnit
<1>. HIDE DEF U
<1>4. plans \in Seq(U) /\ plans \in Seq(Files)
  <2>1. \A n \in Nat : plans \in [1 .. n -> U] => plans \in Seq(U)
    BY SeqDef
  <2>2. \A n \in Nat : plans \in [1 .. n -> Files] => plans \in Seq(Files)
    BY SeqDef
  <2>3. plans \in [1 .. Cardinality(U) -> Files]
    BY <1>1, <1>3
  <2>. QED
    BY <1>2, <1>3, <2>1, <2>2, <2>3
<1>5. Len(plans) \in Nat \ {0} /\ DOMAIN plans = 1 .. Len(plans) /\ 1 \in DOMAIN plans
  <2>1. Len(plans) \in Nat /\ DOMAIN plans = 1 .. Len(plans)
    BY <1>4, LenProperties
  <2>2. Len(plans) # 0
    BY <1>4, EmptySeq
  <2>. QED
    BY <2>1, <2>2
<1>6. \A n \in DOMAIN plans : plans[n] \in U
  BY <1>3
<1>7. ASSUME harness = "codex"
      PROVE  /\ Len(plans) = 1
             /\ \A g \in Files : recs[g] # None => recs[g].at <= recs[plans[1]].at
  <2>1. U = SelectCodexState(recs)
    BY <1>7 DEF U, UnitFiles
  <2>2. plans[1] \in SelectCodexState(recs)
    BY <1>5, <1>6, <2>1
  <2>3. ASSUME Len(plans) # 1 PROVE FALSE
    <3>1. 2 \in DOMAIN plans
      BY <1>5, <2>3
    <3>2. plans[2] = plans[1]
      BY <1>6, <2>1, <2>2, <3>1, OneStateIsSelected
    <3>. QED
      BY <1>3, <1>5, <3>1, <3>2
  <2>. QED
    BY <2>2, <2>3, OneStateIsSelected
<1>. QED
  BY <1>1, <1>3, <1>4, <1>5, <1>6, <1>7

-----------------------------------------------------------------------------
(* Every step keeps the types *)

HarnessActs == Prune \/ \E f \in Files : Writes(f) \/ \E g \in Files : Move(f, g)
SweepActs   == SweepRecords \/ \E f \in Files : SweepCopies(f) \/ SweepRepairs(f)
OthersAct   == PublishIndex \/ MirrorIndex \/ \E f \in Files : PublishObject(f) \/ MirrorObject(f)
RestoreActs == \/ \E place \in Places, force \in BOOLEAN : RunRestore(place, force)
               \/ PullAndDecryptFile \/ CheckTarget \/ WriteRestoredFile \/ StampRestoredFile
               \/ Return \/ KillRestore

LEMMA Steps == [Next]_vars <=>
    HarnessActs \/ SweepActs \/ OthersAct \/ RestoreActs \/ Tick \/ KillSweep \/ UNCHANGED vars
BY DEF Next, HarnessActs, SweepActs, OthersAct, RestoreActs

LEMMA VersionsAreMade ==
    ASSUME TypeOK, NEW v \in Versions \cup {None}
    PROVE  NewVersion((IF v = None THEN {} ELSE v.turns) \cup {turn + 1}) \in Versions
BY DEF TypeOK, NewVersion, Versions

LEMMA HarnessTyped ==
    ASSUME TypeOK, HarnessActs
    PROVE  live' \in [Files -> Versions \cup {None}]
<1>1. ASSUME NEW f \in Files, Writes(f) PROVE live' \in [Files -> Versions \cup {None}]
  <2>1. NewVersion((IF live[f] = None THEN {} ELSE live[f].turns) \cup {turn + 1}) \in Versions
    BY VersionsAreMade DEF TypeOK
  <2>. QED
    BY <1>1, <2>1 DEF Writes, TypeOK
<1>2. CASE Prune
  BY <1>2, StartValues DEF Prune
<1>3. ASSUME NEW f \in Files, NEW g \in Files, Move(f, g) PROVE live' \in [Files -> Versions \cup {None}]
  <2>1. live[f] \in Versions /\ now \in Nat
    BY <1>3 DEF TypeOK, Move
  <2>2. [live[f] EXCEPT !.at = now] \in Versions
    BY <2>1 DEF Versions
  <2>. QED
    BY <1>3, <2>1, <2>2 DEF Move, TypeOK
<1>. QED
  BY <1>1, <1>2, <1>3 DEF HarnessActs

LEMMA RecordsAreRecords ==
    ASSUME instance \in Instances, NEW recs \in [Files -> Records \cup {None}], NEW f \in Files,
           NEW version \in Versions
    PROVE  /\ Recorded(recs, f, version) \in [Files -> Records \cup {None}]
           /\ Recorded(recs, f, version)[f] =
                 [turns |-> version.turns, at |-> version.at, last |-> TRUE]
           /\ \A g \in Files \ {f} :
                 /\ recs[g] = None <=> Recorded(recs, f, version)[g] = None
                 /\ recs[g] # None =>
                       /\ Recorded(recs, f, version)[g].turns = recs[g].turns
                       /\ Recorded(recs, f, version)[g].at = recs[g].at
<1>1. [turns |-> version.turns, at |-> version.at, last |-> TRUE] \in Records
  BY DEF Versions, Records
<1>2. ASSUME NEW g \in Files, recs[g] # None
      PROVE  /\ [recs[g] EXCEPT !.last = FALSE] \in Records
             /\ [recs[g] EXCEPT !.last = FALSE].turns = recs[g].turns
             /\ [recs[g] EXCEPT !.last = FALSE].at = recs[g].at
  <2>1. recs[g] \in Records
    BY <1>2
  <2>. QED
    BY <2>1 DEF Records
<1>3. None \notin Records
  BY NoneIsNothing
<1>. QED
  BY <1>1, <1>2, <1>3 DEF Recorded

LEMMA SweepTyped ==
    ASSUME TypeOK, SweepActs
    PROVE  /\ store' \in [Places -> Archives] /\ sweeping' \in Files \cup {None}
           /\ sweeping' # None => store'["own"].copy[sweeping'] # None
<1>. "own" \in Places /\ store["own"] \in Archives
  BY DEF Places, TypeOK
<1>1. ASSUME NEW f \in Files, SweepCopies(f)
      PROVE  /\ store' \in [Places -> Archives] /\ sweeping' \in Files \cup {None}
             /\ sweeping' # None => store'["own"].copy[sweeping'] # None
  BY <1>1 DEF SweepCopies, TypeOK, Archives
<1>2. ASSUME NEW g \in Files, store["own"].copy[g] # None, sweeping' = None,
             store' = [store EXCEPT !["own"].rec = Recorded(@, g, store["own"].copy[g])]
      PROVE  store' \in [Places -> Archives]
  <2>1. store["own"].copy[g] \in Versions
    BY <1>2 DEF Archives
  <2>2. Recorded(store["own"].rec, g, store["own"].copy[g]) \in [Files -> Records \cup {None}]
    BY <2>1, RecordsAreRecords DEF TypeOK, Archives
  <2>. QED
    BY <1>2, <2>2 DEF TypeOK, Archives
<1>3. CASE SweepRecords
  BY <1>2, <1>3 DEF SweepRecords, TypeOK
<1>4. ASSUME NEW f \in Files, SweepRepairs(f)
      PROVE  store' \in [Places -> Archives] /\ sweeping' = None
  <2>1. store["own"].copy[f] # None /\ sweeping' = None
    BY <1>4 DEF SweepRepairs, ShouldArchive
  <2>. QED
    BY <1>2, <1>4, <2>1 DEF SweepRepairs
<1>. QED
  BY <1>1, <1>3, <1>4 DEF SweepActs

LEMMA ForeignTyped ==
    ASSUME TypeOK, OthersAct
    PROVE  /\ store' \in [Places -> Archives]
           /\ sweeping # None => store'["own"].copy[sweeping] # None
<1>. "own" \in Places /\ \A p \in Places : store[p] \in Archives
  BY DEF Places, TypeOK
<1>1. ASSUME NEW f \in Files, PublishObject(f)
      PROVE  /\ store' \in [Places -> Archives]
             /\ sweeping # None => store'["own"].copy[sweeping] # None
  BY <1>1 DEF PublishObject, TypeOK, Archives, Places
<1>2. CASE PublishIndex
  BY <1>2 DEF PublishIndex, TypeOK, Archives, Places
<1>3. ASSUME NEW f \in Files, MirrorObject(f)
      PROVE  /\ store' \in [Places -> Archives]
             /\ sweeping # None => store'["own"].copy[sweeping] # None
  <2>1. "mirror" \in Places
    BY <1>3 DEF MirrorObject, Places
  <2>2. PICK from \in {"own", "mirror"} :
          store' = [store EXCEPT !["mirror"].copy[f] =
                      NewVersion((IF store[from].copy[f] = None THEN {} ELSE store[from].copy[f].turns)
                                   \cup {turn + 1})]
    BY <1>3 DEF MirrorObject
  <2>3. store[from].copy[f] \in Versions \cup {None}
    BY <2>1, <2>2 DEF Archives
  <2>4. NewVersion((IF store[from].copy[f] = None THEN {} ELSE store[from].copy[f].turns)
                     \cup {turn + 1}) \in Versions
    BY <2>3, VersionsAreMade
  <2>5. store' \in [Places -> Archives]
    BY <2>1, <2>2, <2>4 DEF TypeOK, Archives
  <2>. QED
    BY <2>2, <2>5 DEF TypeOK
<1>4. CASE MirrorIndex
  <2>1. "mirror" \in Places
    BY <1>4 DEF MirrorIndex, Places
  <2>. DEFINE recs == [g \in Files |->
                 IF store["mirror"].copy[g] = None THEN None
                 ELSE [turns |-> store["mirror"].copy[g].turns, at |-> store["mirror"].copy[g].at,
                       last |-> FALSE]]
  <2>2. recs \in [Files -> Records \cup {None}]
    BY <2>1 DEF Archives, Versions, Records
  <2>3. store' = [store EXCEPT !["mirror"].rec = recs]
    BY <1>4 DEF MirrorIndex
  <2>. HIDE DEF recs
  <2>4. store' \in [Places -> Archives]
    BY <2>1, <2>2, <2>3 DEF TypeOK, Archives
  <2>. QED
    BY <2>3, <2>4 DEF TypeOK
<1>. QED
  BY <1>1, <1>2, <1>3, <1>4 DEF OthersAct

\* What a step of a restore keeps of it
KeepsPlan(j, k) ==
    /\ k.place = j.place /\ k.force = j.force /\ k.records = j.records /\ k.plans = j.plans

LEMMA Advances ==
    ASSUME Typed, NEW j \in Jobs, NEW pc \in Phases, job.pc \in Works, KeepsPlan(job, j), j.at = job.at
    PROVE  /\ Advance(j, pc) \in Jobs /\ KeepsPlan(job, Advance(j, pc))
           /\ Advance(j, pc).stage = j.stage /\ Advance(j, pc).offends = j.offends
           /\ \/ Last /\ Advance(j, pc).pc = pc /\ Advance(j, pc).at = 1
              \/ ~Last /\ Advance(j, pc).pc = j.pc /\ Advance(j, pc).at = job.at + 1
           /\ Advance(j, pc).at \in 1 .. Len(job.plans)
<1>1. job.at \in 1 .. Len(job.plans) /\ Len(job.plans) \in Nat
  BY CurrentFile DEF Typed
<1>2. CASE Last
  <2>1. Advance(j, pc) = [j EXCEPT !.pc = pc, !.at = 1]
    BY <1>2 DEF Advance
  <2>. QED
    <3>1. 1 \in 1 .. Len(job.plans) /\ 1 \in Nat \ {0}
      BY <1>1
    <3>2. Advance(j, pc) \in Jobs
      BY <2>1, <3>1 DEF Jobs
    <3>. QED
      BY <1>2, <2>1, <3>1, <3>2 DEF Jobs, KeepsPlan
<1>3. CASE ~Last
  <2>1. Advance(j, pc) = [j EXCEPT !.at = @ + 1]
    BY <1>3 DEF Advance
  <2>2. job.at + 1 \in 1 .. Len(job.plans) /\ job.at + 1 \in Nat \ {0}
    BY <1>1, <1>3 DEF Last
  <2>. QED
    BY <1>3, <2>1, <2>2 DEF Jobs, KeepsPlan
<1>. QED
  BY <1>2, <1>3

LEMMA FailureStep ==
    ASSUME TypeOK, Fails
    PROVE  job' \in Jobs /\ job'.pc = "failed" /\ KeepsPlan(job, job') /\ job'.stage = job.stage
BY DEF TypeOK, Fails, Jobs, Phases, KeepsPlan

LEMMA StartStep ==
    ASSUME Typed, NEW place \in Places, NEW force \in BOOLEAN, RunRestore(place, force)
    PROVE  /\ job' \in Jobs /\ job'.stage = NoFiles /\ job'.at = 1 /\ job'.offends = FALSE
           /\ \/ job'.pc = "failed" /\ job'.records = NoFiles
              \/ /\ job'.pc \in {"pull", "check"} /\ job'.place = place
                 /\ job'.pc = "pull" => place = "remote"
                 /\ job'.records = store[place].rec
                 /\ Len(job'.plans) \in Nat \ {0}
                 /\ \A m, n \in DOMAIN job'.plans : job'.plans[m] = job'.plans[n] => m = n
                 /\ \A n \in DOMAIN job'.plans : job'.records[job'.plans[n]] # None
                 /\ harness = "codex" =>
                       /\ Len(job'.plans) = 1
                       /\ \A g \in Files : job'.records[g] # None =>
                                     job'.records[g].at <= job'.records[job'.plans[1]].at
<1>1. PICK plans \in ToArchivedUnit(store[place].rec) :
         job' = IF plans = <<>> THEN [Idle EXCEPT !.pc = "failed"]
                ELSE [Idle EXCEPT !.pc = IF place = "remote" THEN "pull" ELSE "check",
                        !.place = place, !.force = force, !.records = store[place].rec,
                        !.plans = plans]
  BY DEF RunRestore, ResolveArchivedUnit
<1>2. Idle \in Jobs /\ Idle.stage = NoFiles /\ Idle.records = NoFiles /\ Idle.at = 1 /\ Idle.offends = FALSE
  BY StartValues DEF Idle
<1>3. CASE plans = <<>>
  BY <1>1, <1>2, <1>3 DEF Jobs, Phases
<1>4. CASE plans # <<>>
  <2>1. store[place].rec \in [Files -> Records \cup {None}] /\ instance \in Instances
    BY DEF Typed, TypeOK, Archives
  <2>2. /\ plans \in Seq(Files) /\ Len(plans) \in Nat \ {0}
        /\ \A m, n \in DOMAIN plans : plans[m] = plans[n] => m = n
        /\ \A n \in DOMAIN plans : store[place].rec[plans[n]] # None
        /\ harness = "codex" =>
              /\ Len(plans) = 1
              /\ \A g \in Files : store[place].rec[g] # None =>
                     store[place].rec[g].at <= store[place].rec[plans[1]].at
    BY <1>4, <2>1, UnitsAreSound
  <2>3. /\ job'.pc = (IF place = "remote" THEN "pull" ELSE "check") /\ job'.place = place
        /\ job'.records = store[place].rec /\ job'.plans = plans /\ job'.force = force
        /\ job'.stage = NoFiles /\ job'.at = 1 /\ job'.offends = FALSE
    BY <1>1, <1>2, <1>4 DEF Idle
  <2>4. job' \in Jobs
    <3>1. place \in {"own"} \cup AllSources
      BY InstancesAssumption DEF Typed, TypeOK, Places, Sources
    <3>2. job' = [Idle EXCEPT !.pc = IF place = "remote" THEN "pull" ELSE "check",
                        !.place = place, !.force = force, !.records = store[place].rec,
                        !.plans = plans]
      BY <1>1, <1>4
    <3>. QED
      BY <1>2, <2>1, <2>2, <3>1, <3>2 DEF Jobs, Phases
  <2>. QED
    BY <2>2, <2>3, <2>4
<1>. QED
  BY <1>3, <1>4

LEMMA PullStep ==
    ASSUME Typed, PullAndDecryptFile
    PROVE  /\ job' \in Jobs /\ KeepsPlan(job, job') /\ job'.at \in 1 .. Len(job.plans)
           /\ \/ job'.pc = "failed" /\ job'.stage = job.stage
              \/ /\ job'.stage = [job.stage EXCEPT ![File] = store["remote"].copy[File]]
                 /\ \/ job'.pc = "check" /\ job'.at = 1 /\ job'.offends = job.offends
                    \/ job'.pc = "pull"
<1>1. job \in Jobs /\ job.pc = "pull" /\ File \in Files /\ job.at \in 1 .. Len(job.plans)
  BY CurrentFile DEF Typed, TypeOK, PullAndDecryptFile, Works
<1>. DEFINE object == store["remote"].copy[File]
            j == [job EXCEPT !.stage[File] = object]
<1>2. CASE object = None
  <2>1. Fails
    BY <1>2 DEF PullAndDecryptFile
  <2>2. job'.at = job.at
    BY <1>1, <2>1 DEF Fails, Jobs
  <2>. QED
    BY <1>1, <2>1, <2>2, FailureStep DEF Typed
<1>3. CASE object # None
  <2>1. object \in Versions \cup {None}
    <3>1. "remote" \in Places
      BY <1>1 DEF Typed, PlansAreSound, Works
    <3>. QED
      BY <1>1, <3>1 DEF Typed, TypeOK, Archives
  <2>2. j \in Jobs /\ KeepsPlan(job, j) /\ j.at = job.at /\ j.pc = "pull" /\ j.offends = job.offends
    BY <1>1, <2>1 DEF Jobs, KeepsPlan
  <2>3. j.stage = [job.stage EXCEPT ![File] = object]
    BY <1>1 DEF Jobs
  <2>4. job' = Advance(j, "check")
    BY <1>3 DEF PullAndDecryptFile
  <2>. HIDE DEF j
  <2>. QED
    BY <1>1, <2>2, <2>3, <2>4, Advances DEF Works, Phases
<1>. QED
  BY <1>2, <1>3

LEMMA CheckStep ==
    ASSUME Typed, CheckTarget
    PROVE  /\ job' \in Jobs /\ KeepsPlan(job, job') /\ job'.stage = job.stage
           /\ job'.at \in 1 .. Len(job.plans)
           /\ \/ job'.pc = "failed"
              \/ /\ job'.pc = "write" /\ Last /\ job'.at = 1
                 /\ ~job.force => ~job.offends /\ ~Newer(File)
              \/ /\ job'.pc = "check" /\ job'.at = job.at + 1
                 /\ ~job'.offends => ~job.offends /\ ~Newer(File)
<1>1. job \in Jobs /\ job.pc = "check" /\ job.at \in 1 .. Len(job.plans)
  BY CurrentFile DEF Typed, TypeOK, CheckTarget, Works
<1>. DEFINE offends == job.offends \/ Newer(File)
            j == [job EXCEPT !.offends = offends]
<1>2. CASE Last /\ Refuses(offends)
  <2>1. Fails
    BY <1>2 DEF CheckTarget, Fails
  <2>2. job'.at = job.at
    BY <1>1, <2>1 DEF Fails, Jobs
  <2>. QED
    BY <1>1, <2>1, <2>2, FailureStep DEF Typed
<1>3. CASE ~(Last /\ Refuses(offends))
  <2>1. offends \in BOOLEAN
    BY <1>1 DEF Jobs, Newer
  <2>2. /\ j \in Jobs /\ KeepsPlan(job, j) /\ j.at = job.at /\ j.pc = "check"
        /\ j.offends = offends /\ j.stage = job.stage
    <3>. HIDE DEF offends
    <3>. QED
      BY <1>1, <2>1 DEF Jobs, KeepsPlan
  <2>3. job' = Advance(j, "write")
    BY <1>3 DEF CheckTarget
  <2>. HIDE DEF j
  <2>4. /\ job' \in Jobs /\ KeepsPlan(job, job') /\ job'.stage = job.stage /\ job'.offends = offends
        /\ \/ Last /\ job'.pc = "write" /\ job'.at = 1
           \/ ~Last /\ job'.pc = "check" /\ job'.at = job.at + 1
        /\ job'.at \in 1 .. Len(job.plans)
    BY <1>1, <2>2, <2>3, Advances DEF Works, Phases
  <2>. QED
    BY <1>3, <2>4 DEF Refuses
<1>. QED
  BY <1>2, <1>3

LEMMA WriteStep ==
    ASSUME Typed, WriteRestoredFile
    PROVE  /\ job' \in Jobs /\ KeepsPlan(job, job') /\ job'.stage = job.stage /\ job'.at = job.at
           /\ \/ job'.pc = "failed" /\ UNCHANGED <<live, raced>>
              \/ /\ job'.pc = "stamp"
                 /\ live' = [live EXCEPT ![File] = [turns |-> job.records[File].turns, at |-> now]]
                 /\ [turns |-> job.records[File].turns, at |-> now] \in Versions
                 /\ raced' = raced \ {File}
<1>1. /\ job \in Jobs /\ job.pc = "write" /\ job.records[File] \in Records
      /\ job.at \in 1 .. Len(job.plans)
  BY CurrentFile DEF Typed, TypeOK, WriteRestoredFile, Works
<1>2. CASE ArchivedBytes(File) = None \/ (ArchivedBytes(File) # None /\ ~Verified(File))
  <2>1. Fails /\ UNCHANGED <<live, raced>>
    BY <1>2 DEF WriteRestoredFile
  <2>2. job'.at = job.at
    BY <1>1, <2>1 DEF Fails, Jobs
  <2>. QED
    BY <2>1, <2>2, FailureStep DEF Typed
<1>3. CASE ~(ArchivedBytes(File) = None \/ (ArchivedBytes(File) # None /\ ~Verified(File)))
  <2>1. /\ live' = [live EXCEPT ![File] = NewVersion(ArchivedBytes(File).turns)]
        /\ job' = [job EXCEPT !.pc = "stamp"] /\ raced' = raced \ {File}
    BY <1>3 DEF WriteRestoredFile
  <2>2. ArchivedBytes(File).turns = job.records[File].turns
    BY <1>3 DEF Verified
  <2>3. NewVersion(ArchivedBytes(File).turns) = [turns |-> job.records[File].turns, at |-> now]
    BY <2>2 DEF NewVersion
  <2>4. [turns |-> job.records[File].turns, at |-> now] \in Versions
    BY <1>1 DEF Versions, Records, Typed, TypeOK
  <2>. QED
    BY <1>1, <2>1, <2>3, <2>4 DEF Jobs, KeepsPlan, Phases
<1>. QED
  BY <1>2, <1>3

LEMMA StampStep ==
    ASSUME Typed, StampRestoredFile
    PROVE  /\ job' \in Jobs /\ KeepsPlan(job, job') /\ job'.stage = job.stage
           /\ job'.at \in 1 .. Len(job.plans)
           /\ \/ job'.pc = "failed" /\ UNCHANGED live
              \/ /\ live[File] # None
                 /\ live' = [live EXCEPT ![File].at = job.records[File].at]
                 /\ \/ Last /\ job'.pc = "done" /\ job'.at = 1
                    \/ ~Last /\ job'.pc = "write" /\ job'.at = job.at + 1
<1>1. job \in Jobs /\ job.pc = "stamp" /\ job.at \in 1 .. Len(job.plans)
  BY CurrentFile DEF Typed, TypeOK, StampRestoredFile, Works
<1>2. CASE live[File] = None
  <2>1. Fails /\ UNCHANGED live
    BY <1>2 DEF StampRestoredFile
  <2>2. job'.at = job.at
    BY <1>1, <2>1 DEF Fails, Jobs
  <2>. QED
    BY <1>1, <2>1, <2>2, FailureStep DEF Typed
<1>3. CASE live[File] # None
  <2>. DEFINE j == [job EXCEPT !.pc = "write"]
  <2>1. /\ j \in Jobs /\ KeepsPlan(job, j) /\ j.at = job.at /\ j.pc = "write"
        /\ j.stage = job.stage
    BY <1>1 DEF Jobs, KeepsPlan, Phases
  <2>2. /\ job' = Advance(j, "done")
        /\ live' = [live EXCEPT ![File].at = job.records[File].at]
    BY <1>3 DEF StampRestoredFile, StampedTime
  <2>. HIDE DEF j
  <2>. QED
    BY <1>1, <1>3, <2>1, <2>2, Advances DEF Works, Phases
<1>. QED
  BY <1>2, <1>3

LEMMA TypeStep == Typed /\ [Next]_vars => Typed'
<1>. SUFFICES ASSUME Typed, [Next]_vars PROVE Typed'
  OBVIOUS
<1>1. /\ instance' = instance /\ harness' = harness /\ Files' = Files /\ Places' = Places
      /\ Archives' = Archives /\ Jobs' = Jobs
  BY Frozen
<1>2. ASSUME job' = job, raced' \subseteq Files, now' \in Nat, turn' \in Nat,
             left' \in [prunings : Nat, restores : 0 .. instance.restores, kills : Nat],
             live' \in [Files -> Versions \cup {None}], store' \in [Places -> Archives],
             sweeping' \in Files \cup {None},
             sweeping' # None => store'["own"].copy[sweeping'] # None
      PROVE  Typed'
  BY <1>1, <1>2 DEF Typed, TypeOK, PlansAreSound
<1>3. ASSUME job' \in Jobs, UNCHANGED <<now, turn, store, sweeping>>, raced' \subseteq Files,
             live' \in [Files -> Versions \cup {None}],
             left' \in [prunings : Nat, restores : 0 .. instance.restores, kills : Nat]
      PROVE  TypeOK'
  BY <1>1, <1>3 DEF Typed, TypeOK
<1>4. /\ live \in [Files -> Versions \cup {None}] /\ store \in [Places -> Archives]
      /\ raced \subseteq Files /\ now \in Nat /\ turn \in Nat /\ job \in Jobs /\ TypeOK
      /\ sweeping \in Files \cup {None}
      /\ sweeping # None => store["own"].copy[sweeping] # None
      /\ left \in [prunings : Nat, restores : 0 .. instance.restores, kills : Nat]
  BY DEF Typed, TypeOK
<1>5. CASE UNCHANGED vars
  BY <1>1, <1>5 DEF vars, Typed, TypeOK, PlansAreSound
<1>6. CASE HarnessActs
  <2>1. live' \in [Files -> Versions \cup {None}]
    BY <1>4, <1>6, HarnessTyped
  <2>2. /\ UNCHANGED <<job, now, store, sweeping>> /\ turn' \in {turn, turn + 1}
        /\ \E fs \in SUBSET Files : Touch(fs)
        /\ left' = left \/ (left.prunings > 0 /\ left' = [left EXCEPT !.prunings = @ - 1])
    BY <1>6 DEF HarnessActs, Prune, Writes, Move
  <2>3. left' \in [prunings : Nat, restores : 0 .. instance.restores, kills : Nat]
    BY <1>4, <2>2
  <2>4. raced' \subseteq Files
    BY <1>4, <2>2 DEF Touch
  <2>5. turn' \in Nat
    BY <1>4, <2>2
  <2>. QED
    BY <1>2, <1>4, <2>1, <2>2, <2>3, <2>4, <2>5
<1>8. CASE Tick
  BY <1>2, <1>4, <1>8 DEF Tick
<1>9. CASE SweepActs
  <2>1. /\ store' \in [Places -> Archives] /\ sweeping' \in Files \cup {None}
        /\ sweeping' # None => store'["own"].copy[sweeping'] # None
    BY <1>4, <1>9, SweepTyped
  <2>2. UNCHANGED <<job, left, now, turn, live, raced>>
    BY <1>9 DEF SweepActs, SweepCopies, SweepRecords, SweepRepairs
  <2>. QED
    BY <1>2, <1>4, <2>1, <2>2
<1>10. CASE KillSweep
  <2>1. left' \in [prunings : Nat, restores : 0 .. instance.restores, kills : Nat]
    BY <1>4, <1>10 DEF KillSweep
  <2>2. UNCHANGED <<job, live, now, turn, store, raced>> /\ sweeping' = None
    BY <1>10 DEF KillSweep
  <2>3. TypeOK'
    BY <1>1, <1>4, <2>1, <2>2 DEF TypeOK
  <2>. QED
    BY <1>1, <2>2, <2>3 DEF Typed, PlansAreSound
<1>11. CASE OthersAct
  <2>1. /\ store' \in [Places -> Archives]
        /\ sweeping # None => store'["own"].copy[sweeping] # None
    BY <1>4, <1>11, ForeignTyped
  <2>2. UNCHANGED <<job, left, now, live, raced, sweeping>> /\ turn' \in {turn, turn + 1}
    BY <1>11 DEF OthersAct, PublishObject, PublishIndex, MirrorObject, MirrorIndex
  <2>3. turn' \in Nat
    BY <1>4, <2>2
  <2>. QED
    BY <1>2, <1>4, <2>1, <2>2, <2>3
<1>12. ASSUME NEW place \in Places, NEW force \in BOOLEAN, RunRestore(place, force) PROVE Typed'
  <2>1. left' \in [prunings : Nat, restores : 0 .. instance.restores, kills : Nat]
    <3>1. instance.restores \in Nat
      BY InstancesAssumption DEF Typed, TypeOK
    <3>. QED
      BY <1>4, <1>12, <3>1 DEF RunRestore
  <2>2. UNCHANGED <<now, turn, live, store, sweeping>> /\ raced' = {}
    BY <1>12 DEF RunRestore
  <2>3. TypeOK'
    BY <1>3, <1>4, <1>12, <2>1, <2>2, StartStep
  <2>4. PlansAreSound'
    <3>1. CASE job'.pc = "failed"
      BY <3>1 DEF PlansAreSound, Works
    <3>2. CASE job'.pc # "failed"
      <4>1. job'.at = 1 /\ Len(job'.plans) \in Nat \ {0}
        BY <1>12, <3>2, StartStep
      <4>2. job'.at \in 1 .. Len(job'.plans)
        BY <4>1
      <4>. QED
        BY <1>1, <1>12, <3>2, <4>2, StartStep DEF PlansAreSound
    <3>. QED
      BY <3>1, <3>2
  <2>. QED
    BY <2>3, <2>4 DEF Typed
<1>13. ASSUME job' \in Jobs, KeepsPlan(job, job'), job.pc \in Works,
              job'.pc \notin {"failed", "idle"} => job'.at \in 1 .. Len(job.plans),
              job'.pc = "pull" => job.pc = "pull"
       PROVE  PlansAreSound'
  BY <1>1, <1>13 DEF Typed, PlansAreSound, KeepsPlan, Works
<1>14. CASE PullAndDecryptFile
  <2>1. TypeOK' /\ job.pc \in Works
    BY <1>3, <1>4, <1>14, PullStep DEF PullAndDecryptFile, Works
  <2>2. PlansAreSound'
    BY <1>13, <1>14, <2>1, PullStep DEF PullAndDecryptFile
  <2>. QED
    BY <2>1, <2>2 DEF Typed
<1>15. CASE CheckTarget
  <2>1. UNCHANGED <<now, turn, live, store, sweeping, left>> /\ raced' \subseteq Files
    BY <1>4, <1>15 DEF CheckTarget
  <2>2. TypeOK' /\ job.pc \in Works
    BY <1>3, <1>4, <1>15, <2>1, CheckStep DEF CheckTarget, Works
  <2>3. PlansAreSound'
    BY <1>13, <1>15, <2>2, CheckStep DEF CheckTarget
  <2>. QED
    BY <2>2, <2>3 DEF Typed
<1>16. CASE WriteRestoredFile
  <2>1. UNCHANGED <<now, turn, store, sweeping, left>> /\ job.pc = "write" /\ job.pc \in Works
    BY <1>16 DEF WriteRestoredFile, Works
  <2>2. live' \in [Files -> Versions \cup {None}] /\ raced' \subseteq Files
    BY <1>4, <1>16, WriteStep
  <2>3. job' \in Jobs /\ KeepsPlan(job, job') /\ job'.at = job.at /\ job'.pc \in {"failed", "stamp"}
    BY <1>16, WriteStep
  <2>4. TypeOK'
    BY <1>3, <1>4, <2>1, <2>2, <2>3
  <2>5. PlansAreSound'
    BY <1>13, <2>1, <2>3, CurrentFile DEF Typed
  <2>. QED
    BY <2>4, <2>5 DEF Typed
<1>17. CASE StampRestoredFile
  <2>1. UNCHANGED <<now, turn, store, sweeping, raced, left>> /\ job.pc = "stamp" /\ job.pc \in Works
    BY <1>17 DEF StampRestoredFile, Works
  <2>2. live' \in [Files -> Versions \cup {None}]
    <3>1. job.records[File].at \in Nat /\ File \in Files
      BY <2>1, CurrentFile DEF Typed, Records
    <3>2. CASE UNCHANGED live
      BY <1>4, <3>2
    <3>3. CASE live[File] # None /\ live' = [live EXCEPT ![File].at = job.records[File].at]
      <4>1. [live[File] EXCEPT !.at = job.records[File].at] \in Versions
        BY <1>4, <3>1, <3>3 DEF Versions
      <4>. QED
        BY <1>4, <3>1, <3>3, <4>1
    <3>. QED
      BY <1>17, <3>2, <3>3, StampStep
  <2>3. /\ job' \in Jobs /\ KeepsPlan(job, job') /\ job'.at \in 1 .. Len(job.plans)
        /\ job'.pc # "pull"
    BY <1>17, StampStep
  <2>4. TypeOK'
    BY <1>3, <1>4, <2>1, <2>2, <2>3
  <2>5. PlansAreSound'
    BY <1>13, <2>1, <2>3
  <2>. QED
    BY <2>4, <2>5 DEF Typed
<1>18. CASE Return \/ KillRestore
  <2>1. job' = Idle /\ raced' = {} /\ UNCHANGED <<now, turn, live, store, sweeping>>
    BY <1>18 DEF Return, KillRestore
  <2>2. left' \in [prunings : Nat, restores : 0 .. instance.restores, kills : Nat]
    BY <1>4, <1>18 DEF Return, KillRestore
  <2>3. TypeOK'
    BY <1>3, <1>4, <2>1, <2>2, StartValues
  <2>4. PlansAreSound'
    BY <2>1, StartValues DEF PlansAreSound, Works
  <2>. QED
    BY <2>3, <2>4 DEF Typed
<1>. QED
  BY <1>5, <1>6, <1>8, <1>9, <1>10, <1>11, <1>12, <1>14, <1>15, <1>16, <1>17, <1>18, Steps
     DEF RestoreActs

LEMMA InitIsTyped == Init => Typed
<1>. SUFFICES ASSUME Init PROVE Typed
  OBVIOUS
<1>1. instance.restores \in Nat /\ instance.prunings \in Nat /\ instance.kills \in Nat
  BY InstancesAssumption DEF Init
<1>2. [copy |-> NoFiles, rec |-> NoFiles] \in Archives
  BY StartValues DEF Archives
<1>3. TypeOK
  BY <1>1, <1>2, StartValues DEF Init, TypeOK
<1>4. PlansAreSound
  BY StartValues DEF Init, PlansAreSound, Works
<1>. QED
  BY <1>3, <1>4 DEF Typed

\* Every variable keeps its type, and a restore works through files each of
\* which has a record: of a Codex session the one no record is newer than
\* (restore.ts: toArchivedUnit, selectCodexState).
THEOREM RestoreTypes == Spec => []Typed
BY InitIsTyped, TypeStep, PTL DEF Spec

-----------------------------------------------------------------------------
(* What a restore leaves *)

Done(n) == \/ job.pc = "done"
           \/ job.pc = "write" /\ n < job.at
           \/ job.pc = "stamp" /\ n < job.at

RestoredSoFar ==
    /\ \A n \in DOMAIN job.plans :
         LET f == job.plans[n] IN
         Done(n) /\ f \notin raced =>
             live[f] = [turns |-> job.records[f].turns, at |-> job.records[f].at]
    /\ job.pc = "stamp" /\ File \notin raced =>
         live[File] # None /\ live[File].turns = job.records[File].turns

Looked(n) == \/ job.pc = "check" /\ ~job.offends /\ n < job.at
             \/ job.pc = "write" /\ ~job.force /\ n >= job.at
             \/ job.pc = "stamp" /\ ~job.force /\ n > job.at

NoneIsNewer ==
    \A n \in DOMAIN job.plans :
        Looked(n) /\ job.plans[n] \notin raced => ~Newer(job.plans[n])

RestoredInv == Typed /\ RestoredSoFar /\ NoneIsNewer

LEMMA HarnessTouches ==
    ASSUME TypeOK, HarnessActs
    PROVE  /\ UNCHANGED <<job, store>>
           /\ job.pc # "idle" => \A f \in Files : f \notin raced' => f \notin raced /\ live'[f] = live[f]
<1>1. ASSUME NEW fs \in SUBSET Files, Touch(fs), \A f \in Files \ fs : live'[f] = live[f]
      PROVE  job.pc # "idle" => \A f \in Files : f \notin raced' => f \notin raced /\ live'[f] = live[f]
  BY <1>1 DEF Touch
<1>2. ASSUME NEW f \in Files, Writes(f)
      PROVE  Touch({f}) /\ \A g \in Files \ {f} : live'[g] = live[g]
  BY <1>2 DEF Writes, TypeOK
<1>3. CASE Prune
  BY <1>1, <1>3 DEF Prune
<1>4. ASSUME NEW f \in Files, NEW g \in Files, Move(f, g) PROVE Touch(Files)
  BY <1>4 DEF Move
<1>5. UNCHANGED <<job, store>>
  BY DEF HarnessActs, Prune, Writes, Move
<1>. QED
  BY <1>1, <1>2, <1>3, <1>4, <1>5 DEF HarnessActs

LEMMA RestoredStep == RestoredInv /\ [Next]_vars => RestoredInv'
<1>. SUFFICES ASSUME RestoredInv, [Next]_vars PROVE RestoredSoFar' /\ NoneIsNewer'
  BY TypeStep DEF RestoredInv
<1>1. Typed /\ RestoredSoFar /\ NoneIsNewer /\ TypeOK /\ job \in Jobs
  BY DEF RestoredInv, Typed, TypeOK
<1>2. \A n \in DOMAIN job.plans : job.plans[n] \in Files /\ n \in Nat /\ n <= Len(job.plans)
  BY <1>1, PlannedFiles
<1>3. CASE UNCHANGED <<job, live, raced>>
  BY <1>1, <1>3 DEF RestoredSoFar, NoneIsNewer, Done, Looked, Newer, File
<1>4. CASE HarnessActs
  <2>1. /\ job' = job
        /\ job.pc # "idle" => \A f \in Files : f \notin raced' => f \notin raced /\ live'[f] = live[f]
    BY <1>1, <1>4, HarnessTouches
  <2>2. CASE job.pc = "idle"
    BY <2>1, <2>2 DEF RestoredSoFar, NoneIsNewer, Done, Looked
  <2>3. CASE job.pc # "idle"
    <3>1. RestoredSoFar'
      <4>1. ASSUME job.pc = "stamp" PROVE File \in Files
        BY <1>1, <4>1, CurrentFile DEF Typed, Works
      <4>. QED
        BY <1>1, <1>2, <2>1, <2>3, <4>1 DEF RestoredSoFar, Done, File
    <3>2. NoneIsNewer'
      BY <1>1, <1>2, <2>1, <2>3 DEF NoneIsNewer, Looked, Newer
    <3>. QED
      BY <3>1, <3>2
  <2>. QED
    BY <2>2, <2>3
<1>5. ASSUME job'.pc \in {"idle", "failed"} PROVE RestoredSoFar' /\ NoneIsNewer'
  BY <1>5 DEF RestoredSoFar, NoneIsNewer, Done, Looked
<1>6. ASSUME NEW place \in Places, NEW force \in BOOLEAN, RunRestore(place, force)
      PROVE  RestoredSoFar' /\ NoneIsNewer'
  <2>1. CASE job'.pc = "failed"
    BY <1>5, <2>1
  <2>2. CASE job'.pc \in {"pull", "check"} /\ job'.at = 1
    <3>1. \A n \in DOMAIN job'.plans : n \in Nat \ {0}
      <4>1. job'.plans \in Seq(Files')
        BY <1>1, <1>6, StartStep, Frozen DEF Jobs
      <4>. QED
        BY <4>1, LenProperties
    <3>. QED
      BY <2>2, <3>1 DEF RestoredSoFar, NoneIsNewer, Done, Looked
  <2>. QED
    BY <1>1, <1>6, <2>1, <2>2, StartStep
<1>7. CASE PullAndDecryptFile
  <2>1. CASE job'.pc = "failed"
    BY <1>5, <2>1
  <2>2. CASE job'.pc = "pull" \/ (job'.pc = "check" /\ job'.at = 1)
    <3>1. job'.plans = job.plans
      BY <1>1, <1>7, PullStep DEF KeepsPlan
    <3>2. \A n \in DOMAIN job.plans : n \in Nat \ {0}
      BY <1>1, PlannedFiles
    <3>. QED
      BY <2>2, <3>1, <3>2 DEF RestoredSoFar, NoneIsNewer, Done, Looked
  <2>. QED
    BY <1>1, <1>7, <2>1, <2>2, PullStep
<1>8. ASSUME job.pc \in Works
      PROVE  \A n \in DOMAIN job.plans : n # job.at => job.plans[n] # File
  BY <1>1, <1>8, CurrentFile DEF Typed, PlansAreSound, File
<1>9. CASE CheckTarget
  <2>1. /\ job.pc = "check" /\ job.pc \in Works /\ live' = live /\ raced' = raced \ {File}
    BY <1>9 DEF CheckTarget, Works
  <2>2. /\ job'.plans = job.plans /\ job'.records = job.records /\ job'.force = job.force
        /\ job.at \in 1 .. Len(job.plans) /\ Len(job.plans) \in Nat
    BY <1>1, <1>9, <2>1, CheckStep, CurrentFile DEF KeepsPlan, Typed
  <2>3. CASE job'.pc = "failed"
    BY <1>5, <2>3
  <2>4. CASE /\ job'.pc = "write" /\ Last /\ job'.at = 1
             /\ ~job.force => ~job.offends /\ ~Newer(File)
    <3>1. RestoredSoFar'
      BY <1>2, <2>2, <2>4, PlannedFiles, <1>1 DEF RestoredSoFar, Done
    <3>2. ASSUME NEW n \in DOMAIN job.plans, ~job.force, job.plans[n] \notin raced'
          PROVE  ~Newer(job.plans[n])
      <4>1. CASE n = job.at
        BY <2>4, <3>2, <4>1 DEF File
      <4>2. CASE n # job.at
        <5>1. job.plans[n] \notin raced
          BY <1>8, <2>1, <3>2, <4>2
        <5>2. n < job.at
          BY <1>2, <2>2, <2>4, <4>2 DEF Last
        <5>. QED
          BY <1>1, <2>1, <2>4, <3>2, <5>1, <5>2 DEF NoneIsNewer, Looked
      <4>. QED
        BY <4>1, <4>2
    <3>3. NoneIsNewer'
      BY <2>1, <2>2, <2>4, <3>2 DEF NoneIsNewer, Looked, Newer
    <3>. QED
      BY <3>1, <3>3
  <2>5. CASE /\ job'.pc = "check" /\ job'.at = job.at + 1
             /\ ~job'.offends => ~job.offends /\ ~Newer(File)
    <3>1. RestoredSoFar'
      BY <2>5 DEF RestoredSoFar, Done
    <3>2. ASSUME NEW n \in DOMAIN job.plans, ~job'.offends, n < job.at + 1, job.plans[n] \notin raced'
          PROVE  ~Newer(job.plans[n])
      <4>1. CASE n = job.at
        BY <2>5, <3>2, <4>1 DEF File
      <4>2. CASE n # job.at
        <5>1. job.plans[n] \notin raced
          BY <1>8, <2>1, <3>2, <4>2
        <5>2. n < job.at
          BY <1>2, <2>2, <3>2, <4>2
        <5>. QED
          BY <1>1, <2>1, <2>5, <3>2, <5>1, <5>2 DEF NoneIsNewer, Looked
      <4>. QED
        BY <4>1, <4>2
    <3>3. NoneIsNewer'
      BY <2>1, <2>2, <2>5, <3>2 DEF NoneIsNewer, Looked, Newer
    <3>. QED
      BY <3>1, <3>3
  <2>. QED
    BY <1>1, <1>9, <2>3, <2>4, <2>5, CheckStep
<1>10. CASE WriteRestoredFile
  <2>1. CASE job'.pc = "failed"
    BY <1>5, <2>1
  <2>2. CASE /\ job'.pc = "stamp" /\ raced' = raced \ {File}
             /\ live' = [live EXCEPT ![File] = [turns |-> job.records[File].turns, at |-> now]]
             /\ [turns |-> job.records[File].turns, at |-> now] \in Versions
    <3>1. job.pc = "write" /\ job.pc \in Works
      BY <1>10 DEF WriteRestoredFile, Works
    <3>2. /\ job'.plans = job.plans /\ job'.records = job.records /\ job'.force = job.force
          /\ job'.at = job.at /\ File' = File /\ File \in Files /\ job.at \in Nat
      BY <1>1, <1>10, <3>1, WriteStep, CurrentFile DEF KeepsPlan, Typed, File
    <3>3. \A n \in DOMAIN job.plans : n # job.at =>
             (job.plans[n] \notin raced' => job.plans[n] \notin raced) /\ live'[job.plans[n]] = live[job.plans[n]]
      BY <1>1, <1>2, <1>8, <2>2, <3>1, <3>2 DEF TypeOK
    <3>4. live'[File] # None /\ live'[File].turns = job.records[File].turns
      BY <1>1, <2>2, <3>2, NoneIsNothing DEF TypeOK
    <3>5. RestoredSoFar'
      BY <1>1, <1>2, <2>2, <3>1, <3>2, <3>3, <3>4 DEF RestoredSoFar, Done
    <3>6. NoneIsNewer'
      BY <1>1, <1>2, <2>2, <3>1, <3>2, <3>3 DEF NoneIsNewer, Looked, Newer
    <3>. QED
      BY <3>5, <3>6
  <2>. QED
    BY <1>1, <1>10, <2>1, <2>2, WriteStep
<1>11. CASE StampRestoredFile
  <2>1. CASE job'.pc = "failed"
    BY <1>5, <2>1
  <2>2. CASE /\ live[File] # None
             /\ live' = [live EXCEPT ![File].at = job.records[File].at]
             /\ \/ Last /\ job'.pc = "done" /\ job'.at = 1
                \/ ~Last /\ job'.pc = "write" /\ job'.at = job.at + 1
    <3>1. job.pc = "stamp" /\ job.pc \in Works /\ raced' = raced
      BY <1>11 DEF StampRestoredFile, Works
    <3>2. /\ job'.plans = job.plans /\ job'.records = job.records /\ job'.force = job.force
          /\ File \in Files /\ job.at \in 1 .. Len(job.plans) /\ Len(job.plans) \in Nat
      BY <1>1, <1>11, <3>1, StampStep, CurrentFile DEF KeepsPlan, Typed
    <3>3. \A n \in DOMAIN job.plans : n # job.at => live'[job.plans[n]] = live[job.plans[n]]
      BY <1>1, <1>2, <1>8, <2>2, <3>1, <3>2 DEF TypeOK
    <3>4. File \notin raced =>
            live'[File] = [turns |-> job.records[File].turns, at |-> job.records[File].at]
      <4>1. live[File] \in Versions
        BY <1>1, <2>2, <3>2 DEF TypeOK
      <4>2. live'[File] = [live[File] EXCEPT !.at = job.records[File].at]
        BY <1>1, <2>2, <3>2 DEF TypeOK
      <4>3. live'[File] = [turns |-> live[File].turns, at |-> job.records[File].at]
        BY <4>1, <4>2 DEF Versions
      <4>. QED
        BY <1>1, <3>1, <4>3 DEF RestoredSoFar
    <3>5. \A n \in DOMAIN job.plans : Done(n)' => n < job.at \/ n = job.at
      BY <1>2, <2>2, <3>2 DEF Done, Last
    <3>6. RestoredSoFar'
      <4>1. ASSUME NEW n \in DOMAIN job.plans, Done(n)', job.plans[n] \notin raced
            PROVE  live'[job.plans[n]] =
                     [turns |-> job.records[job.plans[n]].turns, at |-> job.records[job.plans[n]].at]
        <5>1. CASE n = job.at
          BY <3>4, <4>1, <5>1 DEF File
        <5>2. CASE n < job.at
          BY <1>1, <1>2, <3>1, <3>2, <3>3, <4>1, <5>2 DEF RestoredSoFar, Done
        <5>. QED
          BY <3>5, <4>1, <5>1, <5>2
      <4>2. job'.pc # "stamp"
        BY <2>2
      <4>. QED
        BY <3>1, <3>2, <4>1, <4>2 DEF RestoredSoFar
    <3>7. NoneIsNewer'
      <4>1. ASSUME NEW n \in DOMAIN job.plans, Looked(n)' PROVE Looked(n) /\ n # job.at
        BY <1>2, <2>2, <3>1, <3>2, <4>1 DEF Looked
      <4>. QED
        BY <1>1, <3>1, <3>2, <3>3, <4>1 DEF NoneIsNewer, Newer
    <3>. QED
      BY <3>6, <3>7
  <2>. QED
    BY <1>1, <1>11, <2>1, <2>2, StampStep
<1>12. CASE Return \/ KillRestore
  BY <1>5, <1>12, StartValues DEF Return, KillRestore
<1>13. CASE SweepActs \/ OthersAct \/ Tick \/ KillSweep \/ UNCHANGED vars
  BY <1>3, <1>13 DEF SweepActs, OthersAct, SweepRecords, SweepCopies, SweepRepairs, PublishIndex,
     MirrorIndex, PublishObject, MirrorObject, Tick, KillSweep, vars
<1>. QED
  BY <1>4, <1>6, <1>7, <1>9, <1>10, <1>11, <1>12, <1>13, Steps DEF RestoreActs

LEMMA RestoredInvariant == Spec => []RestoredInv
<1>1. Init => RestoredInv
  <2>1. Init => RestoredSoFar /\ NoneIsNewer
    BY StartValues DEF Init, RestoredSoFar, NoneIsNewer, Done, Looked
  <2>. QED
    BY <2>1, InitIsTyped DEF RestoredInv
<1>. QED
  BY <1>1, RestoredStep, PTL DEF Spec

\* After a restore that succeeded every file of the unit has the contents and
\* the time its record gives, unless the harness wrote it meanwhile, however
\* many restores, kills, sweeps and syncs went before or beside it
\* (restore.ts: writeRestoredFile).
THEOREM RestoresWhatWasRecorded == Spec => []RestoredAsRecorded
<1>1. RestoredInv => RestoredAsRecorded
  BY DEF RestoredInv, RestoredSoFar, Done, RestoredAsRecorded
<1>. QED
  BY <1>1, RestoredInvariant, PTL

-----------------------------------------------------------------------------
(* What the live store and the archives have of a session *)

Started == instance.restores - left.restores

\* The files a session may be in
Kin(f, g) == f = g \/ harness = "codex"

Written(n) == \/ job.pc = "write" /\ n < job.at
              \/ job.pc = "stamp" /\ n <= job.at

\* No restore has put a file of this session into the live store
Untouched(f) ==
    \/ Started = 0
    \/ /\ Started = 1 /\ job.pc \in Works
       /\ \A n \in DOMAIN job.plans : Written(n) => ~Kin(job.plans[n], f)

Own(f) == {store["own"].copy[f], store["own"].rec[f]} \ {None}

Foreign(f) == ({store[p].copy[f] : p \in Sources} \cup {store[p].rec[f] : p \in Sources}) \ {None}

Taken(f) == {job.stage[f], job.records[f]} \ {None}

InSight(f) == Own(f) \cup Foreign(f) \cup Taken(f)

Past(v) == v.turns \subseteq 1 .. turn /\ v.at <= now

EverythingIsPast ==
    \A f \in Files : /\ \A v \in InSight(f) : Past(v)
                     /\ live[f] # None => Past(live[f])

\* A version that is dated later than the live file has a turn that it lacks
LiveIsLatest ==
    \A f, h \in Files : Kin(f, h) /\ Untouched(f) /\ live[h] # None =>
        \A v \in InSight(f) : v.at <= live[h].at \/ ~(v.turns \subseteq live[h].turns)

\* This machine's archive is behind the live file
OwnIsBehind ==
    Started = 0 =>
        \A f, h \in Files : Kin(f, h) /\ live[h] # None =>
            \A v \in Own(f) : /\ v.at <= live[h].at
                              /\ live[h].turns \subseteq v.turns => v.turns \subseteq live[h].turns

\* A Codex session is in one place
OnePlace ==
    harness = "codex" =>
        \A f, g \in Files : Untouched(f) /\ live[f] # None /\ live[g] # None => f = g

\* The later of two versions is not a part of the earlier
Ordered(v, w) == v.at < w.at => (w.turns \subseteq v.turns => v.turns \subseteq w.turns)

AllOrdered(recs) ==
    \A f, g \in Files : recs[f] # None /\ recs[g] # None => Ordered(recs[f], recs[g])

OwnIsOrdered ==
    Started = 0 /\ harness = "codex" =>
        \A f, g \in Files : \A v \in Own(f), w \in Own(g) : Ordered(v, w)

ForeignIsOrdered ==
    harness = "codex" =>
        /\ "remote" \in Sources /\ Started = 0 => AllOrdered(store["remote"].rec)
        /\ "mirror" \in Sources =>
              store["mirror"].copy["archived"] = None /\ store["mirror"].rec["archived"] = None

TakenIsOrdered ==
    harness = "codex" /\ FirstRestore /\ job.pc # "idle" => AllOrdered(job.records)

\* Before the first restore there is none
NoneStarted == Started = 0 => job.pc = "idle"

HistoryInv ==
    /\ Typed /\ EverythingIsPast /\ LiveIsLatest /\ OwnIsBehind /\ OnePlace
    /\ OwnIsOrdered /\ ForeignIsOrdered /\ TakenIsOrdered /\ NoneStarted

-----------------------------------------------------------------------------
(* Where the versions come from.  After a step every version in the archives
   or in a restore is one that was there, or the live file a sweep has just
   copied, or one the other machine has just written.                       *)

Same(v, w) == v.turns = w.turns /\ v.at = w.at

Fresh(v) == v.turns \subseteq 1 .. turn + 1 /\ turn + 1 \in v.turns /\ v.at = now

LEMMA PlacesDiffer ==
    ASSUME instance \in Instances
    PROVE  "own" \notin Sources /\ "own" \in Places /\ Sources \subseteq Places
BY InstancesAssumption DEF Sources, Places, AllSources

LEMMA VersionsInSight ==
    ASSUME TypeOK, NEW f \in Files
    PROVE  /\ \A v \in InSight(f) : v.turns \subseteq Nat /\ v.at \in Nat
           /\ live[f] # None => live[f] \in Versions
<1>1. /\ \A v \in Versions : v.turns \subseteq Nat /\ v.at \in Nat
      /\ \A v \in Records : v.turns \subseteq Nat /\ v.at \in Nat
  BY DEF Versions, Records
<1>2. \A p \in Places : /\ store[p].copy[f] \in Versions \cup {None}
                        /\ store[p].rec[f] \in Records \cup {None}
  BY DEF TypeOK, Archives
<1>3. job.stage[f] \in Versions \cup {None} /\ job.records[f] \in Records \cup {None}
  BY DEF TypeOK, Jobs
<1>. QED
  BY <1>1, <1>2, <1>3, PlacesDiffer DEF TypeOK, InSight, Own, Foreign, Taken

LEMMA OwnSources ==
    ASSUME Typed, [Next]_vars, NEW f \in Files, NEW v \in Own(f)'
    PROVE  (\E w \in Own(f) : Same(v, w)) \/ (live[f] # None /\ v = live[f])
<1>1. /\ TypeOK /\ instance \in Instances /\ "own" \in Places /\ "own" \notin Sources
      /\ store["own"].copy \in [Files -> Versions \cup {None}]
      /\ store["own"].rec \in [Files -> Records \cup {None}] /\ store \in [Places -> Archives]
  BY PlacesDiffer DEF Typed, TypeOK, Archives
<1>2. ASSUME store'["own"] = store["own"] PROVE \E w \in Own(f) : Same(v, w)
  BY <1>2 DEF Own, Same
<1>3. ASSUME NEW g \in Files, SweepCopies(g)
      PROVE  (\E w \in Own(f) : Same(v, w)) \/ (live[f] # None /\ v = live[f])
  <2>1. /\ store'["own"].copy = [store["own"].copy EXCEPT ![g] = live[g]]
        /\ store'["own"].rec = store["own"].rec /\ live[g] # None
    BY <1>1, <1>3 DEF SweepCopies, Archives
  <2>. QED
    BY <1>1, <2>1 DEF Own, Same
<1>4. ASSUME NEW g \in Files, store["own"].copy[g] # None,
             store' = [store EXCEPT !["own"].rec = Recorded(@, g, store["own"].copy[g])]
      PROVE  \E w \in Own(f) : Same(v, w)
  <2>. DEFINE recs == Recorded(store["own"].rec, g, store["own"].copy[g])
  <2>1. store'["own"].copy = store["own"].copy /\ store'["own"].rec = recs
    BY <1>1, <1>4 DEF Archives
  <2>2. store["own"].copy[g] \in Versions
    BY <1>1, <1>4
  <2>3. /\ recs[g] = [turns |-> store["own"].copy[g].turns, at |-> store["own"].copy[g].at,
                     last |-> TRUE]
        /\ \A h \in Files \ {g} :
              /\ store["own"].rec[h] = None <=> recs[h] = None
              /\ store["own"].rec[h] # None =>
                    recs[h].turns = store["own"].rec[h].turns /\ recs[h].at = store["own"].rec[h].at
    BY <1>1, <2>2, RecordsAreRecords
  <2>. HIDE DEF recs
  <2>4. v # None /\ (v = store["own"].copy[f] \/ v = recs[f])
    BY <2>1 DEF Own
  <2>. QED
    BY <1>4, <2>3, <2>4 DEF Own, Same
<1>5. CASE SweepRecords
  BY <1>1, <1>4, <1>5 DEF SweepRecords, TypeOK
<1>6. ASSUME NEW g \in Files, SweepRepairs(g) PROVE \E w \in Own(f) : Same(v, w)
  <2>1. store["own"].copy[g] # None
    BY <1>6 DEF SweepRepairs, ShouldArchive
  <2>. QED
    BY <1>4, <1>6, <2>1 DEF SweepRepairs
<1>7. CASE OthersAct
  <2>1. store'["own"] = store["own"]
    BY <1>1, <1>7 DEF OthersAct, PublishObject, PublishIndex, MirrorObject, MirrorIndex
  <2>. QED
    BY <1>2, <2>1
<1>8. CASE HarnessActs
  BY <1>1, <1>2, <1>8, HarnessTouches
<1>9. CASE RestoreActs \/ Tick \/ KillSweep \/ UNCHANGED vars
  BY <1>2, <1>9 DEF RestoreActs, RunRestore, PullAndDecryptFile, CheckTarget, WriteRestoredFile,
     StampRestoredFile, Return, KillRestore, Tick, KillSweep, vars
<1>. QED
  BY <1>3, <1>5, <1>6, <1>7, <1>8, <1>9, Steps DEF SweepActs

LEMMA ForeignSources ==
    ASSUME Typed, EverythingIsPast, [Next]_vars, NEW f \in Files, NEW v \in Foreign(f)'
    PROVE  (\E w \in InSight(f) : Same(v, w)) \/ (Fresh(v) /\ turn' = turn + 1)
<1>1. /\ TypeOK /\ instance \in Instances /\ "own" \in Places /\ "own" \notin Sources
      /\ Sources \subseteq Places /\ Sources' = Sources
      /\ \A p \in Places : /\ store[p] \in Archives
                           /\ store[p].copy \in [Files -> Versions \cup {None}]
      /\ store \in [Places -> Archives]
  BY PlacesDiffer, Frozen DEF Typed, TypeOK, Archives, Sources
<1>2. PICK p \in Sources : v # None /\ (v = store'[p].copy[f] \/ v = store'[p].rec[f])
  BY <1>1 DEF Foreign
<1>3. ASSUME store'[p] = store[p] PROVE \E w \in InSight(f) : Same(v, w)
  BY <1>2, <1>3 DEF InSight, Foreign, Same
<1>4. ASSUME v = store["own"].copy[f] \/ v = store["own"].rec[f] PROVE \E w \in InSight(f) : Same(v, w)
  BY <1>2, <1>4 DEF InSight, Own, Same
<1>5. ASSUME v = store[p].copy[f] \/ v = store[p].rec[f] PROVE \E w \in InSight(f) : Same(v, w)
  BY <1>2, <1>5 DEF InSight, Foreign, Same
<1>6. ASSUME NEW g \in Files, PublishObject(g) PROVE \E w \in InSight(f) : Same(v, w)
  <2>1. store' = [store EXCEPT !["remote"].copy[g] = store["own"].copy[g]] /\ "remote" \in Places
    BY <1>1, <1>6 DEF PublishObject
  <2>2. CASE p = "remote"
    <3>1. /\ store'[p].copy = [store[p].copy EXCEPT ![g] = store["own"].copy[g]]
          /\ store'[p].rec = store[p].rec
      BY <1>1, <2>1, <2>2 DEF Archives
    <3>2. store[p].copy \in [Files -> Versions \cup {None}]
      BY <1>1
    <3>. QED
      BY <1>2, <1>4, <1>5, <3>1, <3>2
  <2>3. CASE p # "remote"
    BY <1>1, <1>3, <2>1, <2>3
  <2>. QED
    BY <2>2, <2>3
<1>7. CASE PublishIndex
  <2>1. store' = [store EXCEPT !["remote"].rec = store["own"].rec] /\ "remote" \in Places
    BY <1>1, <1>7 DEF PublishIndex
  <2>2. CASE p = "remote"
    <3>1. store'[p].copy = store[p].copy /\ store'[p].rec = store["own"].rec
      BY <1>1, <2>1, <2>2 DEF Archives
    <3>. QED
      BY <1>2, <1>4, <1>5, <3>1
  <2>3. CASE p # "remote"
    BY <1>1, <1>3, <2>1, <2>3
  <2>. QED
    BY <2>2, <2>3
<1>8. ASSUME NEW g \in Files, MirrorObject(g)
      PROVE  (\E w \in InSight(f) : Same(v, w)) \/ (Fresh(v) /\ turn' = turn + 1)
  <2>1. PICK from \in {"own", "mirror"} :
          store' = [store EXCEPT !["mirror"].copy[g] =
                      NewVersion((IF store[from].copy[g] = None THEN {} ELSE store[from].copy[g].turns)
                                   \cup {turn + 1})]
    BY <1>8 DEF MirrorObject
  <2>2. "mirror" \in Sources /\ "mirror" \in Places /\ turn' = turn + 1
    BY <1>1, <1>8 DEF MirrorObject
  <2>. DEFINE base == IF store[from].copy[g] = None THEN {} ELSE store[from].copy[g].turns
              new  == NewVersion(base \cup {turn + 1})
  <2>3. base \subseteq 1 .. turn
    <3>1. store[from].copy[g] # None => store[from].copy[g] \in InSight(g)
      BY <2>2 DEF InSight, Own, Foreign
    <3>. QED
      BY <3>1 DEF EverythingIsPast, Past
  <2>4. Fresh(new)
    BY <1>1, <2>3 DEF Fresh, NewVersion, TypeOK
  <2>. HIDE DEF base, new
  <2>5. store' = [store EXCEPT !["mirror"].copy[g] = new]
    BY <2>1 DEF base, new
  <2>6. CASE p = "mirror"
    <3>1. /\ store'[p].copy = [store[p].copy EXCEPT ![g] = new]
          /\ store'[p].rec = store[p].rec
      BY <1>1, <2>2, <2>5, <2>6 DEF Archives
    <3>2. store[p].copy \in [Files -> Versions \cup {None}]
      BY <1>1
    <3>. QED
      BY <1>2, <1>5, <2>2, <2>4, <3>1, <3>2
  <2>7. CASE p # "mirror"
    BY <1>1, <1>3, <2>5, <2>7
  <2>. QED
    BY <2>6, <2>7
<1>9. CASE MirrorIndex
  <2>. DEFINE recs == [g \in Files |->
                 IF store["mirror"].copy[g] = None THEN None
                 ELSE [turns |-> store["mirror"].copy[g].turns, at |-> store["mirror"].copy[g].at,
                       last |-> FALSE]]
  <2>1. "mirror" \in Sources /\ "mirror" \in Places
    BY <1>1, <1>9 DEF MirrorIndex
  <2>2. store' = [store EXCEPT !["mirror"].rec = recs]
    BY <1>9 DEF MirrorIndex
  <2>3. recs[f] # None => /\ store["mirror"].copy[f] # None
                          /\ Same(recs[f], store["mirror"].copy[f])
    BY DEF Same
  <2>. HIDE DEF recs
  <2>4. CASE p = "mirror"
    <3>1. store'[p].copy = store[p].copy /\ store'[p].rec = recs
      BY <1>1, <2>1, <2>2, <2>4 DEF Archives
    <3>2. store["mirror"].copy[f] # None => store["mirror"].copy[f] \in InSight(f)
      BY <2>1 DEF InSight, Foreign
    <3>. QED
      BY <1>2, <1>5, <2>3, <3>1, <3>2
  <2>5. CASE p # "mirror"
    BY <1>1, <1>3, <2>2, <2>5
  <2>. QED
    BY <2>4, <2>5
<1>10. CASE SweepActs
  <2>1. \A q \in Sources : store'[q] = store[q]
    BY <1>1, <1>10 DEF SweepActs, SweepCopies, SweepRecords, SweepRepairs
  <2>. QED
    BY <1>3, <2>1
<1>11. CASE HarnessActs
  BY <1>1, <1>3, <1>11, HarnessTouches
<1>12. CASE RestoreActs \/ Tick \/ KillSweep \/ UNCHANGED vars
  BY <1>3, <1>12 DEF RestoreActs, RunRestore, PullAndDecryptFile, CheckTarget, WriteRestoredFile,
     StampRestoredFile, Return, KillRestore, Tick, KillSweep, vars
<1>. QED
  BY <1>6, <1>7, <1>8, <1>9, <1>10, <1>11, <1>12, Steps DEF OthersAct

LEMMA TakenSources ==
    ASSUME Typed, [Next]_vars, NEW f \in Files, NEW v \in Taken(f)'
    PROVE  v \in InSight(f)
<1>1. TypeOK /\ instance \in Instances /\ "own" \in Places /\ NoFiles[f] = None /\ Idle.records = NoFiles
      /\ Idle.stage = NoFiles /\ job.stage \in [Files -> Versions \cup {None}]
  BY PlacesDiffer DEF Typed, TypeOK, NoFiles, Idle, Jobs
<1>2. v # None /\ (v = job'.stage[f] \/ v = job'.records[f])
  BY DEF Taken
<1>3. ASSUME job'.stage = job.stage, job'.records = job.records PROVE v \in InSight(f)
  BY <1>2, <1>3 DEF InSight, Taken
<1>4. ASSUME NEW place \in Places, NEW force \in BOOLEAN, RunRestore(place, force) PROVE v \in InSight(f)
  <2>1. job'.stage = NoFiles /\ (job'.records = NoFiles \/ job'.records = store[place].rec)
    BY <1>4, StartStep
  <2>2. v = store[place].rec[f]
    BY <1>1, <1>2, <2>1
  <2>. QED
    BY <1>2, <2>2 DEF InSight, Own, Foreign, Places
<1>5. CASE PullAndDecryptFile
  <2>1. /\ job'.records = job.records
        /\ \/ job'.stage = job.stage
           \/ job'.stage = [job.stage EXCEPT ![File] = store["remote"].copy[File]]
    BY <1>5, PullStep DEF KeepsPlan
  <2>2. "remote" \in Places
    BY <1>5 DEF PullAndDecryptFile, Typed, PlansAreSound, Works
  <2>3. v \in Taken(f) \/ v = store["remote"].copy[f]
    BY <1>1, <1>2, <2>1 DEF Taken
  <2>. QED
    BY <1>2, <2>2, <2>3 DEF InSight, Own, Foreign, Places
<1>6. CASE CheckTarget
  BY <1>3, <1>6, CheckStep DEF KeepsPlan
<1>7. CASE WriteRestoredFile
  BY <1>3, <1>7, WriteStep DEF KeepsPlan
<1>8. CASE StampRestoredFile
  BY <1>3, <1>8, StampStep DEF KeepsPlan
<1>9. CASE Return \/ KillRestore
  BY <1>1, <1>2, <1>9 DEF Return, KillRestore
<1>10. CASE HarnessActs
  BY <1>1, <1>3, <1>10, HarnessTouches
<1>11. CASE SweepActs \/ OthersAct \/ Tick \/ KillSweep \/ UNCHANGED vars
  BY <1>3, <1>11 DEF SweepActs, OthersAct, SweepRecords, SweepCopies, SweepRepairs, PublishIndex,
     MirrorIndex, PublishObject, MirrorObject, Tick, KillSweep, vars
<1>. QED
  BY <1>4, <1>5, <1>6, <1>7, <1>8, <1>9, <1>10, <1>11, Steps DEF RestoreActs

LEMMA InSightSources ==
    ASSUME Typed, EverythingIsPast, [Next]_vars, NEW f \in Files, NEW v \in InSight(f)'
    PROVE  \/ \E w \in InSight(f) : Same(v, w)
           \/ live[f] # None /\ v = live[f]
           \/ Fresh(v) /\ turn' = turn + 1
BY OwnSources, ForeignSources, TakenSources DEF InSight, Same

-----------------------------------------------------------------------------
(* What the harness does to the live store: it writes a turn nothing has yet,
   or it moves a Codex session.                                             *)

Counts ==
    /\ now \in Nat /\ turn \in Nat /\ Started \in Nat
    /\ Started = 1 <=> FirstRestore

LEMMA StartedCounts == ASSUME TypeOK PROVE Counts
<1>1. instance.restores \in Nat
  BY InstancesAssumption DEF TypeOK
<1>. QED
  BY <1>1 DEF TypeOK, Counts, Started, FirstRestore

LEMMA HarnessWrites ==
    ASSUME TypeOK, EverythingIsPast, HarnessActs, NEW h \in Files, live'[h] # None
    PROVE  \/ Fresh(live'[h]) /\ turn' = turn + 1
           \/ \E k \in Files : /\ Kin(k, h) /\ live[k] # None /\ live'[h].turns = live[k].turns
                               /\ live'[h].at \in {live[k].at, now}
<1>1. live \in [Files -> Versions \cup {None}] /\ turn \in Nat
  BY DEF TypeOK
<1>2. ASSUME live'[h] = live[h]
      PROVE  \E k \in Files : /\ Kin(k, h) /\ live[k] # None /\ live'[h].turns = live[k].turns
                              /\ live'[h].at \in {live[k].at, now}
  BY <1>2 DEF Kin
<1>3. ASSUME NEW f \in Files, Writes(f)
      PROVE  (Fresh(live'[h]) /\ turn' = turn + 1) \/ live'[h] = live[h]
  <2>. DEFINE base == IF live[f] = None THEN {} ELSE live[f].turns
  <2>1. live' = [live EXCEPT ![f] = NewVersion(base \cup {turn + 1})] /\ turn' = turn + 1
    BY <1>3 DEF Writes
  <2>2. base \subseteq 1 .. turn
    BY DEF EverythingIsPast, Past
  <2>3. Fresh(NewVersion(base \cup {turn + 1}))
    <3>. HIDE DEF base
    <3>. QED
      BY <1>1, <2>2 DEF Fresh, NewVersion
  <2>. HIDE DEF base
  <2>. QED
    BY <1>1, <2>1, <2>3
<1>4. CASE Prune
  BY <1>4 DEF Prune, NoFiles
<1>5. ASSUME NEW f \in Files, NEW g \in Files, Move(f, g)
      PROVE  \E k \in Files : /\ Kin(k, h) /\ live[k] # None /\ live'[h].turns = live[k].turns
                              /\ live'[h].at \in {live[k].at, now}
  <2>1. /\ f # g /\ live[f] \in Versions /\ live[f] # None /\ Kin(f, h)
        /\ live' = [live EXCEPT ![f] = None,
                         ![g] = IF g = "active" THEN [live[f] EXCEPT !.at = now] ELSE live[f]]
    BY <1>1, <1>5 DEF Move, Kin
  <2>2. CASE h = g
    <3>1. live'[h] = IF g = "active" THEN [live[f] EXCEPT !.at = now] ELSE live[f]
      BY <1>1, <2>1, <2>2
    <3>2. [live[f] EXCEPT !.at = now].turns = live[f].turns /\ [live[f] EXCEPT !.at = now].at = now
      BY <2>1 DEF Versions
    <3>. QED
      BY <2>1, <3>1, <3>2
  <2>3. CASE h # g
    <3>1. h # f /\ live'[h] = live[h]
      BY <1>1, <2>1, <2>3
    <3>. QED
      BY <1>2, <3>1
  <2>. QED
    BY <2>2, <2>3
<1>. QED
  BY <1>2, <1>3, <1>4, <1>5 DEF HarnessActs

LEMMA KinIsEquivalence ==
    \A f, g, h : Kin(f, f) /\ (Kin(f, g) => Kin(g, f)) /\ (Kin(f, g) /\ Kin(g, h) => Kin(f, h))
BY DEF Kin

LEMMA HistoryHarness ==
    ASSUME HistoryInv, HarnessActs, [Next]_vars
    PROVE  /\ EverythingIsPast' /\ LiveIsLatest' /\ OwnIsBehind' /\ OnePlace' /\ OwnIsOrdered'
           /\ ForeignIsOrdered' /\ TakenIsOrdered' /\ NoneStarted'
<1>1. /\ TypeOK /\ Typed /\ EverythingIsPast /\ LiveIsLatest /\ OwnIsBehind /\ OnePlace
      /\ OwnIsOrdered /\ ForeignIsOrdered /\ TakenIsOrdered /\ NoneStarted
      /\ now \in Nat /\ turn \in Nat
  BY DEF HistoryInv, Typed, TypeOK
<1>2. /\ instance' = instance /\ harness' = harness /\ Files' = Files /\ Places' = Places
      /\ Sources' = Sources /\ store' = store /\ job' = job
  BY <1>1, Frozen, HarnessTouches DEF Sources
<1>3. now' = now /\ turn' \in {turn, turn + 1} /\ left'.restores = left.restores
  <2>1. left \in [prunings : Nat, restores : 0 .. instance.restores, kills : Nat]
    BY <1>1 DEF TypeOK
  <2>2. left' = left \/ left' = [left EXCEPT !.prunings = @ - 1]
    BY DEF HarnessActs, Prune, Writes, Move
  <2>3. now' = now /\ turn' \in {turn, turn + 1}
    BY DEF HarnessActs, Prune, Writes, Move
  <2>. QED
    BY <2>1, <2>2, <2>3
<1>4. /\ \A f : Own(f)' = Own(f) /\ InSight(f)' = InSight(f)
      /\ \A f, g : Kin(f, g)' <=> Kin(f, g)
      /\ \A f : Untouched(f)' <=> Untouched(f)
      /\ Started' = Started
  BY <1>2, <1>3 DEF Own, Foreign, Taken, InSight, Kin, Untouched, Written, Started
<1>5. OwnIsOrdered' /\ ForeignIsOrdered' /\ TakenIsOrdered' /\ NoneStarted'
  BY <1>1, <1>2, <1>3, <1>4 DEF OwnIsOrdered, ForeignIsOrdered, TakenIsOrdered, NoneStarted,
     AllOrdered, FirstRestore
<1>6. ASSUME NEW h \in Files, live'[h] # None
      PROVE  \/ Fresh(live'[h]) /\ turn' = turn + 1
             \/ \E k \in Files : /\ Kin(k, h) /\ live[k] # None /\ live'[h].turns = live[k].turns
                                 /\ live'[h].at \in {live[k].at, now}
  BY <1>1, <1>6, HarnessWrites
<1>7. \A f \in Files : /\ \A v \in InSight(f) : Past(v) /\ v.turns \subseteq Nat /\ v.at \in Nat
                       /\ live[f] # None => /\ Past(live[f]) /\ live[f].turns \subseteq Nat
                                            /\ live[f].at \in Nat
  BY <1>1, VersionsInSight DEF EverythingIsPast, Versions
<1>8. EverythingIsPast'
  <2>1. ASSUME NEW v, v.turns \subseteq 1 .. turn, v.at <= now
        PROVE  v.turns \subseteq 1 .. turn' /\ v.at <= now'
    BY <1>1, <1>3, <2>1
  <2>2. ASSUME NEW h \in Files, live'[h] # None
        PROVE  live'[h].turns \subseteq 1 .. turn' /\ live'[h].at <= now'
    <3>1. CASE Fresh(live'[h]) /\ turn' = turn + 1
      BY <1>1, <1>3, <3>1 DEF Fresh
    <3>2. CASE \E k \in Files : /\ live[k] # None /\ live'[h].turns = live[k].turns
                                /\ live'[h].at \in {live[k].at, now}
      BY <1>1, <1>3, <1>7, <3>2 DEF Past
    <3>. QED
      BY <1>6, <2>2, <3>1, <3>2
  <2>. QED
    BY <1>2, <1>4, <1>7, <2>1, <2>2 DEF EverythingIsPast, Past
<1>9. LiveIsLatest'
  <2>. SUFFICES ASSUME NEW f \in Files, NEW h \in Files, Kin(f, h), Untouched(f), live'[h] # None,
                       NEW v \in InSight(f)
                PROVE  v.at <= live'[h].at \/ ~(v.turns \subseteq live'[h].turns)
    BY <1>2, <1>4 DEF LiveIsLatest
  <2>1. CASE Fresh(live'[h])
    BY <1>7, <2>1 DEF Fresh, Past
  <2>2. ASSUME NEW k \in Files, Kin(k, h), live[k] # None, live'[h].turns = live[k].turns,
               live'[h].at \in {live[k].at, now}
        PROVE  v.at <= live'[h].at \/ ~(v.turns \subseteq live'[h].turns)
    <3>1. v.at <= live[k].at \/ ~(v.turns \subseteq live[k].turns)
      BY <1>1, <2>2, KinIsEquivalence DEF LiveIsLatest
    <3>. QED
      BY <1>1, <1>7, <2>2, <3>1 DEF Past
  <2>. QED
    BY <1>6, <2>1, <2>2
<1>10. OwnIsBehind'
  <2>. SUFFICES ASSUME NEW f \in Files, NEW h \in Files, Kin(f, h), Started = 0, live'[h] # None,
                       NEW v \in Own(f)
                PROVE  /\ v.at <= live'[h].at
                       /\ live'[h].turns \subseteq v.turns => v.turns \subseteq live'[h].turns
    BY <1>2, <1>4 DEF OwnIsBehind
  <2>1. Past(v) /\ v.turns \subseteq Nat /\ v.at \in Nat
    BY <1>7 DEF InSight
  <2>2. CASE Fresh(live'[h])
    <3>1. turn + 1 \notin v.turns
      BY <1>1, <2>1 DEF Past
    <3>. QED
      BY <2>1, <2>2, <3>1 DEF Fresh, Past
  <2>3. ASSUME NEW k \in Files, Kin(k, h), live[k] # None, live'[h].turns = live[k].turns,
               live'[h].at \in {live[k].at, now}
        PROVE  /\ v.at <= live'[h].at
               /\ live'[h].turns \subseteq v.turns => v.turns \subseteq live'[h].turns
    <3>1. v.at <= live[k].at /\ (live[k].turns \subseteq v.turns => v.turns \subseteq live[k].turns)
      BY <1>1, <2>3, KinIsEquivalence DEF OwnIsBehind
    <3>. QED
      BY <1>1, <1>7, <2>1, <2>3, <3>1 DEF Past
  <2>. QED
    BY <1>6, <2>2, <2>3
<1>11. OnePlace'
  <2>. SUFFICES ASSUME harness = "codex", NEW u \in Files, Untouched(u), NEW w \in Files,
                       live'[u] # None, live'[w] # None
                PROVE  u = w
    BY <1>2, <1>4 DEF OnePlace
  <2>1. /\ live \in [Files -> Versions \cup {None}] /\ Files = {"active", "archived"}
        /\ \A f \in Files : Untouched(f)
    BY <1>1 DEF TypeOK, Files, Untouched, Kin
  <2>2. ASSUME NEW f \in Files, Writes(f) PROVE u = w
    BY <2>1, <2>2 DEF Writes
  <2>3. CASE Prune
    BY <2>3 DEF Prune, NoFiles
  <2>4. ASSUME NEW f \in Files, NEW g \in Files, Move(f, g) PROVE u = w
    <3>1. f # g /\ {f, g} = Files /\ live'[f] = None
      BY <2>1, <2>4 DEF Move
    <3>. QED
      BY <3>1
  <2>. QED
    BY <2>2, <2>3, <2>4 DEF HarnessActs
<1>. QED
  BY <1>5, <1>8, <1>9, <1>10, <1>11

-----------------------------------------------------------------------------
(* What the other actors leave of it *)

OthersStep == SweepActs \/ OthersAct \/ RestoreActs \/ Tick \/ KillSweep \/ UNCHANGED vars

LEMMA RestoresStart ==
    ASSUME TypeOK, [Next]_vars, OthersStep
    PROVE  /\ now' \in {now, now + 1} /\ turn' \in {turn, turn + 1}
           /\ \/ left'.restores = left.restores
              \/ job.pc = "idle" /\ left'.restores = left.restores - 1 /\ live' = live
                 /\ \E place \in Places, force \in BOOLEAN : RunRestore(place, force)
<1>1. left \in [prunings : Nat, restores : 0 .. instance.restores, kills : Nat]
  BY DEF TypeOK
<1>2. now' \in {now, now + 1} /\ turn' \in {turn, turn + 1}
  BY DEF OthersStep, SweepActs, OthersAct, RestoreActs, SweepRecords, SweepCopies, SweepRepairs,
     PublishIndex, MirrorIndex, PublishObject, MirrorObject, Tick, KillSweep, RunRestore,
     PullAndDecryptFile, CheckTarget, WriteRestoredFile, StampRestoredFile, Return, KillRestore, vars
<1>3. ASSUME NEW place \in Places, NEW force \in BOOLEAN, RunRestore(place, force)
      PROVE  job.pc = "idle" /\ left'.restores = left.restores - 1 /\ live' = live
  BY <1>1, <1>3 DEF RunRestore
<1>4. ASSUME KillSweep \/ KillRestore PROVE left'.restores = left.restores
  BY <1>1, <1>4 DEF KillSweep, KillRestore
<1>5. ASSUME left' = left PROVE left'.restores = left.restores
  BY <1>5
<1>6. ASSUME SweepActs \/ OthersAct \/ Tick \/ UNCHANGED vars
      PROVE  left'.restores = left.restores
  BY <1>5, <1>6 DEF SweepActs, OthersAct, SweepRecords, SweepCopies, SweepRepairs, PublishIndex,
     MirrorIndex, PublishObject, MirrorObject, Tick, vars
<1>7. ASSUME PullAndDecryptFile \/ CheckTarget \/ WriteRestoredFile \/ StampRestoredFile \/ Return
      PROVE  left'.restores = left.restores
  BY <1>5, <1>7 DEF PullAndDecryptFile, CheckTarget, WriteRestoredFile, StampRestoredFile, Return
<1>. QED
  BY <1>2, <1>3, <1>4, <1>6, <1>7 DEF OthersStep, RestoreActs

\* What a restore has not touched after a step it had not touched before, and
\* the step has left it alone
LEMMA UntouchedStays ==
    ASSUME HistoryInv, [Next]_vars, OthersStep, NEW f \in Files, Untouched(f)'
    PROVE  Untouched(f) /\ \A h \in Files : Kin(f, h) => live'[h] = live[h]
<1>1. TypeOK /\ Typed /\ Counts /\ NoneStarted /\ job \in Jobs /\ live \in [Files -> Versions \cup {None}]
  BY StartedCounts DEF HistoryInv, Typed, TypeOK
<1>2. /\ instance' = instance /\ harness' = harness
      /\ left'.restores = left.restores => Started' = Started
      /\ left'.restores = left.restores - 1 => Started' = Started + 1
  <2>1. instance' = instance /\ harness' = harness
    BY Frozen
  <2>2. instance.restores \in Nat /\ left.restores \in Int
    BY <1>1, InstancesAssumption DEF TypeOK
  <2>. QED
    BY <2>1, <2>2 DEF Started
<1>3. ASSUME NEW place \in Places, NEW force \in BOOLEAN, RunRestore(place, force)
      PROVE  Untouched(f) /\ live' = live
  <2>1. left'.restores = left.restores - 1 /\ live' = live
    <3>1. left \in [prunings : Nat, restores : 0 .. instance.restores, kills : Nat]
      BY <1>1 DEF TypeOK
    <3>. QED
      BY <1>3, <3>1 DEF RunRestore
  <2>2. Started' = Started + 1 /\ (Started' = 0 \/ Started' = 1)
    BY <1>2, <2>1 DEF Untouched
  <2>. QED
    BY <1>1, <2>1, <2>2 DEF Untouched, Counts
<1>4. ASSUME Started' = Started, job' = job PROVE Untouched(f)
  BY <1>2, <1>4 DEF Untouched, Written, Kin
<1>5. CASE SweepActs \/ OthersAct \/ Tick \/ KillSweep \/ UNCHANGED vars
  <2>1. job' = job /\ live' = live
    BY <1>5 DEF SweepActs, OthersAct, SweepRecords, SweepCopies, SweepRepairs, PublishIndex,
       MirrorIndex, PublishObject, MirrorObject, Tick, KillSweep, vars
  <2>2. left'.restores = left.restores
    <3>1. left \in [prunings : Nat, restores : 0 .. instance.restores, kills : Nat]
      BY <1>1 DEF TypeOK
    <3>2. left' = left \/ left' = [left EXCEPT !.kills = @ - 1]
      BY <1>5 DEF SweepActs, OthersAct, SweepRecords, SweepCopies, SweepRepairs, PublishIndex,
         MirrorIndex, PublishObject, MirrorObject, Tick, KillSweep, vars
    <3>. QED
      BY <3>1, <3>2
  <2>. QED
    BY <1>2, <1>4, <2>1, <2>2
<1>6. ASSUME Started' = Started, job'.pc \notin Works, live' = live
      PROVE  Untouched(f) /\ live' = live
  BY <1>6 DEF Untouched
<1>7. CASE Return \/ KillRestore
  <2>1. job' = Idle /\ live' = live
    BY <1>7 DEF Return, KillRestore
  <2>2. left'.restores = left.restores
    <3>1. left \in [prunings : Nat, restores : 0 .. instance.restores, kills : Nat]
      BY <1>1 DEF TypeOK
    <3>2. left' = left \/ left' = [left EXCEPT !.kills = @ - 1]
      BY <1>7 DEF Return, KillRestore
    <3>. QED
      BY <3>1, <3>2
  <2>. QED
    BY <1>2, <1>6, <2>1, <2>2, StartValues DEF Works
<1>8. CASE PullAndDecryptFile \/ CheckTarget
  <2>1. live' = live /\ left' = left /\ job.pc \in {"pull", "check"}
    BY <1>8 DEF PullAndDecryptFile, CheckTarget
  <2>2. Started' = Started /\ (Started' = 0 \/ Started' = 1)
    BY <1>2, <2>1 DEF Untouched
  <2>. QED
    BY <2>1, <2>2 DEF Untouched, Works, Written
<1>9. CASE WriteRestoredFile
  <2>1. left' = left /\ job.pc = "write" /\ job.pc \in Works
    BY <1>9 DEF WriteRestoredFile, Works
  <2>2. Started' = Started /\ Started' # 0
    BY <1>1, <1>2, <2>1 DEF NoneStarted
  <2>3. /\ job'.pc = "stamp" /\ job'.plans = job.plans /\ job'.at = job.at
        /\ \E v : live' = [live EXCEPT ![File] = v]
    BY <1>1, <1>9, <2>2, WriteStep DEF Untouched, Works, KeepsPlan
  <2>4. File \in Files /\ job.at \in DOMAIN job.plans /\ \A n \in DOMAIN job.plans : n \in Nat
    BY <1>1, <2>1, CurrentFile, PlannedFiles DEF Typed
  <2>5. \A n \in DOMAIN job.plans : n <= job.at => ~Kin(job.plans[n], f)
    BY <1>2, <2>2, <2>3 DEF Untouched, Written, Kin
  <2>6. ~Kin(File, f)
    BY <2>4, <2>5 DEF File
  <2>7. \A h \in Files : Kin(f, h) => live'[h] = live[h]
    BY <1>1, <2>3, <2>4, <2>6 DEF Kin
  <2>8. Untouched(f)
    BY <2>1, <2>2, <2>4, <2>5 DEF Untouched, Written
  <2>. QED
    BY <2>7, <2>8
<1>10. CASE StampRestoredFile
  <2>1. left' = left /\ job.pc = "stamp" /\ job.pc \in Works
    BY <1>10 DEF StampRestoredFile, Works
  <2>2. Started' = Started /\ Started' # 0
    BY <1>1, <1>2, <2>1 DEF NoneStarted
  <2>3. /\ job'.pc = "write" /\ job'.plans = job.plans /\ job'.at = job.at + 1
        /\ live' = [live EXCEPT ![File].at = job.records[File].at]
    BY <1>1, <1>10, <2>2, StampStep DEF Untouched, Works, KeepsPlan
  <2>4. File \in Files /\ job.at \in DOMAIN job.plans /\ \A n \in DOMAIN job.plans : n \in Nat
    BY <1>1, <2>1, CurrentFile, PlannedFiles DEF Typed
  <2>5. \A n \in DOMAIN job.plans : n < job.at + 1 => ~Kin(job.plans[n], f)
    BY <1>2, <2>2, <2>3 DEF Untouched, Written, Kin
  <2>6. ~Kin(File, f)
    BY <2>4, <2>5 DEF File
  <2>7. \A h \in Files : Kin(f, h) => live'[h] = live[h]
    BY <1>1, <2>3, <2>4, <2>6 DEF Kin
  <2>8. Untouched(f)
    BY <2>1, <2>2, <2>4, <2>5 DEF Untouched, Written
  <2>. QED
    BY <2>7, <2>8
<1>. QED
  BY <1>3, <1>5, <1>7, <1>8, <1>9, <1>10 DEF OthersStep, RestoreActs

LEMMA HistoryForeign ==
    ASSUME HistoryInv, [Next]_vars, OthersStep
    PROVE  ForeignIsOrdered'
<1>1. /\ TypeOK /\ OwnIsOrdered /\ ForeignIsOrdered /\ Started \in Nat /\ instance \in Instances
      /\ "own" \in Places /\ "own" \notin Sources /\ Sources \subseteq Places
      /\ store \in [Places -> Archives]
  BY StartedCounts, PlacesDiffer DEF HistoryInv, Typed, TypeOK, Counts
<1>2. instance' = instance /\ harness' = harness /\ Files' = Files /\ Sources' = Sources
  BY Frozen DEF Sources
<1>3. Started' = 0 => Started = 0
  <2>1. instance.restores \in Nat /\ left.restores \in Int
    BY <1>1, InstancesAssumption DEF TypeOK
  <2>2. left'.restores = left.restores \/ left'.restores = left.restores - 1
    BY <1>1, RestoresStart
  <2>3. Started' = Started \/ Started' = Started + 1
    BY <1>2, <2>1, <2>2 DEF Started
  <2>. QED
    BY <1>1, <2>3
<1>4. ASSUME harness = "codex", "remote" \in Sources, Started' = 0 PROVE AllOrdered(store["remote"].rec)'
  <2>1. AllOrdered(store["remote"].rec) /\ AllOrdered(store["own"].rec)
    BY <1>1, <1>3, <1>4 DEF ForeignIsOrdered, OwnIsOrdered, AllOrdered, Own
  <2>2. store'["remote"].rec = store["remote"].rec \/ store'["remote"].rec = store["own"].rec
    <3>1. CASE PublishIndex
      BY <1>1, <1>4, <3>1 DEF PublishIndex, Archives
    <3>2. CASE SweepActs \/ MirrorIndex \/ \E f \in Files : PublishObject(f) \/ MirrorObject(f)
      BY <1>1, <1>4, <3>2 DEF SweepActs, SweepRecords, SweepCopies, SweepRepairs, MirrorIndex,
         PublishObject, MirrorObject, Archives
    <3>3. CASE store' = store
      BY <3>3
    <3>. QED
      BY <3>1, <3>2, <3>3 DEF OthersStep, OthersAct, RestoreActs, Tick, KillSweep, RunRestore,
         PullAndDecryptFile, CheckTarget, WriteRestoredFile, StampRestoredFile, Return, KillRestore, vars
  <2>. QED
    BY <1>2, <2>1, <2>2 DEF AllOrdered
<1>5. ASSUME harness = "codex", "mirror" \in Sources
      PROVE  store'["mirror"].copy["archived"] = None /\ store'["mirror"].rec["archived"] = None
  <2>1. store["mirror"].copy["archived"] = None /\ store["mirror"].rec["archived"] = None
    BY <1>1, <1>5 DEF ForeignIsOrdered
  <2>2. "archived" \in Files /\ "mirror" \in Places /\ store["mirror"] \in Archives
    BY <1>1, <1>5 DEF Files
  <2>3. ASSUME NEW f \in Files, MirrorObject(f)
        PROVE  store'["mirror"].copy["archived"] = None /\ store'["mirror"].rec["archived"] = None
    BY <1>1, <2>1, <2>2, <2>3 DEF MirrorObject, Archives
  <2>4. CASE MirrorIndex
    <3>1. store'["mirror"].copy = store["mirror"].copy
      BY <1>1, <2>2, <2>4 DEF MirrorIndex
    <3>2. store'["mirror"].rec["archived"] = None
      BY <1>1, <2>1, <2>2, <2>4 DEF MirrorIndex
    <3>. QED
      BY <2>1, <3>1, <3>2
  <2>5. CASE store'["mirror"] = store["mirror"]
    BY <2>1, <2>5
  <2>6. CASE SweepActs \/ PublishIndex \/ \E f \in Files : PublishObject(f)
    BY <1>1, <2>2, <2>5, <2>6 DEF SweepActs, SweepRecords, SweepCopies, SweepRepairs, PublishIndex,
       PublishObject
  <2>7. CASE store' = store
    BY <2>5, <2>7
  <2>. QED
    BY <2>3, <2>4, <2>6, <2>7 DEF OthersStep, OthersAct, RestoreActs, Tick, KillSweep, RunRestore,
       PullAndDecryptFile, CheckTarget, WriteRestoredFile, StampRestoredFile, Return, KillRestore, vars
<1>. QED
  BY <1>2, <1>4, <1>5 DEF ForeignIsOrdered

LEMMA HistoryTaken ==
    ASSUME HistoryInv, [Next]_vars, OthersStep
    PROVE  TakenIsOrdered'
<1>. SUFFICES ASSUME harness = "codex", FirstRestore', job'.pc # "idle" PROVE AllOrdered(job.records)'
  BY Frozen DEF TakenIsOrdered
<1>1. /\ TypeOK /\ Typed /\ OwnIsOrdered /\ ForeignIsOrdered /\ TakenIsOrdered /\ Started \in Nat
      /\ instance.restores \in Nat /\ left.restores \in Int
  BY StartedCounts, InstancesAssumption DEF HistoryInv, Typed, TypeOK, Counts
<1>2. instance' = instance /\ harness' = harness /\ Files' = Files
  BY Frozen
<1>3. ASSUME NEW place \in Places, NEW force \in BOOLEAN, RunRestore(place, force)
      PROVE  AllOrdered(job.records)'
  <2>1. Started = 0
    <3>1. left'.restores = left.restores - 1
      <4>1. left \in [prunings : Nat, restores : 0 .. instance.restores, kills : Nat]
        BY <1>1 DEF TypeOK
      <4>. QED
        BY <1>3, <4>1 DEF RunRestore
    <3>. QED
      BY <1>1, <1>2, <3>1 DEF FirstRestore, Started
  <2>2. job'.records = NoFiles \/ job'.records = store[place].rec
    BY <1>1, <1>3, StartStep
  <2>3. CASE job'.records = NoFiles
    BY <1>2, <2>3 DEF AllOrdered, NoFiles
  <2>4. CASE job'.records = store[place].rec
    <3>1. place \in {"own", "remote", "mirror"} /\ (place # "own" => place \in Sources)
      BY <1>1, InstancesAssumption DEF TypeOK, Places, Sources, AllSources
    <3>2. CASE place = "own"
      BY <1>1, <1>2, <2>1, <2>4, <3>2 DEF OwnIsOrdered, Own, AllOrdered
    <3>3. CASE place = "remote"
      BY <1>1, <1>2, <2>1, <2>4, <3>1, <3>3 DEF ForeignIsOrdered, AllOrdered
    <3>4. CASE place = "mirror"
      <4>1. Files = {"active", "archived"} /\ store["mirror"].rec["archived"] = None
        BY <1>1, <3>1, <3>4 DEF ForeignIsOrdered, Files
      <4>2. ASSUME NEW v PROVE Ordered(v, v)
        BY DEF Ordered
      <4>. QED
        BY <1>2, <2>4, <3>4, <4>1, <4>2 DEF AllOrdered
    <3>. QED
      BY <3>1, <3>2, <3>3, <3>4
  <2>. QED
    BY <2>2, <2>3, <2>4
<1>4. ASSUME left'.restores = left.restores, job.pc # "idle", job'.records = job.records
      PROVE  AllOrdered(job.records)'
  BY <1>1, <1>2, <1>4 DEF TakenIsOrdered, FirstRestore, AllOrdered
<1>5. CASE PullAndDecryptFile
  BY <1>1, <1>4, <1>5, PullStep DEF PullAndDecryptFile, KeepsPlan
<1>6. CASE CheckTarget
  BY <1>1, <1>4, <1>6, CheckStep DEF CheckTarget, KeepsPlan
<1>7. CASE WriteRestoredFile
  BY <1>1, <1>4, <1>7, WriteStep DEF WriteRestoredFile, KeepsPlan
<1>8. CASE StampRestoredFile
  BY <1>1, <1>4, <1>8, StampStep DEF StampRestoredFile, KeepsPlan
<1>9. CASE Return \/ KillRestore
  BY <1>9, StartValues DEF Return, KillRestore
<1>10. CASE SweepActs \/ OthersAct \/ Tick \/ KillSweep \/ UNCHANGED vars
  <2>1. job' = job
    BY <1>10 DEF SweepActs, OthersAct, SweepRecords, SweepCopies, SweepRepairs, PublishIndex,
       MirrorIndex, PublishObject, MirrorObject, Tick, KillSweep, vars
  <2>2. left'.restores = left.restores
    <3>1. left \in [prunings : Nat, restores : 0 .. instance.restores, kills : Nat]
      BY <1>1 DEF TypeOK
    <3>2. left' = left \/ left' = [left EXCEPT !.kills = @ - 1]
      BY <1>10 DEF SweepActs, OthersAct, SweepRecords, SweepCopies, SweepRepairs, PublishIndex,
         MirrorIndex, PublishObject, MirrorObject, Tick, KillSweep, vars
    <3>. QED
      BY <3>1, <3>2
  <2>. QED
    BY <1>4, <2>1, <2>2
<1>. QED
  BY <1>3, <1>5, <1>6, <1>7, <1>8, <1>9, <1>10 DEF OthersStep, RestoreActs

LEMMA HistoryOthers ==
    ASSUME HistoryInv, [Next]_vars, OthersStep
    PROVE  /\ EverythingIsPast' /\ LiveIsLatest' /\ OwnIsBehind' /\ OnePlace' /\ OwnIsOrdered'
           /\ ForeignIsOrdered' /\ TakenIsOrdered' /\ NoneStarted'
<1>1. /\ TypeOK /\ Typed /\ EverythingIsPast /\ LiveIsLatest /\ OwnIsBehind /\ OnePlace
      /\ OwnIsOrdered /\ ForeignIsOrdered /\ TakenIsOrdered /\ NoneStarted
      /\ now \in Nat /\ turn \in Nat /\ Started \in Nat /\ (Started = 1 <=> FirstRestore)
      /\ instance \in Instances /\ live \in [Files -> Versions \cup {None}]
  BY StartedCounts DEF HistoryInv, Typed, TypeOK, Counts
<1>2. /\ instance' = instance /\ harness' = harness /\ Files' = Files /\ Places' = Places
      /\ Sources' = Sources /\ \A f, g : Kin(f, g)' <=> Kin(f, g)
  BY Frozen DEF Sources, Kin
<1>3. /\ now' \in {now, now + 1} /\ turn' \in {turn, turn + 1}
      /\ \/ left'.restores = left.restores /\ Started' = Started
         \/ /\ Started' = Started + 1 /\ live' = live
            /\ \E place \in Places, force \in BOOLEAN : RunRestore(place, force)
  <2>1. instance.restores \in Nat /\ left.restores \in Int
    BY <1>1, InstancesAssumption DEF TypeOK
  <2>. QED
    BY <1>1, <1>2, <2>1, RestoresStart DEF Started
<1>4. \A f \in Files : \A v \in InSight(f)' : \/ \E w \in InSight(f) : Same(v, w)
                                              \/ live[f] # None /\ v = live[f]
                                              \/ Fresh(v) /\ turn' = turn + 1
  BY <1>1, InSightSources
<1>5. \A f \in Files : Untouched(f)' =>
         Untouched(f) /\ \A h \in Files : Kin(f, h) => live'[h] = live[h]
  BY UntouchedStays
<1>6. \A f \in Files : \A v \in InSight(f) : Past(v) /\ v.turns \subseteq Nat /\ v.at \in Nat
  BY <1>1, VersionsInSight DEF EverythingIsPast
<1>7. \A f \in Files : live[f] # None =>
         Past(live[f]) /\ live[f].turns \subseteq Nat /\ live[f].at \in Nat
  BY <1>1, VersionsInSight DEF EverythingIsPast, Versions
<1>8. ASSUME NEW v, v.turns \subseteq 1 .. turn, v.at <= now, v.at \in Nat
      PROVE  v.turns \subseteq 1 .. turn' /\ v.at <= now'
  BY <1>1, <1>3, <1>8
<1>9. EverythingIsPast'
  <2>1. ASSUME NEW f \in Files, NEW v \in InSight(f)' PROVE v.turns \subseteq 1 .. turn' /\ v.at <= now'
    <3>1. CASE \E w \in InSight(f) : Same(v, w)
      BY <1>6, <1>8, <3>1 DEF Past, Same
    <3>2. CASE live[f] # None /\ v = live[f]
      BY <1>7, <1>8, <3>2 DEF Past
    <3>3. CASE Fresh(v) /\ turn' = turn + 1
      BY <1>1, <1>3, <3>3 DEF Fresh
    <3>. QED
      BY <1>4, <3>1, <3>2, <3>3
  <2>2. ASSUME NEW f \in Files, live'[f] # None
        PROVE  live'[f].turns \subseteq 1 .. turn' /\ live'[f].at <= now'
    <3>1. CASE live'[f] = live[f]
      BY <1>7, <1>8, <2>2, <3>1 DEF Past
    <3>2. ASSUME job.pc \in Works
          PROVE  /\ File \in Files /\ job.records[File].turns \subseteq 1 .. turn
                 /\ job.records[File].at <= now /\ job.records[File].at \in Nat
      <4>1. File \in Files /\ job.records[File] \in Records
        BY <1>1, <3>2, CurrentFile DEF Typed
      <4>2. job.records[File] \in InSight(File)
        BY <1>1, <4>1, NoneIsNothing DEF InSight, Taken
      <4>. QED
        BY <1>6, <4>1, <4>2 DEF Past
    <3>3. CASE WriteRestoredFile
      <4>1. job.pc \in Works
        BY <3>3 DEF WriteRestoredFile, Works
      <4>2. \/ live'[f] = live[f]
            \/ live'[f] = [turns |-> job.records[File].turns, at |-> now]
        BY <1>1, <3>2, <3>3, <4>1, WriteStep
      <4>. QED
        BY <1>1, <1>8, <3>1, <3>2, <4>1, <4>2
    <3>4. CASE StampRestoredFile
      <4>1. job.pc \in Works
        BY <3>4 DEF StampRestoredFile, Works
      <4>2. \/ live'[f] = live[f]
            \/ live[f] # None /\ live'[f] = [live[f] EXCEPT !.at = job.records[File].at]
        BY <1>1, <3>2, <3>4, <4>1, StampStep
      <4>3. CASE live[f] # None /\ live'[f] = [live[f] EXCEPT !.at = job.records[File].at]
        <5>1. live[f] \in Versions
          BY <1>1, <4>3
        <5>2. live'[f].turns = live[f].turns /\ live'[f].at = job.records[File].at
          BY <4>3, <5>1 DEF Versions
        <5>. QED
          BY <1>7, <1>8, <3>2, <4>1, <4>3, <5>2 DEF Past
      <4>. QED
        BY <3>1, <4>2, <4>3
    <3>5. CASE live' = live
      BY <3>1, <3>5
    <3>. QED
      BY <3>3, <3>4, <3>5 DEF OthersStep, RestoreActs, SweepActs, OthersAct, SweepRecords,
         SweepCopies, SweepRepairs, PublishIndex, MirrorIndex, PublishObject, MirrorObject, Tick,
         KillSweep, RunRestore, PullAndDecryptFile, CheckTarget, Return, KillRestore, vars
  <2>. QED
    BY <1>2, <2>1, <2>2 DEF EverythingIsPast, Past
<1>10. LiveIsLatest'
  <2>. SUFFICES ASSUME NEW f \in Files, NEW h \in Files, Kin(f, h), Untouched(f)', live'[h] # None,
                       NEW v \in InSight(f)'
                PROVE  v.at <= live'[h].at \/ ~(v.turns \subseteq live'[h].turns)
    BY <1>2 DEF LiveIsLatest
  <2>1. Untouched(f) /\ live'[h] = live[h] /\ live[h] # None
    BY <1>5
  <2>2. CASE \E w \in InSight(f) : Same(v, w)
    BY <1>1, <2>1, <2>2 DEF LiveIsLatest, Same
  <2>3. CASE live[f] # None /\ v = live[f]
    <3>1. f = h
      BY <1>1, <2>1, <2>3 DEF OnePlace, Kin
    <3>. QED
      BY <1>7, <2>1, <2>3, <3>1
  <2>4. CASE Fresh(v)
    BY <1>1, <1>7, <2>1, <2>4 DEF Fresh, Past
  <2>. QED
    BY <1>4, <2>2, <2>3, <2>4
<1>11. OnePlace'
  BY <1>1, <1>2, <1>5 DEF OnePlace, Kin
<1>12. NoneStarted'
  <2>. SUFFICES ASSUME Started' = 0 PROVE job'.pc = "idle"
    BY DEF NoneStarted
  <2>1. Started = 0 /\ job.pc = "idle" /\ left'.restores = left.restores
    BY <1>1, <1>3 DEF NoneStarted
  <2>2. \A place \in Places, force \in BOOLEAN : ~RunRestore(place, force)
    <3>1. /\ left \in [prunings : Nat, restores : 0 .. instance.restores, kills : Nat]
          /\ left.restores \in Int
      BY <1>1, InstancesAssumption DEF TypeOK
    <3>2. left' = [left EXCEPT !.restores = @ - 1] => left'.restores # left.restores
      BY <3>1
    <3>. QED
      BY <2>1, <3>2 DEF RunRestore
  <2>3. job' = job
    BY <2>1, <2>2 DEF OthersStep, RestoreActs, SweepActs, OthersAct, SweepRecords, SweepCopies,
       SweepRepairs, PublishIndex, MirrorIndex, PublishObject, MirrorObject, Tick, KillSweep,
       PullAndDecryptFile, CheckTarget, WriteRestoredFile, StampRestoredFile, Return, KillRestore, vars
  <2>. QED
    BY <2>1, <2>3
<1>13. ASSUME Started' = 0, NEW f \in Files
       PROVE  /\ Started = 0 /\ Untouched(f) /\ \A h \in Files : Kin(f, h) => live'[h] = live[h]
              /\ \A v \in Own(f)' : (\E w \in Own(f) : Same(v, w)) \/ (live[f] # None /\ v = live[f])
  <2>1. Started = 0
    BY <1>1, <1>3, <1>13
  <2>2. Untouched(f)'
    BY <1>13 DEF Untouched
  <2>. QED
    BY <1>1, <1>5, <2>1, <2>2, OwnSources
<1>14. OwnIsBehind'
  <2>. SUFFICES ASSUME Started' = 0, NEW f \in Files, NEW h \in Files, Kin(f, h), live'[h] # None,
                       NEW v \in Own(f)'
                PROVE  /\ v.at <= live'[h].at
                       /\ live'[h].turns \subseteq v.turns => v.turns \subseteq live'[h].turns
    BY <1>2 DEF OwnIsBehind
  <2>1. Started = 0 /\ Untouched(f) /\ live'[h] = live[h] /\ live[h] # None
    BY <1>13
  <2>2. CASE \E w \in Own(f) : Same(v, w)
    BY <1>1, <2>1, <2>2 DEF OwnIsBehind, Same
  <2>3. CASE live[f] # None /\ v = live[f]
    <3>1. f = h
      BY <1>1, <2>1, <2>3 DEF OnePlace, Kin
    <3>. QED
      BY <1>7, <2>1, <2>3, <3>1
  <2>. QED
    BY <1>13, <2>2, <2>3
<1>15. OwnIsOrdered'
  <2>. SUFFICES ASSUME Started' = 0, harness = "codex", NEW f \in Files, NEW g \in Files,
                       NEW v \in Own(f)', NEW w \in Own(g)'
                PROVE  Ordered(v, w)
    BY <1>2 DEF OwnIsOrdered
  <2>1. Started = 0 /\ Untouched(f) /\ Untouched(g) /\ Kin(f, g) /\ Kin(g, f)
    BY <1>13 DEF Kin
  <2>2. \A x \in Own(f) \cup Own(g) : x.at \in Nat
    BY <1>6 DEF InSight
  <2>3. ASSUME NEW x \in Own(f), NEW y \in Own(g), Same(v, x), Same(w, y) PROVE Ordered(v, w)
    <3>1. Ordered(x, y)
      BY <1>1, <2>1, <2>3 DEF OwnIsOrdered
    <3>. QED
      BY <2>3, <3>1 DEF Ordered, Same
  <2>4. ASSUME NEW x \in Own(f), Same(v, x), live[g] # None, w = live[g] PROVE Ordered(v, w)
    <3>1. x.at <= live[g].at /\ (live[g].turns \subseteq x.turns => x.turns \subseteq live[g].turns)
      BY <1>1, <2>1, <2>4 DEF OwnIsBehind
    <3>. QED
      BY <2>4, <3>1 DEF Ordered, Same
  <2>5. ASSUME live[f] # None, v = live[f], NEW y \in Own(g), Same(w, y) PROVE Ordered(v, w)
    <3>1. y.at <= live[f].at
      BY <1>1, <2>1, <2>5 DEF OwnIsBehind
    <3>. QED
      BY <1>7, <2>2, <2>5, <3>1 DEF Ordered, Same
  <2>6. ASSUME live[f] # None, v = live[f], live[g] # None, w = live[g] PROVE Ordered(v, w)
    <3>1. f = g
      BY <1>1, <2>1, <2>6 DEF OnePlace
    <3>. QED
      BY <2>6, <3>1 DEF Ordered
  <2>. QED
    BY <1>13, <2>3, <2>4, <2>5, <2>6
<1>16. ForeignIsOrdered'
  BY HistoryForeign
<1>17. TakenIsOrdered'
  BY HistoryTaken
<1>. QED
  BY <1>9, <1>10, <1>11, <1>12, <1>14, <1>15, <1>16, <1>17

LEMMA HistoryStep == HistoryInv /\ [Next]_vars => HistoryInv'
<1>. SUFFICES ASSUME HistoryInv, [Next]_vars PROVE HistoryInv'
  OBVIOUS
<1>1. Typed'
  BY TypeStep DEF HistoryInv
<1>2. HarnessActs \/ OthersStep
  BY Steps DEF OthersStep
<1>. QED
  BY <1>1, <1>2, HistoryHarness, HistoryOthers DEF HistoryInv

LEMMA HistoryInvariant == Spec => []HistoryInv
<1>1. Init => HistoryInv
  <2>. SUFFICES ASSUME Init PROVE HistoryInv
    OBVIOUS
  <2>1. Typed
    BY InitIsTyped
  <2>2. \A f \in Files : InSight(f) = {} /\ Own(f) = {} /\ live[f] = None
    BY PlacesDiffer DEF Init, InSight, Own, Foreign, Taken, Idle, NoFiles
  <2>3. job.pc = "idle"
    BY StartValues DEF Init
  <2>4. ForeignIsOrdered
    <3>1. \A p \in Sources, f \in Files : store[p].copy[f] = None /\ store[p].rec[f] = None
      BY PlacesDiffer DEF Init, NoFiles
    <3>2. harness = "codex" => "archived" \in Files
      BY DEF Files
    <3>. QED
      BY <3>1, <3>2 DEF ForeignIsOrdered, AllOrdered
  <2>. QED
    BY <2>1, <2>2, <2>3, <2>4 DEF HistoryInv, EverythingIsPast, LiveIsLatest, OwnIsBehind, OnePlace,
       OwnIsOrdered, TakenIsOrdered, NoneStarted
<1>. QED
  BY <1>1, HistoryStep, PTL DEF Spec

-----------------------------------------------------------------------------
(* What a restore without --force takes away *)

LEMMA OneHistoryCompares ==
    ASSUME NEW f, OneHistory(f), NEW v, NEW w, v # None, w # None,
           \E g \in Twins(f) : v = live[g] \/ v = job.records[g],
           \E g \in Twins(f) : w = live[g] \/ w = job.records[g]
    PROVE  v.turns \subseteq w.turns \/ w.turns \subseteq v.turns
<1>1. v \in AllVersions(f) /\ w \in AllVersions(f)
  BY DEF AllVersions
<1>. QED
  BY <1>1 DEF OneHistory

\* Without --force the first restore takes no turn out of the live store, for
\* any number of files, turns, ticks, kills and prunings, whatever the sweep,
\* the publication and the mirror do beside it (restore.ts:412-423).
THEOREM UnforcedIsSafe == Spec => UnforcedLosesNothing
<1>1. ASSUME RestoredInv, HistoryInv, [Next]_vars, NEW f \in Files, job.pc = "write", job'.pc = "stamp",
             File = f, ~job.force, FirstRestore, OneHistory(f), f \notin raced, live[f] # None,
             live[f].at # job.records[f].at
      PROVE  live[f].turns \subseteq live'[f].turns
  <2>1. /\ TypeOK /\ Typed /\ job.pc \in Works /\ Started = 1 /\ live[f] \in Versions
        /\ live \in [Files -> Versions \cup {None}]
    BY <1>1, StartedCounts DEF HistoryInv, Typed, Works, Counts, TypeOK
  <2>2. /\ job.at \in DOMAIN job.plans /\ job.records[f] \in Records
        /\ \A n \in DOMAIN job.plans : n \in Nat
    BY <1>1, <2>1, CurrentFile, PlannedFiles DEF Typed
  <2>3. WriteRestoredFile
    <3>1. job' # job
      BY <1>1
    <3>2. CASE RestoreActs
      BY <1>1, <2>1, <3>2, StartValues DEF RestoreActs, RunRestore, PullAndDecryptFile, CheckTarget,
         StampRestoredFile, Return, KillRestore
    <3>3. CASE ~RestoreActs
      <4>1. job' = job
        BY <2>1, <1>1, <3>3, Steps, HarnessTouches DEF SweepActs, OthersAct, SweepRecords, SweepCopies,
           SweepRepairs, PublishIndex, MirrorIndex, PublishObject, MirrorObject, Tick, KillSweep, vars
      <4>. QED
        BY <3>1, <4>1
    <3>. QED
      BY <3>2, <3>3
  <2>4. live'[f].turns = job.records[f].turns
    BY <1>1, <2>1, <2>3, WriteStep
  <2>5. live[f].at < job.records[f].at
    <3>1. ~Newer(f)
      BY <1>1, <2>2 DEF RestoredInv, NoneIsNewer, Looked, File
    <3>. QED
      BY <1>1, <2>1, <2>2, <3>1 DEF Newer, Versions, Records
  <2>6. Untouched(f)
    <3>1. \A n \in DOMAIN job.plans : n < job.at => ~Kin(job.plans[n], f)
      BY <1>1, <2>1, <2>2 DEF Typed, PlansAreSound, Works, Kin, File
    <3>. QED
      BY <1>1, <2>1, <3>1 DEF Untouched, Written
  <2>7. ~(job.records[f].turns \subseteq live[f].turns)
    <3>1. job.records[f] \in InSight(f)
      BY <1>1, <2>1, <2>2, NoneIsNothing DEF InSight, Taken, TypeOK
    <3>2. job.records[f].at <= live[f].at \/ ~(job.records[f].turns \subseteq live[f].turns)
      BY <1>1, <2>6, <3>1, KinIsEquivalence DEF HistoryInv, LiveIsLatest
    <3>. QED
      BY <2>1, <2>2, <2>5, <3>2 DEF Versions, Records
  <2>8. live[f].turns \subseteq job.records[f].turns \/ job.records[f].turns \subseteq live[f].turns
    <3>1. f \in Twins(f) /\ job.records[f] # None
      BY <2>1, <2>2, NoneIsNothing DEF Twins, TypeOK
    <3>. QED
      BY <1>1, <3>1, OneHistoryCompares
  <2>. QED
    BY <2>4, <2>7, <2>8
<1>2. ASSUME RestoredInv, HistoryInv, [Next]_vars
      PROVE  \A f \in Files :
               (/\ job.pc = "write" /\ job'.pc = "stamp" /\ File = f /\ ~job.force
                /\ FirstRestore /\ OneHistory(f) /\ f \notin raced
                /\ live[f] # None /\ live[f].at # job.records[f].at)
               => live[f].turns \subseteq live'[f].turns
  BY <1>1, <1>2
<1>. QED
  BY <1>2, RestoredInvariant, HistoryInvariant, PTL DEF Spec, UnforcedLosesNothing

\* What the first restore of a Codex session leaves aside as superseded holds
\* no turn that the restored file lacks, however long the session was written,
\* moved and pruned and from whichever archive it is restored
\* (restore.ts:64-100).
THEOREM SupersededIsOlder == Spec => []SupersededHoldsNothingMore
<1>1. ASSUME HistoryInv PROVE SupersededHoldsNothingMore
  <2>. SUFFICES ASSUME job.pc = "done", harness = "codex", FirstRestore, OneHistory(job.plans[1]),
                       NEW g \in Files, job.records[g] # None,
                       job.records[g].at # job.records[job.plans[1]].at
                PROVE  job.records[g].turns \subseteq job.records[job.plans[1]].turns
    BY DEF SupersededHoldsNothingMore
  <2>. DEFINE chosen == job.plans[1]
  <2>1. TypeOK /\ PlansAreSound /\ TakenIsOrdered /\ job.records \in [Files -> Records \cup {None}]
    BY <1>1 DEF HistoryInv, Typed, TypeOK, Jobs
  <2>2. 1 \in DOMAIN job.plans /\ chosen \in Files
    <3>1. Len(job.plans) = 1 /\ job.plans \in Seq(Files)
      BY <2>1 DEF PlansAreSound, TypeOK, Jobs
    <3>2. 1 \in DOMAIN job.plans
      BY <3>1, LenProperties
    <3>. QED
      BY <2>1, <3>2, PlannedFiles
  <2>3. job.records[chosen] # None /\ job.records[g].at <= job.records[chosen].at
    BY <2>1, <2>2 DEF PlansAreSound
  <2>4. job.records[g].at < job.records[chosen].at
    BY <2>1, <2>2, <2>3 DEF Records
  <2>5. Ordered(job.records[g], job.records[chosen])
    BY <2>1, <2>2, <2>3 DEF TakenIsOrdered, AllOrdered
  <2>6. \/ job.records[g].turns \subseteq job.records[chosen].turns
        \/ job.records[chosen].turns \subseteq job.records[g].turns
    <3>1. chosen \in Twins(chosen) /\ g \in Twins(chosen)
      BY <2>2 DEF Twins
    <3>. QED
      BY <2>3, <3>1, OneHistoryCompares
  <2>. QED
    BY <2>4, <2>5, <2>6 DEF Ordered
<1>. QED
  BY <1>1, HistoryInvariant, PTL

-----------------------------------------------------------------------------
(* Snapshots: types *)

LEMMA IdsAreNumbers == MaxSnapshots \in Nat /\ Ids \subseteq 0 .. MaxSnapshots
BY SnapshotsAssumption DEF Ids

LEMMA SnapshotStartValues ==
    /\ Empty \in Contents /\ NoSweep \in Sweepings /\ NoInstall \in Installs /\ Absent \in Directories
<1>1. Empty \in Contents
  BY DEF Empty, Contents
<1>2. 0 \in 0 .. MaxSnapshots
  BY SnapshotsAssumption
<1>. QED
  BY <1>1, <1>2 DEF NoSweep, NoInstall, Absent, Sweepings, Installs, Directories

LEMMA OpenedIsTyped ==
    ASSUME DatabaseTypeOK, main # NoFile
    PROVE  Opened \in Contents
BY DEF DatabaseTypeOK, Opened

LEMMA DatabaseTypeStep == DatabaseTypeOK /\ [DatabaseNext]_databaseVars => DatabaseTypeOK'
<1>. SUFFICES ASSUME DatabaseTypeOK, [DatabaseNext]_databaseVars PROVE DatabaseTypeOK'
  OBVIOUS
<1>. USE SnapshotStartValues DEF DatabaseTypeOK, Kept, RestKept
<1>1. CASE UNCHANGED databaseVars
  BY <1>1 DEF databaseVars
<1>2. ASSUME Start PROVE DatabaseTypeOK'
  BY <1>2 DEF Start
<1>3. ASSUME NEW s \in Sessions, Commit(s) PROVE DatabaseTypeOK'
  <2>1. wal' \in Contents
    BY <1>3, OpenedIsTyped DEF Commit, Contents
  <2>. QED
    BY <1>3, <2>1 DEF Commit
<1>4. ASSUME Checkpoint \/ Remove PROVE DatabaseTypeOK'
  BY <1>4 DEF Checkpoint, Remove
<1>5. ASSUME NEW i \in Ids, Rot(i) PROVE DatabaseTypeOK'
  BY <1>5, SnapshotsAssumption DEF Rot, Directories
<1>6. ASSUME Capture PROVE DatabaseTypeOK'
  BY <1>6, OpenedIsTyped DEF Capture, Sweepings
<1>7. ASSUME Unchanged PROVE DatabaseTypeOK'
  BY <1>7 DEF Unchanged, NewestSnapshot, Repaired, Sweepings
<1>8. ASSUME MakeDirectory PROVE DatabaseTypeOK'
  <2>1. PICK i \in Ids : /\ snaps' = [snaps EXCEPT ![i].dir = TRUE]
                         /\ sweep' = [sweep EXCEPT !.pc = "payload", !.id = i]
    BY <1>8 DEF MakeDirectory
  <2>2. snaps' \in [Ids -> Directories]
    BY <2>1 DEF Directories
  <2>3. sweep' \in Sweepings /\ sweep'.id = i
    BY <2>1, IdsAreNumbers DEF Sweepings
  <2>. QED
    BY <1>8, <2>2, <2>3 DEF MakeDirectory
<1>9. ASSUME WritePayload \/ WriteManifest PROVE DatabaseTypeOK'
  BY <1>9 DEF WritePayload, WriteManifest, Sweepings, Directories
<1>10. ASSUME AppendIndex PROVE DatabaseTypeOK'
  BY <1>10 DEF AppendIndex, Sweepings
<1>11. ASSUME EndSweep \/ KillArchiving PROVE DatabaseTypeOK'
  BY <1>11, SnapshotsAssumption DEF EndSweep, KillArchiving, NoSweep
<1>12. ASSUME NEW s \in Sessions, RunDatabaseRestore(s) PROVE DatabaseTypeOK'
  <2>1. remaining' \in [damages : 0 .. MaxDamages, kills : 0 .. MaxKills, restores : 0 .. MaxRestores]
    BY <1>12, SnapshotsAssumption DEF RunDatabaseRestore
  <2>2. PICK i \in Ids : install' = [NoInstall EXCEPT !.pc = "look", !.session = s, !.id = i]
    BY <1>12 DEF RunDatabaseRestore, NewestWith, Listed
  <2>3. install' \in Installs /\ install'.id \in Ids
    BY <2>2, IdsAreNumbers DEF NoInstall, Installs
  <2>. QED
    BY <1>12, <2>1, <2>3 DEF RunDatabaseRestore
<1>13. ASSUME LookFirst \/ ValidateSnapshot \/ LookAgain PROVE DatabaseTypeOK'
  BY <1>13 DEF LookFirst, ValidateSnapshot, LookAgain, Rejects, Installs, NoInstall
<1>14. ASSUME ArchivedPayload PROVE DatabaseTypeOK'
  <2>1. CASE snaps[install.id].payload = snaps[install.id].manifest
    BY <1>14, <2>1 DEF ArchivedPayload, Installs, Directories
  <2>2. CASE install' = NoInstall
    BY <1>14, <2>2 DEF ArchivedPayload, NoInstall
  <2>. QED
    BY <1>14, <2>1, <2>2 DEF ArchivedPayload, Rejects
<1>15. ASSUME ClearSidecars \/ RenameIntoPlace PROVE DatabaseTypeOK'
  BY <1>15 DEF ClearSidecars, LogAfterClearing, RenameIntoPlace, Installs
<1>16. ASSUME ReportInstalled PROVE DatabaseTypeOK'
  BY <1>16 DEF ReportInstalled, NoInstall
<1>17. ASSUME KillInstall PROVE DatabaseTypeOK'
  <2>1. remaining' \in [damages : 0 .. MaxDamages, kills : 0 .. MaxKills, restores : 0 .. MaxRestores]
    BY <1>17, SnapshotsAssumption DEF KillInstall
  <2>. QED
    BY <1>17, <2>1 DEF KillInstall, NoInstall
<1>. QED
  BY <1>1, <1>2, <1>3, <1>4, <1>5, <1>6, <1>7, <1>8, <1>9, <1>10, <1>11, <1>12,
     <1>13, <1>14, <1>15, <1>16, <1>17 DEF DatabaseNext, Harness, Sweeps, Restores

LEMMA DatabaseInitIsTyped == DatabaseInit => DatabaseTypeOK
<1>. SUFFICES ASSUME DatabaseInit PROVE DatabaseTypeOK
  OBVIOUS
<1>1. remaining \in [damages : 0 .. MaxDamages, kills : 0 .. MaxKills, restores : 0 .. MaxRestores]
  BY SnapshotsAssumption DEF DatabaseInit
<1>2. snaps \in [Ids -> Directories] /\ index \subseteq Ids
  BY SnapshotStartValues DEF DatabaseInit
<1>3. sweep \in Sweepings /\ sweep.pc = "idle" /\ install \in Installs /\ install.pc = "idle"
  BY SnapshotStartValues DEF DatabaseInit, NoSweep, NoInstall
<1>. QED
  BY <1>1, <1>2, <1>3 DEF DatabaseInit, DatabaseTypeOK

\* Every variable keeps its type: a database is always sessions or no file,
\* whatever is captured, damaged, restored or removed.
THEOREM SnapshotTypes == DatabaseSpec => []DatabaseTypeOK
BY DatabaseInitIsTyped, DatabaseTypeStep, PTL DEF DatabaseSpec

-----------------------------------------------------------------------------
(* What a sweep holds.  The files of the directory it writes follow its
   program counter, and nothing rots or writes beside it.                   *)

FilesAreWritten ==
    /\ sweep.pc \in {"manifest", "append"} => snaps[sweep.id].payload = sweep.capture
    /\ sweep.pc = "append" => snaps[sweep.id].manifest = sweep.capture

SweepInv == DatabaseTypeOK /\ FilesAreWritten /\ SweptIsHeld

LEMMA SweepStep == SweepInv /\ [DatabaseNext]_databaseVars => SweepInv'
<1>. SUFFICES ASSUME SweepInv, [DatabaseNext]_databaseVars PROVE FilesAreWritten' /\ SweptIsHeld'
  BY DatabaseTypeStep DEF SweepInv
<1>. USE DEF SweepInv, FilesAreWritten, SweptIsHeld
<1>1. CASE UNCHANGED <<snaps, index, sweep>>
  BY <1>1
<1>2. ASSUME NEW i \in Ids, Rot(i) PROVE FilesAreWritten' /\ SweptIsHeld'
  BY <1>2 DEF Rot
<1>3. CASE Capture
  BY <1>3 DEF Capture, NoSweep
<1>4. CASE Unchanged
  <2>1. PICK i \in NewestSnapshot : snaps[i].manifest = sweep.capture /\ index' = index \cup {i}
    BY <1>4 DEF Unchanged, Repaired
  <2>2. snaps[i].payload = snaps[i].manifest
    BY <2>1 DEF NewestSnapshot, Intact
  <2>3. snaps' = snaps /\ sweep'.pc = "done" /\ sweep'.capture = sweep.capture
    BY <1>4 DEF Unchanged, DatabaseTypeOK, Sweepings
  <2>. QED
    BY <2>1, <2>2, <2>3
<1>5. CASE MakeDirectory
  <2>1. sweep'.pc = "payload"
    BY <1>5 DEF MakeDirectory, DatabaseTypeOK, Sweepings
  <2>. QED
    BY <2>1
<1>6. CASE WritePayload
  BY <1>6 DEF WritePayload, DatabaseTypeOK, Sweepings, Directories
<1>7. CASE WriteManifest
  BY <1>7 DEF WriteManifest, DatabaseTypeOK, Sweepings, Directories
<1>8. CASE AppendIndex
  BY <1>8 DEF AppendIndex, DatabaseTypeOK, Sweepings
<1>9. CASE EndSweep \/ KillArchiving
  BY <1>9 DEF EndSweep, KillArchiving, NoSweep
<1>10. CASE Harness \/ Restores
  BY <1>10, <1>1 DEF Harness, Start, Commit, Checkpoint, Remove, Restores, RunDatabaseRestore, LookFirst,
     ArchivedPayload, ValidateSnapshot, LookAgain, ClearSidecars, RenameIntoPlace, ReportInstalled,
     KillInstall, RestKept
<1>. QED
  BY <1>1, <1>2, <1>3, <1>4, <1>5, <1>6, <1>7, <1>8, <1>9, <1>10 DEF DatabaseNext, Sweeps, databaseVars

\* A sweep that ends without an error has a sound snapshot of what it captured,
\* with its record in the index, for any number of snapshots, kills and payloads
\* rotten before it (archive.ts: archiveDatabaseSnapshot).
THEOREM SweepsHold == DatabaseSpec => []SweptIsHeld
<1>1. DatabaseInit => SweepInv
  <2>1. DatabaseInit => DatabaseTypeOK
    BY DatabaseInitIsTyped
  <2>. QED
    BY <2>1 DEF DatabaseInit, NoSweep, SweepInv, FilesAreWritten, SweptIsHeld
<1>2. SweepInv => SweptIsHeld
  BY DEF SweepInv
<1>. QED
  BY <1>1, <1>2, SweepStep, PTL DEF DatabaseSpec

-----------------------------------------------------------------------------
(* What a restore leaves.  From its last look on, as long as no harness makes
   a database, there is none, and from the clearing on no log either.       *)

Unraced ==
    /\ install.pc \in {"clear", "rename"} /\ ~overtaken => main = NoFile
    /\ install.pc \in {"rename", "done"} /\ ~overtaken => wal = NoFile
    /\ install.pc = "done" /\ ~overtaken => main = install.bytes

Asked == install.pc \in {"lookAgain", "clear", "rename", "done"} => install.session \in install.bytes.sessions

InstallInv == DatabaseTypeOK /\ Unraced /\ Asked

LEMMA InstallStep == InstallInv /\ [DatabaseNext]_databaseVars => InstallInv'
<1>. SUFFICES ASSUME InstallInv, [DatabaseNext]_databaseVars PROVE Unraced' /\ Asked'
  BY DatabaseTypeStep DEF InstallInv
<1>. USE DEF InstallInv, Unraced, Asked
<1>1. CASE UNCHANGED <<main, wal, install, overtaken>>
  BY <1>1
<1>2. CASE Start
  BY <1>2 DEF Start, DatabaseTypeOK
<1>3. ASSUME NEW s \in Sessions, Commit(s) PROVE Unraced' /\ Asked'
  BY <1>3 DEF Commit, DatabaseTypeOK
<1>4. CASE Checkpoint
  BY <1>4 DEF Checkpoint, DatabaseTypeOK
<1>5. CASE Remove
  BY <1>5 DEF Remove, DatabaseTypeOK
<1>6. ASSUME NEW s \in Sessions, RunDatabaseRestore(s) PROVE Unraced' /\ Asked'
  <2>1. install'.pc = "look"
    BY <1>6 DEF RunDatabaseRestore, NoInstall
  <2>. QED
    BY <2>1
<1>7. CASE LookFirst
  BY <1>7 DEF LookFirst, Rejects, NoInstall, DatabaseTypeOK, Installs
<1>8. CASE ArchivedPayload
  <2>1. CASE install' = NoInstall
    BY <2>1 DEF NoInstall
  <2>2. CASE install' = [install EXCEPT !.pc = "validate", !.bytes = snaps[install.id].payload]
    <3>1. install \in Installs
      BY DEF DatabaseTypeOK
    <3>2. install'.pc = "validate"
      BY <2>2, <3>1 DEF Installs
    <3>. QED
      BY <3>2
  <2>. QED
    BY <1>8, <2>1, <2>2 DEF ArchivedPayload, Rejects
<1>9. CASE ValidateSnapshot
  BY <1>9 DEF ValidateSnapshot, Rejects, NoInstall, DatabaseTypeOK, Installs
<1>10. CASE LookAgain
  BY <1>10 DEF LookAgain, TargetIsAbsent, Rejects, NoInstall, DatabaseTypeOK, Installs
<1>11. CASE ClearSidecars
  BY <1>11 DEF ClearSidecars, LogAfterClearing, DatabaseTypeOK, Installs
<1>12. CASE RenameIntoPlace
  BY <1>12 DEF RenameIntoPlace, DatabaseTypeOK, Installs
<1>13. CASE ReportInstalled \/ KillInstall
  BY <1>13 DEF ReportInstalled, KillInstall, NoInstall
<1>14. CASE Sweeps \/ \E i \in Ids : Rot(i)
  BY <1>14, <1>1 DEF Sweeps, Capture, Unchanged, MakeDirectory, WritePayload, WriteManifest,
     AppendIndex, EndSweep, KillArchiving, Rot, Kept
<1>. QED
  BY <1>1, <1>2, <1>3, <1>4, <1>5, <1>6, <1>7, <1>8, <1>9, <1>10, <1>11, <1>12, <1>13, <1>14
     DEF DatabaseNext, Harness, Restores, databaseVars

LEMMA InstallInvariant == DatabaseSpec => []InstallInv
<1>1. DatabaseInit => InstallInv
  <2>1. DatabaseInit => DatabaseTypeOK
    BY DatabaseInitIsTyped
  <2>. QED
    BY <2>1 DEF DatabaseInit, NoInstall, InstallInv, Unraced, Asked
<1>. QED
  BY <1>1, InstallStep, PTL DEF DatabaseSpec

\* What the harness opens after a restore is the snapshot, with the session
\* asked for, whatever log an earlier database left (restore.ts:366).
THEOREM RestoresTheSnapshot == DatabaseSpec => []RestoredIsTheSnapshot
<1>1. InstallInv => RestoredIsTheSnapshot
  BY DEF InstallInv, Unraced, Asked, RestoredIsTheSnapshot, Opened
<1>. QED
  BY <1>1, InstallInvariant, PTL

\* A restore renames its file over no database that was there at its last look
\* (restore.ts:354-367).
THEOREM NothingLiveIsReplaced == DatabaseSpec => LiveDatabaseIsKept
<1>1. InstallInv => (install.pc = "rename" /\ install'.pc = "done" /\ ~overtaken => main = NoFile)
  BY DEF InstallInv, Unraced
<1>. QED
  BY <1>1, InstallInvariant, PTL DEF LiveDatabaseIsKept
=============================================================================
