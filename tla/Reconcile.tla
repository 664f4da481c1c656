------------------------------ MODULE Reconcile ------------------------------
(***************************************************************************)
(* Doctor's "reconciled" fact (apps/cli/src/doctor/reconcile.ts) over the  *)
(* archive of ArchiveSweep: it lists the live sessions, walks the archive, *)
(* reads the index and inspects the copies one at a time, while harnesses  *)
(* write and a sweep runs, is killed or has been killed.  It takes no lock *)
(* and writes nothing, so one run of it is followed.                       *)
(***************************************************************************)
EXTENDS ArchiveSweep

CONSTANTS Interval  \* config.sweep.intervalMinutes, in units of the clock

ASSUME IntervalAssumption == Interval \in Nat \ {0}

(* The statuses of the fact.                                               *)
Statuses == {"ok", "info", "problem"}

ASSUME StatusAssumption == None \notin Statuses

VARIABLE doctor  \* None, or the run of doctor:
                 \* now     context.now
                 \* sources what it listed of each session, None before
                 \* tree    the archive files it found, None before
                 \* records the index it read, None before
                 \* todo    the sessions it has not inspected yet
                 \* copies  the archive files it has not inspected yet
                 \* gaps    the sessions missing or stale
                 \* notes   is anything pending, orphaned or adrift?
                 \* status  of the fact, None before
                 \* alone   has no sweep run since it started?

reconcileVars == <<vars, doctor>>

WindowMs == 2 * Interval
AgeMs(t) == IF t <= doctor.now THEN doctor.now - t ELSE 0

IsPending(f) == AgeMs(doctor.sources[f].mtime) < WindowMs

-----------------------------------------------------------------------------
CreateDoctorContext ==
    /\ doctor = None
    /\ doctor' = [now |-> clock, sources |-> None, tree |-> None, records |-> None,
                  todo |-> {}, copies |-> {}, gaps |-> {}, notes |-> FALSE,
                  status |-> None, alone |-> pc = "idle"]
    /\ UNCHANGED vars

ListSources ==
    /\ doctor # None /\ doctor.sources = None
    /\ doctor' = [doctor EXCEPT !.sources = source,
                                !.todo = {f \in Files : source[f] # None}]
    /\ UNCHANGED vars

Reading == doctor # None /\ doctor.sources # None /\ doctor.status = None

(* Promise.all: the walk and the index, in either order.                   *)
WalkFiles ==
    /\ Reading /\ doctor.tree = None
    /\ LET found == {f \in Files : stored[f] # None} IN
       doctor' = [doctor EXCEPT !.tree = found, !.copies = found]
    /\ UNCHANGED vars

ReadDerivedIndex ==
    /\ Reading /\ doctor.records = None
    /\ doctor' = [doctor EXCEPT !.records = Read]
    /\ UNCHANGED vars

Inspecting == Reading /\ doctor.tree # None /\ doctor.records # None

(* Mutant: a copy that is there is taken for current.                      *)
MissingOnly(f) == stored[f] = None

(* The copy is missing, or stale by the rule of the sweep itself.          *)
MissingOrStale(f) == ShouldArchive(doctor.sources[f], stored[f], doctor.records[f])

InspectSource(f) ==
    /\ Inspecting /\ f \in doctor.todo
    /\ doctor' = [doctor EXCEPT
          !.todo = @ \ {f},
          !.gaps = IF MissingOrStale(f) /\ ~IsPending(f) THEN @ \cup {f} ELSE @,
          !.notes = @ \/ MissingOrStale(f)]
    /\ UNCHANGED vars

(* The session is no longer in its store.                                  *)
Orphaned(f) == source[f] = None

(* The copy has no record, or one of another size or time.                 *)
Drifts(f) ==
    \/ doctor.records[f] = None
    \/ doctor.records[f].version # stored[f].version
    \/ doctor.records[f].mtime # stored[f].mtime

InspectCopy(f) ==
    /\ Inspecting /\ doctor.todo = {} /\ f \in doctor.copies
    /\ doctor' = [doctor EXCEPT !.copies = @ \ {f}, !.notes = @ \/ Orphaned(f) \/ Drifts(f)]
    /\ UNCHANGED vars

MissingFromTree == {f \in Files : doctor.records[f] # None} \ doctor.tree

(* The answer is all that is left of the run.                              *)
CheckReconciled ==
    /\ Inspecting /\ doctor.todo = {} /\ doctor.copies = {}
    /\ doctor' = [doctor EXCEPT
          !.tree = None, !.records = None, !.gaps = {}, !.notes = FALSE,
          !.status = IF doctor.gaps # {} \/ MissingFromTree # {} THEN "problem"
                     ELSE IF doctor.notes THEN "info" ELSE "ok"]
    /\ UNCHANGED vars

-----------------------------------------------------------------------------
DoctorStep ==
    \/ CreateDoctorContext \/ ListSources \/ WalkFiles \/ ReadDerivedIndex \/ CheckReconciled
    \/ \E f \in Files : InspectSource(f) \/ InspectCopy(f)

(* A sweep beside doctor, or after it.                                     *)
Beside(A) ==
    /\ A
    /\ doctor' = IF doctor = None \/ pc' = "idle" THEN doctor
                 ELSE [doctor EXCEPT !.alone = FALSE]

ReconcileInit == Init /\ doctor = None

ReconcileNext == Beside(Next) \/ DoctorStep

(* As in ArchiveSweep, the sweep goes on; nothing says when doctor is run. *)
ReconcileSpec ==
    ReconcileInit /\ [][ReconcileNext]_reconcileVars /\ WF_reconcileVars(Beside(Step))

-----------------------------------------------------------------------------
Concluded == doctor # None /\ doctor.status # None /\ doctor.alone /\ faults = 0
OldSources == {f \in Files : doctor.sources[f] # None /\ ~IsPending(f)}

(* Unless doctor says problem, every session it listed that was older than *)
(* the window is archived at least as listed; and when it has nothing at   *)
(* all to say, the record of every copy is that of its bytes.              *)
AllClearIsTrue ==
    Concluded =>
        /\ doctor.status # "problem" =>
              \A f \in OldSources :
                 stored[f] # None /\ stored[f].version >= doctor.sources[f].version
        /\ doctor.status = "ok" =>
              \A f \in Files : stored[f] # None =>
                 Read[f] # None /\ Read[f].version = stored[f].version

(* A problem means that the archive or its index is behind a session that  *)
(* was written longer ago than the window.                                 *)
AlarmIsTrue ==
    Concluded /\ doctor.status = "problem" =>
        \E f \in OldSources :
            LET listed == doctor.sources[f] IN
            /\ doctor.now - listed.mtime >= WindowMs
            /\ \/ stored[f] = None \/ stored[f].version < listed.version
               \/ Read[f] # None /\ Read[f].size # listed.version

(* Doctor proves "the schedule is alive and nothing is being missed"       *)
(* (retrieval-design.md:402), and "new changes inside the normal sync      *)
(* window are pending, not missed" (doctor.tsx:33): beside no sweep and    *)
(* after no fault it neither overlooks a gap nor reports one that is not   *)
(* there, although harnesses keep writing and it compares times and sizes  *)
(* taken at different moments.                                             *)
DoctorIsRight == AllClearIsTrue /\ AlarmIsTrue
=============================================================================
