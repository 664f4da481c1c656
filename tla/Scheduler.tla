----------------------------- MODULE Scheduler -----------------------------
(***************************************************************************)
(* The hourly job of a machine: what init writes, what the operating       *)
(* system has loaded, the marker that says a job was activated, the        *)
(* uninstall, and what doctor reads of it (apps/cli/src/schedule/,         *)
(* core/setup.ts, doctor/facts.ts).                                        *)
(*                                                                         *)
(* A step is one call to the operating system, so that a command may be    *)
(* killed between any two.  An artifact is the version of Node its command *)
(* line names, 0 when the file is absent; a loaded job is the version its  *)
(* scheduler read.  The module is the part of Setup about the schedule.    *)
(***************************************************************************)
EXTENDS Integers, FiniteSets

CONSTANTS
    None,
    Window          \* windowMs: two sweep intervals, in hours

VARIABLES
    platform,
    reach,          \* what the environment of the commands gives access to
    disk,           \* the artifacts and the activation marker
    jobs,           \* what launchd, the user manager and cron run
    runtime,        \* the version of Node that is installed
    age,            \* hours since last-success.json, at most Window
    cmd,            \* the packbat command that is running, or None
    last,           \* the last command that ended, and how, or None
    dirty           \* a job may run that no marker tells of: an activation
                    \* was cut short, or a login loaded one init had not

schedulerVars == <<platform, reach, disk, jobs, runtime, age, cmd, last, dirty>>
files == <<disk, jobs>>
surroundings == <<platform, reach, runtime, age>>

Files == {"plist", "service", "timer", "link", "cron", "marker"}
Kinds == {"launchd", "systemd", "cron"}

(* A command: its options, where it is, the recipient of the configuration *)
(* it read (0 when off-box is skipped) and the key its wizard is handling. *)
Idle == [op |-> "init", activate |-> FALSE, at |-> "load", offbox |-> "keep", recipient |-> 0, key |-> 0]

Present(f) == disk[f] # 0
Without(gone) == [f \in Files |-> IF f \in gone THEN 0 ELSE disk[f]]
With(new, version) == [f \in Files |-> IF f \in new THEN version ELSE disk[f]]

ScheduleKind ==
    IF platform = "darwin" THEN "launchd"
    ELSE IF {"systemctl", "manager"} \subseteq reach THEN "systemd" ELSE "cron"

At(stage) == cmd # None /\ cmd.at = stage
Goto(stage) == cmd' = [cmd EXCEPT !.at = stage] /\ UNCHANGED <<last, dirty>>
End(ok) ==
    /\ cmd' = None
    /\ last' = [op |-> cmd.op, activate |-> cmd.activate, ok |-> ok]
    /\ dirty' = (dirty /\ ~(ok /\ cmd.activate /\ \A k \in Kinds \ {ScheduleKind} : jobs[k] = 0))

(* A call that fails ends the command: packbat reports it and exits.       *)
Fail == End(FALSE)

Artifacts(kind) ==
    CASE kind = "launchd" -> {"plist"}
      [] kind = "systemd" -> {"service", "timer"}
      [] kind = "cron" -> {"cron"}

-----------------------------------------------------------------------------
(* Deactivation, of an init that activates or finds the marker, and of an  *)
(* uninstall on Linux.                                                     *)

(* Mutant: an init that does not activate leaves what was active.          *)
DeactivateToActivate ==
    /\ At("schedule")
    /\ Goto(IF cmd.activate THEN "deactivate" ELSE "install")
    /\ UNCHANGED <<files, surroundings>>

InstallInitSchedule ==
    /\ At("schedule")
    /\ Goto(IF cmd.activate \/ Present("marker") THEN "deactivate" ELSE "install")
    /\ UNCHANGED <<files, surroundings>>

DeactivateLaunchd ==
    /\ At("deactivate") /\ platform = "darwin" /\ cmd.op # "uninstall"
    /\ jobs' = IF Present("plist") \/ Present("marker")
               THEN [jobs EXCEPT !["launchd"] = 0] ELSE jobs
    /\ Goto("unmark")
    /\ UNCHANGED <<disk, surroundings>>

SystemctlForRemoval == reach \cap {"systemctl", "standard"} # {}

(* disable --now needs the user manager; without the enablement link its   *)
(* failure is ignored.                                                     *)
MustDisable == {"service", "timer", "link"} \cap {f \in Files : Present(f)} # {}
               /\ (Present("marker") \/ Present("link"))

DisableTimer ==
    /\ At("deactivate") /\ platform = "linux"
    /\ IF ~MustDisable \/ (~Present("link") /\ ~(SystemctlForRemoval /\ "manager" \in reach))
       THEN Goto("strip") /\ UNCHANGED files
       ELSE IF SystemctlForRemoval /\ "manager" \in reach
       THEN /\ jobs' = [jobs EXCEPT !["systemd"] = 0]
            /\ disk' = Without({"link"})
            /\ Goto("strip")
       ELSE Fail /\ UNCHANGED files
    /\ UNCHANGED surroundings

StripActivatedCron ==
    /\ At("strip")
    /\ LET next == IF cmd.op = "uninstall" THEN "remove" ELSE "unmark" IN
       IF ~Present("marker") \/ ~Present("cron") THEN Goto(next) /\ UNCHANGED jobs
       ELSE IF "crontab" \in reach
       THEN Goto(next) /\ jobs' = [jobs EXCEPT !["cron"] = 0]
       ELSE Fail /\ UNCHANGED jobs
    /\ UNCHANGED <<disk, surroundings>>

Unmark ==
    /\ At("unmark")
    /\ disk' = Without({"marker"})
    /\ Goto("install")
    /\ UNCHANGED <<jobs, surroundings>>

-----------------------------------------------------------------------------
(* Installation and activation.                                            *)

InstallSchedule ==
    /\ At("install")
    /\ disk' = With(Artifacts(ScheduleKind), runtime)
    /\ Goto(IF cmd.activate THEN "activate" ELSE "scheduled")
    /\ UNCHANGED <<jobs, surroundings>>

ActivateLaunchd ==
    /\ At("activate") /\ ScheduleKind = "launchd"
    /\ \/ jobs' = [jobs EXCEPT !["launchd"] = disk["plist"]] /\ Goto("mark")
       \/ jobs' = [jobs EXCEPT !["launchd"] = 0] /\ Fail
    /\ UNCHANGED <<disk, surroundings>>

ActivateSystemd ==
    /\ At("activate") /\ ScheduleKind = "systemd"
    /\ \/ /\ jobs' = [jobs EXCEPT !["systemd"] = disk["service"]]
          /\ disk' = With({"link"}, 1)
          /\ Goto("stripOld")
       \/ Fail /\ UNCHANGED files
    /\ UNCHANGED surroundings

(* Mutant: only the artifact is removed, not the entry.                    *)
DropCronFile ==
    /\ At("stripOld")
    /\ disk' = Without({"cron"})
    /\ Goto("mark")
    /\ UNCHANGED <<jobs, surroundings>>

StripInstalledCron ==
    /\ At("stripOld")
    /\ jobs' = IF "crontab" \in reach THEN [jobs EXCEPT !["cron"] = 0] ELSE jobs
    /\ disk' = Without({"cron"})
    /\ Goto("mark")
    /\ UNCHANGED surroundings

ActivateCron ==
    /\ At("activate") /\ ScheduleKind = "cron"
    /\ IF "crontab" \in reach
       THEN jobs' = [jobs EXCEPT !["cron"] = disk["cron"]] /\ Goto("dropUnits")
       ELSE Fail /\ UNCHANGED jobs
    /\ UNCHANGED <<disk, surroundings>>

DropUnits ==
    /\ At("dropUnits")
    /\ disk' = Without({"service", "timer", "link"})
    /\ Goto("mark")
    /\ UNCHANGED <<jobs, surroundings>>

ActivateSchedule ==
    /\ At("mark")
    /\ disk' = With({"marker"}, 1)
    /\ Goto("scheduled")
    /\ UNCHANGED <<jobs, surroundings>>

-----------------------------------------------------------------------------
(* init --uninstall.                                                       *)

StartUninstall ==
    /\ cmd = None
    /\ cmd' = [Idle EXCEPT !.op = "uninstall", !.at = "deactivate"]
    /\ last' = None
    /\ UNCHANGED <<files, surroundings, dirty>>

UninstallLaunchd ==
    /\ At("deactivate") /\ platform = "darwin" /\ cmd.op = "uninstall"
    /\ jobs' = IF Present("marker") THEN [jobs EXCEPT !["launchd"] = 0] ELSE jobs
    /\ Goto("remove")
    /\ UNCHANGED <<disk, surroundings>>

RemoveArtifacts ==
    /\ At("remove")
    /\ disk' = Without(IF platform = "darwin" THEN {"plist", "cron", "marker"} ELSE Files \ {"plist"})
    /\ Goto("stripAll")
    /\ UNCHANGED <<jobs, surroundings>>

UninstallLinux ==
    /\ At("stripAll")
    /\ jobs' = IF platform = "linux" /\ "crontab" \in reach THEN [jobs EXCEPT !["cron"] = 0] ELSE jobs
    /\ End(TRUE)
    /\ UNCHANGED <<disk, surroundings>>

-----------------------------------------------------------------------------
(* What happens around the commands.                                       *)

(* launchd loads every agent of the directory, the user manager starts the *)
(* timers linked for it, and a crontab stays.                              *)
AfterLogin ==
    [k \in Kinds |->
        CASE k = "launchd" -> disk["plist"]
          [] k = "systemd" -> IF Present("link") /\ Present("timer") THEN disk["service"] ELSE 0
          [] k = "cron" -> jobs["cron"]]

Login ==
    /\ jobs' = AfterLogin
    /\ dirty' = (dirty \/ cmd # None \/ (Present("plist") /\ ~Present("marker")))
    /\ cmd' = None
    /\ last' = None
    /\ UNCHANGED <<disk, surroundings>>

(* A kill may leave the artifacts of an installation half written.         *)
KillCommand ==
    /\ cmd # None
    /\ IF cmd.at = "install"
       THEN \E some \in SUBSET Artifacts(ScheduleKind) : disk' = With(some, runtime)
       ELSE disk' = disk
    /\ cmd' = None
    /\ last' = None
    /\ dirty' = TRUE
    /\ UNCHANGED <<jobs, surroundings>>

(* The next version of Node is installed and the old path is removed.      *)
Upgrade ==
    /\ cmd = None
    /\ runtime' = runtime + 1
    /\ last' = None
    /\ UNCHANGED <<files, cmd, dirty, platform, reach, age>>

(* The commands are run from another shell: over SSH, with another PATH.   *)
AnotherShell(r) ==
    /\ cmd = None /\ platform = "linux" /\ r # reach
    /\ reach' = r
    /\ last' = None
    /\ UNCHANGED <<files, cmd, dirty, platform, runtime, age>>

Runs == \E k \in Kinds : jobs[k] = runtime

(* An hour passes: a job whose command line exists sweeps, and the sweep   *)
(* that succeeds is stamped.                                               *)
Hour ==
    /\ \/ Runs /\ age' = 0
       \/ age' = IF age < Window THEN age + 1 ELSE age
    /\ UNCHANGED <<files, cmd, last, dirty, platform, reach, runtime>>

-----------------------------------------------------------------------------
(* What doctor says of the schedule.                                       *)

HasSystemdArtifact == Present("service") \/ Present("timer")

CheckedKind ==
    CASE platform = "darwin" -> "launchd"
      [] platform = "linux" /\ HasSystemdArtifact /\ ~Present("cron") -> "systemd"
      [] platform = "linux" /\ ~HasSystemdArtifact /\ Present("cron") -> "cron"
      [] OTHER -> IF "systemctl" \in reach THEN "systemd" ELSE "cron"

(* The schedule doctor reads, and the executables it names.                *)
Readable == \A f \in Artifacts(CheckedKind) : Present(f)
CheckInstalled == Readable /\ \A f \in Artifacts(CheckedKind) \ {"timer"} : disk[f] = runtime

CheckLaunchdLive == jobs["launchd"] # 0
CheckSystemdLive ==
    /\ {"systemctl", "manager"} \subseteq reach
    /\ Present("timer") /\ Present("link") /\ jobs["systemd"] # 0
CheckCronLive == "crontab" \in reach /\ jobs["cron"] # 0

CheckLive ==
    /\ Readable
    /\ CASE CheckedKind = "launchd" -> CheckLaunchdLive
         [] CheckedKind = "systemd" -> CheckSystemdLive
         [] CheckedKind = "cron" -> CheckCronLive

(* Mutant: the last success may be as old as the window, or older.         *)
CheckStamp == age <= Window

CheckFresh == age < Window

Scheduled == CheckInstalled /\ CheckLive
DoctorOk == Scheduled /\ CheckFresh
=============================================================================
