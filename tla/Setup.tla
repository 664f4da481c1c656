------------------------------- MODULE Setup -------------------------------
(***************************************************************************)
(* Setting a machine up: init and its wizard over the schedule, the        *)
(* configuration, the age identity and the recovery kit, the migration of  *)
(* a version 1 configuration by whichever command reads it first, and the  *)
(* Cloud link beside them (apps/cli/src/commands/init.ts,                  *)
(* core/init-wizard.ts, core/setup.ts, core/config.ts, cloud/manage.ts).   *)
(*                                                                         *)
(* Three commands may run at a time: an init or uninstall (cmd), one that  *)
(* only reads the configuration, as the scheduled sync does ("job"), and a *)
(* cloud link.  Nothing locks the configuration.                           *)
(***************************************************************************)
EXTENDS Scheduler

CONSTANT Instances  \* bounds and starting point of each instance: platform,
                    \* reaches, ops, offbox answers, legacy, and how many
                    \* commands, kills, logins, upgrades, changes of shell,
                    \* keys and links there are

Commands == {"init", "wizard", "uninstall"}
Answers == {"keep", "skip", "remote"}
Counters == {"commands", "kills", "logins", "upgrades", "shells", "keys", "links"}

InstanceTypes ==
    [platform : {"darwin", "linux"}, reaches : SUBSET SUBSET STRING, ops : SUBSET Commands,
     offbox : SUBSET Answers, legacy : BOOLEAN, commands : Nat, kills : Nat, logins : Nat,
     upgrades : Nat, shells : Nat, keys : Nat, links : Nat]

Configurations == [v : {1, 2}, recipient : Nat, remotes : SUBSET {"own", "cloud"}]

Stages ==
    {"schedule", "deactivate", "strip", "remove", "unmark", "install", "activate", "stripOld",
     "dropUnits", "mark", "stripAll", "scheduled"}

Running ==
    [op : Commands, activate : BOOLEAN,
     at : Stages \cup {"load", "write", "deliver", "configure", "offbox"},
     offbox : Answers, recipient : Nat, key : Nat]

ASSUME InstancesAssumption ==
    Instances \subseteq InstanceTypes /\ None \notin Configurations /\ None \notin Running

VARIABLES
    left,           \* the instance, and what is left of its bounds
    config,         \* config.json, or None
    resident,       \* the key of the resident identity file, 0 when there is none
    kits,           \* the keys in recovery kits, or in the user's keeping
    used,           \* the recipients config.json has named
    ledger,         \* where the state of the version 1 remote is
    loads,          \* the loadConfig of each reader that found version 1, or None
    link            \* the Cloud link: the configuration it read, or None

setupVars == <<config, resident, kits, used, ledger, loads, link>>
vars == <<schedulerVars, setupVars, left>>

Readers == {"cli", "job"}
Items == <<"uploaded", "success", "outbox">>
ItemNames == {"uploaded", "success", "outbox"}
Keys == 1..(left.keys + 1)    \* key 1 is the user's from the start

(* recipient 0 stands for mode "skipped"; remotes hold "own" for an rclone *)
(* remote and "cloud".                                                     *)
Configured(recipient, remotes) == [v |-> 2, recipient |-> recipient, remotes |-> remotes]
SkippedOffbox == Configured(0, {})

Spend(what) == left[what] > 0 /\ left' = [left EXCEPT ![what] = @ - 1]

Init ==
    /\ left \in Instances
    /\ platform = left.platform
    /\ reach \in left.reaches
    /\ disk = [f \in Files |-> 0]
    /\ jobs = [k \in Kinds |-> 0]
    /\ runtime = 1
    /\ age = Window
    /\ cmd = None /\ last = None /\ dirty = FALSE
    /\ config = IF left.legacy THEN [v |-> 1, recipient |-> 1, remotes |-> {"own"}] ELSE None
    /\ resident = IF left.legacy THEN 1 ELSE 0
    /\ kits = {1}
    /\ used = IF left.legacy THEN {1} ELSE {}
    /\ ledger = [i \in ItemNames |-> IF left.legacy THEN {"legacy"} ELSE {}]
    /\ loads = [r \in Readers |-> None]
    /\ link = None

(* saveConfig: one rename.                                                 *)
SaveConfig(c) == config' = c /\ used' = used \cup ({c.recipient} \ {0})

-----------------------------------------------------------------------------
(* loadConfig, and the migration of a version 1 configuration.             *)

(* What a reader does with the configuration once it has it.               *)
Loaded(r, c) ==
    IF r = "job" THEN UNCHANGED <<cmd, last, dirty>>
    ELSE /\ cmd' = [cmd EXCEPT !.at = "write", !.recipient = IF c = None THEN 0 ELSE c.recipient]
         /\ UNCHANGED <<last, dirty>>

LoadConfig(r) ==
    /\ loads[r] = None
    /\ (r = "cli" => At("load"))
    /\ (r = "job" => config # None)
    /\ IF config # None /\ config.v = 1
       THEN /\ loads' = [loads EXCEPT ![r] = [seen |-> config, item |-> 1, move |-> FALSE]]
            /\ UNCHANGED <<cmd, last, dirty>>
       ELSE r = "cli" /\ Loaded(r, config) /\ UNCHANGED loads
    /\ UNCHANGED <<files, surroundings, config, resident, kits, used, ledger, link, left>>

Item(r) == Items[loads[r].item]
NextItem(r) ==
    LET load == loads[r] IN
    [loads EXCEPT ![r] = [load EXCEPT !.item = load.item + 1, !.move = FALSE]]

(* The piece is looked for at both places, and moved, or removed where the *)
(* new place has one, at the next step.                                    *)
LookForState(r) ==
    /\ loads[r] # None /\ loads[r].item \in DOMAIN Items /\ ~loads[r].move
    /\ IF "legacy" \in ledger[Item(r)]
       THEN loads' = [loads EXCEPT ![r].move = TRUE]
       ELSE loads' = NextItem(r)
    /\ UNCHANGED <<schedulerVars, config, resident, kits, used, ledger, link, left>>

MigrateLegacyState(r) ==
    /\ loads[r] # None /\ loads[r].move
    /\ IF "legacy" \in ledger[Item(r)]
       THEN /\ ledger' = [ledger EXCEPT ![Item(r)] = {"current"}]
            /\ loads' = NextItem(r)
            /\ UNCHANGED <<cmd, last, dirty>>
       ELSE /\ UNCHANGED ledger    \* another reader moved it: ENOENT
            /\ loads' = [loads EXCEPT ![r] = None]
            /\ IF r = "cli" THEN Fail ELSE UNCHANGED <<cmd, last, dirty>>
    /\ UNCHANGED <<files, surroundings, config, resident, kits, used, link, left>>

(* Mutant: the configuration is saved before the state is moved.           *)
SavesFirst(r) == loads[r] # None

StateIsMoved(r) == loads[r] # None /\ loads[r].item \notin DOMAIN Items

MigrateLegacyConfig(r) ==
    /\ StateIsMoved(r)
    /\ LET migrated == [loads[r].seen EXCEPT !.v = 2] IN
       SaveConfig(migrated) /\ Loaded(r, migrated)
    /\ loads' = [loads EXCEPT ![r] = None]
    /\ UNCHANGED <<files, surroundings, resident, kits, ledger, link, left>>

-----------------------------------------------------------------------------
(* init --yes, and the first half of the wizard.                           *)

(* parseOptions: --uninstall stands alone, and a remote comes with its     *)
(* destination and a recipient, one of the user's.                         *)
StartInit ==
    /\ cmd = None /\ Spend("commands")
    /\ \E op \in left.ops \ {"uninstall"}, activate \in BOOLEAN, offbox \in left.offbox, k \in kits :
          /\ op = "wizard" => (offbox = "keep" /\ k = 1)
          /\ offbox # "remote" => k = 1
          /\ cmd' = [Idle EXCEPT !.op = op, !.activate = activate, !.offbox = offbox, !.key = k]
    /\ last' = None /\ UNCHANGED dirty
    /\ UNCHANGED <<files, surroundings, setupVars>>

Uninstall ==
    /\ "uninstall" \in left.ops /\ Spend("commands") /\ StartUninstall
    /\ UNCHANGED setupVars

(* The configuration with the off-box part that was asked for.             *)
WithOffbox(c) ==
    CASE cmd.offbox = "remote" -> Configured(cmd.key, {"own"})
      [] cmd.offbox = "skip" \/ c = None -> SkippedOffbox
      [] OTHER -> c

(* existsSync, loadConfig and saveConfig, with no await between them.      *)
WriteInitConfig ==
    /\ At("write")
    /\ config # None => config.v = 2
    /\ SaveConfig(WithOffbox(config))
    /\ \/ /\ cmd' = [cmd EXCEPT !.at = "schedule", !.recipient = WithOffbox(config).recipient]
          /\ UNCHANGED <<last, dirty>>
       \/ cmd.op = "wizard" /\ Fail    \* "Install this schedule?": no, or cancelled
    /\ UNCHANGED <<files, surroundings, resident, kits, ledger, loads, link, left>>

(* The first sync, and doctor; either's exit code becomes init's.          *)
FinishInit ==
    /\ At("scheduled") /\ cmd.op = "init"
    /\ age' \in {0, age}
    /\ End(TRUE)
    /\ UNCHANGED <<files, platform, reach, runtime, setupVars, left>>

-----------------------------------------------------------------------------
(* The off-box half of the wizard: configureOffbox.                        *)

CancelWizard ==
    /\ \E stage \in {"scheduled", "deliver", "configure"} : At(stage)
    /\ cmd.op = "wizard" /\ Fail
    /\ UNCHANGED <<files, surroundings, setupVars, left>>

ResidentIdentityMatching(recipient) == resident = recipient

(* The identities a user can paste, or read from a kit: any other text is  *)
(* asked for again.                                                        *)
ImportRecoveryIdentity == kits

(* Off-box is configured already: the resident identity must match, or one *)
(* is imported that does.                                                  *)
MatchResident ==
    /\ At("scheduled") /\ cmd.op = "wizard" /\ cmd.recipient # 0
    /\ ResidentIdentityMatching(cmd.recipient) \/ cmd.recipient \in ImportRecoveryIdentity
    /\ resident' = cmd.recipient
    /\ End(TRUE)
    /\ UNCHANGED <<files, surroundings, config, kits, used, ledger, loads, link, left>>

(* "Skip for now", or rclone could not be installed.                       *)
SkipOffbox ==
    /\ At("scheduled") /\ cmd.op = "wizard" /\ cmd.recipient = 0
    /\ SaveConfig(SkippedOffbox)
    /\ End(TRUE)
    /\ UNCHANGED <<files, surroundings, resident, kits, ledger, loads, link, left>>

(* A destination was chosen; the key is minted, or joined from a kit.      *)
ChooseKey ==
    /\ At("scheduled") /\ cmd.op = "wizard" /\ cmd.recipient = 0
    /\ \/ \E k \in ImportRecoveryIdentity : cmd' = [cmd EXCEPT !.at = "configure", !.key = k]
       \/ \E k \in Keys \ (kits \cup used \cup {resident}) :
             cmd' = [cmd EXCEPT !.at = "deliver", !.key = k]
    /\ UNCHANGED <<files, surroundings, last, dirty, setupVars, left>>

(* Mutant: a cancelled or failed delivery is passed over.                  *)
DeliveryPassedOver ==
    /\ At("deliver")
    /\ Goto("configure")
    /\ UNCHANGED <<files, surroundings, config, kits, resident, used, ledger, loads, link, left>>

(* The kit is printed, or saved to a new file and read back.               *)
DeliverRecoveryKit ==
    /\ At("deliver")
    /\ kits' = kits \cup {cmd.key}
    /\ Goto("configure")
    /\ UNCHANGED <<files, surroundings, config, resident, used, ledger, loads, link, left>>

(* selected.configure(), which may fail (CancelWizard), then the identity. *)
WriteIdentity ==
    /\ At("configure")
    /\ resident' = cmd.key
    /\ Goto("offbox")
    /\ UNCHANGED <<files, surroundings, config, kits, used, ledger, loads, link, left>>

(* The configuration is read again, but its off-box part replaced.         *)
WriteOffbox ==
    /\ At("offbox")
    /\ SaveConfig(Configured(cmd.key, {"own"}))
    /\ End(TRUE)
    /\ UNCHANGED <<files, surroundings, resident, kits, ledger, loads, link, left>>

-----------------------------------------------------------------------------
(* packbat cloud, which keeps the configuration it read through the device *)
(* flow and the checkout.                                                  *)

AddCloudRemote ==
    /\ link = None /\ config # None /\ config.v = 2 /\ config.recipient # 0
    /\ "cloud" \notin config.remotes
    /\ Spend("links")
    /\ link' = config
    /\ UNCHANGED <<schedulerVars, config, resident, kits, used, ledger, loads>>

LinkCloudRemote ==
    /\ link # None
    /\ SaveConfig([link EXCEPT !.remotes = @ \cup {"cloud"}])
    /\ link' = None
    /\ UNCHANGED <<schedulerVars, resident, kits, ledger, loads, left>>

(* --restore-from: the account comes first, then config.json is looked at. *)
AddFromRecoveryKit ==
    /\ Spend("links")
    /\ \E k \in kits :
          IF config = None \/ (config.v = 2 /\ config.recipient = 0)
          THEN SaveConfig(Configured(k, {"cloud"}))
          ELSE /\ config.v = 2 /\ config.recipient = k
               /\ SaveConfig([config EXCEPT !.remotes = @ \cup {"cloud"}])
    /\ UNCHANGED <<schedulerVars, resident, kits, ledger, loads, link>>

UnlinkCloudRemote ==
    /\ Spend("links")
    /\ config # None /\ config.v = 2 /\ config.recipient # 0
    /\ LET remotes == config.remotes \ {"cloud"} IN
       SaveConfig(IF remotes = {} THEN SkippedOffbox ELSE [config EXCEPT !.remotes = remotes])
    /\ UNCHANGED <<schedulerVars, resident, kits, ledger, loads, link>>

-----------------------------------------------------------------------------
ScheduleStep ==
    /\ \/ InstallInitSchedule \/ DeactivateLaunchd \/ DisableTimer \/ StripActivatedCron \/ Unmark
       \/ InstallSchedule \/ ActivateLaunchd \/ ActivateSystemd \/ StripInstalledCron
       \/ ActivateCron \/ DropUnits \/ ActivateSchedule
       \/ UninstallLaunchd \/ RemoveArtifacts \/ UninstallLinux
    /\ UNCHANGED <<setupVars, left>>

HourPasses == Hour /\ UNCHANGED <<setupVars, left>>

Surroundings ==
    /\ \/ Spend("logins") /\ Login
       \/ Spend("kills") /\ KillCommand
       \/ Spend("upgrades") /\ Upgrade
       \/ Spend("shells") /\ \E r \in left.reaches : AnotherShell(r)
    /\ loads' = [loads EXCEPT !["cli"] = IF cmd' = None THEN None ELSE @]
    /\ UNCHANGED <<config, resident, kits, used, ledger, link>>

KillReader ==
    /\ loads["job"] # None /\ Spend("kills")
    /\ loads' = [loads EXCEPT !["job"] = None]
    /\ UNCHANGED <<schedulerVars, config, resident, kits, used, ledger, link>>

Next ==
    \/ StartInit \/ Uninstall \/ ScheduleStep \/ HourPasses
    \/ \E r \in Readers :
          LoadConfig(r) \/ LookForState(r) \/ MigrateLegacyState(r) \/ MigrateLegacyConfig(r)
    \/ WriteInitConfig \/ FinishInit
    \/ CancelWizard \/ MatchResident \/ SkipOffbox \/ ChooseKey
    \/ DeliverRecoveryKit \/ WriteIdentity \/ WriteOffbox
    \/ AddCloudRemote \/ LinkCloudRemote \/ AddFromRecoveryKit \/ UnlinkCloudRemote
    \/ Surroundings \/ KillReader

(* Hours pass.                                                             *)
Spec == Init /\ [][Next]_vars /\ WF_vars(HourPasses)
-----------------------------------------------------------------------------
(* What the commands know of the configuration keeps its type, whatever    *)
(* they hold of it while another one writes it.                            *)
TypeOK ==
    /\ left \in InstanceTypes
    /\ cmd \in Running \cup {None}
    /\ config \in Configurations \cup {None} /\ link \in Configurations \cup {None}
    /\ loads \in [Readers -> [seen : Configurations, item : 1..4, move : BOOLEAN] \cup {None}]
    /\ resident \in Nat /\ kits \subseteq Nat /\ used \subseteq Nat
    /\ ledger \in [ItemNames -> {{}, {"legacy"}, {"current"}}]

(* The machine is scheduled once or not at all (core/setup.ts: deactivate, *)
(* install, activate; scheduler.ts: the uninstall).  After an activation   *)
(* the job of this platform is loaded, runs today's Node, and doctor finds *)
(* it; no other job is loaded, and after an uninstall none and no artifact *)
(* is left: but for a crontab the shell cannot reach, and for a job loaded *)
(* without the marker being written, which an init that only installs      *)
(* leaves running and the uninstall leaves in launchd.                     *)
OneSchedule ==
    last # None /\ last.ok =>
        /\ (last.activate => jobs[ScheduleKind] = runtime /\ Scheduled)
        /\ \A k \in Kinds : jobs[k] # 0 =>
              \/ last.activate /\ k = ScheduleKind
              \/ k = "cron" /\ "crontab" \notin reach
              \/ dirty /\ (IF last.op = "uninstall" THEN k = "launchd" ELSE ~last.activate)
        /\ (last.op = "uninstall" => \A f \in Files : ~Present(f))

(* Doctor is not fooled: when it has no complaint about the schedule, the  *)
(* next sweep will run, unless a command was cut short on the way.         *)
DoctorSeesTheJob == cmd = None /\ Scheduled => Runs \/ dirty

(* What the uploads were encrypted to can be decrypted: every recipient    *)
(* config.json has ever named is the resident identity's or in a kit       *)
(* (init-wizard.ts: the kit is delivered before the key is used), however  *)
(* many wizards were cut short or mint over one another.                   *)
IdentityIsKept == used \subseteq kits \cup {resident}

(* The migration leaves no state behind: once config.json is of version 2, *)
(* ledger, stamp and outbox are where the remote looks for them, whoever   *)
(* migrated them and wherever it was killed (config.ts: migrateLegacyState *)
(* before saveConfig).                                                     *)
LedgerFollowsConfig ==
    left.legacy /\ config.v = 2 => \A i \in ItemNames : ledger[i] = {"current"}

(* A sweep that can no longer run is noticed: doctor, or the next command, *)
(* does not report a machine as healthy for ever while nothing sweeps      *)
(* (facts.ts: checkFresh).                                                 *)
SilenceIsReported == ~Runs ~> (Runs \/ ~DoctorOk)
=============================================================================
